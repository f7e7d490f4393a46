--------------------------- MODULE SitePodsProofs ---------------------------
(***************************************************************************)
(* What holds of SitePods for every number of pods, nodes, edits and       *)
(* faults, and for every strategy and persistence.                         *)
(***************************************************************************)
EXTENDS SitePods, FiniteSetTheorems, TLAPS

\* A config that was written is at most as new as what the pass under way is going
\* to write, and that is at most as new as the spec; a pass past its ConfigMaps has
\* written them.
ConfigsOrdered ==
    \A f \in ConfigFiles :
        /\ config[f] \in Contents => config[f] <= spec.config[f]
        /\ spec.config[f] <= edits
        /\ pos # 0 => /\ work.config[f] <= spec.config[f]
                      /\ config[f] \in Contents => config[f] <= work.config[f]
        /\ (pos = 3 \/ (pos = 2 /\ f = "nginx")) => config[f] = work.config[f]

\* A template is never ahead of the ConfigMaps, nor of the files of its containers.
NotAhead(t) ==
    \A f \in ConfigFiles : config[f] \in Contents /\ t.hash[f] <= config[f]

HashesCovered ==
    /\ deploy # NoObject => NotAhead(deploy.template)
    /\ \A p \in PodNames : Exists(p) =>
        /\ NotAhead(pods[p].template)
        /\ \A f \in ConfigFiles :
            pods[p].mounted[f] # NoObject => pods[p].template.hash[f] <= pods[p].mounted[f]

\* The strategy is never edited, and the pass carries it to the Deployment.
StrategyCarried ==
    /\ pos # 0 => work.strategy = spec.strategy
    /\ deploy # NoObject => deploy.strategy = DeploymentStrategyType(spec)

\* Under Recreate the pods that exist are of one revision.
OneRevision ==
    spec.strategy = "Recreate" =>
        \A p, q \in PodNames : Exists(p) /\ Exists(q) => pods[p].template = pods[q].template

IInv == TypeOK /\ ConfigsOrdered /\ HashesCovered /\ StrategyCarried /\ OneRevision

-----------------------------------------------------------------------------
(* Facts about the definitions.                                            *)

\* The contents are numbers.
LEMMA Numbers == MaxEdits \in Nat /\ Contents \subseteq Nat /\ 0 \in Contents
<1>1. MaxEdits \in Nat
  BY SpecsAssumption
<1> QED
  BY <1>1 DEF Contents

\* The steps of a pass by number.
LEMMA Order ==
    /\ Len(PassOrder) = 4
    /\ PassOrder[1] = "nginx" /\ PassOrder[2] = "php"
    /\ PassOrder[3] = "deployment" /\ PassOrder[4] = "status"
  BY DEF PassOrder

LEMMA StepAt ==
    ASSUME TypeOK
    PROVE  /\ pos \in 0..4
           /\ At("nginx") <=> pos = 1
           /\ At("php") <=> pos = 2
           /\ At("deployment") <=> pos = 3
           /\ At("status") <=> pos = 4
  BY Order DEF At, TypeOK

\* A pass works on a spec; what it derives from it has the right type.
LEMMA Derived ==
    ASSUME TypeOK, pos # 0
    PROVE  /\ work \in SiteSpecs
           /\ NewDeployment \in Deployments
           /\ NewDeployment.template.hash = work.config
           /\ NewDeployment.strategy = DeploymentStrategyType(work)
<1>1. work \in SiteSpecs
  BY DEF TypeOK
<1>2. Template(work) \in Templates /\ Template(work).hash = work.config
  BY <1>1 DEF Templates, Template, ConfigChecksum
<1>3. DeploymentStrategyType(work) \in { "RollingUpdate", "Recreate" }
  BY DEF DeploymentStrategyType
<1>4. [ replicas |-> 0, updated |-> 0, available |-> 0, progress |-> "going" ]
          \in DeploymentStatuses
  BY PodsAssumption DEF DeploymentStatuses
<1> QED
  BY <1>1, <1>2, <1>3, <1>4 DEF NewDeployment, Deployments

\* The hash of a template is a content for each file.
LEMMA HashType ==
    ASSUME NEW t \in Templates
    PROVE  t.hash \in [ ConfigFiles -> Contents ]
  BY DEF Templates, Template, ConfigChecksum, SiteSpecs

\* No set of pods has more than MaxPods members.
LEMMA PodCount ==
    ASSUME NEW S \in SUBSET PodNames
    PROVE  Cardinality(S) \in 0..MaxPods
<1>1. IsFiniteSet(PodNames) /\ Cardinality(PodNames) = MaxPods
  BY PodsAssumption, FS_Interval DEF PodNames
<1>2. IsFiniteSet(S) /\ Cardinality(S) <= MaxPods
  BY <1>1, FS_Subset
<1> QED
  BY <1>2, FS_CardinalityType, PodsAssumption

-----------------------------------------------------------------------------
(* What the actions do, in the terms the invariant needs.                  *)

\* A pod moves on, or goes; it keeps its template, and sees the files it saw or the
\* ones there are now.
Moved(p) ==
    /\ DOMAIN pods' = PodNames
    /\ \A q \in PodNames : q # p => pods'[q] = pods[q]
    /\ Exists(p)
    /\ pods'[p] \in PodRecords \cup { NoObject }
    /\ pods'[p] # NoObject => /\ pods'[p].template = pods[p].template
                              /\ pods'[p].mounted \in { pods[p].mounted, config }
    /\ files' \in [ Disks -> { "empty", "part", "whole" } ]

LEMMA KubeletMoves ==
    ASSUME TypeOK, NEW p \in PodNames, Kubelet(p)
    PROVE  /\ Moved(p)
           /\ p \in Ready => pods'[p] # NoObject /\ pods'[p].phase = "ready"
           /\ UNCHANGED << spec, edits, config, deploy, pos, work, failed, queue,
                           conditions, spent >>
<1>1. Exists(p) /\ pods[p] \in PodRecords
  BY DEF Kubelet, Attach, Pull, Seed, SkipSeed, CopyDone, BecomeReady, Gone, In, TypeOK, Exists
<1>2. /\ config \in [ ConfigFiles -> Contents \cup { NoObject } ]
      /\ pods[p].mounted \in [ ConfigFiles -> Contents \cup { NoObject } ]
      /\ \A m \in MountedAtStart(p) : m \in { pods[p].mounted, config }
      /\ DOMAIN pods = PodNames /\ files \in [ Disks -> { "empty", "part", "whole" } ]
      /\ Disk(p) \in Disks /\ p \in Disks
  BY <1>1 DEF TypeOK, PodRecords, MountedAtStart, Disk, Disks
<1>3. UNCHANGED << spec, edits, config, deploy, pos, work, failed, queue, conditions, spent >>
  BY DEF Kubelet, Attach, Pull, Seed, SkipSeed, CopyDone, BecomeReady, Gone, NotByKubelet,
         NotByCluster, operator
<1>4. p \in Ready <=> pods[p].phase = "ready"
  BY <1>1 DEF Ready, Active
<1>5. ASSUME NEW r \in PodRecords, pods' = [ pods EXCEPT ![p] = r ],
             r.template = pods[p].template, r.mounted \in { pods[p].mounted, config },
             files' \in [ Disks -> { "empty", "part", "whole" } ]
      PROVE  Moved(p) /\ pods'[p] = r
  BY <1>1, <1>2, <1>5 DEF Moved
<1>6. CASE Attach(p)
  <2> DEFINE r == [ pods[p] EXCEPT !.phase = "attached", !.mounted = config ]
  <2>1. r \in PodRecords /\ r.template = pods[p].template /\ r.mounted = config
    BY <1>1, <1>2 DEF PodRecords, Phases
  <2>2. pods' = [ pods EXCEPT ![p] = r ] /\ files' = files /\ pods[p].phase = "pending"
    BY <1>6 DEF Attach, In
  <2> QED
    BY <1>2, <1>3, <1>4, <1>5, <2>1, <2>2
<1>7. CASE Pull(p)
  <2> DEFINE r == [ pods[p] EXCEPT !.phase = "init" ]
  <2>1. r \in PodRecords /\ r.template = pods[p].template /\ r.mounted = pods[p].mounted
    BY <1>1, <1>2 DEF PodRecords, Phases
  <2>2. pods' = [ pods EXCEPT ![p] = r ] /\ files' = files /\ pods[p].phase = "attached"
    BY <1>7 DEF Pull, In
  <2> QED
    BY <1>2, <1>3, <1>4, <1>5, <2>1, <2>2
<1>8. CASE Seed(p)
  <2> DEFINE r == [ pods[p] EXCEPT !.copying = TRUE ]
  <2>1. r \in PodRecords /\ r.template = pods[p].template /\ r.mounted = pods[p].mounted
    BY <1>1, <1>2 DEF PodRecords, Phases
  <2>2. pods' = [ pods EXCEPT ![p] = r ] /\ pods[p].phase = "init"
    BY <1>8 DEF Seed, In
  <2>3. files' \in [ Disks -> { "empty", "part", "whole" } ]
    BY <1>2, <1>8 DEF Seed
  <2> QED
    BY <1>3, <1>4, <1>5, <2>1, <2>2, <2>3
<1>9. CASE SkipSeed(p)
  <2>1. PICK m \in MountedAtStart(p) :
            pods' = [ pods EXCEPT ![p].phase = "starting", ![p].mounted = m ]
    BY <1>9 DEF SkipSeed
  <2> DEFINE r == [ pods[p] EXCEPT !.phase = "starting", !.mounted = m ]
  <2>2. r \in PodRecords /\ r.template = pods[p].template /\ r.mounted = m
    BY <1>1, <1>2 DEF PodRecords, Phases
  <2>3. pods' = [ pods EXCEPT ![p] = r ] /\ files' = files /\ pods[p].phase = "init"
    BY <1>9, <2>1 DEF SkipSeed, In
  <2> QED
    BY <1>2, <1>3, <1>4, <1>5, <2>2, <2>3
<1>10. CASE CopyDone(p)
  <2>1. PICK m \in MountedAtStart(p) :
            pods' = [ pods EXCEPT ![p] =
               IF @.phase = "init"
               THEN [ @ EXCEPT !.copying = FALSE, !.phase = "starting", !.mounted = m ]
               ELSE [ @ EXCEPT !.copying = FALSE ] ]
    BY <1>10 DEF CopyDone
  <2> DEFINE r == IF pods[p].phase = "init"
                  THEN [ pods[p] EXCEPT !.copying = FALSE, !.phase = "starting", !.mounted = m ]
                  ELSE [ pods[p] EXCEPT !.copying = FALSE ]
  <2>2. /\ r \in PodRecords /\ r.template = pods[p].template
        /\ r.mounted \in { pods[p].mounted, m }
        /\ pods[p].phase = "ready" => r.phase = "ready"
    BY <1>1, <1>2 DEF PodRecords, Phases
  <2>3. pods' = [ pods EXCEPT ![p] = r ]
    BY <2>1
  <2>4. files' \in [ Disks -> { "empty", "part", "whole" } ]
    BY <1>2, <1>10 DEF CopyDone
  <2>5. r.mounted \in { pods[p].mounted, config }
    BY <1>2, <2>1, <2>2
  <2> HIDE DEF r
  <2>6. Moved(p) /\ pods'[p] = r
    BY <1>5, <2>2, <2>3, <2>4, <2>5
  <2> QED
    BY <1>3, <1>4, <2>2, <2>6, NoObjectAssumption
<1>11. CASE BecomeReady(p)
  <2> DEFINE r == [ pods[p] EXCEPT !.phase = "ready" ]
  <2>1. r \in PodRecords /\ r.template = pods[p].template /\ r.mounted = pods[p].mounted
    BY <1>1, <1>2 DEF PodRecords, Phases
  <2>2. pods' = [ pods EXCEPT ![p] = r ] /\ files' = files /\ pods[p].phase = "starting"
    BY <1>11 DEF BecomeReady, In
  <2> QED
    BY <1>2, <1>3, <1>4, <1>5, <2>1, <2>2
<1>12. CASE Gone(p)
  <2>1. pods' = [ pods EXCEPT ![p] = NoObject ] /\ pods[p].phase = "leaving"
    BY <1>12 DEF Gone, In
  <2>2. files' \in [ Disks -> { "empty", "part", "whole" } ]
    BY <1>2, <1>12 DEF Gone
  <2> QED
    BY <1>1, <1>2, <1>3, <1>4, <2>1, <2>2 DEF Moved
<1> QED
  BY <1>6, <1>7, <1>8, <1>9, <1>10, <1>11, <1>12 DEF Kubelet

LEMMA ScaleDownMoves ==
    ASSUME TypeOK, NEW p \in PodNames, ScaleDown(p)
    PROVE  /\ Moved(p)
           /\ UNCHANGED << spec, edits, config, deploy, pos, work, failed, queue,
                           conditions, spent >>
<1> DEFINE r == [ pods[p] EXCEPT !.phase = "leaving" ]
<1>1. Exists(p) /\ pods[p] \in PodRecords /\ DOMAIN pods = PodNames
  BY DEF ScaleDown, Outdated, Active, Exists, TypeOK
<1>2. r \in PodRecords /\ r.template = pods[p].template /\ r.mounted = pods[p].mounted
  BY <1>1 DEF PodRecords, Phases
<1>3. pods' = [ pods EXCEPT ![p] = r ] /\ files' = files
  BY DEF ScaleDown
<1>4. UNCHANGED << spec, edits, config, deploy, pos, work, failed, queue, conditions, spent >>
  BY DEF ScaleDown, NotByCluster, operator
<1> QED
  BY <1>1, <1>2, <1>3, <1>4 DEF Moved, TypeOK

LEMMA ContainerCrashMoves ==
    ASSUME TypeOK, NEW p \in PodNames, ContainerCrash(p)
    PROVE  /\ Moved(p)
           /\ UNCHANGED << spec, edits, config, deploy, pos, work, failed, queue, conditions >>
           /\ spent' = spent \cup { "container_crash" } /\ "container_crash" \in Faults \ spent
<1>1. Exists(p) /\ pods[p] \in PodRecords /\ DOMAIN pods = PodNames
  BY DEF ContainerCrash, In, Exists, TypeOK
<1>2. PICK m \in MountedAtStart(p) :
          pods' = [ pods EXCEPT ![p].phase = "starting", ![p].mounted = m ]
  BY DEF ContainerCrash
<1> DEFINE r == [ pods[p] EXCEPT !.phase = "starting", !.mounted = m ]
<1>3. m \in { pods[p].mounted, config } /\ m \in [ ConfigFiles -> Contents \cup { NoObject } ]
  BY <1>1, <1>2 DEF MountedAtStart, TypeOK, PodRecords
<1>4. r \in PodRecords /\ r.template = pods[p].template /\ r.mounted = m
  BY <1>1, <1>3 DEF PodRecords, Phases
<1>5. pods' = [ pods EXCEPT ![p] = r ] /\ files' = files
  BY <1>2 DEF ContainerCrash
<1>6. Moved(p)
  BY <1>1, <1>3, <1>4, <1>5 DEF Moved, TypeOK
<1> QED
  BY <1>6 DEF ContainerCrash, Spend, operator

LEMMA InitFailsMoves ==
    ASSUME TypeOK, NEW p \in PodNames, InitFails(p)
    PROVE  /\ Moved(p)
           /\ p \notin Ready
           /\ UNCHANGED << spec, edits, config, deploy, pos, work, failed, queue, conditions >>
           /\ spent' = spent \cup { "init_fails" } /\ "init_fails" \in Faults
<1> DEFINE r == [ pods[p] EXCEPT !.copying = FALSE ]
<1>1. Exists(p) /\ pods[p] \in PodRecords /\ DOMAIN pods = PodNames /\ pods[p].phase = "init"
  BY DEF InitFails, In, Exists, TypeOK
<1>2. r \in PodRecords /\ r.template = pods[p].template /\ r.mounted = pods[p].mounted
  BY <1>1 DEF PodRecords
<1>3. pods' = [ pods EXCEPT ![p] = r ] /\ files' = files
  BY DEF InitFails
<1>4. Moved(p)
  BY <1>1, <1>2, <1>3 DEF Moved, TypeOK
<1> QED
  BY <1>1, <1>4 DEF InitFails, Spend, operator, Ready

\* The new pod is of the template the Deployment has now, and has no volumes yet;
\* under Recreate every other pod there is is of that template too.
LEMMA ScaleUpMakes ==
    ASSUME TypeOK, NEW p \in PodNames, NEW n \in NodesFor(deploy), ScaleUp(p, n)
    PROVE  /\ DOMAIN pods' = PodNames
           /\ \A q \in PodNames : q # p => pods'[q] = pods[q]
           /\ pods'[p] \in PodRecords
           /\ deploy # NoObject /\ pods'[p].template = deploy.template
           /\ \A f \in ConfigFiles : pods'[p].mounted[f] = NoObject
           /\ ~Exists(p)
           /\ deploy.strategy = "Recreate" =>
                  \A q \in PodNames : Exists(q) => pods[q].template = deploy.template
           /\ UNCHANGED << spec, edits, config, deploy, files, pos, work, failed, queue,
                           conditions, spent >>
<1>1. n \in Nodes
  BY PodsAssumption DEF NodesFor
<1>2. deploy # NoObject /\ deploy.template \in Templates /\ DOMAIN pods = PodNames
  BY DEF ScaleUp, TypeOK, Deployments
<1>3. NewPod(n) \in PodRecords
  BY <1>1, <1>2 DEF NewPod, PodRecords, Phases
<1>4. pods' = [ pods EXCEPT ![p] = NewPod(n) ]
  BY DEF ScaleUp
<1>5. NewPod(n).template = deploy.template
      /\ \A f \in ConfigFiles : NewPod(n).mounted[f] = NoObject
  BY DEF NewPod
<1> QED
  BY <1>2, <1>3, <1>4, <1>5 DEF ScaleUp, NotByCluster, operator

-----------------------------------------------------------------------------
(* The invariant.                                                          *)

LEMMA InitEstablishes == Init => IInv
<1> SUFFICES ASSUME Init PROVE IInv
  OBVIOUS
<1>1. 0 \in Contents /\ 0 \in 0..MaxEdits
  BY Numbers
<1>2. spec.config = [ f \in ConfigFiles |-> 0 ] /\ spec \in SiteSpecs
  BY <1>1 DEF Init, SiteSpecs
<1>3. TypeOK
  <2>1. spent \subseteq Faults /\ pos \in 0..Len(PassOrder)
    BY Order DEF Init
  <2> QED
    BY <1>1, <1>2, <2>1 DEF Init, TypeOK
<1>4. ConfigsOrdered
  BY <1>2, NoObjectAssumption DEF Init, ConfigsOrdered, Contents
<1> QED
  BY <1>3, <1>4 DEF Init, IInv, HashesCovered, StrategyCarried, OneRevision, Exists

\* What a step of a pod leaves of the invariant.
LEMMA MovedKeeps ==
    ASSUME IInv, NEW p \in PodNames, Moved(p),
           UNCHANGED << spec, edits, config, deploy, pos, work, failed, queue, conditions >>,
           spent' \subseteq Faults
    PROVE  IInv'
<1>1. TypeOK'
  BY DEF IInv, TypeOK, Moved
<1>2. ConfigsOrdered' /\ StrategyCarried'
  BY DEF IInv, ConfigsOrdered, StrategyCarried, DeploymentStrategyType
<1>3. \A q \in PodNames : pods'[q] # NoObject =>
          /\ Exists(q)
          /\ pods'[q].template = pods[q].template
          /\ pods'[q].mounted \in { pods[q].mounted, config }
  BY DEF Moved, Exists
<1>4. HashesCovered'
  <2>1. \A f \in ConfigFiles : config'[f] = config[f]
    OBVIOUS
  <2>2. deploy' # NoObject => NotAhead(deploy.template)'
    BY DEF IInv, HashesCovered, NotAhead
  <2>3. ASSUME NEW q \in PodNames, pods'[q] # NoObject
        PROVE  /\ NotAhead(pods[q].template)'
               /\ \A f \in ConfigFiles : pods'[q].mounted[f] # NoObject
                    => pods'[q].template.hash[f] <= pods'[q].mounted[f]
    <3>1. NotAhead(pods[q].template)
      BY <1>3, <2>3 DEF IInv, HashesCovered
    <3>2. NotAhead(pods'[q].template)
      BY <1>3, <2>3, <3>1
    <3>3. NotAhead(pods[q].template)'
      BY <3>2 DEF NotAhead
    <3>4. ASSUME NEW f \in ConfigFiles, pods'[q].mounted[f] # NoObject
          PROVE  pods'[q].template.hash[f] <= pods'[q].mounted[f]
      <4>1. CASE pods'[q].mounted = config
        BY <3>2, <4>1 DEF NotAhead
      <4>2. CASE pods'[q].mounted = pods[q].mounted
        BY <1>3, <2>3, <3>4, <4>2 DEF IInv, HashesCovered
      <4> QED
        BY <1>3, <2>3, <4>1, <4>2
    <3> QED
      BY <3>3, <3>4
  <2> QED
    BY <2>2, <2>3 DEF HashesCovered, Exists
<1>5. OneRevision'
  BY <1>3 DEF IInv, OneRevision, Exists
<1> QED
  BY <1>1, <1>2, <1>4, <1>5 DEF IInv

LEMMA ScaleUpKeeps ==
    ASSUME IInv, NEW p \in PodNames, NEW n \in NodesFor(deploy), ScaleUp(p, n)
    PROVE  IInv'
<1>1. TypeOK
  BY DEF IInv
<1> DEFINE r == pods'[p]
<1>2. /\ DOMAIN pods' = PodNames
      /\ \A q \in PodNames : q # p => pods'[q] = pods[q]
      /\ r \in PodRecords
      /\ deploy # NoObject /\ r.template = deploy.template
      /\ \A f \in ConfigFiles : r.mounted[f] = NoObject
      /\ deploy.strategy = "Recreate" =>
             \A q \in PodNames : Exists(q) => pods[q].template = deploy.template
      /\ UNCHANGED << spec, edits, config, deploy, files, pos, work, failed, queue,
                      conditions, spent >>
  BY <1>1, ScaleUpMakes
<1> HIDE DEF r
<1>3. TypeOK'
  BY <1>1, <1>2 DEF TypeOK, r
<1>4. ConfigsOrdered' /\ StrategyCarried'
  BY <1>2 DEF IInv, ConfigsOrdered, StrategyCarried, DeploymentStrategyType
<1>5. HashesCovered'
  BY <1>2 DEF IInv, HashesCovered, NotAhead, Exists, r
<1>6. OneRevision'
  <2>1. ASSUME spec.strategy = "Recreate", NEW q \in PodNames, pods'[q] # NoObject
        PROVE  pods'[q].template = deploy.template
    BY <1>2, <2>1 DEF IInv, StrategyCarried, DeploymentStrategyType, Exists, r
  <2> QED
    BY <1>2, <2>1 DEF OneRevision, Exists
<1> QED
  BY <1>3, <1>4, <1>5, <1>6 DEF IInv

\* A write of the Deployment controller to the status.
LEMMA StatusWritten ==
    ASSUME TypeOK, Sync \/ Exceed
    PROVE  /\ deploy' \in Deployments
           /\ deploy'.template = deploy.template /\ deploy'.strategy = deploy.strategy
<1>1. deploy \in Deployments
  BY DEF Sync, Exceed, TypeOK
<1>2. CASE Sync
  <2>1. /\ Counted.replicas \in 0..MaxPods /\ Counted.updated \in 0..MaxPods
        /\ Counted.available \in 0..MaxPods
    BY PodCount DEF Counted, Active, Updated, Ready
  <2>2. deploy.status \in DeploymentStatuses
    BY <1>1 DEF Deployments
  <2>3. Progress(Counted) \in { "going", "exceeded", "done" }
    BY <2>2 DEF Progress, DeploymentStatuses
  <2>4. StatusOf(Counted) \in DeploymentStatuses
    BY <2>1, <2>3 DEF StatusOf, DeploymentStatuses
  <2> QED
    BY <1>1, <1>2, <2>4 DEF Sync, Deployments
<1>3. CASE Exceed
  BY <1>1, <1>3 DEF Exceed, Deployments, DeploymentStatuses
<1> QED
  BY <1>2, <1>3

LEMMA StatusKeeps ==
    ASSUME IInv, Sync \/ Exceed
    PROVE  IInv' /\ UNCHANGED << spec, pods, spent >>
<1>1. TypeOK
  BY DEF IInv
<1>2. /\ deploy' \in Deployments
      /\ deploy'.template = deploy.template /\ deploy'.strategy = deploy.strategy
  BY <1>1, StatusWritten
<1>3. /\ UNCHANGED << spec, edits, config, pods, files, pos, work, failed, conditions, spent >>
      /\ queue' = TRUE /\ deploy # NoObject
  BY DEF Sync, Exceed, NotByCluster, operator
<1>4. TypeOK'
  BY <1>2, <1>3 DEF IInv, TypeOK
<1>5. ConfigsOrdered' /\ OneRevision'
  BY <1>3 DEF IInv, ConfigsOrdered, OneRevision, Exists
<1>6. StrategyCarried'
  BY <1>2, <1>3 DEF IInv, StrategyCarried, DeploymentStrategyType
<1>7. HashesCovered'
  BY <1>2, <1>3 DEF IInv, HashesCovered, NotAhead, Exists
<1> QED
  BY <1>3, <1>4, <1>5, <1>6, <1>7 DEF IInv

\* The pass.
LEMMA OperatorKeeps ==
    ASSUME IInv, OperatorStep
    PROVE  IInv' /\ UNCHANGED << spec, pods, spent >>
<1>1. TypeOK /\ ConfigsOrdered /\ HashesCovered /\ StrategyCarried /\ OneRevision
  BY DEF IInv
<1>2. /\ pos \in 0..4 /\ Len(PassOrder) = 4
      /\ \A f \in ConfigFiles : At(f) <=> pos = IF f = "nginx" THEN 1 ELSE 2
      /\ At("deployment") <=> pos = 3
      /\ At("status") <=> pos = 4
  BY <1>1, StepAt, Order DEF ConfigFiles
<1>3. CASE Start
  <2>1. /\ UNCHANGED << spec, edits, config, deploy, pods, files, failed, conditions, spent >>
        /\ pos = 0 /\ pos' = 1 /\ work' = spec /\ queue' = FALSE
    BY <1>3 DEF Start, cluster
  <2>2. TypeOK'
    <3>1. pos' \in 0..Len(PassOrder) /\ pos' # 0
      BY <1>2, <2>1
    <3>2. work' \in SiteSpecs /\ queue' \in BOOLEAN
      BY <1>1, <2>1 DEF TypeOK
    <3> QED
      BY <1>1, <2>1, <3>1, <3>2 DEF TypeOK
  <2>3. ConfigsOrdered'
    <3>1. \A f \in ConfigFiles : spec.config[f] \in Nat
      BY <1>1, Numbers DEF TypeOK, SiteSpecs
    <3> QED
      BY <1>1, <2>1, <3>1 DEF ConfigsOrdered
  <2> QED
    BY <1>1, <2>1, <2>2, <2>3 DEF IInv, HashesCovered, NotAhead, StrategyCarried, OneRevision,
       Exists, DeploymentStrategyType
<1>4. ASSUME NEW f \in ConfigFiles, WriteConfig(f)
      PROVE  IInv' /\ UNCHANGED << spec, pods, spent >>
  <2>1. /\ UNCHANGED << spec, edits, deploy, pods, files, work, failed, conditions, spent >>
        /\ pos = (IF f = "nginx" THEN 1 ELSE 2) /\ pos' = pos + 1
        /\ config' = [ config EXCEPT ![f] = work.config[f] ]
        /\ queue' \in BOOLEAN
    BY <1>1, <1>2, <1>4 DEF WriteConfig, Wrote, TypeOK
  <2>2. work \in SiteSpecs /\ work.config[f] \in Contents /\ Contents \subseteq Nat
    BY <1>1, <2>1, Numbers DEF TypeOK, SiteSpecs
  <2>3. TypeOK'
    BY <1>1, <1>2, <2>1, <2>2 DEF TypeOK
  <2>4. \A g \in ConfigFiles : config'[g] = IF g = f THEN work.config[f] ELSE config[g]
    BY <1>1, <2>1 DEF TypeOK
  <2>5. ConfigsOrdered'
    <3>1. \A g \in ConfigFiles : g = "nginx" \/ g = "php"
      BY DEF ConfigFiles
    <3>2. pos' = (IF f = "nginx" THEN 2 ELSE 3) /\ pos # 0
      BY <2>1
    <3>3. f = "php" => config["nginx"] = work.config["nginx"]
      BY <1>1, <2>1 DEF ConfigsOrdered, ConfigFiles
    <3>4. ASSUME NEW g \in ConfigFiles
          PROVE  /\ config'[g] \in Contents => config'[g] <= spec.config[g]
                 /\ config'[g] \in Contents => config'[g] <= work.config[g]
      <4>1. work.config[g] \in Nat
        BY <1>1, <2>2, Numbers DEF SiteSpecs
      <4> QED
        BY <1>1, <2>4, <3>2, <4>1 DEF ConfigsOrdered
    <3>5. ASSUME NEW g \in ConfigFiles, pos' = 3 \/ (pos' = 2 /\ g = "nginx")
          PROVE  config'[g] = work.config[g]
      BY <2>4, <3>1, <3>2, <3>3, <3>5
    <3> QED
      BY <1>1, <2>1, <3>2, <3>4, <3>5 DEF ConfigsOrdered
  <2>6. ASSUME NEW t \in Templates, NotAhead(t)
        PROVE  NotAhead(t)'
    <3>1. \A g \in ConfigFiles : t.hash[g] \in Nat
      BY <2>2, HashType
    <3>2. config[f] <= work.config[f] /\ config[f] \in Nat /\ work.config[f] \in Nat
      <4>1. pos # 0
        BY <2>1
      <4>2. config[f] \in Contents
        BY <2>6 DEF NotAhead
      <4> QED
        BY <1>1, <2>2, <4>1, <4>2 DEF ConfigsOrdered
    <3>3. t.hash[f] <= work.config[f]
      BY <2>6, <3>1, <3>2 DEF NotAhead
    <3> QED
      BY <2>2, <2>4, <2>6, <3>3 DEF NotAhead
  <2>7. HashesCovered'
    <3>1. deploy # NoObject => deploy.template \in Templates
      BY <1>1 DEF TypeOK, Deployments
    <3>2. \A p \in PodNames : Exists(p) => pods[p].template \in Templates
      BY <1>1 DEF TypeOK, Exists, PodRecords
    <3>3. deploy' # NoObject => NotAhead(deploy.template)'
      BY <1>1, <2>1, <2>6, <3>1 DEF HashesCovered
    <3>4. ASSUME NEW p \in PodNames, pods'[p] # NoObject
          PROVE  NotAhead(pods[p].template)'
      BY <1>1, <2>1, <2>6, <3>2, <3>4 DEF HashesCovered, Exists
    <3> QED
      BY <1>1, <2>1, <3>3, <3>4 DEF HashesCovered, Exists
  <2> QED
    BY <1>1, <2>1, <2>3, <2>5, <2>7 DEF IInv, StrategyCarried, OneRevision, Exists,
       DeploymentStrategyType
<1>5. CASE WriteDeployment
  <2>1. /\ UNCHANGED << spec, edits, config, pods, files, work, failed, conditions, spent >>
        /\ pos = 3 /\ pos' = 4 /\ queue' \in BOOLEAN
    BY <1>1, <1>2, <1>5 DEF WriteDeployment, Wrote, TypeOK
  <2>2. /\ work \in SiteSpecs /\ NewDeployment \in Deployments
        /\ NewDeployment.template.hash = work.config
        /\ NewDeployment.strategy = DeploymentStrategyType(work)
    BY <1>1, <2>1, Derived
  <2>3. \/ deploy' = NewDeployment
        \/ deploy' = deploy /\ deploy # NoObject
        \/ deploy # NoObject /\ deploy' = [ NewDeployment EXCEPT !.status = deploy.status ]
    BY <1>5 DEF WriteDeployment
  <2>4. /\ deploy' \in Deployments
        /\ \/ deploy' = deploy
           \/ /\ deploy'.template = NewDeployment.template
              /\ deploy'.strategy = NewDeployment.strategy
    <3>1. deploy # NoObject => deploy \in Deployments /\ deploy.status \in DeploymentStatuses
      BY <1>1 DEF TypeOK, Deployments
    <3> QED
      BY <2>2, <2>3, <3>1 DEF Deployments
  <2>5. TypeOK'
    BY <1>1, <1>2, <2>1, <2>4 DEF TypeOK
  <2>6. ConfigsOrdered'
    BY <1>1, <2>1 DEF ConfigsOrdered
  <2>7. \A f \in ConfigFiles : config[f] = work.config[f] /\ work.config[f] \in Contents
    BY <1>1, <2>1, <2>2 DEF ConfigsOrdered, SiteSpecs
  <2>8. HashesCovered'
    <3>1. NotAhead(NewDeployment.template)
      <4>1. \A f \in ConfigFiles : work.config[f] \in Nat /\ work.config[f] <= work.config[f]
        BY <2>7, Numbers
      <4> QED
        BY <2>2, <2>7, <4>1 DEF NotAhead
    <3>2. deploy' # NoObject => NotAhead(deploy'.template)
      BY <1>1, <2>3, <2>4, <3>1 DEF HashesCovered
    <3>3. deploy' # NoObject => NotAhead(deploy.template)'
      BY <2>1, <3>2 DEF NotAhead
    <3>4. \A p \in PodNames : Exists(p) => NotAhead(pods[p].template)'
      BY <1>1, <2>1 DEF HashesCovered, NotAhead
    <3> QED
      BY <1>1, <2>1, <3>3, <3>4 DEF HashesCovered, Exists
  <2>9. StrategyCarried'
    BY <1>1, <2>1, <2>2, <2>3, <2>4 DEF StrategyCarried, DeploymentStrategyType
  <2> QED
    BY <1>1, <2>1, <2>5, <2>6, <2>8, <2>9 DEF IInv, OneRevision, Exists
<1>6. CASE WriteStatus
  <2>1. /\ UNCHANGED << spec, edits, config, deploy, pods, files, spent >>
        /\ pos' = 0 /\ work' = NoObject /\ failed' = FALSE
        /\ conditions' = SiteConditions /\ queue' \in BOOLEAN
    BY <1>1, <1>6 DEF WriteStatus, EndPass, cluster, TypeOK
  <2>2. SiteConditions \in [ available : BOOLEAN, progressing : BOOLEAN, degraded : BOOLEAN ]
    BY DEF SiteConditions, Conditions, DeploymentStalled
  <2>3. TypeOK'
    <3>1. pos' \in 0..Len(PassOrder) /\ pos' = 0 /\ work' \in { NoObject }
      BY <1>2, <2>1
    <3> QED
      BY <1>1, <2>1, <2>2, <3>1 DEF TypeOK
  <2> QED
    BY <1>1, <2>1, <2>3 DEF IInv, ConfigsOrdered, HashesCovered, NotAhead, StrategyCarried,
       OneRevision, Exists, DeploymentStrategyType
<1> QED
  BY <1>3, <1>4, <1>5, <1>6 DEF OperatorStep

\* What users do, and what goes wrong.
LEMMA EditKeeps ==
    ASSUME IInv, Edit
    PROVE  IInv' /\ UNCHANGED << pods, spent >> /\ spec'.strategy = spec.strategy
<1>1. /\ TypeOK /\ spec \in SiteSpecs /\ edits \in 0..MaxEdits /\ MaxEdits \in Nat
      /\ edits < MaxEdits /\ edits' = edits + 1 /\ queue' = TRUE
      /\ UNCHANGED << config, deploy, pods, files, pos, work, failed, conditions, spent >>
  BY Numbers DEF IInv, TypeOK, Edit, NoEditYet, cluster, operator
<1>2. edits' \in Contents /\ edits' \in 0..MaxEdits
  BY <1>1 DEF Contents
<1>3. spec' \in SiteSpecs /\ spec'.strategy = spec.strategy
      /\ \A f \in ConfigFiles : spec'.config[f] = spec.config[f] \/ spec'.config[f] = edits'
  <2>1. ASSUME NEW f \in ConfigFiles, spec' = [ spec EXCEPT !.config[f] = edits' ]
        PROVE  /\ spec' \in SiteSpecs /\ spec'.strategy = spec.strategy
               /\ \A g \in ConfigFiles :
                      spec'.config[g] = spec.config[g] \/ spec'.config[g] = edits'
    BY <1>1, <1>2, <2>1 DEF SiteSpecs
  <2>2. CASE spec' = [ spec EXCEPT !.image = IF @ = "good" THEN "bad" ELSE "good" ]
    BY <1>1, <2>2 DEF SiteSpecs
  <2> QED
    BY <2>1, <2>2 DEF Edit
<1>4. TypeOK'
  BY <1>1, <1>2, <1>3 DEF TypeOK
<1>5. ConfigsOrdered'
  <2>1. ASSUME NEW f \in ConfigFiles
        PROVE  /\ spec.config[f] \in Nat /\ spec.config[f] <= edits
               /\ spec'.config[f] \in Nat /\ spec.config[f] <= spec'.config[f]
               /\ spec'.config[f] <= edits'
    <3>1. spec.config[f] \in Nat /\ spec.config[f] <= edits /\ edits' \in Nat
      BY <1>1, <1>2, Numbers DEF IInv, ConfigsOrdered, SiteSpecs
    <3> QED
      BY <1>1, <1>3, <3>1
  <2>2. ASSUME NEW f \in ConfigFiles, config[f] \in Contents
        PROVE  config[f] <= spec'.config[f]
    <3>1. config[f] \in Nat /\ config[f] <= spec.config[f]
      BY <2>2, Numbers DEF IInv, ConfigsOrdered
    <3> QED
      BY <2>1, <3>1
  <2>3. ASSUME NEW f \in ConfigFiles, pos # 0
        PROVE  work.config[f] <= spec'.config[f]
    <3>1. work.config[f] \in Nat /\ work.config[f] <= spec.config[f]
      BY <1>1, <2>3, Numbers DEF IInv, ConfigsOrdered, TypeOK, SiteSpecs
    <3> QED
      BY <2>1, <3>1
  <2> QED
    BY <1>1, <2>1, <2>2, <2>3 DEF IInv, ConfigsOrdered
<1>6. HashesCovered' /\ StrategyCarried' /\ OneRevision'
  BY <1>1, <1>3 DEF IInv, HashesCovered, NotAhead, StrategyCarried, OneRevision, Exists,
     DeploymentStrategyType
<1> QED
  BY <1>1, <1>3, <1>4, <1>5, <1>6 DEF IInv

LEMMA PassLost ==
    ASSUME IInv, LoseCall \/ OperatorCrash
    PROVE  IInv' /\ UNCHANGED << spec, pods >>
<1>1. /\ UNCHANGED << spec, edits, config, deploy, pods, files, conditions >>
      /\ spent' \subseteq Faults /\ queue' \in BOOLEAN
      /\ failed' \in BOOLEAN
      /\ \/ pos' = 0 /\ work' = NoObject
         \/ pos # 0 /\ pos' = 4 /\ work' = work
  BY Order DEF LoseCall, OperatorCrash, EndPass, Spend, cluster, IInv, TypeOK
<1>2. TypeOK'
  <2>1. pos' \in 0..Len(PassOrder)
    BY <1>1, Order
  <2>2. work' \in IF pos' = 0 THEN { NoObject } ELSE SiteSpecs
    BY <1>1 DEF IInv, TypeOK
  <2> QED
    BY <1>1, <2>1, <2>2 DEF IInv, TypeOK
<1> QED
  BY <1>1, <1>2 DEF IInv, ConfigsOrdered, HashesCovered, NotAhead, StrategyCarried, OneRevision,
     Exists, DeploymentStrategyType

LEMMA StepKeeps == IInv /\ [Next]_vars => IInv'
<1> SUFFICES ASSUME IInv, [Next]_vars PROVE IInv'
  OBVIOUS
<1>1. TypeOK /\ spent \subseteq Faults
  BY DEF IInv, TypeOK
<1>2. CASE OperatorStep
  BY <1>2, OperatorKeeps
<1>3. ASSUME NEW p \in PodNames, ScaleDown(p) PROVE IInv'
  BY <1>1, <1>3, ScaleDownMoves, MovedKeeps
<1>4. ASSUME NEW p \in PodNames, NEW n \in NodesFor(deploy), ScaleUp(p, n) PROVE IInv'
  BY <1>4, ScaleUpKeeps
<1>5. CASE Sync \/ Exceed
  BY <1>5, StatusKeeps
<1>6. ASSUME NEW p \in PodNames, Kubelet(p) PROVE IInv'
  BY <1>1, <1>6, KubeletMoves, MovedKeeps
<1>7. CASE Edit
  BY <1>7, EditKeeps
<1>8. CASE LoseCall \/ OperatorCrash
  BY <1>8, PassLost
<1>9. ASSUME NEW p \in PodNames, ContainerCrash(p) PROVE IInv'
  BY <1>1, <1>9, ContainerCrashMoves, MovedKeeps
<1>10. ASSUME NEW p \in PodNames, InitFails(p) PROVE IInv'
  BY <1>1, <1>10, InitFailsMoves, MovedKeeps
<1>11. CASE UNCHANGED vars
  BY <1>11 DEF vars, IInv, TypeOK, ConfigsOrdered, HashesCovered, NotAhead, StrategyCarried,
     OneRevision, Exists, DeploymentStrategyType
<1> QED
  BY <1>2, <1>3, <1>4, <1>5, <1>6, <1>7, <1>8, <1>9, <1>10, <1>11 DEF Next, Scale, Fault

-----------------------------------------------------------------------------
(* Theorems.                                                               *)

LEMMA Invariance == Spec => []IInv
<1>1. Init => IInv
  BY InitEstablishes
<1>2. IInv /\ [Next]_vars => IInv'
  BY StepKeeps
<1> QED
  BY <1>1, <1>2, PTL DEF Spec

\* The types hold; in particular the counters of the Deployment count pods.
THEOREM TypeCorrect == Spec => []TypeOK
<1>1. IInv => TypeOK
  BY DEF IInv
<1> QED
  BY <1>1, Invariance, PTL

\* No container ever runs with a file older than the hash on its pod.
THEOREM FilesNotOlder == Spec => []ConfigNotOlder
<1>1. IInv => ConfigNotOlder
  <2> SUFFICES ASSUME IInv, NEW p \in PodNames, HasVolumes(p), NEW f \in ConfigFiles
               PROVE  pods[p].mounted[f] >= pods[p].template.hash[f]
    BY DEF ConfigNotOlder
  <2>1. /\ Exists(p) /\ pods[p].mounted[f] # NoObject
        /\ pods[p].template.hash[f] <= pods[p].mounted[f]
    BY DEF HasVolumes, IInv, HashesCovered
  <2>2. pods[p].mounted[f] \in Nat /\ pods[p].template.hash[f] \in Nat
    BY <2>1, Numbers, HashType DEF IInv, TypeOK, Exists, PodRecords
  <2> QED
    BY <2>1, <2>2
<1> QED
  BY <1>1, Invariance, PTL

\* Under Recreate no wp-init writes to a volume another revision serves from.
THEOREM SeedingIsAlone == Spec => []StartedIsUntouched
<1>1. IInv => StartedIsUntouched
  BY DEF IInv, OneRevision, StartedIsUntouched, Ready, Active
<1> QED
  BY <1>1, Invariance, PTL

\* A pod that is ready stays so in every step of its own.
LEMMA StillReady ==
    ASSUME NEW p \in PodNames, Moved(p),
           p \in Ready => pods'[p] # NoObject /\ pods'[p].phase = "ready"
    PROVE  Ready \subseteq Ready'
  BY DEF Moved, Ready, Active, Exists

\* Unless its container dies, the last ready pod of a Site that did not ask for
\* Recreate goes only when another is ready.
THEOREM ServesOn == Spec => OldKeepsServing
<1>1. ASSUME IInv, [Next]_vars
      PROVE  spec.strategy # "Recreate" /\ Ready # {} /\ Ready' = {}
                 => "container_crash" \in spent' \ spent
  <2>1. TypeOK
    BY <1>1 DEF IInv
  <2> SUFFICES ASSUME spec.strategy # "Recreate", Ready # {}
               PROVE  Ready' # {} \/ "container_crash" \in spent' \ spent
    OBVIOUS
  <2>2. CASE UNCHANGED pods
    BY <2>2 DEF Ready, Active, Exists
  <2>3. ASSUME NEW p \in PodNames, ScaleDown(p) PROVE Ready' # {}
    <3>1. Moved(p) /\ deploy # NoObject /\ deploy.strategy = "RollingUpdate"
      BY <1>1, <2>1, <2>3, ScaleDownMoves
         DEF ScaleDown, IInv, StrategyCarried, DeploymentStrategyType
    <3>2. p \in Ready => Ready # { p }
      BY <2>3, <3>1 DEF ScaleDown
    <3>3. Ready \ { p } \subseteq Ready'
      BY <3>1 DEF Moved, Ready, Active, Exists
    <3>4. PICK q \in Ready : q # p
      BY <3>2
    <3> QED
      BY <3>3, <3>4
  <2>4. ASSUME NEW p \in PodNames, NEW n \in NodesFor(deploy), ScaleUp(p, n)
        PROVE  Ready' # {}
    <3>1. (\A q \in PodNames : q # p => pods'[q] = pods[q]) /\ ~Exists(p)
      BY <2>1, <2>4, ScaleUpMakes
    <3>2. Ready \subseteq Ready'
      BY <3>1 DEF Ready, Active, Exists
    <3> QED
      BY <3>2
  <2>5. ASSUME NEW p \in PodNames, Kubelet(p) PROVE Ready' # {}
    BY <2>1, <2>5, KubeletMoves, StillReady
  <2>6. ASSUME NEW p \in PodNames, InitFails(p) PROVE Ready' # {}
    BY <2>1, <2>6, InitFailsMoves, StillReady
  <2>7. ASSUME NEW p \in PodNames, ContainerCrash(p)
        PROVE  "container_crash" \in spent' \ spent
    BY <2>1, <2>7, ContainerCrashMoves
  <2>8. OperatorStep \/ Sync \/ Exceed \/ Edit \/ LoseCall \/ OperatorCrash => UNCHANGED pods
    BY <1>1, OperatorKeeps, StatusKeeps, EditKeeps, PassLost
  <2>9. UNCHANGED vars => UNCHANGED pods
    BY DEF vars
  <2> QED
    BY <1>1, <2>2, <2>3, <2>4, <2>5, <2>6, <2>7, <2>8, <2>9 DEF Next, Scale, Fault
<1>2. IInv /\ [Next]_vars =>
          [ (spec.strategy # "Recreate" /\ Ready # {} /\ Ready' = {})
                => "container_crash" \in spent' \ spent ]_vars
  BY <1>1
<1> QED
  BY <1>2, Invariance, PTL DEF Spec, OldKeepsServing

-----------------------------------------------------------------------------
(* Rolled out is served. The counters a pass goes by are those of the      *)
(* last Sync, and the pods move on; what was rolled out stays so because no *)
(* active pod shares the template of another: no pod of the old revision is *)
(* left to be taken down, and none of the new one is missing.              *)

\* No two active pods are of the same revision, also when an edit is undone.
OnePerTemplate ==
    \A p, q \in Active : pods[p].template = pods[q].template => p = q

RInv == IInv /\ OnePerTemplate /\ RolledOutIsServed

\* A pod that moves on, keeps on running if it ran, and only the death of a
\* container takes it from ready to starting.
KeepsRunning(p) ==
    /\ pods'[p] # NoObject /\ pods'[p].phase # "leaving" => p \in Active
    /\ In(p, "ready") \/ In(p, "starting") =>
           /\ pods'[p] # NoObject
           /\ \/ pods'[p].phase = "ready"
              \/ /\ pods'[p].phase = "starting"
                 /\ In(p, "starting") \/ "container_crash" \in spent'

LEMMA KubeletRuns ==
    ASSUME TypeOK, NEW p \in PodNames, Kubelet(p)
    PROVE  KeepsRunning(p)
<1>1. Exists(p) /\ pods[p] \in PodRecords /\ DOMAIN pods = PodNames
  BY DEF Kubelet, Attach, Pull, Seed, SkipSeed, CopyDone, BecomeReady, Gone, In, TypeOK, Exists
<1>2. CASE Attach(p)
  BY <1>1, <1>2 DEF Attach, KeepsRunning, In, Active
<1>3. CASE Pull(p)
  BY <1>1, <1>3 DEF Pull, KeepsRunning, In, Active
<1>4. CASE Seed(p)
  BY <1>1, <1>4, NoObjectAssumption DEF Seed, KeepsRunning, In, Active, PodRecords
<1>5. CASE SkipSeed(p)
  BY <1>1, <1>5 DEF SkipSeed, KeepsRunning, In, Active
<1>6. CASE CopyDone(p)
  <2>1. PICK m \in MountedAtStart(p) :
            pods' = [ pods EXCEPT ![p] =
               IF @.phase = "init"
               THEN [ @ EXCEPT !.copying = FALSE, !.phase = "starting", !.mounted = m ]
               ELSE [ @ EXCEPT !.copying = FALSE ] ]
    BY <1>6 DEF CopyDone
  <2>2. CASE pods[p].phase = "init"
    BY <1>1, <2>1, <2>2 DEF KeepsRunning, In, Active
  <2>3. CASE pods[p].phase # "init"
    <3>1. pods'[p] = [ pods[p] EXCEPT !.copying = FALSE ]
      BY <1>1, <2>1, <2>3
    <3>2. pods'[p] \in PodRecords /\ pods'[p].phase = pods[p].phase
      BY <1>1, <3>1 DEF PodRecords
    <3> QED
      BY <1>1, <3>2, NoObjectAssumption DEF KeepsRunning, In, Active
  <2> QED
    BY <2>2, <2>3
<1>7. CASE BecomeReady(p)
  <2>1. pods'[p] = [ pods[p] EXCEPT !.phase = "ready" ] /\ p \in Active
    BY <1>1, <1>7 DEF BecomeReady, In, Active
  <2>2. pods'[p] \in PodRecords /\ pods'[p].phase = "ready"
    BY <1>1, <2>1 DEF PodRecords, Phases
  <2> QED
    BY <2>1, <2>2, NoObjectAssumption DEF KeepsRunning
<1>8. CASE Gone(p)
  BY <1>1, <1>8 DEF Gone, KeepsRunning, In
<1> QED
  BY <1>2, <1>3, <1>4, <1>5, <1>6, <1>7, <1>8 DEF Kubelet

LEMMA ContainerCrashRuns ==
    ASSUME TypeOK, NEW p \in PodNames, ContainerCrash(p)
    PROVE  KeepsRunning(p)
<1>1. Exists(p) /\ pods[p] \in PodRecords /\ DOMAIN pods = PodNames /\ p \in Active
  BY DEF ContainerCrash, In, Exists, TypeOK, Active
<1>2. PICK m \in MountedAtStart(p) :
          pods' = [ pods EXCEPT ![p].phase = "starting", ![p].mounted = m ]
  BY DEF ContainerCrash
<1>3. pods'[p] = [ pods[p] EXCEPT !.phase = "starting", !.mounted = m ]
  BY <1>1, <1>2
<1>4. m \in [ ConfigFiles -> Contents \cup { NoObject } ]
  BY <1>1, <1>2 DEF MountedAtStart, TypeOK, PodRecords
<1>5. pods'[p] \in PodRecords /\ pods'[p].phase = "starting"
  BY <1>1, <1>3, <1>4 DEF PodRecords, Phases
<1>6. "container_crash" \in spent'
  BY ContainerCrashMoves
<1> QED
  BY <1>1, <1>5, <1>6, NoObjectAssumption DEF KeepsRunning

LEMMA InitFailsRuns ==
    ASSUME TypeOK, NEW p \in PodNames, InitFails(p)
    PROVE  KeepsRunning(p)
<1>1. Exists(p) /\ pods[p] \in PodRecords /\ pods[p].phase = "init" /\ p \in Active
  BY DEF InitFails, In, Exists, TypeOK, Active
<1> QED
  BY <1>1 DEF KeepsRunning, In

\* What such a step leaves of the rest of the invariant.
LEMMA RunningServes ==
    ASSUME RInv, NEW p \in PodNames, Moved(p), KeepsRunning(p),
           UNCHANGED deploy, spent \subseteq spent'
    PROVE  OnePerTemplate' /\ RolledOutIsServed'
<1>1. Active' \subseteq Active
  BY DEF Active, Exists, Moved, KeepsRunning
<1>2. \A q \in Active' : pods'[q].template = pods[q].template
  BY <1>1 DEF Moved, Active, Exists
<1>3. OnePerTemplate'
  BY <1>1, <1>2 DEF RInv, OnePerTemplate
<1>4. ASSUME deploy # NoObject, DeploymentRolledOut(deploy)
      PROVE  RolledOutIsServed'
  <2>1. PICK q \in Updated :
            /\ Active = { q }
            /\ In(q, "ready") \/ (In(q, "starting") /\ "container_crash" \in spent)
    BY <1>4 DEF RInv, RolledOutIsServed
  <2>2. q \in PodNames /\ pods[q].template = deploy.template /\ Exists(q)
    BY <2>1 DEF Updated, Active
  <2>3. pods'[q] # NoObject
        /\ \/ pods'[q].phase = "ready"
           \/ (pods'[q].phase = "starting" /\ "container_crash" \in spent')
    <3>1. CASE q = p
      BY <2>1, <3>1 DEF KeepsRunning, In
    <3>2. CASE q # p
      BY <2>1, <2>2, <3>2 DEF Moved, In, Exists
    <3> QED
      BY <3>1, <3>2
  <2>4. q \in Active'
    BY <2>2, <2>3 DEF Active, Exists
  <2>5. Active' = { q } /\ q \in Updated'
    BY <1>1, <1>2, <2>1, <2>2, <2>4 DEF Updated
  <2> QED
    BY <2>3, <2>5 DEF RolledOutIsServed, In, Exists
<1>5. (deploy # NoObject /\ DeploymentRolledOut(deploy)) \/ RolledOutIsServed'
  BY DEF RolledOutIsServed, DeploymentRolledOut
<1> QED
  BY <1>3, <1>4, <1>5

\* Counters that agree are the counters of one ready pod.
LEMMA CountersTell ==
    ASSUME OnePerTemplate, Cardinality(Updated) >= 1,
           Cardinality(Active) = Cardinality(Updated),
           Cardinality(Ready) = Cardinality(Updated)
    PROVE  \E p \in Updated : Active = { p } /\ In(p, "ready")
<1>1. IsFiniteSet(Active)
  <2>1. IsFiniteSet(PodNames) /\ Active \in SUBSET PodNames
    BY PodsAssumption, FS_Interval DEF PodNames, Active
  <2> QED
    BY <2>1, FS_Subset
<1>2. Updated \in SUBSET Active /\ Ready \in SUBSET Active
  BY DEF Updated, Ready
<1>3. Active = Updated /\ Active = Ready
  BY <1>1, <1>2, FS_Subset
<1>4. Updated # {}
  BY FS_EmptySet
<1>5. PICK p \in Updated : TRUE
  BY <1>4
<1>6. Active = { p }
  BY <1>3, <1>5 DEF OnePerTemplate, Updated
<1>7. In(p, "ready")
  BY <1>3, <1>5 DEF Ready, Active, In
<1> QED
  BY <1>5, <1>6, <1>7

LEMMA RStepKeeps == RInv /\ [Next]_vars => RInv'
<1> SUFFICES ASSUME RInv, [Next]_vars PROVE RInv'
  OBVIOUS
<1>1. IInv /\ TypeOK /\ OnePerTemplate /\ RolledOutIsServed
  BY DEF RInv, IInv
<1>2. IInv'
  BY <1>1, StepKeeps
<1> SUFFICES OnePerTemplate' /\ RolledOutIsServed'
  BY <1>2 DEF RInv
<1>3. ASSUME UNCHANGED << pods, deploy >>, spent \subseteq spent'
      PROVE  OnePerTemplate' /\ RolledOutIsServed'
  BY <1>1, <1>3 DEF OnePerTemplate, RolledOutIsServed, DeploymentRolledOut, Active, Updated,
     Exists, In
<1>4. CASE OperatorStep
  <2>1. UNCHANGED << pods, spent >>
    BY <1>1, <1>4, OperatorKeeps
  <2>2. CASE deploy' = deploy
    BY <1>3, <2>1, <2>2
  <2>3. CASE deploy' # deploy
    <3>1. WriteDeployment
      BY <1>4, <2>3 DEF OperatorStep, Start, WriteStatus, WriteConfig, cluster
    <3>2. deploy'.observed = FALSE
      BY <2>3, <3>1 DEF WriteDeployment, NewDeployment
    <3> QED
      BY <1>1, <2>1, <3>2 DEF OnePerTemplate, RolledOutIsServed, DeploymentRolledOut, Active,
         Exists
  <2> QED
    BY <2>2, <2>3
<1>5. ASSUME NEW p \in PodNames, ScaleDown(p) PROVE OnePerTemplate' /\ RolledOutIsServed'
  <2>1. Moved(p) /\ UNCHANGED << deploy, spent >>
    BY <1>1, <1>5, ScaleDownMoves
  <2>2. p \in Outdated /\ deploy # NoObject
    BY <1>5 DEF ScaleDown
  <2>3. ~DeploymentRolledOut(deploy)
    BY <1>1, <2>2 DEF RolledOutIsServed, Outdated
  <2>4. ~In(p, "leaving") /\ p \in Active
    BY <2>2 DEF Outdated, Active, In
  <2>5. Active' \subseteq Active /\ \A q \in Active' : pods'[q].template = pods[q].template
    BY <2>1, <2>4 DEF Active, Exists, Moved
  <2> QED
    BY <1>1, <2>1, <2>3, <2>5 DEF OnePerTemplate, RolledOutIsServed, DeploymentRolledOut
<1>6. ASSUME NEW p \in PodNames, NEW n \in NodesFor(deploy), ScaleUp(p, n)
      PROVE  OnePerTemplate' /\ RolledOutIsServed'
  <2>1. /\ \A q \in PodNames : q # p => pods'[q] = pods[q]
        /\ pods'[p].template = deploy.template
        /\ UNCHANGED << deploy, spent >> /\ deploy # NoObject
    BY <1>1, <1>6, ScaleUpMakes
  <2>2. Updated = {}
    BY <1>6 DEF ScaleUp
  <2>3. ~DeploymentRolledOut(deploy)
    BY <1>1, <2>1, <2>2 DEF RolledOutIsServed
  <2>4. \A q \in Active' : q # p => q \in Active /\ pods'[q].template = pods[q].template
    BY <2>1 DEF Active, Exists
  <2>5. \A q \in Active : pods[q].template # deploy.template
    BY <2>2 DEF Updated
  <2> QED
    BY <1>1, <2>1, <2>3, <2>4, <2>5 DEF OnePerTemplate, RolledOutIsServed, DeploymentRolledOut
<1>7. CASE Sync
  <2>1. /\ UNCHANGED << pods, spent >> /\ deploy # NoObject /\ deploy \in Deployments
        /\ deploy' = [ deploy EXCEPT !.observed = TRUE, !.status = StatusOf(Counted) ]
    BY <1>1, <1>7, StatusKeeps DEF Sync, TypeOK
  <2>2. deploy'.template = deploy.template /\ deploy'.status = StatusOf(Counted)
    BY <2>1 DEF Deployments
  <2>3. OnePerTemplate'
    BY <1>1, <2>1 DEF OnePerTemplate, Active, Exists
  <2>4. ASSUME DeploymentRolledOut(deploy')
        PROVE  \E p \in Updated : Active = { p } /\ In(p, "ready")
    <3>1. /\ Cardinality(Updated) >= 1 /\ Cardinality(Active) = Cardinality(Updated)
          /\ Cardinality(Ready) = Cardinality(Updated)
      BY <2>2, <2>4 DEF DeploymentRolledOut, StatusOf, Counted
    <3> QED
      BY <1>1, <3>1, CountersTell
  <2>5. Active' = Active /\ Updated' = Updated /\ \A p : In(p, "ready")' <=> In(p, "ready")
    BY <2>1, <2>2 DEF Active, Updated, Exists, In
  <2>6. RolledOutIsServed'
    BY <2>4, <2>5 DEF RolledOutIsServed, DeploymentRolledOut
  <2> QED
    BY <2>3, <2>6
<1>8. CASE Exceed
  <2>1. /\ UNCHANGED << pods, spent >> /\ deploy # NoObject /\ deploy \in Deployments
        /\ deploy' = [ deploy EXCEPT !.status.progress = "exceeded" ]
    BY <1>1, <1>8, StatusKeeps DEF Exceed, TypeOK
  <2>2. /\ deploy'.template = deploy.template
        /\ DeploymentRolledOut(deploy') <=> DeploymentRolledOut(deploy)
    BY <2>1 DEF Deployments, DeploymentStatuses, DeploymentRolledOut
  <2>3. Active' = Active /\ Updated' = Updated /\ \A p, ph : In(p, ph)' <=> In(p, ph)
    BY <2>1, <2>2 DEF Active, Updated, Exists, In
  <2> QED
    BY <1>1, <2>1, <2>2, <2>3 DEF OnePerTemplate, RolledOutIsServed
<1>9. ASSUME NEW p \in PodNames, Kubelet(p) PROVE OnePerTemplate' /\ RolledOutIsServed'
  <2>1. Moved(p) /\ KeepsRunning(p) /\ UNCHANGED << deploy, spent >>
    BY <1>1, <1>9, KubeletMoves, KubeletRuns
  <2> QED
    BY <2>1, RunningServes
<1>10. ASSUME NEW p \in PodNames, ContainerCrash(p) PROVE OnePerTemplate' /\ RolledOutIsServed'
  <2>1. Moved(p) /\ KeepsRunning(p) /\ UNCHANGED deploy /\ spent \subseteq spent'
    BY <1>1, <1>10, ContainerCrashMoves, ContainerCrashRuns
  <2> QED
    BY <2>1, RunningServes
<1>11. ASSUME NEW p \in PodNames, InitFails(p) PROVE OnePerTemplate' /\ RolledOutIsServed'
  <2>1. Moved(p) /\ KeepsRunning(p) /\ UNCHANGED deploy /\ spent \subseteq spent'
    BY <1>1, <1>11, InitFailsMoves, InitFailsRuns
  <2> QED
    BY <2>1, RunningServes
<1>12. CASE Edit
  <2>1. UNCHANGED << pods, deploy, spent >>
    BY <1>12 DEF Edit, cluster
  <2> QED
    BY <1>3, <2>1
<1>13. CASE LoseCall \/ OperatorCrash
  <2>1. UNCHANGED << pods, deploy >> /\ spent \subseteq spent'
    BY <1>13 DEF LoseCall, OperatorCrash, Spend, cluster
  <2> QED
    BY <1>3, <2>1
<1>14. CASE UNCHANGED vars
  <2>1. UNCHANGED << pods, deploy, spent >>
    BY <1>14 DEF vars
  <2> QED
    BY <1>3, <2>1
<1> QED
  BY <1>4, <1>5, <1>6, <1>7, <1>8, <1>9, <1>10, <1>11, <1>12, <1>13, <1>14 DEF Next, Scale, Fault

LEMMA InitServes == Init => RInv
<1>1. Init => IInv
  BY InitEstablishes
<1>2. Init => Active = {} /\ deploy = NoObject
  BY DEF Init, Active, Exists
<1> QED
  BY <1>1, <1>2 DEF RInv, OnePerTemplate, RolledOutIsServed

\* What the conditions call rolled out is served by the one pod of the current
\* template, whatever became of earlier revisions, edits that were undone included.
THEOREM RolloutIsServed == Spec => []RolledOutIsServed
<1>1. Init => RInv
  BY InitServes
<1>2. RInv /\ [Next]_vars => RInv'
  BY RStepKeeps
<1>3. RInv => RolledOutIsServed
  BY DEF RInv
<1> QED
  BY <1>1, <1>2, <1>3, PTL DEF Spec

-----------------------------------------------------------------------------
(* Nothing is missed.  An edit in a pass puts the Site back into the queue, *)
(* so while it is not there, the pass under way works on the spec there is. *)

\* The Deployment carries what the spec asks for.
DeploymentCurrent == deploy # NoObject /\ deploy.template = Template(spec)

\* A pass that has met an error only writes the status; a Site that is not in the
\* queue is being worked on as it is, or has been.
PassCurrent ==
    /\ pos = 0 => ~failed
    /\ failed => pos = 4
    /\ pos # 0 /\ ~queue => work = spec
    /\ pos = 4 /\ ~failed => config = work.config
    /\ pos = 4 /\ ~failed /\ ~queue => DeploymentCurrent
    /\ pos = 0 /\ ~queue =>
           config = spec.config /\ DeploymentCurrent /\ conditions = SiteConditions

QInv == IInv /\ PassCurrent

LEMMA OperatorCurrent ==
    ASSUME QInv, OperatorStep
    PROVE  PassCurrent'
<1>1. IInv /\ TypeOK /\ ConfigsOrdered /\ PassCurrent
  BY DEF QInv, IInv
<1>2. /\ pos \in 0..4
      /\ \A f \in ConfigFiles : At(f) <=> pos = IF f = "nginx" THEN 1 ELSE 2
      /\ At("deployment") <=> pos = 3
      /\ At("status") <=> pos = 4
  BY <1>1, StepAt DEF ConfigFiles
<1>3. CASE Start
  <2>1. pos = 0 /\ pos' = 1 /\ work' = spec /\ spec' = spec /\ failed' = failed
    BY <1>3 DEF Start
  <2> QED
    BY <1>1, <2>1 DEF PassCurrent
<1>4. ASSUME NEW f \in ConfigFiles, WriteConfig(f)
      PROVE  PassCurrent'
  <2>1. pos \in 1..2 /\ pos' = pos + 1 /\ UNCHANGED << spec, work, failed >>
    BY <1>2, <1>4 DEF WriteConfig
  <2>2. ~queue' => ~queue
    BY <1>4 DEF WriteConfig, Wrote
  <2> QED
    BY <1>1, <2>1, <2>2 DEF PassCurrent
<1>5. CASE WriteDeployment
  <2>1. pos = 3 /\ pos' = 4 /\ UNCHANGED << spec, work, failed, config >>
    BY <1>2, <1>5 DEF WriteDeployment
  <2>2. config = work.config
    <3>1. work.config \in [ ConfigFiles -> Contents ]
      BY <1>1, <2>1 DEF TypeOK, SiteSpecs
    <3>2. \A f \in ConfigFiles : config[f] = work.config[f]
      BY <1>1, <2>1 DEF ConfigsOrdered
    <3> QED
      BY <1>1, <3>1, <3>2 DEF TypeOK
  <2>3. ASSUME ~queue'
        PROVE  work = spec /\ DeploymentCurrent'
    <3>1. ~queue /\ deploy' = deploy
      BY <1>5, <2>3 DEF WriteDeployment, Wrote
    <3>2. work = spec
      BY <1>1, <2>1, <3>1 DEF PassCurrent
    <3>3. deploy # NoObject
      <4>1. NewDeployment # NoObject
        BY <1>1, <2>1, Derived, NoObjectAssumption
      <4> QED
        BY <1>5, <3>1, <4>1 DEF WriteDeployment
    <3>4. deploy.template = NewDeployment.template
      <4>1. \/ deploy.template = NewDeployment.template
            \/ deploy = [ NewDeployment EXCEPT !.status = deploy.status ]
        BY <1>5, <3>1, <3>3 DEF WriteDeployment
      <4> QED
        BY <4>1 DEF NewDeployment
    <3> QED
      BY <2>1, <3>1, <3>2, <3>3, <3>4 DEF DeploymentCurrent, NewDeployment, Template, ConfigChecksum
  <2> QED
    BY <1>1, <2>1, <2>2, <2>3 DEF PassCurrent
<1>6. CASE WriteStatus
  <2>1. /\ pos = 4 /\ pos' = 0 /\ failed' = FALSE /\ UNCHANGED << spec, config, deploy >>
        /\ conditions' = SiteConditions
        /\ queue' = (queue \/ failed \/ conditions' # conditions)
    BY <1>2, <1>6 DEF WriteStatus, EndPass, cluster
  <2>2. ASSUME ~queue'
        PROVE  /\ config' = spec'.config /\ DeploymentCurrent'
               /\ conditions' = SiteConditions'
    <3>1. ~queue /\ ~failed
      BY <1>1, <2>1, <2>2 DEF TypeOK
    <3>2. config = work.config /\ work = spec /\ DeploymentCurrent
      BY <1>1, <2>1, <3>1 DEF PassCurrent
    <3>3. SiteConditions' = SiteConditions
      BY <2>1, <3>1 DEF SiteConditions
    <3> QED
      BY <2>1, <3>2, <3>3 DEF DeploymentCurrent
  <2> QED
    BY <2>1, <2>2 DEF PassCurrent
<1> QED
  BY <1>3, <1>4, <1>5, <1>6 DEF OperatorStep

LEMMA QStepKeeps == QInv /\ [Next]_vars => QInv'
<1> SUFFICES ASSUME QInv, [Next]_vars PROVE QInv'
  OBVIOUS
<1>1. IInv /\ TypeOK /\ PassCurrent
  BY DEF QInv, IInv
<1>2. IInv'
  BY <1>1, StepKeeps
<1> SUFFICES PassCurrent'
  BY <1>2 DEF QInv
<1>3. ASSUME UNCHANGED << spec, config, deploy, pos, work, failed, queue, conditions >>
      PROVE  PassCurrent'
  BY <1>1, <1>3 DEF PassCurrent, DeploymentCurrent, Template, ConfigChecksum, SiteConditions,
     DeploymentRolledOut, DeploymentStalled, Conditions
<1>4. CASE OperatorStep
  BY <1>4, OperatorCurrent
<1>5. ASSUME NEW p \in PodNames,
             Kubelet(p) \/ ScaleDown(p) \/ ContainerCrash(p) \/ InitFails(p)
      PROVE  PassCurrent'
  <2>1. UNCHANGED << spec, config, deploy, pos, work, failed, queue, conditions >>
    BY <1>1, <1>5, KubeletMoves, ScaleDownMoves, ContainerCrashMoves, InitFailsMoves
  <2> QED
    BY <1>3, <2>1
<1>6. ASSUME NEW p \in PodNames, NEW n \in NodesFor(deploy), ScaleUp(p, n)
      PROVE  PassCurrent'
  <2>1. UNCHANGED << spec, config, deploy, pos, work, failed, queue, conditions >>
    BY <1>1, <1>6, ScaleUpMakes
  <2> QED
    BY <1>3, <2>1
<1>7. CASE Sync \/ Exceed \/ Edit
  <2>1. UNCHANGED << config, pos, work, failed >> /\ queue' = TRUE
    BY <1>7 DEF Sync, Exceed, Edit, NotByCluster, operator, cluster
  <2> QED
    BY <1>1, <2>1 DEF PassCurrent
<1>8. CASE LoseCall \/ OperatorCrash
  <2>1. \/ pos' = 0 /\ failed' = FALSE /\ queue' = TRUE
        \/ pos' = 4 /\ failed' = TRUE /\ UNCHANGED << spec, work, queue >> /\ pos # 0
    BY <1>8, Order DEF LoseCall, OperatorCrash, EndPass
  <2> QED
    BY <1>1, <2>1 DEF PassCurrent
<1>9. CASE UNCHANGED vars
  <2>1. UNCHANGED << spec, config, deploy, pos, work, failed, queue, conditions >>
    BY <1>9 DEF vars
  <2> QED
    BY <1>3, <2>1
<1> QED
  BY <1>4, <1>5, <1>6, <1>7, <1>8, <1>9 DEF Next, Scale, Fault

\* An operator that is at rest has missed nothing: no edit, no lost call and no crash at
\* any moment of a pass leaves objects or conditions behind that no pass is going to mend.
THEOREM IdleMissedNothing == Spec => []IdleIsDone
<1>1. Init => QInv
  <2>1. Init => IInv
    BY InitEstablishes
  <2>2. Init => pos = 0 /\ failed = FALSE /\ queue = TRUE
    BY DEF Init
  <2> QED
    BY <2>1, <2>2 DEF QInv, PassCurrent
<1>2. QInv /\ [Next]_vars => QInv'
  BY QStepKeeps
<1>3. QInv => IdleIsDone
  BY DEF QInv, PassCurrent, IdleIsDone, DeploymentCurrent, Template, ConfigChecksum,
         IInv, StrategyCarried
<1> QED
  BY <1>1, <1>2, <1>3, PTL DEF Spec

-----------------------------------------------------------------------------
(* The rollout goes on by the steps of DeploymentRollout.                  *)

\* The Progressing condition agrees with the counters, also after the template has been
\* replaced: a rollout that was complete is not taken for a stalled one.
CompleteIsDone ==
    deploy # NoObject /\ DeploymentRolledOut(deploy) => deploy.status.progress = "done"

SInv == RInv /\ CompleteIsDone

\* Counters that agree are those of a complete rollout.
LEMMA CountersComplete ==
    ASSUME OnePerTemplate, DeploymentRolledOut(deploy'),
           deploy'.status = StatusOf(Counted)
    PROVE  deploy'.status.progress = "done"
<1>1. /\ Cardinality(Updated) >= 1 /\ Cardinality(Active) = Cardinality(Updated)
      /\ Cardinality(Ready) = Cardinality(Updated)
  BY DEF DeploymentRolledOut, StatusOf, Counted
<1>2. PICK p \in Updated : Active = { p } /\ In(p, "ready")
  BY <1>1, CountersTell
<1>3. Cardinality(Active) = 1
  BY <1>2, FS_Singleton
<1>4. Complete(Counted)
  BY <1>1, <1>3 DEF Complete, Counted
<1> QED
  BY <1>4 DEF StatusOf, Progress

LEMMA RolloutMoves ==
    ASSUME SInv, [Next]_vars
    PROVE  CompleteIsDone' /\ [Stages!Next]_Rollout
<1>1. IInv /\ TypeOK /\ OnePerTemplate /\ CompleteIsDone
  BY DEF SInv, RInv, IInv
<1>2. CASE deploy' = deploy
  BY <1>1, <1>2 DEF CompleteIsDone, DeploymentRolledOut, DeploymentStalled, Rollout
<1>3. CASE WriteDeployment /\ deploy' # deploy
  <2>1. CASE deploy = NoObject
    <3>1. deploy' = NewDeployment
      BY <1>3, <2>1 DEF WriteDeployment
    <3>2. deploy' # NoObject /\ ~DeploymentRolledOut(deploy') /\ ~DeploymentStalled(deploy')
      BY <1>3, <2>1, <3>1 DEF NewDeployment, DeploymentRolledOut, DeploymentStalled
    <3>3. Rollout = "none" /\ Rollout' = "rolling"
      BY <2>1, <3>2 DEF Rollout, DeploymentRolledOut, DeploymentStalled
    <3> QED
      BY <3>2, <3>3 DEF CompleteIsDone, DeploymentRolledOut, Stages!Next, Stages!Create
  <2>2. CASE deploy # NoObject
    <3>1. deploy' = [ NewDeployment EXCEPT !.status = deploy.status ]
      BY <1>3, <2>2 DEF WriteDeployment
    <3>2. /\ deploy' # NoObject /\ ~DeploymentRolledOut(deploy')
          /\ DeploymentStalled(deploy') <=> DeploymentStalled(deploy)
      <4>1. NewDeployment \in Deployments
        BY <1>1, <1>3, Derived, StepAt DEF WriteDeployment
      <4>2. deploy \in Deployments
        BY <1>1, <2>2 DEF TypeOK
      <4>3. deploy' \in Deployments
        BY <3>1, <4>1, <4>2 DEF Deployments
      <4> QED
        BY <3>1, <4>3, NoObjectAssumption DEF NewDeployment, DeploymentRolledOut, DeploymentStalled
    <3>3. Rollout' = (IF DeploymentStalled(deploy) THEN "stalled" ELSE "rolling")
      BY <3>2 DEF Rollout, DeploymentRolledOut, DeploymentStalled
    <3>4. DeploymentStalled(deploy) => Rollout = "stalled"
      BY <1>1, <2>2 DEF CompleteIsDone, DeploymentStalled, Rollout
    <3>5. ~DeploymentStalled(deploy) => Rollout \in { "ready", "rolling" }
      BY <2>2 DEF Rollout
    <3> QED
      BY <3>2, <3>3, <3>4, <3>5
         DEF CompleteIsDone, DeploymentRolledOut, Stages!Next, Stages!Restart
  <2> QED
    BY <2>1, <2>2
<1>4. CASE Sync
  <2>1. /\ deploy # NoObject /\ deploy \in Deployments
        /\ deploy' = [ deploy EXCEPT !.observed = TRUE, !.status = StatusOf(Counted) ]
    BY <1>1, <1>4 DEF Sync, TypeOK
  <2>2. deploy'.status = StatusOf(Counted) /\ deploy' # NoObject
    <3>1. deploy' # NoObject
      BY <1>1, <1>4, StatusWritten, NoObjectAssumption
    <3> QED
      BY <2>1, <3>1 DEF Deployments
  <2>3. CompleteIsDone'
    <3>1. DeploymentRolledOut(deploy') => deploy'.status.progress = "done"
      BY <1>1, <2>2, CountersComplete
    <3> QED
      BY <3>1 DEF CompleteIsDone, DeploymentRolledOut
  <2>4. deploy'.status.progress = "exceeded" => deploy.status.progress = "exceeded"
    BY <2>2 DEF StatusOf, Progress
  <2>5. Rollout' = "stalled" => Rollout = "stalled"
    BY <1>1, <2>1, <2>4 DEF Rollout, DeploymentRolledOut, DeploymentStalled, CompleteIsDone
  <2>6. /\ Rollout' \in { "ready", "stalled", "rolling" }
        /\ Rollout \in { "ready", "stalled", "rolling" }
    BY <2>1, <2>2 DEF Rollout
  <2> QED
    BY <2>3, <2>5, <2>6 DEF Stages!Next, Stages!Restart, Stages!Complete
<1>5. CASE Exceed
  <2>1. /\ deploy # NoObject /\ deploy \in Deployments /\ deploy.status.progress = "going"
        /\ deploy' = [ deploy EXCEPT !.status.progress = "exceeded" ]
    BY <1>1, <1>5 DEF Exceed, TypeOK
  <2>2. /\ deploy'.status.progress = "exceeded" /\ deploy' # NoObject
        /\ DeploymentRolledOut(deploy') <=> DeploymentRolledOut(deploy)
    <3>1. deploy' \in Deployments
      BY <1>1, <1>5, StatusWritten
    <3> QED
      BY <2>1, <3>1, NoObjectAssumption DEF Deployments, DeploymentStatuses, DeploymentRolledOut
  <2>3. ~DeploymentRolledOut(deploy)
    BY <1>1, <2>1 DEF CompleteIsDone
  <2>4. Rollout = "rolling" /\ Rollout' = "stalled"
    BY <2>1, <2>2, <2>3 DEF Rollout, DeploymentRolledOut, DeploymentStalled
  <2> QED
    BY <2>2, <2>3, <2>4 DEF CompleteIsDone, DeploymentRolledOut, Stages!Next, Stages!Expire
<1>6. deploy' = deploy \/ WriteDeployment \/ Sync \/ Exceed
  <2>1. ASSUME NEW p \in PodNames,
               \/ Kubelet(p) \/ ScaleDown(p) \/ ContainerCrash(p) \/ InitFails(p)
               \/ \E n \in NodesFor(deploy) : ScaleUp(p, n)
        PROVE  deploy' = deploy
    BY <1>1, <2>1, KubeletMoves, ScaleDownMoves, ContainerCrashMoves, InitFailsMoves, ScaleUpMakes
  <2>2. OperatorStep => deploy' = deploy \/ WriteDeployment
    BY DEF OperatorStep, Start, WriteStatus, WriteConfig, cluster
  <2>3. Edit \/ LoseCall \/ OperatorCrash \/ UNCHANGED vars => deploy' = deploy
    BY DEF Edit, LoseCall, OperatorCrash, cluster, vars
  <2> QED
    BY <2>1, <2>2, <2>3 DEF Next, Scale, Fault
<1> QED
  BY <1>2, <1>3, <1>4, <1>5, <1>6

\* The pods and their counters go by the steps of DeploymentRollout: a rollout that was
\* complete is never read as stalled (status.go:72-92) without rolling in between.
THEOREM ImplementsRollout == Spec => RolloutSpec
<1>1. Init => SInv /\ Stages!Init
  <2>1. Init => RInv
    BY InitServes
  <2>2. Init => deploy = NoObject
    BY DEF Init
  <2> QED
    BY <2>1, <2>2 DEF SInv, CompleteIsDone, Stages!Init, Rollout
<1>2. SInv /\ [Next]_vars => SInv'
  BY RStepKeeps, RolloutMoves DEF SInv
<1>3. SInv /\ [Next]_vars => [Stages!Next]_Rollout
  BY RolloutMoves
<1> QED
  BY <1>1, <1>2, <1>3, PTL DEF Spec, RolloutSpec, Stages!Spec

=============================================================================
