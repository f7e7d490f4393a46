------------------------------ MODULE SitePods ------------------------------
(***************************************************************************)
(* The pods of a Site: the ConfigMaps and the Deployment a pass writes     *)
(* (internal/controller/deployment.go), the rollout that follows, the      *)
(* wp-init script that fills the volume, and the conditions the pass       *)
(* derives from the Deployment's counters (status.go).                     *)
(*                                                                         *)
(* One operator, which reads what is live: what stale reads and a second   *)
(* operator can do to the objects is the subject of SiteReconciler, which  *)
(* in turn knows a rollout only as rolling, stalled or ready.  The         *)
(* Deployment controller, the kubelet and the volume are modelled from     *)
(* what the Deployment asks of them: one replica, the default surge of one *)
(* pod and no unavailable one, a ReadWriteOnce claim.                      *)
(***************************************************************************)
EXTENDS Naturals, Sequences, FiniteSets

CONSTANTS
    MaxPods,        \* how many pods exist at a time
    Nodes,          \* where pods run
    Strategies,     \* the values of spec.updateStrategy tried
    Persistence,    \* the values of spec.persistence.enabled tried
    MaxEdits,       \* how often a user edits the spec
    Faults,         \* what goes wrong, each at most once ...
    MaxFaults,      \* ... and this many of them in a behaviour
    NoObject        \* no pod of this number, no such object

\* The two ConfigMaps and their keys: the rendered nginx and php.ini files.
ConfigFiles == { "nginx", "php" }

\* Every edit writes new content; the number of the edit stands for it.
Contents == 0..MaxEdits

FaultNames == { "lost_call", "operator_crash", "container_crash", "init_fails" }

ASSUME PodsAssumption   == MaxPods \in Nat \ {0} /\ Nodes # {}
ASSUME SpecsAssumption  == /\ Strategies \subseteq { "", "RollingUpdate", "Recreate" }
                           /\ Persistence \subseteq BOOLEAN
                           /\ MaxEdits \in Nat
ASSUME FaultsAssumption == Faults \subseteq FaultNames /\ MaxFaults \in Nat

VARIABLES
    spec,       \* the Site's spec
    edits,      \* edits so far
    config,     \* config[f]: the content of the ConfigMap of file f, or NoObject
    deploy,     \* the Deployment, or NoObject
    pods,       \* the pods, by number
    files,      \* files[d]: WordPress on disk d: "empty", "part" or "whole"
    pos,        \* the pass: 0 idle, or the number of its next step
    work,       \* the spec the pass has read
    failed,     \* the pass has met an error
    queue,      \* the Site is in the work queue
    conditions, \* Available, Progressing and Degraded, or NoObject
    spent       \* the faults that have happened

vars == << spec, edits, config, deploy, pods, files, pos, work, failed, queue, conditions, spent >>

operator == << pos, work, failed >>
cluster  == << config, deploy, pods, files >>

PodNames == 1..MaxPods

SiteSpecs == [ config     : [ ConfigFiles -> Contents ],
               image      : { "good", "bad" },      \* whether spec.php.image can be pulled
               strategy   : Strategies,
               persistent : Persistence ]

-----------------------------------------------------------------------------
(* What the pass derives from the spec.                                    *)

BuggyDeploymentStrategyType(s) == "Recreate"
BuggyUpdateStrategy(s) == "RollingUpdate"

\* deploymentStrategyType: RollingUpdate unless the Site says Recreate.
DeploymentStrategyType(s) == IF s.strategy = "Recreate" THEN "Recreate" ELSE "RollingUpdate"

BuggyConfigChecksum(s) == [ s.config EXCEPT !["php"] = 0 ]

\* configChecksum: one hash for the contents of both files.
ConfigChecksum(s) == s.config

\* buildDeploymentSpec: the parts of the pod template that are edited here.
Template(s) == [ hash |-> ConfigChecksum(s), image |-> s.image, persistent |-> s.persistent ]

Templates == { Template(s) : s \in SiteSpecs }

BuggyPassOrder == << "deployment", "nginx", "php", "status" >>

\* reconcileDeployment writes the ConfigMaps, then the Deployment with the hash
\* of what it has just written; the deferred status comes last.
PassOrder == << "nginx", "php", "deployment", "status" >>

-----------------------------------------------------------------------------
(* Deployments and pods.                                                   *)

DeploymentStatuses ==
    [ replicas : 0..MaxPods, updated : 0..MaxPods, available : 0..MaxPods,
      progress : { "going", "exceeded", "done" } ]   \* its Progressing condition

Deployments ==
    [ template : Templates,
      strategy : { "RollingUpdate", "Recreate" },
      observed : BOOLEAN,                            \* status.observedGeneration is current
      status   : DeploymentStatuses ]

Phases == { "pending",   \* waits for its volumes
            "attached",  \* holds its volumes, waits for its image
            "init",      \* wp-init runs
            "starting",  \* php-fpm starts
            "ready",     \* it listens, the readiness probe succeeds
            "leaving" }  \* being terminated

PodRecords ==
    [ template : Templates,
      node     : Nodes,
      phase    : Phases,
      mounted  : [ ConfigFiles -> Contents \cup { NoObject } ],  \* the files it sees
      copying  : BOOLEAN ]                                       \* wp-init is filling the disk

ASSUME NoObjectAssumption ==
    NoObject \notin Nat /\ NoObject \notin PodRecords /\ NoObject \notin Deployments

Exists(p)  == pods[p] # NoObject
Active     == { p \in PodNames : Exists(p) /\ pods[p].phase # "leaving" }
Updated    == { p \in Active : pods[p].template = deploy.template }
Outdated   == Active \ Updated
Ready      == { p \in Active : pods[p].phase = "ready" }

\* The volume of a pod: the Site's claim, or an emptyDir of its own.
Disks   == { 0 } \cup PodNames
Disk(p) == IF pods[p].template.persistent THEN 0 ELSE p

TypeOK ==
    /\ spec \in SiteSpecs /\ edits \in 0..MaxEdits
    /\ config \in [ ConfigFiles -> Contents \cup { NoObject } ]
    /\ deploy \in Deployments \cup { NoObject }
    /\ DOMAIN pods = PodNames
    /\ \A p \in PodNames : pods[p] \in PodRecords \cup { NoObject }
    /\ files \in [ Disks -> { "empty", "part", "whole" } ]
    /\ pos \in 0..Len(PassOrder)
    /\ work \in IF pos = 0 THEN { NoObject } ELSE SiteSpecs
    /\ failed \in BOOLEAN /\ queue \in BOOLEAN
    /\ conditions \in [ available : BOOLEAN, progressing : BOOLEAN, degraded : BOOLEAN ]
                        \cup { NoObject }
    /\ spent \subseteq Faults

-----------------------------------------------------------------------------
(* The pass.                                                               *)

At(step) == pos # 0 /\ PassOrder[pos] = step

Start ==
    /\ pos = 0 /\ queue
    /\ queue' = FALSE
    /\ work' = spec /\ pos' = 1
    /\ UNCHANGED << spec, edits, cluster, failed, conditions, spent >>

\* An object the Site owns changes: the Site is enqueued.
Wrote(changed) == queue' = (queue \/ changed)

WriteConfig(f) ==
    /\ At(f)
    /\ config' = [ config EXCEPT ![f] = work.config[f] ]
    /\ Wrote(config' # config)
    /\ pos' = pos + 1
    /\ UNCHANGED << spec, edits, deploy, pods, files, work, failed, conditions, spent >>

NewDeployment ==
    [ template |-> Template(work),
      strategy |-> DeploymentStrategyType(work),
      observed |-> FALSE,
      status   |-> [ replicas |-> 0, updated |-> 0, available |-> 0, progress |-> "going" ] ]

\* An update that changes neither template nor strategy leaves the generation as it is.
WriteDeployment ==
    /\ At("deployment")
    /\ deploy' = IF deploy = NoObject THEN NewDeployment
                 ELSE IF /\ deploy.template = NewDeployment.template
                         /\ deploy.strategy = NewDeployment.strategy
                 THEN deploy
                 ELSE [ NewDeployment EXCEPT !.status = deploy.status ]
    /\ Wrote(deploy' # deploy)
    /\ pos' = pos + 1
    /\ UNCHANGED << spec, edits, config, pods, files, work, failed, conditions, spent >>

BuggyDeploymentRolledOut(d) == d.observed /\ d.status.updated >= 1 /\ d.status.available >= 1

\* deploymentRolledOut, for the one replica the operator asks for.
DeploymentRolledOut(d) ==
    /\ d.observed
    /\ d.status.updated >= 1
    /\ d.status.replicas = d.status.updated
    /\ d.status.available = d.status.updated

BuggyDeploymentStalled(d) == d.status.progress # "going"

DeploymentStalled(d) == d.status.progress = "exceeded"

Conditions(a, p, d) == [ available |-> a, progressing |-> p, degraded |-> d ]

\* setSiteConditions
SiteConditions ==
    IF failed THEN Conditions(FALSE, FALSE, TRUE)
    ELSE IF deploy = NoObject THEN Conditions(FALSE, TRUE, FALSE)
    ELSE IF DeploymentRolledOut(deploy) THEN Conditions(TRUE, FALSE, FALSE)
    ELSE Conditions(deploy.status.available > 0, ~DeploymentStalled(deploy),
                    DeploymentStalled(deploy))

BuggyEndPass == pos' = 0 /\ failed' = FALSE /\ UNCHANGED work

EndPass == pos' = 0 /\ work' = NoObject /\ failed' = FALSE

\* The status is an update of the Site, so it enqueues the Site when it changes
\* something; a pass that failed is retried.
WriteStatus ==
    /\ At("status")
    /\ conditions' = SiteConditions
    /\ queue' = (queue \/ failed \/ conditions' # conditions)
    /\ EndPass
    /\ UNCHANGED << spec, edits, cluster, spent >>

OperatorStep ==
    Start \/ WriteDeployment \/ WriteStatus \/ \E f \in ConfigFiles : WriteConfig(f)

-----------------------------------------------------------------------------
(* The Deployment controller: one replica, and while rolling at most one   *)
(* pod more and none fewer.                                                *)

NotByCluster == UNCHANGED << spec, edits, config, operator, conditions, spent >>

\* Only to the pods of a claim does it matter where they run.
NodesFor(d) ==
    IF d # NoObject /\ d.template.persistent THEN Nodes ELSE { CHOOSE n \in Nodes : TRUE }

NewPod(n) == [ template |-> deploy.template, node |-> n, phase |-> "pending",
               mounted  |-> [ f \in ConfigFiles |-> NoObject ], copying |-> FALSE ]

\* A new pod starts beside the old one, or under Recreate when the old one is gone.
ScaleUp(p, n) ==
    /\ deploy # NoObject
    /\ Updated = {}
    /\ IF deploy.strategy = "Recreate"
       THEN \A q \in PodNames : Exists(q) => pods[q].template = deploy.template
       ELSE Cardinality(Active) < 2
    /\ ~Exists(p) /\ \A q \in 1..(p - 1) : Exists(q)
    /\ pods'  = [ pods EXCEPT ![p] = NewPod(n) ]
    /\ UNCHANGED << deploy, files, queue >> /\ NotByCluster

\* An old pod stops: at once under Recreate, otherwise an unready one that a new
\* one has made superfluous, or a ready one when another is ready.
ScaleDown(p) ==
    /\ deploy # NoObject
    /\ p \in Outdated
    /\ \/ deploy.strategy = "Recreate"
       \/ /\ Cardinality(Active) - 1 > Cardinality(Updated \ Ready)
          /\ p \in Ready => Ready # { p }
    /\ pods' = [ pods EXCEPT ![p].phase = "leaving" ]
    /\ UNCHANGED << deploy, files, queue >> /\ NotByCluster

Counted == [ replicas  |-> Cardinality(Active),
             updated   |-> Cardinality(Updated),
             available |-> Cardinality(Ready) ]

Complete(c) == c.updated = 1 /\ c.replicas = 1 /\ c.available = 1

\* The Progressing condition that goes with new counters: a completed rollout
\* stays completed while there are no other pods, and any change of the counters
\* is progress.
Progress(c) ==
    LET s == deploy.status IN
    IF Complete(c) THEN "done"
    ELSE IF deploy.observed /\ s.progress = "done" /\ c.replicas = c.updated THEN "done"
    ELSE IF ~deploy.observed
            \/ << s.replicas, s.updated, s.available >> # << c.replicas, c.updated, c.available >>
         THEN "going"
    ELSE s.progress

StatusOf(c) == [ replicas |-> c.replicas, updated |-> c.updated, available |-> c.available,
                 progress |-> Progress(c) ]

Sync ==
    /\ deploy # NoObject
    /\ deploy' = [ deploy EXCEPT !.observed = TRUE, !.status = StatusOf(Counted) ]
    /\ deploy' # deploy
    /\ queue' = TRUE
    /\ UNCHANGED << pods, files >> /\ NotByCluster

\* The progress deadline passes before the rollout is complete.
Exceed ==
    /\ deploy # NoObject
    /\ deploy.observed /\ deploy.status.progress = "going"
    /\ deploy' = [ deploy EXCEPT !.status.progress = "exceeded" ]
    /\ queue' = TRUE
    /\ UNCHANGED << pods, files >> /\ NotByCluster

-----------------------------------------------------------------------------
(* The kubelet, and the wp-init script it runs.                            *)

NotByKubelet == UNCHANGED << deploy, queue >> /\ NotByCluster

In(p, phase) == Exists(p) /\ pods[p].phase = phase

HasVolumes(p) == Exists(p) /\ \A f \in ConfigFiles : pods[p].mounted[f] # NoObject

HoldsClaim(p) == HasVolumes(p) /\ pods[p].template.persistent

\* The ConfigMaps are there, and a ReadWriteOnce claim is on no other node.
Attach(p) ==
    /\ In(p, "pending")
    /\ \A f \in ConfigFiles : config[f] # NoObject
    /\ pods[p].template.persistent =>
           \A q \in PodNames : HoldsClaim(q) => pods[q].node = pods[p].node
    /\ pods' = [ pods EXCEPT ![p].phase = "attached", ![p].mounted = config ]
    /\ UNCHANGED files /\ NotByKubelet

Pull(p) ==
    /\ In(p, "attached")
    /\ pods[p].template.image = "good"
    /\ pods' = [ pods EXCEPT ![p].phase = "init" ]
    /\ UNCHANGED files /\ NotByKubelet

\* There is no index.php: wp-init begins to copy, or to download, WordPress.
\* index.php is among the first files to appear.
Seed(p) ==
    /\ In(p, "init") /\ ~pods[p].copying
    /\ files[Disk(p)] = "empty"
    /\ pods'  = [ pods EXCEPT ![p].copying = TRUE ]
    /\ files' = [ files EXCEPT ![Disk(p)] = "part" ]
    /\ NotByKubelet

\* What a container finds in its files when it starts, and keeps, for they are
\* mounted by subPath: the kubelet may have refreshed the volume or not.
MountedAtStart(p) == { pods[p].mounted, config }

SkipSeed(p) ==
    /\ In(p, "init") /\ ~pods[p].copying
    /\ files[Disk(p)] # "empty"
    /\ \E m \in MountedAtStart(p) :
           pods' = [ pods EXCEPT ![p].phase = "starting", ![p].mounted = m ]
    /\ UNCHANGED files /\ NotByKubelet

\* A pod that is told to stop while wp-init copies may still finish the copy.
CopyDone(p) ==
    /\ Exists(p) /\ pods[p].copying
    /\ files' = [ files EXCEPT ![Disk(p)] = "whole" ]
    /\ \E m \in MountedAtStart(p) :
           pods' = [ pods EXCEPT ![p] =
               IF @.phase = "init"
               THEN [ @ EXCEPT !.copying = FALSE, !.phase = "starting", !.mounted = m ]
               ELSE [ @ EXCEPT !.copying = FALSE ] ]
    /\ NotByKubelet

BecomeReady(p) ==
    /\ In(p, "starting")
    /\ pods' = [ pods EXCEPT ![p].phase = "ready" ]
    /\ UNCHANGED files /\ NotByKubelet

Gone(p) ==
    /\ In(p, "leaving")
    /\ pods'  = [ pods EXCEPT ![p] = NoObject ]
    /\ files' = [ files EXCEPT ![p] = "empty" ]        \* its emptyDir goes with it
    /\ NotByKubelet

Kubelet(p) ==
    \/ Attach(p) \/ Pull(p) \/ Seed(p) \/ SkipSeed(p) \/ CopyDone(p)
    \/ BecomeReady(p) \/ Gone(p)

-----------------------------------------------------------------------------
(* The user, and what goes wrong.                                          *)

NoEditYet == edits < MaxEdits

\* A user rewrites one of the two configs, or the image.
Edit ==
    /\ NoEditYet
    /\ edits' = edits + 1
    /\ \/ \E f \in ConfigFiles : spec' = [ spec EXCEPT !.config[f] = edits' ]
       \/ spec' = [ spec EXCEPT !.image = IF @ = "good" THEN "bad" ELSE "good" ]
    /\ queue' = TRUE
    /\ UNCHANGED << cluster, operator, conditions, spent >>

Spend(fault) ==
    /\ fault \in Faults \ spent
    /\ Cardinality(spent) < MaxFaults
    /\ spent' = spent \cup { fault }

\* A call to the API fails: the pass goes on to its deferred status, and when
\* that is the call that fails, to its retry.
LoseCall ==
    /\ Spend("lost_call")
    /\ pos # 0
    /\ IF At("status")
       THEN EndPass /\ queue' = TRUE
       ELSE pos' = Len(PassOrder) /\ failed' = TRUE /\ UNCHANGED << work, queue >>
    /\ UNCHANGED << spec, edits, cluster, conditions >>

\* The operator dies in a pass; the next one begins with every Site in its queue.
OperatorCrash ==
    /\ Spend("operator_crash")
    /\ pos # 0
    /\ EndPass /\ queue' = TRUE
    /\ UNCHANGED << spec, edits, cluster, conditions >>

\* A container of a ready pod dies and is started again, on what its mounts are now.
ContainerCrash(p) ==
    /\ Spend("container_crash")
    /\ In(p, "ready")
    /\ \E m \in MountedAtStart(p) :
           pods' = [ pods EXCEPT ![p].phase = "starting", ![p].mounted = m ]
    /\ UNCHANGED << spec, edits, config, deploy, files, operator, queue, conditions >>

\* wp-init dies, or its download fails, half way; the kubelet runs it again, on the
\* volume as it is.
InitFails(p) ==
    /\ Spend("init_fails")
    /\ In(p, "init") /\ pods[p].copying
    /\ pods' = [ pods EXCEPT ![p].copying = FALSE ]
    /\ UNCHANGED << spec, edits, config, deploy, files, operator, queue, conditions >>

-----------------------------------------------------------------------------
Init ==
    /\ spec \in [ config : { [ f \in ConfigFiles |-> 0 ] }, image : { "good" },
                  strategy : Strategies, persistent : Persistence ]
    /\ edits = 0
    /\ config = [ f \in ConfigFiles |-> NoObject ]
    /\ deploy = NoObject
    /\ pods = [ p \in PodNames |-> NoObject ]
    /\ files = [ d \in Disks |-> "empty" ]
    /\ pos = 0 /\ work = NoObject /\ failed = FALSE
    /\ queue = TRUE
    /\ conditions = NoObject
    /\ spent = {}

Fault == LoseCall \/ OperatorCrash \/ \E p \in PodNames : ContainerCrash(p) \/ InitFails(p)

Scale == \E p \in PodNames : ScaleDown(p) \/ \E n \in NodesFor(deploy) : ScaleUp(p, n)

Next ==
    \/ OperatorStep
    \/ Scale \/ Sync \/ Exceed
    \/ \E p \in PodNames : Kubelet(p)
    \/ Edit
    \/ Fault

\* The workers of the operator and of the Deployment controller run, the progress
\* deadline passes, and every pod moves on while it can. Edits and faults need not come.
Fairness ==
    /\ WF_vars(OperatorStep)
    /\ WF_vars(Scale) /\ WF_vars(Sync) /\ WF_vars(Exceed)
    /\ \A p \in PodNames : WF_vars(Kubelet(p))

Spec == Init /\ [][Next]_vars /\ Fairness

-----------------------------------------------------------------------------
(* Properties.                                                             *)

\* A container never runs with a file older than the hash on its pod says: the pass
\* writes the ConfigMaps before the Deployment whose template carries their hash
\* (deployment.go:60-116), so no pod of a new template can start on an old file.
ConfigNotOlder ==
    \A p \in PodNames : HasVolumes(p) =>
        \A f \in ConfigFiles : pods[p].mounted[f] >= pods[p].template.hash[f]

\* An edit, a bad image or a failed pass never takes down the last ready pod of a Site
\* that did not ask for Recreate: only the death of its own container does
\* ("the old revision keeps serving during a RollingUpdate", status.go:44-46).
OldKeepsServing ==
    [][ (spec.strategy # "Recreate" /\ Ready # {} /\ Ready' = {})
            => "container_crash" \in spent' \ spent ]_vars

\* Under Recreate no wp-init writes to a volume from which a pod of another revision
\* serves: the old pod has stopped, its script with it, before the new one starts
\* ("a site that has already started is never touched", deployment.go:289).
StartedIsUntouched ==
    spec.strategy = "Recreate" =>
        \A p, q \in PodNames :
            (Exists(p) /\ pods[p].copying /\ q \in Ready /\ Disk(p) = Disk(q))
                => pods[p].template = pods[q].template

\* A Site is called rolled out only when it is: its one pod is of the current template
\* and listens, or did until its container died. What a pass goes by are counters that
\* may be of an earlier template, and count old and new pods together ("old pod still
\* ready + new pod updated but crash-looping" must not look healthy, status.go:67-69).
RolledOutIsServed ==
    deploy # NoObject /\ DeploymentRolledOut(deploy) =>
        \E p \in Updated :
            /\ Active = { p }
            /\ In(p, "ready") \/ (In(p, "starting") /\ "container_crash" \in spent)

\* No edit and no change of the Deployment is missed, whenever in a pass it came: while no
\* pass runs and the Site is not in the queue, the objects are as the spec asks and the
\* conditions as the Deployment says.  Nothing but the queue tells the operator of a change
\* (SetupWithManager, site_controller.go:149-160), and a pass works on the spec it began
\* with and the Deployment of its last step.
IdleIsDone ==
    pos = 0 /\ ~queue =>
        /\ config = spec.config
        /\ deploy # NoObject
        /\ deploy.template.hash = spec.config /\ deploy.template.image = spec.image
        /\ deploy.template.persistent = spec.persistent
        /\ deploy.strategy = DeploymentStrategyType(spec)
        /\ conditions = SiteConditions

\* What the pass makes of the Deployment, in the order of the cases of setSiteConditions.
Rollout ==
    IF deploy = NoObject THEN "none"
    ELSE IF DeploymentRolledOut(deploy) THEN "ready"
    ELSE IF DeploymentStalled(deploy) THEN "stalled"
    ELSE "rolling"

Stages == INSTANCE DeploymentRollout WITH rollout <- Rollout

\* Writes of the template, counters and deadline, in any order, move the rollout only by
\* the steps of DeploymentRollout: the generation, the counters and the Progressing
\* condition are written at different times, and status.go:72-92 reads each by itself.
RolloutSpec == Stages!Spec

\* The new pod waits for the claim on another node, the old one for the new pod.
Deadlocked ==
    /\ DeploymentStrategyType(spec) = "RollingUpdate"
    /\ \E p \in Updated, q \in Active :
           In(p, "pending") /\ HoldsClaim(q) /\ pods[q].node # pods[p].node

Stuck == deploy # NoObject /\ (spec.image = "bad" \/ Deadlocked)

\* The containers run with the configs of the spec.
Serving(p) == In(p, "ready") /\ pods[p].mounted = spec.config

\* The last edit arrives: in the end the Site has one pod, ready, and its containers
\* run with the configs of the spec. The exceptions are an image that cannot be
\* pulled and the RollingUpdate over two nodes that waits for itself.
Settles == <>[]( Stuck \/ \E p \in PodNames :
                              /\ Serving(p)
                              /\ \A q \in PodNames \ { p } : ~Exists(q) )

\* In the end the conditions tell what is so: Available while a pod serves, Degraded
\* when the rollout is stuck, and no longer Progressing.
StatusTells == <>[]( conditions = Conditions(Ready # {}, FALSE, Stuck) )

\* A pod that serves, serves a whole WordPress: when the seeding fails "the pod fails
\* to start (the kubelet retries the init container) instead of silently running"
\* something else (deployment.go:296-298).
ServesWhole == \A p \in Ready : files[Disk(p)] = "whole"

=============================================================================
