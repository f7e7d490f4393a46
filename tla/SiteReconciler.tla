--------------------------- MODULE SiteReconciler ---------------------------
(***************************************************************************)
(* The Site controller (internal/controller/site_controller.go) against    *)
(* the Kubernetes API: one Site, the objects the controller keeps for it,  *)
(* one or more operator processes that reconcile it, the garbage           *)
(* collector, the Deployment controller, and the users of the cluster.     *)
(*                                                                         *)
(* An operator reads the kinds it watches from its informer cache, which   *)
(* lags behind the API; it writes to the API with the resourceVersion it   *)
(* read, so a write made from a stale read is refused.  Each reconcileX    *)
(* function is one atomic step of a pass: its read is cached, so whatever  *)
(* happens between the read and the write is the same as a staler cache.   *)
(*                                                                         *)
(* Simplifications.  One Site: every object's name is the Site's name plus *)
(* a suffix of its own for each kind, so Sites share no object.  A         *)
(* resourceVersion is not a number: a cache entry is current when no       *)
(* change of that object waits in the watch.  RetryOnConflict rereads the  *)
(* cache a few times before it gives up: the outcome is that of the last   *)
(* attempt, which is the one modelled.                                     *)
(***************************************************************************)
EXTENDS SiteSpec, Naturals, Sequences

CONSTANTS
    Operators,      \* operator processes (two overlap during an upgrade without --leader-elect)
    Steps,          \* the kinds reconciled by a pass, in order; ReconcileOrder or a part of it
    Specs,          \* the specs users apply
    Tokens,         \* what randomKey returns
    Disturbances,   \* the kinds of disturbance that may happen
    MaxDisturbances,\* how many may happen in a behaviour
    MaxLag,         \* how many events an operator's informers may be behind
    Tampered,       \* the kinds of object users change by hand
    RotatedKeys,    \* the keys users remove from the Secret to have them generated again
    Absent,         \* no such object
    Unset,          \* no such key in the Secret
    NoOwner,        \* an object without a controller reference
    OtherOwner,     \* an object controlled by something that is not the Site
    Edited          \* content a user put in place of the operator's (content the API lets a
                    \* controller put back)

\* Operators named "Buggy..." are mutated forms of the definition that follows
\* them: the runs must tell each of them from the code.

BuggyOrderPodFirst ==
    << "Deployment", "Secret", "Database", "User", "Grant", "NginxConfig", "PhpConfig",
       "Service", "Ingress", "Volume" >>

\* The order of the calls in Reconcile; reconcileDatabaseProvision writes three
\* objects and reconcileDeployment writes the two ConfigMaps first.
ReconcileOrder ==
    << "Secret", "Database", "User", "Grant", "NginxConfig", "PhpConfig", "Deployment",
       "Service", "Ingress", "Volume" >>

Kinds == ChildKinds \cup { "Site" }

\* The mariadb types are read from the API (DisableFor in cmd/main.go) and not watched.
CachedKinds == Kinds \ MariaDBKinds

\* The API server fills in defaults the controller overwrites with empty values,
\* so the comparison in CreateOrUpdate always finds a difference for these kinds.
AlwaysSent == { "Deployment", "Service" }

DisturbanceNames ==
    { "edit_spec", "delete_site", "create_site", "delete", "drift", "disown", "seize",
      "occupy", "recount", "lost_call", "lost_reply", "crash", "resync" }

ASSUME OperatorsAssumption == Operators # {}
ASSUME StepsAssumption     == Steps \in Seq(ChildKinds)
ASSUME SpecsAssumption     == /\ Specs \subseteq SiteSpecs
                              /\ \A s \in Specs : Admitted(s)
ASSUME TokensAssumption    == Unset \notin Tokens
ASSUME BoundAssumption     == MaxDisturbances \in Nat /\ MaxLag \in Nat \ {0}
ASSUME TamperAssumption    == /\ Disturbances \subseteq DisturbanceNames
                              /\ Tampered \subseteq ChildKinds
                              /\ RotatedKeys \subseteq SecretKeys
ASSUME OwnerAssumption     == /\ NoOwner \notin Nat
                              /\ OtherOwner \notin Nat
                              /\ NoOwner # OtherOwner

VARIABLES
    api,     \* the live object of each kind, or Absent
    cache,   \* cache[o][k]: the object of kind k in operator o's informer cache
    watch,   \* watch[o][k]: the versions of it that operator o has still to receive
    queue,   \* queue[o]: the Site waits in operator o's work queue
    pos,     \* pos[o]: 0 idle, 1..Len(Steps) the next step, Len(Steps)+1 the deferred status
    work,    \* work[o]: the Site as read at the start of the pass, or Absent
    err,     \* err[o]: how the steps of the pass ended so far
    born,    \* the number of Sites created, the source of uids
    spent    \* the number of disturbances so far

vars == << api, cache, watch, queue, pos, work, err, born, spent >>

StatusPos == Len(Steps) + 1

-----------------------------------------------------------------------------
(* Types.                                                                  *)

Reasons == { "None", "ReconcileError", "DeploymentNotFound", "DeploymentReady",
             "DeploymentRollingOut", "RolloutStalled" }

Sites == [ uid    : Nat \ {0},
           gen    : Nat \ {0},
           spec   : Specs,
           status : [ reason : Reasons, gen : Nat ] ]

States(k) == IF k = "Deployment" THEN { "rolling", "stalled", "ready" }
             ELSE IF k = "Volume" THEN { "plain", "terminating" }
             ELSE { "plain" }

Data(k) == IF k = "Secret" THEN [ SecretKeys -> Tokens \cup {Unset} ]
           ELSE { DesiredData(k, s) : s \in Specs } \cup { Edited }

Children(k) == [ ctrl  : Nat \cup { NoOwner, OtherOwner },
                 data  : Data(k),
                 state : States(k) ]

Objects(k) == IF k = "Site" THEN Sites ELSE Children(k)

Versions(k) == Objects(k) \cup { Absent }

ASSUME AbsentAssumption == \A k \in Kinds : Absent \notin Objects(k)

ApiTypeOK ==
    /\ DOMAIN api = Kinds
    /\ \A k \in Kinds : api[k] \in Versions(k)

ViewTypeOK ==
    /\ DOMAIN cache = Operators /\ DOMAIN watch = Operators
    /\ \A o \in Operators :
        /\ DOMAIN cache[o] = CachedKinds /\ DOMAIN watch[o] = CachedKinds
        /\ \A k \in CachedKinds : /\ cache[o][k] \in Versions(k)
                                  /\ watch[o][k] \in Seq(Versions(k))

\* A pass has a Site to work on.
WorkerTypeOK ==
    /\ queue \in [ Operators -> BOOLEAN ]
    /\ pos \in [ Operators -> 0..StatusPos ]
    /\ err \in [ Operators -> { "none", "error", "panic" } ]
    /\ DOMAIN work = Operators
    /\ \A o \in Operators : work[o] \in IF pos[o] = 0 THEN { Absent } ELSE Sites

TypeOK ==
    /\ ApiTypeOK /\ ViewTypeOK /\ WorkerTypeOK
    /\ born \in Nat /\ spent \in 0..MaxDisturbances

-----------------------------------------------------------------------------
(* The API server and the watches.                                         *)

Behind(o) == Cardinality({ e \in CachedKinds \X (1..MaxLag) : e[2] <= Len(watch[o][e[1]]) })

\* The live object of kind k becomes v; every operator that watches the kind
\* will be told.  A write that changes nothing makes no new version.
Publish(k, v) ==
    /\ api' = [ api EXCEPT ![k] = v ]
    /\ IF k \notin CachedKinds \/ v = api[k] THEN UNCHANGED watch
       ELSE /\ \A o \in Operators : Behind(o) < MaxLag
            /\ watch' = [ o \in Operators |-> [ watch[o] EXCEPT ![k] = Append(@, v) ] ]

\* What a delete leaves: a claim stays until no pod uses it (pvc-protection).
Deleted(k) ==
    IF k = "Volume" /\ api[k] # Absent THEN [ api[k] EXCEPT !.state = "terminating" ]
    ELSE Absent

\* What operator o reads, and whether that is the live version.
Seen(o, k)  == IF k \in CachedKinds THEN cache[o][k] ELSE api[k]
Fresh(o, k) == k \in CachedKinds => watch[o][k] = << >>

\* An event of an object enqueues the Site that controls it, before or after.
OwnedBySite(obj) == obj # Absent /\ obj.ctrl \in Nat
BuggyEnqueuesNewOwnerOnly(k, old, new) == k = "Site" \/ OwnedBySite(new)
Enqueues(k, old, new) == k = "Site" \/ OwnedBySite(old) \/ OwnedBySite(new)

\* The informer of operator o handles the next event of kind k.
Deliver(o, k) ==
    /\ watch[o][k] # << >>
    /\ cache' = [ cache EXCEPT ![o][k] = Head(watch[o][k]) ]
    /\ watch' = [ watch EXCEPT ![o][k] = Tail(@) ]
    /\ queue' = [ queue EXCEPT ![o] = @ \/ Enqueues(k, cache[o][k], Head(watch[o][k])) ]
    /\ UNCHANGED << api, pos, work, err, born, spent >>

-----------------------------------------------------------------------------
(* The pass: its beginning, how a step ends, its end.                      *)

Idle(o) == pos[o] = 0

\* The pass of o has reached the step that reconciles kind k.
At(o, k) == pos[o] \in 1..Len(Steps) /\ Steps[pos[o]] = k

Start(o) ==
    /\ Idle(o) /\ queue[o]
    /\ cache[o]["Site"] # Absent
    /\ queue' = [ queue EXCEPT ![o] = FALSE ]
    /\ work' = [ work EXCEPT ![o] = cache[o]["Site"] ]
    /\ pos' = [ pos EXCEPT ![o] = 1 ]
    /\ UNCHANGED << api, cache, watch, err, born, spent >>

\* The Site is gone: IgnoreNotFound, and no status to write.
StartMissing(o) ==
    /\ Idle(o) /\ queue[o]
    /\ cache[o]["Site"] = Absent
    /\ queue' = [ queue EXCEPT ![o] = FALSE ]
    /\ UNCHANGED << api, cache, watch, pos, work, err, born, spent >>

\* A step that succeeded leads to the next one, and the last one to the status.
Advance(o) ==
    /\ pos' = [ pos EXCEPT ![o] = @ + 1 ]
    /\ UNCHANGED << cache, queue, work, err, born >>

BuggyAbandonCarriesOn(o, e) ==
    /\ pos' = [ pos EXCEPT ![o] = @ + 1 ]
    /\ err' = [ err EXCEPT ![o] = e ]
    /\ UNCHANGED << cache, queue, work, born >>

\* A step that failed skips the others: only the deferred status is left.
Abandon(o, e) ==
    /\ pos' = [ pos EXCEPT ![o] = StatusPos ]
    /\ err' = [ err EXCEPT ![o] = e ]
    /\ UNCHANGED << cache, queue, work, born >>

Fail(o) == Abandon(o, "error") /\ UNCHANGED << api, watch, spent >>

BuggyFinishKeepsWork(o, requeue) ==
    /\ queue' = [ queue EXCEPT ![o] = @ \/ requeue ]
    /\ pos' = [ pos EXCEPT ![o] = 0 ]
    /\ err' = [ err EXCEPT ![o] = "none" ]
    /\ UNCHANGED << cache, work, born, spent >>

BuggyFinishWithoutRetry(o, requeue) ==
    /\ pos' = [ pos EXCEPT ![o] = 0 ]
    /\ work' = [ work EXCEPT ![o] = Absent ]
    /\ err' = [ err EXCEPT ![o] = "none" ]
    /\ UNCHANGED << cache, queue, born, spent >>

\* The pass returns; an error (or a recovered panic) puts the Site back in the queue.
Finish(o, requeue) ==
    /\ queue' = [ queue EXCEPT ![o] = @ \/ requeue ]
    /\ pos' = [ pos EXCEPT ![o] = 0 ]
    /\ work' = [ work EXCEPT ![o] = Absent ]
    /\ err' = [ err EXCEPT ![o] = "none" ]
    /\ UNCHANGED << cache, born, spent >>

-----------------------------------------------------------------------------
(* The steps of a pass.                                                    *)

NoKeys == [ key \in SecretKeys |-> Unset ]

BuggyCompletedPrunes(keys, s, t) ==
    [ key \in SecretKeys |-> IF key \notin GeneratedKeys(s) THEN Unset
                             ELSE IF keys[key] = Unset THEN t ELSE keys[key] ]

\* reconcileSecret adds the missing keys and leaves the others as they are.
Completed(keys, s, t) ==
    [ key \in SecretKeys |-> IF keys[key] = Unset /\ key \in GeneratedKeys(s)
                             THEN t ELSE keys[key] ]

\* The content after the mutate function has run on content data.
Mutated(k, data, s, t) == IF k = "Secret" THEN Completed(data, s, t) ELSE DesiredData(k, s)

NewObject(k, site, t) ==
    [ ctrl  |-> site.uid,
      data  |-> Mutated(k, NoKeys, site.spec, t),
      state |-> IF k = "Deployment" THEN "rolling" ELSE "plain" ]

BuggyMutatedObjectKeepsConfig(k, old, site, t) ==
    LET data == IF k \in { "NginxConfig", "PhpConfig" } THEN old.data
                ELSE Mutated(k, old.data, site.spec, t) IN
    [ ctrl  |-> site.uid,
      data  |-> data,
      state |-> IF k = "Deployment" /\ data # old.data /\ old.state = "ready"
                THEN "rolling" ELSE old.state ]

\* A new pod template starts a rollout; a ProgressDeadlineExceeded condition
\* stays until the Deployment controller has seen the template.
MutatedObject(k, old, site, t) ==
    LET data == Mutated(k, old.data, site.spec, t) IN
    [ ctrl  |-> site.uid,
      data  |-> data,
      state |-> IF k = "Deployment" /\ data # old.data /\ old.state = "ready"
                THEN "rolling" ELSE old.state ]

\* The step writes the object of kind k, if nothing makes it fail first.
Writes(o, k) ==
    /\ At(o, k)
    /\ Wanted(k, work[o].spec)
    /\ ~Refused(k, work[o].spec)
    /\ ~Panics(k, work[o].spec)

\* SetControllerReference accepts the object: it compares the controller's kind
\* and name, so the object of an earlier Site of the same name is adopted.
Adoptable(o, k) == Seen(o, k) # Absent /\ Seen(o, k).ctrl # OtherOwner

\* CreateOrUpdate finds nothing to change.
UpToDate(o, k, t) ==
    /\ k \notin AlwaysSent
    /\ MutatedObject(k, Seen(o, k), work[o], t) = Seen(o, k)

SendsCreate(o, k)    == Writes(o, k) /\ Seen(o, k) = Absent
SendsUpdate(o, k, t) == Writes(o, k) /\ Adoptable(o, k) /\ ~UpToDate(o, k, t)

\* The Ingress or the claim is not wanted and the cached one is the Site's.
SendsDelete(o, k) ==
    /\ At(o, k)
    /\ Withdrawn(k, work[o].spec)
    /\ Seen(o, k) # Absent
    /\ Seen(o, k).ctrl = work[o].uid

Create(o, k, t) ==
    /\ SendsCreate(o, k) /\ api[k] = Absent
    /\ Publish(k, NewObject(k, work[o], t))

AlreadyExists(o, k) == SendsCreate(o, k) /\ api[k] # Absent /\ Fail(o)

BuggyUpdateUnconditional(o, k, t) ==
    /\ SendsUpdate(o, k, t) /\ api[k] # Absent
    /\ Publish(k, MutatedObject(k, Seen(o, k), work[o], t))

Update(o, k, t) ==
    /\ SendsUpdate(o, k, t) /\ Fresh(o, k)
    /\ Publish(k, MutatedObject(k, Seen(o, k), work[o], t))

\* The version read is not the live one any more (or the object is gone).
Conflict(o, k, t) == SendsUpdate(o, k, t) /\ ~Fresh(o, k) /\ Fail(o)

\* deleteOwnedPVC and the disabled branch of reconcileIngress delete by name:
\* no uid and no resourceVersion goes with the call, and NotFound is ignored.
DeleteOwned(o, k) == SendsDelete(o, k) /\ Publish(k, Deleted(k))

Call(o, k) == \/ \E t \in Tokens : Create(o, k, t) \/ Update(o, k, t)
              \/ DeleteOwned(o, k)

\* A call takes effect and the step goes on.
Done(o, k) == Call(o, k) /\ Advance(o) /\ UNCHANGED spent

\* Nothing to send: the object is as wanted, or it is not wanted and there is
\* none, or none of the Site's, or its kind is never deleted.
NoChange(o, k) ==
    /\ Writes(o, k) /\ Adoptable(o, k)
    /\ \E t \in Tokens : UpToDate(o, k, t)
    /\ Advance(o) /\ UNCHANGED << api, watch, spent >>

Leave(o, k) ==
    /\ At(o, k)
    /\ ~Wanted(k, work[o].spec) /\ ~SendsDelete(o, k)
    /\ Advance(o) /\ UNCHANGED << api, watch, spent >>

OwnedByOther(o, k) ==
    /\ Writes(o, k)
    /\ Seen(o, k) # Absent /\ Seen(o, k).ctrl = OtherOwner
    /\ Fail(o)

Refuse(o, k) == At(o, k) /\ Refused(k, work[o].spec) /\ Fail(o)

Panic(o, k) ==
    /\ At(o, k) /\ Panics(k, work[o].spec)
    /\ Abandon(o, "panic") /\ UNCHANGED << api, watch, spent >>

Step(o, k) ==
    \/ Done(o, k) \/ NoChange(o, k) \/ Leave(o, k)
    \/ AlreadyExists(o, k) \/ OwnedByOther(o, k) \/ Refuse(o, k) \/ Panic(o, k)
    \/ \E t \in Tokens : Conflict(o, k, t)

-----------------------------------------------------------------------------
(* The deferred status (updateSiteStatus, setSiteConditions).  It reads the *)
(* Site and the Deployment again, from the cache.                          *)

BuggyReasonOfDeployment(e, deploy) ==
    IF deploy = Absent THEN "DeploymentNotFound"
    ELSE CASE deploy.state = "ready"   -> "DeploymentReady"
           [] deploy.state = "stalled" -> "RolloutStalled"
           [] deploy.state = "rolling" -> "DeploymentRollingOut"

\* The named result reconcileErr is still nil when a panic unwinds.
Reason(e, deploy) ==
    IF e = "error" THEN "ReconcileError"
    ELSE IF deploy = Absent THEN "DeploymentNotFound"
    ELSE CASE deploy.state = "ready"   -> "DeploymentReady"
           [] deploy.state = "stalled" -> "RolloutStalled"
           [] deploy.state = "rolling" -> "DeploymentRollingOut"

WithConditions(site, e, deploy) ==
    [ site EXCEPT !.status = [ reason |-> Reason(e, deploy), gen |-> site.gen ] ]

AtStatus(o) == pos[o] = StatusPos

StatusMissing(o) ==
    /\ AtStatus(o) /\ cache[o]["Site"] = Absent
    /\ Finish(o, err[o] # "none") /\ UNCHANGED << api, watch >>

BuggyStatusWriteUnconditional(o) ==
    /\ AtStatus(o) /\ cache[o]["Site"] # Absent /\ api["Site"] # Absent
    /\ Publish("Site", WithConditions(cache[o]["Site"], err[o], Seen(o, "Deployment")))
    /\ Finish(o, err[o] # "none")

StatusWrite(o) ==
    /\ AtStatus(o) /\ cache[o]["Site"] # Absent /\ Fresh(o, "Site")
    /\ Publish("Site", WithConditions(cache[o]["Site"], err[o], Seen(o, "Deployment")))
    /\ Finish(o, err[o] # "none")

\* Still a conflict after the retries, or the Site is gone: the pass fails.
StatusConflict(o) ==
    /\ AtStatus(o) /\ cache[o]["Site"] # Absent /\ ~Fresh(o, "Site")
    /\ Finish(o, TRUE) /\ UNCHANGED << api, watch >>

OperatorStep(o) ==
    \/ Start(o) \/ StartMissing(o)
    \/ \E k \in ChildKinds : Step(o, k)
    \/ StatusMissing(o) \/ StatusWrite(o) \/ StatusConflict(o)

-----------------------------------------------------------------------------
(* The rest of the cluster.                                                *)

Others == << cache, queue, pos, work, err >>

LiveUid == IF api["Site"] = Absent THEN 0 ELSE api["Site"].uid

\* The garbage collector deletes what a Site that is gone controls.
Collect(k) ==
    /\ OwnedBySite(api[k]) /\ api[k].ctrl # LiveUid
    /\ Deleted(k) # api[k]
    /\ Publish(k, Deleted(k))
    /\ UNCHANGED << Others, born, spent >>

\* The pod mounts <site>-data, made for the Site or named as its existing claim.
Mounts(deploy) == deploy # Absent /\ deploy.data # Edited /\ deploy.data.volume = "own"

\* The kubelet starts a pod when the keys and the claim it refers to exist.
PodCanStart ==
    LET deploy == api["Deployment"] IN
    /\ deploy.data # Edited =>
          \A key \in deploy.data.refs : api["Secret"] # Absent /\ api["Secret"].data[key] # Unset
    /\ Mounts(deploy) => api["Volume"] # Absent

\* The Deployment controller: a rollout exceeds its deadline, or ends, in time or late.
Rollout(state) ==
    /\ api["Deployment"] # Absent
    /\ << api["Deployment"].state, state >> \in
          { << "rolling", "stalled" >>, << "rolling", "ready" >>, << "stalled", "ready" >> }
    /\ state = "ready" => PodCanStart
    /\ Publish("Deployment", [ api["Deployment"] EXCEPT !.state = state ])
    /\ UNCHANGED << Others, born, spent >>

\* A pod of the Deployment may use the claim: it mounts it, or its last rollout
\* has not ended and a pod of the template before it may be left.
PodsMount(deploy) == deploy # Absent /\ (deploy.state # "ready" \/ Mounts(deploy))

\* The last pod that mounts a claim being deleted is gone, and so is the claim.
VolumeReleased ==
    /\ api["Volume"] # Absent /\ api["Volume"].state = "terminating"
    /\ ~PodsMount(api["Deployment"])
    /\ Publish("Volume", Absent)
    /\ UNCHANGED << Others, born, spent >>

ClusterStep ==
    \/ \E k \in ChildKinds : Collect(k)
    \/ \E state \in States("Deployment") : Rollout(state)
    \/ VolumeReleased

-----------------------------------------------------------------------------
(* Disturbances: what users do, and what goes wrong, a bounded number of   *)
(* times.                                                                  *)

Disturb(name) ==
    /\ name \in Disturbances
    /\ spent < MaxDisturbances
    /\ spent' = spent + 1

NewSite(uid, s) ==
    [ uid |-> uid, gen |-> 1, spec |-> s, status |-> [ reason |-> "None", gen |-> 0 ] ]

EditSpec(s) ==
    /\ Disturb("edit_spec")
    /\ api["Site"] # Absent /\ api["Site"].spec # s
    /\ Publish("Site", [ api["Site"] EXCEPT !.spec = s, !.gen = @ + 1 ])
    /\ UNCHANGED << Others, born >>

DeleteSite ==
    /\ Disturb("delete_site")
    /\ api["Site"] # Absent
    /\ Publish("Site", Absent)
    /\ UNCHANGED << Others, born >>

\* A Site of the name is created again. It counts as a disturbance, but there is
\* always room for it.
CreateSite(s) ==
    /\ "create_site" \in Disturbances
    /\ api["Site"] = Absent
    /\ born' = born + 1
    /\ Publish("Site", NewSite(born + 1, s))
    /\ spent' = IF spent < MaxDisturbances THEN spent + 1 ELSE spent
    /\ UNCHANGED Others

\* A user deletes an object of the Site's by hand.
DeleteChild(k) ==
    /\ Disturb("delete")
    /\ api[k] # Absent
    /\ Publish(k, Deleted(k))
    /\ UNCHANGED << Others, born >>

\* A user edits it: the content changes, or keys of the Secret are removed.
Drift(k) ==
    /\ Disturb("drift")
    /\ api[k] # Absent
    /\ Publish(k, [ api[k] EXCEPT !.data =
                      IF k = "Secret"
                      THEN [ key \in SecretKeys |->
                               IF key \in RotatedKeys THEN Unset ELSE @[key] ]
                      ELSE Edited ])
    /\ UNCHANGED << Others, born >>

\* The controller reference is removed, or replaced by another controller's.
Reown(name, k, owner) ==
    /\ Disturb(name)
    /\ api[k] # Absent
    /\ Publish(k, [ api[k] EXCEPT !.ctrl = owner ])
    /\ UNCHANGED << Others, born >>

\* Somebody else creates an object under the name the Site would use.
Occupy(k) ==
    /\ Disturb("occupy")
    /\ api[k] = Absent
    /\ Publish(k, [ ctrl  |-> OtherOwner,
                    data  |-> IF k = "Secret" THEN NoKeys ELSE Edited,
                    state |-> IF k = "Deployment" THEN "rolling" ELSE "plain" ])
    /\ UNCHANGED << Others, born >>

\* The counters of the Deployment change after its rollout: the pod stops being ready, or
\* goes on after the deadline.
Recount(k) ==
    /\ Disturb("recount")
    /\ k = "Deployment" /\ api[k] # Absent /\ api[k].state # "rolling"
    /\ Publish(k, [ api[k] EXCEPT !.state = "rolling" ])
    /\ UNCHANGED << Others, born >>

\* A call of operator o does not reach the API server, or its answer is lost.
LostCall(o, k) ==
    /\ Disturb("lost_call")
    /\ SendsCreate(o, k) \/ SendsDelete(o, k) \/ \E t \in Tokens : SendsUpdate(o, k, t)
    /\ Abandon(o, "error") /\ UNCHANGED << api, watch >>

LostReply(o, k) == Disturb("lost_reply") /\ Call(o, k) /\ Abandon(o, "error")

LostStatus(o) ==
    /\ Disturb("lost_call")
    /\ AtStatus(o) /\ cache[o]["Site"] # Absent
    /\ queue' = [ queue EXCEPT ![o] = TRUE ]
    /\ pos' = [ pos EXCEPT ![o] = 0 ]
    /\ work' = [ work EXCEPT ![o] = Absent ]
    /\ err' = [ err EXCEPT ![o] = "none" ]
    /\ UNCHANGED << api, watch, cache, born >>

\* The operator process restarts: the caches are listed again, which enqueues
\* every Site, and the pass it was in is lost.
Crash(o) ==
    /\ Disturb("crash")
    /\ cache' = [ cache EXCEPT ![o] = [ k \in CachedKinds |-> api[k] ] ]
    /\ watch' = [ watch EXCEPT ![o] = [ k \in CachedKinds |-> << >> ] ]
    /\ queue' = [ queue EXCEPT ![o] = TRUE ]
    /\ pos' = [ pos EXCEPT ![o] = 0 ]
    /\ work' = [ work EXCEPT ![o] = Absent ]
    /\ err' = [ err EXCEPT ![o] = "none" ]
    /\ UNCHANGED << api, born >>

\* The informers replay their caches (SyncPeriod).
Resync(o) ==
    /\ Disturb("resync")
    /\ queue' = [ queue EXCEPT ![o] = TRUE ]
    /\ UNCHANGED << api, watch, cache, pos, work, err, born >>

SiteUserStep == DeleteSite \/ \E s \in Specs : EditSpec(s) \/ CreateSite(s)

TamperStep ==
    \E k \in Tampered :
        \/ DeleteChild(k) \/ Drift(k) \/ Occupy(k) \/ Recount(k)
        \/ Reown("disown", k, NoOwner) \/ Reown("seize", k, OtherOwner)

FaultStep ==
    \E o \in Operators :
        \/ \E k \in ChildKinds : LostCall(o, k) \/ LostReply(o, k)
        \/ LostStatus(o) \/ Crash(o) \/ Resync(o)

-----------------------------------------------------------------------------
(* The operators start on a cluster that holds the Site and none of the    *)
(* objects.                                                                *)

Init ==
    /\ \E s \in Specs :
        api = [ k \in Kinds |-> IF k = "Site" THEN NewSite(1, s) ELSE Absent ]
    /\ cache = [ o \in Operators |-> [ k \in CachedKinds |-> api[k] ] ]
    /\ watch = [ o \in Operators |-> [ k \in CachedKinds |-> << >> ] ]
    /\ queue = [ o \in Operators |-> TRUE ]
    /\ pos = [ o \in Operators |-> 0 ]
    /\ work = [ o \in Operators |-> Absent ]
    /\ err = [ o \in Operators |-> "none" ]
    /\ born = 1
    /\ spent = 0

Next ==
    \/ \E o \in Operators : OperatorStep(o) \/ \E k \in CachedKinds : Deliver(o, k)
    \/ ClusterStep
    \/ SiteUserStep \/ TamperStep \/ FaultStep

Spec == Init /\ [][Next]_vars

\* Worker goroutines and informers keep running; the garbage collector collects;
\* the Deployment controller ends a rollout or lets it exceed its deadline; the
\* kubelet lets go of a claim.  Nothing makes a user act or a fault happen.
Fairness ==
    /\ \A o \in Operators : WF_vars(OperatorStep(o))
    /\ \A o \in Operators : \A k \in CachedKinds : WF_vars(Deliver(o, k))
    /\ \A k \in ChildKinds : WF_vars(Collect(k))
    /\ WF_vars(\E state \in States("Deployment") : Rollout(state))
    /\ WF_vars(VolumeReleased)

FairSpec == Spec /\ Fairness

-----------------------------------------------------------------------------
(* Properties.                                                             *)

LiveKeys == IF api["Secret"] = Absent THEN NoKeys ELSE api["Secret"].data

Vault == INSTANCE CredentialVault
            WITH Keys <- SecretKeys, Values <- Tokens, NoValue <- Unset, vault <- LiveKeys

\* The Secret is a write-once store: no interleaving of passes, stale caches,
\* restarts and lost answers replaces the value of a key that has one
\* (reconcileSecret sets a key only when it is missing, and its update is
\* refused when the Secret it read is not the live one).
VaultSpec == Vault!Spec

\* Nor does an operator ever take a key away: a key that has a value loses it
\* only to a user, to the garbage collector or with the Secret.
OperatorsKeepKeys ==
    [][ (\E o \in Operators : pos'[o] > pos[o]) =>
            \A key \in SecretKeys : LiveKeys[key] # Unset => LiveKeys'[key] = LiveKeys[key]
      ]_vars

Managed(k) == api[k] # Absent /\ api[k].ctrl = LiveUid

\* The pod never waits for a key that is not there: a Deployment that belongs
\* to the live Site refers to keys the live Secret holds, whatever specs the
\* passes that wrote the two were made from (secret.go runs before
\* deployment.go, and keys are only added).
SecretBeforePod ==
    Managed("Deployment") /\ api["Deployment"].data # Edited =>
        \A key \in api["Deployment"].data.refs : LiveKeys[key] # Unset

\* The operator gives up the Site's own claim only after the Deployment has
\* stopped mounting it: the Deployment step precedes the PVC step and a failed
\* one ends the pass.  The exception is a Site that names <site>-data as its
\* existing claim: the pass mounts the claim and deletes it.
DetachBeforeDelete ==
    [][ \A o \in Operators :
            DeleteOwned(o, "Volume") /\ api["Volume"] # Absent /\ Managed("Deployment")
                => ~Mounts(api["Deployment"]) \/ NamesOwnClaim(work[o].spec)
      ]_vars

\* The conditions' observedGeneration never goes back while the Site lives:
\* the status is written over the version of the Site it was computed for.
StatusNeverGoesBack ==
    [][ api["Site"] # Absent /\ api'["Site"] # Absent /\ api'["Site"].uid = api["Site"].uid =>
            /\ api'["Site"].status.gen >= api["Site"].status.gen
            /\ api'["Site"].status.gen <= api'["Site"].gen
      ]_vars

\* The object of kind k is what the spec s of the live Site asks for.
AsWanted(k, s) ==
    IF Wanted(k, s)
    THEN /\ Managed(k)
         /\ IF k = "Secret" THEN \A key \in GeneratedKeys(s) : LiveKeys[key] # Unset
                            ELSE api[k].data = DesiredData(k, s)
    ELSE Withdrawn(k, s) /\ Managed(k) => Deleted(k) = api[k]

\* A pass over spec s cannot succeed: a step of it is refused, or panics.
Rejected(s)  == \E i \in 1..Len(Steps) : Refused(Steps[i], s)
Panicking(s) == \E i \in 1..Len(Steps) : Panics(Steps[i], s)
Servable(s)  == ~Rejected(s) /\ ~Panicking(s)

Blocked(s) == \E i \in 1..Len(Steps) : Wanted(Steps[i], s) /\ api[Steps[i]] # Absent
                                        /\ api[Steps[i]].ctrl = OtherOwner

\* The cluster is in sync with the Site, or cleaned up after it: nothing the
\* operator made is left, in the Site's control or in nobody's.
InSync ==
    IF api["Site"] # Absent
    THEN \A i \in 1..Len(Steps) : AsWanted(Steps[i], api["Site"].spec)
    ELSE \A i \in 1..Len(Steps) : Deleted(Steps[i]) = api[Steps[i]]
                                    \/ api[Steps[i]].ctrl = OtherOwner

\* Nothing is left for operator o to do: no pass, no Site in the queue, no event
\* on its way.
AtRest(o) == Idle(o) /\ ~queue[o] /\ \A k \in CachedKinds : watch[o][k] = << >>

\* No wake-up is lost: an operator that has nothing left to do has missed nothing
\* it could have seen.  Every watched object is what the spec of the live Site asks
\* for, its status tells the state of the Deployment, and of a Site that no pass
\* can serve it never has enough.  (A pass that read a stale cache, or that the
\* spec or an object was changed under, must be followed by another one, for which
\* Owns, For and the requeue after an error are all there is.)
NothingMissed ==
    \A o \in Operators : AtRest(o) /\ api["Site"] # Absent =>
        LET site == api["Site"] IN
        /\ Servable(site.spec)
        /\ \A i \in 1..Len(Steps) : Steps[i] \in CachedKinds => AsWanted(Steps[i], site.spec)
        /\ site.status = [ reason |-> Reason("none", api["Deployment"]), gen |-> site.gen ]

\* Whatever users edit, delete, recreate or take over, and whatever calls are
\* lost and processes restarted, the watches bring the cluster back in sync
\* with the Site, unless another controller holds an object the Site needs.
Converges ==
    <>[]( \/ InSync
          \/ api["Site"] # Absent /\ (~Servable(api["Site"].spec) \/ Blocked(api["Site"].spec)) )

\* The status catches up: it ends at the current generation, with the reason
\* the state of the Deployment calls for, or ReconcileError when the passes
\* end in an error (of a Site whose passes panic, FailureSurfaces speaks).
StatusCatchesUp ==
    <>[]( api["Site"] # Absent /\ ~Panicking(api["Site"].spec) =>
            LET site == api["Site"]  bad == Rejected(site.spec) \/ Blocked(site.spec) IN
            /\ site.status.gen = site.gen
            /\ (site.status.reason = "ReconcileError") <=> bad
            /\ ~bad => site.status.reason = Reason("none", api["Deployment"]) )

\* CRD (config/crd/bases/site.operator_sites.yaml:310, "observedGeneration
\* represents the .metadata.generation that the condition was set based upon"):
\* a Site that is Available at its current generation runs the current spec.
\* updateSiteStatus stamps the generation of the Site it reads again, while the
\* pass was made from the Site read at its start.
ReadyIsCurrent ==
    api["Site"] # Absent =>
        LET site == api["Site"] IN
        site.status.reason = "DeploymentReady" /\ site.status.gen = site.gen =>
            AsWanted("Deployment", site.spec)

\* api/v1alpha1/site_types.go:239 ("Degraded": the resource failed to reach or
\* maintain its desired state): a Site whose passes cannot succeed ends up
\* Degraded.  A panic in reconcilePVC leaves reconcileErr nil, so the deferred
\* status reports a pass without error.
FailureSurfaces ==
    <>[]( api["Site"] # Absent /\ ~Servable(api["Site"].spec) =>
            api["Site"].status.reason \in { "ReconcileError", "RolloutStalled" } )

=============================================================================
