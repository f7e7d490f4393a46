# A TLA+ model of site-operator

`site-operator` is a Kubernetes operator: a user writes one `Site` object, and the operator
creates and keeps up to date what a WordPress site needs (a Secret with generated credentials,
optionally a MariaDB database, user and grant, two ConfigMaps, a Deployment, a Service, an
Ingress and a persistent volume claim), and reports how that went in the Site's status
conditions. This directory models that controller, model-checks it with TLC and proves part of
what is checked with TLAPS.

## Inventory

| component | code | state | operations |
|---|---|---|---|
| Site API, CRD validation | `api/v1alpha1/site_types.go` | the spec | admit or reject a spec (one CEL rule) |
| Reconcile loop | `internal/controller/site_controller.go` | work queue, the pass under way, its error | start a pass, ten steps in order, return at the first error, deferred status update |
| Secret | `secret.go` | keys of `<site>-site-secret` | add the missing keys, never change one |
| Database provisioning | `provision.go` | Database, User, Grant | create or update, uncached, unwatched; fail without a MariaDB cluster |
| ConfigMaps, Deployment | `deployment.go` | two ConfigMaps, pod template with the hash of both | create or update |
| Service, Ingress | `service.go`, `ingress.go` | ports, paths | create or update; the Ingress is deleted when disabled |
| Claim | `pvc.go` | the claim | create or update; deleted when persistence is off or the claim is the user's |
| Status | `status.go`, `updateSiteStatus` | three conditions, one reason, the observed generation | derive from the error and the Deployment, write over the latest Site |
| Container environment | `helpers.go`, `deployment.go` | none | pure functions of the spec |
| Pod scripts | shell text in `deployment.go` | files on the volume, the WordPress installation | seed an empty volume, wait for the database, install |
| WP-Cron job | `cmd/wpcron.go`, `config/cron` | none kept | one request per Site, in sequence, under a job deadline |
| Manager | `cmd/main.go` | flags | leader election (off by default), uncached kinds, default MariaDB cluster |
| Manifests, charts, generated code, tests | `config`, `helm`, `zz_generated*`, `test` | none | none |

How they interact. Everything goes through the Kubernetes API. The operator reads the kinds it
watches from an informer cache that lags behind the API, writes with the resourceVersion it read
(a write from a stale read is refused), and is woken by events of the Site and of the objects the
Site controls. The kubelet and the Deployment controller act on what it wrote, the garbage
collector deletes what a deleted Site controlled, and users edit, delete and take over objects by
hand at any time.

What is hard here: stale reads; two operators at once; a pass cut short at any step by an error,
a lost answer, a panic or a crash; a spec edited during a pass; a Site deleted and created again
under the same name; an object that must eventually be put right although nobody calls the
operator. `PROJECT.json` lists these under "hazards", each at its line, with the properties that
would catch it.

What makes each component correct:

* Secret: a generated value is never replaced (salts sign the sessions of WordPress's users,
  `DB_PASSWORD` is an account's password), and every key a container refers to is there before
  the container is.
* Claim: it is not deleted while the Deployment mounts it, unless the Site names it, `<site>-data`, as the
  existing claim to mount.
* Pass: from any state, the cluster ends up in sync with the spec; no change that a pass did not see
  goes by without another pass.
* Status: it ends up telling the truth, does not go back, and does not call a Site ready that is
  not.
* Deployment: no container runs with a file older than the hash on its pod, a rollout keeps a pod
  serving unless the Site asked for `Recreate`, and with `Recreate` a new pod does not seed the volume
  an old one serves from; a rollout settles, and the conditions say how.
* Database: a pod that can use its database can do so until it is replaced, whatever is edited or done
  for other Sites; every Site that opted in ends up with a working login to the database its spec
  names, in the cluster its spec names; a Site that is gone leaves no object behind, and one that was
  never moved no account.
* WP-Cron: a Site is called in time when the Sites fit in the deadline, with one interval more for
  each Job that was disturbed, and a failed Job says something of the system and not of one Site.
* Pure functions: files that read the same field agree.

## Modules

| module | what it is |
|---|---|
| `SiteSpec` | what a Site asks for, and what the operator derives from it, as pure operators: generated keys, environment, volume, ports, which objects are wanted, withdrawn or refused |
| `SiteAdmission` | a spec is proposed and admitted or rejected; the properties relate the operators of `SiteSpec` to each other |
| `CredentialVault` | abstract: a store of keys, write-once except by revocation |
| `DeploymentRollout` | abstract: the rollout of a Deployment, rolling, stalled or ready |
| `SiteReconciler` | the controller against the API, with informers, garbage collector, Deployment controller, users and faults; EXTENDS `SiteSpec` |
| `SitePods` | the ConfigMaps and the Deployment of one Site, the pods of its rollouts, the volume `wp-init` fills, the three conditions |
| `DatabaseProvision` | several Sites, their Secrets, mariadb objects and pods, the MariaDB clusters they share |
| `WPCron` | the wp-cron Jobs: the schedule, the deadline, one request after the other |
| `MCSiteReconciler`, `MCDatabaseProvision` | sample Sites and other constants for TLC |
| `SiteReconcilerProofs` | types, caches, write-once keys and status of the reconciler, for any number of operators |
| `SiteReconcilerOrderProofs` | what the order of the steps of a pass gives, for one operator |
| `SiteReconcilerRestProofs` | that no wake-up is lost, for any number of operators |
| `SiteSpecProofs`, `SiteAdmissionProofs` | the operators of `SiteSpec`, and that they agree for every spec |
| `SitePodsProofs`, `DatabaseProvisionProofs`, `WPCronProofs` | theorems and proofs of the module of that name |

### How `SiteReconciler` corresponds to the code

State. `api` is the live objects; `cache[o]` and `watch[o]` are what operator `o` has seen of the
cached kinds and the versions still on their way to it; `queue[o]` is its work queue (one Site,
so one bit); `pos[o]`, `work[o]` and `err[o]` are the pass under way: where `Reconcile` is, the
`site` it read at the start, and how it ends (`reconcileErr`, or a panic). `born` and `spent`
count Sites and disturbances.

Actions. `Start` and `StartMissing` are the `Get` at the top of `Reconcile`. `Step(o, k)` is one
`CreateOrUpdate` or one delete branch, with every way it can end: `Done` (`Create`, `Update` or
`DeleteOwned` took effect), `NoChange`, `Leave` (nothing wanted, nothing to delete),
`AlreadyExists` and `Conflict` (stale read), `OwnedByOther` (`SetControllerReference` refuses),
`Refuse` (no MariaDB cluster, a path the API rejects), `Panic` (`resource.MustParse`). Success
goes on to the next call in `Reconcile` (`Advance`); any error skips to the deferred
`updateSiteStatus` (`Abandon`). `StatusWrite`, `StatusConflict` and `StatusMissing` are that
function; `Finish` returns from the pass and requeues it after an error. `Deliver` is the
informer: it moves the cache one version on and enqueues the Site if `Owns` or `For` says so.

Each step is one atomic action although it reads and then writes. The read is a cache read, and
a write refused for its resourceVersion leaves nothing behind; so anything that happens between
the two gives the same result as a cache that is staler by that much, which the model also has.
The mariadb kinds are read live; between that read and the write only another operator could
come, and only the runs with one operator go through these kinds. `RetryOnConflict` rereads the
cache a few times; the outcome is that of its last attempt. The deletes carry no precondition,
and neither do they in the model.

Disturbances are bounded in number (`MaxDisturbances`), not in when they happen: edits, deletion
and creation of the Site; deletion, edit, removal or take-over of the controller reference, and
occupation of a name, for the kinds in `Tampered`; a call that is lost before or after it takes
effect; a crash; a resync; and a change of the Deployment's counters after its rollout (`Recount`:
the pod stops being ready, or goes on after the deadline).

### How `SitePods` corresponds to the code

`SiteReconciler` knows a rollout as rolling, stalled or ready and studies what stale reads do to the
objects, with every change of the counters after a rollout as one bounded disturbance (`Recount`).
`SitePods` takes one operator that reads what is live and studies what happens to the pods; the three
states, and the steps between them, are `DeploymentRollout`, which it implements (`Rollout`,
`RolloutSpec`). A pass is four steps: the two ConfigMaps, the Deployment whose template carries the hash
of both (`PassOrder`, `WriteConfig`, `WriteDeployment`), and the deferred status (`WriteStatus`, with
`deploymentRolledOut`, `deploymentStalled` and `setSiteConditions`). The content of a config is the
number of the edit that wrote it, so "older" means something.

The Deployment controller is modelled for the one replica the operator asks for and the default
surge (`ScaleUp`, `ScaleDown`, `Sync`, `Exceed`). A pod gets its volumes when the ConfigMaps
exist and no pod on another node holds the claim (`Attach`), needs its image (`Pull`), runs
`wp-init` (`Seed`, `CopyDone`, or `SkipSeed` when there is an `index.php`) and becomes ready when
php-fpm listens. The files are mounted by `subPath`: a container keeps what it saw when it
started, which is the content at the time of the attach or a later one (`MountedAtStart`).

`spec.updateStrategy` is chosen once and never edited, so what is said of a strategy is said of a
Site that keeps it: after an edit from `RollingUpdate` to `Recreate`, pods of a rollout under way
may still overlap.

### How `DatabaseProvision` corresponds to the code

A pass is the Secret, the provisioning and the Deployment; the Database, the User and the Grant of a
Site are written one after the other with the same owner, cluster, database and user, and are one record
here (`request`). A Site's name is its first 27 characters and the rest, as `provisionedUsername` sees
it; the database is what `spec.database.name` says, whatever the name of the Site, so `databases` and
`rights` go by that name. `Apply` and `Finalize` are mariadb-operator, modelled from what the three
objects ask of it: the database, and the account of `spec.name` with the password of the Secret and its
grant, in the cluster of `mariaDbRef`, all dropped when the objects go. The operator updates the objects
in place when the Site moves to another cluster or database, and the model carries that update out; what
was made before it is left alone. Where an installed mariadb-operator refuses the update, the step fails
like any refused one (run `refused`). When a Site moves, its user moves the host of `spec.database` too
(`Host`), and the environment of the pod says so (`Template`). `Resync` replays the whole cache, so it
enqueues every Site there is. The record sets that open the module (`Secrets`, `Requests`, `Templates`,
`Passes`, ...) are what the objects can be.

### How `WPCron` corresponds to the code

One unit of time is the timeout of a request. `ListSites`, `CallAtOnce`, `Call`, `HangUp` and
`Return` are `runWPCronOnce`: a request is answered or refused at once, or it lingers and ends with
its timeout, and in either case the next Site has its turn. A Site is its place in the list the API
server gives, which is ordered by name; `todo` is what is left of the list, and `Current` the first of
it. `Fire`, `BeginJob`, `FailPod` and
`ExceedDeadline` are what `config/cron/cronjob.yaml` sets up: the schedule, `concurrencyPolicy:
Forbid`, `backoffLimit` and `activeDeadlineSeconds`. `LosePod` is a List call that fails, or a pod
that is killed with its node; `StopPod` is one that is told to stop (an eviction, a drained node):
SIGTERM cancels the context, every request that is left fails at once, and the run returns what
`cronRunError` makes of it, so the Job may be complete with Sites it has not called. Both, and every
change of a Site (`ChangeHealth`), may come at any moment and are counted (`changes`).

`waited[s]` is for how long Site s has been waiting for its call; only a call that succeeds ends it,
or that the Site itself stops to answer, or that more Sites linger than a Job has room for
(`Expects`). `spoilt[s]` is how many Jobs were disturbed in that time, and `lost` how many pods of
the active Job were lost. Time passes only when nothing else can happen
at that moment, so "in time" is a bound on a counter and needs no fairness.

### Mutants

Operators whose names begin with `Buggy` are mutated forms of the definition after them. No
specification uses them; substituted for that definition, each makes TLC report the property
"mutants" in `PROJECT.json` names.

## Runs

| run | bounds | what it shows |
|---|---|---|
| `admission` | every spec (147 456 states) | the generated keys cover the references, credentials are complete, routes are served, the claim kept is mounted and the one given up is not, unless the Site names it |
| `lifecycle` | 1 operator, Secret/Deployment/claim, three Sites (no claim, one of its own, its own named as the existing one), 2 disturbances out of edit, delete, crash, and re-creation, lag 2 | `SecretBeforePod`, `DetachBeforeDelete` |
| `two_operators` | 2 operators, Secret, 2 possible key values, 2 disturbances out of edit of the Site, keys removed by hand, lost answer, crash, lag 2, symmetric in operators and values | `VaultSpec`, `OperatorsKeepKeys`, `StatusNeverGoesBack` |
| `refused` | 1 operator, all ten kinds, Sites that can and cannot be served, 1 edit, lag 2 | `Converges`, `StatusCatchesUp` |
| `recovery` | 1 operator, Secret/Deployment/claim, any one disturbance but an edit of the spec (`refused` has that one), a deleted Site may be created again, lag 2 | `TypeOK`, `NothingMissed`, `Converges`, `StatusCatchesUp` |
| `pods` | 2 pods, 2 nodes, both strategies, a claim, 1 edit of a config or the image, 1 fault out of four | `TypeOK`, `ConfigNotOlder`, `StartedIsUntouched`, `RolledOutIsServed`, `IdleIsDone`, `RolloutSpec`, `OldKeepsServing`, `Settles`, `StatusTells` |
| `provision` | 2 Sites, each with a database of its own, 2 clusters, 2 edits or deletions | `TypeOK`, `LoginKept`, `CredentialsWork`, `NothingLeft` |
| `cron` | 4 Sites, interval and deadline of 3 requests, 1 retry, 2 changes of Sites or lost or stopped pods | `TypeOK`, `CalledInTime`, `AlarmIsSystemic` |
| `status_generation`, `panic_hidden` | 1 operator | violated: see findings |
| `seed` | 1 Recreate Site, its first `wp-init` interrupted once | violated: see findings |
| `stale_login` | 1 Site, deleted and created again | violated: see findings |

Why the bounds are enough. The kinds differ in few ways: watched or not (`Secret` and the
mariadb kinds), always sent or compared (`Deployment`, `Secret`), deleted when unwanted or left
(claim, Secret), first or last in the pass. Secret, Deployment and claim have one of each, and
`refused` goes through all ten. One disturbance at every moment of a pass contains every race of a
pass with one event; two disturbances give the races of two events with each other (delete and
create, edit and crash). A lag of 2 is the least at which a write can be made from a stale read:
one version is still on its way and the write adds the second (with a lag of 1 the mutants that
drop a freshness check go unnoticed). Two operators give every race between passes; a third would
only repeat the role of one of them. Two tokens are what it takes to see a key replaced.

In `pods`, a rollout never has more than the old pod and the new one, so two pods do. The claim is
always on, for an emptyDir of each pod's own can neither deadlock nor be shared. One edit gives an
old and a new revision; the fault may come at any moment of the first start or of the rollout. In
`provision`, one Site moves and the other stays, so that whatever the first one's changes do to the
second is seen; each is created once (what a re-creation does is `stale_login`). Their databases have
different names, so no state of the run has a Site that shares its database. In `cron`, four
Sites against a deadline of three requests leave room for two that linger and make three too many;
the interval is as long as the deadline, as in `cronjob.yaml` (300 seconds each), so runs overlap
the schedule.

Symmetry (in `two_operators`, which checks safety only) permutes operators and tokens: the
specification compares them for equality and does nothing else with them.

Deadlock is checked in `cron`, where the schedule always comes round again. It is not checked in
the other runs: a cluster nobody disturbs settles, and the state in which nothing is left to do is
the one wanted. That it is the right one is what `Converges`, `StatusCatchesUp`, `Settles`,
`StatusTells`, `CredentialsWork` and `NothingLeft` say.

### Fairness

In `SiteReconciler`, `FairSpec` assumes weak fairness of each operator's next step (a worker goroutine
is always running, and an item in the work queue is eventually handled: failed passes come back through
the rate limiter), of each informer's next event, of the garbage collector for each kind, of the
Deployment controller (a rollout ends, or exceeds its deadline) and of pvc-protection. No action of a
user and no fault is fair: nothing has to happen to help the operator. `Rollout` is fair as a whole, so
a rollout whose pod cannot start may stay stalled.

`SitePods` assumes weak fairness of the pass, of the Deployment controller (its scaling, its status
and the progress deadline, each on its own) and of every pod's next step on its node. Edits and
faults are not fair, and a fault happens at most once, so nothing is retried for ever.

`DatabaseProvision` assumes weak fairness of the pass, the resync, the garbage collector, the
kubelet and mariadb-operator, each as a whole (in the run each of them runs out of work for one Site
and comes to the other), and strong fairness of `Start(s)`: the single worker is taken away from
a Site by passes of another, but the work queue is first in, first out, so the turn of every Site
in it comes. `WPCron` assumes no fairness.

### Findings

Each of the first four is a run that TLC refutes.

* `status_generation`: the status stamps the generation of the Site read at the end on a result
  computed from the Site read at the beginning. A spec edited during a pass is reported Ready
  before any pass has seen it; the next pass corrects that.
* `panic_hidden`: a claim size that does not parse panics in the last step; the deferred status
  runs while the panic unwinds, finds no error, and reports a healthy Site, at every retry.
* `seed`: `wp-init` takes the presence of `index.php` for a seeded volume. When the copy or the
  download is interrupted, the retry finds that file, skips the seeding and succeeds; the pod gets
  ready on part of a WordPress, for good. (An edit of the spec during the first seeding, or the
  eviction of that pod, does the same.)
* `stale_login`: a Site is deleted and created again at once. The garbage collector takes the first
  one's Secret, the second one's pass generates a new password, and its Deployment step adopts the
  first one's Deployment (`SetControllerReference` compares names) without changing the template, in
  which nothing tells one password from the other. The pod keeps the old password, the account has
  the new one, and no later pass repairs it. A user who removes `DB_PASSWORD` from the Secret to have
  it rotated gets the same.

Seen while modelling, and not the subject of a run:

* With `install` set and no admin password given, the operator generates `ADMIN_PASSWORD` and
  `secretEnv` passes it as `$ADMIN_PASSWORD` (`helpers.go:114`), while the install script reads
  `$WP_ADMIN_PASSWORD` (`deployment.go:411`), which is not set.
* The sample under `config/samples` enables the Ingress without a path, which the API server
  refuses, so its passes never get past the Ingress to the claim.
* The README says the file browser is enabled by default (`README.md:42`); a Site without
  `spec.fileBrowser` does not get it.
* A Site that names `<site>-data` as its existing claim (the claim a former setting of the same Site
  made) is a Site that mounts a claim the same pass deletes: `buildSiteDataVolume` mounts what
  `existingClaim` names (`deployment.go:520`), `reconcilePVC` deletes the claim the Site owns whatever
  the name is (`pvc.go:30`). The claim, and the data in it, is gone with the last pod that uses it.
  `ClaimMatchesVolume` and `DetachBeforeDelete` except such a Site (`NamesOwnClaim`).
* When a Site moves to another MariaDB cluster or database, the account and the database in the
  earlier one stay for good, also when the Site is deleted: no object names them any more. `NothingLeft`
  speaks of the accounts of Sites that never move (`Stays`).
* Two Sites of one cluster that name the same `spec.database.name` share that database, and when one is
  deleted the other loses it (with mariadb-operator dropping what it made). `LoginKept` excepts such
  Sites (`DatabaseShared`).
* Two Sites whose names begin with the same 27 characters, in whatever namespaces, get one MariaDB
  account when they use one cluster: each sets its own password on it, and the deletion of one drops
  it. `LoginKept` and `CredentialsWork` except such Sites (`Shares`).
* `CalledInTime` is conditional on `Fits`: with the values of `cronjob.yaml`, 15 Sites that take 20
  seconds each exhaust the deadline of 300 and the Sites after them are never called.
* A rollout that has exceeded its deadline is reported Degraded until its counters change, although
  its pod may be making progress again.
* A config edited and edited back before the rollout has ended leaves a pod of the final template
  that may have read the files in between.

## Proofs

Eight modules hold theorems; `tlapm <module>.tla` checks every step of one. Every safety property of
the passing runs, and every type invariant, is a theorem; the runs check it on small instances, with
the same definitions.

The reconciler. The assumptions are the named ones of `SiteSpec` and `SiteReconciler` on their
constants: the steps are a sequence of object kinds, the specs are admitted ones, the special values
(`Absent`, `Unset`, `NoOwner`, `OtherOwner`) are none of the things they stand apart from. TLC evaluates
all of them in each run of `MCSiteReconciler`. Nothing bounds the number of operators, steps,
disturbances, or the lag.

Its inductive invariant is `IInv == TypeOK /\ Coherent`. `TypeOK` alone is inductive but says
nothing of how a cache relates to the API. `Coherent` does: for each operator and cached kind, the
last version on its way to the cache (or the cache itself, when none is) is the live one.
From it follows that a write made from a fresh cache entry is made from the live object
(`SeenFacts`), which is what the update of a Secret and of a status rest on.

* `TypeCorrect`: `Spec => []TypeOK`. One lemma per group of actions.
* `CachesCoherent`: `Spec => []Coherent`, along the same lemmas. `PublishKeeps` is the heart: a
  change is appended to every watch at the moment it becomes live.
* `ImplementsVault`: `Spec => VaultSpec`, the refinement of `CredentialVault`. A `Create` meets
  no live Secret, an `Update` meets the one it read (`CallIssues`), and everybody else only takes
  keys away (`OthersRevoke`).
* `KeysKept`: `Spec => OperatorsKeepKeys`, from the same two lemmas.
* `StatusForward`: `Spec => StatusNeverGoesBack`; the invariant is `Coherent` together with the
  fact that a Site's status is never ahead of its generation.

The spec, in `SiteAdmissionProofs`, for every spec and any contents of the config blocks:

* `RefsGenerated` and `CredentialsUnique`: `EnvRefsGenerated` and `CredentialsComplete`, from the
  cases of the environment builders.
* `RoutesEnd` and `ClaimMounted`: `RoutesServed` and `ClaimMatchesVolume`, which relate functions of
  different files and hold by their definitions alone. `ClaimMounted` says in particular that a claim
  the operator gives up is mounted only by a Site that names it as its existing claim.

The pods, in `SitePodsProofs`, for any number of pods, nodes, edits and faults. The assumptions are
those of `SitePods` on its constants (there is a pod and a node, strategies are ones the schema admits,
the bounds are numbers), and that `NoObject` is neither a number nor the record of a pod or Deployment;
TLC evaluates them in `pods` and `seed`. The properties are about pods, and a pod's files and revision
come from a pass that may be long over, so the invariant `IInv` adds to `TypeOK`:

* `ConfigsOrdered`: what is written is at most as new as what the pass under way writes, and that
  at most as new as the spec. This is where the order of the steps in `Reconcile` comes in.
* `HashesCovered`: no template, of the Deployment or of a pod, carries a hash ahead of the
  ConfigMaps, and no container has a file older than its pod's hash.
* `StrategyCarried`: the strategy the Deployment controller goes by is the one of the spec (which is
  never edited, see above); `IdleIsDone` rests on it too.
* `OneRevision`: under `Recreate`, the pods that exist are of one revision.

From it follow `FilesNotOlder` (`ConfigNotOlder`), `SeedingIsAlone` (`StartedIsUntouched`) and
`ServesOn` (`OldKeepsServing`, an action property, proved with one case per action that moves a pod).

`RolloutIsServed` (`RolledOutIsServed`) says that what `deploymentRolledOut` calls rolled out is one
pod of the current template that listens. The function reads counters of an earlier moment, and they
are equal or not whatever the pods do next, so the invariant adds `OnePerTemplate` to `IInv`: no two
active pods are of one revision, also when an edit is undone and the template of an old pod is the
current one again. When the counters agree, `CountersTell` makes the two sets of pods equal, hence one
pod; after that, no pod of another revision is there to be scaled down, none is missing to be scaled
up (`RunningServes`), and a new template sets `observed` back.

`IdleMissedNothing` (`IdleIsDone`) is the safety part of `Settles` and `StatusTells`: an operator at
rest has missed nothing, whatever was edited, lost or counted while a pass ran. Its invariant
`PassCurrent` says what a pass may rely on at each of its steps: as long as the Site is not back in
the queue, `work` is the spec there is, and a pass that reaches its status without an error has
written the ConfigMaps and the Deployment of that spec.

`ImplementsRollout` (`RolloutSpec`) maps the Deployment and its counters to `DeploymentRollout`, step
by step: each write of the template, of the counters and of the deadline is one of its steps or a
stutter. What it takes besides is `CompleteIsDone`: counters that agree go with a Progressing
condition of a finished rollout, so that a replaced template is read as rolling and not as stalled
(`CountersComplete`, which needs that there is only one pod to count).

The order of the steps, in `SiteReconcilerOrderProofs`, for any specs, keys, lag and disturbances. Two
things are assumed of the constants besides the above, and the run `lifecycle` satisfies them.
`OneOperator`: leader election is on, or the manager is never run twice at a time. `Precedes(j, k)`:
the step of kind j comes before that of kind k, which `ReconcilePrecedes` derives for the order of
`Reconcile`.

* `KeysBeforePod` (`SecretBeforePod`). A pass writes a Deployment that refers to keys it wrote into the
  Secret at an earlier step, but in between the Secret can change hands: the pass may be of a Site that
  was deleted meanwhile, the Secret may be one the garbage collector is about to take, and the cache may
  show an older one. The invariant `OrderInv` keeps, besides `IInv`: the Sites reach an operator in the
  order of their creation (`UidsRise`); whoever owns a Secret it sees, or the Deployment, is no later
  than what it works for (`OwnersKnown`), so no pass readopts a Secret for a Site older than its owner;
  what a version of the Secret on its way to the operator holds for the live Site still holds
  (`SecretSeen`); and after the Secret step of a pass for the live Site its keys are there
  (`SecretDone`), hence those of the Deployment (`PodServed`). It needs `SecretSpared`: somebody who
  removes keys by hand takes away what a pod refers to, until the next pass puts a new one in. It does
  not hold of two operators: one that still works for the deleted Site can readopt the Secret for it
  after the other one has written the Deployment of the new Site, and the garbage collector then takes
  the Secret.
* `LetsGoFirst` (`DetachBeforeDelete`, an action property). The Deployment step always sends its update
  and is refused when it is stale, so after it there is no Deployment but the one this pass asked for,
  one edited by hand, or none (`PodAsAsked`). A pass that gives the claim up asked for a Deployment that
  does not mount it, unless its Site names the claim itself (`NamesOwnClaim`). With two operators an
  older pass of the other one may write the Deployment back between the two steps.

What wakes an operator, in `SiteReconcilerRestProofs`, for any number of operators, specs, disturbances
and any lag: `NoWakeUpLost` (`NothingMissed`). Convergence is liveness and stays with TLC; this is the
part of it that is safety, and the part where a bug would sit: an operator that has nothing left to do
has nothing it should have done. It assumes of the steps only that the Deployment is among them
(`PassHasPod`; `ReconcileHasPod` derives it for the order of `Reconcile`). The invariant `RestInv` adds
to `IInv`, for each operator, `Attended`: either it will begin another pass whatever comes of this one
(`Awaken`: it is queued, its pass has failed, or an event of the Site is on its way), or there is no
Site, or it is `UpToNow`: its pass is of the live Site, and each step it has gone through is `Served`,
that is, cannot fail by itself, and its object is either as the live Site asks for or has a version on
its way that belongs to a Site, so that the event will wake the operator (`Coming`).

* Whatever changes an object leaves it served (`ServedPublished`): an object that is asked for is the
  live Site's, so the version it had, or the one it gets, is a Site's, and `Owns` enqueues for either.
* An event that wakes nobody takes none away that would (`ComingDelivered`).
* A step that goes on is served (`StepServes`): a write of a pass over the live Site is what it asks for,
  and one that finds nothing to do has seen a version of the Site's, which is the live one or has the
  live one behind it. That is where the comparison in `CreateOrUpdate` against a stale cache could have
  lost an edit.
* A status that is written without change tells the truth (`StatusAttended`), for a Deployment read from
  a stale cache has its event still to come.

Provisioning, in `DatabaseProvisionProofs`, for any Sites, clusters, wishes and numbers of edits.

* `DatabaseTypes` (`TypeOK`). That a Site draws at most two passwords per creation is no matter of
  types: the live Site may draw one, and a pass that outlived its Site another, which the Site created
  next adopts or the garbage collector takes. `Budget` counts what has been drawn and may still be.
* `FirstLogin` and `LoginsKept` (`LoginKept`). While the first Site of a name lives, everything under
  that name is its own (`FirstOwnsAll`), so its account is nobody's to drop, and the password its pod was
  started with stays that of its Secret (`Settled`), and its database is dropped by nobody but a Site
  that asked for the same (`DatabaseShared`); a pass that provisions does not reach the
  Deployment without a cluster (`HostKnown`); and what other Sites do concerns accounts of other names
  (`Names`). `FirstLogin` says this of each first Site when other names are used again; `LoginsKept` is
  `LoginKept` itself, for which no name may be used twice (`MaxBirths = 1`, as in the run `provision`):
  with a second birth it fails, which is what `stale_login` shows.

The wp-cron jobs, in `WPCronProofs`, for any number of Sites, retries and changes, any deadline and any
interval.

* `CronTypes` (`TypeOK`), with the fact that what was triggered and what is left were listed (`Room`).
* `Systemic` (`AlarmIsSystemic`, an action property). While no Site changes, a pod that triggered nobody
  met nobody who answers (`Tried`), a Job of which more pods failed than were lost has no Site that
  answers (`Hopeless`), and the Job is as old as the Sites it waited for made it, once for each of its
  pods (`OnTime`, which counts them: each costs one timeout, and the current one is not yet among those
  passed).
* `CalledEveryRound` (`CalledInTime`). `Limit(s)` is how long Site s can have been waiting: an interval
  for each Job that was disturbed while it waited (`spoilt`), and `Due(s)`, in terms of where the
  schedule and the present Job are. A disturbed Job promises nothing any more (`Pending`), and turns
  what is due to a Site it leaves out into that one interval; an undisturbed one reaches every Site
  with its first pod (`FirstPod`). `Younger` keeps the age of a Job below the time since its tick
  unless the next one is due. Assumed is `OneRound`, that a Job's deadline is no longer than the
  interval; both are 300 seconds in `cronjob.yaml`. With a longer deadline a disturbed Job may hold
  back the next one for longer than the property allows.

Only model-checked: liveness under fairness, out of the reach of TLAPS (`Converges`, `StatusCatchesUp`,
`Settles`, `StatusTells`, `CredentialsWork`, `NothingLeft`), and the properties that the runs refute.

## Not modelled, and why

* The text of the rendered configs, TLS, annotations, resources, storage class defaulting: data
  that no property here tells apart.
* The install script of php-fpm (the wait for the database, `wp core install`), wp-cli and the file
  browser's script: they act on the content of a database, which is outside this program.
* Evictions of a Site's pods and failures of nodes; `SitePods` has crashes of containers, and `WPCron`
  the loss of a Job's pod.
* Edits of `spec.updateStrategy`: the properties of `SitePods` are those of a Site that keeps it.
* Edits of the mariadb objects by hand, and mariadb-operator beyond what the objects ask of it.
* Passes of several Sites at once: the controller has one worker (`MaxConcurrentReconciles` is not
  set), and the names of two Sites' objects are disjoint.
* Manifests, charts, generated code, metrics, probes, tests: not this program's logic.

## Plan

Done: all modules above with their runs, and the theorems listed. What is left, in this order:

1. The Deployment of `SiteReconciler` as a refinement of `DeploymentRollout`, with its deletion as a
   step of that module; now it is only `SitePods` that is shown to implement it.
2. The same as `IdleMissedNothing` for the passes of `DatabaseProvision`. What it would say of the
   Secret and the Deployment is in `NoWakeUpLost` already, and the mariadb objects are not watched.
