------------------------- MODULE DatabaseProvision -------------------------
(***************************************************************************)
(* Database provisioning (internal/controller/provision.go): several Sites,*)
(* each with its Secret, its mariadb objects and its pod, the MariaDB      *)
(* clusters they share, and one operator that makes one pass at a time.    *)
(*                                                                         *)
(* The Database, the User and the Grant of a Site are written together and *)
(* are one object here.  mariadb-operator is modelled from what they ask of*)
(* it: it makes the database and the account they describe in the cluster  *)
(* they name, and when they are deleted drops both before it lets them go. *)
(* What it made for an earlier version of them it leaves alone.  The       *)
(* operator reads what is live; caches, lost calls and the three objects   *)
(* one by one are the subject of SiteReconciler.                           *)
(***************************************************************************)
EXTENDS Naturals, Sequences, FiniteSets

CONSTANTS
    Sites,          \* [ ns, head, tail ]: a namespace and a name, cut after 27 characters
    Clusters,       \* the MariaDB clusters
    Databases,      \* what users may call a database (spec.database.name)
    DefaultCluster, \* --default-mariadb-name and -namespace, or NoRef
    NoRef,          \* no cluster given
    Absent,         \* no such object, no such account
    Wishes,         \* Wishes[s]: what users may ask for s: enabled, mariadbRef, database
    MaxBirths,      \* how often a Site of each name is created
    MaxEdits        \* how often users edit or delete a Site

ASSUME SitesAssumption  == /\ \A s \in Sites : DOMAIN s = { "ns", "head", "tail" }
                           /\ Absent \notin Sites
ASSUME RefAssumption    == NoRef \notin Clusters /\ DefaultCluster \in Clusters \cup { NoRef }
ASSUME WishesAssumption ==
    Wishes \in [ Sites -> SUBSET [ enabled    : BOOLEAN,
                                   mariadbRef : Clusters \cup { NoRef },
                                   database   : Databases ] ]
ASSUME BoundsAssumption == MaxBirths \in Nat /\ MaxEdits \in Nat

VARIABLES
    spec,       \* spec[s]: the Site, or Absent
    births,     \* births[s]: how often s has been created, the source of its uids
    edits,      \* edits and deletions so far
    secret,     \* secret[s]: the Site's Secret, or Absent
    draws,      \* draws[s]: how many passwords were generated for s
    request,    \* request[s]: its Database, User and Grant, or Absent
    deploy,     \* deploy[s]: its Deployment, or Absent
    pod,        \* pod[s]: the environment its pod was started with, or Absent
    accounts,   \* accounts[c][u]: the password of account u in cluster c, or Absent
    rights,     \* rights[c]: which account may use which database there
    databases,  \* databases[c]: the databases there
    queue,      \* the Sites in the work queue
    pass        \* the pass under way, or Absent

vars == << spec, births, edits, secret, draws, request, deploy, pod,
           accounts, rights, databases, queue, pass >>

site    == << spec, births, edits >>
mariadb == << accounts, rights, databases >>
cluster == << secret, draws, request, deploy, pod >>

Specs == [ uid        : 1..MaxBirths,
           enabled    : BOOLEAN,
           mariadbRef : Clusters \cup { NoRef },
           database   : Databases ]

-----------------------------------------------------------------------------
(* provision.go: the account of a Site, and its cluster.                   *)

BuggyProvisionedUsername(s) == "site_"

\* provisionedUsername: the first 27 characters of the name.
ProvisionedUsername(s) == s.head

Usernames == { ProvisionedUsername(s) : s \in Sites }

BuggyResolveMariaDBRef(p) == IF DefaultCluster # NoRef THEN DefaultCluster ELSE p.mariadbRef

\* resolveMariaDBRef, NoRef where it returns an error.
ResolveMariaDBRef(p) == IF p.mariadbRef # NoRef THEN p.mariadbRef ELSE DefaultCluster

\* spec.database.host, which users fill in themselves: the cluster they mean.
Host(p) == IF p.mariadbRef # NoRef THEN p.mariadbRef ELSE DefaultCluster

\* What the environment of the pod says of the database; a Site that is not
\* provisioned has credentials of its own.
Template(s, p) == [ host     |-> Host(p),
                    database |-> p.database,
                    user     |-> IF p.enabled THEN ProvisionedUsername(s) ELSE Absent ]

\* A pass that outlives its Site may find the Secret collected and draw once more.
MaxDraws == 2 * MaxBirths

Passwords == Sites \X (1..MaxDraws)

\* The steps of a pass.
Steps == << "Secret", "Provision", "Deployment" >>

\* Owner 0 would be no owner reference.
Owners      == 0..MaxBirths
Secrets     == [ owner : Owners, password : Passwords \cup { Absent } ]
Requests    == [ owner : Owners, host : Clusters, database : Databases, user : Usernames,
                 deleting : BOOLEAN ]
Templates   == [ host : Clusters \cup { NoRef }, database : Databases,
                 user : Usernames \cup { Absent } ]
Deployments == [ owner : Owners, template : Templates ]
Pods        == [ template : Templates, password : Passwords \cup { Absent } ]
Passes      == [ site : Sites, work : Specs, pos : 1..3 ]

ASSUME AbsentAssumption ==
    /\ Absent \notin Specs /\ Absent \notin Secrets /\ Absent \notin Requests
    /\ Absent \notin Deployments /\ Absent \notin Pods /\ Absent \notin Passes
    /\ Absent \notin Usernames /\ Absent \notin Passwords

TypeOK ==
    /\ spec \in [ Sites -> Specs \cup { Absent } ]
    /\ births \in [ Sites -> 0..MaxBirths ] /\ edits \in 0..MaxEdits
    /\ secret \in [ Sites -> Secrets \cup { Absent } ] /\ draws \in [ Sites -> 0..MaxDraws ]
    /\ request \in [ Sites -> Requests \cup { Absent } ]
    /\ deploy \in [ Sites -> Deployments \cup { Absent } ]
    /\ pod \in [ Sites -> Pods \cup { Absent } ]
    /\ accounts \in [ Clusters -> [ Usernames -> Passwords \cup { Absent } ] ]
    /\ rights \in [ Clusters -> SUBSET (Usernames \X Databases) ]
    /\ databases \in [ Clusters -> SUBSET Databases ]
    /\ queue \subseteq Sites
    /\ pass \in Passes \cup { Absent }

-----------------------------------------------------------------------------
(* The pass.                                                               *)

BuggyStart(s) ==
    /\ pass = Absent /\ s \in queue
    /\ queue' = queue \ { s }
    /\ pass' = [ site |-> s, work |-> spec[s], pos |-> 1 ]
    /\ UNCHANGED << site, cluster, mariadb >>

\* A Site that is gone needs no pass.
Start(s) ==
    /\ pass = Absent /\ s \in queue
    /\ queue' = queue \ { s }
    /\ pass' = IF spec[s] = Absent THEN Absent
               ELSE [ site |-> s, work |-> spec[s], pos |-> 1 ]
    /\ UNCHANGED << site, cluster, mariadb >>

At(step) == pass # Absent /\ Steps[pass.pos] = step

Advance ==
    pass' = IF pass.pos = Len(Steps) THEN Absent ELSE [ pass EXCEPT !.pos = @ + 1 ]

\* A change of an object the controller watches enqueues its Site.
Enqueue(s, changed) == queue' = IF changed THEN queue \cup { s } ELSE queue

\* reconcileSecret: a password is generated when there is none; the Secret of an
\* earlier Site of the name is adopted.
WriteSecret ==
    /\ At("Secret")
    /\ LET s    == pass.site
           old  == IF secret[s] = Absent THEN Absent ELSE secret[s].password
           draw == pass.work.enabled /\ old = Absent
           new  == IF draw THEN << s, draws[s] + 1 >> ELSE old
       IN  /\ secret' = [ secret EXCEPT ![s] = [ owner |-> pass.work.uid, password |-> new ] ]
           /\ draws' = [ draws EXCEPT ![s] = IF draw THEN @ + 1 ELSE @ ]
           /\ Enqueue(s, secret' # secret)
    /\ Advance
    /\ UNCHANGED << site, request, deploy, pod, mariadb >>

BuggyRequest(s, p, old) ==
    [ owner |-> 0, host |-> ResolveMariaDBRef(p), database |-> p.database,
      user |-> ProvisionedUsername(s), deleting |-> old # Absent /\ old.deleting ]

\* The three objects, created or brought up to date; an update does not bring back
\* an object that is being deleted.
Request(s, p, old) ==
    [ owner    |-> p.uid,
      host     |-> ResolveMariaDBRef(p),
      database |-> p.database,
      user     |-> ProvisionedUsername(s),
      deleting |-> old # Absent /\ old.deleting ]

\* reconcileDatabaseProvision: nothing unless the Site opted in, and an error, which
\* ends the pass and requeues the Site, when it has no cluster.
Provision ==
    /\ At("Provision")
    /\ LET s == pass.site  p == pass.work IN
       IF ~p.enabled THEN Advance /\ UNCHANGED << request, queue >>
       ELSE IF ResolveMariaDBRef(p) = NoRef
       THEN pass' = Absent /\ queue' = queue \cup { s } /\ UNCHANGED request
       ELSE /\ Advance
            /\ request' = [ request EXCEPT ![s] = Request(s, p, request[s]) ]
            /\ UNCHANGED queue
    /\ UNCHANGED << site, secret, draws, deploy, pod, mariadb >>

WriteDeployment ==
    /\ At("Deployment")
    /\ LET s == pass.site IN
       /\ deploy' = [ deploy EXCEPT ![s] =
                        [ owner |-> pass.work.uid, template |-> Template(s, pass.work) ] ]
       /\ Enqueue(s, deploy' # deploy)
    /\ Advance
    /\ UNCHANGED << site, secret, draws, request, pod, mariadb >>

PassStep == WriteSecret \/ Provision \/ WriteDeployment

\* The informers replay their caches every ten hours.
Resync ==
    /\ queue' = queue \cup { s \in Sites : spec[s] # Absent }
    /\ queue' # queue
    /\ UNCHANGED << site, cluster, mariadb, pass >>

-----------------------------------------------------------------------------
(* The garbage collector, the Deployment and its pod, mariadb-operator.    *)

\* It names an owner, and that Site is not there.
Orphan(s, obj) == obj # Absent /\ obj.owner # 0 /\ (spec[s] # Absent => obj.owner # spec[s].uid)

CollectSecret(s) ==
    /\ Orphan(s, secret[s])
    /\ secret' = [ secret EXCEPT ![s] = Absent ]
    /\ Enqueue(s, TRUE)
    /\ UNCHANGED << site, draws, request, deploy, pod, mariadb, pass >>

CollectDeployment(s) ==
    /\ Orphan(s, deploy[s])
    /\ deploy' = [ deploy EXCEPT ![s] = Absent ]
    /\ pod' = [ pod EXCEPT ![s] = Absent ]
    /\ Enqueue(s, TRUE)
    /\ UNCHANGED << site, secret, draws, request, mariadb, pass >>

CollectRequest(s) ==
    /\ Orphan(s, request[s]) /\ ~request[s].deleting
    /\ request' = [ request EXCEPT ![s].deleting = TRUE ]
    /\ UNCHANGED << site, secret, draws, deploy, pod, mariadb, queue, pass >>

Collect(s) == CollectSecret(s) \/ CollectRequest(s) \/ CollectDeployment(s)

\* A pod of the Deployment's template starts when the key it refers to is there.
StartPod(s) ==
    /\ deploy[s] # Absent
    /\ pod[s] # Absent => pod[s].template # deploy[s].template
    /\ LET provisioned == deploy[s].template.user # Absent IN
       /\ provisioned => secret[s] # Absent /\ secret[s].password # Absent
       /\ pod' = [ pod EXCEPT ![s] =
              [ template |-> deploy[s].template,
                password |-> IF provisioned THEN secret[s].password ELSE Absent ] ]
    /\ Enqueue(s, TRUE)
    /\ UNCHANGED << site, secret, draws, request, deploy, mariadb, pass >>

OnlyMariaDB == UNCHANGED << site, secret, draws, deploy, pod, queue, pass >>

\* mariadb-operator brings the cluster in line with the request, with the password
\* that is in the Secret now.
Apply(s) ==
    /\ request[s] # Absent /\ ~request[s].deleting
    /\ secret[s] # Absent /\ secret[s].password # Absent
    /\ LET r == request[s] IN
       /\ accounts' = [ accounts EXCEPT ![r.host][r.user] = secret[s].password ]
       /\ rights' = [ rights EXCEPT ![r.host] = @ \cup { << r.user, r.database >> } ]
       /\ databases' = [ databases EXCEPT ![r.host] = @ \cup { r.database } ]
    /\ mariadb' # mariadb
    /\ UNCHANGED request /\ OnlyMariaDB

\* The finalizers: what was requested is dropped from the cluster, the database with
\* all there is in it and the account with all the rights it has.
Finalize(s) ==
    /\ request[s] # Absent /\ request[s].deleting
    /\ LET r == request[s] IN
       /\ accounts' = [ accounts EXCEPT ![r.host][r.user] = Absent ]
       /\ rights' = [ rights EXCEPT ![r.host] = { e \in @ : e[1] # r.user } ]
       /\ databases' = [ databases EXCEPT ![r.host] = @ \ { r.database } ]
    /\ request' = [ request EXCEPT ![s] = Absent ]
    /\ OnlyMariaDB

ClusterStep(s) ==
    \/ Collect(s) \/ StartPod(s) \/ Apply(s) \/ Finalize(s)

-----------------------------------------------------------------------------
(* Users.                                                                  *)

CreateSite(s, wish) ==
    /\ spec[s] = Absent /\ births[s] < MaxBirths
    /\ births' = [ births EXCEPT ![s] = @ + 1 ]
    /\ spec' = [ spec EXCEPT ![s] =
        [ uid |-> births'[s], enabled |-> wish.enabled, mariadbRef |-> wish.mariadbRef,
          database |-> wish.database ] ]
    /\ queue' = queue \cup { s }
    /\ UNCHANGED << edits, cluster, mariadb, pass >>

DeleteSite(s) ==
    /\ spec[s] # Absent /\ edits < MaxEdits
    /\ spec' = [ spec EXCEPT ![s] = Absent ]
    /\ edits' = edits + 1
    /\ queue' = queue \cup { s }
    /\ UNCHANGED << births, cluster, mariadb, pass >>

\* Provisioning is switched on or off, or moves to another cluster or database.
EditSite(s, wish) ==
    /\ spec[s] # Absent /\ edits < MaxEdits
    /\ spec' = [ spec EXCEPT ![s].enabled = wish.enabled, ![s].mariadbRef = wish.mariadbRef,
                             ![s].database = wish.database ]
    /\ spec' # spec
    /\ edits' = edits + 1
    /\ queue' = queue \cup { s }
    /\ UNCHANGED << births, cluster, mariadb, pass >>

UserStep ==
    \E s \in Sites :
        \/ DeleteSite(s)
        \/ \E wish \in Wishes[s] : CreateSite(s, wish) \/ EditSite(s, wish)

-----------------------------------------------------------------------------
Init ==
    /\ spec = [ s \in Sites |-> Absent ]
    /\ births = [ s \in Sites |-> 0 ] /\ edits = 0
    /\ secret = [ s \in Sites |-> Absent ] /\ draws = [ s \in Sites |-> 0 ]
    /\ request = [ s \in Sites |-> Absent ]
    /\ deploy = [ s \in Sites |-> Absent ] /\ pod = [ s \in Sites |-> Absent ]
    /\ accounts = [ c \in Clusters |-> [ u \in Usernames |-> Absent ] ]
    /\ rights = [ c \in Clusters |-> {} ] /\ databases = [ c \in Clusters |-> {} ]
    /\ queue = {} /\ pass = Absent

Next ==
    \/ PassStep \/ Resync
    \/ \E s \in Sites : Start(s) \/ ClusterStep(s)
    \/ UserStep

\* A pass goes on; the work queue is first in, first out, so the turn of every Site
\* in it comes (strong fairness, for a pass of another Site takes the worker away);
\* the other controllers keep working.  Nothing makes a user act.
Fairness ==
    /\ WF_vars(PassStep) /\ WF_vars(Resync)
    /\ \A s \in Sites : SF_vars(Start(s))
    /\ WF_vars(\E s \in Sites : Collect(s))
    /\ WF_vars(\E s \in Sites : StartPod(s))
    /\ WF_vars(\E s \in Sites : Apply(s) \/ Finalize(s))

Spec == Init /\ [][Next]_vars /\ Fairness

-----------------------------------------------------------------------------
(* Properties.                                                             *)

\* The pod of Site s can use the database it was pointed at.
LoggedIn(s) ==
    /\ pod[s] # Absent /\ pod[s].template.user # Absent
    /\ LET t == pod[s].template IN
       /\ accounts[t.host][t.user] = pod[s].password
       /\ << t.user, t.database >> \in rights[t.host] /\ t.database \in databases[t.host]

\* The name of another Site begins with the same 27 characters, whatever its
\* namespace: the two may be given the same account.
Shares(s) == \E other \in Sites \ { s } : other.head = s.head

\* What another Site asks for, now, is the database the pod of Site s uses: nothing
\* keeps two Sites from naming the same one.
DatabaseShared(s) ==
    \E other \in Sites \ { s } :
        /\ request[other] # Absent
        /\ request[other].host = pod[s].template.host
        /\ request[other].database = pod[s].template.database

Provisioned(s) == spec[s] # Absent /\ spec[s].enabled /\ Host(spec[s]) # NoRef

\* "Credentials are managed automatically" (site_types.go:26): every Site that opted in
\* ends up with a pod that can log in, with the password generated for it, to the database
\* and the cluster its spec names now, whatever the other Sites do and wherever it was
\* before; unless it shares the account.
CredentialsWork ==
    <>[](\A s \in Sites : Provisioned(s) /\ ~Shares(s) =>
            /\ LoggedIn(s)
            /\ pod[s].template.host = Host(spec[s])
            /\ pod[s].template.database = spec[s].database)

\* A pod that can use its database can do so until it is replaced or its Site deleted:
\* no edit of the Site, and nothing done for another one, takes its account or its
\* database away (provision.go:61 leaves the objects alone when a Site opts out), unless
\* the other one asked for the same.
LoginKept ==
    [][ \A s \in Sites :
            LoggedIn(s) /\ pod'[s] = pod[s] /\ spec[s] # Absent /\ spec'[s] # Absent
                /\ ~Shares(s) /\ ~DatabaseShared(s) => LoggedIn(s)' ]_vars

\* Users never move the Site to another cluster or database.
Stays(s) == \A w, v \in Wishes[s] : Host(w) = Host(v) /\ w.database = v.database

\* Every object of a Site that is gone goes: it has the Site's owner reference, so the
\* garbage collector finds it, whatever a pass that outlives the Site makes again.  With the
\* request goes the account it describes: all the accounts of a Site that was never moved.
\* (In a cluster it moved away from the account stays for good: no object names it.)
NothingLeft ==
    <>[](\A s \in Sites : spec[s] = Absent =>
            /\ secret[s] = Absent /\ deploy[s] = Absent /\ request[s] = Absent
            /\ Stays(s) /\ ~Shares(s) =>
                  \A c \in Clusters : accounts[c][ProvisionedUsername(s)] = Absent)

=============================================================================
