----------------------- MODULE DatabaseProvisionProofs -----------------------
(***************************************************************************)
(* What holds of DatabaseProvision for any Sites, clusters and wishes and  *)
(* any number of creations and edits.                                      *)
(***************************************************************************)
EXTENDS DatabaseProvision, TLAPS

-----------------------------------------------------------------------------
(* The steps of a pass.                                                    *)

\* A pass is at the step its position says, and has a Site to work on.
LEMMA AtFacts ==
    ASSUME TypeOK
    PROVE  /\ \A step : At(step) => pass # Absent
           /\ pass # Absent => pass \in Passes /\ pass.site \in Sites /\ pass.work \in Specs
           /\ pass # Absent /\ pass.pos = 1 => At("Secret")
           /\ At("Secret") => pass.pos = 1
           /\ At("Provision") => pass.pos = 2
           /\ At("Deployment") => pass.pos = 3
<1>1. pass # Absent => pass \in Passes /\ pass.pos \in { 1, 2, 3 }
  BY DEF TypeOK, Passes
<1>2. Steps[1] = "Secret" /\ Steps[2] = "Provision" /\ Steps[3] = "Deployment"
  BY DEF Steps
<1> QED
  BY <1>1, <1>2 DEF At, Passes

\* A step leads to the next one, or to the end of the pass.
LEMMA AdvanceFacts ==
    ASSUME TypeOK, pass # Absent, Advance
    PROVE  /\ pass' \in Passes \cup { Absent }
           /\ pass' # Absent => /\ pass'.site = pass.site /\ pass'.work = pass.work
                                /\ pass'.pos = pass.pos + 1
<1>1. pass \in Passes /\ Len(Steps) = 3
  BY DEF TypeOK, Steps
<1>2. CASE pass.pos = 3
  BY <1>1, <1>2 DEF Advance
<1>3. CASE pass.pos # 3
  BY <1>1, <1>3 DEF Advance, Passes
<1> QED
  BY <1>2, <1>3

-----------------------------------------------------------------------------
(* How many passwords are drawn.                                           *)

Works(s) == pass # Absent /\ pass.site = s

\* The pass outlived its Site.
Stale(s) == Works(s) /\ (spec[s] = Absent \/ pass.work.uid # spec[s].uid)

\* The Secret has a password, and is the Site's.
HasOwn(s) ==
    secret[s] # Absent /\ secret[s].password # Absent /\ secret[s].owner = spec[s].uid

\* A pass that outlived its Site draws once at most; the Site itself draws
\* once, and once more is set aside for a pass that may outlive it.
DrawsOfPass(s) == IF Stale(s) /\ pass.pos = 1 THEN 1 ELSE 0
DrawsOfSite(s) == IF spec[s] = Absent THEN 0 ELSE IF HasOwn(s) THEN 1 ELSE 2

Budget(s) == draws[s] + DrawsOfPass(s) + DrawsOfSite(s) <= 2 * births[s]

\* Whatever has an owner has one that was born, and the live Site is the last one.
Uids(s) ==
    /\ spec[s] # Absent => spec[s].uid = births[s]
    /\ secret[s] # Absent => secret[s].owner \in 1..births[s]
    /\ request[s] # Absent => request[s].owner \in 1..births[s]
    /\ deploy[s] # Absent => deploy[s].owner \in 1..births[s]
    /\ pod[s] # Absent => births[s] # 0
    /\ Works(s) => pass.work.uid \in 1..births[s]

TInv == TypeOK /\ \A s \in Sites : Uids(s) /\ Budget(s)

\* There is a draw left for a pass that needs one.
LEMMA DrawLeft ==
    ASSUME TInv, NEW s \in Sites, At("Secret"), pass.site = s,
           secret[s] = Absent \/ secret[s].password = Absent
    PROVE  /\ DrawsOfPass(s) + DrawsOfSite(s) >= 1
           /\ draws[s] + 1 \in 1..MaxDraws
<1>1. Works(s) /\ pass.pos = 1
  BY AtFacts DEF TInv, Works
<1>2. ~Stale(s) => DrawsOfPass(s) = 0 /\ DrawsOfSite(s) = 2
  BY <1>1 DEF Stale, DrawsOfPass, DrawsOfSite, HasOwn
<1>3. Stale(s) => DrawsOfPass(s) = 1 /\ DrawsOfSite(s) \in { 0, 1, 2 }
  BY <1>1 DEF DrawsOfPass, DrawsOfSite
<1>4. draws[s] \in Nat /\ births[s] \in 0..MaxBirths /\ MaxBirths \in Nat
  BY BoundsAssumption DEF TInv, TypeOK, MaxDraws
<1>5. draws[s] + DrawsOfPass(s) + DrawsOfSite(s) <= 2 * births[s]
  BY DEF TInv, Budget
<1>6. DrawsOfPass(s) + DrawsOfSite(s) >= 1 /\ DrawsOfPass(s) + DrawsOfSite(s) \in Nat
        /\ DrawsOfPass(s) \in Nat /\ DrawsOfSite(s) \in Nat
  BY <1>2, <1>3
<1>7. draws[s] + 1 <= 2 * MaxBirths
  BY <1>4, <1>5, <1>6
<1> QED
  BY <1>4, <1>6, <1>7 DEF MaxDraws

-----------------------------------------------------------------------------
(* Types.                                                                  *)

\* What a pass asks for is what mariadb-operator and the kubelet can be asked for.
LEMMA RefFacts ==
    ASSUME NEW p \in Specs, NEW s \in Sites
    PROVE  /\ ResolveMariaDBRef(p) = Host(p) /\ Host(p) \in Clusters \cup { NoRef }
           /\ ProvisionedUsername(s) \in Usernames /\ Template(s, p) \in Templates
           /\ p.uid \in Owners /\ p.uid # 0 /\ p.enabled \in BOOLEAN /\ p.database \in Databases
<1>1. p.uid \in Owners /\ p.uid # 0 /\ p.enabled \in BOOLEAN /\ p.database \in Databases
        /\ p.mariadbRef \in Clusters \cup { NoRef }
  BY BoundsAssumption DEF Specs, Owners
<1>2. ResolveMariaDBRef(p) = Host(p) /\ Host(p) \in Clusters \cup { NoRef }
  BY <1>1, RefAssumption DEF ResolveMariaDBRef, Host
<1>3. ProvisionedUsername(s) \in Usernames
  BY DEF Usernames
<1> QED
  BY <1>1, <1>2, <1>3 DEF Template, Templates

\* The steps of a pass leave well-typed objects; the password is the one that was left to draw.
LEMMA PassStepTypes ==
    ASSUME TInv, PassStep
    PROVE  TypeOK'
<1>1. pass # Absent /\ pass \in Passes /\ pass.site \in Sites /\ pass.work \in Specs
  BY AtFacts DEF TInv, PassStep, WriteSecret, Provision, WriteDeployment
<1> DEFINE s == pass.site
           p == pass.work
<1>2. Advance => pass' \in Passes \cup { Absent }
  BY <1>1, AdvanceFacts DEF TInv
<1>3. p.uid \in Owners /\ Template(s, p) \in Templates
  BY <1>1, RefFacts
<1>4. CASE WriteSecret
  <2> DEFINE old  == IF secret[s] = Absent THEN Absent ELSE secret[s].password
             draw == p.enabled /\ old = Absent
             new  == IF draw THEN << s, draws[s] + 1 >> ELSE old
  <2>1. old \in Passwords \cup { Absent }
    BY <1>1 DEF TInv, TypeOK, Secrets
  <2>2. draw => draws[s] + 1 \in 1..MaxDraws
    BY <1>1, <1>4, DrawLeft DEF WriteSecret
  <2>3. new \in Passwords \cup { Absent }
    BY <1>1, <2>1, <2>2 DEF Passwords
  <2>4. [ owner |-> p.uid, password |-> new ] \in Secrets
    BY <1>3, <2>3 DEF Secrets
  <2>5. /\ secret' = [ secret EXCEPT ![s] = [ owner |-> p.uid, password |-> new ] ]
        /\ draws' = [ draws EXCEPT ![s] = IF draw THEN @ + 1 ELSE @ ]
        /\ queue' \in { queue, queue \cup { s } }
    BY <1>4 DEF WriteSecret, Enqueue
  <2> HIDE DEF old, draw, new
  <2>6. draws' \in [ Sites -> 0..MaxDraws ]
    BY <1>1, <2>2, <2>5, BoundsAssumption DEF TInv, TypeOK, MaxDraws
  <2>7. secret' \in [ Sites -> Secrets \cup { Absent } ] /\ queue' \subseteq Sites
    BY <1>1, <2>4, <2>5 DEF TInv, TypeOK
  <2> QED
    BY <1>2, <1>4, <2>6, <2>7 DEF WriteSecret, TInv, TypeOK, site, mariadb
<1>5. CASE Provision
  <2>1. ASSUME p.enabled, ResolveMariaDBRef(p) # NoRef
        PROVE  Request(s, p, request[s]) \in Requests
    <3>1. request[s] \in Requests \cup { Absent }
      BY <1>1 DEF TInv, TypeOK
    <3> QED
      BY <1>1, <2>1, <3>1, RefFacts DEF Request, Requests
  <2>2. /\ request' \in [ Sites -> Requests \cup { Absent } ]
        /\ queue' \subseteq Sites /\ pass' \in Passes \cup { Absent }
    BY <1>1, <1>2, <1>5, <2>1 DEF Provision, TInv, TypeOK
  <2> QED
    BY <1>5, <2>2 DEF Provision, TInv, TypeOK, site, mariadb
<1>6. CASE WriteDeployment
  <2>1. [ owner |-> p.uid, template |-> Template(s, p) ] \in Deployments
    BY <1>3 DEF Deployments
  <2>2. deploy' \in [ Sites -> Deployments \cup { Absent } ] /\ queue' \subseteq Sites
    BY <1>1, <1>6, <2>1 DEF WriteDeployment, Enqueue, TInv, TypeOK
  <2> QED
    BY <1>2, <1>6, <2>2 DEF WriteDeployment, TInv, TypeOK, site, mariadb
<1> QED
  BY <1>4, <1>5, <1>6 DEF PassStep

\* So do the start of a pass, the garbage collector, the pod and mariadb-operator.
LEMMA ClusterTypes ==
    ASSUME TInv, NEW s \in Sites, Start(s) \/ Resync \/ ClusterStep(s)
    PROVE  TypeOK'
<1>1. CASE Start(s)
  <2>1. spec[s] # Absent => [ site |-> s, work |-> spec[s], pos |-> 1 ] \in Passes
    BY DEF TInv, TypeOK, Passes
  <2> QED
    BY <1>1, <2>1 DEF Start, TInv, TypeOK, site, cluster, mariadb
<1>2. CASE Resync
  BY <1>2 DEF Resync, TInv, TypeOK, site, cluster, mariadb
<1>3. CASE CollectSecret(s)
  BY <1>3 DEF CollectSecret, Enqueue, TInv, TypeOK, site, mariadb
<1>4. CASE CollectDeployment(s)
  BY <1>4 DEF CollectDeployment, Enqueue, TInv, TypeOK, site, mariadb
<1>5. CASE CollectRequest(s)
  <2>1. request[s] \in Requests
    BY <1>5 DEF CollectRequest, Orphan, TInv, TypeOK
  <2>2. [ request[s] EXCEPT !.deleting = TRUE ] \in Requests
    BY <2>1 DEF Requests
  <2>3. request' \in [ Sites -> Requests \cup { Absent } ]
    BY <1>5, <2>2 DEF CollectRequest, TInv, TypeOK
  <2> QED
    BY <1>5, <2>3 DEF CollectRequest, TInv, TypeOK, site, mariadb
<1>6. CASE StartPod(s)
  <2>1. deploy[s] \in Deployments /\ deploy[s].template \in Templates
    BY <1>6 DEF StartPod, TInv, TypeOK, Deployments
  <2>2. secret[s] # Absent => secret[s].password \in Passwords \cup { Absent }
    BY DEF TInv, TypeOK, Secrets
  <2>3. pod' \in [ Sites -> Pods \cup { Absent } ] /\ queue' \subseteq Sites
    BY <1>6, <2>1, <2>2 DEF StartPod, Enqueue, TInv, TypeOK, Pods
  <2> QED
    BY <1>6, <2>3 DEF StartPod, TInv, TypeOK, site, mariadb
<1>7. CASE Apply(s)
  <2>1. /\ request[s].host \in Clusters /\ request[s].user \in Usernames
        /\ request[s].database \in Databases /\ secret[s].password \in Passwords
    BY <1>7 DEF Apply, TInv, TypeOK, Requests, Secrets
  <2>2. accounts' \in [ Clusters -> [ Usernames -> Passwords \cup { Absent } ] ]
    BY <1>7, <2>1 DEF Apply, TInv, TypeOK
  <2>3. rights' \in [ Clusters -> SUBSET (Usernames \X Databases) ]
    BY <1>7, <2>1 DEF Apply, TInv, TypeOK
  <2>4. databases' \in [ Clusters -> SUBSET Databases ]
    BY <1>7, <2>1 DEF Apply, TInv, TypeOK
  <2> QED
    BY <1>7, <2>2, <2>3, <2>4 DEF Apply, OnlyMariaDB, TInv, TypeOK, site
<1>8. CASE Finalize(s)
  <2>1. request[s].host \in Clusters /\ request[s].user \in Usernames
    BY <1>8 DEF Finalize, TInv, TypeOK, Requests
  <2>2. accounts' \in [ Clusters -> [ Usernames -> Passwords \cup { Absent } ] ]
    BY <1>8, <2>1 DEF Finalize, TInv, TypeOK
  <2>3. rights' \in [ Clusters -> SUBSET (Usernames \X Databases) ]
    BY <1>8, <2>1 DEF Finalize, TInv, TypeOK
  <2>4. request' \in [ Sites -> Requests \cup { Absent } ]
    BY <1>8 DEF Finalize, TInv, TypeOK
  <2>5. databases' \in [ Clusters -> SUBSET Databases ]
    BY <1>8, <2>1 DEF Finalize, TInv, TypeOK
  <2> QED
    BY <1>8, <2>2, <2>3, <2>4, <2>5 DEF Finalize, OnlyMariaDB, TInv, TypeOK, site
<1> QED
  BY <1>1, <1>2, <1>3, <1>4, <1>5, <1>6, <1>7, <1>8 DEF ClusterStep, Collect

\* So does what users do.
LEMMA UserTypes ==
    ASSUME TInv, UserStep
    PROVE  TypeOK'
<1>1. ASSUME NEW s \in Sites, DeleteSite(s) PROVE TypeOK'
  <2>1. edits' \in 0..MaxEdits
    BY <1>1, BoundsAssumption DEF DeleteSite, TInv, TypeOK
  <2> QED
    BY <1>1, <2>1 DEF DeleteSite, TInv, TypeOK, cluster, mariadb
<1>2. ASSUME NEW s \in Sites, NEW wish \in Wishes[s], CreateSite(s, wish) PROVE TypeOK'
  <2>1. births[s] + 1 \in 1..MaxBirths
    BY <1>2, BoundsAssumption DEF CreateSite, TInv, TypeOK
  <2>2. births' \in [ Sites -> 0..MaxBirths ] /\ births'[s] = births[s] + 1
    BY <1>2, <2>1 DEF CreateSite, TInv, TypeOK
  <2>3. /\ wish.enabled \in BOOLEAN /\ wish.mariadbRef \in Clusters \cup { NoRef }
        /\ wish.database \in Databases
    BY WishesAssumption
  <2>4. [ uid |-> births'[s], enabled |-> wish.enabled, mariadbRef |-> wish.mariadbRef,
          database |-> wish.database ] \in Specs
    BY <2>1, <2>2, <2>3 DEF Specs
  <2>5. spec' \in [ Sites -> Specs \cup { Absent } ]
    BY <1>2, <2>4 DEF CreateSite, TInv, TypeOK
  <2> QED
    BY <1>2, <2>2, <2>5 DEF CreateSite, TInv, TypeOK, cluster, mariadb
<1>3. ASSUME NEW s \in Sites, NEW wish \in Wishes[s], EditSite(s, wish) PROVE TypeOK'
  <2>1. edits' \in 0..MaxEdits
    BY <1>3, BoundsAssumption DEF EditSite, TInv, TypeOK
  <2>2. /\ wish.enabled \in BOOLEAN /\ wish.mariadbRef \in Clusters \cup { NoRef }
        /\ wish.database \in Databases
    BY WishesAssumption
  <2>3. spec[s] \in Specs
    BY <1>3 DEF EditSite, TInv, TypeOK
  <2>4. spec' \in [ Sites -> Specs \cup { Absent } ]
    BY <1>3, <2>2, <2>3 DEF EditSite, TInv, TypeOK, Specs
  <2> QED
    BY <1>3, <2>1, <2>4 DEF EditSite, TInv, TypeOK, cluster, mariadb
<1> QED
  BY <1>1, <1>2, <1>3 DEF UserStep

-----------------------------------------------------------------------------
(* Uids and the budget, of any Site r.                                     *)

\* Nothing that is kept of Site r changes.
Same(r) ==
    /\ spec'[r] = spec[r] /\ births'[r] = births[r]
    /\ secret'[r] = secret[r] /\ draws'[r] = draws[r]
    /\ request'[r] = request[r] /\ deploy'[r] = deploy[r] /\ pod'[r] = pod[r]

\* What each way of being counted counts.
LEMMA CountFacts ==
    ASSUME TypeOK, NEW r \in Sites
    PROVE  /\ DrawsOfPass(r) \in { 0, 1 } /\ DrawsOfSite(r) \in { 0, 1, 2 }
           /\ draws[r] \in Nat /\ births[r] \in Nat
  BY BoundsAssumption DEF DrawsOfPass, DrawsOfSite, TypeOK, MaxDraws

\* A step of the pass.
LEMMA PassStepCounts ==
    ASSUME TInv, TypeOK', NEW r \in Sites, PassStep
    PROVE  Uids(r)' /\ Budget(r)'
<1> DEFINE s == pass.site
           p == pass.work
<1>1. /\ pass # Absent /\ pass \in Passes /\ s \in Sites /\ p \in Specs
      /\ pass.pos \in { 1, 2, 3 }
  BY AtFacts DEF TInv, PassStep, WriteSecret, Provision, WriteDeployment, Passes
<1>2. pass' # Absent => /\ pass'.site = s /\ pass'.work = p /\ pass'.pos # 1
  <2>1. Advance \/ pass' = Absent
    BY DEF PassStep, WriteSecret, Provision, WriteDeployment
  <2> QED
    BY <1>1, <2>1, AdvanceFacts DEF TInv
<1>3. p.uid \in Nat \ {0} /\ Works(s) /\ p.uid \in 1..births[s]
  BY <1>1 DEF Works, Uids, TInv, Specs
<1>4. DrawsOfPass(r)' = 0
  BY <1>2 DEF DrawsOfPass, Stale, Works
<1>5. CASE r # s
  <2>1. Same(r)
    BY <1>1, <1>5
       DEF PassStep, WriteSecret, Provision, WriteDeployment, Same, site, mariadb, TInv, TypeOK
  <2>2. ~Works(r)'
    BY <1>2, <1>5 DEF Works
  <2>3. DrawsOfSite(r)' = DrawsOfSite(r)
    BY <2>1 DEF Same, DrawsOfSite, HasOwn
  <2>4. Uids(r) /\ Budget(r)
    BY DEF TInv
  <2>5. Uids(r)'
    BY <2>1, <2>2, <2>4 DEF Uids, Same
  <2> QED
    BY <1>4, <2>1, <2>3, <2>4, <2>5, CountFacts DEF Budget, Same, TInv
<1>6. CASE r = s
  <2>1. /\ births' = births /\ spec' = spec /\ pod' = pod
        /\ Works(r)' => pass'.work.uid \in 1..births[r]
    BY <1>2, <1>3, <1>6
       DEF PassStep, WriteSecret, Provision, WriteDeployment, site, Works
  <2>2. Uids(r) /\ Budget(r)
    BY DEF TInv
  <2>3. CASE WriteSecret
    <3> DEFINE old  == IF secret[s] = Absent THEN Absent ELSE secret[s].password
               draw == p.enabled /\ old = Absent
               new  == IF draw THEN << s, draws[s] + 1 >> ELSE old
    <3>1. /\ secret'[r] = [ owner |-> p.uid, password |-> new ]
          /\ draws'[r] = IF draw THEN draws[r] + 1 ELSE draws[r]
          /\ request' = request /\ deploy' = deploy
      BY <1>1, <1>6, <2>3 DEF WriteSecret, TInv, TypeOK
    <3>2. secret'[r] # Absent /\ secret'[r].owner = p.uid /\ secret'[r].password = new
      <4>1. secret'[r] \in Secrets \cup { Absent }
        BY DEF TypeOK
      <4>2. new \in Passwords \cup { Absent } /\ p.uid \in Owners
        <5>1. draw => draws[s] + 1 \in 1..MaxDraws
          BY <1>1, <2>3, DrawLeft DEF WriteSecret
        <5>2. old \in Passwords \cup { Absent }
          BY <1>1 DEF TInv, TypeOK, Secrets
        <5> QED
          BY <1>1, <5>1, <5>2, RefFacts DEF Passwords
      <4>3. secret'[r] \in Secrets
        BY <3>1, <4>2 DEF Secrets
      <4> QED
        BY <3>1, <4>3, AbsentAssumption
    <3>3. Uids(r)'
      BY <1>3, <1>6, <2>1, <2>2, <3>1, <3>2 DEF Uids
    <3>4. draw => new # Absent
      <4>1. draw => draws[s] + 1 \in 1..MaxDraws
        BY <1>1, <2>3, DrawLeft DEF WriteSecret
      <4>2. draw => new \in Passwords
        BY <1>1, <4>1 DEF Passwords
      <4> QED
        BY <4>2, AbsentAssumption
    <3>5. pass.pos = 1
      BY <2>3, AtFacts DEF WriteSecret, TInv
    <3>6. HasOwn(r)' <=> (new # Absent /\ p.uid = spec[r].uid)
      BY <2>1, <3>2 DEF HasOwn
    <3>7. HasOwn(r) => new # Absent /\ ~draw
      BY <1>6 DEF HasOwn
    <3>8. draw => ~HasOwn(r)
      BY <3>7
    <3>9. DrawsOfPass(r) = IF spec[r] = Absent \/ p.uid # spec[r].uid THEN 1 ELSE 0
      BY <1>3, <1>6, <3>5 DEF DrawsOfPass, Stale
    <3> HIDE DEF new, draw, old
    <3>10. draws'[r] + DrawsOfSite(r)' <= draws[r] + DrawsOfPass(r) + DrawsOfSite(r)
      BY <1>6, <2>1, <3>1, <3>4, <3>6, <3>7, <3>8, <3>9, CountFacts DEF DrawsOfSite, TInv
    <3>11. draws'[r] \in Nat /\ DrawsOfSite(r)' \in { 0, 1, 2 }
      BY <3>1, CountFacts DEF DrawsOfSite, TInv
    <3>12. Budget(r)'
      BY <1>4, <2>1, <2>2, <3>10, <3>11, CountFacts DEF Budget, TInv
    <3> QED
      BY <3>3, <3>12
  <2>4. CASE ~WriteSecret
    <3>1. secret' = secret /\ draws' = draws
      BY <2>4 DEF PassStep, Provision, WriteDeployment
    <3>2. DrawsOfSite(r)' = DrawsOfSite(r)
      BY <2>1, <3>1 DEF DrawsOfSite, HasOwn
    <3>3. Budget(r)'
      BY <1>4, <2>1, <2>2, <3>1, <3>2, CountFacts DEF Budget, TInv
    <3>4. /\ request'[r] = request[r] \/ request'[r].owner = p.uid
          /\ deploy'[r] = deploy[r] \/ deploy'[r].owner = p.uid
      BY <1>1, <1>6, <2>4 DEF PassStep, Provision, WriteDeployment, Request, TInv, TypeOK
    <3>5. Uids(r)'
      BY <1>3, <1>6, <2>1, <2>2, <3>1, <3>4 DEF Uids
    <3> QED
      BY <3>3, <3>5
  <2> QED
    BY <2>3, <2>4
<1> QED
  BY <1>5, <1>6

\* A step of another controller, or the beginning of a pass.
LEMMA ClusterCounts ==
    ASSUME TInv, TypeOK', NEW r \in Sites, NEW s \in Sites,
           Start(s) \/ Resync \/ ClusterStep(s)
    PROVE  Uids(r)' /\ Budget(r)'
<1>1. births' = births /\ spec' = spec /\ draws' = draws /\ Uids(r) /\ Budget(r)
  BY DEF Start, Resync, ClusterStep, Collect, CollectSecret, CollectDeployment, CollectRequest, StartPod,
         Apply, Finalize, OnlyMariaDB, site, cluster, TInv
<1>2. CASE Start(s)
  <2>1. UNCHANGED << secret, request, deploy, pod >> /\ pass = Absent
    BY <1>2 DEF Start, cluster
  <2>2. Works(r)' => s = r /\ pass'.work = spec[r] /\ spec[r] # Absent
    BY <1>2 DEF Start, Works
  <2>3. spec[r] # Absent => spec[r].uid \in 1..births[r]
    BY <1>1 DEF Uids, TInv, TypeOK, Specs
  <2>4. DrawsOfSite(r)' = DrawsOfSite(r) /\ DrawsOfPass(r)' = 0 /\ DrawsOfPass(r) = 0
    BY <1>1, <2>1, <2>2 DEF DrawsOfSite, HasOwn, DrawsOfPass, Stale, Works
  <2> QED
    BY <1>1, <2>1, <2>2, <2>3, <2>4 DEF Uids, Budget
<1>3. CASE ~Start(s)
  <2>1. pass' = pass
    BY <1>3 DEF Resync, ClusterStep, Collect, CollectSecret, CollectDeployment, CollectRequest, StartPod,
                Apply, Finalize, OnlyMariaDB
  <2>2. DrawsOfPass(r)' = DrawsOfPass(r)
    BY <1>1, <2>1 DEF DrawsOfPass, Stale, Works
  <2>3. secret'[r] = Absent /\ secret[r] # Absent /\ spec[r] # Absent => ~HasOwn(r)
    BY <1>3 DEF Resync, ClusterStep, Collect, CollectSecret, CollectDeployment, CollectRequest, StartPod,
                Apply, Finalize, OnlyMariaDB, cluster, Orphan, HasOwn, TInv, TypeOK
  <2>4. /\ secret'[r] # Absent => secret'[r] = secret[r]
        /\ deploy'[r] # Absent => deploy'[r] = deploy[r]
    BY <1>3 DEF Resync, ClusterStep, Collect, CollectSecret, CollectDeployment, CollectRequest, StartPod,
                Apply, Finalize, OnlyMariaDB, cluster, TInv, TypeOK
  <2>5. request'[r] # Absent => request[r] # Absent /\ request'[r].owner = request[r].owner
    <3>1. CASE CollectRequest(s)
      <4>1. request[s] \in Requests
        BY <3>1 DEF CollectRequest, Orphan, TInv, TypeOK
      <4>2. [ request[s] EXCEPT !.deleting = TRUE ].owner = request[s].owner
        BY <4>1 DEF Requests
      <4> QED
        BY <3>1, <4>1, <4>2, AbsentAssumption DEF CollectRequest, TInv, TypeOK
    <3>2. CASE ~CollectRequest(s)
      BY <1>3, <3>2 DEF Resync, ClusterStep, Collect, CollectSecret, CollectDeployment, StartPod,
                  Apply, Finalize, OnlyMariaDB, cluster, TInv, TypeOK
    <3> QED
      BY <3>1, <3>2
  <2>6. pod'[r] # Absent => births[r] # 0
    <3>1. CASE StartPod(s)
      <4>1. pod'[r] = pod[r] \/ (r = s /\ deploy[r] # Absent)
        BY <3>1 DEF StartPod, TInv, TypeOK
      <4>2. births[r] \in Nat
        BY CountFacts DEF TInv
      <4> QED
        BY <1>1, <4>1, <4>2 DEF Uids
    <3>2. CASE ~StartPod(s)
      BY <1>1, <1>3, <3>2 DEF Resync, ClusterStep, Collect, CollectSecret, CollectDeployment,
                  CollectRequest, Apply, Finalize, OnlyMariaDB, cluster, TInv, TypeOK, Uids
    <3> QED
      BY <3>1, <3>2
  <2>7. Uids(r)'
    BY <1>1, <2>1, <2>4, <2>5, <2>6 DEF Uids, Works
  <2>8. DrawsOfSite(r)' = DrawsOfSite(r)
    BY <1>1, <2>3, <2>4 DEF DrawsOfSite, HasOwn
  <2> QED
    BY <1>1, <2>2, <2>7, <2>8 DEF Budget
<1> QED
  BY <1>2, <1>3

\* A step of a user.
LEMMA UserCounts ==
    ASSUME TInv, TypeOK', NEW r \in Sites, UserStep
    PROVE  Uids(r)' /\ Budget(r)'
<1>1. /\ UNCHANGED << secret, draws, request, deploy, pod, pass >>
      /\ Uids(r) /\ Budget(r)
  BY DEF UserStep, CreateSite, DeleteSite, EditSite, cluster, TInv
<1>2. births[r] \in Nat /\ births'[r] \in Nat /\ draws[r] \in Nat
  BY BoundsAssumption DEF TInv, TypeOK, MaxDraws
<1>3. CASE UNCHANGED << spec[r], births[r] >>
  <2>1. DrawsOfPass(r)' = DrawsOfPass(r) /\ DrawsOfSite(r)' = DrawsOfSite(r)
    BY <1>1, <1>3 DEF DrawsOfPass, DrawsOfSite, Stale, HasOwn, Works
  <2> QED
    BY <1>1, <1>3, <2>1 DEF Uids, Budget, Works
<1>4. CASE DeleteSite(r)
  <2>1. spec'[r] = Absent /\ spec[r] # Absent /\ births' = births
    BY <1>4 DEF DeleteSite, TInv, TypeOK
  <2>2. DrawsOfSite(r)' = 0 /\ DrawsOfPass(r)' \in { 0, 1 } /\ DrawsOfSite(r) \in { 1, 2 }
    BY <2>1 DEF DrawsOfSite, DrawsOfPass
  <2>3. Budget(r)'
    BY <1>1, <1>2, <2>1, <2>2, CountFacts DEF Budget, TInv
  <2> QED
    BY <1>1, <2>1, <2>3 DEF Uids, Works
<1>5. ASSUME NEW wish \in Wishes[r], CreateSite(r, wish)
      PROVE  Uids(r)' /\ Budget(r)'
  <2>1. spec[r] = Absent /\ births'[r] = births[r] + 1
    BY <1>5 DEF CreateSite, TInv, TypeOK
  <2>2. spec'[r].uid = births'[r]
    BY <1>5 DEF CreateSite, TInv, TypeOK
  <2>3. /\ DrawsOfSite(r)' \in { 0, 1, 2 } /\ DrawsOfSite(r) = 0
        /\ DrawsOfPass(r)' \in { 0, 1 } /\ (DrawsOfPass(r)' = 1 => DrawsOfPass(r) = 1)
    BY <1>1, <2>1 DEF DrawsOfSite, DrawsOfPass, Stale, Works
  <2>4. Budget(r)'
    BY <1>1, <1>2, <2>1, <2>3, CountFacts DEF Budget, TInv
  <2> QED
    BY <1>1, <1>2, <2>1, <2>2, <2>4 DEF Uids, Works
<1>6. ASSUME NEW wish \in Wishes[r], EditSite(r, wish)
      PROVE  Uids(r)' /\ Budget(r)'
  <2>1. spec[r] \in Specs /\ births' = births /\ spec[r] # Absent
    BY <1>6 DEF EditSite, TInv, TypeOK
  <2>2. spec'[r] = [ [ [ spec[r] EXCEPT !.enabled = wish.enabled ]
                           EXCEPT !.mariadbRef = wish.mariadbRef ]
                           EXCEPT !.database = wish.database ]
    BY <1>6 DEF EditSite, TInv, TypeOK
  <2>3. spec'[r] \in Specs /\ spec'[r].uid = spec[r].uid
    <3>1. /\ wish.enabled \in BOOLEAN /\ wish.mariadbRef \in Clusters \cup { NoRef }
          /\ wish.database \in Databases
      BY WishesAssumption
    <3> QED
      BY <2>1, <2>2, <3>1 DEF Specs
  <2>4. spec'[r] # Absent
    BY <2>3, AbsentAssumption
  <2>5. DrawsOfPass(r)' = DrawsOfPass(r) /\ DrawsOfSite(r)' = DrawsOfSite(r)
    BY <1>1, <2>1, <2>3, <2>4 DEF DrawsOfPass, DrawsOfSite, Stale, HasOwn, Works
  <2> QED
    BY <1>1, <2>1, <2>3, <2>5 DEF Uids, Budget, Works
<1>7. ASSUME NEW s \in Sites, s # r,
             DeleteSite(s) \/ \E wish \in Wishes[s] : CreateSite(s, wish) \/ EditSite(s, wish)
      PROVE  UNCHANGED << spec[r], births[r] >>
  BY <1>7 DEF DeleteSite, CreateSite, EditSite, TInv, TypeOK
<1> QED
  BY <1>3, <1>4, <1>5, <1>6, <1>7 DEF UserStep

\* TInv is inductive.
LEMMA InitTypes == Init => TInv
<1> SUFFICES ASSUME Init PROVE TInv
  OBVIOUS
<1>1. TypeOK
  BY BoundsAssumption DEF Init, TypeOK, MaxDraws
<1>2. ASSUME NEW s \in Sites PROVE Uids(s) /\ Budget(s)
  BY <1>2 DEF Init, Uids, Budget, Works, Stale, DrawsOfPass, DrawsOfSite
<1> QED
  BY <1>1, <1>2 DEF TInv

\* Every step is one of a pass, of a user or of something that concerns a Site: a resync
\* that changes the queue finds one.
LEMMA NextCases ==
    ASSUME Next
    PROVE  PassStep \/ UserStep \/ \E s \in Sites : Start(s) \/ Resync \/ ClusterStep(s)
<1>1. Resync => \E s \in Sites : spec[s] # Absent
  BY DEF Resync
<1> QED
  BY <1>1 DEF Next

LEMMA NextTypes == TInv /\ [Next]_vars => TInv'
<1> SUFFICES ASSUME TInv, [Next]_vars PROVE TInv'
  OBVIOUS
<1>1. CASE UNCHANGED vars
  <2>1. TypeOK'
    BY <1>1 DEF vars, TInv, TypeOK
  <2>2. ASSUME NEW s \in Sites PROVE Uids(s)' /\ Budget(s)'
    BY <1>1 DEF vars, TInv, Uids, Budget, DrawsOfPass, DrawsOfSite, Stale, HasOwn, Works
  <2> QED
    BY <2>1, <2>2 DEF TInv
<1>2. CASE Next
  <2>1. TypeOK'
    BY <1>2, NextCases, PassStepTypes, ClusterTypes, UserTypes
  <2>2. ASSUME NEW s \in Sites PROVE Uids(s)' /\ Budget(s)'
    BY <1>2, <2>1, NextCases, PassStepCounts, ClusterCounts, UserCounts
  <2> QED
    BY <2>1, <2>2 DEF TInv
<1> QED
  BY <1>1, <1>2

\* Every variable keeps its type; in particular no Site is given more passwords than
\* two for each time it is created, however passes, deletions and collections of the
\* Secret fall.
THEOREM DatabaseTypes == Spec => []TypeOK
<1>1. TInv => TypeOK
  BY DEF TInv
<1> QED
  BY <1>1, InitTypes, NextTypes, PTL DEF Spec

-----------------------------------------------------------------------------
(* Who may touch the account of a Site.                                    *)

\* An environment with an account has the account of Site s, in a cluster there is.
Named(s, t) == t.user # Absent => t.user = ProvisionedUsername(s) /\ t.host \in Clusters

Names(s) ==
    /\ request[s] # Absent => request[s].user = ProvisionedUsername(s)
    /\ deploy[s] # Absent => Named(s, deploy[s].template)
    /\ pod[s] # Absent => Named(s, pod[s].template)

\* A pass that provisions does not reach the Deployment without a cluster.
HostKnown == pass # Absent /\ pass.pos = 3 /\ pass.work.enabled => Host(pass.work) \in Clusters

\* While the first Site of the name lives, its account is nobody's to drop, and the
\* password its pod was started with stays that of its Secret.
Settled(s) ==
    births[s] = 1 /\ spec[s] # Absent =>
        /\ request[s] # Absent => ~request[s].deleting
        /\ pod[s] # Absent /\ pod[s].template.user # Absent =>
              /\ secret[s] # Absent
              /\ pod[s].password = secret[s].password /\ pod[s].password # Absent

LInv == TInv /\ HostKnown /\ \A s \in Sites : Names(s) /\ Settled(s)

\* The first Site of a name owns all there is of it.
LEMMA FirstOwnsAll ==
    ASSUME TInv, NEW s \in Sites, births[s] = 1, spec[s] # Absent
    PROVE  /\ secret[s] # Absent => secret[s].owner = 1
           /\ request[s] # Absent => request[s].owner = 1
           /\ deploy[s] # Absent => deploy[s].owner = 1
           /\ spec[s].uid = 1
  BY DEF TInv, Uids

\* The steps of the pass.
LEMMA PassStepNames ==
    ASSUME LInv, TInv', PassStep
    PROVE  LInv'
<1> DEFINE s == pass.site
           p == pass.work
<1>1. /\ pass # Absent /\ pass \in Passes /\ s \in Sites /\ p \in Specs
      /\ pass.pos \in { 1, 2, 3 }
  BY AtFacts DEF LInv, TInv, PassStep, WriteSecret, Provision, WriteDeployment, Passes
<1>2. /\ ResolveMariaDBRef(p) = Host(p) /\ Host(p) \in Clusters \cup { NoRef }
      /\ ProvisionedUsername(s) \in Usernames /\ p.enabled \in BOOLEAN
  BY <1>1, RefFacts
<1>3. HostKnown'
  <2> SUFFICES ASSUME pass' # Absent, pass'.pos = 3, pass'.work.enabled
               PROVE  Host(pass'.work) \in Clusters
    BY DEF HostKnown, Host
  <2>1. Advance
    BY DEF PassStep, WriteSecret, Provision, WriteDeployment
  <2>2. pass'.work = p /\ pass.pos = 2
    BY <1>1, <2>1, AdvanceFacts DEF LInv, TInv
  <2>3. Provision
    BY <2>2, AtFacts DEF PassStep, WriteSecret, WriteDeployment, LInv, TInv
  <2> QED
    BY <1>2, <2>2, <2>3 DEF Provision
<1>4. ASSUME NEW r \in Sites PROVE Names(r)' /\ Settled(r)'
  <2>1. spec' = spec /\ births' = births /\ pod' = pod /\ Names(r) /\ Settled(r)
    BY DEF PassStep, WriteSecret, Provision, WriteDeployment, site, LInv
  <2>2. CASE r # s
    <3>1. UNCHANGED << secret[r], request[r], deploy[r] >>
      BY <1>1, <2>2 DEF PassStep, WriteSecret, Provision, WriteDeployment, LInv, TInv, TypeOK
    <3> QED
      BY <2>1, <3>1 DEF Names, Settled
  <2>3. CASE r = s /\ WriteSecret
    <3> DEFINE old  == IF secret[s] = Absent THEN Absent ELSE secret[s].password
               draw == p.enabled /\ old = Absent
               new  == IF draw THEN << s, draws[s] + 1 >> ELSE old
    <3>1. secret'[r] = [ owner |-> p.uid, password |-> new ]
      BY <1>1, <2>3 DEF WriteSecret, LInv, TInv, TypeOK
    <3>2. UNCHANGED << request, deploy >>
      BY <2>3 DEF WriteSecret
    <3>3. ASSUME pod[r] # Absent, pod[r].template.user # Absent, births[r] = 1, spec[r] # Absent
          PROVE  secret'[r] # Absent /\ pod[r].password = secret'[r].password
      <4>1. /\ secret[r] # Absent /\ pod[r].password = secret[r].password
            /\ pod[r].password # Absent
        BY <2>1, <3>3 DEF Settled
      <4>2. secret'[r].password = pod[r].password /\ secret'[r] = [ owner |-> p.uid, password |-> pod[r].password ]
        BY <2>3, <3>1, <4>1
      <4>3. p.uid \in Owners /\ pod[r].password \in Passwords
        BY <1>1, <3>3, <4>1, RefFacts DEF LInv, TInv, TypeOK, Pods
      <4>4. secret'[r] \in Secrets
        BY <4>2, <4>3 DEF Secrets
      <4> QED
        BY <4>2, <4>4, AbsentAssumption
    <3> QED
      BY <2>1, <3>2, <3>3 DEF Names, Settled
  <2>4. CASE r = s /\ Provision
    <3>1. UNCHANGED << secret, deploy >>
      BY <2>4 DEF Provision
    <3>2. request'[r] = request[r] \/ request'[r] = Request(r, p, request[r])
      BY <1>1, <2>4 DEF Provision, LInv, TInv, TypeOK
    <3>3. /\ Request(r, p, request[r]).user = ProvisionedUsername(r)
          /\ Request(r, p, request[r]).deleting = (request[r] # Absent /\ request[r].deleting)
      BY DEF Request
    <3> QED
      BY <2>1, <3>1, <3>2, <3>3 DEF Names, Settled
  <2>5. CASE r = s /\ WriteDeployment
    <3>1. UNCHANGED << secret, request >>
      BY <2>5 DEF WriteDeployment
    <3>2. deploy'[r].template = Template(r, p)
      BY <1>1, <2>5 DEF WriteDeployment, LInv, TInv, TypeOK
    <3>3. pass.pos = 3
      BY <2>5, AtFacts DEF WriteDeployment, LInv, TInv
    <3>4. Named(r, Template(r, p))
      BY <1>1, <1>2, <3>3 DEF Named, Template, HostKnown, LInv
    <3> QED
      BY <2>1, <3>1, <3>2, <3>4 DEF Names, Named, Settled
  <2> QED
    BY <2>2, <2>3, <2>4, <2>5 DEF PassStep
<1> QED
  BY <1>3, <1>4 DEF LInv

\* The steps of the other controllers: the garbage collector finds nothing of a Site
\* that is there and the first of its name.
LEMMA ClusterNames ==
    ASSUME LInv, TInv', NEW s \in Sites, Start(s) \/ Resync \/ ClusterStep(s)
    PROVE  LInv'
<1>1. HostKnown'
  <2>1. CASE Start(s)
    BY <2>1 DEF Start, HostKnown, TInv, TypeOK, Passes
  <2>2. CASE ~Start(s)
    BY <2>2 DEF Resync, ClusterStep, Collect, CollectSecret, CollectDeployment, CollectRequest, StartPod,
                Apply, Finalize, OnlyMariaDB, LInv, HostKnown, Host
  <2> QED
    BY <2>1, <2>2
<1>2. ASSUME NEW r \in Sites PROVE Names(r)' /\ Settled(r)'
  <2>1. births' = births /\ spec' = spec /\ Names(r) /\ Settled(r)
    BY DEF Start, Resync, ClusterStep, Collect, CollectSecret, CollectDeployment, CollectRequest,
           StartPod, Apply, Finalize, OnlyMariaDB, site, cluster, LInv
  <2>2. CASE UNCHANGED << secret[r], request[r], deploy[r], pod[r] >>
    BY <2>1, <2>2 DEF Names, Settled
  <2>3. CASE r # s \/ Start(s) \/ Resync \/ Apply(s)
    <3>1. UNCHANGED << secret[r], request[r], deploy[r], pod[r] >>
      BY <2>3 DEF Start, Resync, ClusterStep, Collect, CollectSecret, CollectDeployment, CollectRequest,
           StartPod, Apply, Finalize, OnlyMariaDB, cluster, LInv, TInv, TypeOK
    <3> QED
      BY <2>2, <3>1
  <2>4. CASE r = s /\ CollectSecret(s)
    <3>1. ~(births[r] = 1 /\ spec[r] # Absent)
      BY <2>4, FirstOwnsAll DEF CollectSecret, Orphan, LInv
    <3> QED
      BY <2>1, <2>4, <3>1 DEF CollectSecret, Names, Settled
  <2>5. CASE r = s /\ CollectDeployment(s)
    <3>1. deploy'[r] = Absent /\ pod'[r] = Absent /\ UNCHANGED << secret, request >>
      BY <2>5 DEF CollectDeployment, LInv, TInv, TypeOK
    <3> QED
      BY <2>1, <3>1 DEF Names, Settled
  <2>6. CASE r = s /\ CollectRequest(s)
    <3>1. ~(births[r] = 1 /\ spec[r] # Absent)
      BY <2>6, FirstOwnsAll DEF CollectRequest, Orphan, LInv
    <3>2. request[r] \in Requests /\ request[r] # Absent
      BY <2>6 DEF CollectRequest, Orphan, LInv, TInv, TypeOK
    <3>3. request'[r].user = request[r].user
      BY <2>6, <3>2 DEF CollectRequest, LInv, TInv, TypeOK, Requests
    <3> QED
      BY <2>1, <2>6, <3>1, <3>2, <3>3 DEF CollectRequest, Names, Settled
  <2>7. CASE r = s /\ StartPod(s)
    <3> DEFINE t == deploy[r].template
               w == IF t.user # Absent THEN secret[r].password ELSE Absent
    <3>1. /\ UNCHANGED << secret, request, deploy >> /\ deploy[r] # Absent
          /\ pod'[r] = [ template |-> t, password |-> w ]
          /\ t.user # Absent => secret[r] # Absent /\ secret[r].password # Absent
      BY <2>7 DEF StartPod, LInv, TInv, TypeOK
    <3>2. pod'[r].template = t /\ pod'[r].password = w
      BY <3>1
    <3> QED
      BY <2>1, <3>1, <3>2 DEF Names, Named, Settled
  <2>8. CASE r = s /\ Finalize(s)
    <3>1. request'[r] = Absent /\ UNCHANGED << secret, deploy, pod >>
      BY <2>8 DEF Finalize, OnlyMariaDB, LInv, TInv, TypeOK
    <3> QED
      BY <2>1, <3>1 DEF Names, Settled
  <2> QED
    BY <2>3, <2>4, <2>5, <2>6, <2>7, <2>8 DEF ClusterStep, Collect
<1> QED
  BY <1>1, <1>2 DEF LInv

\* The steps of the users: when the first Site of a name is created, nothing is there.
LEMMA UserNames ==
    ASSUME LInv, TInv', UserStep
    PROVE  LInv'
<1>1. UNCHANGED << secret, draws, request, deploy, pod, pass >>
  BY DEF UserStep, CreateSite, DeleteSite, EditSite, cluster
<1>2. HostKnown'
  BY <1>1 DEF LInv, HostKnown, Host
<1>3. ASSUME NEW r \in Sites PROVE Names(r)' /\ Settled(r)'
  <2>1. Names(r) /\ Settled(r) /\ Uids(r)
    BY DEF LInv, TInv
  <2>2. births[r] = 0 => request[r] = Absent /\ pod[r] = Absent
    BY <2>1 DEF Uids
  <2>3. births'[r] = 1 /\ spec'[r] # Absent =>
            (births[r] = 1 /\ spec[r] # Absent) \/ births[r] = 0
    <3>1. births[r] \in Nat
      BY CountFacts DEF LInv, TInv
    <3>2. ASSUME NEW s \in Sites, NEW wish \in Wishes[s], CreateSite(s, wish)
          PROVE  /\ r = s => births'[r] = births[r] + 1
                 /\ r # s => births'[r] = births[r] /\ spec'[r] = spec[r]
      BY <3>2 DEF CreateSite, LInv, TInv, TypeOK
    <3>3. ASSUME NEW s \in Sites, \/ DeleteSite(s) \/ \E wish \in Wishes[s] : EditSite(s, wish)
          PROVE  births' = births /\ (spec'[r] # Absent => spec[r] # Absent)
      BY <3>3 DEF DeleteSite, EditSite, LInv, TInv, TypeOK
    <3> QED
      BY <3>1, <3>2, <3>3 DEF UserStep
  <2> QED
    BY <1>1, <2>1, <2>2, <2>3 DEF Names, Settled
<1> QED
  BY <1>2, <1>3 DEF LInv

\* LInv is inductive.
LEMMA InitNames == Init => LInv
<1>1. ASSUME Init, NEW s \in Sites PROVE Names(s) /\ Settled(s)
  BY <1>1 DEF Init, Names, Settled
<1> QED
  BY <1>1, InitTypes DEF LInv, HostKnown, Init

LEMMA NextNames == LInv /\ [Next]_vars => LInv'
<1> SUFFICES ASSUME LInv, [Next]_vars PROVE LInv'
  OBVIOUS
<1>1. TInv'
  BY NextTypes DEF LInv
<1>2. CASE UNCHANGED vars
  <2>1. ASSUME NEW s \in Sites PROVE Names(s)' /\ Settled(s)'
    BY <1>2 DEF vars, LInv, Names, Settled
  <2> QED
    BY <1>1, <1>2, <2>1 DEF vars, LInv, HostKnown
<1> QED
  BY <1>1, <1>2, NextCases, PassStepNames, ClusterNames, UserNames

-----------------------------------------------------------------------------
(* The login.                                                              *)

\* The account of a Site that shares it with nobody is only brought in line with its
\* own request, with the password its pod has, and is not dropped; nor is the database
\* its pod uses while nobody else asks for it.
LEMMA LoginStays ==
    ASSUME LInv, LInv', [Next]_vars, NEW s \in Sites, ~Shares(s), births[s] = 1,
           ~DatabaseShared(s), LoggedIn(s), pod'[s] = pod[s],
           spec[s] # Absent, spec'[s] # Absent
    PROVE  LoggedIn(s)'
<1> DEFINE t == pod[s].template
<1>1. /\ pod[s] # Absent /\ t.user = ProvisionedUsername(s) /\ t.host \in Clusters
      /\ t.user \in Usernames
      /\ accounts[t.host][t.user] = pod[s].password
      /\ << t.user, t.database >> \in rights[t.host] /\ t.database \in databases[t.host]
      /\ t.user # Absent
  BY RefFacts DEF LoggedIn, LInv, Names, Named, Usernames
<1>2. secret[s] # Absent /\ secret[s].password = pod[s].password
  BY <1>1 DEF LInv, Settled
<1>3. ASSUME NEW r \in Sites, r # s, request[r] # Absent PROVE request[r].user # t.user
  BY <1>1, <1>3 DEF Shares, LInv, Names, ProvisionedUsername
<1>4. CASE UNCHANGED mariadb
  BY <1>1, <1>4 DEF mariadb, LoggedIn
<1>5. ASSUME NEW r \in Sites, Apply(r) PROVE LoggedIn(s)'
  <2>1. accounts'[t.host][t.user] = pod[s].password
    <3>1. CASE r = s
      BY <1>1, <1>2, <1>5, <3>1 DEF Apply, LInv, TInv, TypeOK
    <3>2. CASE r # s
      <4>1. request[r].user # t.user
        BY <1>3, <1>5, <3>2 DEF Apply
      <4> QED
        BY <1>1, <1>5, <4>1 DEF Apply, LInv, TInv, TypeOK
    <3> QED
      BY <3>1, <3>2
  <2>2. << t.user, t.database >> \in rights'[t.host] /\ t.database \in databases'[t.host]
    BY <1>1, <1>5 DEF Apply, LInv, TInv, TypeOK
  <2> QED
    BY <1>1, <2>1, <2>2 DEF LoggedIn
<1>6. ASSUME NEW r \in Sites, Finalize(r) PROVE LoggedIn(s)'
  <2>1. r # s
    BY <1>6 DEF Finalize, LInv, Settled
  <2>2. request[r].user # t.user
    BY <1>3, <1>6, <2>1 DEF Finalize
  <2>3. accounts'[t.host][t.user] = pod[s].password
    BY <1>1, <1>6, <2>2 DEF Finalize, LInv, TInv, TypeOK
  <2>4. << t.user, t.database >> \in rights'[t.host]
    BY <1>1, <1>6, <2>2 DEF Finalize, LInv, TInv, TypeOK
  <2>5. request[r].host # t.host \/ request[r].database # t.database
    BY <1>6, <2>1 DEF Finalize, DatabaseShared
  <2>6. t.database \in databases'[t.host]
    BY <1>1, <1>6, <2>5 DEF Finalize, LInv, TInv, TypeOK
  <2> QED
    BY <1>1, <2>3, <2>4, <2>6 DEF LoggedIn
<1>7. ASSUME [Next]_vars PROVE UNCHANGED mariadb \/ \E r \in Sites : Apply(r) \/ Finalize(r)
  BY <1>7 DEF Next, vars, mariadb, PassStep, WriteSecret, Provision, WriteDeployment, Start,
         Resync, ClusterStep, Collect, CollectSecret, CollectDeployment, CollectRequest, StartPod,
         UserStep, CreateSite, DeleteSite, EditSite
<1> QED
  BY <1>4, <1>5, <1>6, <1>7

\* LoginKept of the Sites that were created once, whatever becomes of the others.
FirstLoginKept ==
    [][ \A s \in Sites :
            births[s] = 1 /\ LoggedIn(s) /\ pod'[s] = pod[s]
                /\ spec[s] # Absent /\ spec'[s] # Absent
                /\ ~Shares(s) /\ ~DatabaseShared(s) => LoggedIn(s)' ]_vars

\* As long as its name has not been used before, a Site whose pod can use the database
\* keeps its account and its database: edits of the Site, and whatever is created, moved
\* and deleted under other names, leave them alone, unless another Site asks for the same.
THEOREM FirstLogin == Spec => FirstLoginKept
<1>1. LInv /\ LInv' /\ [Next]_vars =>
        [ \A s \in Sites :
            births[s] = 1 /\ LoggedIn(s) /\ pod'[s] = pod[s]
                /\ spec[s] # Absent /\ spec'[s] # Absent
                /\ ~Shares(s) /\ ~DatabaseShared(s) => LoggedIn(s)' ]_vars
  BY LoginStays
<1> QED
  BY <1>1, InitNames, NextNames, PTL DEF Spec, FirstLoginKept

\* So when no name is used twice, every Site that shares neither account nor database
\* keeps them.
THEOREM LoginsKept == ASSUME MaxBirths = 1 PROVE Spec => LoginKept
<1>1. ASSUME LInv, NEW s \in Sites, LoggedIn(s) PROVE births[s] = 1
  BY <1>1 DEF LInv, TInv, TypeOK, Uids, LoggedIn
<1>2. LInv /\ LInv' /\ [Next]_vars =>
        [ \A s \in Sites :
            LoggedIn(s) /\ pod'[s] = pod[s] /\ spec[s] # Absent /\ spec'[s] # Absent
                /\ ~Shares(s) /\ ~DatabaseShared(s) => LoggedIn(s)' ]_vars
  BY <1>1, LoginStays
<1> QED
  BY <1>2, InitNames, NextNames, PTL DEF Spec, LoginKept

=============================================================================
