---------------------- MODULE SiteReconcilerOrderProofs ----------------------
(***************************************************************************)
(* What the order of the steps of a pass gives, when there is one operator:*)
(* the keys are there before the pod that needs them, and the pod has let  *)
(* go of the claim before it is deleted.  Neither holds of two operators,  *)
(* one of which may still work for a Site that was deleted.                *)
(***************************************************************************)
EXTENDS SiteReconcilerProofs, SiteSpecProofs

\* --leader-elect, or a Deployment of the operator that never overlaps itself.
OneOperator == \A o, p \in Operators : o = p

\* Nobody takes a generated key away by hand.
SecretSpared == "Secret" \in Tampered => Disturbances \cap { "delete", "drift" } = {}

\* The step of kind j comes before the step of kind k.
Precedes(j, k) ==
    \A i \in 1..Len(Steps) : Steps[i] = k => \E h \in 1..(i - 1) : Steps[h] = j

\* The order of the calls in Reconcile is such an order.
LEMMA ReconcilePrecedes ==
    ASSUME Steps = ReconcileOrder
    PROVE  Precedes("Secret", "Deployment") /\ Precedes("Deployment", "Volume")
<1>1. /\ Len(Steps) = 10 /\ Steps[1] = "Secret" /\ Steps[7] = "Deployment"
      /\ \A i \in 1..10 : (Steps[i] = "Deployment" => i = 7) /\ (Steps[i] = "Volume" => i = 10)
  BY DEF ReconcileOrder
<1> QED
  BY <1>1 DEF Precedes

-----------------------------------------------------------------------------
(* What an operator may still come to know.                                *)

\* Place 0 is the cache of operator o, the places after it what is on its way.
Places(o, k)     == 0..Len(watch[o][k])
Version(o, k, i) == IF i = 0 THEN cache[o][k] ELSE watch[o][k][i]

\* Operator o works for Site u or a later one, and will do so for ever.
KnownUid(o, u) ==
    /\ u \in 1..born
    /\ work[o] # Absent => u <= work[o].uid
    /\ \A i \in Places(o, "Site") :
          Version(o, "Site", i) # Absent => u <= Version(o, "Site", i).uid

\* The Sites come to an operator in the order they were created in.
UidsRise ==
    /\ api["Site"] # Absent => api["Site"].uid = born
    /\ \A o \in Operators :
        /\ work[o] # Absent => KnownUid(o, work[o].uid)
        /\ \A i, j \in Places(o, "Site") :
              i <= j /\ Version(o, "Site", i) # Absent /\ Version(o, "Site", j) # Absent
                  => Version(o, "Site", i).uid <= Version(o, "Site", j).uid
        /\ \A i \in Places(o, "Site") :
              Version(o, "Site", i) # Absent => Version(o, "Site", i).uid <= born

\* Whoever is seen to own a Secret, or owns the Deployment, is a Site the operator
\* has worked for.
OwnersKnown ==
    \A o \in Operators :
        /\ \A i \in Places(o, "Secret") :
              OwnedBySite(Version(o, "Secret", i)) => KnownUid(o, Version(o, "Secret", i).ctrl)
        /\ OwnedBySite(api["Deployment"]) => KnownUid(o, api["Deployment"].ctrl)

-----------------------------------------------------------------------------
(* What the order of the steps gives.                                      *)

\* The keys K are there, in a Secret the garbage collector leaves alone.
Held(K) ==
    /\ api["Secret"] # Absent
    /\ api["Secret"].ctrl \in Nat => api["Secret"].ctrl = LiveUid
    /\ \A key \in K : LiveKeys[key] # Unset

KeysOf(secret) == { key \in SecretKeys : secret.data[key] # Unset }

\* A Secret of the live Site that an operator sees, however stale, still holds
\* at the API server.
SecretSeen ==
    \A o \in Operators : \A i \in Places(o, "Secret") :
        Version(o, "Secret", i) # Absent /\ Version(o, "Secret", i).ctrl = LiveUid
            => Held(KeysOf(Version(o, "Secret", i)))

\* SecretBeforePod, of keys that stay.
PodServed ==
    Managed("Deployment") /\ api["Deployment"].data # Edited
        => Held(api["Deployment"].data.refs)

\* The pass of o has gone through the step of kind k, and goes on.
Past(o, k) == pos[o] \in 1..Len(Steps) /\ \E j \in 1..(pos[o] - 1) : Steps[j] = k

SecretDone ==
    \A o \in Operators :
        Past(o, "Secret") /\ work[o].uid = LiveUid => Held(GeneratedKeys(work[o].spec))

\* After the Deployment step there is no Deployment but the one asked for.
PodAsAsked ==
    \A o \in Operators :
        Past(o, "Deployment") =>
            \/ api["Deployment"] = Absent
            \/ api["Deployment"].data \in { Edited, DesiredData("Deployment", work[o].spec) }

-----------------------------------------------------------------------------
(* The steps of the system by what they move.                              *)

Quiet        == UNCHANGED << api, cache, watch, pos, work, born >>
Called(o, k) == Call(o, k) /\ (Advance(o) \/ Abandon(o, "error"))
Skipped(o, k) == NoChange(o, k) \/ Leave(o, k)
GaveUp(o)    == /\ \E k \in ChildKinds, e \in { "error", "panic" } : At(o, k) /\ Abandon(o, e)
                /\ UNCHANGED << api, watch >>
Ended(o)     == /\ pos' = [ pos EXCEPT ![o] = 0 ]
                /\ work' = [ work EXCEPT ![o] = Absent ]
                /\ UNCHANGED << api, watch, cache, born >>

OperatorMoves(o) ==
    \/ \E k \in CachedKinds : Deliver(o, k)
    \/ Start(o)
    \/ \E k \in ChildKinds : Called(o, k) \/ Skipped(o, k)
    \/ GaveUp(o) \/ StatusWrite(o) \/ Ended(o) \/ Crash(o)

\* Every step moves one operator, or is somebody else's, or is of no interest here.
LEMMA Moves ==
    ASSUME [Next]_vars
    PROVE  \/ Quiet
           \/ \E o \in Operators : OperatorMoves(o)
           \/ ClusterStep \/ SiteUserStep \/ TamperStep
<1>1. ASSUME NEW o \in Operators, NEW k \in ChildKinds, Step(o, k)
      PROVE  OperatorMoves(o)
  <2>1. Done(o, k) => Called(o, k)
    BY DEF Done, Called
  <2>2. ASSUME NEW e \in { "error", "panic" }, At(o, k), Abandon(o, e), UNCHANGED << api, watch >>
        PROVE  GaveUp(o)
    BY <2>2 DEF GaveUp
  <2>3. AlreadyExists(o, k) \/ OwnedByOther(o, k) \/ Refuse(o, k) => GaveUp(o)
    BY <2>2 DEF AlreadyExists, OwnedByOther, Refuse, Fail, SendsCreate, Writes
  <2>4. ASSUME NEW t \in Tokens, Conflict(o, k, t) PROVE GaveUp(o)
    BY <2>2, <2>4 DEF Conflict, Fail, SendsUpdate, Writes
  <2>5. Panic(o, k) => GaveUp(o)
    BY <2>2 DEF Panic
  <2> QED
    BY <1>1, <2>1, <2>3, <2>4, <2>5 DEF Step, OperatorMoves, Skipped
<1>2. ASSUME NEW o \in Operators, OperatorStep(o)
      PROVE  Quiet \/ OperatorMoves(o)
  <2>1. StatusMissing(o) \/ StatusConflict(o) => Ended(o)
    BY DEF StatusMissing, StatusConflict, Finish, Ended
  <2>2. StartMissing(o) => Quiet
    BY DEF StartMissing, Quiet
  <2> QED
    BY <1>1, <1>2, <2>1, <2>2 DEF OperatorStep, OperatorMoves
<1>3. ASSUME NEW o \in Operators, NEW k \in ChildKinds, LostCall(o, k) \/ LostReply(o, k)
      PROVE  OperatorMoves(o)
  <2>1. LostReply(o, k) => Called(o, k)
    BY DEF LostReply, Called
  <2>2. LostCall(o, k) => GaveUp(o)
    BY DEF LostCall, GaveUp, SendsCreate, SendsUpdate, SendsDelete, Writes
  <2> QED
    BY <1>3, <2>1, <2>2 DEF OperatorMoves
<1>4. CASE FaultStep
  <2>1. ASSUME NEW o \in Operators, LostStatus(o) PROVE Ended(o)
    BY <2>1 DEF LostStatus, Ended
  <2>2. ASSUME NEW o \in Operators, Resync(o) PROVE Quiet
    BY <2>2 DEF Resync, Quiet
  <2> QED
    BY <1>3, <1>4, <2>1, <2>2 DEF FaultStep, OperatorMoves
<1>5. UNCHANGED vars => Quiet
  BY DEF vars, Quiet
<1> QED
  BY <1>2, <1>4, <1>5 DEF Next, OperatorMoves
-----------------------------------------------------------------------------
(* How the views move.                                                     *)

\* A published version is live, and the last one on its way; nothing else moves.
LEMMA Published ==
    ASSUME IInv, NEW k \in Kinds, NEW v, Publish(k, v)
    PROVE  /\ api'[k] = v
           /\ \A j \in Kinds : j # k => api'[j] = api[j]
  BY DEF Publish, IInv, TypeOK, ApiTypeOK

\* A version that was not there before, seen from any place, is the live one;
\* the others have moved d places nearer.
Shifts(o, k, d) ==
    \A i \in Places(o, k)' :
        IF i + d \in Places(o, k) THEN Version(o, k, i)' = Version(o, k, i + d)
                                  ELSE Version(o, k, i)' = api'[k]

\* A published version joins the end of the way, for whoever watches the kind.
LEMMA PublishShifts ==
    ASSUME IInv, NEW o \in Operators, NEW k \in CachedKinds,
           NEW j \in Kinds, NEW v, Publish(j, v), UNCHANGED cache
    PROVE  Shifts(o, k, 0)
<1> DEFINE w == watch[o][k]
<1>1. w \in Seq(Versions(k)) /\ Len(w) \in Nat
  BY LenProperties DEF IInv, TypeOK, ViewTypeOK
<1>2. CASE watch'[o][k] = w
  BY <1>1, <1>2 DEF Shifts, Places, Version
<1>3. CASE watch'[o][k] # w
  <2>1. j = k /\ watch' = [ p \in Operators |-> [ watch[p] EXCEPT ![j] = Append(@, v) ] ]
    BY <1>3 DEF Publish, IInv, TypeOK, ViewTypeOK
  <2>2. watch'[o][k] = Append(w, v)
    BY <2>1 DEF IInv, TypeOK, ViewTypeOK
  <2>3. api'[k] = v
    BY <2>1, Published
  <2>4. Len(watch'[o][k]) = Len(w) + 1 /\ watch'[o][k][Len(w) + 1] = v
    BY <1>1, <2>2
  <2>5. \A i \in 1..Len(w) : watch'[o][k][i] = w[i]
    BY <1>1, <2>2
  <2>6. cache'[o][k] = cache[o][k]
    OBVIOUS
  <2> HIDE DEF w
  <2>7. ASSUME NEW i \in 0..(Len(w) + 1)
        PROVE  IF i \in 0..Len(w) THEN Version(o, k, i)' = IF i = 0 THEN cache[o][k] ELSE w[i]
                                  ELSE Version(o, k, i)' = v
    BY <1>1, <2>4, <2>5, <2>6 DEF Version
  <2> QED
    BY <1>1, <2>3, <2>4, <2>7 DEF Shifts, Places, Version, w
<1> QED
  BY <1>2, <1>3

\* Whatever happens, a view moves along its way: an event is delivered, a process
\* starts again from the live version, or a new version is appended.
LEMMA ViewsShift ==
    ASSUME IInv, [Next]_vars, NEW o \in Operators, NEW k \in CachedKinds
    PROVE  \E d \in Nat : Shifts(o, k, d)
<1>1. Len(watch[o][k]) \in Nat /\ watch[o][k] \in Seq(Versions(k)) /\ k \in Kinds
  BY LenProperties, KindFacts DEF IInv, TypeOK, ViewTypeOK
<1>2. ASSUME cache'[o][k] = cache[o][k], watch'[o][k] = watch[o][k] PROVE Shifts(o, k, 0)
  BY <1>1, <1>2 DEF Shifts, Places, Version
<1>3. ASSUME NEW j \in Kinds, NEW v, Publish(j, v), UNCHANGED cache
      PROVE  Shifts(o, k, 0)
  BY <1>3, PublishShifts
<1>4. ASSUME NEW p \in Operators, NEW j \in CachedKinds, Deliver(p, j)
      PROVE  \E d \in Nat : Shifts(o, k, d)
  <2>1. CASE p = o /\ j = k
    <3> DEFINE w == watch[o][k]
    <3>1. /\ w # << >>
          /\ cache'[o][k] = Head(w) /\ watch'[o][k] = Tail(w)
      BY <1>4, <2>1 DEF Deliver, IInv, TypeOK, ViewTypeOK
    <3>2. /\ Head(w) = w[1] /\ Len(Tail(w)) = Len(w) - 1 /\ Len(w) # 0
          /\ \A i \in 1..(Len(w) - 1) : Tail(w)[i] = w[i + 1]
      BY <1>1, <3>1, HeadTailProperties, EmptySeq
    <3> HIDE DEF w
    <3>3. ASSUME NEW i \in 0..(Len(w) - 1)
          PROVE  Version(o, k, i)' = w[i + 1] /\ i + 1 \in 1..Len(w)
      BY <1>1, <3>1, <3>2 DEF Version, w
    <3>4. Shifts(o, k, 1)
      BY <1>1, <3>1, <3>2, <3>3 DEF Shifts, Places, Version, w
    <3> QED
      BY <3>4
  <2>2. CASE ~(p = o /\ j = k)
    BY <1>2, <1>4, <2>2 DEF Deliver, IInv, TypeOK, ViewTypeOK
  <2> QED
    BY <2>1, <2>2
<1>5. ASSUME NEW p \in Operators, Crash(p)
      PROVE  \E d \in Nat : Shifts(o, k, d)
  <2>1. CASE p = o
    <3>1. cache'[o][k] = api[k] /\ watch'[o][k] = << >> /\ api' = api
      BY <1>5, <2>1 DEF Crash, IInv, TypeOK, ViewTypeOK
    <3>2. Version(o, k, Len(watch[o][k])) = api[k]
      BY <1>1 DEF Version, IInv, Coherent, Latest
    <3>3. Places(o, k)' = {0}
      BY <3>1 DEF Places
    <3>4. Shifts(o, k, Len(watch[o][k]))
      BY <1>1, <3>1, <3>2, <3>3 DEF Shifts, Version
    <3> QED
      BY <1>1, <3>4
  <2>2. CASE p # o
    BY <1>2, <1>5, <2>2 DEF Crash, IInv, TypeOK, ViewTypeOK
  <2> QED
    BY <2>1, <2>2
<1>6. Quiet => Shifts(o, k, 0)
  BY <1>2 DEF Quiet
<1>7. ASSUME NEW p \in Operators, OperatorMoves(p)
      PROVE  \E d \in Nat : Shifts(o, k, d)
  <2>1. Start(p) \/ GaveUp(p) \/ Ended(p) => Shifts(o, k, 0)
    BY <1>2 DEF Start, GaveUp, Ended, Abandon
  <2>2. StatusWrite(p) => Shifts(o, k, 0)
    BY <1>3, KindFacts DEF StatusWrite, Finish
  <2>3. ASSUME NEW c \in ChildKinds, Called(p, c) PROVE Shifts(o, k, 0)
    BY <1>3, <2>3, KindFacts
       DEF Called, Call, Create, Update, DeleteOwned, Advance, Abandon
  <2>4. ASSUME NEW c \in ChildKinds, Skipped(p, c) PROVE Shifts(o, k, 0)
    BY <1>2, <2>4 DEF Skipped, NoChange, Leave, Advance
  <2> QED
    BY <1>4, <1>5, <1>7, <2>1, <2>2, <2>3, <2>4 DEF OperatorMoves
<1>8. ClusterStep => Shifts(o, k, 0)
  BY <1>3, KindFacts DEF ClusterStep, Collect, Rollout, VolumeReleased, Others
<1>9. SiteUserStep => Shifts(o, k, 0)
  BY <1>3, KindFacts DEF SiteUserStep, DeleteSite, EditSpec, CreateSite, Others
<1>10. TamperStep => Shifts(o, k, 0)
  BY <1>3, KindFacts, TamperAssumption
     DEF TamperStep, DeleteChild, Drift, Occupy, Recount, Reown, Others
<1> QED
  BY <1>6, <1>7, <1>8, <1>9, <1>10, Moves

-----------------------------------------------------------------------------
(* How Sites come and go.                                                  *)

\* An operator works on, or is done with a Site, or takes up the one in its cache.
LEMMA WorkMoves ==
    ASSUME IInv, [Next]_vars, NEW o \in Operators
    PROVE  \/ work'[o] = work[o]
           \/ work'[o] = Absent
           \/ work[o] = Absent /\ work'[o] = cache[o]["Site"]
<1>1. DOMAIN work = Operators /\ (pos[o] = 0 => work[o] = Absent)
  BY DEF IInv, TypeOK, WorkerTypeOK
<1>2. ASSUME NEW p \in Operators, OperatorMoves(p)
      PROVE  \/ work'[o] = work[o]
             \/ work'[o] = Absent
             \/ work[o] = Absent /\ work'[o] = cache[o]["Site"]
  <2>1. CASE Start(p)
    BY <1>1, <2>1 DEF Start, Idle
  <2>2. CASE StatusWrite(p) \/ Ended(p) \/ Crash(p)
    BY <1>1, <2>2 DEF StatusWrite, Finish, Ended, Crash
  <2>3. CASE GaveUp(p)
    BY <2>3 DEF GaveUp, Abandon
  <2>4. ASSUME NEW k \in ChildKinds, Called(p, k) \/ Skipped(p, k) PROVE work' = work
    BY <2>4 DEF Called, Skipped, NoChange, Leave, Advance, Abandon
  <2>5. ASSUME NEW k \in CachedKinds, Deliver(p, k) PROVE work' = work
    BY <2>5 DEF Deliver
  <2> QED
    BY <1>2, <2>1, <2>2, <2>3, <2>4, <2>5 DEF OperatorMoves
<1>3. ClusterStep \/ SiteUserStep \/ TamperStep => work' = work
  BY DEF ClusterStep, Collect, Rollout, VolumeReleased, SiteUserStep, DeleteSite, EditSpec,
         CreateSite, TamperStep, DeleteChild, Drift, Occupy, Recount, Reown, Others
<1> QED
  BY <1>2, <1>3, Moves DEF Quiet

SiteStays == /\ born' = born
             /\ api'["Site"] # Absent => /\ api["Site"] # Absent
                                         /\ api'["Site"].uid = api["Site"].uid
SiteBorn  == /\ born' = born + 1
             /\ api["Site"] = Absent
             /\ api'["Site"] # Absent => api'["Site"].uid = born + 1

\* The live Site stays the same Site or goes, or there was none and the next is born.
LEMMA SiteMoves ==
    ASSUME IInv, [Next]_vars
    PROVE  SiteStays \/ SiteBorn
<1> USE KindFacts
<1>1. ASSUME NEW k \in ChildKinds, NEW v, Publish(k, v), born' = born PROVE SiteStays
  BY <1>1, Published DEF SiteStays
<1>2. ASSUME NEW v, Publish("Site", v) PROVE api'["Site"] = v
  BY <1>2, Published
<1>3. api' = api /\ born' = born => SiteStays
  BY DEF SiteStays
<1>4. api["Site"] # Absent => api["Site"] \in Sites
  BY DEF IInv, TypeOK, ApiTypeOK, Versions, Objects
<1>5. ASSUME NEW o \in Operators, OperatorMoves(o) PROVE SiteStays
  <2>1. CASE StatusWrite(o)
    <3>1. cache[o]["Site"] = api["Site"] /\ api["Site"] # Absent /\ born' = born
      BY <2>1, SeenFacts DEF StatusWrite, Seen, Finish, IInv, TypeOK
    <3> QED
      BY <1>2, <1>4, <2>1, <3>1 DEF StatusWrite, WithConditions, SiteStays, Sites
  <2>2. ASSUME NEW k \in ChildKinds, Called(o, k) PROVE SiteStays
    BY <1>1, <2>2 DEF Called, Call, Create, Update, DeleteOwned, Advance, Abandon
  <2>3. ASSUME NEW k \in ChildKinds, Skipped(o, k) PROVE SiteStays
    BY <1>3, <2>3 DEF Skipped, NoChange, Leave, Advance
  <2>4. Start(o) \/ GaveUp(o) \/ Ended(o) \/ Crash(o) => SiteStays
    BY <1>3 DEF Start, GaveUp, Abandon, Ended, Crash
  <2> QED
    BY <1>3, <1>5, <2>1, <2>2, <2>3, <2>4 DEF OperatorMoves, Deliver
<1>6. ClusterStep => SiteStays
  BY <1>1 DEF ClusterStep, Collect, Rollout, VolumeReleased
<1>7. TamperStep => SiteStays
  BY <1>1, TamperAssumption DEF TamperStep, DeleteChild, Drift, Occupy, Recount, Reown
<1>8. CASE SiteUserStep
  <2>1. CASE DeleteSite
    BY <1>2, <2>1 DEF DeleteSite, SiteStays
  <2>2. ASSUME NEW s \in Specs, EditSpec(s) PROVE SiteStays
    BY <1>2, <1>4, <2>2 DEF EditSpec, SiteStays, Sites
  <2>3. ASSUME NEW s \in Specs, CreateSite(s) PROVE SiteBorn
    BY <1>2, <2>3 DEF CreateSite, SiteBorn, NewSite
  <2> QED
    BY <1>8, <2>1, <2>2, <2>3 DEF SiteUserStep
<1>9. Quiet => SiteStays
  BY <1>3 DEF Quiet
<1> QED
  BY <1>5, <1>6, <1>7, <1>8, <1>9, Moves

\* A version an operator may still see is a version, and the live one is among them.
LEMMA VersionType ==
    ASSUME IInv, NEW o \in Operators, NEW k \in CachedKinds, NEW i \in Places(o, k)
    PROVE  Version(o, k, i) \in Versions(k)
<1>1. watch[o][k] \in Seq(Versions(k)) /\ cache[o][k] \in Versions(k)
  BY DEF IInv, TypeOK, ViewTypeOK
<1>2. i # 0 => i \in 1..Len(watch[o][k])
  BY <1>1, LenProperties DEF Places
<1>3. i # 0 => watch[o][k][i] \in Versions(k)
  BY <1>1, <1>2, ElementOfSeq
<1> QED
  BY <1>1, <1>3 DEF Version

\* Site u once known is known for ever.
LEMMA KnownStays ==
    ASSUME IInv, IInv', [Next]_vars, UidsRise, NEW o \in Operators, NEW u, KnownUid(o, u)
    PROVE  KnownUid(o, u)'
<1> USE KindFacts
<1>1. u \in 1..born' /\ u \in Nat /\ born \in Nat
  BY SiteMoves DEF KnownUid, SiteStays, SiteBorn, IInv, TypeOK
<1>2. 0 \in Places(o, "Site") /\ Version(o, "Site", 0) = cache[o]["Site"]
  BY LenProperties DEF Places, Version, IInv, TypeOK, ViewTypeOK
<1>3. work'[o] # Absent => u <= work'[o].uid
  BY <1>2, WorkMoves DEF KnownUid
<1>4. api'["Site"] # Absent => u <= api'["Site"].uid
  BY <1>1, SiteMoves DEF KnownUid, UidsRise, SiteStays, SiteBorn
<1>5. ASSUME NEW i \in Places(o, "Site")', Version(o, "Site", i)' # Absent
      PROVE  u <= Version(o, "Site", i)'.uid
  <2>1. PICK d \in Nat : Shifts(o, "Site", d)
    BY ViewsShift
  <2> QED
    BY <1>4, <1>5, <2>1 DEF Shifts, KnownUid
<1> QED
  BY <1>1, <1>3, <1>5 DEF KnownUid

\* Sites keep coming in the order of their uids.
LEMMA UidsKeep ==
    ASSUME IInv, IInv', [Next]_vars, UidsRise
    PROVE  UidsRise'
<1> USE KindFacts
<1>1. born \in Nat /\ born' \in Nat /\ (born' = born \/ born' = born + 1)
  BY SiteMoves DEF SiteStays, SiteBorn, IInv, TypeOK
<1>2. api'["Site"] # Absent => api'["Site"].uid = born'
  BY SiteMoves DEF UidsRise, SiteStays, SiteBorn
<1>3. ASSUME NEW o \in Operators, NEW k \in CachedKinds, NEW i \in Places(o, k)'
      PROVE  i \in Nat
  BY <1>3 DEF Places
<1>4. ASSUME NEW o \in Operators, NEW i \in Places(o, "Site"),
             Version(o, "Site", i) # Absent
      PROVE  Version(o, "Site", i).uid \in Nat \ {0} /\ Version(o, "Site", i).uid <= born
  BY <1>4, VersionType DEF Versions, Objects, Sites, UidsRise
<1>5. ASSUME NEW o \in Operators, NEW i \in Places(o, "Site")',
             Version(o, "Site", i)' # Absent
      PROVE  Version(o, "Site", i)'.uid <= born'
  <2>1. PICK d \in Nat : Shifts(o, "Site", d)
    BY ViewsShift
  <2>2. CASE i + d \in Places(o, "Site")
    <3>1. Version(o, "Site", i)' = Version(o, "Site", i + d)
      BY <2>1, <2>2 DEF Shifts
    <3>2. Version(o, "Site", i + d).uid \in Nat /\ Version(o, "Site", i + d).uid <= born
      BY <1>4, <1>5, <2>2, <3>1
    <3> QED
      BY <1>1, <3>1, <3>2
  <2>3. CASE i + d \notin Places(o, "Site")
    BY <1>1, <1>2, <1>5, <2>1, <2>3 DEF Shifts
  <2> QED
    BY <2>2, <2>3
<1>6. ASSUME NEW o \in Operators, NEW i \in Places(o, "Site")', NEW j \in Places(o, "Site")',
             i <= j, Version(o, "Site", i)' # Absent, Version(o, "Site", j)' # Absent
      PROVE  Version(o, "Site", i)'.uid <= Version(o, "Site", j)'.uid
  <2>1. PICK d \in Nat : Shifts(o, "Site", d)
    BY ViewsShift
  <2>2. CASE j + d \in Places(o, "Site")
    <3>1. i + d \in Places(o, "Site") /\ i + d <= j + d
      BY <1>3, <1>6, <2>2 DEF Places
    <3>2. /\ Version(o, "Site", i)' = Version(o, "Site", i + d)
          /\ Version(o, "Site", j)' = Version(o, "Site", j + d)
      BY <2>1, <2>2, <3>1 DEF Shifts
    <3> QED
      BY <1>6, <2>2, <3>1, <3>2 DEF UidsRise
  <2>3. CASE j + d \notin Places(o, "Site")
    <3>1. Version(o, "Site", j)' = api'["Site"]
      BY <2>1, <2>3 DEF Shifts
    <3> QED
      BY <1>2, <1>5, <1>6, <3>1
  <2> QED
    BY <2>2, <2>3
<1>7. ASSUME NEW o \in Operators, work'[o] # Absent
      PROVE  KnownUid(o, work[o].uid)'
  <2>1. CASE work'[o] = work[o]
    BY <1>7, <2>1, KnownStays DEF UidsRise
  <2>2. CASE work[o] = Absent /\ work'[o] = cache[o]["Site"]
    <3>1. 0 \in Places(o, "Site") /\ Version(o, "Site", 0) = cache[o]["Site"]
      BY LenProperties DEF Places, Version, IInv, TypeOK, ViewTypeOK
    <3>2. \A i \in Places(o, "Site") : 0 <= i
      BY DEF Places
    <3>3. cache[o]["Site"].uid \in 1..born
      BY <1>1, <1>4, <1>7, <2>2, <3>1
    <3>4. KnownUid(o, cache[o]["Site"].uid)
      BY <1>7, <2>2, <3>1, <3>2, <3>3 DEF KnownUid, UidsRise
    <3> QED
      BY <2>2, <3>4, KnownStays
  <2> QED
    BY <1>7, <2>1, <2>2, WorkMoves
<1> QED
  BY <1>2, <1>5, <1>6, <1>7 DEF UidsRise

-----------------------------------------------------------------------------
(* How a pass, the Secret and the Deployment move.                         *)

\* A step works on a Site.
LEMMA AtStep ==
    ASSUME IInv, NEW o \in Operators, NEW k, At(o, k)
    PROVE  work[o] \in Sites /\ work[o] # Absent /\ pos[o] \in 1..Len(Steps)
<1>1. work[o] \in Sites /\ pos[o] \in 1..Len(Steps)
  BY WorkIsSite, StatusPosType DEF At, IInv, TypeOK
<1> QED
  BY <1>1, KindFacts, AbsentAssumption DEF Objects

\* A pass that is past a step was already, or has just gone through it.
LEMMA PassMoves ==
    ASSUME IInv, [Next]_vars, NEW o \in Operators, NEW k, Past(o, k)'
    PROVE  /\ work'[o] = work[o] /\ work[o] \in Sites
           /\ Past(o, k) \/ (k \in ChildKinds /\ At(o, k) /\ (Called(o, k) \/ Skipped(o, k)))
<1>1. /\ DOMAIN pos = Operators /\ pos[o] \in 0..StatusPos
      /\ DOMAIN work = Operators /\ (pos[o] # 0 => work[o] \in Sites)
  BY DEF IInv, TypeOK, WorkerTypeOK
<1>2. pos'[o] \in 1..Len(Steps) /\ \E j \in 1..(pos'[o] - 1) : Steps[j] = k
  BY DEF Past
<1>3. Len(Steps) \in Nat /\ StatusPos = Len(Steps) + 1
  BY StatusPosType
<1>4. pos'[o] = pos[o] => Past(o, k) /\ work[o] \in Sites
  BY <1>1, <1>2, <1>3 DEF Past
<1>5. ASSUME NEW c \in ChildKinds, At(o, c), Advance(o), Called(o, c) \/ Skipped(o, c)
      PROVE  /\ work'[o] = work[o] /\ work[o] \in Sites
             /\ Past(o, k) \/ (k \in ChildKinds /\ At(o, k) /\ (Called(o, k) \/ Skipped(o, k)))
  <2>1. pos'[o] = pos[o] + 1 /\ work' = work /\ work[o] \in Sites
    BY <1>1, <1>5, AtStep DEF Advance
  <2>2. pos[o] \in 1..Len(Steps) /\ Steps[pos[o]] = c
    BY <1>5 DEF At
  <2>3. PICK j \in 1..pos[o] : Steps[j] = k
    BY <1>2, <2>1, <2>2
  <2>4. CASE j = pos[o]
    BY <1>5, <2>1, <2>2, <2>3, <2>4
  <2>5. CASE j # pos[o]
    BY <2>1, <2>2, <2>3, <2>5 DEF Past
  <2> QED
    BY <2>4, <2>5
<1>6. ASSUME NEW p \in Operators, OperatorMoves(p), p # o
      PROVE  pos'[o] = pos[o] /\ work'[o] = work[o]
  <2>1. ASSUME NEW c \in ChildKinds, Called(p, c) \/ Skipped(p, c)
        PROVE  pos'[o] = pos[o] /\ work'[o] = work[o]
    BY <1>1, <1>6, <2>1 DEF Called, Skipped, NoChange, Leave, Advance, Abandon
  <2>2. Start(p) \/ StatusWrite(p) \/ Ended(p) \/ Crash(p) =>
            pos'[o] = pos[o] /\ work'[o] = work[o]
    BY <1>1, <1>6 DEF Start, StatusWrite, Finish, Ended, Crash
  <2>3. GaveUp(p) => pos'[o] = pos[o] /\ work'[o] = work[o]
    BY <1>1, <1>6 DEF GaveUp, Abandon
  <2> QED
    BY <1>6, <2>1, <2>2, <2>3 DEF OperatorMoves, Deliver
<1>7. CASE OperatorMoves(o)
  <2>1. Start(o) => pos'[o] = 1
    BY <1>1 DEF Start
  <2>2. StatusWrite(o) \/ Ended(o) \/ Crash(o) => pos'[o] = 0
    BY <1>1 DEF StatusWrite, Finish, Ended, Crash
  <2>3. ASSUME NEW e, Abandon(o, e) PROVE pos'[o] = StatusPos
    BY <1>1, <2>3 DEF Abandon
  <2>4. GaveUp(o) => pos'[o] = StatusPos
    BY <2>3 DEF GaveUp
  <2>5. ASSUME NEW c \in ChildKinds, Called(o, c) \/ Skipped(o, c)
        PROVE  At(o, c) /\ (Advance(o) \/ Abandon(o, "error"))
    BY <2>5 DEF Called, Skipped, Call, Create, Update, DeleteOwned, SendsCreate, SendsUpdate,
                SendsDelete, NoChange, Leave, Writes
  <2>6. ASSUME NEW c \in CachedKinds, Deliver(o, c)
        PROVE  pos'[o] = pos[o] /\ work'[o] = work[o]
    BY <2>6 DEF Deliver
  <2> QED
    BY <1>2, <1>3, <1>4, <1>5, <1>7, <2>1, <2>2, <2>3, <2>4, <2>5, <2>6 DEF OperatorMoves
<1>8. Quiet \/ ClusterStep \/ SiteUserStep \/ TamperStep
          => pos'[o] = pos[o] /\ work'[o] = work[o]
  BY DEF Quiet, ClusterStep, Collect, Rollout, VolumeReleased, SiteUserStep, DeleteSite,
         EditSpec, CreateSite, TamperStep, DeleteChild, Drift, Occupy, Recount, Reown, Others
<1> QED
  BY <1>4, <1>6, <1>7, <1>8, Moves

\* The ways the Secret changes.
SecretLeft       == api'["Secret"] = api["Secret"]
SecretWritten(o) ==
    /\ At(o, "Secret") /\ api'["Secret"] # Absent /\ api'["Secret"].ctrl = work[o].uid
    /\ api' = [ api EXCEPT !["Secret"] = api'["Secret"] ] /\ born' = born
    /\ \A key \in SecretKeys : LiveKeys[key] # Unset => LiveKeys'[key] # Unset
    /\ \A key \in GeneratedKeys(work[o].spec) : LiveKeys'[key] # Unset
SecretCollected  == /\ OwnedBySite(api["Secret"]) /\ api["Secret"].ctrl # LiveUid
                    /\ api'["Secret"] = Absent
SecretOccupied   == api["Secret"] = Absent /\ api'["Secret"].ctrl \notin Nat
SecretReowned    == /\ api["Secret"] # Absent /\ api'["Secret"] # Absent
                    /\ api'["Secret"].ctrl \notin Nat
                    /\ api'["Secret"].data = api["Secret"].data

\* What the Secret step writes holds the keys of the pass, and those that were there.
LEMMA SecretWrite ==
    ASSUME IInv, NEW o \in Operators, Call(o, "Secret"), born' = born
    PROVE  SecretWritten(o)
<1> USE KindFacts
<1>1. At(o, "Secret") /\ ~DeleteOwned(o, "Secret")
  BY DEF Call, Create, Update, DeleteOwned, SendsCreate, SendsUpdate, SendsDelete, Writes,
         Withdrawn
<1>2. work[o] \in Sites
  BY <1>1, AtStep
<1>3. ASSUME NEW v, Publish("Secret", v)
      PROVE  api'["Secret"] = v /\ api' = [ api EXCEPT !["Secret"] = api'["Secret"] ]
  <2>1. api' = [ api EXCEPT !["Secret"] = v ]
    BY <1>3 DEF Publish
  <2> QED
    BY <1>3, <2>1, Published
<1>4. ASSUME NEW t \in Tokens, Create(o, "Secret", t) PROVE SecretWritten(o)
  <2> DEFINE v == NewObject("Secret", work[o], t)
  <2>1. Publish("Secret", v) /\ api["Secret"] = Absent
    BY <1>4 DEF Create
  <2>2. v.ctrl = work[o].uid /\ v.data = Completed(NoKeys, work[o].spec, t) /\ v # Absent
    <3>1. v \in Children("Secret")
      <4>1. NoKeys \in Data("Secret")
        BY DEF NoKeys, Data
      <4>2. Mutated("Secret", NoKeys, work[o].spec, t) \in Data("Secret")
        BY <1>2, <4>1, MutatedType DEF Sites
      <4> QED
        BY <1>2, <4>2 DEF NewObject, Children, States, Sites
    <3> QED
      BY <3>1, AbsentAssumption DEF Objects, NewObject, Mutated
  <2>3. api'["Secret"] = v /\ LiveKeys' = v.data /\ LiveKeys = NoKeys
    BY <1>3, <2>1, <2>2 DEF LiveKeys
  <2>4. \A key \in GeneratedKeys(work[o].spec) : LiveKeys'[key] # Unset
    BY <2>2, <2>3, TokensAssumption DEF Completed, NoKeys, GeneratedKeys, SecretKeys
  <2> QED
    BY <1>1, <1>3, <2>1, <2>2, <2>3, <2>4 DEF SecretWritten, NoKeys
<1>5. ASSUME NEW t \in Tokens, Update(o, "Secret", t) PROVE SecretWritten(o)
  <2> DEFINE v == MutatedObject("Secret", api["Secret"], work[o], t)
  <2>1. Seen(o, "Secret") = api["Secret"] /\ api["Secret"] # Absent
    BY <1>5, SeenFacts DEF Update, SendsUpdate, Adoptable, IInv, TypeOK
  <2>2. Publish("Secret", v) /\ api["Secret"] \in Children("Secret")
    BY <1>5, <2>1 DEF Update, IInv, TypeOK, ApiTypeOK, Versions, Objects
  <2>3. v.ctrl = work[o].uid /\ v.data = Completed(api["Secret"].data, work[o].spec, t)
    BY DEF MutatedObject, Mutated
  <2>4. v # Absent
    BY <1>2, <2>2, MutatedObjectType, AbsentAssumption DEF Objects
  <2>5. api'["Secret"] = v /\ LiveKeys' = v.data /\ LiveKeys = api["Secret"].data
    BY <1>3, <2>1, <2>2, <2>4 DEF LiveKeys
  <2> HIDE DEF v
  <2>6. \A key \in SecretKeys :
            LiveKeys[key] # Unset \/ key \in GeneratedKeys(work[o].spec)
                => LiveKeys'[key] # Unset
    BY <2>3, <2>5, TokensAssumption DEF Completed
  <2>7. GeneratedKeys(work[o].spec) \subseteq SecretKeys
    BY DEF GeneratedKeys, SecretKeys
  <2> QED
    BY <1>1, <1>3, <2>2, <2>3, <2>4, <2>5, <2>6, <2>7 DEF SecretWritten
<1> QED
  BY <1>1, <1>4, <1>5 DEF Call

\* Nothing else writes into the Secret, or takes it away, when users spare it.
LEMMA SecretMoves ==
    ASSUME IInv, [Next]_vars, SecretSpared
    PROVE  \/ SecretLeft \/ \E o \in Operators : SecretWritten(o)
           \/ SecretCollected \/ SecretOccupied \/ SecretReowned
<1> USE KindFacts
<1>1. ASSUME NEW k \in Kinds, NEW v, Publish(k, v), k # "Secret" PROVE SecretLeft
  BY <1>1, Published DEF SecretLeft
<1>2. UNCHANGED api => SecretLeft
  BY DEF SecretLeft
<1>3. ASSUME NEW o \in Operators, OperatorMoves(o)
      PROVE  SecretLeft \/ SecretWritten(o)
  <2>1. ASSUME NEW k \in ChildKinds, Called(o, k) PROVE SecretLeft \/ SecretWritten(o)
    <3>1. CASE k = "Secret"
      BY <2>1, <3>1, SecretWrite DEF Called, Advance, Abandon
    <3>2. CASE k # "Secret"
      BY <1>1, <2>1, <3>2 DEF Called, Call, Create, Update, DeleteOwned
    <3> QED
      BY <3>1, <3>2
  <2>2. StatusWrite(o) => SecretLeft
    BY <1>1 DEF StatusWrite
  <2>3. ASSUME NEW k \in ChildKinds, Skipped(o, k) PROVE SecretLeft
    BY <1>2, <2>3 DEF Skipped, NoChange, Leave
  <2> QED
    BY <1>2, <1>3, <2>1, <2>2, <2>3 DEF OperatorMoves, Deliver, Start, GaveUp, Ended, Crash
<1>4. ClusterStep => SecretLeft \/ SecretCollected
  <2>1. ASSUME NEW k \in ChildKinds, Collect(k) PROVE SecretLeft \/ SecretCollected
    BY <1>1, <2>1, Published DEF Collect, Deleted, SecretCollected
  <2> QED
    BY <1>1, <2>1 DEF ClusterStep, Rollout, VolumeReleased
<1>5. SiteUserStep => SecretLeft
  BY <1>1 DEF SiteUserStep, DeleteSite, EditSpec, CreateSite
<1>6. ASSUME NEW k \in Tampered,
             \/ DeleteChild(k) \/ Drift(k) \/ Occupy(k) \/ Recount(k)
             \/ Reown("disown", k, NoOwner) \/ Reown("seize", k, OtherOwner)
      PROVE  SecretLeft \/ SecretOccupied \/ SecretReowned
  <2>1. k \in Kinds
    BY TamperAssumption
  <2>2. CASE k # "Secret"
    BY <1>1, <1>6, <2>1, <2>2 DEF DeleteChild, Drift, Occupy, Recount, Reown
  <2>3. CASE k = "Secret"
    <3>1. ~DeleteChild(k) /\ ~Drift(k) /\ ~Recount(k)
      BY <1>6, <2>3 DEF SecretSpared, DeleteChild, Drift, Recount, Disturb
    <3>2. Occupy(k) => SecretOccupied
      BY <2>3, Published, OwnerAssumption DEF Occupy, SecretOccupied
    <3>3. ASSUME NEW name, NEW owner \in { NoOwner, OtherOwner }, Reown(name, k, owner)
          PROVE  SecretReowned
      <4>1. /\ api["Secret"] \in Children("Secret") /\ api["Secret"] # Absent
            /\ api'["Secret"] = [ api["Secret"] EXCEPT !.ctrl = owner ]
        BY <2>3, <3>3, Published DEF Reown, IInv, TypeOK, ApiTypeOK, Versions, Objects
      <4>2. api'["Secret"] \in Children("Secret")
        BY <4>1 DEF Children
      <4>3. api'["Secret"] # Absent
        BY <4>2, AbsentAssumption DEF Objects
      <4> QED
        BY <4>1, <4>3, OwnerAssumption DEF SecretReowned, Children
    <3> QED
      BY <1>6, <3>1, <3>2, <3>3
  <2> QED
    BY <2>2, <2>3
<1>7. TamperStep => SecretLeft \/ SecretOccupied \/ SecretReowned
  BY <1>6 DEF TamperStep
<1> QED
  BY <1>2, <1>3, <1>4, <1>5, <1>7, Moves DEF Quiet

\* The ways the Deployment changes: nobody but an operator gives it an owner among
\* the Sites or a content of the operator's.
PodWritten(o) ==
    /\ At(o, "Deployment") /\ api'["Deployment"].ctrl = work[o].uid
    /\ api'["Deployment"].data = DesiredData("Deployment", work[o].spec)
    /\ api' = [ api EXCEPT !["Deployment"] = api'["Deployment"] ] /\ born' = born
PodLeft ==
    api'["Deployment"] # Absent =>
        /\ api'["Deployment"].ctrl \in Nat =>
              api["Deployment"] # Absent /\ api'["Deployment"].ctrl = api["Deployment"].ctrl
        /\ api'["Deployment"].data # Edited =>
              api["Deployment"] # Absent /\ api'["Deployment"].data = api["Deployment"].data

\* The Deployment step writes what its pass asks for.
LEMMA PodWrite ==
    ASSUME IInv, NEW o \in Operators, Call(o, "Deployment"), born' = born
    PROVE  PodWritten(o)
<1> USE KindFacts
<1>1. At(o, "Deployment") /\ ~DeleteOwned(o, "Deployment")
  BY DEF Call, Create, Update, DeleteOwned, SendsCreate, SendsUpdate, SendsDelete, Writes,
         Withdrawn
<1>2. ASSUME NEW v, Publish("Deployment", v)
      PROVE  api'["Deployment"] = v /\ api' = [ api EXCEPT !["Deployment"] = api'["Deployment"] ]
  <2>1. api' = [ api EXCEPT !["Deployment"] = v ]
    BY <1>2 DEF Publish
  <2> QED
    BY <1>2, <2>1, Published
<1>3. ASSUME NEW t \in Tokens, Create(o, "Deployment", t) PROVE PodWritten(o)
  <2> DEFINE v == NewObject("Deployment", work[o], t)
  <2>1. Publish("Deployment", v)
    BY <1>3 DEF Create
  <2>2. v.ctrl = work[o].uid /\ v.data = DesiredData("Deployment", work[o].spec)
    BY DEF NewObject, Mutated
  <2> HIDE DEF v
  <2> QED
    BY <1>1, <1>2, <2>1, <2>2 DEF PodWritten
<1>4. ASSUME NEW t \in Tokens, Update(o, "Deployment", t) PROVE PodWritten(o)
  <2> DEFINE v == MutatedObject("Deployment", Seen(o, "Deployment"), work[o], t)
  <2>1. Publish("Deployment", v)
    BY <1>4 DEF Update
  <2>2. v.ctrl = work[o].uid /\ v.data = DesiredData("Deployment", work[o].spec)
    BY DEF MutatedObject, Mutated
  <2> HIDE DEF v
  <2> QED
    BY <1>1, <1>2, <2>1, <2>2 DEF PodWritten
<1> QED
  BY <1>1, <1>3, <1>4 DEF Call

\* Nothing but the Deployment step makes a Deployment of a Site.
LEMMA PodMoves ==
    ASSUME IInv, [Next]_vars
    PROVE  PodLeft \/ \E o \in Operators : PodWritten(o)
<1> USE KindFacts
<1>1. ASSUME NEW k \in Kinds, NEW v, Publish(k, v), k # "Deployment" PROVE PodLeft
  BY <1>1, Published DEF PodLeft
<1>2. UNCHANGED api => PodLeft
  BY DEF PodLeft
<1>3. ASSUME Publish("Deployment", Absent) PROVE PodLeft
  BY <1>3, Published DEF PodLeft
<1>4. api["Deployment"] # Absent => api["Deployment"] \in Children("Deployment")
  BY DEF IInv, TypeOK, ApiTypeOK, Versions, Objects
<1>5. ASSUME NEW o \in Operators, OperatorMoves(o)
      PROVE  PodLeft \/ PodWritten(o)
  <2>1. ASSUME NEW k \in ChildKinds, Called(o, k) PROVE PodLeft \/ PodWritten(o)
    <3>1. CASE k = "Deployment"
      BY <2>1, <3>1, PodWrite DEF Called, Advance, Abandon
    <3>2. CASE k # "Deployment"
      BY <1>1, <2>1, <3>2 DEF Called, Call, Create, Update, DeleteOwned
    <3> QED
      BY <3>1, <3>2
  <2>2. StatusWrite(o) => PodLeft
    BY <1>1 DEF StatusWrite
  <2>3. ASSUME NEW k \in ChildKinds, Skipped(o, k) PROVE PodLeft
    BY <1>2, <2>3 DEF Skipped, NoChange, Leave
  <2> QED
    BY <1>2, <1>5, <2>1, <2>2, <2>3 DEF OperatorMoves, Deliver, Start, GaveUp, Ended, Crash
<1>6. ClusterStep => PodLeft
  <2>1. ASSUME NEW k \in ChildKinds, Collect(k) PROVE PodLeft
    BY <1>1, <1>3, <2>1 DEF Collect, Deleted
  <2>2. ASSUME NEW state \in States("Deployment"), Rollout(state) PROVE PodLeft
    <3>1. api'["Deployment"] = [ api["Deployment"] EXCEPT !.state = state ]
            /\ api["Deployment"] # Absent
      BY <2>2, Published DEF Rollout
    <3> QED
      BY <1>4, <3>1 DEF PodLeft, Children
  <2>3. VolumeReleased => PodLeft
    BY <1>1 DEF VolumeReleased
  <2> QED
    BY <2>1, <2>2, <2>3 DEF ClusterStep
<1>7. SiteUserStep => PodLeft
  BY <1>1 DEF SiteUserStep, DeleteSite, EditSpec, CreateSite
<1>8. ASSUME NEW k \in Tampered,
             \/ DeleteChild(k) \/ Drift(k) \/ Occupy(k) \/ Recount(k)
             \/ Reown("disown", k, NoOwner) \/ Reown("seize", k, OtherOwner)
      PROVE  PodLeft
  <2>1. k \in Kinds
    BY TamperAssumption
  <2>2. CASE k # "Deployment"
    BY <1>1, <1>8, <2>1, <2>2 DEF DeleteChild, Drift, Occupy, Recount, Reown
  <2>3. CASE k = "Deployment"
    <3>1. DeleteChild(k) => PodLeft
      BY <1>3, <2>3 DEF DeleteChild, Deleted
    <3>2. ASSUME Drift(k) PROVE PodLeft
      <4>1. /\ api["Deployment"] # Absent
            /\ api'["Deployment"] = [ api["Deployment"] EXCEPT !.data = Edited ]
        BY <2>3, <3>2, Published DEF Drift
      <4> QED
        BY <1>4, <4>1 DEF PodLeft, Children
    <3>3. ASSUME Occupy(k) PROVE PodLeft
      <4>1. api'["Deployment"].ctrl = OtherOwner /\ api'["Deployment"].data = Edited
        BY <2>3, <3>3, Published DEF Occupy
      <4> QED
        BY <4>1, OwnerAssumption DEF PodLeft
    <3>4. ASSUME NEW name, NEW owner \in { NoOwner, OtherOwner }, Reown(name, k, owner)
          PROVE  PodLeft
      <4>1. /\ api["Deployment"] # Absent
            /\ api'["Deployment"] = [ api["Deployment"] EXCEPT !.ctrl = owner ]
        BY <2>3, <3>4, Published DEF Reown
      <4> QED
        BY <1>4, <4>1, OwnerAssumption DEF PodLeft, Children
    <3>5. ASSUME Recount(k) PROVE PodLeft
      <4>1. /\ api["Deployment"] # Absent
            /\ api'["Deployment"] = [ api["Deployment"] EXCEPT !.state = "rolling" ]
        BY <2>3, <3>5, Published DEF Recount
      <4> QED
        BY <1>4, <4>1 DEF PodLeft, Children
    <3> QED
      BY <1>8, <3>1, <3>2, <3>3, <3>4, <3>5
  <2> QED
    BY <2>2, <2>3
<1>9. TamperStep => PodLeft
  BY <1>8 DEF TamperStep
<1> QED
  BY <1>2, <1>5, <1>6, <1>7, <1>9, Moves DEF Quiet

-----------------------------------------------------------------------------
(* What is known, and what is held, stays so.                              *)

\* The live version is among those an operator may still see.
LEMMA LiveIsSeen ==
    ASSUME IInv, NEW o \in Operators, NEW k \in CachedKinds
    PROVE  \E i \in Places(o, k) : Version(o, k, i) = api[k]
<1>1. Len(watch[o][k]) \in Nat /\ watch[o][k] \in Seq(Versions(k))
  BY LenProperties DEF IInv, TypeOK, ViewTypeOK
<1>2. Version(o, k, Len(watch[o][k])) = api[k]
  BY <1>1 DEF Version, IInv, Coherent, Latest
<1> QED
  BY <1>1, <1>2 DEF Places

\* The owners of the Secret and of the Deployment stay known.
LEMMA OwnersKeep ==
    ASSUME OneOperator, SecretSpared, IInv, IInv', [Next]_vars, UidsRise, OwnersKnown
    PROVE  OwnersKnown'
<1> USE KindFacts
<1>1. ASSUME NEW o \in Operators, NEW p \in Operators, NEW k, At(p, k),
             NEW u, u = work[p].uid
      PROVE  KnownUid(o, u)'
  <2>1. o = p
    BY DEF OneOperator
  <2> QED
    BY <1>1, <2>1, AtStep, KnownStays DEF UidsRise
<1>2. ASSUME NEW o \in Operators, OwnedBySite(api["Secret"]), NEW u, u = api["Secret"].ctrl
      PROVE  KnownUid(o, u)'
  BY <1>2, LiveIsSeen, KnownStays DEF OwnersKnown
<1>3. ASSUME NEW o \in Operators, OwnedBySite(api["Secret"])'
      PROVE  KnownUid(o, api["Secret"].ctrl)'
  <2>1. CASE SecretLeft
    BY <1>2, <1>3, <2>1 DEF SecretLeft, OwnedBySite
  <2>2. ASSUME NEW p \in Operators, SecretWritten(p)
        PROVE  KnownUid(o, api["Secret"].ctrl)'
    BY <1>1, <2>2 DEF SecretWritten
  <2> QED
    BY <1>3, <2>1, <2>2, SecretMoves
       DEF SecretCollected, SecretOccupied, SecretReowned, OwnedBySite
<1>4. ASSUME NEW o \in Operators, NEW i \in Places(o, "Secret")',
             OwnedBySite(Version(o, "Secret", i))'
      PROVE  KnownUid(o, Version(o, "Secret", i).ctrl)'
  <2>1. PICK d \in Nat : Shifts(o, "Secret", d)
    BY ViewsShift
  <2>2. CASE i + d \in Places(o, "Secret")
    <3>1. Version(o, "Secret", i)' = Version(o, "Secret", i + d)
      BY <2>1, <2>2 DEF Shifts
    <3> QED
      BY <1>4, <2>2, <3>1, KnownStays DEF OwnersKnown, OwnedBySite
  <2>3. CASE i + d \notin Places(o, "Secret")
    <3>1. Version(o, "Secret", i)' = api'["Secret"]
      BY <2>1, <2>3 DEF Shifts
    <3> QED
      BY <1>3, <1>4, <3>1 DEF OwnedBySite
  <2> QED
    BY <2>2, <2>3
<1>5. ASSUME NEW o \in Operators, OwnedBySite(api["Deployment"])'
      PROVE  KnownUid(o, api["Deployment"].ctrl)'
  <2>1. CASE PodLeft
    BY <1>5, <2>1, KnownStays DEF PodLeft, OwnersKnown, OwnedBySite
  <2>2. ASSUME NEW p \in Operators, PodWritten(p)
        PROVE  KnownUid(o, api["Deployment"].ctrl)'
    BY <1>1, <2>2 DEF PodWritten
  <2> QED
    BY <2>1, <2>2, PodMoves
<1> QED
  BY <1>4, <1>5 DEF OwnersKnown

\* A Site an operator knows of is not born any more; if it is live, it was.
LEMMA LiveStays ==
    ASSUME IInv, IInv', [Next]_vars, NEW o \in Operators, KnownUid(o, LiveUid')
    PROVE  LiveUid = LiveUid' /\ LiveUid \in Nat
<1>1. born \in Nat /\ LiveUid' \in 1..born
  BY DEF IInv, TypeOK, KnownUid
<1>2. api'["Site"] # Absent /\ LiveUid' = api'["Site"].uid
  BY <1>1 DEF LiveUid
<1> QED
  BY <1>1, <1>2, SiteMoves DEF SiteStays, SiteBorn, LiveUid

\* The only operator works for the live Site, or for one that is gone: when it has
\* worked for the live Site, whatever it writes is the live Site's.  So the Secret
\* stays out of the garbage collector's reach, with the keys it has.
LEMMA HeldStays ==
    ASSUME OneOperator, SecretSpared, IInv, IInv', [Next]_vars, UidsRise,
           NEW o \in Operators, KnownUid(o, LiveUid'),
           NEW K \in SUBSET SecretKeys, Held(K)
    PROVE  Held(K)'
<1> USE KindFacts
<1>1. LiveUid = LiveUid' /\ LiveUid \in Nat
  BY LiveStays
<1>2. CASE SecretLeft
  BY <1>1, <1>2 DEF SecretLeft, Held, LiveKeys
<1>3. ASSUME NEW p \in Operators, SecretWritten(p) PROVE Held(K)'
  <2>1. p = o /\ work[o] # Absent /\ work[o] \in Sites
    BY <1>3, AtStep DEF OneOperator, SecretWritten
  <2>2. work[o].uid \in Nat /\ LiveUid' <= work[o].uid /\ work[o].uid <= born /\ born \in Nat
    BY <2>1 DEF Sites, UidsRise, KnownUid, IInv, TypeOK
  <2>3. LiveUid = born
    BY <1>1 DEF LiveUid, UidsRise, KnownUid
  <2>4. work[o].uid = LiveUid'
    BY <1>1, <2>2, <2>3
  <2> QED
    BY <1>3, <2>1, <2>4 DEF SecretWritten, Held
<1>4. CASE SecretReowned
  BY <1>4 DEF SecretReowned, Held, LiveKeys
<1> QED
  BY <1>2, <1>3, <1>4, SecretMoves DEF SecretCollected, SecretOccupied, Held, OwnedBySite

-----------------------------------------------------------------------------
(* The order of the steps.                                                 *)

\* The keys a pass generates, and so the keys a pod refers to, are keys.
LEMMA KeysAreKeys ==
    ASSUME NEW s \in Specs
    PROVE  /\ GeneratedKeys(s) \in SUBSET SecretKeys
           /\ SiteSecretRefs(s) \subseteq GeneratedKeys(s)
           /\ DesiredData("Deployment", s).refs = SiteSecretRefs(s)
<1>1. GeneratedKeys(s) \in SUBSET SecretKeys
  BY DEF GeneratedKeys, SecretKeys
<1>2. SiteSecretRefs(s) \subseteq GeneratedKeys(s)
  BY RefsAreGenerated, SpecsAssumption
<1>3. DesiredData("Deployment", s).refs = SiteSecretRefs(s)
  BY DEF DesiredData
<1> QED
  BY <1>1, <1>2, <1>3

\* A Secret that is seen to be the live Site's was held when it was live, and still is.
LEMMA SecretSeenKeeps ==
    ASSUME OneOperator, SecretSpared, IInv, IInv', [Next]_vars, UidsRise, OwnersKnown,
           SecretSeen
    PROVE  SecretSeen'
<1> USE KindFacts
<1>1. ASSUME NEW o \in Operators, NEW i \in Places(o, "Secret")', NEW v,
             v = Version(o, "Secret", i)', v # Absent, v.ctrl = LiveUid'
      PROVE  Held(KeysOf(v))'
  <2>1. LiveUid' \in Nat /\ KeysOf(v) \in SUBSET SecretKeys
    BY DEF LiveUid, Sites, IInv, TypeOK, ApiTypeOK, Versions, Objects, KeysOf
  <2>2. PICK d \in Nat : Shifts(o, "Secret", d)
    BY ViewsShift
  <2>3. CASE i + d \in Places(o, "Secret")
    <3>1. v = Version(o, "Secret", i + d)
      BY <1>1, <2>2, <2>3 DEF Shifts
    <3>2. KnownUid(o, LiveUid')
      BY <1>1, <2>1, <2>3, <3>1 DEF OwnersKnown, OwnedBySite
    <3>3. Held(KeysOf(v))
      BY <1>1, <2>3, <3>1, <3>2, LiveStays DEF SecretSeen
    <3> QED
      BY <2>1, <3>2, <3>3, HeldStays
  <2>4. CASE i + d \notin Places(o, "Secret")
    BY <1>1, <2>2, <2>4 DEF Shifts, Held, KeysOf, LiveKeys
  <2> QED
    BY <2>3, <2>4
<1>2. SUFFICES ASSUME NEW o \in Operators, NEW i \in Places(o, "Secret")',
                      Version(o, "Secret", i)' # Absent,
                      Version(o, "Secret", i)'.ctrl = LiveUid'
               PROVE  Held(KeysOf(Version(o, "Secret", i)))'
  BY DEF SecretSeen
<1> QED
  BY <1>1, <1>2

\* The step of the Secret gives the keys, whether it writes or finds them there.
LEMMA SecretStep ==
    ASSUME IInv, IInv', SecretSeen, NEW o \in Operators, At(o, "Secret"),
           Called(o, "Secret") \/ Skipped(o, "Secret"),
           work[o].uid = LiveUid', LiveUid = LiveUid',
           NEW K, K = GeneratedKeys(work[o].spec)
    PROVE  Held(K)'
<1> USE KindFacts
<1>1. work[o] \in Sites /\ work[o].spec \in Specs
  BY AtStep DEF Sites
<1>2. CASE Called(o, "Secret")
  <2>1. SecretWritten(o)
    BY <1>2, SecretWrite DEF Called, Advance, Abandon
  <2> QED
    BY <1>1, <2>1 DEF SecretWritten, Held
<1>3. CASE NoChange(o, "Secret")
  <2>1. PICK t \in Tokens : UpToDate(o, "Secret", t)
    BY <1>3 DEF NoChange
  <2> DEFINE v == Version(o, "Secret", 0)
  <2>2. v = Seen(o, "Secret") /\ v # Absent /\ v \in Children("Secret")
    BY <1>3, SeenFacts
       DEF NoChange, Adoptable, Version, Seen, Versions, Objects, IInv, TypeOK
  <2>3. v.ctrl = work[o].uid /\ v.data = Completed(v.data, work[o].spec, t)
    <3>1. MutatedObject("Secret", v, work[o], t) = v
      BY <2>1, <2>2 DEF UpToDate
    <3>2. /\ MutatedObject("Secret", v, work[o], t).ctrl = work[o].uid
          /\ MutatedObject("Secret", v, work[o], t).data = Completed(v.data, work[o].spec, t)
      BY DEF MutatedObject, Mutated
    <3> QED
      BY <3>1, <3>2
  <2>4. 0 \in Places(o, "Secret")
    BY LenProperties DEF Places, IInv, TypeOK, ViewTypeOK
  <2> HIDE DEF v
  <2>5. K \subseteq KeysOf(v)
    BY <1>1, <2>1, <2>3, KeysAreKeys, TokensAssumption DEF Completed, KeysOf
  <2>6. Held(KeysOf(v))
    BY <2>2, <2>3, <2>4 DEF SecretSeen, v
  <2> QED
    BY <1>3, <2>5, <2>6 DEF Held, LiveKeys, NoChange
<1>4. ~Leave(o, "Secret")
  BY DEF Leave, Wanted, MariaDBKinds
<1> QED
  BY <1>2, <1>3, <1>4 DEF Skipped

\* What the step of the Secret gave a pass stays until its end.
LEMMA SecretDoneKeeps ==
    ASSUME OneOperator, SecretSpared, IInv, IInv', [Next]_vars, UidsRise, SecretSeen, SecretDone
    PROVE  SecretDone'
<1> USE KindFacts
<1>1. ASSUME NEW o \in Operators, Past(o, "Secret")', NEW site, site = work'[o],
             site.uid = LiveUid'
      PROVE  Held(GeneratedKeys(site.spec))'
  <2>1. site = work[o] /\ site \in Sites /\ site.spec \in Specs /\ site # Absent
    BY <1>1, PassMoves, AbsentAssumption DEF Objects, Sites
  <2>2. KnownUid(o, LiveUid') /\ LiveUid = LiveUid'
    BY <1>1, <2>1, LiveStays DEF UidsRise
  <2>3. CASE Past(o, "Secret")
    <3>1. Held(GeneratedKeys(site.spec))
      BY <1>1, <2>1, <2>2, <2>3 DEF SecretDone
    <3> QED
      BY <2>1, <2>2, <3>1, HeldStays, KeysAreKeys
  <2>4. CASE ~Past(o, "Secret")
    <3>1. At(o, "Secret") /\ (Called(o, "Secret") \/ Skipped(o, "Secret"))
      BY <1>1, <2>4, PassMoves
    <3> QED
      BY <1>1, <2>1, <2>2, <3>1, SecretStep
  <2> QED
    BY <2>3, <2>4
<1>2. SUFFICES ASSUME NEW o \in Operators, Past(o, "Secret")', work'[o].uid = LiveUid'
               PROVE  Held(GeneratedKeys(work[o].spec))'
  BY DEF SecretDone
<1> QED
  BY <1>1, <1>2

\* A pod is asked for by a pass that has been through the step of the Secret.
LEMMA PodServedKeeps ==
    ASSUME OneOperator, SecretSpared, Precedes("Secret", "Deployment"),
           IInv, IInv', [Next]_vars, UidsRise, OwnersKnown, SecretDone, PodServed
    PROVE  PodServed'
<1> USE KindFacts
<1> DEFINE pod == api'["Deployment"]
<1> SUFFICES ASSUME pod # Absent, pod.ctrl = LiveUid', pod.data # Edited,
                    NEW K, K = pod.data.refs
             PROVE  Held(K)'
  BY DEF PodServed, Managed
<1>1. LiveUid' \in Nat
  BY DEF LiveUid, Sites, IInv, TypeOK, ApiTypeOK, Versions, Objects
<1>2. K \in SUBSET SecretKeys
  <2>1. pod \in Children("Deployment")
    BY DEF IInv, TypeOK, ApiTypeOK, Versions, Objects
  <2>2. PICK s \in Specs : pod.data = DesiredData("Deployment", s)
    BY <2>1 DEF Children, Data
  <2> QED
    BY <2>2, KeysAreKeys
<1>3. CASE PodLeft
  <2>1. /\ api["Deployment"] # Absent /\ api["Deployment"].ctrl = LiveUid'
        /\ api["Deployment"].data # Edited /\ api["Deployment"].data.refs = K
    BY <1>1, <1>3 DEF PodLeft
  <2>2. PICK o \in Operators : TRUE
    BY OperatorsAssumption
  <2>3. KnownUid(o, LiveUid')
    BY <1>1, <2>1 DEF OwnersKnown, OwnedBySite
  <2>4. Held(K)
    BY <2>1, <2>3, LiveStays DEF PodServed, Managed
  <2> QED
    BY <1>2, <2>3, <2>4, HeldStays
<1>4. ASSUME NEW o \in Operators, PodWritten(o) PROVE Held(K)'
  <2>1. /\ At(o, "Deployment") /\ work[o].uid = LiveUid'
        /\ K = DesiredData("Deployment", work[o].spec).refs
        /\ api'["Site"] = api["Site"] /\ api'["Secret"] = api["Secret"]
    BY <1>4 DEF PodWritten, IInv, TypeOK, ApiTypeOK
  <2>2. LiveUid = LiveUid' /\ LiveKeys = LiveKeys' /\ work[o].spec \in Specs
    BY <2>1, AtStep DEF LiveUid, LiveKeys, Sites
  <2>3. Past(o, "Secret")
    BY <2>1 DEF At, Past, Precedes
  <2>4. Held(GeneratedKeys(work[o].spec))
    BY <2>1, <2>2, <2>3 DEF SecretDone
  <2>5. K \subseteq GeneratedKeys(work[o].spec)
    BY <2>1, <2>2, KeysAreKeys
  <2> QED
    BY <2>1, <2>2, <2>4, <2>5 DEF Held
<1> QED
  BY <1>3, <1>4, PodMoves

\* What the order of the steps rests on.
OrderInv == IInv /\ UidsRise /\ OwnersKnown /\ SecretSeen /\ SecretDone /\ PodServed

\* At the beginning there is a Site, and nothing else.
LEMMA InitOrder == Init => OrderInv
<1> SUFFICES ASSUME Init PROVE OrderInv
  OBVIOUS
<1> USE KindFacts
<1>1. PICK s \in Specs :
          api = [ k \in Kinds |-> IF k = "Site" THEN NewSite(1, s) ELSE Absent ]
  BY DEF Init
<1>2. api["Site"].uid = 1 /\ api["Secret"] = Absent /\ api["Deployment"] = Absent /\ born = 1
  BY <1>1 DEF NewSite, Init
<1>3. ASSUME NEW o \in Operators
      PROVE  /\ work[o] = Absent /\ pos[o] = 0
             /\ \A k \in CachedKinds : /\ Places(o, k) = { 0 }
                                       /\ Version(o, k, 0) = api[k]
  BY DEF Init, Places, Version
<1>4. UidsRise
  BY <1>2, <1>3 DEF UidsRise
<1>5. OwnersKnown /\ SecretSeen /\ SecretDone /\ PodServed
  BY <1>2, <1>3 DEF OwnersKnown, OwnedBySite, SecretSeen, SecretDone, Past, PodServed, Managed
<1> QED
  BY <1>4, <1>5, InitInv DEF OrderInv

\* With one operator, and keys nobody takes away, the order of the steps makes the
\* pod's keys precede the pod: a Deployment of the live Site refers to keys the live
\* Secret holds (secret.go runs before deployment.go).
THEOREM KeysBeforePod ==
    ASSUME OneOperator, SecretSpared, Precedes("Secret", "Deployment")
    PROVE  Spec => []SecretBeforePod
<1>1. OrderInv /\ [Next]_vars => OrderInv'
  BY NextInv, UidsKeep, OwnersKeep, SecretSeenKeeps, SecretDoneKeeps, PodServedKeeps DEF OrderInv
<1>2. OrderInv => SecretBeforePod
  BY DEF OrderInv, PodServed, SecretBeforePod, Held
<1> QED
  BY <1>1, <1>2, InitOrder, PTL DEF Spec

-----------------------------------------------------------------------------
(* The claim is let go of first.                                           *)

\* The Deployment step of the only operator leaves the Deployment it asks for: it
\* always sends its update, and fails when the API server refuses it.  Nobody else
\* makes a Deployment that mounts anything.
LEMMA PodAsAskedKeeps ==
    ASSUME OneOperator, IInv, [Next]_vars, PodAsAsked
    PROVE  PodAsAsked'
<1> USE KindFacts
<1>1. ASSUME NEW o \in Operators, Past(o, "Deployment")'
      PROVE  \/ api'["Deployment"] = Absent
             \/ api'["Deployment"].data \in { Edited, DesiredData("Deployment", work'[o].spec) }
  <2>1. work'[o] = work[o]
    BY <1>1, PassMoves
  <2>2. CASE Past(o, "Deployment")
    <3>1. CASE PodLeft
      BY <2>1, <2>2, <3>1 DEF PodLeft, PodAsAsked
    <3>2. ASSUME NEW p \in Operators, PodWritten(p)
          PROVE  api'["Deployment"].data = DesiredData("Deployment", work[o].spec)
      BY <3>2 DEF PodWritten, OneOperator
    <3> QED
      BY <2>1, <3>1, <3>2, PodMoves
  <2>3. CASE ~Past(o, "Deployment")
    <3>1. Called(o, "Deployment") \/ Skipped(o, "Deployment")
      BY <1>1, <2>3, PassMoves
    <3>2. ~Skipped(o, "Deployment")
      BY DEF Skipped, NoChange, UpToDate, AlwaysSent, Leave, Wanted, MariaDBKinds
    <3>3. PodWritten(o)
      BY <3>1, <3>2, PodWrite DEF Called, Advance, Abandon
    <3> QED
      BY <2>1, <3>3 DEF PodWritten
  <2> QED
    BY <2>2, <2>3
<1> QED
  BY <1>1 DEF PodAsAsked

\* With one operator, a claim the operator gives up is mounted by no Deployment any
\* more, unless the Site itself names it as the existing claim to mount: the step of
\* the Deployment comes before that of the claim, and a failed step ends the pass.
THEOREM LetsGoFirst ==
    ASSUME OneOperator, Precedes("Deployment", "Volume")
    PROVE  Spec => DetachBeforeDelete
<1> DEFINE Inv == IInv /\ PodAsAsked
<1>1. Init => Inv
  BY InitInv DEF Init, PodAsAsked, Past
<1>2. Inv /\ [Next]_vars => Inv'
  BY NextInv, PodAsAskedKeeps
<1>3. ASSUME Inv, NEW o \in Operators, DeleteOwned(o, "Volume")
      PROVE  ~Mounts(api["Deployment"]) \/ NamesOwnClaim(work[o].spec)
  <2>1. At(o, "Volume") /\ work[o] \in Sites /\ ~OwnClaim(work[o].spec)
    BY <1>3, AtStep DEF DeleteOwned, SendsDelete, Withdrawn, Wanted, MariaDBKinds
  <2>2. Past(o, "Deployment")
    BY <2>1 DEF At, Past, Precedes
  <2>3. DesiredData("Deployment", work[o].spec).volume = "own"
          => NamesOwnClaim(work[o].spec)
    BY <2>1 DEF DesiredData, SiteDataVolume, OwnClaim, NamesOwnClaim
  <2> QED
    BY <1>3, <2>2, <2>3 DEF PodAsAsked, Mounts
<1>4. Inv /\ [Next]_vars =>
          [ \A o \in Operators :
              DeleteOwned(o, "Volume") /\ api["Volume"] # Absent /\ Managed("Deployment")
                  => ~Mounts(api["Deployment"]) \/ NamesOwnClaim(work[o].spec) ]_vars
  BY <1>3
<1> QED
  BY <1>1, <1>2, <1>4, PTL DEF Spec, DetachBeforeDelete
=============================================================================
