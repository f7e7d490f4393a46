----------------------- MODULE SiteReconcilerRestProofs -----------------------
(***************************************************************************)
(* No wake-up is lost (NothingMissed), for any number of operators, any    *)
(* disturbances and any lag: an operator that has nothing left to do has   *)
(* missed nothing it could have seen.                                      *)
(***************************************************************************)
EXTENDS SiteReconcilerOrderProofs

\* The steps of a pass include the Deployment, whose state the status reports.
PassHasPod == \E i \in 1..Len(Steps) : Steps[i] = "Deployment"

\* An event on its way to operator o will put the Site in its queue: one version of
\* the object, of those that are on the way or were, belongs to a Site.
Coming(o, k) == watch[o][k] # << >> /\ \E i \in Places(o, k) : OwnedBySite(Version(o, k, i))

\* Operator o will begin another pass, whatever comes of this one.
Awaken(o) == queue[o] \/ err[o] # "none" \/ watch[o]["Site"] # << >>

\* Object k is what the spec of the live Site asks for ...
Asked(k) == AsWanted(k, api["Site"].spec)

\* ... or an event of it is still to come, and the step does not fail by itself.
Served(o, k) ==
    /\ ~Refused(k, api["Site"].spec) /\ ~Panics(k, api["Site"].spec)
    /\ k \in CachedKinds => Coming(o, k) \/ Asked(k)

\* The steps the pass of o has gone through; all of them, when it has ended.
DoneSteps(o) == IF Idle(o) THEN 1..Len(Steps) ELSE 1..(pos[o] - 1)

StatusTrue ==
    api["Site"].status = [ reason |-> Reason("none", api["Deployment"]), gen |-> api["Site"].gen ]

\* What o knows when nothing will wake it: its pass is of the live Site, and what
\* the pass has gone through is served.
UpToNow(o) ==
    /\ ~Idle(o) => work[o] = api["Site"]
    /\ \A i \in DoneSteps(o) : Served(o, Steps[i])
    /\ Idle(o) => Coming(o, "Deployment") \/ StatusTrue

Attended(o) ==
    /\ Idle(o) => err[o] = "none"
    /\ Awaken(o) \/ api["Site"] = Absent \/ UpToNow(o)

RestInv == IInv /\ \A o \in Operators : Attended(o)

-----------------------------------------------------------------------------
(* What a step does to the events on their way.                            *)

\* How the events of a kind on their way to an operator are laid out.
LEMMA WayFacts ==
    ASSUME IInv, NEW o \in Operators, NEW k \in CachedKinds
    PROVE  /\ Len(watch[o][k]) \in Nat /\ watch[o][k] \in Seq(Versions(k))
           /\ watch[o][k] = << >> <=> Len(watch[o][k]) = 0
           /\ Len(watch[o][k]) \in Places(o, k) /\ 0 \in Places(o, k)
           /\ Version(o, k, 0) = cache[o][k]
           /\ Version(o, k, Len(watch[o][k])) = api[k]
<1>1. Len(watch[o][k]) \in Nat /\ watch[o][k] \in Seq(Versions(k))
  BY LenProperties DEF IInv, TypeOK, ViewTypeOK
<1>2. watch[o][k] = << >> <=> Len(watch[o][k]) = 0
  BY <1>1, EmptySeq
<1> QED
  BY <1>1, <1>2 DEF Places, Version, IInv, Coherent, Latest

\* An event on its way stays on it when another one follows; and a change of an object
\* that a Site has, or gets, is such an event.
LEMMA ComingPublished ==
    ASSUME IInv, NEW o \in Operators, NEW k \in CachedKinds,
           NEW j \in Kinds, NEW v, Publish(j, v), UNCHANGED cache
    PROVE  /\ Coming(o, k) => Coming(o, k)'
           /\ api'[k] # api[k] => watch'[o][k] # << >>
           /\ api'[k] # api[k] /\ (OwnedBySite(api[k]) \/ OwnedBySite(api'[k])) => Coming(o, k)'
           /\ watch[o][k] # << >> => watch'[o][k] # << >>
<1>1. /\ Len(watch[o][k]) \in Nat /\ watch[o][k] \in Seq(Versions(k)) /\ k \in Kinds
      /\ watch[o][k] = << >> <=> Len(watch[o][k]) = 0
      /\ Version(o, k, Len(watch[o][k])) = api[k]
  BY WayFacts, KindFacts
<1>2. CASE watch'[o][k] = watch[o][k]
  <2>1. api'[k] = api[k]
    <3>1. CASE j # k
      BY <1>1, <3>1, Published
    <3>2. CASE j = k /\ v = api[k]
      BY <3>2, Published
    <3>3. CASE j = k /\ v # api[k]
      <4>1. watch'[o][k] = Append(watch[o][k], v)
        BY <3>3 DEF Publish, IInv, TypeOK, ViewTypeOK
      <4>2. Len(watch'[o][k]) = Len(watch[o][k]) + 1
        BY <1>1, <4>1
      <4> QED
        BY <1>1, <1>2, <4>2
    <3> QED
      BY <3>1, <3>2, <3>3
  <2> QED
    BY <1>2, <2>1 DEF Coming, Places, Version
<1>3. CASE watch'[o][k] # watch[o][k]
  <2> DEFINE w == watch[o][k]
  <2>0. PICK n \in Nat : n = Len(w)
    BY <1>1
  <2>1. j = k /\ v # api[k] /\ watch'[o][k] = Append(w, v)
    BY <1>3 DEF Publish, IInv, TypeOK, ViewTypeOK
  <2>2. w \in Seq(Versions(k)) /\ n = Len(w)
    BY <1>1, <2>0
  <2>3. Len(watch'[o][k]) = n + 1 /\ watch'[o][k][n + 1] = v
    BY <2>1, <2>2
  <2>4. \A i \in 1..n : watch'[o][k][i] = w[i]
    BY <2>1, <2>2
  <2>5. api'[k] = v /\ cache'[o][k] = cache[o][k]
    BY <2>1, Published
  <2>6. Places(o, k) = 0..n /\ Places(o, k)' = 0..(n + 1)
    BY <2>2, <2>3 DEF Places
  <2>7. ASSUME NEW i \in 0..n PROVE Version(o, k, i)' = Version(o, k, i)
    BY <2>2, <2>4, <2>5, <2>7 DEF Version
  <2>8. Version(o, k, n + 1)' = v /\ Version(o, k, n) = api[k]
    BY <1>1, <2>2, <2>3 DEF Version
  <2>9. watch'[o][k] # << >>
    BY <2>2, <2>3, EmptySeq
  <2> HIDE DEF w
  <2>10. Coming(o, k) => Coming(o, k)'
    <3> SUFFICES ASSUME NEW i \in 0..n, OwnedBySite(Version(o, k, i)) PROVE Coming(o, k)'
      BY <2>6 DEF Coming
    <3>1. i \in 0..(n + 1) /\ OwnedBySite(Version(o, k, i)')
      BY <2>2, <2>7
    <3> QED
      BY <2>6, <2>9, <3>1 DEF Coming, OwnedBySite
  <2>11. OwnedBySite(api[k]) => Coming(o, k)'
    <3>1. n \in 0..n /\ n \in 0..(n + 1)
      BY <2>2
    <3>2. Version(o, k, n)' = api[k]
      BY <2>7, <2>8, <3>1
    <3> QED
      BY <2>6, <2>9, <3>1, <3>2 DEF Coming, OwnedBySite
  <2>12. OwnedBySite(api'[k]) => Coming(o, k)'
    <3>1. n + 1 \in 0..(n + 1)
      BY <2>2
    <3> QED
      BY <2>5, <2>6, <2>8, <2>9, <3>1 DEF Coming, OwnedBySite
  <2> QED
    BY <2>9, <2>10, <2>11, <2>12
<1> QED
  BY <1>2, <1>3

\* What the live Site asks for is still there as long as neither changes ...
LEMMA AskedStays ==
    ASSUME NEW k, api'[k] = api[k], api'["Site"] = api["Site"], Asked(k)
    PROVE  Asked(k)'
  BY DEF Asked, AsWanted, Managed, LiveUid, LiveKeys, Deleted

\* ... and what is no Site's is not asked for, and becomes no Site's.
LEMMA AskedOfNobody ==
    ASSUME IInv, NEW k \in ChildKinds, api'["Site"] = api["Site"], api["Site"] # Absent, Asked(k),
           ~OwnedBySite(api[k]), ~OwnedBySite(api'[k])
    PROVE  Asked(k)'
<1>1. api["Site"].uid \in Nat /\ LiveUid = api["Site"].uid /\ LiveUid' = LiveUid
  BY KindFacts DEF LiveUid, IInv, TypeOK, ApiTypeOK, Versions, Objects, Sites
<1>2. ~Managed(k) /\ ~Managed(k)'
  BY <1>1 DEF Managed, OwnedBySite
<1> QED
  BY <1>2 DEF Asked, AsWanted

\* A step that was gone through stays so: whatever changes the object without an
\* event for the operator leaves the Site's wish fulfilled.
LEMMA ServedPublished ==
    ASSUME IInv, NEW o \in Operators, NEW k \in ChildKinds, Served(o, k), api["Site"] # Absent,
           NEW j \in Kinds, NEW v, Publish(j, v), UNCHANGED cache, api'["Site"] = api["Site"]
    PROVE  Served(o, k)'
<1>1. CASE k \notin CachedKinds
  BY <1>1 DEF Served
<1>2. CASE k \in CachedKinds /\ Coming(o, k)
  BY <1>2, ComingPublished DEF Served
<1>3. CASE k \in CachedKinds /\ ~Coming(o, k)
  <2>1. Asked(k)
    BY <1>3 DEF Served
  <2>2. CASE api'[k] = api[k]
    BY <2>1, <2>2, AskedStays DEF Served
  <2>3. CASE OwnedBySite(api[k]) \/ OwnedBySite(api'[k])
    <3>1. api'[k] # api[k] => Coming(o, k)'
      BY <1>3, <2>3, ComingPublished
    <3> QED
      BY <2>2, <3>1 DEF Served
  <2>4. CASE ~OwnedBySite(api[k]) /\ ~OwnedBySite(api'[k])
    BY <2>1, <2>4, AskedOfNobody DEF Served
  <2> QED
    BY <2>3, <2>4
<1> QED
  BY <1>1, <1>2, <1>3

-----------------------------------------------------------------------------
(* Steps that leave the worker of operator o alone.                        *)

Untouched(o) == UNCHANGED << queue[o], pos[o], work[o], err[o] >>

\* It hears of nothing new either ...
Still(o) == Untouched(o) /\ api' = api /\ cache'[o] = cache[o] /\ watch'[o] = watch[o]

\* ... or a version of an object is on its way to it.
Told(o) == Untouched(o) /\ UNCHANGED cache /\ \E k \in Kinds : \E v : Publish(k, v)

\* The steps of a pass are steps of children.
LEMMA StepFacts ==
    ASSUME NEW i \in 1..Len(Steps)
    PROVE  Steps[i] \in ChildKinds
  BY StepsAssumption, ElementOfSeq

\* What was gone through stays so when nothing is heard.
LEMMA ServedStill ==
    ASSUME NEW o, NEW k \in Kinds, \A j \in Kinds : api'[j] = api[j],
           cache'[o] = cache[o], watch'[o] = watch[o]
    PROVE  /\ Served(o, k) => Served(o, k)'
           /\ Coming(o, k) => Coming(o, k)'
           /\ StatusTrue => StatusTrue'
<1>1. Coming(o, k) => Coming(o, k)'
  BY DEF Coming, Places, Version, OwnedBySite
<1>2. api'[k] = api[k] /\ api'["Site"] = api["Site"]
  BY KindFacts
<1>3. Asked(k) => Asked(k)'
  BY <1>2, AskedStays
<1>4. StatusTrue => StatusTrue'
  BY KindFacts DEF StatusTrue
<1> QED
  BY <1>1, <1>2, <1>3, <1>4 DEF Served

LEMMA StillAttended ==
    ASSUME IInv, NEW o \in Operators, Still(o), Attended(o)
    PROVE  Attended(o)'
<1> USE KindFacts
<1>1. Idle(o)' = Idle(o) /\ DoneSteps(o)' = DoneSteps(o) /\ Awaken(o)' = Awaken(o)
  BY DEF Still, Untouched, Idle, DoneSteps, Awaken
<1>2. UpToNow(o) => UpToNow(o)'
  <2> SUFFICES ASSUME UpToNow(o) PROVE UpToNow(o)'
    OBVIOUS
  <2>1. \A i \in DoneSteps(o) : Served(o, Steps[i])'
    BY ServedStill, StepFacts, StatusPosType
       DEF UpToNow, Still, DoneSteps, IInv, TypeOK, WorkerTypeOK
  <2>2. Coming(o, "Deployment") \/ StatusTrue => Coming(o, "Deployment")' \/ StatusTrue'
    BY ServedStill DEF Still
  <2> QED
    BY <1>1, <2>1, <2>2 DEF UpToNow, Still, Untouched
<1> QED
  BY <1>1, <1>2 DEF Attended, Still, Untouched

\* The Deployment that is asked for is a Site's: a change of it is an event that wakes.
LEMMA StatusWatched ==
    ASSUME IInv, PassHasPod, NEW o \in Operators, api["Site"] # Absent,
           \A i \in 1..Len(Steps) : Served(o, Steps[i])
    PROVE  Coming(o, "Deployment") \/ OwnedBySite(api["Deployment"])
<1>1. Served(o, "Deployment")
  BY DEF PassHasPod
<1>2. Asked("Deployment") => Managed("Deployment")
  BY DEF Asked, AsWanted, Wanted, MariaDBKinds
<1>3. LiveUid \in Nat
  BY KindFacts DEF LiveUid, IInv, TypeOK, ApiTypeOK, Versions, Objects, Sites
<1> QED
  BY <1>1, <1>2, <1>3, KindFacts DEF Served, Managed, OwnedBySite

LEMMA ToldAttended ==
    ASSUME IInv, PassHasPod, NEW o \in Operators, Told(o), Attended(o)
    PROVE  Attended(o)'
<1> USE KindFacts
<1> PICK j \in Kinds : \E v : Publish(j, v)
  BY DEF Told
<1> PICK v : Publish(j, v)
  OBVIOUS
<1>1. Idle(o)' = Idle(o) /\ DoneSteps(o)' = DoneSteps(o) /\ UNCHANGED cache
  BY DEF Told, Untouched, Idle, DoneSteps
<1>2. Awaken(o) \/ api'["Site"] # api["Site"] => Awaken(o)'
  BY <1>1, ComingPublished DEF Awaken, Told, Untouched
<1>3. ASSUME UpToNow(o), api'["Site"] = api["Site"], api["Site"] # Absent
      PROVE  UpToNow(o)'
  <2>1. \A i \in DoneSteps(o) : Steps[i] \in ChildKinds
    BY StepFacts, StatusPosType DEF DoneSteps, IInv, TypeOK, WorkerTypeOK
  <2>2. \A i \in DoneSteps(o) : Served(o, Steps[i])'
    BY <1>1, <1>3, <2>1, ServedPublished DEF UpToNow
  <2>3. ASSUME Idle(o) PROVE Coming(o, "Deployment")' \/ StatusTrue'
    <3>1. Coming(o, "Deployment") => Coming(o, "Deployment")'
      BY <1>1, ComingPublished
    <3>2. Coming(o, "Deployment") \/ OwnedBySite(api["Deployment"])
      BY <1>3, <2>3, StatusWatched DEF UpToNow, DoneSteps
    <3>3. api'["Deployment"] # api["Deployment"] => Coming(o, "Deployment")'
      BY <1>1, <3>1, <3>2, ComingPublished
    <3>4. api'["Deployment"] = api["Deployment"] /\ StatusTrue => StatusTrue'
      BY <1>3 DEF StatusTrue
    <3> QED
      BY <1>3, <2>3, <3>1, <3>3, <3>4 DEF UpToNow
  <2> QED
    BY <1>1, <1>3, <2>2, <2>3 DEF UpToNow, Told, Untouched
<1>4. Idle(o) => err'[o] = "none"
  BY DEF Attended, Told, Untouched
<1> QED
  BY <1>1, <1>2, <1>3, <1>4 DEF Attended

-----------------------------------------------------------------------------
(* The informer.                                                           *)

\* An event that wakes nobody takes nothing away that would.
LEMMA ComingDelivered ==
    ASSUME IInv, NEW o \in Operators, NEW k \in CachedKinds, Deliver(o, k),
           ~Enqueues(k, cache[o][k], Head(watch[o][k])), NEW j \in CachedKinds, Coming(o, j)
    PROVE  Coming(o, j)'
<1>1. CASE j # k
  <2>1. cache'[o][j] = cache[o][j] /\ watch'[o][j] = watch[o][j]
    BY <1>1 DEF Deliver, IInv, TypeOK, ViewTypeOK
  <2> QED
    BY <2>1 DEF Coming, Places, Version, OwnedBySite
<1>2. CASE j = k
  <2> DEFINE w == watch[o][k]
  <2>1. PICK n \in Nat : n = Len(w)
    BY WayFacts
  <2>2. w \in Seq(Versions(k)) /\ n = Len(w) /\ w # << >>
    BY <2>1, WayFacts DEF Deliver
  <2>3. watch'[o][k] = Tail(w)
    BY DEF Deliver, IInv, TypeOK, ViewTypeOK
  <2>4. /\ Head(w) = w[1] /\ Len(Tail(w)) = n - 1 /\ n # 0
        /\ \A i \in 1..(n - 1) : Tail(w)[i] = w[i + 1]
    BY <2>2, HeadTailProperties, EmptySeq
  <2>5. PICK i \in 0..n : OwnedBySite(Version(o, k, i))
    BY <1>2, <2>2 DEF Coming, Places
  <2>6. i # 0 /\ i # 1
    BY <2>4, <2>5 DEF Version, Enqueues
  <2>7. PICK h \in Nat : h = i - 1
    BY <2>5, <2>6
  <2>8. h \in 1..(n - 1) /\ i = h + 1 /\ n - 1 # 0 /\ n - 1 \in Nat
    BY <2>5, <2>6, <2>7
  <2>9. Version(o, k, h)' = Version(o, k, i)
    BY <2>3, <2>4, <2>6, <2>8 DEF Version
  <2>10. h \in Places(o, k)' /\ watch'[o][k] # << >>
    BY <2>3, <2>4, <2>8, EmptySeq DEF Places
  <2> QED
    BY <1>2, <2>5, <2>9, <2>10 DEF Coming, OwnedBySite
<1> QED
  BY <1>1, <1>2

LEMMA DeliverAttended ==
    ASSUME IInv, NEW o \in Operators, NEW k \in CachedKinds, Deliver(o, k), Attended(o)
    PROVE  Attended(o)'
<1> USE KindFacts
<1>1. /\ api' = api /\ UNCHANGED << pos, work, err >>
      /\ queue'[o] <=> queue[o] \/ Enqueues(k, cache[o][k], Head(watch[o][k]))
  BY DEF Deliver, IInv, TypeOK, WorkerTypeOK, Enqueues
<1>2. Idle(o)' = Idle(o) /\ DoneSteps(o)' = DoneSteps(o)
  BY <1>1 DEF Idle, DoneSteps
<1>3. CASE Enqueues(k, cache[o][k], Head(watch[o][k]))
  BY <1>1, <1>2, <1>3 DEF Attended, Awaken
<1>4. CASE ~Enqueues(k, cache[o][k], Head(watch[o][k]))
  <2>1. watch'[o]["Site"] = watch[o]["Site"]
    BY <1>4 DEF Deliver, Enqueues, IInv, TypeOK, ViewTypeOK
  <2>2. Awaken(o) => Awaken(o)'
    BY <1>1, <2>1 DEF Awaken
  <2>3. ASSUME UpToNow(o) PROVE UpToNow(o)'
    <3>1. \A j : Asked(j) => Asked(j)'
      BY <1>1, AskedStays
    <3>2. \A j \in CachedKinds : Coming(o, j) => Coming(o, j)'
      BY <1>4, ComingDelivered
    <3>3. \A i \in DoneSteps(o) : Served(o, Steps[i])'
      BY <1>1, <2>3, <3>1, <3>2 DEF UpToNow, Served
    <3>4. StatusTrue => StatusTrue'
      BY <1>1 DEF StatusTrue
    <3> QED
      BY <1>1, <1>2, <2>3, <3>2, <3>3, <3>4 DEF UpToNow
  <2> QED
    BY <1>1, <1>2, <2>2, <2>3 DEF Attended
<1> QED
  BY <1>3, <1>4

-----------------------------------------------------------------------------
(* The pass: its beginning and its end.                                    *)

\* A Site with no event on its way is in the cache as it is.
LEMMA SiteInCache ==
    ASSUME IInv, NEW o \in Operators, watch[o]["Site"] = << >>
    PROVE  cache[o]["Site"] = api["Site"]
  BY KindFacts DEF IInv, Coherent, Latest

LEMMA StartAttended ==
    ASSUME IInv, NEW o \in Operators, Attended(o), Start(o) \/ StartMissing(o)
    PROVE  Attended(o)'
<1> USE KindFacts
<1>1. /\ UNCHANGED << api, watch, err >> /\ Idle(o) /\ err[o] = "none"
  BY DEF Start, StartMissing, Attended
<1>2. CASE watch[o]["Site"] # << >>
  BY <1>1, <1>2 DEF Attended, Awaken
<1>3. CASE watch[o]["Site"] = << >> /\ StartMissing(o)
  BY <1>1, <1>3, SiteInCache DEF Attended, StartMissing
<1>4. CASE watch[o]["Site"] = << >> /\ Start(o)
  <2>1. work'[o] = api["Site"] /\ pos'[o] = 1
    BY <1>4, SiteInCache DEF Start, IInv, TypeOK, WorkerTypeOK
  <2>2. ~Idle(o)' /\ DoneSteps(o)' = {}
    BY <2>1 DEF Idle, DoneSteps
  <2> QED
    BY <1>1, <2>1, <2>2 DEF Attended, UpToNow
<1> QED
  BY <1>2, <1>3, <1>4

\* A status that says what it said before says what is so.
LEMMA StatusAttended ==
    ASSUME IInv, PassHasPod, NEW o \in Operators, Attended(o),
           StatusMissing(o) \/ StatusWrite(o) \/ StatusConflict(o)
    PROVE  Attended(o)'
<1> USE KindFacts
<1>1. /\ pos[o] = StatusPos /\ pos'[o] = 0 /\ err'[o] = "none" /\ UNCHANGED cache
      /\ queue'[o] = (queue[o] \/ err[o] # "none") \/ queue'[o] = TRUE
      /\ Idle(o)'
  BY DEF StatusMissing, StatusWrite, StatusConflict, AtStatus, Finish, Idle,
         IInv, TypeOK, WorkerTypeOK
<1> SUFFICES ASSUME ~Awaken(o)', api'["Site"] # Absent PROVE UpToNow(o)'
  BY <1>1 DEF Attended
<1>2. queue[o] = FALSE /\ err[o] = "none" /\ watch'[o]["Site"] = << >>
  BY <1>1 DEF Awaken, IInv, TypeOK, WorkerTypeOK
<1>3. ~StatusMissing(o)
  BY <1>2, SiteInCache DEF StatusMissing
<1>4. ~StatusConflict(o)
  BY <1>2 DEF StatusConflict, Fresh
<1>5. StatusWrite(o)
  BY <1>3, <1>4
<1> DEFINE v == WithConditions(cache[o]["Site"], err[o], Seen(o, "Deployment"))
<1>6. /\ Publish("Site", v) /\ watch[o]["Site"] = << >>
      /\ cache[o]["Site"] = api["Site"] /\ api["Site"] # Absent
  BY <1>5, SiteInCache DEF StatusWrite, Fresh
<1>7. api'["Site"] = api["Site"] /\ api'["Site"] = v
  BY <1>1, <1>2, <1>6, ComingPublished, Published
<1>8. (\A j \in Kinds : api'[j] = api[j]) /\ watch' = watch
  BY <1>6, <1>7, Published DEF Publish
<1>9. UpToNow(o) /\ ~Idle(o)
  BY <1>1, <1>2, <1>6, StatusPosType DEF Attended, Awaken, Idle
<1>10. DoneSteps(o) = 1..Len(Steps) /\ DoneSteps(o)' = 1..Len(Steps)
  BY <1>1, <1>9, StatusPosType DEF DoneSteps
<1>11. \A i \in 1..Len(Steps) : Served(o, Steps[i]) /\ Served(o, Steps[i])'
  BY <1>1, <1>8, <1>9, <1>10, ServedStill, StepFacts DEF UpToNow
<1>12. Coming(o, "Deployment") => Coming(o, "Deployment")'
  BY <1>1, <1>8, ServedStill
<1>13. ASSUME ~Coming(o, "Deployment") PROVE StatusTrue'
  <2>1. OwnedBySite(api["Deployment"])
    BY <1>6, <1>11, <1>13, StatusWatched
  <2>2. watch[o]["Deployment"] = << >>
    BY <1>13, <2>1, WayFacts DEF Coming
  <2>3. Seen(o, "Deployment") = api["Deployment"]
    BY <2>2 DEF Seen, IInv, Coherent, Latest
  <2>4. api["Site"] \in Sites
    BY <1>6 DEF IInv, TypeOK, ApiTypeOK, Versions, Objects
  <2>5. api["Site"] = WithConditions(api["Site"], "none", api["Deployment"])
    BY <1>2, <1>6, <1>7, <2>3
  <2>6. StatusTrue
    BY <2>4, <2>5 DEF WithConditions, StatusTrue, Sites
  <2> QED
    BY <1>8, <2>6 DEF StatusTrue
<1> QED
  BY <1>1, <1>10, <1>11, <1>12, <1>13 DEF UpToNow

-----------------------------------------------------------------------------
(* The steps of a pass.                                                    *)

\* The object of kind k is what the mutate function makes of content data.
WrittenFor(k, data, t) ==
    /\ api["Site"] # Absent /\ Wanted(k, api["Site"].spec)
    /\ api[k] # Absent /\ api[k].ctrl = api["Site"].uid
    /\ api[k].data = Mutated(k, data, api["Site"].spec, t)

\* That is what the Site asks for.
LEMMA WrittenAsAsked ==
    ASSUME IInv', NEW k \in ChildKinds, NEW data, NEW t \in Tokens, WrittenFor(k, data, t)'
    PROVE  Asked(k)'
<1> USE DEF WrittenFor
<1>1. Managed(k)'
  BY DEF Managed, LiveUid
<1>2. CASE k # "Secret"
  BY <1>1, <1>2 DEF Asked, AsWanted, Mutated
<1>3. CASE k = "Secret"
  <2>1. api'["Site"].spec \in Specs
    BY KindFacts DEF IInv, TypeOK, ApiTypeOK, Versions, Objects, Sites
  <2>2. GeneratedKeys(api'["Site"].spec) \subseteq SecretKeys
    BY <2>1, KeysAreKeys
  <2>3. LiveKeys' = Completed(data, api'["Site"].spec, t)
    BY <1>3 DEF LiveKeys, Mutated
  <2>4. \A key \in GeneratedKeys(api'["Site"].spec) : LiveKeys'[key] # Unset
    BY <2>2, <2>3, TokensAssumption DEF Completed
  <2> QED
    BY <1>1, <1>3, <2>4 DEF Asked, AsWanted
<1> QED
  BY <1>2, <1>3

\* A call of a pass over the live Site leaves the object as the Site asks for.
LEMMA CallAsks ==
    ASSUME IInv, IInv', NEW o \in Operators, NEW k \in ChildKinds, Call(o, k),
           work[o] = api["Site"]
    PROVE  Asked(k)'
<1> USE KindFacts
<1>1. At(o, k)
  BY DEF Call, Create, Update, DeleteOwned, SendsCreate, SendsUpdate, SendsDelete, Writes
<1>2. work[o] \in Sites /\ work[o] # Absent
  BY <1>1, AtStep
<1>3. ASSUME NEW v, Publish(k, v) PROVE api'[k] = v /\ api'["Site"] = work[o]
  BY <1>3, Published
<1>4. ASSUME NEW t \in Tokens, Create(o, k, t) PROVE Asked(k)'
  <2> DEFINE v == NewObject(k, work[o], t)
  <2>1. api'[k] = v /\ api'["Site"] = work[o] /\ Wanted(k, work[o].spec)
    BY <1>3, <1>4 DEF Create, SendsCreate, Writes
  <2>2. v # Absent
    BY <1>2, NewObjectType, AbsentAssumption DEF Objects
  <2>3. v.ctrl = work[o].uid /\ v.data = Mutated(k, NoKeys, work[o].spec, t)
    BY DEF NewObject
  <2> HIDE DEF v
  <2>4. WrittenFor(k, NoKeys, t)'
    BY <1>2, <2>1, <2>2, <2>3 DEF WrittenFor
  <2> QED
    BY <2>4, WrittenAsAsked
<1>5. ASSUME NEW t \in Tokens, Update(o, k, t) PROVE Asked(k)'
  <2> DEFINE old == Seen(o, k)
             v == MutatedObject(k, old, work[o], t)
  <2>1. api'[k] = v /\ api'["Site"] = work[o] /\ Wanted(k, work[o].spec)
    BY <1>3, <1>5 DEF Update, SendsUpdate, Writes
  <2>2. old \in Children(k)
    BY <1>5, SeenFacts DEF Update, SendsUpdate, Adoptable, Versions, Objects, IInv, TypeOK
  <2>3. v # Absent
    BY <1>2, <2>2, MutatedObjectType, AbsentAssumption DEF Objects
  <2>4. v.ctrl = work[o].uid /\ v.data = Mutated(k, old.data, work[o].spec, t)
    BY DEF MutatedObject
  <2>5. PICK data : data = old.data
    OBVIOUS
  <2> HIDE DEF v, old
  <2>6. WrittenFor(k, data, t)'
    BY <1>2, <2>1, <2>3, <2>4, <2>5 DEF WrittenFor
  <2> QED
    BY <2>6, WrittenAsAsked
<1>6. CASE DeleteOwned(o, k)
  <2>1. /\ api'[k] = Deleted(k) /\ api'["Site"] = work[o]
        /\ Withdrawn(k, work[o].spec) /\ ~Wanted(k, work[o].spec)
    BY <1>3, <1>6 DEF DeleteOwned, SendsDelete, Withdrawn
  <2>2. CASE api'[k] = Absent
    BY <2>1, <2>2 DEF Asked, AsWanted, Managed
  <2>3. CASE api'[k] # Absent
    <3>1. k = "Volume" /\ api'[k] = [ api[k] EXCEPT !.state = "terminating" ]
      BY <2>1, <2>3 DEF Deleted
    <3>2. api'[k] \in Children(k)
      BY <2>3, <3>1 DEF IInv, TypeOK, ApiTypeOK, Versions, Objects
    <3>3. api[k] \in Children(k)
      BY <2>1, <2>3, <3>1 DEF Deleted, IInv, TypeOK, ApiTypeOK, Versions, Objects
    <3>4. [ api'[k] EXCEPT !.state = "terminating" ] = api'[k]
      BY <3>1, <3>2, <3>3 DEF Children
    <3>5. Deleted(k)' = api'[k]
      BY <2>3, <3>1, <3>4 DEF Deleted
    <3> QED
      BY <2>1, <3>5 DEF Asked, AsWanted
  <2> QED
    BY <2>2, <2>3
<1> QED
  BY <1>4, <1>5, <1>6 DEF Call

\* A pass that has nothing to send has seen an object that is as the live Site asks
\* for, or has missed a version of it, which is on its way.
LEMMA SkipServes ==
    ASSUME IInv, IInv', NEW o \in Operators, NEW k \in CachedKinds \cap ChildKinds,
           NoChange(o, k) \/ Leave(o, k), work[o] = api["Site"]
    PROVE  Coming(o, k) \/ Asked(k)'
<1> USE KindFacts
<1>1. api["Site"] \in Sites /\ api["Site"] # Absent /\ api["Site"].uid \in Nat
      /\ LiveUid = api["Site"].uid
  BY AtStep DEF NoChange, Leave, Writes, Sites, LiveUid
<1>2. /\ Seen(o, k) = Version(o, k, 0) /\ Seen(o, k) \in Versions(k)
      /\ watch[o][k] = << >> => Seen(o, k) = api[k]
  BY WayFacts, SeenFacts DEF Seen, Fresh, IInv, TypeOK
<1>3. api' = api
  BY DEF NoChange, Leave
<1>4. CASE NoChange(o, k)
  <2>1. PICK t \in Tokens : MutatedObject(k, Seen(o, k), work[o], t) = Seen(o, k)
    BY <1>4 DEF NoChange, UpToDate
  <2>2. Seen(o, k) # Absent /\ Wanted(k, work[o].spec)
    BY <1>4 DEF NoChange, Writes, Adoptable
  <2> DEFINE old == Seen(o, k)
             v == MutatedObject(k, old, work[o], t)
  <2>3. v.ctrl = work[o].uid /\ v.data = Mutated(k, old.data, work[o].spec, t)
    BY DEF MutatedObject
  <2>4. old.ctrl = work[o].uid /\ old.data = Mutated(k, old.data, work[o].spec, t)
    BY <2>1, <2>3
  <2>5. PICK data : data = old.data
    OBVIOUS
  <2> HIDE DEF v, old
  <2>6. CASE watch[o][k] = << >>
    <3>1. WrittenFor(k, data, t)'
      BY <1>1, <1>2, <1>3, <2>2, <2>4, <2>5, <2>6 DEF WrittenFor, old
    <3> QED
      BY <3>1, WrittenAsAsked
  <2>7. CASE watch[o][k] # << >>
    BY <1>1, <1>2, <2>2, <2>4, <2>7, WayFacts DEF Coming, OwnedBySite, old
  <2> QED
    BY <2>6, <2>7
<1>5. CASE Leave(o, k)
  <2>1. ~Wanted(k, api["Site"].spec)
        /\ (Withdrawn(k, api["Site"].spec) => Seen(o, k) = Absent \/ Seen(o, k).ctrl # LiveUid)
    BY <1>1, <1>5 DEF Leave, SendsDelete
  <2>2. CASE ~Managed(k) \/ ~Withdrawn(k, api["Site"].spec)
    BY <1>3, <2>1, <2>2 DEF Asked, AsWanted, Managed, LiveUid
  <2>3. CASE Managed(k) /\ Withdrawn(k, api["Site"].spec)
    <3>1. watch[o][k] # << >>
      BY <1>2, <2>1, <2>3 DEF Managed
    <3>2. OwnedBySite(api[k])
      BY <1>1, <2>3 DEF Managed, OwnedBySite
    <3> QED
      BY <3>1, <3>2, WayFacts DEF Coming
  <2> QED
    BY <2>2, <2>3
<1> QED
  BY <1>4, <1>5

\* A step that goes on is served: it does not fail by itself, and its object is as
\* asked for or on its way.
LEMMA StepServes ==
    ASSUME IInv, IInv', NEW o \in Operators, NEW k \in ChildKinds,
           Done(o, k) \/ NoChange(o, k) \/ Leave(o, k), work[o] = api["Site"]
    PROVE  Served(o, k)' /\ api'["Site"] = api["Site"]
<1> USE KindFacts
<1>1. /\ Call(o, k) \/ UNCHANGED << api, watch >>
      /\ Writes(o, k) \/ ~Wanted(k, api["Site"].spec)
      /\ UNCHANGED cache
  BY DEF Done, NoChange, Leave, Advance, Call, Create, Update, DeleteOwned, SendsCreate,
         SendsUpdate, SendsDelete, Withdrawn
<1>2. api'["Site"] = api["Site"]
  BY <1>1, Published DEF Call, Create, Update, DeleteOwned
<1>3. ~Refused(k, api["Site"].spec) /\ ~Panics(k, api["Site"].spec)
  BY <1>1 DEF Writes, Wanted, Refused, Panics, MariaDBKinds
<1>4. CASE Done(o, k)
  <2>1. Asked(k)'
    BY <1>4, CallAsks DEF Done
  <2> QED
    BY <1>2, <1>3, <2>1 DEF Served
<1>5. CASE NoChange(o, k) \/ Leave(o, k)
  <2>1. api' = api /\ cache' = cache /\ watch' = watch
    BY <1>1, <1>5 DEF NoChange, Leave
  <2>2. k \in CachedKinds => Coming(o, k) \/ Asked(k)'
    BY <1>5, SkipServes
  <2>3. Coming(o, k) => Coming(o, k)'
    BY <2>1, ServedStill
  <2> QED
    BY <1>2, <1>3, <2>2, <2>3 DEF Served
<1> QED
  BY <1>4, <1>5

LEMMA StepAttended ==
    ASSUME IInv, IInv', NEW o \in Operators, NEW k \in ChildKinds, Attended(o),
           Done(o, k) \/ NoChange(o, k) \/ Leave(o, k)
    PROVE  Attended(o)'
<1> USE KindFacts
<1>1. /\ At(o, k) /\ Advance(o)
      /\ UNCHANGED << api, watch >> \/ \E v : Publish(k, v)
  BY DEF Done, NoChange, Leave, Call, Create, Update, DeleteOwned, SendsCreate, SendsUpdate,
         SendsDelete, Writes
<1>2. /\ pos'[o] = pos[o] + 1 /\ pos[o] \in 1..Len(Steps) /\ Steps[pos[o]] = k
      /\ UNCHANGED << cache, queue, work, err >>
  BY <1>1 DEF Advance, At, IInv, TypeOK, WorkerTypeOK
<1>3. PICK n \in 1..Len(Steps) : n = pos[o]
  BY <1>2
<1>4. ~Idle(o) /\ ~Idle(o)' /\ DoneSteps(o) = 1..(n - 1) /\ DoneSteps(o)' = 1..n
  BY <1>2, <1>3, StatusPosType DEF Idle, DoneSteps
<1>5. api'["Site"] = api["Site"] /\ (watch[o]["Site"] # << >> => watch'[o]["Site"] # << >>)
  BY <1>1, <1>2, Published, ComingPublished
<1>6. Awaken(o) => Awaken(o)'
  BY <1>2, <1>5 DEF Awaken
<1>7. ASSUME UpToNow(o), api["Site"] # Absent PROVE UpToNow(o)'
  <2>1. work[o] = api["Site"]
    BY <1>4, <1>7 DEF UpToNow
  <2>2. ASSUME NEW i \in 1..(n - 1) PROVE Served(o, Steps[i])'
    <3>1. Served(o, Steps[i]) /\ Steps[i] \in ChildKinds
      BY <1>4, <1>7, <2>2, StepFacts, StatusPosType DEF UpToNow
    <3>2. CASE UNCHANGED << api, watch >>
      BY <1>2, <3>1, <3>2, ServedStill
    <3>3. CASE \E v : Publish(k, v)
      BY <1>2, <1>5, <1>7, <3>1, <3>3, ServedPublished
    <3> QED
      BY <1>1, <3>2, <3>3
  <2>3. Served(o, Steps[n])'
    BY <1>2, <1>3, <2>1, StepServes
  <2>4. \A i \in 1..n : i \in 1..(n - 1) \/ i = n
    BY StatusPosType
  <2>5. \A i \in DoneSteps(o)' : Served(o, Steps[i])'
    BY <1>4, <2>2, <2>3, <2>4
  <2> QED
    BY <1>2, <1>4, <1>5, <2>1, <2>5 DEF UpToNow
<1> QED
  BY <1>4, <1>5, <1>6, <1>7 DEF Attended

-----------------------------------------------------------------------------
(* Every step.                                                             *)

\* Operator o will begin another pass: the one it is in fails, or it is told to.
Roused(o) == Awaken(o)' /\ (Idle(o)' => err'[o] = "none")

\* A step of the pass of o goes on, or the pass fails.
LEMMA PassAttended ==
    ASSUME IInv, IInv', PassHasPod, NEW o \in Operators, OperatorStep(o), Attended(o)
    PROVE  Attended(o)'
<1>1. ASSUME NEW e \in { "error", "panic" }, NEW k, At(o, k), Abandon(o, e) PROVE Roused(o)
  <2>1. pos'[o] = StatusPos /\ err'[o] = e
    BY <1>1 DEF Abandon, IInv, TypeOK, WorkerTypeOK
  <2> QED
    BY <1>1, <2>1, StatusPosType DEF Roused, Awaken, Idle
<1>2. ASSUME NEW k \in ChildKinds, Step(o, k) PROVE Attended(o)'
  <2>1. CASE Done(o, k) \/ NoChange(o, k) \/ Leave(o, k)
    BY <2>1, StepAttended
  <2>2. CASE AlreadyExists(o, k) \/ OwnedByOther(o, k) \/ Refuse(o, k)
    <3>1. At(o, k) /\ Abandon(o, "error")
      BY <2>2 DEF AlreadyExists, OwnedByOther, Refuse, Fail, SendsCreate, Writes
    <3> QED
      BY <1>1, <3>1 DEF Roused, Attended
  <2>3. ASSUME NEW t \in Tokens, Conflict(o, k, t) PROVE Attended(o)'
    <3>1. At(o, k) /\ Abandon(o, "error")
      BY <2>3 DEF Conflict, Fail, SendsUpdate, Writes
    <3> QED
      BY <1>1, <3>1 DEF Roused, Attended
  <2>4. CASE Panic(o, k)
    BY <1>1, <2>4 DEF Panic, Roused, Attended
  <2> QED
    BY <1>2, <2>1, <2>2, <2>3, <2>4 DEF Step
<1> QED
  BY <1>2, StartAttended, StatusAttended DEF OperatorStep

\* To operator o another one is one more user of the cluster.
LEMMA OthersTell ==
    ASSUME IInv, NEW o \in Operators, NEW p \in Operators, p # o, OperatorStep(p)
    PROVE  Still(o) \/ Told(o)
<1> USE KindFacts DEF Untouched
<1>1. ASSUME NEW k \in ChildKinds, Step(p, k) PROVE Still(o) \/ Told(o)
  <2>1. CASE Done(p, k)
    <3>1. \E v : Publish(k, v)
      BY <2>1 DEF Done, Call, Create, Update, DeleteOwned
    <3>2. Untouched(o) /\ UNCHANGED cache
      BY <2>1 DEF Done, Advance, IInv, TypeOK, WorkerTypeOK
    <3> QED
      BY <3>1, <3>2 DEF Told
  <2>2. CASE NoChange(p, k) \/ Leave(p, k)
    BY <2>2 DEF NoChange, Leave, Advance, Still, IInv, TypeOK, WorkerTypeOK
  <2>3. ASSUME NEW e, Abandon(p, e), UNCHANGED << api, watch >> PROVE Still(o)
    BY <2>3 DEF Abandon, Still, IInv, TypeOK, WorkerTypeOK
  <2>4. CASE AlreadyExists(p, k) \/ OwnedByOther(p, k) \/ Refuse(p, k)
    BY <2>3, <2>4 DEF AlreadyExists, OwnedByOther, Refuse, Fail
  <2>5. ASSUME NEW t \in Tokens, Conflict(p, k, t) PROVE Still(o)
    BY <2>3, <2>5 DEF Conflict, Fail
  <2>6. CASE Panic(p, k)
    BY <2>3, <2>6 DEF Panic
  <2> QED
    BY <1>1, <2>1, <2>2, <2>4, <2>5, <2>6 DEF Step
<1>2. CASE Start(p) \/ StartMissing(p)
  BY <1>2 DEF Start, StartMissing, Still, IInv, TypeOK, WorkerTypeOK
<1>3. CASE StatusMissing(p) \/ StatusConflict(p)
  BY <1>3 DEF StatusMissing, StatusConflict, Finish, Still, IInv, TypeOK, WorkerTypeOK
<1>4. CASE StatusWrite(p)
  <2>1. \E v : Publish("Site", v)
    BY <1>4 DEF StatusWrite
  <2>2. Untouched(o) /\ UNCHANGED cache
    BY <1>4 DEF StatusWrite, Finish, IInv, TypeOK, WorkerTypeOK
  <2> QED
    BY <2>1, <2>2 DEF Told
<1> QED
  BY <1>1, <1>2, <1>3, <1>4 DEF OperatorStep

\* What goes wrong wakes the operator it happens to.
LEMMA FaultAttended ==
    ASSUME IInv, PassHasPod, NEW o \in Operators, FaultStep, Attended(o)
    PROVE  Attended(o)'
<1> USE KindFacts
<1>1. PICK p \in Operators :
          \/ \E k \in ChildKinds : LostCall(p, k) \/ LostReply(p, k)
          \/ LostStatus(p) \/ Crash(p) \/ Resync(p)
  BY DEF FaultStep
<1>2. ASSUME NEW k \in ChildKinds, LostCall(p, k) \/ LostReply(p, k), p = o
      PROVE  Roused(o)
  <2>1. Abandon(o, "error")
    BY <1>2 DEF LostCall, LostReply
  <2>2. pos'[o] = StatusPos /\ err'[o] = "error"
    BY <2>1 DEF Abandon, IInv, TypeOK, WorkerTypeOK
  <2> QED
    BY <2>2, StatusPosType DEF Roused, Awaken, Idle
<1>3. ASSUME NEW k \in ChildKinds, LostCall(p, k) \/ LostReply(p, k), p # o
      PROVE  Still(o) \/ Told(o)
  <2>1. Untouched(o) /\ UNCHANGED cache
    BY <1>3 DEF LostCall, LostReply, Abandon, Untouched, IInv, TypeOK, WorkerTypeOK
  <2>2. LostCall(p, k) => Still(o)
    BY <2>1 DEF LostCall, Still
  <2>3. LostReply(p, k) => \E v : Publish(k, v)
    BY DEF LostReply, Call, Create, Update, DeleteOwned
  <2> QED
    BY <1>3, <2>1, <2>2, <2>3 DEF Told
<1>4. ASSUME LostStatus(p) \/ Crash(p) \/ Resync(p), p = o PROVE Roused(o)
  <2>1. queue'[o] = TRUE /\ (err'[o] = "none" \/ (err'[o] = err[o] /\ pos'[o] = pos[o]))
    BY <1>4 DEF LostStatus, Crash, Resync, IInv, TypeOK, WorkerTypeOK
  <2> QED
    BY <2>1 DEF Roused, Awaken, Idle, Attended
<1>5. ASSUME LostStatus(p) \/ Crash(p) \/ Resync(p), p # o PROVE Still(o)
  BY <1>5 DEF LostStatus, Crash, Resync, Still, Untouched, IInv, TypeOK, ViewTypeOK, WorkerTypeOK
<1>6. Still(o) \/ Told(o) \/ Roused(o)
  BY <1>1, <1>2, <1>3, <1>4, <1>5
<1> QED
  BY <1>6, StillAttended, ToldAttended DEF Roused, Attended

\* The rest of the cluster publishes.
LEMMA ClusterTells ==
    ASSUME ClusterStep \/ SiteUserStep \/ TamperStep, NEW o
    PROVE  Told(o)
<1> USE KindFacts, TamperAssumption DEF Others, Told, Untouched
<1>1. CASE ClusterStep
  BY <1>1 DEF ClusterStep, Collect, Rollout, VolumeReleased
<1>2. CASE SiteUserStep
  BY <1>2 DEF SiteUserStep, DeleteSite, EditSpec, CreateSite
<1>3. CASE TamperStep
  BY <1>3 DEF TamperStep, DeleteChild, Drift, Occupy, Recount, Reown
<1> QED
  BY <1>1, <1>2, <1>3

LEMMA NextAttended ==
    ASSUME IInv, IInv', PassHasPod, [Next]_vars, NEW o \in Operators, Attended(o)
    PROVE  Attended(o)'
<1>1. ASSUME NEW p \in Operators, OperatorStep(p) PROVE Attended(o)'
  <2>1. CASE p = o
    BY <1>1, <2>1, PassAttended
  <2>2. CASE p # o
    BY <1>1, <2>2, OthersTell, StillAttended, ToldAttended
  <2> QED
    BY <2>1, <2>2
<1>2. ASSUME NEW p \in Operators, NEW k \in CachedKinds, Deliver(p, k) PROVE Attended(o)'
  <2>1. CASE p = o
    BY <1>2, <2>1, DeliverAttended
  <2>2. CASE p # o
    <3>1. Still(o)
      BY <1>2, <2>2 DEF Deliver, Still, Untouched, IInv, TypeOK, ViewTypeOK, WorkerTypeOK
    <3> QED
      BY <3>1, StillAttended
  <2> QED
    BY <2>1, <2>2
<1>3. CASE ClusterStep \/ SiteUserStep \/ TamperStep
  BY <1>3, ClusterTells, ToldAttended
<1>4. CASE FaultStep
  BY <1>4, FaultAttended
<1>5. CASE UNCHANGED vars
  <2>1. Still(o)
    BY <1>5 DEF vars, Still, Untouched
  <2> QED
    BY <2>1, StillAttended
<1> QED
  BY <1>1, <1>2, <1>3, <1>4, <1>5 DEF Next

-----------------------------------------------------------------------------

\* Who is at rest is not awaken, and so is up to now, with nothing to come.
LEMMA RestIsServed == ASSUME RestInv, PassHasPod PROVE NothingMissed
<1> USE KindFacts
<1> SUFFICES ASSUME NEW o \in Operators, AtRest(o), api["Site"] # Absent
             PROVE  /\ Servable(api["Site"].spec)
                    /\ \A i \in 1..Len(Steps) : Steps[i] \in CachedKinds => Asked(Steps[i])
                    /\ StatusTrue
  BY DEF NothingMissed, Asked, StatusTrue
<1>1. Idle(o) /\ ~Awaken(o) /\ \A k \in CachedKinds : ~Coming(o, k)
  BY DEF AtRest, RestInv, Attended, Awaken, Coming
<1>2. UpToNow(o)
  BY <1>1 DEF RestInv, Attended
<1>3. \A i \in 1..Len(Steps) : Served(o, Steps[i])
  BY <1>1, <1>2 DEF UpToNow, DoneSteps
<1>4. Servable(api["Site"].spec)
  BY <1>3 DEF Served, Servable, Rejected, Panicking
<1>5. StatusTrue
  BY <1>1, <1>2 DEF UpToNow
<1> QED
  BY <1>1, <1>3, <1>4, <1>5 DEF Served

\* The order of Reconcile has a step for the Deployment.
LEMMA ReconcileHasPod == ASSUME Steps = ReconcileOrder PROVE PassHasPod
<1>1. Len(Steps) = 10 /\ Steps[7] = "Deployment"
  BY DEF ReconcileOrder
<1> QED
  BY <1>1 DEF PassHasPod

\* No wake-up is lost, whatever users do, whatever goes wrong, and however many
\* operators run: one that is idle with an empty queue and nothing on its way finds
\* the watched objects as the live Site asks for, a status that tells the state of
\* the Deployment, and no Site that its passes would fail on (Owns, For and the
\* requeue after an error suffice).
THEOREM NoWakeUpLost ==
    ASSUME PassHasPod
    PROVE  Spec => []NothingMissed
<1>1. Init => RestInv
  BY InitInv DEF Init, RestInv, Attended, Awaken
<1>2. RestInv /\ [Next]_vars => RestInv'
  BY NextInv, NextAttended DEF RestInv
<1>3. RestInv => NothingMissed
  BY RestIsServed
<1> QED
  BY <1>1, <1>2, <1>3, PTL DEF Spec
=============================================================================
