---------------------------- MODULE WPCronProofs ----------------------------
(***************************************************************************)
(* Proofs about WPCron, for any number of Sites, any deadline and any      *)
(* number of retries: its types, that a Job that failed says something of  *)
(* every Site (AlarmIsSystemic), and that a Site that answers is called in *)
(* time (CalledInTime).                                                    *)
(***************************************************************************)
EXTENDS WPCron, FiniteSetTheorems, WellFoundedInduction, TLAPS

\* Outside its loop the pod has listed nothing, between Jobs no pod has failed,
\* a request is under way only while a Site is left, and what was triggered was
\* listed.
Room ==
    /\ phase # "loop" => total = 0 /\ todo = {} /\ request = "none" /\ triggered = 0
    /\ ~Active => failures = 0
    /\ request # "none" => todo # {}
    /\ triggered + Cardinality(todo) <= total

TInv == TypeOK /\ Room

\* There is a first of a number of Sites, so the pod has always come to some Site.
LEMMA MinExists == ASSUME NEW T \in SUBSET Nat, T # {} PROVE \E m \in T : \A k \in T : m <= k
<1> DEFINE Less == OpToRel(<, Nat)
<1>1. IsWellFoundedOn(Less, Nat)
  BY NatLessThanWellFounded
<1>2. ASSUME NEW k \in Nat, NEW m \in Nat, << k, m >> \notin Less PROVE ~(k < m)
  <2> SUFFICES ASSUME k < m PROVE << k, m >> \in Less
    BY <1>2
  <2>1. << k, m >> \in Nat \X Nat /\ << k, m >>[1] < << k, m >>[2]
    OBVIOUS
  <2>2. << k, m >> \in { ss \in Nat \X Nat : ss[1] < ss[2] }
    BY <2>1
  <2> QED
    BY <2>2, Zenon DEF OpToRel
<1> HIDE DEF Less
<1>3. PICK m \in T : \A k \in T : ~(<< k, m >> \in Less)
  BY <1>1, WFMin
<1>4. ASSUME NEW k \in T PROVE m <= k
  <2>1. m \in Nat /\ k \in Nat
    OBVIOUS
  <2>2. << k, m >> \notin Less
    BY <1>3
  <2>3. ~(k < m)
    BY <1>2, <2>1, <2>2
  <2> QED
    BY <2>1, <2>3
<1> QED
  BY <1>4

\* The Site the pod has come to is one that is left.
LEMMA CurrentLeft == ASSUME todo \in SUBSET Sites, todo # {} PROVE Current \in todo
<1>1. todo \in SUBSET Nat
  BY CountAssumption DEF Sites
<1>2. \E s \in todo : \A r \in todo : s <= r
  BY <1>1, MinExists
<1> QED
  BY <1>2 DEF Current

\* A set of Sites is finite, and there are at most SiteCount of them.
LEMMA SiteSets ==
  ASSUME NEW T \in SUBSET Sites
  PROVE  IsFiniteSet(T) /\ Cardinality(T) \in Nat /\ Cardinality(T) <= SiteCount
<1>1. IsFiniteSet(Sites) /\ Cardinality(Sites) = SiteCount
  BY CountAssumption, FS_Interval DEF Sites
<1>2. IsFiniteSet(T) /\ Cardinality(T) <= Cardinality(Sites)
  BY <1>1, FS_Subset
<1> QED
  BY <1>1, <1>2, FS_CardinalityType

\* The pod is done with one of the Sites it had left.
LEMMA OneLess ==
  ASSUME NEW T \in SUBSET Sites, NEW s \in T
  PROVE  Cardinality(T \ {s}) = Cardinality(T) - 1
BY SiteSets, FS_RemoveElement

\* The next Site of the loop: what its outcome does to the counters.
LEMMA OutcomeRoom ==
  ASSUME TInv, phase = "loop", todo # {}, Outcome(Current), total' = total, phase' = phase,
         request' = "none"
  PROVE  /\ todo' = todo \ {Current} /\ Current \in todo /\ Current \in Sites
         /\ triggered' \in 0..total /\ Room'
         /\ Cardinality(todo') <= total
         /\ waited' \in [ Sites -> Nat ] /\ spoilt' \in [ Sites -> 0..changes ]
<1>1. todo' = todo \ {Current} /\ (triggered' = triggered \/ triggered' = triggered + 1)
  BY DEF Outcome, Trigger, GiveUp
<1>2. Current \in todo /\ todo \in SUBSET Sites
  BY CurrentLeft DEF TInv, TypeOK
<1>3. Cardinality(todo') = Cardinality(todo) - 1 /\ Cardinality(todo) \in Nat
      /\ Cardinality(todo') \in Nat
  BY <1>1, <1>2, OneLess, SiteSets
<1>4. triggered \in Nat /\ total \in Nat /\ triggered + Cardinality(todo) <= total
  BY CountAssumption DEF TInv, TypeOK, Room, Active
<1>5. triggered' \in 0..total /\ triggered' + Cardinality(todo') <= total
      /\ Cardinality(todo') <= total
  BY <1>1, <1>3, <1>4
<1>6. waited' \in [ Sites -> Nat ] /\ spoilt' \in [ Sites -> 0..changes ]
  BY <1>2, LimitAssumption DEF Outcome, Trigger, GiveUp, TInv, TypeOK, wait
<1> QED
  BY <1>1, <1>2, <1>5, <1>6 DEF Room, Active

\* Nothing is listed of a Job that has no pod, or has a new one.
LEMMA NoneListed ==
  ASSUME NothingListed, phase' # "loop", phase' = "none" => failures' = 0
  PROVE  Room' /\ total' \in 0..SiteCount /\ todo' \subseteq Sites /\ Cardinality(todo') <= total'
         /\ request' = "none" /\ triggered' \in 0..total'
<1>1. Cardinality({}) = 0
  BY FS_EmptySet
<1> QED
  BY <1>1, CountAssumption DEF NothingListed, Room, Active

\* A pod that fails is replaced, or its Job has failed.
LEMMA FailTypes ==
  ASSUME TInv, Active, NEW n \in {0, 1}, FailPod(n),
         health' \in [ Sites -> Healths ], sinceTick' \in 0..Interval, due' \in BOOLEAN,
         changes' \in 0..MaxChanges,
         waited' \in [ Sites -> Nat ], spoilt' \in [ Sites -> 0..changes' ]
  PROVE  TInv'
<1>1. CASE failures = BackoffLimit
  <2>1. EndJob("failed")
    BY <1>1 DEF FailPod
  <2> QED
    BY <2>1, NoneListed, TimesAssumption, LimitAssumption DEF EndJob, TInv, TypeOK
<1>2. CASE failures # BackoffLimit
  BY <1>2, NoneListed, TimesAssumption, LimitAssumption DEF FailPod, TInv, TypeOK
<1> QED
  BY <1>1, <1>2

\* So is one that exits, unless its run was good.
LEMMA ExitTypes ==
  ASSUME TInv, Active, NEW n \in {0, 1}, Exit(n),
         health' \in [ Sites -> Healths ], sinceTick' \in 0..Interval, due' \in BOOLEAN,
         changes' \in 0..MaxChanges,
         waited' \in [ Sites -> Nat ], spoilt' \in [ Sites -> 0..changes' ]
  PROVE  TInv'
<1>1. CASE RunFailed
  BY <1>1, FailTypes DEF Exit
<1>2. CASE ~RunFailed
  BY <1>2, NoneListed, TimesAssumption, LimitAssumption DEF Exit, EndJob, TInv, TypeOK
<1> QED
  BY <1>1, <1>2

\* What a change or a loss does to the histories.
LEMMA DisturbTypes ==
  ASSUME TypeOK, Disturb
  PROVE  /\ changes' \in 0..MaxChanges /\ changes' # changes
         /\ waited' \in [ Sites -> Nat ] /\ spoilt' \in [ Sites -> 0..changes' ]
BY LimitAssumption DEF TypeOK, Disturb

\* TInv is inductive.
LEMMA InitTInv == Init => TInv
<1> SUFFICES ASSUME Init PROVE TInv
  OBVIOUS
<1>1. Cardinality({}) = 0
  BY FS_EmptySet
<1>3. waited \in [ Sites -> Nat ] /\ spoilt \in [ Sites -> 0..changes ]
  BY DEF Init
<1>4. Cardinality(todo) = 0
  BY <1>1 DEF Init
<1>5. due \in BOOLEAN /\ quiet \in BOOLEAN
  BY Zenon DEF Init
<1>6. TypeOK
  BY <1>3, <1>4, <1>5, CountAssumption, TimesAssumption, LimitAssumption DEF Init, TypeOK
<1>7. Room
  BY <1>4 DEF Init, Room, Active
<1> QED
  BY <1>6, <1>7 DEF TInv

LEMMA NextTInv == TInv /\ [Next]_vars => TInv'
<1> SUFFICES ASSUME TInv, [Next]_vars PROVE TInv'
  OBVIOUS
<1> USE CountAssumption, TimesAssumption, LimitAssumption
<1>1. CASE Fire
  BY <1>1 DEF Fire, TInv, TypeOK, Room, Active, job, wait
<1>2. CASE BeginJob
  <2>1. due' \in BOOLEAN /\ quiet' \in BOOLEAN
    BY <1>2, Zenon DEF BeginJob
  <2>2. TypeOK'
    BY <1>2, <2>1 DEF BeginJob, TInv, TypeOK, wait
  <2>3. Room'
    BY <1>2 DEF BeginJob, TInv, Room, Active
  <2> QED
    BY <2>2, <2>3 DEF TInv
<1>3. CASE ExceedDeadline
  BY <1>3, NoneListed DEF ExceedDeadline, EndJob, TInv, TypeOK, time, wait
<1>4. CASE ListSites
  <2>1. todo' \in SUBSET Sites /\ total' = Cardinality(todo') /\ triggered' = 0
    BY <1>4 DEF ListSites, TInv, Room, Active
  <2>2. total' \in 0..SiteCount
    BY <2>1, SiteSets
  <2> QED
    BY <1>4, <2>1, <2>2 DEF ListSites, TInv, TypeOK, Room, Active, time, wait
<1>5. CASE CallAtOnce
  BY <1>5, OutcomeRoom DEF CallAtOnce, Calling, TInv, TypeOK, time
<1>6. CASE Call
  BY <1>6 DEF Call, Calling, TInv, TypeOK, Room, Active, time, wait
<1>7. CASE HangUp
  BY <1>7, OutcomeRoom DEF HangUp, Calling, TInv, TypeOK, time
<1>8. CASE Return
  BY <1>8, ExitTypes DEF Return, TInv, TypeOK, Active, time, wait
<1>9. CASE Tick
  <2>1. waited' \in [ Sites -> Nat ]
    BY <1>9 DEF Tick, TInv, TypeOK
  <2> QED
    BY <1>9, <2>1 DEF Tick, TInv, TypeOK, Room, Active
<1>10. ASSUME NEW s \in Sites, NEW h \in Healths, ChangeHealth(s, h) PROVE TInv'
  <2>1. changes' \in 0..MaxChanges /\ waited' \in [ Sites -> Nat ]
        /\ spoilt' \in [ Sites -> 0..changes' ]
    BY <1>10, DisturbTypes DEF ChangeHealth, TInv
  <2> QED
    BY <1>10, <2>1 DEF ChangeHealth, TInv, TypeOK, Room, Active, time
<1>11. CASE LosePod \/ StopPod
  <2>1. /\ changes' \in 0..MaxChanges /\ waited' \in [ Sites -> Nat ]
        /\ spoilt' \in [ Sites -> 0..changes' ]
        /\ health' \in [ Sites -> Healths ] /\ sinceTick' \in 0..Interval /\ due' \in BOOLEAN
    BY <1>11, DisturbTypes DEF LosePod, StopPod, Lose, TInv, TypeOK, time
  <2>2. CASE LosePod
    BY <2>1, <2>2, FailTypes DEF LosePod
  <2>3. CASE StopPod
    BY <2>1, <2>3, ExitTypes DEF StopPod, Active
  <2> QED
    BY <1>11, <2>2, <2>3
<1>12. CASE UNCHANGED vars
  BY <1>12 DEF vars, TInv, TypeOK, Room, Active
<1> QED
  BY <1>1, <1>2, <1>3, <1>4, <1>5, <1>6, <1>7, <1>8, <1>9, <1>10, <1>11, <1>12
  DEF Next, JobStep

\* The types: no more Sites are triggered than were listed, a Job is never older
\* than its deadline and never has more failed pods than its backoffLimit.
THEOREM CronTypes == Spec => []TypeOK
<1>1. TInv => TypeOK
  BY DEF TInv
<1> QED
  BY <1>1, InitTInv, NextTInv, PTL DEF Spec

-----------------------------------------------------------------------------

\* The Sites of which the pod knows that they linger, and the unit of time that
\* the current one has cost already.
Passed == { s \in Sites \ todo : health[s] \in Lingering }
Spent  == IF request = "over" THEN 1 ELSE 0

\* While no Site changes: only a Site that lingers is waited for,
Sent     == quiet /\ request # "none" => health[Current] \in Lingering
\* a pod that triggered nobody met nobody who answers,
Tried    == quiet /\ phase = "loop" /\ triggered = 0 => \A s \in Sites \ todo : health[s] \notin Answering
\* a Job whose pod failed without being lost has no Site that answers,
Hopeless == quiet /\ failures > lost => \A s \in Sites : health[s] \notin Answering
\* and the pods that were lost, and the present one, took no longer than the Sites
\* they waited for.
Elapsed  == lost * Lingerers + (IF phase = "list" THEN 0 ELSE Cardinality(Passed) + Spent)
OnTime   == quiet /\ Active /\ failures = lost => age <= Elapsed

Quiet == Sent /\ Tried /\ Hopeless /\ OnTime

QInv == TInv /\ Quiet

\* The Sites that linger, and those of them the pod has passed, are sets of Sites.
LEMMA LingerFacts ==
  ASSUME TypeOK
  PROVE  /\ IsFiniteSet(Passed) /\ Cardinality(Passed) \in Nat
         /\ Lingerers \in Nat /\ Cardinality(Passed) <= Lingerers
<1> DEFINE All == { s \in Sites : health[s] \in Lingering }
<1>1. All \in SUBSET Sites /\ Passed \in SUBSET All
  BY DEF Passed
<1>2. IsFiniteSet(All) /\ Cardinality(All) \in Nat
  BY <1>1, SiteSets
<1>3. IsFiniteSet(Passed) /\ Cardinality(Passed) <= Cardinality(All)
  BY <1>1, <1>2, FS_Subset
<1>4. Cardinality(Passed) \in Nat
  BY <1>3, FS_CardinalityType
<1> QED
  BY <1>2, <1>3, <1>4 DEF Lingerers

\* A pod waits for each Site that lingers once: the current one is not among those
\* it has passed.
LEMMA PodBound ==
  ASSUME QInv, quiet, phase = "loop"
  PROVE  Cardinality(Passed) + Spent \in Nat /\ Cardinality(Passed) + Spent <= Lingerers
<1>1. Cardinality(Passed) \in Nat /\ Lingerers \in Nat /\ Cardinality(Passed) <= Lingerers
  BY LingerFacts DEF QInv, TInv
<1>2. CASE request # "over"
  BY <1>1, <1>2 DEF Spent
<1>3. CASE request = "over"
  <2> DEFINE All == { s \in Sites : health[s] \in Lingering }
  <2>1. todo \in SUBSET Sites /\ todo # {}
    BY <1>3 DEF QInv, TInv, TypeOK, Room
  <2>2. Current \in todo /\ health[Current] \in Lingering
    BY <1>3, <2>1, CurrentLeft DEF QInv, Quiet, Sent
  <2>3. Current \in All /\ Current \notin Passed /\ Passed \in SUBSET All /\ All \in SUBSET Sites
    BY <2>1, <2>2 DEF Passed
  <2>4. IsFiniteSet(All \ {Current}) /\ Cardinality(All \ {Current}) = Cardinality(All) - 1
    BY <2>3, SiteSets, OneLess
  <2>5. Cardinality(Passed) <= Cardinality(All \ {Current})
    BY <2>3, <2>4, FS_Subset
  <2>6. Cardinality(Passed) + 1 <= Lingerers
    BY <1>1, <2>3, <2>4, <2>5, SiteSets DEF Lingerers
  <2> QED
    BY <1>1, <1>3, <2>6 DEF Spent
<1> QED
  BY <1>2, <1>3

\* One pod more, and each Site that lingers may have been waited for once more.
LEMMA OneMore ==
  ASSUME NEW n \in Nat, NEW k \in Nat
  PROVE  (n + 1) * k = n * k + k /\ n * k \in Nat
OBVIOUS

\* So a Job in which no Site changed, and all failed pods were lost, is no older
\* than the Sites that linger make it.
LEMMA AgeBound ==
  ASSUME QInv, quiet, Active, failures = lost
  PROVE  age <= (lost + 1) * Lingerers
<1> DEFINE Before == lost * Lingerers
<1>1. lost \in Nat /\ Lingerers \in Nat
  BY LimitAssumption, LingerFacts DEF QInv, TInv, TypeOK
<1>2. (lost + 1) * Lingerers = Before + Lingerers /\ Before \in Nat
  BY <1>1, OneMore
<1>3. age \in Nat /\ age <= Before + (IF phase = "list" THEN 0 ELSE Cardinality(Passed) + Spent)
  BY DEF QInv, Quiet, OnTime, Elapsed, TInv, TypeOK
<1> HIDE DEF Before
<1>4. CASE phase = "list"
  BY <1>1, <1>2, <1>3, <1>4
<1>5. CASE phase # "list"
  <2>1. phase = "loop"
    BY <1>5 DEF QInv, TInv, TypeOK, Active
  <2> QED
    BY <1>1, <1>2, <1>3, <1>5, <2>1, PodBound
<1> QED
  BY <1>4, <1>5

\* A Job that has ended, or that something happened to, has nothing to keep.
LEMMA Disturbed ==
  ASSUME (phase' = "none" /\ failures' = 0 /\ lost' = 0 /\ request' = "none") \/ quiet' = FALSE
  PROVE  Quiet'
<1>1. CASE phase' = "none" /\ failures' = 0 /\ lost' = 0 /\ request' = "none"
  BY <1>1 DEF Quiet, Sent, Tried, Hopeless, OnTime, Active
<1>2. CASE quiet' = FALSE
  BY <1>2 DEF Quiet, Sent, Tried, Hopeless, OnTime
<1> QED
  BY <1>1, <1>2

\* Where nothing happens to the list, the pod is at the same Site.
LEMMA Same ==
  ASSUME health' = health, todo' = todo
  PROVE  Current' = Current /\ Passed' = Passed /\ Lingerers' = Lingerers
BY DEF Current, Passed, Lingerers

\* A pod that fails was lost, or has met nobody who answers.
LEMMA QuietFailure ==
  ASSUME QInv, Active, NEW n \in {0, 1}, FailPod(n), health' = health,
         n = 1 \/ (quiet => \A s \in Sites : health[s] \notin Answering)
  PROVE  Quiet'
<1>1. CASE failures = BackoffLimit
  BY <1>1, Disturbed DEF FailPod, EndJob, NothingListed
<1>2. CASE failures # BackoffLimit
  <2>1. /\ phase' = "list" /\ request' = "none" /\ quiet' = quiet /\ failures' = failures + 1
        /\ lost' = lost + n /\ age' = age /\ lost \in Nat /\ failures \in Nat /\ lost <= failures
    BY <1>2, LimitAssumption DEF FailPod, NothingListed, QInv, TInv, TypeOK
  <2>2. Sent' /\ Tried'
    BY <2>1 DEF Sent, Tried
  <2>3. Hopeless'
    BY <2>1 DEF Hopeless, QInv, Quiet
  <2>4. Lingerers' = Lingerers /\ Lingerers \in Nat
    BY LingerFacts DEF Lingerers, QInv, TInv
  <2>5. SUFFICES ASSUME quiet', failures' = lost' PROVE age' <= Elapsed'
    BY <2>2, <2>3 DEF Quiet, OnTime
  <2>6. n = 1 /\ failures = lost /\ quiet
    BY <2>1, <2>5
  <2>7. age <= (lost + 1) * Lingerers /\ age \in Nat
    BY <2>6, AgeBound DEF QInv, TInv, TypeOK
  <2>8. Elapsed' = (lost + 1) * Lingerers + 0
    BY <2>1, <2>4, <2>6 DEF Elapsed
  <2>9. (lost + 1) * Lingerers \in Nat
    BY <2>1, <2>4, OneMore
  <2> QED
    BY <2>1, <2>7, <2>8, <2>9
<1> QED
  BY <1>1, <1>2

LEMMA QuietReturn == ASSUME QInv, Return PROVE Quiet'
<1>1. CASE RunFailed
  <2>1. quiet => \A s \in Sites : health[s] \notin Answering
    BY <1>1 DEF Return, RunFailed, QInv, Quiet, Tried
  <2> QED
    BY <1>1, <2>1, QuietFailure DEF Return, Exit, Active
<1>2. CASE ~RunFailed
  BY <1>2, Disturbed DEF Return, Exit, EndJob, NothingListed
<1> QED
  BY <1>1, <1>2

LEMMA QuietLoss == ASSUME QInv, LosePod \/ StopPod PROVE Quiet'
<1>1. CASE LosePod
  BY <1>1, QuietFailure DEF LosePod, Lose
<1>2. CASE StopPod /\ RunFailed
  BY <1>2, QuietFailure DEF StopPod, Lose, Exit, Active
<1>3. CASE StopPod /\ ~RunFailed
  BY <1>3, Disturbed DEF StopPod, Exit, EndJob, NothingListed
<1> QED
  BY <1>1, <1>2, <1>3

\* The outcome of a request: a Site that lingered is one more that was passed.
LEMMA QuietOutcome == ASSUME QInv, CallAtOnce \/ HangUp PROVE Quiet'
<1>1. /\ phase = "loop" /\ phase' = "loop" /\ request' = "none" /\ quiet' = quiet
      /\ health' = health /\ age' = age /\ failures' = failures /\ total' = total
      /\ lost' = lost /\ Lingerers' = Lingerers /\ Outcome(Current) /\ todo # {}
  BY DEF CallAtOnce, HangUp, Calling, Lingerers
<1>2. todo' = todo \ {Current} /\ Current \in todo /\ Current \in Sites
  BY <1>1, OutcomeRoom DEF QInv
<1>3. Sent'
  BY <1>1 DEF Sent
<1>4. Tried'
  <2> SUFFICES ASSUME quiet, triggered' = 0, NEW s \in Sites \ todo' PROVE health[s] \notin Answering
    BY <1>1 DEF Tried
  <2>1. triggered = 0 /\ health[Current] \notin Answering
    BY <1>1 DEF Outcome, Trigger, GiveUp, QInv, TInv, TypeOK
  <2>2. s = Current \/ s \in Sites \ todo
    BY <1>2
  <2> QED
    BY <1>1, <2>1, <2>2 DEF QInv, Quiet, Tried
<1>5. Hopeless'
  BY <1>1 DEF Hopeless, QInv, Quiet
<1>6. OnTime'
  <2> DEFINE Before == lost * Lingerers
  <2>0. Before' = Before /\ Before \in Nat
    <3>1. lost \in Nat /\ Lingerers \in Nat
      BY LingerFacts, LimitAssumption DEF QInv, TInv, TypeOK
    <3> QED
      BY <1>1, <3>1, OneMore
  <2> SUFFICES ASSUME quiet, failures = lost PROVE age <= Before + (Cardinality(Passed') + 0)
    BY <1>1, <2>0 DEF OnTime, Elapsed, Spent
  <2>1. age <= Before + (Cardinality(Passed) + Spent) /\ age \in Nat
    BY <1>1 DEF QInv, Quiet, OnTime, Elapsed, Active, TInv, TypeOK
  <2> HIDE DEF Before
  <2>2. IsFiniteSet(Passed) /\ Cardinality(Passed) \in Nat
    BY LingerFacts DEF QInv, TInv
  <2>3. Passed' \in SUBSET Sites /\ Passed \in SUBSET Passed'
    BY <1>1, <1>2 DEF Passed
  <2>4. IsFiniteSet(Passed') /\ Cardinality(Passed') \in Nat
    BY <2>3, SiteSets
  <2>5. CASE CallAtOnce
    <3>1. Cardinality(Passed) <= Cardinality(Passed')
      BY <2>3, <2>4, FS_Subset
    <3>2. Spent = 0
      BY <2>5 DEF CallAtOnce, Spent
    <3> QED
      BY <2>0, <2>1, <2>2, <2>4, <3>1, <3>2
  <2>6. CASE HangUp
    <3>1. health[Current] \in Lingering /\ Spent = 1
      BY <2>6 DEF HangUp, Spent, QInv, Quiet, Sent
    <3>2. Current \notin Passed /\ Passed' = Passed \cup {Current}
      BY <1>1, <1>2, <3>1 DEF Passed
    <3>3. Cardinality(Passed') = Cardinality(Passed) + 1
      BY <2>2, <3>2, FS_AddElement
    <3> QED
      BY <2>0, <2>1, <2>2, <2>4, <3>1, <3>3
  <2> QED
    BY <2>5, <2>6
<1> QED
  BY <1>3, <1>4, <1>5, <1>6 DEF Quiet

\* QInv is inductive.
LEMMA InitQInv == Init => QInv
<1> SUFFICES ASSUME Init PROVE QInv
  OBVIOUS
<1>1. TInv
  BY InitTInv
<1>2. Quiet
  BY DEF Init, Quiet, Sent, Tried, Hopeless, OnTime, Active
<1> QED
  BY <1>1, <1>2 DEF QInv

LEMMA NextQInv == QInv /\ [Next]_vars => QInv'
<1> SUFFICES ASSUME QInv, [Next]_vars PROVE Quiet'
  BY NextTInv DEF QInv
<1> USE DEF QInv
<1>1. CASE Fire \/ UNCHANGED vars
  <2>1. /\ Current' = Current /\ Passed' = Passed /\ Spent' = Spent /\ Lingerers' = Lingerers
        /\ UNCHANGED << health, phase, age, failures, todo, request, triggered, quiet, lost >>
    BY <1>1, Same DEF Fire, job, vars, Spent
  <2> QED
    BY <2>1 DEF Quiet, Sent, Tried, Hopeless, OnTime, Elapsed, Active
<1>2. CASE BeginJob
  <2>1. /\ phase' = "list" /\ age' = 0 /\ failures' = 0 /\ lost' = 0 /\ request' = "none"
    BY <1>2 DEF BeginJob, Active, TInv, Room
  <2>2. Sent' /\ Tried' /\ Hopeless'
    BY <2>1 DEF Sent, Tried, Hopeless
  <2>3. Lingerers' = Lingerers /\ Lingerers \in Nat
    BY <1>2, LingerFacts DEF BeginJob, Lingerers, TInv
  <2>4. Elapsed' = 0
    BY <2>1, <2>3 DEF Elapsed
  <2> QED
    BY <2>1, <2>2, <2>4 DEF Quiet, OnTime
<1>3. CASE ExceedDeadline
  BY <1>3, Disturbed DEF ExceedDeadline, EndJob, NothingListed
<1>4. CASE ListSites
  <2>1. /\ phase = "list" /\ phase' = "loop" /\ request' = "none" /\ health' = health
        /\ quiet' = quiet /\ failures' = failures /\ age' = age /\ lost' = lost
        /\ todo' = { s \in Sites : health[s] # "absent" }
    BY <1>4 DEF ListSites, TInv, Room
  <2>2. Sent' /\ Tried' /\ Hopeless'
    BY <2>1 DEF Sent, Tried, Hopeless, Quiet, Answering
  <2>3. Passed' \in SUBSET Sites /\ Spent' = 0
    BY <2>1 DEF Passed, Spent
  <2>4. Cardinality(Passed') \in Nat
    BY <2>3, SiteSets
  <2>5. OnTime'
    <3> DEFINE Before == lost * Lingerers
    <3>1. Lingerers' = Lingerers /\ Before' = Before /\ Before \in Nat
      BY <2>1, LingerFacts, LimitAssumption, OneMore DEF Lingerers, TInv, TypeOK
    <3>2. SUFFICES ASSUME quiet, failures = lost PROVE age <= Before + (Cardinality(Passed') + Spent')
      BY <2>1, <3>1 DEF OnTime, Elapsed
    <3>3. age <= Before + 0
      BY <2>1, <3>2 DEF OnTime, Elapsed, Quiet, Active
    <3> HIDE DEF Before
    <3> QED
      BY <2>3, <2>4, <3>1, <3>3 DEF TInv, TypeOK
  <2> QED
    BY <2>2, <2>5 DEF Quiet
<1>5. CASE CallAtOnce \/ HangUp
  BY <1>5, QuietOutcome
<1>6. CASE Call
  <2>1. /\ Current' = Current /\ Passed' = Passed /\ Spent' = Spent /\ Lingerers' = Lingerers
        /\ health[Current] \in Lingering
        /\ UNCHANGED << health, phase, age, failures, todo, triggered, quiet, lost >>
    BY <1>6, Same DEF Call, Spent
  <2> QED
    BY <2>1 DEF Quiet, Sent, Tried, Hopeless, OnTime, Elapsed, Active
<1>7. CASE Return
  BY <1>7, QuietReturn
<1>8. CASE Tick
  <2>1. /\ Current' = Current /\ Passed' = Passed /\ Lingerers' = Lingerers
        /\ UNCHANGED << health, phase, failures, todo, triggered, quiet, lost >>
    BY <1>8, Same DEF Tick
  <2>2. Sent' /\ Tried' /\ Hopeless'
    BY <1>8, <2>1 DEF Tick, Quiet, Sent, Tried, Hopeless
  <2>3. OnTime'
    <3>1. CASE Active
      <4>1. request = "sent" /\ age' = age + 1 /\ Spent = 0 /\ Spent' = 1 /\ phase = "loop"
        BY <1>8, <3>1 DEF Tick, Spent, TInv, Room
      <4>2. Cardinality(Passed) \in Nat /\ age \in Nat
        BY LingerFacts DEF TInv, TypeOK
      <4>3. lost * Lingerers \in Nat
        BY LingerFacts, LimitAssumption, OneMore DEF TInv, TypeOK
      <4>4. Elapsed = lost * Lingerers + (Cardinality(Passed) + 0)
            /\ Elapsed' = lost * Lingerers + (Cardinality(Passed) + 1)
        BY <2>1, <4>1 DEF Elapsed
      <4>5. Elapsed' = Elapsed + 1 /\ Elapsed \in Nat
        BY <4>2, <4>3, <4>4
      <4> QED
        BY <2>1, <3>1, <4>1, <4>2, <4>5 DEF OnTime, Quiet, Active
    <3>2. CASE ~Active
      BY <2>1, <3>2 DEF OnTime, Active
    <3> QED
      BY <3>1, <3>2
  <2> QED
    BY <2>2, <2>3 DEF Quiet
<1>9. ASSUME NEW s \in Sites, NEW h \in Healths, ChangeHealth(s, h) PROVE Quiet'
  <2>1. CASE Active
    BY <1>9, <2>1, Disturbed DEF ChangeHealth
  <2>2. CASE ~Active
    <3>1. failures = 0 /\ lost = 0 /\ phase = "none" /\ request = "none"
      BY <2>2 DEF TInv, TypeOK, Room, Active
    <3> QED
      BY <1>9, <3>1, Disturbed DEF ChangeHealth
  <2> QED
    BY <2>1, <2>2
<1>10. CASE LosePod \/ StopPod
  BY <1>10, QuietLoss
<1> QED
  BY <1>1, <1>2, <1>3, <1>4, <1>5, <1>6, <1>7, <1>8, <1>9, <1>10 DEF Next, JobStep

\* A Job ends with an error, though no Site changed, for one of three reasons: a pod
\* met nobody who answers, all of them were lost, or Sites that linger used up its
\* deadline.
LEMMA FailedJob ==
  ASSUME QInv, [Next]_vars, Active, quiet, phase' = "none", verdict' = "failed"
  PROVE  \/ \A s \in Sites : health[s] \notin Answering
         \/ lost = BackoffLimit /\ changes' # changes
         \/ Deadline <= (1 + lost) * Lingerers
<1>1. failures \in Nat /\ lost \in Nat /\ lost <= failures /\ changes \in Nat
  BY LimitAssumption DEF QInv, TInv, TypeOK
<1>2. CASE failures # lost
  BY <1>1, <1>2 DEF QInv, Quiet, Hopeless
<1>3. CASE failures = lost /\ ExceedDeadline
  <2>1. age = Deadline /\ age <= (lost + 1) * Lingerers
    BY <1>3, AgeBound DEF ExceedDeadline
  <2>2. lost + 1 = 1 + lost
    BY <1>1
  <2> QED
    BY <2>1, <2>2
<1>4. CASE Return
  <2>1. RunFailed
    BY <1>4 DEF Return, Exit, EndJob
  <2> QED
    BY <1>4, <2>1 DEF Return, RunFailed, QInv, Quiet, Tried
<1>5. CASE failures = lost /\ (LosePod \/ StopPod)
  <2>1. changes' # changes
    BY <1>1, <1>5 DEF LosePod, StopPod, Lose, Disturb
  <2>2. failures = BackoffLimit
    BY <1>5 DEF LosePod, StopPod, Exit, FailPod, EndJob
  <2> QED
    BY <1>5, <2>1, <2>2
<1> QED
  BY <1>2, <1>3, <1>4, <1>5
  DEF Next, JobStep, Fire, BeginJob, ListSites, CallAtOnce, Call, HangUp, Tick, ChangeHealth,
      Active, vars, job, Calling

\* wpcron.go:43: a Job during which no Site changed fails only for a reason that
\* concerns every Site, because its pods were lost, or because more Sites linger
\* than its deadline has room for.
THEOREM Systemic == Spec => AlarmIsSystemic
<1>1. QInv /\ [Next]_vars
      => [ Active /\ quiet /\ phase' = "none" /\ verdict' = "failed" =>
             \/ \A s \in Sites : health[s] \notin Answering
             \/ lost = BackoffLimit /\ changes' # changes
             \/ Deadline <= (1 + lost) * Lingerers ]_vars
  BY FailedJob
<1> QED
  BY <1>1, InitQInv, NextQInv, PTL DEF Spec, AlarmIsSystemic

-----------------------------------------------------------------------------

\* Whether the active Job will still request s, for all that happened in it.
Pending(s) == Undisturbed /\ (phase = "list" \/ s \in todo)

\* How long s can have been waiting: an interval for each Job that was disturbed, and
\* what the schedule and the present Job make it wait.
Due(s) ==
    IF Active THEN IF Pending(s) THEN Interval + age ELSE age
              ELSE IF due THEN Interval ELSE sinceTick

Limit(s) == Interval * spoilt[s] + Due(s)

\* Unless the schedule came round again, a Job is no older than its tick.
Younger == Active /\ ~due => age <= sinceTick
Resting == \A s \in Sites : ~Expects(s) => waited[s] = 0
Waits   == \A s \in Sites : Expects(s) => waited[s] <= Limit(s)

WInv == QInv /\ Younger /\ Resting /\ Waits

\* cronjob.yaml: the Jobs may take as long as the schedule lets pass, 300 seconds.
OneRound == Deadline <= Interval

\* An interval for each disturbed Job is so much time, and more for one more.
LEMMA Spoiling ==
  ASSUME NEW n \in Nat
  PROVE  Interval * n \in Nat /\ Interval * (n + 1) = Interval * n + Interval
         /\ Interval * (1 + n) = Interval * n + Interval
BY TimesAssumption

LEMMA DueNat == ASSUME TypeOK, NEW s \in Sites PROVE Due(s) \in Nat /\ Interval * spoilt[s] \in Nat
<1>1. spoilt[s] \in Nat /\ age \in Nat /\ sinceTick \in Nat /\ Interval \in Nat
  BY LimitAssumption, TimesAssumption DEF TypeOK
<1> QED
  BY <1>1, Spoiling DEF Due

\* Nothing is promised but of Sites that may expect their call, and a step that
\* changes no Site leaves these the same.
LEMMA ExpectsSame == ASSUME health' = health PROVE \A s \in Sites : Expects(s)' <=> Expects(s)
BY DEF Expects, Fits, Lingerers

\* When a step that disturbs nothing leaves what s waited for alone, it is enough
\* that what is due to s does not shrink.
LEMMA Leaves ==
  ASSUME TypeOK, TypeOK', NEW s \in Sites, waited[s] <= Limit(s),
         waited'[s] = waited[s], spoilt'[s] = spoilt[s], Due(s) <= Due(s)'
  PROVE  waited'[s] <= Limit(s)'
<1> DEFINE Spent0 == Interval * spoilt[s]
<1>1. Due(s) \in Nat /\ Due(s)' \in Nat /\ Spent0 \in Nat /\ waited[s] \in Nat
  <2>1. Due(s) \in Nat /\ Spent0 \in Nat /\ waited[s] \in Nat
    BY DueNat DEF TypeOK
  <2>2. Due(s)' \in Nat
    <3>1. age' \in Nat /\ sinceTick' \in Nat /\ Interval \in Nat
      BY TimesAssumption DEF TypeOK
    <3> QED
      BY <3>1 DEF Due
  <2> QED
    BY <2>1, <2>2
<1>2. waited[s] <= Spent0 + Due(s)
  BY DEF Limit
<1>3. Limit(s)' = Spent0 + Due(s)'
  BY DEF Limit
<1> HIDE DEF Spent0
<1> QED
  BY <1>1, <1>2, <1>3

\* A Job in which nothing happened and some Site expects its call is on its first
\* pod, and is done before its deadline.
LEMMA FirstPod ==
  ASSUME QInv, Active, Undisturbed, NEW s \in Sites, Expects(s)
  PROVE  failures = 0 /\ age <= Lingerers /\ age < Deadline
<1>1. failures = 0 /\ lost = 0
  BY LimitAssumption DEF QInv, TInv, TypeOK, Quiet, Hopeless, Undisturbed, Expects
<1>2. Lingerers \in Nat
  BY LingerFacts DEF QInv, TInv
<1>3. (0 + 1) * Lingerers = Lingerers
  BY <1>2
<1>4. age <= Lingerers
  BY <1>1, <1>3, AgeBound DEF Undisturbed
<1> QED
  BY <1>1, <1>2, <1>4, TimesAssumption DEF Expects, Fits, QInv, TInv, TypeOK

\* When a Job ends, what is due to a Site that it did not leave out does not shrink:
\* the Job took no longer than its tick is ago, or than the interval.
LEMMA Ended ==
  ASSUME OneRound, TypeOK, Younger, Active, phase' = "none", UNCHANGED time,
         NEW s \in Sites
  PROVE  age <= Due(s)'
<1>1. age \in Nat /\ age <= Interval
  BY TimesAssumption DEF OneRound, TypeOK
<1>2. Due(s)' = IF due THEN Interval ELSE sinceTick
  BY DEF Due, Active, time
<1>3. ~due => age <= sinceTick
  BY DEF Younger
<1> QED
  BY <1>1, <1>2, <1>3

\* The pod that is lost or has failed leaves its Job a new one, or none.
LEMMA Replaced ==
  ASSUME OneRound, TypeOK, Younger, Active, NEW n \in {0, 1}, FailPod(n), UNCHANGED time,
         n = 1 \/ ~Undisturbed, NEW s \in Sites
  PROVE  age <= Due(s)'
<1>1. CASE failures = BackoffLimit
  BY <1>1, Ended DEF FailPod, EndJob
<1>2. CASE failures # BackoffLimit
  <2>1. phase' = "list" /\ age' = age /\ lost' = lost + n /\ quiet' = quiet /\ lost \in Nat
        /\ age \in Nat
    BY <1>2, LimitAssumption DEF FailPod, TypeOK
  <2>2. ~Undisturbed'
    BY <2>1 DEF Undisturbed
  <2> QED
    BY <2>1, <2>2 DEF Due, Active, Pending
<1> QED
  BY <1>1, <1>2

LEMMA Exited ==
  ASSUME OneRound, TypeOK, Younger, Active, NEW n \in {0, 1}, Exit(n), UNCHANGED time,
         n = 1 \/ ~RunFailed \/ ~Undisturbed, NEW s \in Sites
  PROVE  age <= Due(s)'
<1>1. CASE RunFailed
  BY <1>1, Replaced DEF Exit
<1>2. CASE ~RunFailed
  BY <1>2, Ended DEF Exit, EndJob
<1> QED
  BY <1>1, <1>2

\* A step that disturbs nothing leaves the limits kept.
LEMMA WaitsStep ==
  ASSUME OneRound, WInv, [Next]_vars, TypeOK', changes' = changes, NEW s \in Sites, Expects(s)
  PROVE  waited'[s] <= Limit(s)'
<1>1. waited[s] <= Limit(s) /\ waited[s] \in Nat
  BY DEF WInv, Waits, QInv, TInv, TypeOK
<1>2. TypeOK /\ Younger /\ QInv
  BY DEF WInv, QInv, TInv
<1> USE TimesAssumption
<1>3. CASE Fire
  <2>1. sinceTick = Interval /\ due' /\ phase' = phase /\ age' = age /\ Pending(s)' = Pending(s)
        /\ waited' = waited /\ spoilt' = spoilt
    BY <1>3 DEF Fire, job, Pending, Undisturbed, wait
  <2>2. Due(s) <= Due(s)'
    BY <1>2, <2>1 DEF Due, Active, TypeOK
  <2> QED
    BY <1>1, <1>2, <2>1, <2>2, Leaves
<1>4. CASE BeginJob
  <2>1. Due(s) = Interval /\ waited' = waited /\ spoilt' = spoilt
    BY <1>4 DEF BeginJob, Due, wait
  <2>2. Due(s)' = Interval
    BY <1>4 DEF BeginJob, Due, Active, Pending, Undisturbed
  <2> QED
    BY <1>1, <1>2, <2>1, <2>2, Leaves
<1>5. CASE ExceedDeadline
  <2>1. Active /\ age = Deadline /\ phase' = "none" /\ UNCHANGED time
        /\ waited' = waited /\ spoilt' = spoilt
    BY <1>5 DEF ExceedDeadline, EndJob, wait
  <2>2. ~Undisturbed
    BY <1>2, <2>1, FirstPod
  <2>3. Due(s) = age
    BY <2>1, <2>2 DEF Due, Pending
  <2> QED
    BY <1>1, <1>2, <2>1, <2>3, Ended, Leaves
<1>6. CASE ListSites
  <2>1. phase = "list" /\ phase' = "loop" /\ s \in todo' /\ UNCHANGED << quiet, lost, age >>
        /\ waited' = waited /\ spoilt' = spoilt
    BY <1>6 DEF ListSites, Answering, Expects, wait
  <2>2. Due(s) <= Due(s)'
    BY <1>2, <2>1 DEF Due, Active, Pending, Undisturbed, TypeOK
  <2> QED
    BY <1>1, <1>2, <2>1, <2>2, Leaves
<1>7. CASE CallAtOnce \/ HangUp
  <2>1. phase = "loop" /\ phase' = "loop" /\ UNCHANGED << quiet, lost, age, health >>
        /\ Outcome(Current) /\ waited \in [ Sites -> Nat ] /\ spoilt \in [ Sites -> 0..changes ]
    BY <1>2, <1>7 DEF CallAtOnce, HangUp, Calling, TypeOK
  <2>2. CASE s = Current
    <3>1. waited'[s] = 0 /\ spoilt'[s] = 0
      BY <2>1, <2>2 DEF Outcome, Trigger, Expects
    <3>2. Limit(s)' = Interval * 0 + Due(s)'
      BY <3>1 DEF Limit
    <3>3. age \in Nat /\ Due(s)' \in { Interval + age, age }
      BY <1>2, <2>1 DEF Due, Active, TypeOK
    <3>4. Limit(s)' \in Nat
      BY <3>2, <3>3
    <3> QED
      BY <3>1, <3>4
  <2>3. CASE s # Current
    <3>1. waited'[s] = waited[s] /\ spoilt'[s] = spoilt[s] /\ (s \in todo' <=> s \in todo)
      BY <2>1, <2>3 DEF Outcome, Trigger, GiveUp, wait
    <3>2. Due(s) <= Due(s)'
      BY <1>2, <2>1, <3>1 DEF Due, Active, Pending, Undisturbed, TypeOK
    <3> QED
      BY <1>1, <1>2, <3>1, <3>2, Leaves
  <2> QED
    BY <2>2, <2>3
<1>8. CASE Call \/ UNCHANGED vars
  <2>1. UNCHANGED << phase, quiet, lost, age, todo, waited, spoilt, sinceTick, due >>
    BY <1>8 DEF Call, vars, time, wait
  <2>2. Due(s)' = Due(s) /\ Due(s) \in Nat
    BY <1>2, <2>1, DueNat DEF Due, Active, Pending, Undisturbed
  <2> QED
    BY <1>1, <1>2, <2>1, <2>2, Leaves
<1>9. CASE Return
  <2>1. /\ phase = "loop" /\ todo = {} /\ Exit(0) /\ Active /\ UNCHANGED time
        /\ waited' = waited /\ spoilt' = spoilt
    BY <1>9 DEF Return, Active, wait
  <2>2. ~RunFailed \/ ~Undisturbed
    BY <1>2, <2>1 DEF RunFailed, Undisturbed, QInv, Quiet, Tried, Expects
  <2>3. Due(s) = age
    BY <2>1 DEF Due, Pending
  <2> QED
    BY <1>1, <1>2, <2>1, <2>2, <2>3, Exited, Leaves
<1>10. CASE Tick
  <2> DEFINE Before == Interval * spoilt[s]
  <2>1. waited'[s] = waited[s] + 1 /\ spoilt' = spoilt
    BY <1>10 DEF Tick
  <2>2. Due(s)' = Due(s) + 1
    <3>1. CASE Active
      <4>1. phase' = phase /\ age' = age + 1 /\ Pending(s)' = Pending(s)
        BY <1>10, <3>1 DEF Tick, Pending, Undisturbed
      <4> QED
        BY <1>2, <3>1, <4>1 DEF Due, Active, TypeOK
    <3>2. CASE ~Active
      <4>1. phase' = phase /\ ~due /\ due' = due /\ sinceTick' = sinceTick + 1
        BY <1>10, <3>2 DEF Tick
      <4> QED
        BY <1>2, <3>2, <4>1 DEF Due, Active, TypeOK
    <3> QED
      BY <3>1, <3>2
  <2>3. Due(s) \in Nat /\ Before \in Nat
    BY <1>2, DueNat
  <2>4. Limit(s) = Before + Due(s) /\ Limit(s)' = Before + Due(s)'
    BY <2>1 DEF Limit
  <2> HIDE DEF Before
  <2> QED
    BY <1>1, <2>1, <2>2, <2>3, <2>4
<1>11. CASE (\E r \in Sites, h \in Healths : ChangeHealth(r, h)) \/ LosePod \/ StopPod
  BY <1>2, <1>11, DisturbTypes DEF ChangeHealth, LosePod, StopPod, Lose
<1> QED
  BY <1>3, <1>4, <1>5, <1>6, <1>7, <1>8, <1>9, <1>10, <1>11 DEF Next, JobStep

\* Neither does a change, nor a loss: what it takes from what is due to a Site, an
\* interval at most, the disturbed Job counts for.
LEMMA WaitsDisturbed ==
  ASSUME OneRound, WInv, Disturb, TypeOK', NEW s \in Sites, Expects(s)', UNCHANGED time,
         \/ UNCHANGED << phase, age, todo, lost >> /\ quiet' = ~Active
         \/ LosePod \/ StopPod
  PROVE  waited'[s] <= Limit(s)'
<1> USE TimesAssumption
<1>1. TypeOK /\ Younger
  BY DEF WInv, QInv, TInv
<1> DEFINE Before == Interval * spoilt[s]
<1>2. spoilt[s] \in Nat /\ Before \in Nat /\ Due(s) \in Nat
  BY <1>1, LimitAssumption, DueNat DEF TypeOK
<1>3. waited'[s] = waited[s] /\ waited[s] \in Nat /\ waited[s] <= Before + Due(s)
  <2>1. waited'[s] = waited[s] /\ waited[s] \in Nat
    BY <1>1 DEF Disturb, TypeOK
  <2>2. CASE Expects(s)
    BY <2>1, <2>2 DEF WInv, Waits, Limit
  <2>3. CASE ~Expects(s)
    <3>1. waited[s] = 0
      BY <2>3 DEF WInv, Resting
    <3> QED
      BY <1>2, <2>1, <3>1
  <2> QED
    BY <2>2, <2>3
<1>4. CASE ~Active
  <2>1. UNCHANGED << phase, age, todo, lost >> /\ spoilt'[s] = spoilt[s] + 0
    BY <1>4 DEF LosePod, StopPod, Disturb, Active
  <2>2. Due(s)' = Due(s) /\ spoilt'[s] = spoilt[s]
    BY <1>2, <1>4, <2>1 DEF Due, Active, time
  <2>3. Limit(s)' = Before + Due(s)'
    BY <2>2 DEF Limit
  <2> HIDE DEF Before
  <2> QED
    BY <1>2, <1>3, <2>2, <2>3
<1>5. CASE Active
  <2>1. age <= Due(s)' /\ Due(s)' \in Nat /\ age \in Nat
    <3>1. Due(s)' \in Nat /\ age \in Nat
      <4>1. age' \in Nat /\ sinceTick' \in Nat /\ Interval \in Nat /\ age \in Nat
        BY <1>1 DEF TypeOK
      <4>2. Due(s)' \in { Interval + age', age', Interval, sinceTick' }
        BY DEF Due
      <4> QED
        BY <4>1, <4>2
    <3>2. CASE UNCHANGED << phase, age, todo, lost >> /\ quiet' = ~Active
      BY <1>5, <3>1, <3>2 DEF Due, Active, Pending, Undisturbed
    <3>3. CASE LosePod
      BY <1>1, <1>5, <3>1, <3>3, Replaced DEF LosePod
    <3>4. CASE StopPod
      BY <1>1, <1>5, <3>1, <3>4, Exited DEF StopPod
    <3> QED
      BY <3>1, <3>2, <3>3, <3>4
  <2>2. CASE Undisturbed
    <3>1. spoilt'[s] = spoilt[s] + 1
      BY <1>5, <2>2 DEF Disturb
    <3>2. Limit(s)' = Interval * (spoilt[s] + 1) + Due(s)'
      BY <3>1 DEF Limit
    <3>3. Interval * (spoilt[s] + 1) = Before + Interval
      BY <1>2, Spoiling
    <3>4. Due(s) <= Interval + age
      BY <1>5, <2>1 DEF Due
    <3> HIDE DEF Before
    <3> QED
      BY <1>2, <1>3, <2>1, <3>2, <3>3, <3>4
  <2>3. CASE ~Undisturbed
    <3>1. spoilt'[s] = spoilt[s] + 0
      BY <2>3 DEF Disturb
    <3>2. Limit(s)' = Before + Due(s)'
      BY <1>2, <3>1 DEF Limit
    <3>3. Due(s) = age
      BY <1>5, <2>3 DEF Due, Pending
    <3> HIDE DEF Before
    <3> QED
      BY <1>2, <1>3, <2>1, <3>2, <3>3
  <2> QED
    BY <2>2, <2>3
<1> QED
  BY <1>4, <1>5

\* A Job keeps its distance from the tick that started it.
LEMMA NextYounger == ASSUME WInv, [Next]_vars, TypeOK' PROVE Younger'
<1> DEFINE Kept == ~Active' \/ (Active /\ UNCHANGED << age, sinceTick, due >>)
<1>1. TypeOK /\ Younger
  BY DEF WInv, QInv, TInv
<1>2. CASE Tick
  BY <1>1, <1>2, TimesAssumption DEF Tick, Younger, Active, TypeOK
<1>3. CASE BeginJob
  BY <1>1, <1>3 DEF BeginJob, Younger, TypeOK
<1>4. CASE Fire
  BY <1>4 DEF Fire, Younger
<1>5. CASE Kept
  BY <1>1, <1>5 DEF Younger
<1>6. ASSUME NEW n \in {0, 1}, FailPod(n) \/ Exit(n), Active, UNCHANGED time
      PROVE  Kept
  BY <1>6 DEF FailPod, Exit, EndJob, Active, time
<1>7. Return \/ LosePod \/ StopPod => Kept
  BY <1>6 DEF Return, LosePod, StopPod, Lose, Active, time
<1>8. ListSites \/ CallAtOnce \/ Call \/ HangUp \/ UNCHANGED vars => Kept
  BY DEF ListSites, CallAtOnce, Call, HangUp, Active, vars, time
<1>9. (\E r \in Sites, h \in Healths : ChangeHealth(r, h)) => Kept
  BY DEF ChangeHealth, Active, time
<1>10. ExceedDeadline => Kept
  BY DEF ExceedDeadline, EndJob, Active
<1> QED
  BY <1>2, <1>3, <1>4, <1>5, <1>7, <1>8, <1>9, <1>10 DEF Next, JobStep

\* A step is one of those that change a Site or lose a pod, or it leaves the Sites be.
LEMMA Kinds ==
  ASSUME QInv, [Next]_vars
  PROVE  \/ /\ Disturb /\ UNCHANGED time
            /\ \/ UNCHANGED << phase, age, todo, lost >> /\ quiet' = ~Active
               \/ LosePod \/ StopPod
         \/ changes' = changes /\ health' = health
BY DEF Next, JobStep, Fire, BeginJob, ExceedDeadline, ListSites, CallAtOnce, Call, HangUp,
       Return, Tick, ChangeHealth, LosePod, StopPod, Lose, vars

\* What did not wait still does not.
LEMMA NextResting == ASSUME WInv, [Next]_vars PROVE Resting'
<1>1. TypeOK /\ QInv
  BY DEF WInv, QInv, TInv
<1>2. CASE Disturb
  BY <1>2 DEF Disturb, Resting
<1>3. CASE Tick
  BY <1>3, ExpectsSame DEF Tick, Resting
<1>4. CASE (CallAtOnce \/ HangUp)
  <2>1. health' = health /\ Outcome(Current) /\ waited \in [ Sites -> Nat ]
    BY <1>1, <1>4 DEF CallAtOnce, HangUp, TypeOK
  <2>2. \A s \in Sites : waited'[s] = waited[s] \/ waited'[s] = 0
    BY <2>1 DEF Outcome, Trigger, GiveUp, wait
  <2> QED
    BY <2>1, <2>2, ExpectsSame DEF WInv, Resting
<1>5. CASE health' = health /\ waited' = waited
  BY <1>5, ExpectsSame DEF WInv, Resting
<1> QED
  BY <1>2, <1>3, <1>4, <1>5
  DEF Next, JobStep, Fire, BeginJob, ExceedDeadline, ListSites, Call, Return, ChangeHealth,
      LosePod, StopPod, Lose, vars, wait

\* WInv is inductive.
LEMMA NextWInv == OneRound /\ WInv /\ [Next]_vars => WInv'
<1> SUFFICES ASSUME OneRound, WInv, [Next]_vars PROVE WInv'
  OBVIOUS
<1>1. QInv' /\ TypeOK' /\ QInv
  BY NextQInv DEF WInv, QInv, TInv
<1>2. Younger' /\ Resting'
  BY <1>1, NextYounger, NextResting
<1>3. CASE changes' = changes /\ health' = health
  <2>1. Waits'
    BY <1>1, <1>3, ExpectsSame, WaitsStep DEF Waits
  <2> QED
    BY <1>1, <1>2, <2>1 DEF WInv
<1>4. CASE Disturb /\ UNCHANGED time /\ (\/ UNCHANGED << phase, age, todo, lost >> /\ quiet' = ~Active
                                         \/ LosePod \/ StopPod)
  <2>1. Waits'
    BY <1>1, <1>4, WaitsDisturbed DEF Waits
  <2> QED
    BY <1>1, <1>2, <2>1 DEF WInv
<1> QED
  BY <1>1, <1>3, <1>4, Kinds

LEMMA InitWInv == Init => WInv
<1> SUFFICES ASSUME Init PROVE WInv
  OBVIOUS
<1>1. QInv
  BY InitQInv
<1>2. Younger /\ Resting
  BY DEF Init, Younger, Resting, Active
<1>3. Waits
  <2> SUFFICES ASSUME NEW s \in Sites PROVE waited[s] <= Limit(s)
    BY DEF Waits
  <2>1. spoilt[s] = 0 /\ Due(s) = 0 /\ waited[s] = 0
    BY DEF Init, Due, Active
  <2>2. Limit(s) = Interval * 0 + 0
    BY <2>1 DEF Limit
  <2> QED
    BY <2>1, <2>2, TimesAssumption
<1> QED
  BY <1>1, <1>2, <1>3 DEF WInv

\* wpcron.go:42: whatever the other Sites do and whatever happens to the Jobs, a
\* Site that goes on answering is triggered within an interval and the time that
\* the Sites that linger take, and an interval more for each Job that a change or
\* the loss of a pod disturbed, if those that linger leave some of the deadline and
\* a Job's deadline is no longer than the interval (both are 300 seconds in
\* cronjob.yaml).
THEOREM CalledEveryRound == ASSUME OneRound PROVE Spec => []CalledInTime
<1>1. WInv => CalledInTime
  <2> SUFFICES ASSUME WInv, NEW s \in Sites, Expects(s)
               PROVE  waited[s] <= Interval * (1 + spoilt[s]) + Lingerers
    BY DEF CalledInTime
  <2> DEFINE Before == Interval * spoilt[s]
  <2>1. waited[s] <= Before + Due(s) /\ waited[s] \in Nat /\ QInv /\ TypeOK
    BY DEF WInv, Waits, Limit, QInv, TInv, TypeOK
  <2>2. Lingerers \in Nat /\ Before \in Nat /\ Due(s) \in Nat
    BY <2>1, LingerFacts, DueNat
  <2>3. Interval * (1 + spoilt[s]) = Before + Interval
    BY <2>1, LimitAssumption, Spoiling DEF TypeOK
  <2>4. Due(s) <= Interval + Lingerers
    <3>1. CASE ~Active
      BY <2>1, <2>2, <3>1, TimesAssumption DEF Due, TypeOK
    <3>2. CASE Active /\ Pending(s)
      <4>1. age <= Lingerers
        BY <2>1, <3>2, FirstPod DEF Pending
      <4> QED
        BY <2>1, <2>2, <3>2, <4>1, TimesAssumption DEF Due, TypeOK
    <3>3. CASE Active /\ ~Pending(s)
      BY <2>1, <2>2, <3>3, TimesAssumption DEF Due, TypeOK, OneRound
    <3> QED
      BY <3>1, <3>2, <3>3
  <2> HIDE DEF Before
  <2> QED
    BY <2>1, <2>2, <2>3, <2>4, TimesAssumption
<1>2. WInv /\ [Next]_vars => WInv'
  BY NextWInv
<1> QED
  BY <1>1, <1>2, InitWInv, PTL DEF Spec
=============================================================================
