------------------------ MODULE SiteReconcilerProofs ------------------------
(***************************************************************************)
(* What holds of SiteReconciler for every set of operators, every list of  *)
(* steps and every number of disturbances.                                 *)
(***************************************************************************)
EXTENDS SiteReconciler, SequenceTheorems, TLAPS

\* The version an operator has once it has received all that is on its way.
Latest(o, k) ==
    IF watch[o][k] = << >> THEN cache[o][k] ELSE watch[o][k][Len(watch[o][k])]

\* A cache is a past version of the cluster, and the watch holds the rest of
\* the way to the live one.
Coherent == \A o \in Operators, k \in CachedKinds : Latest(o, k) = api[k]

IInv == TypeOK /\ Coherent

-----------------------------------------------------------------------------

\* Kinds that are cached are kinds, and Site is one of them.
LEMMA KindFacts ==
    /\ CachedKinds \subseteq Kinds /\ ChildKinds \subseteq Kinds
    /\ "Site" \in CachedKinds /\ "Site" \notin ChildKinds
    /\ "Deployment" \in CachedKinds /\ "Volume" \in ChildKinds /\ "Secret" \in ChildKinds
    /\ "Deployment" \in ChildKinds /\ "Secret" \in CachedKinds
  BY DEF CachedKinds, Kinds, ChildKinds, MariaDBKinds

\* Taking the head off a sequence leaves its last element where it was.
LEMMA LastOfTail ==
    ASSUME NEW S, NEW w \in Seq(S), w # << >>
    PROVE  /\ Head(w) \in S /\ Tail(w) \in Seq(S)
           /\ Tail(w) = << >> => Head(w) = w[Len(w)]
           /\ Tail(w) # << >> => Tail(w)[Len(Tail(w))] = w[Len(w)]
<1> DEFINE m == Len(w)
           n == Len(Tail(w))
<1>1. /\ Head(w) \in S /\ Tail(w) \in Seq(S)
      /\ n = m - 1
      /\ \A i \in 1..n : Tail(w)[i] = w[i + 1]
  BY HeadTailProperties
<1>2. m \in Nat \ {0} /\ (Tail(w) # << >> => n \in Nat \ {0}) /\ (Tail(w) = << >> => n = 0)
  BY <1>1, EmptySeq
<1>3. Head(w) = w[1]
  OBVIOUS
<1> HIDE DEF m, n
<1>4. Tail(w) = << >> => m = 1
  BY <1>1, <1>2
<1>5. Tail(w) # << >> => n \in 1..n /\ n + 1 = m
  BY <1>1, <1>2
<1>6. Tail(w) # << >> => Tail(w)[n] = w[m]
  BY <1>1, <1>5
<1> QED
  BY <1>1, <1>3, <1>4, <1>6 DEF m, n

\* A published version reaches every watch, and the live object it becomes is
\* the last thing every operator will hear of.
LEMMA PublishKeeps ==
    ASSUME ApiTypeOK, ViewTypeOK, Coherent,
           NEW k \in Kinds, NEW v \in Versions(k),
           Publish(k, v), UNCHANGED cache
    PROVE  ApiTypeOK' /\ ViewTypeOK' /\ Coherent'
<1>1. ApiTypeOK'
  BY DEF ApiTypeOK, Publish
<1>2. CASE k \notin CachedKinds \/ v = api[k]
  <2>1. UNCHANGED watch
    BY <1>2 DEF Publish
  <2>2. ViewTypeOK'
    BY <2>1 DEF ViewTypeOK
  <2>3. Coherent'
    BY <1>2, <2>1 DEF Coherent, Latest, Publish, ApiTypeOK
  <2> QED
    BY <1>1, <2>2, <2>3
<1>3. CASE k \in CachedKinds /\ v # api[k]
  <2>1. watch' = [ o \in Operators |-> [ watch[o] EXCEPT ![k] = Append(@, v) ] ]
    BY <1>3 DEF Publish
  <2>2. ASSUME NEW o \in Operators, NEW j \in CachedKinds
        PROVE  /\ DOMAIN watch'[o] = CachedKinds
               /\ watch'[o][j] = IF j = k THEN Append(watch[o][k], v) ELSE watch[o][j]
    BY <1>3, <2>1, <2>2 DEF ViewTypeOK
  <2>3. ASSUME NEW o \in Operators
        PROVE  /\ watch[o][k] \in Seq(Versions(k))
               /\ Append(watch[o][k], v) \in Seq(Versions(k))
               /\ Append(watch[o][k], v) # << >>
               /\ Append(watch[o][k], v)[Len(Append(watch[o][k], v))] = v
    <3>1. watch[o][k] \in Seq(Versions(k))
      BY <1>3 DEF ViewTypeOK
    <3> QED
      BY <3>1, AppendProperties
  <2>4. ViewTypeOK'
    <3>1. DOMAIN watch' = Operators
      BY <2>1
    <3>2. ASSUME NEW o \in Operators, NEW j \in CachedKinds
          PROVE  watch'[o][j] \in Seq(Versions(j))
      BY <2>2, <2>3 DEF ViewTypeOK
    <3>3. \A o \in Operators : DOMAIN watch'[o] = CachedKinds
      BY <2>1 DEF ViewTypeOK
    <3> QED
      BY <3>1, <3>2, <3>3 DEF ViewTypeOK
  <2>5. Coherent'
    <3> SUFFICES ASSUME NEW o \in Operators, NEW j \in CachedKinds
                 PROVE  Latest(o, j)' = api'[j]
      BY DEF Coherent
    <3>1. CASE j = k
      <4>1. api'[j] = v
        BY <3>1 DEF Publish, ApiTypeOK
      <4> QED
        BY <3>1, <4>1, <2>2, <2>3 DEF Latest
    <3>2. CASE j # k
      <4>1. watch'[o][j] = watch[o][j] /\ cache' = cache
        BY <3>2, <2>2
      <4>2. api'[j] = api[j]
        BY <3>2 DEF Publish, ApiTypeOK
      <4> QED
        BY <4>1, <4>2 DEF Coherent, Latest
    <3> QED
      BY <3>1, <3>2
  <2> QED
    BY <1>1, <2>4, <2>5
<1> QED
  BY <1>2, <1>3

-----------------------------------------------------------------------------
(* The objects the steps publish are objects of their kind.                *)

\* The Site a pass works on.
LEMMA WorkIsSite ==
    ASSUME WorkerTypeOK, NEW o \in Operators, pos[o] # 0
    PROVE  work[o] \in Sites
  BY DEF WorkerTypeOK

\* Completing the keys of a Secret gives a Secret's keys.
LEMMA CompletedType ==
    ASSUME NEW keys \in [ SecretKeys -> Tokens \cup {Unset} ], NEW s, NEW t \in Tokens
    PROVE  Completed(keys, s, t) \in [ SecretKeys -> Tokens \cup {Unset} ]
  BY DEF Completed

\* What a mutate function leaves is content of the object's kind.
LEMMA MutatedType ==
    ASSUME NEW k \in ChildKinds, NEW s \in Specs, NEW t \in Tokens, NEW data,
           k = "Secret" => data \in Data(k)
    PROVE  Mutated(k, data, s, t) \in Data(k)
<1>1. CASE k = "Secret"
  BY <1>1, CompletedType DEF Mutated, Data
<1>2. CASE k # "Secret"
  BY <1>2 DEF Mutated, Data
<1> QED
  BY <1>1, <1>2

\* An object a pass creates is an object of its kind.
LEMMA NewObjectType ==
    ASSUME NEW k \in ChildKinds, NEW site \in Sites, NEW t \in Tokens
    PROVE  NewObject(k, site, t) \in Children(k)
<1>1. site.uid \in Nat /\ site.spec \in Specs
  BY DEF Sites
<1>2. k = "Secret" => NoKeys \in Data(k)
  BY DEF NoKeys, Data
<1>3. Mutated(k, NoKeys, site.spec, t) \in Data(k)
  BY <1>1, <1>2, MutatedType
<1> QED
  BY <1>1, <1>3, KindFacts DEF NewObject, Children, States

\* An object a pass updates stays an object of its kind.
LEMMA MutatedObjectType ==
    ASSUME NEW k \in ChildKinds, NEW site \in Sites, NEW t \in Tokens,
           NEW old \in Children(k)
    PROVE  MutatedObject(k, old, site, t) \in Children(k)
<1>1. site.uid \in Nat /\ site.spec \in Specs
  BY DEF Sites
<1>2. old.data \in Data(k) /\ old.state \in States(k)
  BY DEF Children
<1>3. Mutated(k, old.data, site.spec, t) \in Data(k)
  BY <1>1, <1>2, MutatedType
<1> QED
  BY <1>1, <1>2, <1>3, KindFacts DEF MutatedObject, Children, States

\* So is what a delete leaves, if it leaves anything.
LEMMA DeletedType ==
    ASSUME ApiTypeOK, NEW k \in ChildKinds
    PROVE  Deleted(k) \in Versions(k)
<1>1. api[k] \in Versions(k) /\ k # "Site"
  BY KindFacts DEF ApiTypeOK
<1>2. CASE k = "Volume" /\ api[k] # Absent
  <2>1. api[k] \in Children(k)
    BY <1>1, <1>2 DEF Versions, Objects
  <2>2. [ api[k] EXCEPT !.state = "terminating" ] \in Children(k)
    BY <1>2, <2>1 DEF Children, States
  <2> QED
    BY <1>1, <1>2, <2>2 DEF Deleted, Versions, Objects
<1>3. CASE ~(k = "Volume" /\ api[k] # Absent)
  BY <1>3 DEF Deleted, Versions
<1> QED
  BY <1>2, <1>3

\* What an operator reads is a version of the object, and the live one when
\* nothing of the kind is on its way.
LEMMA SeenFacts ==
    ASSUME ApiTypeOK, ViewTypeOK, Coherent, NEW o \in Operators, NEW k \in Kinds
    PROVE  /\ Seen(o, k) \in Versions(k)
           /\ Fresh(o, k) => Seen(o, k) = api[k]
<1>1. CASE k \in CachedKinds
  BY <1>1 DEF Seen, Fresh, ViewTypeOK, Coherent, Latest
<1>2. CASE k \notin CachedKinds
  BY <1>2 DEF Seen, Fresh, ApiTypeOK
<1> QED
  BY <1>1, <1>2

-----------------------------------------------------------------------------
(* The worker: how each way of moving a pass on keeps its type.            *)

\* The deferred status comes after the last step of a pass.
LEMMA StatusPosType == Len(Steps) \in Nat /\ StatusPos \in Nat \ {0} /\ StatusPos = Len(Steps) + 1
  BY StepsAssumption, LenProperties DEF StatusPos

\* Going on to the next step keeps the worker's types.
LEMMA AdvanceKeeps ==
    ASSUME WorkerTypeOK, NEW o \in Operators, NEW k, At(o, k), Advance(o)
    PROVE  WorkerTypeOK' /\ UNCHANGED << cache, born >>
<1>1. pos[o] + 1 \in 1..StatusPos /\ pos[o] # 0
  BY StatusPosType DEF At
<1> QED
  BY <1>1, StatusPosType DEF WorkerTypeOK, Advance

\* So does giving up the rest of the pass ...
LEMMA AbandonKeeps ==
    ASSUME WorkerTypeOK, NEW o \in Operators, NEW k, At(o, k),
           NEW e \in { "error", "panic" }, Abandon(o, e)
    PROVE  WorkerTypeOK' /\ UNCHANGED << cache, born >>
<1>1. StatusPos \in 1..StatusPos /\ pos[o] # 0
  BY StatusPosType DEF At
<1> QED
  BY <1>1, StatusPosType DEF WorkerTypeOK, Abandon

\* ... and ending it, with or without a requeue.
LEMMA FinishKeeps ==
    ASSUME WorkerTypeOK, NEW o \in Operators, NEW requeue \in BOOLEAN, Finish(o, requeue)
    PROVE  WorkerTypeOK' /\ UNCHANGED << cache, born, spent >>
  BY StatusPosType DEF WorkerTypeOK, Finish

\* Nothing of the store or of the views moves.
LEMMA StoreUnchanged ==
    ASSUME ApiTypeOK, ViewTypeOK, Coherent, UNCHANGED << api, cache, watch >>
    PROVE  ApiTypeOK' /\ ViewTypeOK' /\ Coherent'
  BY DEF ApiTypeOK, ViewTypeOK, Coherent, Latest

-----------------------------------------------------------------------------
(* The steps of a pass.                                                    *)

\* Whatever a call publishes is an object of its kind.
LEMMA CallKeeps ==
    ASSUME IInv, NEW o \in Operators, NEW k \in ChildKinds, Call(o, k), UNCHANGED cache
    PROVE  ApiTypeOK' /\ ViewTypeOK' /\ Coherent'
<1> USE KindFacts
<1>1. At(o, k)
  BY DEF Call, Create, Update, DeleteOwned, SendsCreate, SendsUpdate, SendsDelete, Writes
<1>2. work[o] \in Sites
  BY <1>1, WorkIsSite, StatusPosType DEF At, IInv, TypeOK
<1>3. ASSUME NEW v \in Versions(k), Publish(k, v)
      PROVE  ApiTypeOK' /\ ViewTypeOK' /\ Coherent'
  BY <1>3, PublishKeeps DEF IInv, TypeOK
<1>4. ASSUME NEW t \in Tokens, Create(o, k, t)
      PROVE  ApiTypeOK' /\ ViewTypeOK' /\ Coherent'
  BY <1>2, <1>3, <1>4, NewObjectType DEF Create, Versions, Objects
<1>5. ASSUME NEW t \in Tokens, Update(o, k, t)
      PROVE  ApiTypeOK' /\ ViewTypeOK' /\ Coherent'
  <2>1. Seen(o, k) \in Versions(k) /\ Seen(o, k) # Absent
    BY <1>5, SeenFacts DEF IInv, TypeOK, Update, SendsUpdate, Adoptable
  <2>2. Seen(o, k) \in Children(k)
    BY <2>1 DEF Versions, Objects
  <2> QED
    BY <1>2, <1>3, <1>5, <2>2, MutatedObjectType DEF Update, Versions, Objects
<1>6. CASE DeleteOwned(o, k)
  BY <1>3, <1>6, DeletedType DEF DeleteOwned, IInv, TypeOK
<1> QED
  BY <1>4, <1>5, <1>6 DEF Call

\* A step of a pass keeps the invariant, however it ends.
LEMMA StepKeeps ==
    ASSUME IInv, NEW o \in Operators, NEW k \in ChildKinds, Step(o, k)
    PROVE  IInv'
<1>1. CASE Done(o, k)
  <2>1. At(o, k) /\ Advance(o) /\ UNCHANGED << cache, spent >>
    BY <1>1 DEF Done, Advance, Call, Create, Update, DeleteOwned, SendsCreate, SendsUpdate,
                SendsDelete, Writes
  <2>2. WorkerTypeOK' /\ UNCHANGED born
    BY <2>1, AdvanceKeeps DEF IInv, TypeOK
  <2>3. ApiTypeOK' /\ ViewTypeOK' /\ Coherent'
    BY <1>1, <2>1, CallKeeps DEF Done
  <2> QED
    BY <2>1, <2>2, <2>3 DEF IInv, TypeOK
<1>2. CASE NoChange(o, k) \/ Leave(o, k)
  <2>1. At(o, k) /\ Advance(o) /\ UNCHANGED << api, watch, spent >>
    BY <1>2 DEF NoChange, Leave, Writes
  <2>2. WorkerTypeOK' /\ UNCHANGED << cache, born >>
    BY <2>1, AdvanceKeeps DEF IInv, TypeOK
  <2> QED
    BY <2>1, <2>2, StoreUnchanged DEF IInv, TypeOK
<1>3. ASSUME NEW e \in { "error", "panic" },
             At(o, k), Abandon(o, e), UNCHANGED << api, watch, spent >>
      PROVE  IInv'
  <2>1. WorkerTypeOK' /\ UNCHANGED << cache, born >>
    BY <1>3, AbandonKeeps DEF IInv, TypeOK
  <2> QED
    BY <1>3, <2>1, StoreUnchanged DEF IInv, TypeOK
<1>4. CASE AlreadyExists(o, k) \/ OwnedByOther(o, k) \/ Refuse(o, k)
  BY <1>3, <1>4 DEF AlreadyExists, OwnedByOther, Refuse, Fail, SendsCreate, Writes
<1>5. ASSUME NEW t \in Tokens, Conflict(o, k, t)
      PROVE  IInv'
  BY <1>3, <1>5 DEF Conflict, Fail, SendsUpdate, Writes
<1>6. CASE Panic(o, k)
  BY <1>3, <1>6 DEF Panic
<1> QED
  BY <1>1, <1>2, <1>4, <1>5, <1>6 DEF Step

-----------------------------------------------------------------------------
(* The other actions.                                                      *)

\* The deferred status keeps it too: a write of it is a write of the Site.
LEMMA StatusKeeps ==
    ASSUME IInv, NEW o \in Operators,
           StatusMissing(o) \/ StatusWrite(o) \/ StatusConflict(o)
    PROVE  IInv'
<1> USE KindFacts
<1>1. WorkerTypeOK' /\ UNCHANGED << cache, born, spent >>
  <2>1. (err[o] # "none") \in BOOLEAN /\ TRUE \in BOOLEAN
    OBVIOUS
  <2> QED
    BY <2>1, FinishKeeps DEF IInv, TypeOK, StatusMissing, StatusWrite, StatusConflict
<1>2. CASE StatusWrite(o)
  <2>1. cache[o]["Site"] \in Sites
    BY <1>2 DEF StatusWrite, IInv, TypeOK, ViewTypeOK, Versions, Objects
  <2>2. Reason(err[o], Seen(o, "Deployment")) \in Reasons
    <3>1. Seen(o, "Deployment") \in Versions("Deployment")
      BY SeenFacts DEF IInv, TypeOK
    <3>2. Seen(o, "Deployment") # Absent =>
              Seen(o, "Deployment").state \in { "rolling", "stalled", "ready" }
      BY <3>1 DEF Versions, Objects, Children, States
    <3> QED
      BY <3>2 DEF Reason, Reasons
  <2>3. WithConditions(cache[o]["Site"], err[o], Seen(o, "Deployment")) \in Versions("Site")
    BY <2>1, <2>2 DEF WithConditions, Versions, Objects, Sites
  <2> QED
    BY <1>1, <1>2, <2>3, PublishKeeps DEF StatusWrite, IInv, TypeOK
<1>3. CASE StatusMissing(o) \/ StatusConflict(o)
  BY <1>1, <1>3, StoreUnchanged DEF StatusMissing, StatusConflict, IInv, TypeOK
<1> QED
  BY <1>2, <1>3

\* Whatever an operator does keeps the invariant.
LEMMA OperatorKeeps ==
    ASSUME IInv, NEW o \in Operators, OperatorStep(o)
    PROVE  IInv'
<1> USE KindFacts
<1>1. CASE Start(o)
  <2>1. cache[o]["Site"] \in Sites
    BY <1>1 DEF Start, IInv, TypeOK, ViewTypeOK, Versions, Objects
  <2>2. 1 \in 0..StatusPos /\ 1 # 0
    BY StatusPosType
  <2>3. WorkerTypeOK'
    BY <1>1, <2>1, <2>2 DEF Start, IInv, TypeOK, WorkerTypeOK
  <2> QED
    BY <1>1, <2>3, StoreUnchanged DEF Start, IInv, TypeOK
<1>2. CASE StartMissing(o)
  <2>1. WorkerTypeOK'
    BY <1>2 DEF StartMissing, IInv, TypeOK, WorkerTypeOK
  <2> QED
    BY <1>2, <2>1, StoreUnchanged DEF StartMissing, IInv, TypeOK
<1> QED
  BY <1>1, <1>2, StepKeeps, StatusKeeps DEF OperatorStep

\* Delivering the head of a watch moves a cache one version closer to the live one.
LEMMA DeliverKeeps ==
    ASSUME IInv, NEW o \in Operators, NEW k \in CachedKinds, Deliver(o, k)
    PROVE  IInv'
<1> DEFINE w == watch[o][k]
<1>1. w \in Seq(Versions(k)) /\ w # << >>
  BY DEF Deliver, IInv, TypeOK, ViewTypeOK
<1>2. /\ Head(w) \in Versions(k) /\ Tail(w) \in Seq(Versions(k))
      /\ Tail(w) = << >> => Head(w) = w[Len(w)]
      /\ Tail(w) # << >> => Tail(w)[Len(Tail(w))] = w[Len(w)]
  BY <1>1, LastOfTail
<1>3. /\ cache' = [ cache EXCEPT ![o][k] = Head(w) ]
      /\ watch' = [ watch EXCEPT ![o][k] = Tail(w) ]
      /\ UNCHANGED << api, pos, work, err, born, spent >>
  BY DEF Deliver
<1>4. ASSUME NEW p \in Operators, NEW j \in CachedKinds
      PROVE  /\ DOMAIN cache'[p] = CachedKinds /\ DOMAIN watch'[p] = CachedKinds
             /\ cache'[p][j] = IF p = o /\ j = k THEN Head(w) ELSE cache[p][j]
             /\ watch'[p][j] = IF p = o /\ j = k THEN Tail(w) ELSE watch[p][j]
  BY <1>3 DEF IInv, TypeOK, ViewTypeOK
<1>5. ViewTypeOK'
  <2>1. DOMAIN cache' = Operators /\ DOMAIN watch' = Operators
    BY <1>3 DEF IInv, TypeOK, ViewTypeOK
  <2>2. \A p \in Operators : DOMAIN cache'[p] = CachedKinds /\ DOMAIN watch'[p] = CachedKinds
    BY <1>4
  <2>3. \A p \in Operators, j \in CachedKinds :
            cache'[p][j] \in Versions(j) /\ watch'[p][j] \in Seq(Versions(j))
    BY <1>2, <1>4 DEF IInv, TypeOK, ViewTypeOK
  <2> QED
    BY <2>1, <2>2, <2>3 DEF ViewTypeOK
<1>6. Coherent'
  <2> SUFFICES ASSUME NEW p \in Operators, NEW j \in CachedKinds
               PROVE  Latest(p, j)' = api'[j]
    BY DEF Coherent
  <2>1. CASE p = o /\ j = k
    <3>1. api[k] = w[Len(w)]
      BY <1>1 DEF IInv, Coherent, Latest
    <3>2. CASE Tail(w) = << >>
      BY <1>2, <1>3, <1>4, <2>1, <3>1, <3>2 DEF Latest
    <3>3. CASE Tail(w) # << >>
      BY <1>2, <1>3, <1>4, <2>1, <3>1, <3>3 DEF Latest
    <3> QED
      BY <3>2, <3>3
  <2>2. CASE ~(p = o /\ j = k)
    BY <1>3, <1>4, <2>2 DEF IInv, Coherent, Latest
  <2> QED
    BY <2>1, <2>2
<1>7. WorkerTypeOK'
  <2>1. queue' \in [ Operators -> BOOLEAN ]
    <3>1. Enqueues(k, cache[o][k], Head(w)) \in BOOLEAN
      BY DEF Enqueues, OwnedBySite
    <3>2. (queue[o] \/ Enqueues(k, cache[o][k], Head(w))) \in BOOLEAN
      OBVIOUS
    <3>3. queue' = [ queue EXCEPT ![o] = queue[o] \/ Enqueues(k, cache[o][k], Head(w)) ]
      BY DEF Deliver
    <3> QED
      BY <3>2, <3>3 DEF IInv, TypeOK, WorkerTypeOK
  <2> QED
    BY <1>3, <2>1 DEF IInv, TypeOK, WorkerTypeOK
<1> QED
  BY <1>3, <1>5, <1>6, <1>7 DEF IInv, TypeOK, ApiTypeOK

\* The garbage collector, the Deployment controller and the kubelet.
LEMMA ClusterKeeps ==
    ASSUME IInv, ClusterStep
    PROVE  IInv'
<1> USE KindFacts
<1>1. ASSUME NEW k \in Kinds, NEW v \in Versions(k), Publish(k, v),
             UNCHANGED << Others, born, spent >>
      PROVE  IInv'
  <2>1. WorkerTypeOK'
    BY <1>1 DEF Others, IInv, TypeOK, WorkerTypeOK
  <2> QED
    BY <1>1, <2>1, PublishKeeps DEF Others, IInv, TypeOK
<1>2. ASSUME NEW k \in ChildKinds, Collect(k)
      PROVE  IInv'
  BY <1>1, <1>2, DeletedType DEF Collect, IInv, TypeOK
<1>3. ASSUME NEW state \in States("Deployment"), Rollout(state)
      PROVE  IInv'
  <2>1. api["Deployment"] \in Children("Deployment")
    BY <1>3 DEF Rollout, IInv, TypeOK, ApiTypeOK, Versions, Objects
  <2>2. [ api["Deployment"] EXCEPT !.state = state ] \in Children("Deployment")
    BY <2>1 DEF Children
  <2> QED
    BY <1>1, <1>3, <2>2 DEF Rollout, Versions, Objects
<1>4. CASE VolumeReleased
  BY <1>1, <1>4 DEF VolumeReleased, Versions
<1> QED
  BY <1>2, <1>3, <1>4 DEF ClusterStep

\* What users do to the Site and to its objects.
LEMMA UserKeeps ==
    ASSUME IInv, SiteUserStep \/ TamperStep
    PROVE  IInv'
<1> USE KindFacts
<1>1. ASSUME NEW name, Disturb(name)
      PROVE  spent' \in 0..MaxDisturbances
  BY <1>1, BoundAssumption DEF Disturb, IInv, TypeOK
<1>0. ASSUME spent' \in 0..MaxDisturbances, born' \in Nat, UNCHANGED Others,
             NEW k \in Kinds, NEW v \in Versions(k), Publish(k, v)
      PROVE  IInv'
  <2>1. WorkerTypeOK'
    BY <1>0 DEF Others, IInv, TypeOK, WorkerTypeOK
  <2> QED
    BY <1>0, <2>1, PublishKeeps DEF Others, IInv, TypeOK
<1>2. ASSUME NEW name, Disturb(name), born' \in Nat, UNCHANGED Others,
             NEW k \in Kinds, NEW v \in Versions(k), Publish(k, v)
      PROVE  IInv'
  BY <1>0, <1>1, <1>2
<1>3. CASE DeleteSite
  BY <1>2, <1>3 DEF DeleteSite, Versions, IInv, TypeOK
<1>4. ASSUME NEW s \in Specs, EditSpec(s)
      PROVE  IInv'
  <2>1. api["Site"] \in Sites
    BY <1>4 DEF EditSpec, IInv, TypeOK, ApiTypeOK, Versions, Objects
  <2>2. api["Site"].gen + 1 \in Nat \ {0}
    BY <2>1 DEF Sites
  <2>3. [ api["Site"] EXCEPT !.spec = s, !.gen = @ + 1 ] \in Sites
    BY <2>1, <2>2 DEF Sites
  <2> QED
    BY <1>2, <1>4, <2>3 DEF EditSpec, Versions, Objects, IInv, TypeOK
<1>5. ASSUME NEW s \in Specs, CreateSite(s)
      PROVE  IInv'
  <2>1. born + 1 \in Nat \ {0}
    BY DEF IInv, TypeOK
  <2>2. NewSite(born + 1, s) \in Sites
    BY <2>1 DEF NewSite, Sites, Reasons
  <2>3. "Site" \in Kinds /\ NewSite(born + 1, s) \in Versions("Site")
    BY <2>2 DEF Versions, Objects
  <2>4. spent' \in 0..MaxDisturbances /\ born' \in Nat
    <3>1. spent \in 0..MaxDisturbances
      BY DEF IInv, TypeOK
    <3>2. spent' = IF spent < MaxDisturbances THEN spent + 1 ELSE spent
      BY <1>5 DEF CreateSite
    <3>3. born' = born + 1
      BY <1>5 DEF CreateSite
    <3> QED
      BY <2>1, <3>1, <3>2, <3>3, BoundAssumption
  <2> QED
    BY <1>0, <1>5, <2>3, <2>4 DEF CreateSite
<1>6. ASSUME NEW k \in Tampered
      PROVE  k \in ChildKinds /\ k \in Kinds /\ k # "Site"
  BY <1>6, TamperAssumption
<1>7. ASSUME NEW k \in Tampered, api[k] # Absent
      PROVE  api[k] \in Children(k)
  BY <1>6, <1>7 DEF IInv, TypeOK, ApiTypeOK, Versions, Objects
<1>8. ASSUME NEW k \in Tampered, DeleteChild(k)
      PROVE  IInv'
  BY <1>2, <1>6, <1>8, DeletedType DEF DeleteChild, IInv, TypeOK
<1>9. ASSUME NEW k \in Tampered, Drift(k)
      PROVE  IInv'
  <2> DEFINE edited == IF k = "Secret"
                       THEN [ key \in SecretKeys |->
                                IF key \in RotatedKeys THEN Unset ELSE api[k].data[key] ]
                       ELSE Edited
  <2>1. api[k] \in Children(k)
    BY <1>7, <1>9 DEF Drift
  <2>2. edited \in Data(k)
    BY <2>1 DEF Children, Data
  <2>3. [ api[k] EXCEPT !.data = edited ] \in Children(k)
    BY <2>1, <2>2 DEF Children
  <2>4. Publish(k, [ api[k] EXCEPT !.data = edited ])
    BY <1>9 DEF Drift
  <2> QED
    BY <1>2, <1>6, <1>9, <2>3, <2>4 DEF Drift, Versions, Objects, IInv, TypeOK
<1>10. ASSUME NEW k \in Tampered, NEW name, NEW owner \in { NoOwner, OtherOwner },
              Reown(name, k, owner)
       PROVE  IInv'
  <2>1. [ api[k] EXCEPT !.ctrl = owner ] \in Children(k)
    BY <1>7, <1>10 DEF Reown, Children
  <2> QED
    BY <1>2, <1>6, <1>10, <2>1 DEF Reown, Versions, Objects, IInv, TypeOK
<1>11. ASSUME NEW k \in Tampered, Occupy(k)
       PROVE  IInv'
  <2> DEFINE foreign == [ ctrl  |-> OtherOwner,
                          data  |-> IF k = "Secret" THEN NoKeys ELSE Edited,
                          state |-> IF k = "Deployment" THEN "rolling" ELSE "plain" ]
  <2>1. foreign \in Children(k)
    BY DEF Children, Data, NoKeys, States
  <2> QED
    BY <1>2, <1>6, <1>11, <2>1 DEF Occupy, Versions, Objects, IInv, TypeOK
<1>12. ASSUME NEW k \in Tampered, Recount(k)
       PROVE  IInv'
  <2>1. [ api[k] EXCEPT !.state = "rolling" ] \in Children(k)
    BY <1>7, <1>12 DEF Recount, Children, States
  <2> QED
    BY <1>2, <1>6, <1>12, <2>1 DEF Recount, Versions, Objects, IInv, TypeOK
<1> QED
  BY <1>3, <1>4, <1>5, <1>8, <1>9, <1>10, <1>11, <1>12 DEF SiteUserStep, TamperStep

\* Lost calls, lost answers, restarts.
LEMMA FaultKeeps ==
    ASSUME IInv, FaultStep
    PROVE  IInv'
<1> USE KindFacts
<1>1. ASSUME NEW name, Disturb(name)
      PROVE  spent' \in 0..MaxDisturbances
  BY <1>1, BoundAssumption DEF Disturb, IInv, TypeOK
<1>2. ASSUME NEW o \in Operators, NEW k \in ChildKinds, LostCall(o, k)
      PROVE  IInv'
  <2>1. At(o, k) /\ Abandon(o, "error") /\ UNCHANGED << api, watch >>
    BY <1>2 DEF LostCall, SendsCreate, SendsUpdate, SendsDelete, Writes
  <2>2. WorkerTypeOK' /\ UNCHANGED << cache, born >>
    BY <2>1, AbandonKeeps DEF IInv, TypeOK
  <2>3. spent' \in 0..MaxDisturbances
    BY <1>1, <1>2 DEF LostCall
  <2> QED
    BY <2>1, <2>2, <2>3, StoreUnchanged DEF IInv, TypeOK
<1>3. ASSUME NEW o \in Operators, NEW k \in ChildKinds, LostReply(o, k)
      PROVE  IInv'
  <2>1. At(o, k) /\ Call(o, k) /\ Abandon(o, "error")
    BY <1>3 DEF LostReply, Call, Create, Update, DeleteOwned, SendsCreate, SendsUpdate,
                SendsDelete, Writes
  <2>2. WorkerTypeOK' /\ UNCHANGED << cache, born >>
    BY <2>1, AbandonKeeps DEF IInv, TypeOK
  <2>3. ApiTypeOK' /\ ViewTypeOK' /\ Coherent'
    BY <2>1, <2>2, CallKeeps
  <2>4. spent' \in 0..MaxDisturbances
    BY <1>1, <1>3 DEF LostReply
  <2> QED
    BY <2>2, <2>3, <2>4 DEF IInv, TypeOK
<1>4. ASSUME NEW o \in Operators, LostStatus(o)
      PROVE  IInv'
  <2>1. WorkerTypeOK' /\ UNCHANGED << api, cache, watch, born >>
    BY <1>4, StatusPosType DEF LostStatus, IInv, TypeOK, WorkerTypeOK
  <2>2. spent' \in 0..MaxDisturbances
    BY <1>1, <1>4 DEF LostStatus
  <2> QED
    BY <2>1, <2>2, StoreUnchanged DEF IInv, TypeOK
<1>5. ASSUME NEW o \in Operators, Crash(o)
      PROVE  IInv'
  <2>1. WorkerTypeOK'
    BY <1>5, StatusPosType DEF Crash, IInv, TypeOK, WorkerTypeOK
  <2>2. ViewTypeOK'
    <3>1. \A k \in CachedKinds : << >> \in Seq(Versions(k))
      BY EmptySeq
    <3> QED
      BY <1>5, <3>1 DEF Crash, IInv, TypeOK, ViewTypeOK, ApiTypeOK
  <2>3. Coherent'
    BY <1>5 DEF Crash, IInv, TypeOK, ViewTypeOK, Coherent, Latest
  <2>4. spent' \in 0..MaxDisturbances
    BY <1>1, <1>5 DEF Crash
  <2> QED
    BY <1>5, <2>1, <2>2, <2>3, <2>4 DEF Crash, IInv, TypeOK, ApiTypeOK
<1>6. ASSUME NEW o \in Operators, Resync(o)
      PROVE  IInv'
  <2>1. WorkerTypeOK'
    BY <1>6 DEF Resync, IInv, TypeOK, WorkerTypeOK
  <2>2. spent' \in 0..MaxDisturbances
    BY <1>1, <1>6 DEF Resync
  <2> QED
    BY <1>6, <2>1, <2>2, StoreUnchanged DEF Resync, IInv, TypeOK
<1> QED
  BY <1>2, <1>3, <1>4, <1>5, <1>6 DEF FaultStep

-----------------------------------------------------------------------------
(* The invariant.                                                          *)

\* The operators start with caches that show the cluster.
LEMMA InitInv == Init => IInv
<1> SUFFICES ASSUME Init PROVE IInv
  OBVIOUS
<1> USE KindFacts
<1>1. PICK s \in Specs :
          api = [ k \in Kinds |-> IF k = "Site" THEN NewSite(1, s) ELSE Absent ]
  BY DEF Init
<1>2. NewSite(1, s) \in Sites
  BY DEF NewSite, Sites, Reasons
<1>3. ApiTypeOK
  BY <1>1, <1>2 DEF ApiTypeOK, Versions, Objects
<1>4. ViewTypeOK
  <2>1. \A k \in CachedKinds : << >> \in Seq(Versions(k))
    BY EmptySeq
  <2> QED
    BY <1>3, <2>1 DEF Init, ViewTypeOK, ApiTypeOK
<1>5. WorkerTypeOK
  BY StatusPosType DEF Init, WorkerTypeOK
<1>6. Coherent
  BY DEF Init, Coherent, Latest
<1> QED
  BY <1>3, <1>4, <1>5, <1>6, BoundAssumption DEF Init, IInv, TypeOK

\* The invariant is inductive.
LEMMA NextInv == IInv /\ [Next]_vars => IInv'
<1> SUFFICES ASSUME IInv, [Next]_vars PROVE IInv'
  OBVIOUS
<1>1. CASE UNCHANGED vars
  BY <1>1 DEF vars, IInv, TypeOK, ApiTypeOK, ViewTypeOK, WorkerTypeOK, Coherent, Latest
<1>2. CASE Next
  BY <1>2, OperatorKeeps, DeliverKeeps, ClusterKeeps, UserKeeps, FaultKeeps DEF Next
<1> QED
  BY <1>1, <1>2

\* Every variable keeps its type, for any set of operators, order of steps and
\* number of disturbances; in particular a pass always has a Site to work on.
THEOREM TypeCorrect == Spec => []TypeOK
<1>1. IInv => TypeOK
  BY DEF IInv
<1> QED
  BY <1>1, InitInv, NextInv, PTL DEF Spec

\* An informer never loses or reorders its way to the live object: what an
\* operator has seen and what waits in its watch end in the live version.
\* This is what makes the resourceVersion of a write a proof that the version
\* the operator computed from is the live one.
THEOREM CachesCoherent == Spec => []Coherent
<1>1. IInv => Coherent
  BY DEF IInv
<1> QED
  BY <1>1, InitInv, NextInv, PTL DEF Spec

-----------------------------------------------------------------------------
(* The Secret is a write-once store of keys (CredentialVault).             *)

KeysType == [ SecretKeys -> Tokens \cup { Unset } ]

\* The live Secret, or its absence, gives every key a token or none.
LEMMA LiveKeysType ==
    ASSUME ApiTypeOK
    PROVE  LiveKeys \in KeysType
<1>1. api["Secret"] # Absent => api["Secret"].data \in KeysType
  BY KindFacts DEF ApiTypeOK, Versions, Objects, Children, Data, KeysType
<1> QED
  BY <1>1 DEF LiveKeys, NoKeys, KeysType

\* A call of an operator issues keys that are missing, or takes the keys away
\* with the object, which it never does with the Secret.
LEMMA CallIssues ==
    ASSUME IInv, NEW o \in Operators, NEW k \in ChildKinds, Call(o, k),
           LiveKeys' \in KeysType
    PROVE  \A key \in SecretKeys : LiveKeys[key] # Unset => LiveKeys'[key] = LiveKeys[key]
<1> USE KindFacts
<1>1. CASE k # "Secret"
  <2>1. api'["Secret"] = api["Secret"]
    BY <1>1 DEF Call, Create, Update, DeleteOwned, Publish, IInv, TypeOK, ApiTypeOK
  <2> QED
    BY <2>1 DEF LiveKeys
<1>2. CASE k = "Secret"
  <2>1. ASSUME NEW v, Publish(k, v)
        PROVE  api'["Secret"] = v
    BY <1>2, <2>1 DEF Publish, IInv, TypeOK, ApiTypeOK
  <2>2. ASSUME NEW t \in Tokens, Create(o, k, t)
        PROVE  \A key \in SecretKeys : LiveKeys[key] = Unset
    BY <1>2, <2>2 DEF Create, LiveKeys, NoKeys
  <2>3. ASSUME NEW t \in Tokens, Update(o, k, t)
        PROVE  \A key \in SecretKeys : LiveKeys[key] # Unset => LiveKeys'[key] = LiveKeys[key]
    <3>1. Seen(o, k) = api["Secret"] /\ api["Secret"] # Absent
      BY <1>2, <2>3, SeenFacts DEF Update, SendsUpdate, Adoptable, IInv, TypeOK
    <3>2. api'["Secret"] = MutatedObject(k, Seen(o, k), work[o], t)
      BY <2>1, <2>3 DEF Update
    <3>3. api["Secret"] \in Children("Secret")
      BY <3>1 DEF IInv, TypeOK, ApiTypeOK, Versions, Objects
    <3>5. api'["Secret"].data = Completed(api["Secret"].data, work[o].spec, t)
      BY <1>2, <3>1, <3>2 DEF MutatedObject, Mutated
    <3>6. LiveKeys = api["Secret"].data
      BY <3>1 DEF LiveKeys
    <3>7. api'["Secret"] # Absent
      <4>1. api'["Secret"] \in Children("Secret")
        <5>1. At(o, k)
          BY <2>3 DEF Update, SendsUpdate, Writes
        <5>2. work[o] \in Sites
          BY <5>1, WorkIsSite, StatusPosType DEF At, IInv, TypeOK
        <5> QED
          BY <1>2, <3>1, <3>2, <3>3, <5>2, MutatedObjectType
      <4> QED
        BY <4>1, AbsentAssumption DEF Objects
    <3> QED
      BY <3>5, <3>6, <3>7 DEF LiveKeys, Completed
  <2>4. ~DeleteOwned(o, k)
    BY <1>2 DEF DeleteOwned, SendsDelete, Withdrawn
  <2> QED
    BY <2>2, <2>3, <2>4 DEF Call
<1> QED
  BY <1>1, <1>2

\* Somebody who changes the Secret otherwise takes keys away or leaves them.
LEMMA OthersRevoke ==
    ASSUME IInv, NEW k \in Kinds, NEW v \in Versions(k), Publish(k, v),
           k = "Secret" => \/ v = Absent
                           \/ /\ api["Secret"] # Absent
                              /\ \A key \in SecretKeys :
                                    v.data[key] \in { api["Secret"].data[key], Unset }
                           \/ v # Absent /\ v.data = NoKeys
    PROVE  \A key \in SecretKeys : LiveKeys'[key] \in { LiveKeys[key], Unset }
<1>1. CASE k # "Secret"
  <2>1. api'["Secret"] = api["Secret"]
    BY <1>1, KindFacts DEF Publish, IInv, TypeOK, ApiTypeOK
  <2> QED
    BY <2>1 DEF LiveKeys
<1>2. CASE k = "Secret"
  <2>1. api'["Secret"] = v
    BY <1>2 DEF Publish, IInv, TypeOK, ApiTypeOK
  <2> QED
    BY <1>2, <2>1 DEF LiveKeys, NoKeys
<1> QED
  BY <1>1, <1>2

\* Every step of the system issues keys, revokes keys, or leaves them alone.
LEMMA StepIssuesOrRevokes ==
    ASSUME IInv, IInv', [Next]_vars
    PROVE  \/ \A key \in SecretKeys : LiveKeys[key] # Unset => LiveKeys'[key] = LiveKeys[key]
           \/ /\ pos' = pos
              /\ \A key \in SecretKeys : LiveKeys'[key] \in { LiveKeys[key], Unset }
<1> USE KindFacts
<1> DEFINE Issues  == \A key \in SecretKeys : LiveKeys[key] # Unset => LiveKeys'[key] = LiveKeys[key]
           Revokes == /\ pos' = pos
                      /\ \A key \in SecretKeys : LiveKeys'[key] \in { LiveKeys[key], Unset }
<1>1. LiveKeys' \in KeysType
  <2>1. ApiTypeOK'
    BY DEF IInv, TypeOK
  <2>2. api'["Secret"] # Absent => api'["Secret"].data \in KeysType
    BY <2>1 DEF ApiTypeOK, Versions, Objects, Children, Data, KeysType
  <2> QED
    BY <2>2 DEF LiveKeys, NoKeys, KeysType
<1>2. ASSUME UNCHANGED api PROVE Issues
  BY <1>2 DEF LiveKeys
<1>3. ASSUME NEW o \in Operators, NEW k \in ChildKinds, Call(o, k) PROVE Issues
  BY <1>1, <1>3, CallIssues
<1>4. ASSUME NEW o \in Operators, OperatorStep(o) PROVE Issues
  <2>1. CASE StatusWrite(o)
    <3>1. api'["Secret"] = api["Secret"]
      BY <2>1 DEF StatusWrite, Publish, IInv, TypeOK, ApiTypeOK
    <3> QED
      BY <3>1 DEF LiveKeys
  <2>2. ASSUME NEW k \in ChildKinds, Step(o, k), ~Done(o, k)
        PROVE  UNCHANGED api
    BY <2>2 DEF Step, NoChange, Leave, AlreadyExists, OwnedByOther, Refuse, Panic, Conflict, Fail
  <2>3. CASE Start(o) \/ StartMissing(o) \/ StatusMissing(o) \/ StatusConflict(o)
    BY <1>2, <2>3 DEF Start, StartMissing, StatusMissing, StatusConflict
  <2> QED
    BY <1>2, <1>3, <1>4, <2>1, <2>2, <2>3 DEF OperatorStep, Done
<1>5. CASE ClusterStep
  <2>1. ASSUME NEW k \in ChildKinds, Collect(k) PROVE Revokes
    <3>1. Deleted(k) \in Versions(k) /\ (k = "Secret" => Deleted(k) = Absent)
      BY DeletedType DEF Deleted, IInv, TypeOK
    <3> QED
      BY <2>1, <3>1, OthersRevoke DEF Collect, Others
  <2>2. ASSUME NEW state \in States("Deployment"), Rollout(state) PROVE Issues
    BY <2>2 DEF Rollout, Publish, LiveKeys, IInv, TypeOK, ApiTypeOK
  <2>3. CASE VolumeReleased
    BY <2>3 DEF VolumeReleased, Publish, LiveKeys, IInv, TypeOK, ApiTypeOK
  <2> QED
    BY <1>5, <2>1, <2>2, <2>3 DEF ClusterStep
<1>6. CASE SiteUserStep
  BY <1>6 DEF SiteUserStep, DeleteSite, EditSpec, CreateSite, Publish, LiveKeys,
              IInv, TypeOK, ApiTypeOK
<1>7. CASE TamperStep
  <2>1. PICK k \in Tampered :
            \/ DeleteChild(k) \/ Drift(k) \/ Occupy(k) \/ Recount(k)
            \/ Reown("disown", k, NoOwner) \/ Reown("seize", k, OtherOwner)
    BY <1>7 DEF TamperStep
  <2>2. k \in ChildKinds /\ k \in Kinds
    BY TamperAssumption
  <2>3. pos' = pos
    BY <2>1 DEF DeleteChild, Drift, Occupy, Recount, Reown, Others
  <2>4. CASE k # "Secret"
    BY <2>1, <2>2, <2>4 DEF DeleteChild, Drift, Occupy, Recount, Reown, Publish, LiveKeys,
                            IInv, TypeOK, ApiTypeOK
  <2>5. CASE k = "Secret"
    <3>1. ASSUME NEW v, Publish(k, v)
          PROVE  api'["Secret"] = v
      BY <2>2, <2>5, <3>1 DEF Publish, IInv, TypeOK, ApiTypeOK
    <3>2. api["Secret"] # Absent => /\ api["Secret"] \in Children("Secret")
                                    /\ api["Secret"].data \in KeysType
      BY DEF IInv, TypeOK, ApiTypeOK, Versions, Objects, Children, Data, KeysType
    <3>3. CASE DeleteChild(k)
      BY <2>3, <2>5, <3>1, <3>3 DEF DeleteChild, Deleted, LiveKeys, NoKeys
    <3>4. CASE Occupy(k)
      <4>1. api'["Secret"] = [ ctrl  |-> OtherOwner, data |-> NoKeys, state |-> "plain" ]
        BY <2>5, <3>1, <3>4 DEF Occupy
      <4> QED
        BY <2>3, <4>1 DEF LiveKeys, NoKeys
    <3>5. ASSUME NEW name, NEW owner \in { NoOwner, OtherOwner }, Reown(name, k, owner)
          PROVE  Revokes
      <4>1. api["Secret"] # Absent /\ api'["Secret"] = [ api["Secret"] EXCEPT !.ctrl = owner ]
        BY <2>5, <3>1, <3>5 DEF Reown
      <4>2. api'["Secret"].data = api["Secret"].data
        BY <3>2, <4>1 DEF Children
      <4> QED
        BY <2>3, <4>1, <4>2 DEF LiveKeys, NoKeys
    <3>6. CASE Drift(k)
      <4> DEFINE edited == [ key \in SecretKeys |->
                               IF key \in RotatedKeys THEN Unset ELSE api["Secret"].data[key] ]
      <4>1. api["Secret"] # Absent /\ api'["Secret"] = [ api["Secret"] EXCEPT !.data = edited ]
        BY <2>5, <3>1, <3>6 DEF Drift
      <4>2. api'["Secret"].data = edited
        BY <3>2, <4>1 DEF Children
      <4> QED
        BY <2>3, <4>1, <4>2 DEF LiveKeys, NoKeys
    <3>7. ~Recount(k)
      BY <2>5 DEF Recount
    <3> QED
      BY <2>1, <3>3, <3>4, <3>5, <3>6, <3>7
  <2> QED
    BY <2>4, <2>5
<1>8. CASE FaultStep
  <2>1. ASSUME NEW o \in Operators, NEW k \in ChildKinds, LostReply(o, k) PROVE Issues
    BY <1>3, <2>1 DEF LostReply
  <2> QED
    BY <1>2, <1>8, <2>1 DEF FaultStep, LostCall, LostStatus, Crash, Resync
<1> QED
  BY <1>2, <1>4, <1>5, <1>6, <1>7, <1>8 DEF Next, vars, Deliver

\* The reconciler implements the write-once store: no interleaving of any
\* number of operators, stale reads, restarts, lost answers and users replaces
\* the value of a generated key.
THEOREM ImplementsVault == Spec => VaultSpec
<1>1. Init => Vault!Init
  BY KindFacts DEF Init, Vault!Init, LiveKeys, NoKeys
<1>2. IInv /\ IInv' /\ [Next]_vars => [Vault!Next]_LiveKeys
  <2> SUFFICES ASSUME IInv, IInv', [Next]_vars PROVE Vault!Next
    OBVIOUS
  <2>1. Vault!TypeOK'
    BY KindFacts DEF Vault!TypeOK, LiveKeys, NoKeys, IInv, TypeOK, ApiTypeOK, Versions, Objects,
                     Children, Data
  <2> QED
    BY <2>1, StepIssuesOrRevokes DEF Vault!Next, Vault!Issue, Vault!Revoke
<1> QED
  BY <1>1, <1>2, InitInv, NextInv, PTL DEF Spec, VaultSpec, Vault!Spec

\* A step that moves a pass forward takes no key away, whoever has tampered
\* with the Secret before.
THEOREM KeysKept == Spec => OperatorsKeepKeys
<1>1. IInv /\ IInv' /\ [Next]_vars =>
          [ (\E o \in Operators : pos'[o] > pos[o]) =>
              \A key \in SecretKeys : LiveKeys[key] # Unset => LiveKeys'[key] = LiveKeys[key]
          ]_vars
  <2> SUFFICES ASSUME IInv, IInv', [Next]_vars, NEW o \in Operators, pos'[o] > pos[o]
               PROVE  \A key \in SecretKeys :
                          LiveKeys[key] # Unset => LiveKeys'[key] = LiveKeys[key]
    OBVIOUS
  <2>1. pos[o] \in Nat
    BY StatusPosType DEF IInv, TypeOK, WorkerTypeOK
  <2>2. pos' # pos
    BY <2>1
  <2> QED
    BY <2>2, StepIssuesOrRevokes
<1> QED
  BY <1>1, InitInv, NextInv, PTL DEF Spec, OperatorsKeepKeys

-----------------------------------------------------------------------------
(* The status.                                                             *)

\* No status is ahead of its Site.
StatusBounded ==
    api["Site"] # Absent => api["Site"].status.gen <= api["Site"].gen

\* What a step can make of the Site: leave it, remove it, create one where
\* there was none, edit its spec, or give it the conditions of its current
\* generation.
SiteLeft    == api'["Site"] = api["Site"]
SiteRemoved == api'["Site"] = Absent
SiteCreated == /\ api["Site"] = Absent
               /\ \E uid \in Nat \ {0}, s \in Specs : api'["Site"] = NewSite(uid, s)
SiteEdited  == /\ api["Site"] # Absent
               /\ \E s \in Specs :
                     api'["Site"] = [ api["Site"] EXCEPT !.spec = s, !.gen = @ + 1 ]
SiteStamped == /\ api["Site"] # Absent
               /\ \E r \in Reasons :
                     api'["Site"] = [ api["Site"] EXCEPT !.status =
                                        [ reason |-> r, gen |-> api["Site"].gen ] ]

\* A step that changes a Site and leaves it the same Site edits its spec or is
\* the deferred status of an operator that has the live version.
LEMMA SiteChanges ==
    ASSUME IInv, IInv', [Next]_vars
    PROVE  SiteLeft \/ SiteRemoved \/ SiteCreated \/ SiteEdited \/ SiteStamped
<1> USE KindFacts
<1>1. ASSUME NEW k \in ChildKinds, NEW v, Publish(k, v) PROVE SiteLeft
  BY <1>1 DEF Publish, SiteLeft, IInv, TypeOK, ApiTypeOK
<1>2. ASSUME NEW v, Publish("Site", v) PROVE api'["Site"] = v
  BY <1>2 DEF Publish, IInv, TypeOK, ApiTypeOK
<1>3. ASSUME NEW o \in Operators, NEW k \in ChildKinds, Call(o, k) PROVE SiteLeft
  BY <1>1, <1>3 DEF Call, Create, Update, DeleteOwned
<1>4. ASSUME UNCHANGED api PROVE SiteLeft
  BY <1>4 DEF SiteLeft
<1>5. ASSUME NEW o \in Operators, StatusWrite(o) PROVE SiteStamped
  <2>1. cache[o]["Site"] = api["Site"] /\ api["Site"] # Absent
    BY <1>5, SeenFacts DEF StatusWrite, Seen, IInv, TypeOK
  <2>2. Reason(err[o], Seen(o, "Deployment")) \in Reasons
    <3>1. Seen(o, "Deployment") # Absent =>
              Seen(o, "Deployment").state \in { "rolling", "stalled", "ready" }
      BY SeenFacts DEF IInv, TypeOK, Versions, Objects, Children, States
    <3> QED
      BY <3>1 DEF Reason, Reasons
  <2> QED
    BY <1>2, <1>5, <2>1, <2>2 DEF StatusWrite, WithConditions, SiteStamped
<1>6. ASSUME NEW o \in Operators, OperatorStep(o) PROVE SiteLeft \/ SiteStamped
  <2>1. ASSUME NEW k \in ChildKinds, Step(o, k) PROVE SiteLeft
    BY <1>3, <1>4, <2>1 DEF Step, Done, NoChange, Leave, AlreadyExists, OwnedByOther, Refuse,
                            Panic, Conflict, Fail
  <2> QED
    BY <1>4, <1>5, <1>6, <2>1 DEF OperatorStep, Start, StartMissing, StatusMissing, StatusConflict
<1>7. CASE ClusterStep
  BY <1>1, <1>7 DEF ClusterStep, Collect, Rollout, VolumeReleased
<1>8. CASE SiteUserStep
  <2>1. CASE DeleteSite
    BY <1>2, <2>1 DEF DeleteSite, SiteRemoved
  <2>2. ASSUME NEW s \in Specs, EditSpec(s) PROVE SiteEdited
    BY <1>2, <2>2 DEF EditSpec, SiteEdited
  <2>3. ASSUME NEW s \in Specs, CreateSite(s) PROVE SiteCreated
    <3>1. born + 1 \in Nat \ {0}
      BY DEF IInv, TypeOK
    <3> QED
      BY <1>2, <2>3, <3>1 DEF CreateSite, SiteCreated
  <2> QED
    BY <1>8, <2>1, <2>2, <2>3 DEF SiteUserStep
<1>9. CASE TamperStep
  BY <1>1, <1>9, TamperAssumption DEF TamperStep, DeleteChild, Drift, Reown, Occupy, Recount
<1>10. CASE FaultStep
  BY <1>3, <1>4, <1>10 DEF FaultStep, LostCall, LostReply, LostStatus, Crash, Resync
<1> QED
  BY <1>4, <1>6, <1>7, <1>8, <1>9, <1>10 DEF Next, vars, Deliver

\* The status of a Site follows its generation and never goes back, because
\* it is only written over the live version of the Site.
THEOREM StatusForward == Spec => StatusNeverGoesBack
<1>1. ASSUME IInv, IInv', [Next]_vars, StatusBounded
      PROVE  /\ StatusBounded'
             /\ api["Site"] # Absent /\ api'["Site"] # Absent /\ api'["Site"].uid = api["Site"].uid
                  => /\ api'["Site"].status.gen >= api["Site"].status.gen
                     /\ api'["Site"].status.gen <= api'["Site"].gen
  <2>1. api["Site"] # Absent => api["Site"] \in Sites
    BY <1>1, KindFacts DEF IInv, TypeOK, ApiTypeOK, Versions, Objects
  <2>2. CASE SiteLeft \/ SiteRemoved
    BY <1>1, <2>1, <2>2 DEF SiteLeft, SiteRemoved, StatusBounded, Sites
  <2>3. CASE SiteCreated
    BY <2>3 DEF SiteCreated, StatusBounded, NewSite
  <2>4. CASE SiteEdited
    <3>1. /\ api["Site"] \in Sites
          /\ api'["Site"].status.gen = api["Site"].status.gen
          /\ api'["Site"].gen = api["Site"].gen + 1
      BY <2>1, <2>4 DEF SiteEdited, Sites
    <3>2. api["Site"].gen \in Nat /\ api["Site"].status.gen \in Nat
      BY <3>1 DEF Sites
    <3> QED
      BY <1>1, <2>4, <3>1, <3>2 DEF StatusBounded, SiteEdited
  <2>5. CASE SiteStamped
    <3>1. /\ api["Site"] \in Sites
          /\ api'["Site"].status.gen = api["Site"].gen
          /\ api'["Site"].gen = api["Site"].gen
      BY <2>1, <2>5 DEF SiteStamped, Sites
    <3>2. api["Site"].gen \in Nat /\ api["Site"].status.gen \in Nat
      BY <3>1 DEF Sites
    <3> QED
      BY <1>1, <2>5, <3>1, <3>2 DEF StatusBounded, SiteStamped
  <2> QED
    BY <1>1, <2>2, <2>3, <2>4, <2>5, SiteChanges
<1>2. Init => StatusBounded
  <2> SUFFICES ASSUME Init PROVE StatusBounded
    OBVIOUS
  <2>1. PICK s \in Specs : api["Site"] = NewSite(1, s)
    BY KindFacts DEF Init
  <2> QED
    BY <2>1 DEF StatusBounded, NewSite
<1> QED
  BY <1>1, <1>2, InitInv, NextInv, PTL DEF Spec, StatusNeverGoesBack
=============================================================================
