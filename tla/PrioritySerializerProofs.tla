----------------------- MODULE PrioritySerializerProofs -----------------------
(***************************************************************************)
(* Proofs about PrioritySerializer, for any set of tasks, any priorities   *)
(* and any number of waiters.                                              *)
(*                                                                         *)
(* None of the safety invariants is inductive as it stands: that a release *)
(* finds the serializer active depends on who may be owed a release, and   *)
(* that on the heap holding one live waiter for each waiting task.  IInv   *)
(* adds what ties the heap, the flag and the program counters together.    *)
(***************************************************************************)
EXTENDS PrioritySerializer, TLAPS

(* The heap and the tasks agree: a future that is still pending is awaited by its
   task, each waiting task has one, and no two entries share a sequence number. *)
HeapMatchesTasks ==
    /\ \A w \in Live : pc[w.task] = "waiting"
    /\ \A t \in Tasks : pc[t] = "waiting" => \E w \in Live : w.task = t
    /\ \A v, w \in Live : v.task = w.task => v = w
    /\ \A v, w \in waiters : v.sequence = w.sequence => v = w

(* _active is set exactly while somebody will call release(), and a serializer
   that is not active has an empty heap. *)
ActiveMeansOwned ==
    /\ active => Owners # {} \/ handbacks = 1
    /\ Owners # {} \/ handbacks # 0 => active
    /\ ~active => waiters = {}

IInv == TypeOK /\ HeapMatchesTasks /\ ActiveMeansOwned /\ SingleOwner

-----------------------------------------------------------------------------
(* A new serializer satisfies the invariant. *)
LEMMA InitEstablishes == Init => IInv
<1> SUFFICES ASSUME Init PROVE IInv
  OBVIOUS
<1>1. waiters = {} /\ Live = {} /\ Owners = {} /\ handbacks = 0 /\ active = FALSE
  BY DEF Init, Live, Owners
<1>2. TypeOK
  <2>1. pc \in [Tasks -> Places]
    BY DEF Init, Places
  <2> QED
    BY <1>1, <2>1 DEF TypeOK
<1>3. HeapMatchesTasks
  BY <1>1 DEF Init, HeapMatchesTasks
<1>4. ActiveMeansOwned /\ SingleOwner
  BY <1>1 DEF ActiveMeansOwned, SingleOwner
<1> QED
  BY <1>2, <1>3, <1>4 DEF IInv

-----------------------------------------------------------------------------
(* What release() does, whoever runs it: the slot changes hands or is freed. *)
LEMMA PassOnPreserves ==
    ASSUME NEW places \in [Tasks -> Places],
           TypeOK, HeapMatchesTasks, active = TRUE,
           \A t \in Tasks : places[t] \notin {"granted", "holding"},
           \A t \in Tasks : places[t] = "waiting" <=> pc[t] = "waiting",
           PassOn(places), handbacks' = 0
    PROVE  IInv'
<1> USE SerializerAssumption
<1>1. CASE Live = {} /\ waiters' = {} /\ active' = FALSE /\ pc' = places
  <2>1. Owners' = {} /\ Live' = {} /\ waiters' = {} /\ active' = FALSE
    BY <1>1 DEF Owners, Live
  <2>2. TypeOK'
    BY <1>1 DEF TypeOK
  <2>3. \A t \in Tasks : pc'[t] # "waiting"
    BY <1>1 DEF HeapMatchesTasks
  <2>4. HeapMatchesTasks'
    BY <2>1, <2>3 DEF HeapMatchesTasks
  <2>5. ActiveMeansOwned' /\ SingleOwner'
    BY <2>1 DEF ActiveMeansOwned, SingleOwner
  <2> QED
    BY <2>2, <2>4, <2>5 DEF IInv
<1>2. CASE \E w \in Live :
              /\ \A v \in Live \ {w} : PopsBefore(w, v)
              /\ waiters' = {v \in waiters : PopsBefore(w, v)}
              /\ pc' = [places EXCEPT ![w.task] = "granted"]
              /\ UNCHANGED active
  <2>1. PICK w \in Live :
              /\ \A v \in Live \ {w} : PopsBefore(w, v)
              /\ waiters' = {v \in waiters : PopsBefore(w, v)}
              /\ pc' = [places EXCEPT ![w.task] = "granted"]
              /\ UNCHANGED active
    BY <1>2
  <2>2. w \in Waiter /\ w.task \in Tasks /\ w \in waiters /\ ~PopsBefore(w, w)
    <3>1. w \in Waiter /\ w \in waiters
      BY DEF TypeOK, Live
    <3>2. Priorities \subseteq Nat /\ Sequences \subseteq Nat
      BY DEF SerializerAssumption, Sequences
    <3>3. w.task \in Tasks /\ w.priority \in Nat /\ w.sequence \in Nat
      BY <3>1, <3>2 DEF Waiter
    <3> QED
      BY <3>1, <3>3 DEF PopsBefore
  <2>3. waiters' \subseteq waiters /\ w \notin waiters'
    BY <2>1, <2>2
  <2>4. Live' = Live \ {w}
    BY <2>1, <2>2, <2>3 DEF Live
  <2>5. TypeOK'
    BY <2>1, <2>2, <2>3 DEF TypeOK, Places
  <2>6. pc' [w.task] = "granted" /\ \A t \in Tasks \ {w.task} : pc'[t] = places[t]
    BY <2>1, <2>2
  <2>7. Owners' = {w.task}
    BY <2>2, <2>6 DEF Owners
  <2>8. HeapMatchesTasks'
    <3>1. \A v \in Live' : pc'[v.task] = "waiting"
      <4> SUFFICES ASSUME NEW v \in Live' PROVE pc'[v.task] = "waiting"
        OBVIOUS
      <4>1. v \in Live /\ v # w /\ v.task \in Tasks
        BY <2>4 DEF TypeOK, Live, Waiter
      <4>2. v.task # w.task
        BY <4>1 DEF HeapMatchesTasks
      <4> QED
        BY <4>1, <4>2, <2>6 DEF HeapMatchesTasks
    <3>2. \A t \in Tasks : pc'[t] = "waiting" => \E v \in Live' : v.task = t
      <4> SUFFICES ASSUME NEW t \in Tasks, pc'[t] = "waiting"
                   PROVE  \E v \in Live' : v.task = t
        OBVIOUS
      <4>1. t # w.task /\ pc[t] = "waiting"
        BY <2>6
      <4> QED
        BY <4>1, <2>4 DEF HeapMatchesTasks
    <3>3. \A u, v \in Live' : u.task = v.task => u = v
      BY <2>4 DEF HeapMatchesTasks
    <3>4. \A u, v \in waiters' : u.sequence = v.sequence => u = v
      BY <2>3 DEF HeapMatchesTasks
    <3> QED
      BY <3>1, <3>2, <3>3, <3>4 DEF HeapMatchesTasks
  <2>9. ActiveMeansOwned' /\ SingleOwner'
    BY <2>1, <2>7 DEF ActiveMeansOwned, SingleOwner
  <2> QED
    BY <2>5, <2>8, <2>9 DEF IInv
<1> QED
  BY <1>1, <1>2 DEF PassOn

-----------------------------------------------------------------------------
(* Every step of the serializer and of the tasks around it keeps the invariant. *)
LEMMA NextPreserves == IInv /\ [Next]_vars => IInv'
<1> SUFFICES ASSUME IInv, [Next]_vars PROVE IInv'
  OBVIOUS
<1> USE SerializerAssumption DEF IInv
<1>1. ASSUME NEW t \in Tasks, AcquireNow(t) PROVE IInv'
  <2>1. Owners = {} /\ handbacks = 0
    BY <1>1 DEF AcquireNow, ActiveMeansOwned
  <2>2. pc' \in [Tasks -> Places] /\ pc'[t] = "holding" /\ \A u \in Tasks \ {t} : pc'[u] = pc[u]
    BY <1>1 DEF AcquireNow, TypeOK, Places
  <2>3. Owners' = {t}
    BY <2>1, <2>2 DEF Owners
  <2>4. waiters = {} /\ waiters' = {} /\ Live' = {}
    BY <1>1 DEF AcquireNow, Live
  <2>5. TypeOK'
    BY <1>1, <2>2 DEF AcquireNow, TypeOK
  <2>6. HeapMatchesTasks'
    BY <1>1, <2>2, <2>4 DEF AcquireNow, HeapMatchesTasks, Live
  <2>7. ActiveMeansOwned' /\ SingleOwner'
    BY <1>1, <2>1, <2>3 DEF AcquireNow, ActiveMeansOwned, SingleOwner
  <2> QED
    BY <2>5, <2>6, <2>7
<1>2. ASSUME NEW t \in Tasks, NEW p \in Priorities, NEW i \in Sequences, Wait(t, p, i)
      PROVE  IInv'
  <2> DEFINE n == [task |-> t, priority |-> p, sequence |-> i, cancelled |-> FALSE]
  <2>1. n \in Waiter /\ i \in Nat /\ \A w \in waiters : w.sequence < i
    BY <1>2 DEF Wait, NextInHeap, Waiter, Sequences
  <2>0. n.task = t /\ n.sequence = i
    OBVIOUS
  <2>2. pc' \in [Tasks -> Places] /\ pc'[t] = "waiting" /\ \A u \in Tasks \ {t} : pc'[u] = pc[u]
    BY <1>2 DEF Wait, TypeOK, Places
  <2>3. waiters' = waiters \cup {n} /\ Live' = Live \cup {n} /\ pc[t] = "idle"
    BY <1>2 DEF Wait, Live
  <2> HIDE DEF n
  <2>4. Owners' = Owners
    BY <2>2, <2>3 DEF Owners
  <2>5. TypeOK'
    BY <1>2, <2>1, <2>2, <2>3 DEF Wait, TypeOK
  <2>6. \A w \in Live : w.task # t /\ w.task \in Tasks
    BY <2>3 DEF HeapMatchesTasks, TypeOK, Live, Waiter
  <2>7. \A w \in waiters : w.sequence \in Nat
    BY DEF TypeOK, Waiter, Sequences
  <2>8. HeapMatchesTasks'
    <3>1. \A w \in Live' : pc'[w.task] = "waiting"
      BY <2>0, <2>2, <2>3, <2>6 DEF HeapMatchesTasks
    <3>2. \A u \in Tasks : pc'[u] = "waiting" => \E w \in Live' : w.task = u
      BY <2>0, <2>2, <2>3 DEF HeapMatchesTasks
    <3>3. \A v, w \in Live' : v.task = w.task => v = w
      BY <2>0, <2>3, <2>6 DEF HeapMatchesTasks
    <3>4. \A v, w \in waiters' : v.sequence = w.sequence => v = w
      BY <2>0, <2>1, <2>3, <2>7 DEF HeapMatchesTasks
    <3> QED
      BY <3>1, <3>2, <3>3, <3>4 DEF HeapMatchesTasks
  <2>9. ActiveMeansOwned' /\ SingleOwner'
    BY <1>2, <2>4 DEF Wait, ActiveMeansOwned, SingleOwner
  <2> QED
    BY <2>5, <2>8, <2>9
<1>3. ASSUME NEW t \in Tasks, Resume(t) PROVE IInv'
  <2>1. pc' \in [Tasks -> Places] /\ pc[t] = "granted" /\ pc'[t] = "holding"
        /\ \A u \in Tasks \ {t} : pc'[u] = pc[u]
    BY <1>3 DEF Resume, TypeOK, Places
  <2>2. Owners' = Owners
    BY <2>1 DEF Owners
  <2>3. TypeOK'
    BY <1>3, <2>1 DEF Resume, TypeOK
  <2>4. HeapMatchesTasks'
    BY <1>3, <2>1 DEF Resume, HeapMatchesTasks, Live
  <2> QED
    BY <1>3, <2>2, <2>3, <2>4 DEF Resume, ActiveMeansOwned, SingleOwner
<1>4. ASSUME NEW t \in Tasks, CancelWait(t) PROVE IInv'
  <2> DEFINE Cancelled(w) == [w EXCEPT !.cancelled = @ \/ w.task = t]
  <2>1. pc' \in [Tasks -> Places] /\ pc[t] = "waiting" /\ pc'[t] = "idle"
        /\ \A u \in Tasks \ {t} : pc'[u] = pc[u]
    BY <1>4 DEF CancelWait, TypeOK, Places
  <2>2. waiters' = {Cancelled(w) : w \in waiters}
    BY <1>4 DEF CancelWait
  <2>3. \A w \in waiters : /\ Cancelled(w) \in Waiter
                           /\ Cancelled(w).task = w.task
                           /\ Cancelled(w).sequence = w.sequence
                           /\ Cancelled(w).cancelled <=> w.cancelled \/ w.task = t
                           /\ (w.task # t => Cancelled(w) = w)
    BY DEF TypeOK, Waiter
  <2> HIDE DEF Cancelled
  <2>4. Live' = {w \in Live : w.task # t}
    <3>1. \A w \in Live' : w \in Live /\ w.task # t
      BY <2>2, <2>3 DEF Live
    <3>2. \A w \in Live : w.task # t => w \in Live'
      BY <2>2, <2>3 DEF Live
    <3> QED
      BY <3>1, <3>2
  <2>5. Owners' = Owners
    BY <2>1 DEF Owners
  <2>6. TypeOK'
    BY <1>4, <2>1, <2>2, <2>3 DEF CancelWait, TypeOK
  <2>7. HeapMatchesTasks'
    <3>1. /\ \A w \in Live' : pc'[w.task] = "waiting"
          /\ \A u \in Tasks : pc'[u] = "waiting" => \E w \in Live' : w.task = u
          /\ \A v, w \in Live' : v.task = w.task => v = w
      <4>1. \A w \in Live : w.task \in Tasks
        BY DEF TypeOK, Live, Waiter
      <4> QED
        BY <2>1, <2>4, <4>1 DEF HeapMatchesTasks
    <3>2. \A v, w \in waiters' : v.sequence = w.sequence => v = w
      BY <1>4, <2>2, <2>3 DEF CancelWait, HeapMatchesTasks
    <3> QED
      BY <3>1, <3>2 DEF HeapMatchesTasks
  <2>8. ActiveMeansOwned' /\ SingleOwner'
    BY <1>4, <2>2, <2>5 DEF CancelWait, ActiveMeansOwned, SingleOwner
  <2> QED
    BY <2>6, <2>7, <2>8
<1>5. ASSUME NEW t \in Tasks, CancelGrant(t) PROVE IInv'
  <2>1. pc' \in [Tasks -> Places] /\ pc[t] = "granted" /\ pc'[t] = "idle"
        /\ \A u \in Tasks \ {t} : pc'[u] = pc[u]
    BY <1>5 DEF CancelGrant, TypeOK, Places
  <2>2. Owners = {t} /\ Owners' = {}
    BY <2>1 DEF Owners, SingleOwner
  <2>3. handbacks = 0 /\ handbacks' = 1 /\ active
    BY <1>5, <2>2 DEF CancelGrant, SingleOwner, TypeOK, ActiveMeansOwned
  <2>4. TypeOK'
    BY <1>5, <2>1, <2>3 DEF CancelGrant, TypeOK
  <2>5. HeapMatchesTasks'
    BY <1>5, <2>1 DEF CancelGrant, HeapMatchesTasks, Live
  <2> QED
    BY <1>5, <2>2, <2>3, <2>4, <2>5 DEF CancelGrant, ActiveMeansOwned, SingleOwner
<1>6. ASSUME NEW t \in Tasks, Release(t) PROVE IInv'
  <2> DEFINE places == [pc EXCEPT ![t] = "idle"]
  <2>1. pc[t] = "holding" /\ active = TRUE /\ PassOn(places)
    BY <1>6 DEF Release, TypeOK
  <2>2. places \in [Tasks -> Places] /\ places[t] = "idle"
        /\ \A u \in Tasks \ {t} : places[u] = pc[u]
    BY DEF TypeOK, Places
  <2>3. Owners = {t} /\ handbacks' = 0
    BY <1>6, <2>1 DEF Release, Owners, SingleOwner, TypeOK
  <2>4. \A u \in Tasks : /\ places[u] \notin {"granted", "holding"}
                         /\ places[u] = "waiting" <=> pc[u] = "waiting"
    BY <2>1, <2>2, <2>3 DEF Owners
  <2> HIDE DEF places
  <2> QED
    BY <2>1, <2>2, <2>3, <2>4, PassOnPreserves
<1>7. ASSUME RunHandback PROVE IInv'
  <2>1. Owners = {} /\ handbacks' = 0 /\ active = TRUE /\ PassOn(pc)
    BY <1>7 DEF RunHandback, SingleOwner, TypeOK
  <2>2. \A u \in Tasks : pc[u] \notin {"granted", "holding"}
    BY <2>1 DEF Owners
  <2> QED
    BY <2>1, <2>2, PassOnPreserves DEF TypeOK
<1>8. CASE UNCHANGED vars
  BY <1>8 DEF vars, TypeOK, HeapMatchesTasks, ActiveMeansOwned, SingleOwner, Owners, Live
<1> QED
  BY <1>1, <1>2, <1>3, <1>4, <1>5, <1>6, <1>7, <1>8 DEF Next

(* The inductive invariant holds in every behaviour. *)
THEOREM Invariance == Spec => []IInv
  BY InitEstablishes, NextPreserves, PTL DEF Spec

(* Type correctness. *)
THEOREM TypeCorrect == Spec => []TypeOK
<1>1. IInv => TypeOK
  BY DEF IInv
<1> QED
  BY <1>1, Invariance, PTL

(* However grants, cancellations and detached releases interleave, at most one
   transaction owns the link, and at most one release() is owed. *)
THEOREM MutualExclusion == Spec => []SingleOwner
<1>1. IInv => SingleOwner
  BY DEF IInv
<1> QED
  BY <1>1, Invariance, PTL

(* release() never finds the serializer without an owner. *)
THEOREM ReleaseIsOwned == Spec => []NeverReleasedWithoutOwner
<1>1. IInv => NeverReleasedWithoutOwner
  BY DEF IInv, TypeOK, ActiveMeansOwned, NeverReleasedWithoutOwner, Owners
<1> QED
  BY <1>1, Invariance, PTL

(* A task that waits in the heap always has somebody ahead of it who will release. *)
THEOREM NeverWedged == Spec => []NotWedged
<1>1. IInv => NotWedged
  BY DEF IInv, TypeOK, ActiveMeansOwned, NotWedged, Live
<1> QED
  BY <1>1, Invariance, PTL

-----------------------------------------------------------------------------
(* A grant is made by PassOn alone, and to the foremost pending future. *)
LEMMA PassOnGrantsForemost ==
    ASSUME NEW places, PassOn(places), NEW t \in Tasks,
           places \in [Tasks -> Places], places[t] = "waiting", pc'[t] = "granted"
    PROVE  \E w \in Live : w.task = t /\ \A v \in Live : v = w \/ PopsBefore(w, v)
<1>1. pc' # places
  OBVIOUS
<1>2. PICK w \in Live : /\ \A v \in Live \ {w} : PopsBefore(w, v)
                        /\ pc' = [places EXCEPT ![w.task] = "granted"]
  BY <1>1 DEF PassOn
<1>3. w.task = t
  BY <1>2
<1> QED
  BY <1>2, <1>3

(* No step grants the slot to a task while a foremost one waits. *)
THEOREM GrantOrder == Spec => GrantsForemost
<1> DEFINE Foremost(t) ==
      \E w \in Live : w.task = t /\ \A v \in Live : v = w \/ PopsBefore(w, v)
<1>1. ASSUME IInv, [Next]_vars, NEW t \in Tasks, pc[t] = "waiting", pc'[t] = "granted"
      PROVE  Foremost(t)
  <2> USE <1>1
  <2>1. pc \in [Tasks -> Places]
    BY DEF IInv, TypeOK
  <2>2. ASSUME NEW u \in Tasks, Release(u) PROVE Foremost(t)
    <3>1. pc[u] = "holding" /\ PassOn([pc EXCEPT ![u] = "idle"])
      BY <2>2 DEF Release
    <3>2. [pc EXCEPT ![u] = "idle"] \in [Tasks -> Places] /\ u # t
          /\ [pc EXCEPT ![u] = "idle"][t] = "waiting"
      BY <2>1, <3>1 DEF Places
    <3> QED
      BY <3>1, <3>2, PassOnGrantsForemost
  <2>3. CASE RunHandback
    BY <2>1, <2>3, PassOnGrantsForemost DEF RunHandback
  <2>4. ASSUME NEW u \in Tasks,
               \/ AcquireNow(u) \/ Resume(u) \/ CancelWait(u) \/ CancelGrant(u)
               \/ \E p \in Priorities, n \in Sequences : Wait(u, p, n)
        PROVE  FALSE
    BY <2>1, <2>4 DEF AcquireNow, Resume, CancelWait, CancelGrant, Wait
  <2>5. CASE UNCHANGED vars
    BY <2>5 DEF vars
  <2> QED
    BY <2>2, <2>3, <2>4, <2>5 DEF Next
<1>2. IInv /\ [Next]_vars =>
        [\A t \in Tasks : pc[t] = "waiting" /\ pc'[t] = "granted" => Foremost(t)]_vars
  BY <1>1
<1> QED
  BY <1>2, Invariance, PTL DEF Spec, GrantsForemost

-----------------------------------------------------------------------------
(* The abstract holder, read off the program counters. *)
LEMMA HolderValues ==
    ASSUME IInv
    PROVE  /\ \A t \in Tasks : t \in Owners => Holder = t
           /\ Owners = {} /\ handbacks = 1 => Holder = Detached
           /\ Owners = {} /\ handbacks = 0 => Holder = Free
<1>1. ASSUME NEW t \in Tasks, t \in Owners PROVE Holder = t
  BY <1>1 DEF IInv, SingleOwner, Owners, Holder
<1> QED
  BY <1>1 DEF Holder

LEMMA DistinctValues == Free # Detached /\ Free \notin Tasks /\ Detached \notin Tasks
  BY SerializerAssumption DEF SerializerAssumption, Free, Detached

(* Handing over in the heap is handing over in the abstract queue. *)
LEMMA PassOnHandsOver ==
    ASSUME IInv, IInv', NEW places \in [Tasks -> Places], PassOn(places), handbacks' = 0,
           \A t \in Tasks : places[t] \notin {"granted", "holding"}
    PROVE  Mutex!Handover
<1> DEFINE Image(w) == [task |-> w.task, priority |-> w.priority, ticket |-> w.sequence]
<1>1. CASE Live = {} /\ waiters' = {} /\ pc' = places
  <2>1. Owners' = {} /\ Live' = {}
    BY <1>1 DEF Owners, Live
  <2>2. Holder' = Free
    BY <2>1 DEF Holder
  <2>3. Queue = {} /\ Queue' = {}
    BY <1>1, <2>1 DEF Queue
  <2> QED
    BY <2>2, <2>3 DEF Mutex!Handover
<1>2. CASE \E w \in Live : /\ \A v \in Live \ {w} : PopsBefore(w, v)
                           /\ waiters' = {v \in waiters : PopsBefore(w, v)}
                           /\ pc' = [places EXCEPT ![w.task] = "granted"]
  <2>1. PICK w \in Live : /\ \A v \in Live \ {w} : PopsBefore(w, v)
                          /\ waiters' = {v \in waiters : PopsBefore(w, v)}
                          /\ pc' = [places EXCEPT ![w.task] = "granted"]
    BY <1>2
  <2>2. Live \subseteq Waiter /\ Live \subseteq waiters /\ w.task \in Tasks
    BY DEF IInv, TypeOK, Live, Waiter
  <2>3. w.task \in Owners'
    BY <2>1, <2>2 DEF Owners
  <2>4. Holder' = w.task
    <3>1. \A t, u \in Owners' : t = u
      BY DEF IInv, SingleOwner
    <3>2. Owners' \subseteq Tasks
      BY DEF Owners
    <3> QED
      BY <2>3, <3>1, <3>2 DEF Holder
  <2>5. \A v \in Live \ {w} : v.task # w.task
    BY DEF IInv, HeapMatchesTasks
  <2>6. Live' = Live \ {w}
    <3>1. ~PopsBefore(w, w)
      <4>1. Priorities \subseteq Nat /\ Sequences \subseteq Nat
        BY SerializerAssumption DEF SerializerAssumption, Sequences
      <4>2. w.priority \in Nat /\ w.sequence \in Nat
        BY <2>2, <4>1 DEF Waiter
      <4> QED
        BY <4>2 DEF PopsBefore
    <3> QED
      BY <2>1, <3>1 DEF Live
  <2>7. Queue = {Image(v) : v \in Live} /\ Queue' = {Image(v) : v \in Live'}
    BY DEF Queue
  <2>8. \A v \in Live \ {w} : Image(v) # Image(w)
    BY <2>5
  <2>9. Queue' = Queue \ {Image(w)} /\ Image(w) \in Queue
    BY <2>6, <2>7, <2>8
  <2>10. \A q \in Queue \ {Image(w)} : Mutex!Before(Image(w), q)
    <3> SUFFICES ASSUME NEW v \in Live, Image(v) # Image(w)
                 PROVE  Mutex!Before(Image(w), Image(v))
      BY <2>7
    <3>1. PopsBefore(w, v)
      BY <2>1
    <3> QED
      BY <3>1 DEF PopsBefore, Mutex!Before
  <2>11. Mutex!Foremost(Image(w), Queue)
    BY <2>9, <2>10 DEF Mutex!Foremost
  <2> QED
    BY <2>4, <2>9, <2>11 DEF Mutex!Handover
<1> QED
  BY <1>1, <1>2 DEF PassOn

(* Each step of the heap is a step of the abstract mutex or leaves it alone. *)
LEMMA StepSimulation ==
    ASSUME IInv, IInv', [Next]_vars
    PROVE  [Mutex!MutexNext]_(Mutex!mutexVars)
<1> DEFINE Image(w) == [task |-> w.task, priority |-> w.priority, ticket |-> w.sequence]
<1>a. Queue = {Image(w) : w \in Live} /\ Queue' = {Image(w) : w \in Live'}
  BY DEF Queue
<1>b. /\ Live \subseteq Waiter /\ Live \subseteq waiters
      /\ \A w \in Live : w.task \in Tasks /\ pc[w.task] = "waiting"
  BY DEF IInv, TypeOK, Live, Waiter, HeapMatchesTasks
<1>c. handbacks \in Nat /\ handbacks <= 1 /\ pc \in [Tasks -> Places]
  BY DEF IInv, TypeOK, SingleOwner
<1>1. ASSUME NEW t \in Tasks, AcquireNow(t) PROVE Mutex!Acquire(t)
  <2>1. Owners = {} /\ handbacks = 0 /\ waiters = {} /\ waiters' = {}
    BY <1>1 DEF AcquireNow, IInv, ActiveMeansOwned
  <2>2. t \in Owners'
    BY <1>1, <1>c DEF AcquireNow, Owners
  <2>3. Holder' = t
    BY <2>2, <1>1 DEF IInv, SingleOwner, Owners, Holder
  <2>4. Queue = {} /\ Queue' = {}
    BY <2>1 DEF Queue, Live
  <2> QED
    BY <2>1, <2>3, <2>4, HolderValues DEF Mutex!Acquire
<1>2. ASSUME NEW t \in Tasks, NEW p \in Priorities, NEW i \in Sequences, Wait(t, p, i)
      PROVE  Mutex!Enqueue(t, p, i)
  <2>1. pc[t] = "idle" /\ pc'[t] = "waiting" /\ \A u \in Tasks \ {t} : pc'[u] = pc[u]
    BY <1>2, <1>c DEF Wait
  <2>2. Owners' = Owners /\ handbacks' = handbacks
    BY <1>2, <2>1 DEF Wait, Owners
  <2>3. Holder' = Holder
    BY <2>2 DEF Holder
  <2>4. t \notin Owners /\ \A w \in Live : w.task # t
    BY <2>1, <1>b DEF Owners
  <2>5. Owners # {} \/ handbacks = 1
    BY <1>2 DEF Wait, IInv, ActiveMeansOwned
  <2>6. Holder # t /\ Holder # Free
    <3>1. CASE Owners # {}
      <4>1. PICK u \in Owners : TRUE
        BY <3>1
      <4> QED
        BY <4>1, <2>4, HolderValues, DistinctValues DEF Owners
    <3>2. CASE Owners = {}
      BY <3>2, <2>5, HolderValues, DistinctValues
    <3> QED
      BY <3>1, <3>2
  <2> DEFINE n == [task |-> t, priority |-> p, sequence |-> i, cancelled |-> FALSE]
  <2>7. Live' = Live \cup {n}
    BY <1>2 DEF Wait, Live
  <2>8. Queue' = Queue \cup {[task |-> t, priority |-> p, ticket |-> i]}
    <3>1. Image(n) = [task |-> t, priority |-> p, ticket |-> i]
      OBVIOUS
    <3> HIDE DEF n, Image
    <3>2. Queue' = Queue \cup {Image(n)}
      BY <1>a, <2>7
    <3> QED
      BY <3>1, <3>2
  <2>9. \A q \in Queue : q.task # t /\ q.ticket < i
    BY <1>2, <1>a, <1>b, <2>4 DEF Wait, NextInHeap
  <2> QED
    BY <2>3, <2>6, <2>8, <2>9 DEF Mutex!Enqueue, Mutex!Waiting
<1>3. ASSUME NEW t \in Tasks, Resume(t) PROVE UNCHANGED <<Holder, Queue>>
  <2>1. Owners' = Owners
    BY <1>3, <1>c DEF Resume, Owners
  <2> QED
    BY <1>3, <2>1 DEF Resume, Holder, Queue, Live
<1>4. ASSUME NEW t \in Tasks, CancelWait(t) PROVE Mutex!Withdraw(t)
  <2> DEFINE Cancelled(w) == [w EXCEPT !.cancelled = @ \/ w.task = t]
  <2>1. pc[t] = "waiting" /\ waiters' = {Cancelled(w) : w \in waiters}
        /\ handbacks' = handbacks
    BY <1>4 DEF CancelWait
  <2>2. Owners' = Owners
    BY <1>4, <1>c DEF CancelWait, Owners
  <2>3. \A w \in waiters : /\ Cancelled(w).task = w.task
                           /\ Cancelled(w).cancelled <=> w.cancelled \/ w.task = t
                           /\ w.task # t => Cancelled(w) = w
    BY DEF IInv, TypeOK, Waiter
  <2> HIDE DEF Cancelled
  <2>4. Live' = {w \in Live : w.task # t}
    <3>1. \A w \in Live' : w \in Live /\ w.task # t
      BY <2>1, <2>3 DEF Live
    <3>2. \A w \in Live : w.task # t => w \in Live'
      BY <2>1, <2>3 DEF Live
    <3> QED
      BY <3>1, <3>2
  <2>5. Queue' = {q \in Queue : q.task # t}
    BY <1>a, <2>4
  <2>6. Mutex!Waiting(t)
    <3>1. PICK w \in Live : w.task = t
      BY <2>1 DEF IInv, HeapMatchesTasks
    <3>2. Image(w) \in Queue /\ Image(w).task = t
      BY <3>1, <1>a
    <3> QED
      BY <3>2 DEF Mutex!Waiting
  <2> QED
    BY <2>1, <2>2, <2>5, <2>6 DEF Mutex!Withdraw, Holder
<1>5. ASSUME NEW t \in Tasks, CancelGrant(t) PROVE Mutex!Abandon(t)
  <2>1. t \in Owners /\ t \notin Owners' /\ Owners' \subseteq Owners
    BY <1>5, <1>c DEF CancelGrant, Owners
  <2>2. Owners = {t} /\ Owners' = {} /\ handbacks' > 0
    BY <2>1, <1>5, <1>c DEF CancelGrant, IInv, SingleOwner
  <2>3. Holder = t /\ Holder' = Detached
    BY <2>2, HolderValues DEF Holder
  <2> QED
    BY <1>5, <2>3 DEF CancelGrant, Mutex!Abandon, Queue, Live
<1>6. ASSUME NEW t \in Tasks, Release(t) PROVE Mutex!Release(t)
  <2> DEFINE places == [pc EXCEPT ![t] = "idle"]
  <2>1. t \in Owners /\ PassOn(places) /\ handbacks' = handbacks
    BY <1>6 DEF Release, Owners
  <2>2. Owners = {t} /\ handbacks' = 0
    BY <2>1, <1>c DEF IInv, SingleOwner
  <2>3. places \in [Tasks -> Places]
        /\ \A u \in Tasks : places[u] \notin {"granted", "holding"}
    BY <2>2, <1>c DEF Owners, Places
  <2> HIDE DEF places
  <2> QED
    BY <2>1, <2>2, <2>3, HolderValues, PassOnHandsOver DEF Mutex!Release
<1>7. ASSUME RunHandback PROVE Mutex!HandBack
  <2>1. handbacks = 1 /\ handbacks' = 0 /\ PassOn(pc) /\ Owners = {}
    BY <1>7, <1>c DEF RunHandback, IInv, SingleOwner
  <2>2. \A u \in Tasks : pc[u] \notin {"granted", "holding"}
    BY <2>1 DEF Owners
  <2> QED
    BY <2>1, <2>2, <1>c, HolderValues, PassOnHandsOver DEF Mutex!HandBack
<1>8. ASSUME UNCHANGED vars PROVE UNCHANGED <<Holder, Queue>>
  <2>1. Owners' = Owners /\ Live' = Live /\ handbacks' = handbacks
    BY <1>8 DEF vars, Owners, Live
  <2> QED
    BY <2>1 DEF Holder, Queue
<1>9. ASSUME NEW t \in Tasks, NEW p \in Priorities, NEW i \in Sequences, Wait(t, p, i)
      PROVE  Mutex!MutexNext
  BY <1>2, <1>9 DEF Mutex!MutexNext
<1> QED
  BY <1>1, <1>3, <1>4, <1>5, <1>6, <1>7, <1>8, <1>9
  DEF Next, Mutex!MutexNext, Mutex!mutexVars

(* PrioritySerializer implements the slot ChargerSession is built on: the heap with
   its cancelled futures and detached releases is a direct handover. *)
THEOREM Refinement == Spec => ImplementsMutex
<1>1. Init => Mutex!MutexInit
  BY HolderValues, InitEstablishes DEF Init, Owners, Live, Queue, Mutex!MutexInit
<1>2. IInv /\ IInv' /\ [Next]_vars => [Mutex!MutexNext]_(Mutex!mutexVars)
  BY StepSimulation
<1> QED
  BY <1>1, <1>2, Invariance, PTL DEF Spec, ImplementsMutex, Mutex!MutexSpec
=============================================================================
