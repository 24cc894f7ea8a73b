------------------------ MODULE ChargerSessionProofs ------------------------
(***************************************************************************)
(* Theorems about ChargerSession for any callers, polls, setpoints, faults *)
(* and bounds: type correctness, who owns the pending response, that       *)
(* native writes never overlap, and that a poisoned client is unusable.    *)
(*                                                                         *)
(* None is inductive alone.  IInv adds how the slot, the pending response, *)
(* the native writes and the orphans depend on one another, and that a     *)
(* setup still current was started on a client that is not poisoned.       *)
(***************************************************************************)
EXTENDS ChargerSession, TLAPS, WellFoundedInduction

(* The helpers of SessionData keep the session's type, and what each of them *)
(* leaves alone: the poison flag, the generation, the pending response.      *)

(* e is a session that differs from d in readbacks, ambiguities and bookkeeping. *)
Kept(d, e) == /\ e \in Session
              /\ e.poisoned = d.poisoned
              /\ e.generation = d.generation
              /\ e.pending.owner = d.pending.owner

(* The records a new session is made of have their types. *)
LEMMA BlankTypes ==
    /\ NoTarget \in Targets /\ NoConfig \in Readback /\ NoTelemetry \in OutputReading
    /\ NoFrame \in Frame /\ NoPending \in Pending
<1>1. NoTarget \in Targets
  BY DataAssumption DEF DataAssumption, NoTarget, Targets
<1> QED
  BY <1>1 DEF NoConfig, Readback, NoTelemetry, OutputReading, NoFrame, Frame, NoPending,
              Pending, Unknown, OFF, ON

(* A new session has its type. *)
LEMMA NewSessionType == NewSession \in Session
  BY BlankTypes DEF NewSession, Session, States

(* Forgetting a connection's data keeps the type and the rest of the state. *)
LEMMA ResetKeeps ==
    ASSUME NEW d \in Session
    PROVE  /\ Kept(d, ResetConnectionData(d))
           /\ ResetConnectionData(d).state = d.state
  BY BlankTypes DEF Kept, ResetConnectionData, Session

(* Forgetting the ambiguities too keeps the same. *)
LEMMA ForgetKeeps ==
    ASSUME NEW d \in Session
    PROVE  /\ Kept(d, ForgetConnection(d))
           /\ ForgetConnection(d).state = d.state
<1> DEFINE e == ResetConnectionData(d)
<1>1. e \in Session /\ Kept(d, e) /\ e.state = d.state
  BY ResetKeeps DEF Kept
<1>2. ForgetConnection(d) = [e EXCEPT !.ambiguities = {}]
  BY DEF ForgetConnection
<1> HIDE DEF e
<1> QED
  BY <1>1, <1>2 DEF Kept, Session

(* Failing the pending response leaves it to its owner. *)
LEMMA FailPendingKeeps ==
    ASSUME NEW d \in Session
    PROVE  /\ Kept(d, FailPending(d))
           /\ FailPending(d).state = d.state
<1>1. [d.pending EXCEPT !.reply.kind = "failed"] \in Pending
  BY DEF Session, Pending, Frame
<1>2. FailPending(d) \in {d, [d EXCEPT !.pending = [d.pending EXCEPT !.reply.kind = "failed"]]}
  BY DEF FailPending, Session
<1> QED
  BY <1>1, <1>2 DEF Kept, Session, Pending

(* Poisoning sets the flag, advances the generation unless it was set, and leaves
   the pending response to its request. *)
LEMMA PoisonPoisons ==
    ASSUME NEW d \in Session
    PROVE  LET e == PoisonCurrentClient(d)
           IN /\ e \in Session
              /\ e.poisoned
              /\ e.pending.owner = d.pending.owner
              /\ IF d.poisoned THEN e.generation = d.generation /\ e.state = d.state
                 ELSE e.generation = d.generation + 1 /\ e.state = "error"
<1>1. CASE d.poisoned
  BY <1>1 DEF PoisonCurrentClient
<1>2. CASE ~d.poisoned
  <2> DEFINE c == ResetConnectionData(d)
  <2>1. c \in Session /\ Kept(d, c)
    BY ResetKeeps DEF Kept
  <2>2. PICK down \in {"scheduled", "hanging_up"} :
            PoisonCurrentClient(d) =
                [c EXCEPT !.poisoned = TRUE, !.generation = c.generation + 1,
                          !.polling = FALSE, !.poller = None, !.state = "error",
                          !.teardown = down]
    <3>1. c.teardown \in {"none", "scheduled", "hanging_up"}
      BY <2>1 DEF Session
    <3> QED
      BY <1>2, <2>1, <3>1 DEF PoisonCurrentClient, Session
  <2> HIDE DEF c
  <2>3. c.generation + 1 \in Nat
    BY <2>1 DEF Session
  <2>4. PoisonCurrentClient(d) \in Session
    BY <2>1, <2>2, <2>3 DEF Session, States
  <2>5. /\ PoisonCurrentClient(d).poisoned
        /\ PoisonCurrentClient(d).pending = c.pending
        /\ PoisonCurrentClient(d).generation = c.generation + 1
        /\ PoisonCurrentClient(d).state = "error"
    BY <2>1, <2>2 DEF Session
  <2> QED
    BY <1>2, <2>1, <2>4, <2>5 DEF Kept
<1> QED
  BY <1>1, <1>2

(* Recording an ambiguous outcome keeps the rest of the session. *)
LEMMA MarkKeeps ==
    ASSUME NEW d \in Session, NEW o \in Outcome
    PROVE  /\ Kept(d, MarkAmbiguous(d, o))
           /\ MarkAmbiguous(d, o).state = d.state
  BY DEF Kept, MarkAmbiguous, Session

(* Resolving an ambiguity after a confirmed effect keeps the rest of the session. *)
LEMMA ResolveKeeps ==
    ASSUME NEW d \in Session, NEW operation, NEW values
    PROVE  /\ Kept(d, ResolveAmbiguity(d, operation, values))
           /\ ResolveAmbiguity(d, operation, values).state = d.state
  BY DEF Kept, ResolveAmbiguity, Session

(* So does resolving one from a readback. *)
LEMMA ResolveFromReadbackKeeps ==
    ASSUME NEW d \in Session
    PROVE  /\ Kept(d, ResolveFromConfig(d))
           /\ ResolveFromConfig(d).state = d.state
           /\ Kept(d, ResolveFromTelemetry(d))
           /\ ResolveFromTelemetry(d).state = d.state
<1>1. \A S : LET e == [d EXCEPT !.ambiguities = {o \in @ : o.operation \notin S}]
             IN Kept(d, e) /\ e.state = d.state
  BY DEF Kept, Session
<1>2. LET e == [d EXCEPT !.ambiguities = {o \in @ : o.operation # "output"}]
      IN Kept(d, e) /\ e.state = d.state
  BY DEF Kept, Session
<1>3. Kept(d, d)
  BY DEF Kept
<1> QED
  BY <1>1, <1>2, <1>3 DEF ResolveFromConfig, ResolveFromTelemetry

(* A notification changes readbacks, ambiguities and the answer, nothing else. *)
LEMMA ApplyKeeps ==
    ASSUME NEW d \in Session, NEW f \in Frame
    PROVE  /\ Kept(d, ApplyDecoded(d, f))
           /\ ApplyDecoded(d, f).state = d.state
<1> DEFINE c == [d EXCEPT !.config = [known |-> TRUE, fresh |-> TRUE,
                    target |-> f.target, ceiling |-> f.ceiling, origin |-> f.on]]
           e == [d EXCEPT !.telemetry = [known |-> TRUE, fresh |-> TRUE,
                    output |-> f.output, origin |-> f.on]]
<1>1. Kept(d, d)
  BY DEF Kept
<1>2. Kept(d, c) /\ c.state = d.state
  BY DEF Kept, Session, Readback, Frame
<1>3. Kept(d, e) /\ e.state = d.state
  BY DEF Kept, Session, OutputReading, Frame
<1>4. ApplyDecoded(d, f) \in {d, ResolveFromConfig(c), ResolveFromTelemetry(e)}
  BY DEF ApplyDecoded
<1> HIDE DEF c, e
<1>5. /\ Kept(c, ResolveFromConfig(c)) /\ ResolveFromConfig(c).state = c.state
      /\ Kept(e, ResolveFromTelemetry(e)) /\ ResolveFromTelemetry(e).state = e.state
  BY <1>2, <1>3, ResolveFromReadbackKeeps DEF Kept
<1> QED
  BY <1>1, <1>2, <1>3, <1>4, <1>5 DEF Kept

(* Matching a frame to the pending request changes the reply, not its owner. *)
LEMMA MatchKeeps ==
    ASSUME NEW d \in Session, NEW f \in Frame
    PROVE  /\ Kept(d, MatchPending(d, f))
           /\ MatchPending(d, f).state = d.state
<1>1. [d.pending EXCEPT !.reply = f] \in Pending
  BY DEF Session, Pending
<1>2. MatchPending(d, f) \in {d, [d EXCEPT !.pending = [d.pending EXCEPT !.reply = f]]}
  BY DEF MatchPending, Session
<1> QED
  BY <1>1, <1>2 DEF Kept, Session, Pending

-----------------------------------------------------------------------------
(* The parts of the inductive invariant. *)
Transacting == {"writing", "replying"}

(* A task inside a transaction stands at a request of its program. *)
StepsInProgram ==
    \A t \in Tasks : task[t].pc \in {"queued"} \cup Transacting =>
        task[t].step \in 1 .. Len(Program(task[t].op))

(* Only a task that writes or awaits its answer owns the pending response. *)
OwnerTransacts == \A t \in Tasks : s.pending.owner = t => task[t].pc \in Transacting

(* A native write belongs to a request that is waiting for it. *)
WriterWrites == \A t \in Tasks : native[t].at # "none" => task[t].pc = "writing"

(* An orphan means a poisoned client and nobody in the middle of a write. *)
OrphansHeld ==
    /\ \A o, p \in orphans : o = p
    /\ orphans # {} => s.poisoned /\ \A t \in Tasks : task[t].pc # "writing"

SlotInv == PendingBelongsToOwner /\ OwnerTransacts /\ WriterWrites /\ OrphansHeld

(* A setup of the present generation runs on a client that is not poisoned. *)
SetupIsCurrent ==
    \A t \in Tasks : task[t].op = "connect" =>
        /\ task[t].gen <= s.generation
        /\ task[t].gen = s.generation => ~s.poisoned

(* Only connect() passes through the places of a setup, and it is at none of those
   of a disconnect(). *)
SetupPlaces ==
    \A t \in Tasks :
        /\ task[t].pc \in {"linking", "discovering", "subscribing", "settling"}
              => task[t].op = "connect"
        /\ task[t].pc \in {"tearing", "joining", "unsubscribing"} => task[t].op # "connect"

(* Tickets are bounded, so that the next one exists. *)
QueueBounded == \E n \in Nat : \A w \in queue : w.ticket <= n

IInv == /\ TypeOK /\ QueueBounded
        /\ SlotInv
        /\ StepsInProgram /\ SetupIsCurrent /\ SetupPlaces /\ PoisonedUnusable

WorldOK ==
    /\ link \in [up : BOOLEAN, id : Nat, handler : Nat, notify : BOOLEAN]
    /\ lost \in Nat
    /\ toDev \in Seq(AirFrame) /\ fromDev \in Seq(Frame)
    /\ dev \in [output : {OFF, ON}, target : Targets, ceiling : Levels]
    /\ heard \in [last : Seq(Requests), reported : Targets]
    /\ calls \in 0 .. MaxCalls /\ faults \in 0 .. MaxFaults
SlotOK == Mutex!MutexTypeOK /\ QueueBounded

-----------------------------------------------------------------------------
(* The serializer's part: every step of the mutex keeps its type. *)

(* A nonempty set of naturals has a least element. *)
LEMMA LeastNatural ==
    ASSUME NEW T \in SUBSET Nat, T # {}
    PROVE  \E x \in T : \A y \in T : x <= y
<1>1. PICK R : R = OpToRel(<, Nat)
  OBVIOUS
<1>2. IsWellFoundedOn(R, Nat)
  BY <1>1, NatLessThanWellFounded
<1>3. \A x, y \in Nat : <<y, x>> \in R <=> y < x
  BY <1>1 DEF OpToRel
<1>4. PICK x \in T : \A y \in T : ~ (<<y, x>> \in R)
  BY <1>2, WFMin
<1>5. \A y \in T : ~(y < x)
  BY <1>3, <1>4
<1> QED
  BY <1>5

(* The ticket of a new waiter is a natural number. *)
LEMMA NextTicketIsNat == SlotOK => NextTicket \in Nat
<1> SUFFICES ASSUME SlotOK, queue # {} PROVE NextTicket \in Nat
  BY DEF NextTicket
<1>1. \A w \in queue : w.ticket \in Nat
  BY DEF SlotOK, Mutex!MutexTypeOK, Mutex!Entry
<1> DEFINE Bounds == {n \in Nat : \A w \in queue : w.ticket <= n}
<1>2. PICK m \in Bounds : \A n \in Bounds : m <= n
  <2>1. Bounds \in SUBSET Nat /\ Bounds # {}
    BY DEF SlotOK, QueueBounded
  <2> HIDE DEF Bounds
  <2> QED
    BY <2>1, LeastNatural
<1>3. \E w \in queue : w.ticket = m
  <2> SUFFICES ASSUME \A w \in queue : w.ticket # m PROVE FALSE
    OBVIOUS
  <2>1. PICK w \in queue : TRUE
    OBVIOUS
  <2>2. m - 1 \in Nat /\ \A v \in queue : v.ticket <= m - 1
    BY <1>1, <1>2, <2>1
  <2> QED
    BY <1>2, <2>2
<1>4. \E w \in queue : \A v \in queue : v.ticket <= w.ticket
  BY <1>2, <1>3
<1> QED
  BY <1>1, <1>4 DEF NextTicket

(* Every step a task takes on the slot keeps its type. *)
LEMMA SlotSteps ==
    ASSUME SlotOK, NEW t \in Tasks,
           \/ Mutex!Acquire(t) \/ Mutex!Enqueue(t, 0, NextTicket)
           \/ Mutex!Enqueue(t, 10, NextTicket) \/ Mutex!Requeue(t, 10, NextTicket)
           \/ Mutex!Release(t) \/ Mutex!Withdraw(t) \/ Mutex!Abandon(t) \/ Mutex!HandBack
           \/ UNCHANGED mutex
    PROVE  SlotOK'
<1>1. NextTicket \in Nat
  BY NextTicketIsNat
<1>2. QueueBounded'
  <2>1. CASE queue' \subseteq queue
    BY <2>1 DEF SlotOK, QueueBounded
  <2>2. CASE \E p \in {0, 10} :
               /\ queue' = queue \cup {[task |-> t, priority |-> p, ticket |-> NextTicket]}
               /\ \A w \in queue : w.ticket < NextTicket
    BY <1>1, <2>2 DEF SlotOK, QueueBounded, Mutex!MutexTypeOK, Mutex!Entry
  <2>3. CASE Mutex!Requeue(t, 10, NextTicket)
    BY <1>1, <2>3 DEF SlotOK, QueueBounded, Mutex!MutexTypeOK, Mutex!Entry, Mutex!Requeue
  <2> QED
    BY <2>1, <2>2, <2>3 DEF Mutex!Acquire, Mutex!Enqueue, Mutex!Release, Mutex!Withdraw,
       Mutex!Abandon, Mutex!HandBack, Mutex!Handover, mutex
<1>3. Mutex!MutexTypeOK'
  BY <1>1 DEF SlotOK, Mutex!MutexTypeOK, Mutex!Entry, Mutex!Acquire, Mutex!Enqueue,
     Mutex!Requeue, Mutex!Release, Mutex!Withdraw, Mutex!Abandon, Mutex!HandBack,
     Mutex!Handover, mutex
<1> QED
  BY <1>2, <1>3 DEF SlotOK

-----------------------------------------------------------------------------
(* The requests of a method are requests, and a mutation is never the last. *)
LEMMA ProgramTypes ==
    ASSUME NEW op \in AllOperations, NEW k \in 1 .. Len(Program(op))
    PROVE  /\ Program(op)[k] \in Requests
           /\ Opcode(Program(op)[k]) \in Opcodes
           /\ Program(op)[k] \in Mutations => k + 1 \in 1 .. Len(Program(op))
<1>1. CASE op \in Setters
  BY <1>1, DataAssumption DEF DataAssumption, Program, Requests, Reads, Mutations, Opcodes
<1>2. CASE op \notin Setters
  <2>1. CASE op = "connect"
    BY <2>1, DataAssumption DEF DataAssumption, Program, Requests, Reads, Mutations, Opcodes
  <2>2. CASE op = "start"
    BY <1>2, <2>2, DataAssumption DEF DataAssumption, Program, Requests, Reads, Mutations, Opcodes
  <2>3. CASE op = "stop"
    BY <1>2, <2>3, DataAssumption DEF DataAssumption, Program, Requests, Reads, Mutations, Opcodes
  <2>4. CASE op \in {"refresh_config", "refresh_telemetry"}
    BY <1>2, <2>4, DataAssumption DEF DataAssumption, Program, Requests, Reads, Mutations, Opcodes
  <2>5. CASE op \notin {"connect", "start", "stop", "refresh_config", "refresh_telemetry"}
    BY <1>2, <2>5 DEF Program
  <2> QED
    BY <2>1, <2>2, <2>3, <2>4, <2>5
<1> QED
  BY <1>1, <1>2

(* What an unconfirmed mutation may have done is an outcome. *)
LEMMA OutcomeTypes ==
    ASSUME NEW frame \in Mutations, NEW want \in Targets
    PROVE  OutcomeOf(frame, want) \in Outcome
<1>1. CASE frame \in Setters
  <2>1. want[frame] \in Levels \cup {0}
    BY <1>1 DEF Targets
  <2>2. want[frame] \in Nat
    <3>1. \A x \in Levels : x \in Nat
      BY DataAssumption DEF DataAssumption
    <3> QED
      BY <2>1, <3>1
  <2> QED
    BY <1>1, <2>2 DEF OutcomeOf, Outcome
<1>2. CASE frame \notin Setters
  BY <1>2 DEF OutcomeOf, Outcome, ON, OFF
<1> QED
  BY <1>1, <1>2

-----------------------------------------------------------------------------
(* Frames: what a step must leave alone to keep each part of the invariant. *)

Unmoved(u) == /\ task'[u].pc = task[u].pc /\ task'[u].op = task[u].op
              /\ task'[u].gen = task[u].gen /\ task'[u].step = task[u].step

(* A task that moved stands where the setup invariants allow. *)
Placed(u) ==
    /\ task'[u].op = "connect" =>
          \/ task[u].op = "connect" /\ task'[u].gen = task[u].gen
          \/ task'[u].gen = s'.generation /\ ~s'.poisoned
    /\ task'[u].pc \in {"queued"} \cup Transacting =>
          task'[u].step \in 1 .. Len(Program(task'[u].op))
    /\ task'[u].pc \in {"linking", "discovering", "subscribing", "settling"} =>
          task'[u].op = "connect"
    /\ task'[u].pc \in {"tearing", "joining", "unsubscribing"} => task'[u].op # "connect"

Aside(u) == task[u].pc \notin Transacting /\ task'[u].pc \notin Transacting

(* The client is poisoned only by moving to a new generation. *)
Onward == /\ s'.generation >= s.generation
          /\ s'.generation = s.generation /\ s'.poisoned => s.poisoned
          /\ s'.poisoned => s'.state \in {"error", "disconnecting", "disconnected"}

(* The setup invariants survive a step that goes onward. *)
LEMMA SetupKept ==
    ASSUME IInv, s' \in Session, Onward,
           \A u \in Tasks : Unmoved(u) \/ Placed(u)
    PROVE  (StepsInProgram /\ SetupIsCurrent /\ SetupPlaces /\ PoisonedUnusable)'
<1>1. s.generation \in Nat /\ s'.generation \in Nat /\ task \in [Tasks -> TaskState]
  BY DEF IInv, TypeOK, Session
<1>2. \A u \in Tasks : task[u].gen \in Nat
  BY <1>1 DEF TaskState
<1>3. StepsInProgram'
  BY DEF IInv, StepsInProgram, Unmoved, Placed, Transacting
<1>4. SetupPlaces'
  BY DEF IInv, SetupPlaces, Unmoved, Placed
<1>5. SetupIsCurrent'
  <2> SUFFICES ASSUME NEW u \in Tasks, task'[u].op = "connect"
               PROVE  /\ task'[u].gen <= s'.generation
                      /\ task'[u].gen = s'.generation => ~s'.poisoned
    BY DEF SetupIsCurrent
  <2>1. CASE task[u].op = "connect" /\ task'[u].gen = task[u].gen
    BY <1>1, <1>2, <2>1 DEF IInv, SetupIsCurrent, Onward
  <2>2. CASE task'[u].gen = s'.generation /\ ~s'.poisoned
    BY <1>1, <2>2
  <2> QED
    BY <2>1, <2>2 DEF Unmoved, Placed
<1>6. PoisonedUnusable'
  BY DEF PoisonedUnusable, Onward
<1> QED
  BY <1>3, <1>4, <1>5, <1>6

(* The slot invariants survive a step of tasks that are in no transaction. *)
LEMMA SlotKeptAside ==
    ASSUME IInv, \A u \in Tasks : Unmoved(u) \/ Aside(u),
           s'.pending.owner = s.pending.owner,
           s.pending.owner # None => holder' = holder,
           \A u \in Tasks : native[u].at = "none" => native'[u].at = "none",
           orphans' \subseteq orphans,
           orphans' # {} => s'.poisoned
    PROVE  SlotInv'
<1>1. PendingBelongsToOwner'
  BY DEF IInv, SlotInv, PendingBelongsToOwner, Unmoved, Aside, Transacting
<1>2. OwnerTransacts'
  BY DEF IInv, SlotInv, OwnerTransacts, Unmoved, Aside, Transacting
<1>3. WriterWrites'
  BY DEF IInv, SlotInv, WriterWrites, Unmoved, Aside, Transacting
<1>4. OrphansHeld'
  BY DEF IInv, SlotInv, OrphansHeld, Unmoved, Aside, Transacting
<1> QED
  BY <1>1, <1>2, <1>3, <1>4 DEF SlotInv

(* They survive the start of a request by the slot's owner, or by a task that finds
   the slot free, when no write was left behind. *)
LEMMA SlotKeptBySend ==
    ASSUME IInv, NEW t \in Tasks, \A u \in Tasks \ {t} : Unmoved(u),
           holder \in {t, "free"}, holder' = t,
           s'.pending.owner = t, task'[t].pc = "writing",
           \A u \in Tasks \ {t} : native'[u] = native[u],
           orphans = {}, UNCHANGED orphans
    PROVE  SlotInv'
<1>1. \A u \in Tasks \ {t} : task[u].pc \notin Transacting
  BY SessionAssumption, DataAssumption
     DEF IInv, SlotInv, PendingBelongsToOwner, Transacting, SessionAssumption, DataAssumption
<1>2. None # t
  BY DataAssumption DEF DataAssumption
<1>3. PendingBelongsToOwner'
  BY <1>1 DEF PendingBelongsToOwner, Unmoved, Transacting
<1>4. OwnerTransacts'
  BY DEF OwnerTransacts, Transacting
<1>5. WriterWrites'
  BY DEF IInv, SlotInv, WriterWrites, Unmoved
<1>6. OrphansHeld'
  BY DEF OrphansHeld
<1> QED
  BY <1>3, <1>4, <1>5, <1>6 DEF SlotInv

(* They survive the end of a request, however it ends: a write left behind poisons
   the client. *)
LEMMA SlotKeptByLeave ==
    ASSUME IInv, NEW t \in Tasks, task[t].pc \in Transacting,
           \A u \in Tasks \ {t} : Unmoved(u),
           s'.pending.owner = None, task'[t].pc \notin Transacting,
           \A u \in Tasks \ {t} : native'[u] = native[u], native'[t].at = "none",
           \/ orphans' = orphans
           \/ task[t].pc = "writing" /\ s'.poisoned /\ \E o : orphans' = orphans \cup {o},
           orphans' # {} => s'.poisoned
    PROVE  SlotInv'
<1>1. \A u \in Tasks \ {t} : task[u].pc \notin Transacting
  BY SessionAssumption, DataAssumption
     DEF IInv, SlotInv, PendingBelongsToOwner, Transacting, SessionAssumption, DataAssumption
<1>2. None \notin Tasks
  BY DataAssumption DEF DataAssumption
<1>3. PendingBelongsToOwner'
  BY <1>1 DEF PendingBelongsToOwner, Unmoved, Transacting
<1>4. OwnerTransacts'
  BY <1>2 DEF OwnerTransacts
<1>5. WriterWrites'
  BY DEF IInv, SlotInv, WriterWrites, Unmoved
<1>6. OrphansHeld'
  BY <1>1 DEF IInv, SlotInv, OrphansHeld, Unmoved, Transacting
<1> QED
  BY <1>3, <1>4, <1>5, <1>6 DEF SlotInv

-----------------------------------------------------------------------------
(* How the operators shared by the actions end. *)

(* A task at rest and a sleeping poll have their types. *)
LEMMA IdleTypes == Idle \in TaskState /\ Sleeping \in TaskState
  BY BlankTypes DEF Idle, Sleeping, TaskState, Places, AllOperations, Unknown

(* Cancelling the poll only flags it. *)
LEMMA CancelPollKeeps ==
    ASSUME NEW ts \in [Tasks -> TaskState], NEW t
    PROVE  /\ CancelPoll(ts, t) \in [Tasks -> TaskState]
           /\ \A u \in Tasks : /\ CancelPoll(ts, t)[u].pc = ts[u].pc
                               /\ CancelPoll(ts, t)[u].op = ts[u].op
                               /\ CancelPoll(ts, t)[u].gen = ts[u].gen
                               /\ CancelPoll(ts, t)[u].step = ts[u].step
                               /\ CancelPoll(ts, t)[u].want = ts[u].want
<1>1. CASE s.poller \in Tasks
  <2>1. CancelPoll(ts, t) \in {ts, [ts EXCEPT ![s.poller] = [ts[s.poller] EXCEPT !.cancel = TRUE]]}
    BY <1>1 DEF CancelPoll
  <2>2. [ts[s.poller] EXCEPT !.cancel = TRUE] \in TaskState
    BY <1>1 DEF TaskState
  <2> QED
    BY <1>1, <2>1, <2>2 DEF TaskState
<1>2. CASE s.poller \notin Tasks
  BY <1>2 DEF CancelPoll
<1> QED
  BY <1>1, <1>2

(* A connect() that failed ends in ERROR or DISCONNECTED. *)
LEMMA ConnectEndedKeeps ==
    ASSUME NEW d \in Session, NEW up, NEW cancelled
    PROVE  /\ Kept(d, ConnectEnded(d, up, cancelled))
           /\ ConnectEnded(d, up, cancelled).state \in {"error", "disconnected"}
<1> DEFINE e == ForgetConnection(FailPending(d))
<1>1. Kept(d, e)
  BY FailPendingKeeps, ForgetKeeps DEF Kept
<1>2. PICK x \in {"error", "disconnected"} : ConnectEnded(d, up, cancelled) =
        [e EXCEPT !.polling = FALSE, !.poller = None, !.connector = None, !.state = x]
  <2>1. (IF cancelled /\ ~up THEN "disconnected" ELSE "error") \in {"error", "disconnected"}
    OBVIOUS
  <2> QED
    BY <2>1 DEF ConnectEnded
<1> HIDE DEF e
<1>3. ConnectEnded(d, up, cancelled) \in Session
  BY <1>1, <1>2 DEF Kept, Session, States
<1>4. /\ ConnectEnded(d, up, cancelled).pending = e.pending
      /\ ConnectEnded(d, up, cancelled).poisoned = e.poisoned
      /\ ConnectEnded(d, up, cancelled).generation = e.generation
      /\ ConnectEnded(d, up, cancelled).state = x
  BY <1>1, <1>2 DEF Kept, Session
<1> QED
  BY <1>1, <1>2, <1>3, <1>4 DEF Kept

(* A task that gives up is idle, or a connect that cleans up. *)
GaveUp(t, d, ts) ==
    /\ Kept(d, s')
    /\ s'.state \in {d.state, "error", "disconnected"}
    /\ task' \in [Tasks -> TaskState]
    /\ \A u \in Tasks \ {t} : task'[u] = ts[u]
    /\ task'[t].pc \in {"idle", "cleaning"}
    /\ \/ task'[t].op = "none"
       \/ task'[t].op = ts[t].op /\ task'[t].gen = ts[t].gen

(* Unwinding a setup either ends it or starts its cleanup. *)
LEMMA ConnectUnwindEnds ==
    ASSUME NEW d \in Session, NEW ts \in [Tasks -> TaskState], NEW t \in Tasks,
           NEW up, NEW cancelled \in BOOLEAN, ConnectUnwind(t, d, ts, up, cancelled)
    PROVE  GaveUp(t, d, ts)
<1>1. CASE s' = ConnectEnded(d, up, cancelled) /\ task' = [ts EXCEPT ![t] = Idle]
  BY <1>1, ConnectEndedKeeps, IdleTypes DEF GaveUp, Idle
<1>2. CASE /\ s' = [d EXCEPT !.expected = TRUE, !.polling = FALSE, !.poller = None]
           /\ task' = [ts EXCEPT ![t].pc = "cleaning", ![t].cancel = FALSE,
                                 ![t].failing = ~cancelled]
  <2>1. Kept(d, s') /\ s'.state = d.state
    BY <1>2 DEF Kept, Session
  <2>2. task' = [ts EXCEPT ![t] = [ts[t] EXCEPT !.pc = "cleaning", !.cancel = FALSE,
                                                !.failing = ~cancelled]]
    BY <1>2
  <2>3. [ts[t] EXCEPT !.pc = "cleaning", !.cancel = FALSE, !.failing = ~cancelled] \in TaskState
    BY DEF TaskState, Places
  <2> QED
    BY <2>1, <2>2, <2>3 DEF GaveUp, TaskState
<1> QED
  BY <1>1, <1>2 DEF ConnectUnwind

(* A task that gives up is idle, or a connect that cleans up. *)
LEMMA GiveUpEnds ==
    ASSUME NEW d \in Session, NEW ts \in [Tasks -> TaskState], NEW t \in Tasks,
           NEW cancelled \in BOOLEAN, GiveUp(t, d, ts, cancelled)
    PROVE  GaveUp(t, d, ts)
<1>1. CASE ConnectUnwind(t, d, ts, link.up, cancelled)
  BY <1>1, ConnectUnwindEnds
<1>2. CASE s' = d /\ task' = [ts EXCEPT ![t] = Idle]
  BY <1>2, IdleTypes DEF GaveUp, Idle, Kept
<1> QED
  BY <1>1, <1>2 DEF GiveUp

(* A task whose transaction succeeded is idle, or a poll asleep. *)
LEMMA LeaveEnds ==
    ASSUME NEW d \in Session, NEW ts \in [Tasks -> TaskState], NEW t \in Tasks,
           Leave(t, d, ts)
    PROVE  /\ s' = d /\ task' \in [Tasks -> TaskState]
           /\ \A u \in Tasks \ {t} : task'[u] = ts[u]
           /\ task'[t].pc \in {"idle", "sleeping"} /\ task'[t].op = "none"
  BY IdleTypes DEF Leave, Idle, Sleeping

(* A request that is sent. *)
Sent(t, d, ts, op, k) ==
    /\ s' \in Session /\ s'.pending.owner = t
    /\ s'.poisoned = d.poisoned /\ s'.generation = d.generation /\ s'.state = d.state
    /\ task' \in [Tasks -> TaskState]
    /\ \A u \in Tasks \ {t} : task'[u] = ts[u]
    /\ task'[t].pc = "writing" /\ task'[t].op = op /\ task'[t].step = k
    /\ task'[t].gen = ts[t].gen
    /\ native' \in [Tasks -> NativeWrite]
    /\ \A u \in Tasks \ {t} : native'[u] = native[u]

(* Sending a request makes the task the owner of the pending response. *)
LEMMA SendSends ==
    ASSUME TypeOK, NEW d \in Session, NEW ts \in [Tasks -> TaskState], NEW t \in Tasks,
           NEW op \in AllOperations, NEW want \in Targets, NEW k \in 1 .. Len(Program(op)),
           Send(t, d, ts, op, want, k)
    PROVE  Sent(t, d, ts, op, k)
<1>1. [owner |-> t, op |-> Opcode(Program(op)[k]), reply |-> NoFrame] \in Pending
  BY BlankTypes, ProgramTypes DEF Pending
<1>2. /\ s' \in Session /\ s'.pending.owner = t
      /\ s'.poisoned = d.poisoned /\ s'.generation = d.generation /\ s'.state = d.state
  BY <1>1 DEF Send, Session
<1> DEFINE r == [ts[t] EXCEPT !.pc = "writing", !.op = op, !.want = want,
                              !.step = k, !.chunk = 1]
<1>3. task' = [ts EXCEPT ![t] = r]
  BY DEF Send
<1>4. k \in Nat
  OBVIOUS
<1>5. r \in TaskState /\ r.pc = "writing" /\ r.op = op /\ r.step = k /\ r.gen = ts[t].gen
  BY <1>4 DEF TaskState, Places
<1>6. /\ native' \in [Tasks -> NativeWrite]
      /\ \A u \in Tasks \ {t} : native'[u] = native[u]
  BY DEF Send, TypeOK, NativeWrite
<1> HIDE DEF r
<1> QED
  BY <1>2, <1>3, <1>5, <1>6 DEF Sent

-----------------------------------------------------------------------------
(* Steps built from the shared operators keep the invariant. *)

(* d is a session this step may leave behind. *)
Forward(d) ==
    /\ d \in Session
    /\ d.generation >= s.generation
    /\ d.generation = s.generation /\ d.poisoned => s.poisoned
    /\ d.poisoned => d.state \in {"error", "disconnecting", "disconnected"}
    /\ orphans # {} => d.poisoned

(* Only the task t differs between ts and task, apart from cancellations. *)
Beside(t, ts) ==
    /\ ts \in [Tasks -> TaskState]
    /\ \A u \in Tasks \ {t} : /\ ts[u].pc = task[u].pc /\ ts[u].op = task[u].op
                              /\ ts[u].gen = task[u].gen /\ ts[u].step = task[u].step

(* t goes on with the setup it was in, or is in none. *)
SameSetup(t, ts) ==
    ts[t].op = "connect" => task[t].op = "connect" /\ ts[t].gen = task[t].gen

(* The session may always be left as it is. *)
LEMMA SessionForward == IInv => Forward(s) /\ \A t \in Tasks : Beside(t, task) /\ SameSetup(t, task)
  BY DEF IInv, TypeOK, PoisonedUnusable, SlotInv, OrphansHeld, Forward, Beside, SameSetup, Session

(* A transaction belongs to the slot's owner. *)
LEMMA TransactingOwns ==
    ASSUME IInv, NEW t \in Tasks, task[t].pc \in Transacting
    PROVE  holder = t /\ s.pending.owner = t
  BY DataAssumption DEF DataAssumption, IInv, SlotInv, PendingBelongsToOwner, Transacting

(* A task in a transaction, or queued for one, executes a method of the session. *)
LEMMA OperationOf ==
    ASSUME IInv, NEW t \in Tasks, task[t].pc \in {"queued"} \cup Transacting
    PROVE  /\ task[t].op \in AllOperations /\ task[t].want \in Targets
           /\ task[t].step \in 1 .. Len(Program(task[t].op))
           /\ task[t].gen \in Nat
<1>1. task[t] \in TaskState
  BY DEF IInv, TypeOK
<1>2. task[t].step \in 1 .. Len(Program(task[t].op))
  BY DEF IInv, StepsInProgram
<1>3. task[t].op # "none"
  <2> SUFFICES ASSUME task[t].op = "none" PROVE FALSE
    OBVIOUS
  <2>1. Program("none") = <<>>
    BY DataAssumption DEF DataAssumption, Program
  <2> QED
    BY <1>2, <2>1
<1> QED
  BY <1>1, <1>2, <1>3 DEF TaskState

(* The invariant's part about the slot and the world. *)
LEMMA WorldOf == IInv => WorldOK /\ SlotOK
  BY DEF IInv, TypeOK, WorldOK, SlotOK

(* The parts of the invariant after a step make the invariant. *)
LEMMA Assemble ==
    ASSUME s' \in Session, task' \in [Tasks -> TaskState], SlotOK',
           native' \in [Tasks -> NativeWrite], orphans' \subseteq Orphan, WorldOK',
           SlotInv', (StepsInProgram /\ SetupIsCurrent /\ SetupPlaces /\ PoisonedUnusable)'
    PROVE  IInv'
  BY DEF IInv, TypeOK, SlotOK, WorldOK

(* A task outside any transaction gives up. *)
LEMMA GaveUpAside ==
    ASSUME IInv, NEW t \in Tasks, task[t].pc \notin Transacting,
           NEW d, Forward(d), d.pending.owner = s.pending.owner,
           NEW ts, Beside(t, ts),
           ts[t].op = "connect" => \/ task[t].op = "connect" /\ ts[t].gen = task[t].gen
                                   \/ ts[t].gen = d.generation /\ ~d.poisoned,
           GaveUp(t, d, ts), UNCHANGED <<native, orphans>>,
           SlotOK', s.pending.owner # None => holder' = holder, WorldOK'
    PROVE  IInv'
<1>1. \A u \in Tasks \ {t} : Unmoved(u)
  BY DEF Beside, GaveUp, Unmoved
<1>2. Placed(t) /\ Aside(t)
  BY DEF Placed, Aside, GaveUp, Transacting, Kept
<1>3. Onward /\ s' \in Session /\ task' \in [Tasks -> TaskState]
  BY DEF Forward, GaveUp, Kept, Onward
<1>4. (StepsInProgram /\ SetupIsCurrent /\ SetupPlaces /\ PoisonedUnusable)'
  BY <1>1, <1>2, <1>3, SetupKept
<1>5. SlotInv'
  <2>1. s'.pending.owner = s.pending.owner /\ (orphans' # {} => s'.poisoned)
    BY DEF Forward, GaveUp, Kept
  <2> QED
    BY <1>1, <1>2, <2>1, SlotKeptAside
<1>6. native' \in [Tasks -> NativeWrite] /\ orphans' \subseteq Orphan
  BY DEF IInv, TypeOK
<1> QED
  BY <1>3, <1>4, <1>5, <1>6, Assemble

(* The slot's owner sends. *)
LEMMA SentKeeps ==
    ASSUME IInv, NEW t \in Tasks, holder \in {t, "free"}, holder' = t,
           NEW d, Forward(d), ~d.poisoned,
           NEW ts, Beside(t, ts),
           NEW op \in AllOperations, NEW k \in 1 .. Len(Program(op)),
           op = "connect" => task[t].op = "connect" /\ ts[t].gen = task[t].gen,
           Sent(t, d, ts, op, k), UNCHANGED orphans, SlotOK', WorldOK'
    PROVE  IInv'
<1>1. \A u \in Tasks \ {t} : Unmoved(u)
  BY DEF Beside, Sent, Unmoved
<1>2. Placed(t)
  BY DEF Placed, Sent, Transacting
<1>3. Onward /\ s' \in Session /\ task' \in [Tasks -> TaskState]
  BY DEF Forward, Sent, Onward
<1>4. (StepsInProgram /\ SetupIsCurrent /\ SetupPlaces /\ PoisonedUnusable)'
  BY <1>1, <1>2, <1>3, SetupKept
<1>5. SlotInv'
  BY <1>1, SlotKeptBySend DEF Forward, Sent
<1>6. native' \in [Tasks -> NativeWrite] /\ orphans' \subseteq Orphan
  BY DEF IInv, TypeOK, Sent
<1> QED
  BY <1>3, <1>4, <1>5, <1>6, Assemble

(* A transaction ends. *)
LEMMA LeftKeeps ==
    ASSUME IInv, NEW t \in Tasks, task[t].pc \in Transacting,
           Forward(s'), s'.pending.owner = None,
           task' \in [Tasks -> TaskState], \A u \in Tasks \ {t} : Unmoved(u),
           task'[t].pc \in {"idle", "sleeping", "cleaning", "queued"}, Placed(t),
           native' \in [Tasks -> NativeWrite], native'[t].at = "none",
           \A u \in Tasks \ {t} : native'[u] = native[u],
           orphans' \subseteq Orphan, orphans' # {} => s'.poisoned,
           orphans' = orphans \/ (task[t].pc = "writing" /\ \E o : orphans' = orphans \cup {o}),
           SlotOK', WorldOK'
    PROVE  IInv'
<1>1. Onward /\ s' \in Session
  BY DEF Forward, Onward
<1>2. (StepsInProgram /\ SetupIsCurrent /\ SetupPlaces /\ PoisonedUnusable)'
  BY <1>1, SetupKept
<1>3. SlotInv'
  <2>1. task'[t].pc \notin Transacting
    BY DEF Transacting
  <2>2. orphans' # orphans => s'.poisoned
    OBVIOUS
  <2> QED
    BY <2>1, <2>2, SlotKeptByLeave
<1> QED
  BY <1>1, <1>2, <1>3, Assemble

(* Entering slot(): the request is sent, refused or queued. *)
LEMMA BeginKeeps ==
    ASSUME IInv, NEW t \in Tasks, task[t].pc \notin Transacting,
           NEW d, Forward(d), d.pending.owner = s.pending.owner,
           NEW ts, Beside(t, ts), SameSetup(t, ts),
           NEW op \in AllOperations, NEW want \in Targets,
           NEW k \in 1 .. Len(Program(op)),
           op = "connect" => task[t].op = "connect" /\ ts[t].gen = task[t].gen,
           Begin(t, d, ts, op, want, k), UNCHANGED orphans, WorldOK'
    PROVE  IInv'
<1> d \in Session /\ ts \in [Tasks -> TaskState] /\ TypeOK /\ SlotOK
  BY WorldOf DEF Forward, Beside, IInv
<1>1. CASE /\ holder = "free"
           /\ CanSend(d) /\ Mutex!Acquire(t) /\ Send(t, d, ts, op, want, k)
  <2>1. Sent(t, d, ts, op, k)
    BY <1>1, SendSends
  <2>2. SlotOK' /\ holder' = t /\ ~d.poisoned
    BY <1>1, SlotSteps DEF CanSend, Mutex!Acquire
  <2> QED
    BY <1>1, <2>1, <2>2, SentKeeps
<1>2. CASE GiveUp(t, d, ts, FALSE) /\ UNCHANGED <<mutex, native>>
  <2>1. GaveUp(t, d, ts)
    BY <1>2, GiveUpEnds
  <2>2. SlotOK' /\ holder' = holder /\ UNCHANGED <<native, orphans>>
    BY <1>2, SlotSteps DEF mutex
  <2> QED
    BY <2>1, <2>2, GaveUpAside DEF SameSetup
<1>3. CASE /\ Mutex!Enqueue(t, Priority(op), NextTicket)
           /\ s' = d
           /\ task' = [ts EXCEPT ![t].pc = "queued", ![t].op = op, ![t].want = want,
                                 ![t].step = k]
           /\ UNCHANGED native
  <2>1. SlotOK' /\ holder' = holder
    BY <1>3, SlotSteps DEF Priority, Mutex!Enqueue
  <2> DEFINE r == [ts[t] EXCEPT !.pc = "queued", !.op = op, !.want = want, !.step = k]
  <2>2. task' = [ts EXCEPT ![t] = r]
    BY <1>3
  <2>3. k \in Nat
    OBVIOUS
  <2>4. /\ r \in TaskState /\ r.pc = "queued" /\ r.op = op /\ r.step = k
        /\ r.gen = ts[t].gen
    BY <2>3 DEF TaskState, Places
  <2> HIDE DEF r
  <2>5. task' \in [Tasks -> TaskState] /\ task'[t] = r
    BY <2>2, <2>4
  <2>6. \A u \in Tasks \ {t} : Unmoved(u)
    BY <2>2 DEF Beside, Unmoved
  <2>7. Placed(t) /\ Aside(t)
    BY <2>4, <2>5 DEF Placed, Aside, Transacting
  <2>8. Onward
    BY <1>3 DEF Forward, Onward
  <2>9. (StepsInProgram /\ SetupIsCurrent /\ SetupPlaces /\ PoisonedUnusable)'
    BY <1>3, <2>6, <2>7, <2>8, SetupKept
  <2>10. SlotInv'
    BY <1>3, <2>1, <2>6, <2>7, SlotKeptAside DEF Forward
  <2> QED
    BY <1>3, <2>1, <2>5, <2>9, <2>10, Assemble DEF TypeOK
<1> QED
  BY <1>1, <1>2, <1>3 DEF Begin

(* A transaction that ends because the task gives up. *)
LEMMA GiveUpLeaves ==
    ASSUME IInv, NEW t \in Tasks, task[t].pc \in Transacting,
           NEW d, Forward(d), d.pending.owner = None,
           NEW ts, Beside(t, ts), SameSetup(t, ts),
           NEW cancelled \in BOOLEAN, GiveUp(t, d, ts, cancelled), Mutex!Release(t),
           native' \in [Tasks -> NativeWrite], native'[t].at = "none",
           \A u \in Tasks \ {t} : native'[u] = native[u],
           orphans' \subseteq Orphan, orphans' # {} => d.poisoned,
           orphans' = orphans \/ (task[t].pc = "writing" /\ \E o : orphans' = orphans \cup {o}),
           WorldOK'
    PROVE  IInv'
<1>1. GaveUp(t, d, ts)
  BY GiveUpEnds DEF Forward, Beside
<1>2. SlotOK'
  BY SlotSteps, WorldOf
<1>3. Forward(s') /\ s'.pending.owner = None /\ (orphans' # {} => s'.poisoned)
  BY <1>1 DEF Forward, GaveUp, Kept
<1>4. /\ task' \in [Tasks -> TaskState] /\ \A u \in Tasks \ {t} : Unmoved(u)
      /\ task'[t].pc \in {"idle", "cleaning"} /\ Placed(t)
  BY <1>1 DEF GaveUp, Beside, SameSetup, Unmoved, Placed, Transacting
<1> QED
  BY <1>2, <1>3, <1>4, LeftKeeps

(* A transaction whose last answer is in. *)
LEMMA LeaveLeaves ==
    ASSUME IInv, NEW t \in Tasks, task[t].pc = "replying",
           NEW d, Forward(d), d.pending.owner = None,
           Leave(t, d, task), Mutex!Release(t), UNCHANGED <<native, orphans>>, WorldOK'
    PROVE  IInv'
<1>1. task \in [Tasks -> TaskState] /\ d \in Session
  BY DEF IInv, TypeOK, Forward
<1>2. SlotOK'
  BY SlotSteps, WorldOf
<1>3. /\ s' = d /\ task' \in [Tasks -> TaskState]
      /\ \A u \in Tasks \ {t} : task'[u] = task[u]
      /\ task'[t].pc \in {"idle", "sleeping"} /\ task'[t].op = "none"
  BY <1>1, LeaveEnds
<1>4. Placed(t) /\ \A u \in Tasks \ {t} : Unmoved(u)
  BY <1>3 DEF Placed, Unmoved, Transacting
<1>5. native'[t].at = "none"
  BY DEF IInv, SlotInv, WriterWrites
<1>6. /\ Forward(s') /\ s'.pending.owner = None /\ (orphans' # {} => s'.poisoned)
      /\ native' \in [Tasks -> NativeWrite] /\ orphans' \subseteq Orphan
  BY <1>3 DEF Forward, IInv, TypeOK
<1>7. /\ task[t].pc \in Transacting /\ orphans' = orphans
      /\ \A u \in Tasks \ {t} : native'[u] = native[u]
  BY DEF Transacting
<1>8. task'[t].pc \in {"idle", "sleeping", "cleaning", "queued"}
  BY <1>3
<1> QED
  BY <1>2, <1>3, <1>4, <1>5, <1>6, <1>7, <1>8, LeftKeeps

(* An answer is in and the next request of the transaction follows. *)
LEMMA ContinueKeeps ==
    ASSUME IInv, NEW t \in Tasks, task[t].pc = "replying",
           NEW d, Forward(d), d.pending.owner = None,
           NEW ts, Beside(t, ts), ts[t].op = task[t].op, ts[t].gen = task[t].gen,
           NEW k \in 1 .. Len(Program(task[t].op)),
           Continue(t, d, ts, k), UNCHANGED orphans, WorldOK'
    PROVE  IInv'
<1>1. task[t].pc \in Transacting /\ native[t].at = "none" /\ SlotOK
  BY WorldOf DEF Transacting, IInv, SlotInv, WriterWrites
<1>2. holder = t /\ task[t].op \in AllOperations /\ task[t].want \in Targets
  BY <1>1, TransactingOwns, OperationOf
<1>3. CASE CanSend(d) /\ Send(t, d, ts, task[t].op, task[t].want, k) /\ UNCHANGED mutex
  <2>1. Sent(t, d, ts, task[t].op, k)
    BY <1>2, <1>3, SendSends DEF IInv, Forward, Beside
  <2>2. SlotOK' /\ holder' = t /\ ~d.poisoned
    BY <1>1, <1>2, <1>3, SlotSteps DEF CanSend, mutex
  <2> QED
    BY <1>2, <2>1, <2>2, SentKeeps
<1>4. CASE GiveUp(t, d, ts, FALSE) /\ Mutex!Release(t) /\ UNCHANGED native
  <2>1. SameSetup(t, ts) /\ (orphans' # {} => d.poisoned) /\ orphans' = orphans
    BY DEF SameSetup, Forward
  <2>2. /\ native' \in [Tasks -> NativeWrite] /\ native'[t].at = "none"
        /\ \A u \in Tasks \ {t} : native'[u] = native[u]
        /\ orphans' \subseteq Orphan
    BY <1>1, <1>4 DEF IInv, TypeOK
  <2> QED
    BY <1>1, <1>4, <2>1, <2>2, GiveUpLeaves
<1> QED
  BY <1>3, <1>4 DEF Continue

(* connect() goes on to its next transaction, at once or behind a waiter. *)
LEMMA NextTransactionKeeps ==
    ASSUME IInv, NEW t \in Tasks, task[t].pc = "replying",
           NEW d, Forward(d), d.pending.owner = None,
           NEW k \in 1 .. Len(Program(task[t].op)),
           NextTransaction(t, d, task, k), UNCHANGED orphans, WorldOK'
    PROVE  IInv'
<1>1. CASE Continue(t, d, task, k)
  BY <1>1, ContinueKeeps, SessionForward
<1>2. CASE /\ Mutex!Requeue(t, 10, NextTicket)
           /\ s' = d
           /\ task' = [task EXCEPT ![t].pc = "queued", ![t].step = k]
           /\ UNCHANGED native
  <2>1. SlotOK'
    BY <1>2, SlotSteps, WorldOf
  <2>2. task \in [Tasks -> TaskState] /\ task[t] \in TaskState /\ k \in Nat
    BY DEF IInv, TypeOK
  <2> DEFINE r == [task[t] EXCEPT !.pc = "queued", !.step = k]
  <2>3. task' = [task EXCEPT ![t] = r]
    BY <1>2
  <2>4. /\ r \in TaskState /\ r.pc = "queued" /\ r.op = task[t].op /\ r.step = k
        /\ r.gen = task[t].gen
    BY <2>2 DEF TaskState, Places
  <2> HIDE DEF r
  <2>5. /\ task' \in [Tasks -> TaskState] /\ task'[t] = r
        /\ \A u \in Tasks \ {t} : Unmoved(u)
    BY <2>2, <2>3, <2>4 DEF Unmoved
  <2>6. Placed(t)
    BY <2>4, <2>5 DEF Placed
  <2>7. native'[t].at = "none" /\ native' \in [Tasks -> NativeWrite]
    BY <1>2 DEF IInv, SlotInv, WriterWrites, TypeOK
  <2>8. orphans' \subseteq Orphan /\ (orphans' # {} => s'.poisoned) /\ Forward(s')
    BY <1>2 DEF IInv, TypeOK, Forward
  <2>9. /\ task[t].pc \in Transacting /\ orphans' = orphans
        /\ \A u \in Tasks \ {t} : native'[u] = native[u]
    BY <1>2 DEF Transacting
  <2>10. task'[t].pc = "queued" /\ s'.pending.owner = None
    BY <1>2, <2>4, <2>5
  <2> QED
    BY <2>1, <2>5, <2>6, <2>7, <2>8, <2>9, <2>10, LeftKeeps
<1> QED
  BY <1>1, <1>2 DEF NextTransaction

(* Dropping the pending response leaves a session a step may leave behind. *)
LEMMA PendingCleared ==
    ASSUME NEW d, Forward(d)
    PROVE  /\ Forward([d EXCEPT !.pending = NoPending])
           /\ [d EXCEPT !.pending = NoPending].pending.owner = None
<1>1. NoPending \in Pending /\ NoPending.owner = None
  BY BlankTypes DEF NoPending
<1> QED
  BY <1>1 DEF Forward, Session

(* So does recording an ambiguous outcome. *)
LEMMA MarkForward ==
    ASSUME NEW d, Forward(d), NEW o \in Outcome
    PROVE  Forward(MarkAmbiguous(d, o))
<1> d \in Session
  BY DEF Forward
<1> QED
  BY MarkKeeps DEF Forward, Kept

(* So does poisoning the client. *)
LEMMA PoisonForward ==
    IInv => Forward(PoisonCurrentClient(s)) /\ PoisonCurrentClient(s).poisoned
<1> SUFFICES ASSUME IInv PROVE Forward(PoisonCurrentClient(s)) /\ PoisonCurrentClient(s).poisoned
  OBVIOUS
<1>1. s \in Session /\ s.generation \in Nat /\ Forward(s)
  BY SessionForward DEF IInv, TypeOK, Session
<1> QED
  BY <1>1, PoisonPoisons DEF Forward

(* A request that failed, with or without poisoning the client. *)
LEMMA FailedKeeps ==
    ASSUME IInv, NEW t \in Tasks, task[t].pc \in Transacting,
           NEW d \in {s, PoisonCurrentClient(s)}, NEW cancelled \in BOOLEAN,
           Failed(t, d, cancelled),
           orphans' \subseteq Orphan, orphans' # {} => d.poisoned,
           orphans' = orphans \/ (task[t].pc = "writing" /\ \E o : orphans' = orphans \cup {o}),
           WorldOK'
    PROVE  IInv'
<1>1. Forward(d)
  BY SessionForward, PoisonForward
<1> DEFINE marked == IF Request(t) \in Mutations
                     THEN MarkAmbiguous(d, OutcomeOf(Request(t), task[t].want)) ELSE d
           e == [marked EXCEPT !.pending = NoPending]
<1>2. Forward(marked) /\ marked.poisoned = d.poisoned
  <2>1. CASE Request(t) \in Mutations
    <3>1. OutcomeOf(Request(t), task[t].want) \in Outcome
      BY <2>1, OperationOf, OutcomeTypes
    <3> QED
      BY <1>1, <2>1, <3>1, MarkForward, MarkKeeps DEF Forward, Kept
  <2> QED
    BY <1>1, <2>1
<1>3. Forward(e) /\ e.pending.owner = None /\ e.poisoned = d.poisoned
  <2> HIDE DEF marked
  <2> QED
    BY <1>2, PendingCleared DEF Forward, Session
<1> HIDE DEF e
<1>4. PICK ts \in {task, CancelPoll(task, t)} : GiveUp(t, e, ts, cancelled)
  BY DEF Failed, e
<1>5. task \in [Tasks -> TaskState] /\ native \in [Tasks -> NativeWrite]
  BY DEF IInv, TypeOK
<1>6. Beside(t, ts) /\ SameSetup(t, ts)
  BY <1>5, CancelPollKeeps DEF Beside, SameSetup
<1>7. /\ Mutex!Release(t) /\ native' = [native EXCEPT ![t] = NoWrite]
  BY DEF Failed
<1>8. /\ native' \in [Tasks -> NativeWrite] /\ native'[t].at = "none"
      /\ \A u \in Tasks \ {t} : native'[u] = native[u]
  BY <1>5, <1>7 DEF NoWrite, NativeWrite
<1>9. orphans' # {} => e.poisoned
  BY <1>3
<1> HIDE DEF marked
<1> QED
  BY <1>3, <1>4, <1>6, <1>7, <1>8, <1>9, GiveUpLeaves

(* A step that leaves the world and the budget alone keeps their types. *)
LEMMA WorldSame == WorldOK /\ UNCHANGED <<world, budget>> => WorldOK'
  BY DEF WorldOK, world, budget

(* Faults stay within their bound. *)
LEMMA InjectBounds ==
    ASSUME NEW kind, faults \in 0 .. MaxFaults, Inject(kind)
    PROVE  faults' \in 0 .. MaxFaults
  BY SessionAssumption DEF SessionAssumption, Inject

-----------------------------------------------------------------------------
(* One lemma per action: it keeps the invariant. *)

(* A waiter that was granted the slot sends or gives up. *)
LEMMA GrantedKeeps ==
    ASSUME IInv, NEW t \in Tasks, Granted(t)
    PROVE  IInv'
<1>1. /\ task[t].pc = "queued" /\ holder = t /\ task[t].pc \notin Transacting
      /\ WorldOK' /\ SlotOK /\ Forward(s) /\ Beside(t, task) /\ SameSetup(t, task)
      /\ TypeOK /\ s \in Session /\ task \in [Tasks -> TaskState]
  BY WorldOf, WorldSame, SessionForward DEF Granted, Transacting, IInv, TypeOK
<1>2. CASE CanSend(s) /\ Send(t, s, task, task[t].op, task[t].want, task[t].step) /\ UNCHANGED mutex
  <2>1. Sent(t, s, task, task[t].op, task[t].step)
    BY <1>1, <1>2, SendSends, OperationOf
  <2>2. SlotOK' /\ holder' = t /\ ~s.poisoned
    BY <1>1, <1>2, SlotSteps DEF CanSend, mutex
  <2>3. UNCHANGED orphans
    BY DEF Granted
  <2> QED
    BY <1>1, <2>1, <2>2, <2>3, SentKeeps, OperationOf
<1>3. CASE GiveUp(t, s, task, FALSE) /\ Mutex!Release(t) /\ UNCHANGED native
  <2>1. GaveUp(t, s, task)
    BY <1>1, <1>3, GiveUpEnds
  <2>2. SlotOK'
    BY <1>1, <1>3, SlotSteps
  <2>3. s.pending.owner = None
    BY <1>1 DEF IInv, SlotInv, PendingBelongsToOwner, OwnerTransacts
  <2>4. UNCHANGED <<native, orphans>>
    BY <1>3 DEF Granted
  <2> QED
    BY <1>1, <2>1, <2>2, <2>3, <2>4, GaveUpAside DEF SameSetup
<1> QED
  BY <1>2, <1>3 DEF Granted

(* A write that has landed: the next chunk, the wait for the answer, or a deadline
   that expired between chunks. *)
LEMMA WriteDoneKeeps ==
    ASSUME IInv, NEW t \in Tasks, WriteDone(t)
    PROVE  IInv'
<1>1. /\ task[t].pc = "writing" /\ task[t].pc \in Transacting /\ WorldOK' /\ SlotOK
      /\ task \in [Tasks -> TaskState] /\ task[t] \in TaskState /\ orphans' = orphans
      /\ native \in [Tasks -> NativeWrite] /\ link.id \in Nat /\ Forward(s)
      /\ s \in Session /\ orphans \subseteq Orphan
  BY WorldOf, WorldSame, SessionForward DEF WriteDone, Transacting, IInv, TypeOK
<1>2. orphans = {}
  BY <1>1 DEF IInv, SlotInv, OrphansHeld
<1>3. CASE Failed(t, PoisonCurrentClient(s), FALSE)
  BY <1>1, <1>2, <1>3, FailedKeeps
<1>4. CASE /\ \/ /\ task' = [task EXCEPT ![t].chunk = @ + 1]
                 /\ native' = [native EXCEPT ![t] = [at |-> "busy", on |-> link.id]]
              \/ /\ task' = [task EXCEPT ![t].pc = "replying"]
                 /\ native' = [native EXCEPT ![t] = NoWrite]
           /\ UNCHANGED <<s, mutex>>
  <2>1. /\ task' \in [Tasks -> TaskState] /\ native' \in [Tasks -> NativeWrite]
        /\ \A u \in Tasks \ {t} : Unmoved(u)
        /\ \A u \in Tasks \ {t} : native'[u] = native[u]
    <3>1. /\ [task[t] EXCEPT !.chunk = @ + 1] \in TaskState
          /\ [task[t] EXCEPT !.pc = "replying"] \in TaskState
      BY <1>1 DEF TaskState, Places
    <3>2. task' \in {[task EXCEPT ![t] = [task[t] EXCEPT !.chunk = @ + 1]],
                     [task EXCEPT ![t] = [task[t] EXCEPT !.pc = "replying"]]}
      BY <1>1, <1>4
    <3>3. native' \in [Tasks -> NativeWrite] /\ \A u \in Tasks \ {t} : native'[u] = native[u]
      BY <1>1, <1>4 DEF NativeWrite, NoWrite
    <3> QED
      BY <1>1, <3>1, <3>2, <3>3 DEF Unmoved
  <2>2. /\ task'[t].op = task[t].op /\ task'[t].gen = task[t].gen /\ task'[t].step = task[t].step
        /\ \/ task'[t].pc = "writing"
           \/ task'[t].pc = "replying" /\ native'[t].at = "none"
    BY <1>1, <1>4 DEF TaskState, NoWrite
  <2>3. Placed(t)
    BY <1>1, <2>2 DEF Placed, Transacting, IInv, StepsInProgram
  <2>4. Onward
    BY <1>1, <1>4 DEF Forward, Onward
  <2>5. (StepsInProgram /\ SetupIsCurrent /\ SetupPlaces /\ PoisonedUnusable)'
    BY <1>1, <1>4, <2>1, <2>3, <2>4, SetupKept
  <2>6. SlotInv'
    <3>1. s' = s /\ holder' = holder /\ holder = t /\ s.pending.owner = t
      BY <1>1, <1>4, TransactingOwns DEF mutex
    <3>2. PendingBelongsToOwner'
      BY <2>1, <3>1 DEF IInv, SlotInv, PendingBelongsToOwner, Unmoved, Transacting
    <3>3. OwnerTransacts'
      BY <2>2, <3>1 DEF OwnerTransacts, Transacting
    <3>4. WriterWrites'
      BY <2>1, <2>2 DEF IInv, SlotInv, WriterWrites, Unmoved
    <3>5. OrphansHeld'
      BY <1>1, <1>2 DEF OrphansHeld
    <3> QED
      BY <3>2, <3>3, <3>4, <3>5 DEF SlotInv
  <2>7. SlotOK'
    BY <1>1, <1>4, SlotSteps
  <2> QED
    BY <1>1, <1>4, <2>1, <2>5, <2>6, <2>7, Assemble
<1> QED
  BY <1>3, <1>4 DEF WriteDone

(* A write left behind is recorded with its type. *)
LEMMA OrphanTypes ==
    ASSUME IInv, NEW t \in Tasks, task[t].pc \in Transacting
    PROVE  OrphanOf(t) \in Orphan
<1>1. /\ Request(t) \in Requests /\ task[t].want \in Targets /\ native[t] \in NativeWrite
  BY OperationOf, ProgramTypes DEF Request, IInv, TypeOK
<1>2. OnAir(Request(t), task[t].want, native[t].on) \in AirFrame
  BY <1>1, BlankTypes DEF OnAir, AirFrame, NativeWrite
<1> QED
  BY <1>2 DEF OrphanOf, Orphan

(* Requests that fail: a native error, a deadline, a broken link, a cancellation. *)
LEMMA FailuresKeep ==
    ASSUME IInv, NEW t \in Tasks,
           \/ WriteFailed(t) \/ WriteTimeout(t) \/ ReplyTimeout(t) \/ ReplyFailed(t)
           \/ UnwindWrite(t) \/ UnwindReply(t)
    PROVE  IInv'
<1>1. /\ task[t].pc \in Transacting /\ WorldOK' /\ Forward(s) /\ orphans \subseteq Orphan
  BY WorldOf, WorldSame, SessionForward DEF WriteFailed, WriteTimeout, ReplyTimeout, ReplyFailed,
     Answered, UnwindWrite, UnwindReply, Transacting, IInv, TypeOK
<1>2. PoisonCurrentClient(s).poisoned /\ (orphans # {} => s.poisoned)
  BY <1>1, PoisonForward DEF Forward
<1>3. CASE \/ WriteFailed(t) \/ ReplyTimeout(t) \/ ReplyFailed(t) \/ UnwindReply(t)
  <2>1. orphans' = orphans
    BY <1>3 DEF WriteFailed, ReplyTimeout, ReplyFailed, UnwindReply
  <2>2. \E d \in {s, PoisonCurrentClient(s)}, cancelled \in BOOLEAN : Failed(t, d, cancelled)
    BY <1>3 DEF WriteFailed, ReplyTimeout, ReplyFailed, UnwindReply
  <2> QED
    BY <1>1, <1>2, <2>1, <2>2, FailedKeeps
<1>4. CASE WriteTimeout(t) \/ UnwindWrite(t)
  <2>1. orphans' = orphans \/ (task[t].pc = "writing" /\ \E o : orphans' = orphans \cup {o})
    BY <1>4 DEF WriteTimeout, UnwindWrite
  <2>2. orphans' \subseteq Orphan
    BY <1>1, <1>4, OrphanTypes DEF WriteTimeout, UnwindWrite
  <2>3. \E cancelled \in BOOLEAN : Failed(t, PoisonCurrentClient(s), cancelled)
    BY <1>4 DEF WriteTimeout, UnwindWrite
  <2> QED
    BY <1>1, <1>2, <2>1, <2>2, <2>3, FailedKeeps
<1> QED
  BY <1>3, <1>4

(* Taking the answer leaves a session a step may leave behind. *)
LEMMA TakenForward == IInv => Forward(Taken) /\ Taken.pending.owner = None
  BY SessionForward, PendingCleared DEF Taken

(* A step of the setup that is still current meets a client that is not poisoned. *)
LEMMA CurrentUnpoisoned ==
    ASSUME IInv, NEW t \in Tasks, task[t].op = "connect", Current(t)
    PROVE  ~s.poisoned
  BY DEF IInv, SetupIsCurrent, Current

(* An answer to a request of connect(). *)
LEMMA SetupReplyKeeps ==
    ASSUME IInv, NEW t \in Tasks, SetupReply(t)
    PROVE  IInv'
<1> DEFINE d == IF task[t].step = 1
                THEN [Taken EXCEPT !.authenticated = TRUE, !.state = "loading"] ELSE Taken
           e == [d EXCEPT !.state = "ready", !.connector = None]
<1>1. /\ task[t].pc = "replying" /\ task[t].pc \in Transacting /\ task[t].op = "connect"
      /\ WorldOK' /\ UNCHANGED orphans /\ orphans \subseteq Orphan
      /\ Beside(t, task) /\ SameSetup(t, task) /\ native[t].at = "none"
      /\ native \in [Tasks -> NativeWrite] /\ (orphans # {} => s.poisoned)
  BY WorldOf, WorldSame, SessionForward
     DEF SetupReply, Answered, Transacting, IInv, TypeOK, SlotInv, WriterWrites, OrphansHeld
<1>2. /\ Forward(Taken) /\ Taken \in Session
      /\ Taken.pending.owner = None /\ Taken.poisoned = s.poisoned
  BY TakenForward DEF Forward, IInv, TypeOK, Taken, Session
<1>3. ASSUME Current(t)
      PROVE  /\ Forward(d) /\ d.pending.owner = None
             /\ Forward(e) /\ e.pending.owner = None
             /\ d.poisoned = s.poisoned
  <2>1. ~s.poisoned
    BY <1>1, <1>3, CurrentUnpoisoned
  <2>2. /\ d \in Session /\ d.pending = Taken.pending /\ d.poisoned = Taken.poisoned
        /\ d.generation = Taken.generation
    BY <1>2 DEF Session, States
  <2> HIDE DEF d
  <2>3. /\ e \in Session /\ e.pending = d.pending /\ e.poisoned = d.poisoned
        /\ e.generation = d.generation
    BY <2>2 DEF Session, States
  <2> QED
    BY <1>2, <2>1, <2>2, <2>3 DEF Forward
<1>4. ASSUME NEW f, Forward(f), f.pending.owner = None, f.poisoned = s.poisoned,
             NEW cancelled \in BOOLEAN, GiveUp(t, f, task, cancelled),
             Mutex!Release(t), UNCHANGED native
      PROVE  IInv'
  <2>1. orphans' # {} => f.poisoned
    BY <1>1, <1>4
  <2>2. /\ native' \in [Tasks -> NativeWrite] /\ native'[t].at = "none"
        /\ \A u \in Tasks \ {t} : native'[u] = native[u]
        /\ orphans' \subseteq Orphan /\ orphans' = orphans
    BY <1>1, <1>4
  <2> QED
    BY <1>1, <1>4, <2>1, <2>2, GiveUpLeaves
<1>5. CASE ~Current(t)
  BY <1>2, <1>4, <1>5 DEF SetupReply
<1>6. CASE Current(t)
  <2>1. CASE \E f \in {Taken, d} : GiveUp(t, f, task, FALSE) /\ Mutex!Release(t) /\ UNCHANGED native
    BY <1>2, <1>3, <1>4, <1>6, <2>1
  <2>2. CASE Leave(t, e, task) /\ Mutex!Release(t) /\ UNCHANGED native
    <3> HIDE DEF d, e
    <3> QED
      BY <1>1, <1>3, <1>6, <2>2, LeaveLeaves
  <2>3. CASE /\ NextTransaction(t, d, task, task[t].step + 1)
             /\ task[t].step # Len(Program("connect"))
    <3>1. task[t].step + 1 \in 1 .. Len(Program(task[t].op))
      BY <1>1, <2>3, OperationOf DEF Program
    <3> HIDE DEF d, e
    <3> QED
      BY <1>1, <1>3, <1>6, <2>3, <3>1, NextTransactionKeeps
  <2> QED
    BY <1>6, <2>1, <2>2, <2>3 DEF SetupReply
<1> QED
  BY <1>5, <1>6

(* So does confirming what the last readback shows. *)
LEMMA ConfirmForward ==
    ASSUME IInv, NEW t \in Tasks, NEW r
    PROVE  Forward(Confirm(t, r)) /\ Confirm(t, r).pending.owner = None
<1>1. Forward(Taken) /\ Taken \in Session /\ Taken.pending.owner = None
  BY TakenForward DEF Forward
<1>2. \A operation, values : /\ Forward(ResolveAmbiguity(Taken, operation, values))
                             /\ ResolveAmbiguity(Taken, operation, values).pending.owner = None
  BY <1>1, ResolveKeeps DEF Forward, Kept
<1>3. \/ Confirm(t, r) = Taken
      \/ \E operation, values : Confirm(t, r) = ResolveAmbiguity(Taken, operation, values)
  BY DEF Confirm
<1> QED
  BY <1>1, <1>2, <1>3

(* An answer to a request of a reader, a setter, Start or Stop. *)
LEMMA OperationReplyKeeps ==
    ASSUME IInv, NEW t \in Tasks, OperationReply(t)
    PROVE  IInv'
<1> DEFINE r == s.pending.reply
           k == task[t].step
           acked == [task EXCEPT ![t].ack = r.ack]
           marked == MarkAmbiguous(Taken, OutcomeOf(Request(t), task[t].want))
<1>1. /\ task[t].pc = "replying" /\ task[t].pc \in Transacting
      /\ WorldOK' /\ UNCHANGED orphans /\ orphans \subseteq Orphan
      /\ Beside(t, task) /\ SameSetup(t, task) /\ native[t].at = "none"
      /\ native \in [Tasks -> NativeWrite] /\ (orphans # {} => s.poisoned)
      /\ s \in Session /\ task \in [Tasks -> TaskState] /\ task[t] \in TaskState
  BY WorldOf, WorldSame, SessionForward
     DEF OperationReply, Answered, Transacting, IInv, TypeOK, SlotInv, WriterWrites, OrphansHeld
<1>2. Forward(Taken) /\ Taken.pending.owner = None /\ Taken.poisoned = s.poisoned
  BY <1>1, TakenForward DEF Taken, Session
<1>3. /\ task[t].op \in AllOperations /\ task[t].want \in Targets
      /\ k \in 1 .. Len(Program(task[t].op))
  BY <1>1, OperationOf
<1>4. CASE Request(t) \in Mutations /\ Continue(t, marked, acked, k + 1)
  <2>1. OutcomeOf(Request(t), task[t].want) \in Outcome
    BY <1>3, <1>4, OutcomeTypes
  <2>2. Forward(marked) /\ marked.pending.owner = None
    BY <1>2, <2>1, MarkForward, MarkKeeps DEF Forward, Kept
  <2>3. k + 1 \in 1 .. Len(Program(task[t].op))
    BY <1>3, <1>4, ProgramTypes DEF Request
  <2>4. r.ack \in {OFF, ON, Unknown}
    BY <1>1 DEF Session, Pending, Frame
  <2>5. [task[t] EXCEPT !.ack = r.ack] \in TaskState
    BY <1>1, <2>4 DEF TaskState
  <2>6. Beside(t, acked) /\ acked[t].op = task[t].op /\ acked[t].gen = task[t].gen
    BY <1>1, <2>5 DEF Beside, TaskState
  <2> HIDE DEF marked, acked, k
  <2> QED
    BY <1>1, <1>4, <2>2, <2>3, <2>6, ContinueKeeps
<1>5. CASE GiveUp(t, Taken, task, FALSE) /\ Mutex!Release(t) /\ UNCHANGED native
  <2>1. /\ native' \in [Tasks -> NativeWrite] /\ native'[t].at = "none"
        /\ \A u \in Tasks \ {t} : native'[u] = native[u]
        /\ orphans' \subseteq Orphan /\ orphans' = orphans /\ (orphans' # {} => Taken.poisoned)
    BY <1>1, <1>2, <1>5
  <2> QED
    BY <1>1, <1>2, <1>5, <2>1, GiveUpLeaves
<1>6. CASE Leave(t, Confirm(t, r), task) /\ Mutex!Release(t) /\ UNCHANGED native
  BY <1>1, <1>6, ConfirmForward, LeaveLeaves
<1>7. CASE k # Len(Program(task[t].op)) /\ Continue(t, Taken, task, k + 1)
  <2>1. k + 1 \in 1 .. Len(Program(task[t].op))
    <3>1. Len(Program(task[t].op)) \in Nat
      BY <1>3, DataAssumption DEF DataAssumption, Program, AllOperations
    <3> QED
      BY <1>3, <1>7, <3>1
  <2> QED
    BY <1>1, <1>2, <1>7, <2>1, ContinueKeeps
<1> QED
  BY <1>4, <1>5, <1>6, <1>7 DEF OperationReply

(* A step that starts and ends no request keeps the invariant. *)
LEMMA QuietKeeps ==
    ASSUME IInv, Forward(s'), s'.pending.owner = s.pending.owner,
           task' \in [Tasks -> TaskState],
           \A u \in Tasks : Unmoved(u) \/ (Placed(u) /\ Aside(u)),
           SlotOK', s.pending.owner # None => holder' = holder,
           native' \in [Tasks -> NativeWrite],
           \A u \in Tasks : native[u].at = "none" => native'[u].at = "none",
           orphans' \subseteq orphans, WorldOK'
    PROVE  IInv'
<1>1. Onward /\ s' \in Session
  BY DEF Forward, Onward
<1>2. (StepsInProgram /\ SetupIsCurrent /\ SetupPlaces /\ PoisonedUnusable)'
  BY <1>1, SetupKept
<1>3. SlotInv'
  <2>1. orphans' # {} => s'.poisoned
    BY DEF Forward
  <2> QED
    BY <2>1, SlotKeptAside
<1>4. orphans' \subseteq Orphan
  BY DEF IInv, TypeOK
<1> QED
  BY <1>1, <1>2, <1>3, <1>4, Assemble

(* cancel() flags a task, and takes it off the queue if it waits there. *)
LEMMA CancelTaskKeeps ==
    ASSUME SlotOK, NEW ts \in [Tasks -> TaskState], NEW t \in Tasks, CancelTask(ts, t)
    PROVE  /\ task' \in [Tasks -> TaskState]
           /\ \A u \in Tasks : /\ task'[u].pc = ts[u].pc /\ task'[u].op = ts[u].op
                               /\ task'[u].gen = ts[u].gen /\ task'[u].step = ts[u].step
           /\ SlotOK' /\ holder' = holder
<1>1. task' = [ts EXCEPT ![t] = [ts[t] EXCEPT !.cancel = TRUE]]
  BY DEF CancelTask
<1>2. [ts[t] EXCEPT !.cancel = TRUE] \in TaskState
  BY DEF TaskState
<1>3. Mutex!Withdraw(t) \/ UNCHANGED mutex
  BY DEF CancelTask
<1>4. SlotOK' /\ holder' = holder
  BY <1>3, SlotSteps DEF Mutex!Withdraw, mutex
<1> QED
  BY <1>1, <1>2, <1>4 DEF TaskState

(* cancel() flags the task and may take it off the queue. *)
LEMMA CancelCallKeeps ==
    ASSUME IInv, NEW t \in Tasks, CancelCall(t)
    PROVE  IInv'
<1>1. CancelTask(task, t) /\ SlotOK /\ task \in [Tasks -> TaskState] /\ Forward(s)
  BY WorldOf, SessionForward DEF CancelCall, IInv, TypeOK
<1>2. WorldOK'
  BY InjectBounds DEF CancelCall, IInv, TypeOK, WorldOK, world
<1>3. /\ task' \in [Tasks -> TaskState] /\ \A u \in Tasks : Unmoved(u)
      /\ SlotOK' /\ holder' = holder
  BY <1>1, CancelTaskKeeps DEF Unmoved
<1>4. /\ s' = s /\ native' = native /\ orphans' = orphans /\ native \in [Tasks -> NativeWrite]
  BY DEF CancelCall, IInv, TypeOK
<1>5. Forward(s')
  BY <1>1, <1>4 DEF Forward
<1> QED
  BY <1>2, <1>3, <1>4, <1>5, QuietKeeps

(* A cancelled waiter, granted or not, gives up. *)
LEMMA UnwindQueuedKeeps ==
    ASSUME IInv, NEW t \in Tasks, UnwindQueued(t)
    PROVE  IInv'
<1>1. /\ task[t].pc = "queued" /\ task[t].pc \notin Transacting /\ WorldOK' /\ SlotOK
      /\ UNCHANGED <<native, orphans>> /\ GiveUp(t, s, task, TRUE)
      /\ Forward(s) /\ Beside(t, task) /\ SameSetup(t, task)
      /\ s \in Session /\ task \in [Tasks -> TaskState]
  BY WorldOf, WorldSame, SessionForward DEF UnwindQueued, Transacting, IInv, TypeOK
<1>2. (Mutex!Abandon(t) /\ holder = t) \/ UNCHANGED mutex
  BY DEF UnwindQueued
<1>3. SlotOK'
  BY <1>1, <1>2, SlotSteps
<1>4. s.pending.owner # None => holder' = holder
  BY <1>1, <1>2 DEF IInv, SlotInv, PendingBelongsToOwner, OwnerTransacts, mutex
<1>5. GaveUp(t, s, task)
  BY <1>1, GiveUpEnds
<1> QED
  BY <1>1, <1>3, <1>4, <1>5, GaveUpAside DEF SameSetup

(* A cancelled poll ends. *)
LEMMA UnwindSleepKeeps ==
    ASSUME IInv, NEW t \in Tasks, UnwindSleep(t)
    PROVE  IInv'
<1>1. /\ task[t].pc = "sleeping" /\ WorldOK' /\ SlotOK /\ Forward(s)
      /\ task \in [Tasks -> TaskState] /\ native \in [Tasks -> NativeWrite]
      /\ UNCHANGED <<s, mutex, native, orphans>> /\ task' = [task EXCEPT ![t] = Idle]
  BY WorldOf, WorldSame, SessionForward DEF UnwindSleep, IInv, TypeOK
<1>2. SlotOK' /\ holder' = holder
  BY <1>1, SlotSteps DEF mutex
<1>3. Forward(s')
  BY <1>1 DEF Forward
<1>4. /\ task' \in [Tasks -> TaskState]
      /\ \A u \in Tasks : Unmoved(u) \/ (Placed(u) /\ Aside(u))
  BY <1>1, IdleTypes DEF Unmoved, Placed, Aside, Idle, Transacting
<1> QED
  BY <1>1, <1>2, <1>3, <1>4, QuietKeeps

(* The setup of a cancelled connect() is unwound. *)
LEMMA UnwindSetupKeeps ==
    ASSUME IInv, NEW t \in Tasks, UnwindSetup(t)
    PROVE  IInv'
<1>1. /\ task[t].pc \notin Transacting /\ SlotOK /\ Forward(s) /\ Beside(t, task)
      /\ SameSetup(t, task) /\ s \in Session /\ task \in [Tasks -> TaskState]
      /\ UNCHANGED <<mutex, native, orphans>>
      /\ ConnectUnwind(t, s, task, link.up, TRUE)
  BY WorldOf, SessionForward DEF UnwindSetup, Transacting, IInv, TypeOK
<1>2. WorldOK'
  <2>1. link' \in [up : BOOLEAN, id : Nat, handler : Nat, notify : BOOLEAN]
    BY DEF UnwindSetup, IInv, TypeOK
  <2> QED
    BY <2>1 DEF UnwindSetup, IInv, TypeOK, WorldOK, air, budget
<1>3. SlotOK' /\ holder' = holder
  BY <1>1, SlotSteps DEF mutex
<1>4. GaveUp(t, s, task)
  BY <1>1, ConnectUnwindEnds
<1> QED
  BY <1>1, <1>2, <1>3, <1>4, GaveUpAside DEF SameSetup

(* The detached release() passes the slot on. *)
LEMMA HandBackKeeps ==
    ASSUME IInv, HandBack
    PROVE  IInv'
<1>1. /\ Mutex!HandBack /\ WorldOK' /\ Forward(s) /\ SlotOK
      /\ UNCHANGED <<s, task, native, orphans>>
      /\ task \in [Tasks -> TaskState] /\ native \in [Tasks -> NativeWrite]
  BY WorldOf, WorldSame, SessionForward DEF HandBack, IInv, TypeOK
<1>2. SlotOK'
  BY <1>1 DEF SlotOK, QueueBounded, Mutex!MutexTypeOK, Mutex!Entry, Mutex!HandBack, Mutex!Handover
<1>3. s.pending.owner = None
  <2>1. holder = "detached" /\ s.pending.owner \in Tasks \cup {None}
    BY <1>1 DEF Mutex!HandBack, IInv, TypeOK, Session, Pending
  <2> QED
    BY <2>1, SessionAssumption DEF SessionAssumption, IInv, SlotInv, PendingBelongsToOwner
<1>4. Forward(s') /\ \A u \in Tasks : Unmoved(u)
  BY <1>1 DEF Forward, Unmoved
<1> QED
  BY <1>1, <1>2, <1>3, <1>4, QuietKeeps

(* A call stays within its bound and starts from an idle task. *)
LEMMA CallingWorld ==
    ASSUME IInv, NEW t, NEW op, Calling(t, op), WorldOK, UNCHANGED <<world, faults>>
    PROVE  /\ WorldOK' /\ t \in Callers /\ t \in Tasks
           /\ task[t].pc = "idle" /\ task[t].pc \notin Transacting
<1>1. calls' \in 0 .. MaxCalls
  BY SessionAssumption DEF SessionAssumption, Calling, WorldOK
<1>2. WorldOK'
  BY <1>1 DEF WorldOK, world
<1> QED
  BY <1>2, SessionAssumption DEF SessionAssumption, Calling, Transacting

(* Methods that make requests have a first one. *)
LEMMA ProgramNonempty ==
    ASSUME NEW op \in Setters \cup {"connect", "start", "stop", "refresh_config",
                                "refresh_telemetry"}
    PROVE  op \in AllOperations /\ 1 \in 1 .. Len(Program(op))
<1>1. CASE op \in Setters
  BY <1>1, DataAssumption DEF DataAssumption, Program, AllOperations
<1>2. CASE op \notin Setters
  BY <1>2, DataAssumption DEF DataAssumption, Program, AllOperations
<1> QED
  BY <1>1, <1>2

(* A reader, a setter or Start is called. *)
LEMMA CallRequestKeeps ==
    ASSUME IInv, NEW t \in Tasks,
           \/ \E op \in {"refresh_config", "refresh_telemetry"} : CallRead(t, op)
           \/ \E op \in Setters, v \in Levels : CallSetter(t, op, v)
           \/ \E confirmed \in Confirmed : CallStart(t, confirmed)
    PROVE  IInv'
<1>1. WorldOK /\ Forward(s) /\ Beside(t, task) /\ SameSetup(t, task)
  BY WorldOf, SessionForward
<1>2. PICK op \in Setters \cup {"start", "refresh_config", "refresh_telemetry"}, want \in Targets :
         Calling(t, op) /\ Begin(t, s, task, op, want, 1) /\ UNCHANGED <<orphans, world, faults>>
  <2>1. CASE \E op \in {"refresh_config", "refresh_telemetry"} : CallRead(t, op)
    BY <2>1, BlankTypes DEF CallRead
  <2>2. ASSUME NEW op \in Setters, NEW v \in Levels, CallSetter(t, op, v)
        PROVE  \E want \in Targets :
            Calling(t, op) /\ Begin(t, s, task, op, want, 1) /\ UNCHANGED <<orphans, world, faults>>
    <3>1. [NoTarget EXCEPT ![op] = v] \in Targets
      BY BlankTypes DEF Targets
    <3> QED
      BY <2>2, <3>1 DEF CallSetter
  <2>3. ASSUME NEW confirmed \in Confirmed, CallStart(t, confirmed)
        PROVE  \E want \in Targets :
            /\ Calling(t, "start") /\ Begin(t, s, task, "start", want, 1)
            /\ UNCHANGED <<orphans, world, faults>>
    <3>1. confirmed \in Targets
      BY SessionAssumption DEF SessionAssumption, Targets
    <3> QED
      BY <2>3, <3>1 DEF CallStart
  <2> QED
    BY <2>1, <2>2, <2>3
<1>3. WorldOK' /\ task[t].pc \notin Transacting
  BY <1>1, <1>2, CallingWorld
<1>4. op \in AllOperations /\ 1 \in 1 .. Len(Program(op)) /\ op # "connect"
  BY ProgramNonempty, DataAssumption DEF DataAssumption
<1> QED
  BY <1>1, <1>2, <1>3, <1>4, BeginKeeps

(* A step of a task that is in no setup, on its way out of a connection. *)
LEMMA AwayKeeps ==
    ASSUME IInv, NEW t \in Tasks, task[t].pc \notin Transacting,
           Forward(s'), s'.pending.owner = s.pending.owner,
           task' \in [Tasks -> TaskState], \A u \in Tasks \ {t} : Unmoved(u),
           task'[t].op # "connect",
           task'[t].pc \in {"idle", "quieting", "tearing", "joining", "unsubscribing",
                            "hanging_up"},
           SlotOK', holder' = holder, UNCHANGED <<native, orphans>>, WorldOK'
    PROVE  IInv'
<1>1. Placed(t) /\ Aside(t)
  BY DEF Placed, Aside, Transacting
<1>2. native \in [Tasks -> NativeWrite]
  BY DEF IInv, TypeOK
<1> QED
  BY <1>1, <1>2, QuietKeeps

(* Waiting for the poll to end. *)
LEMMA QuietingKeeps ==
    ASSUME IInv, NEW t \in Tasks, task[t].pc \notin Transacting,
           NEW op \in {"stop", "stop_polling", "disconnect"},
           NEW d, Forward(d), d.pending.owner = s.pending.owner,
           NEW joins \in Tasks \cup {None},
           Quieting(t, op, d, joins), UNCHANGED orphans, WorldOK'
    PROVE  IInv'
<1> DEFINE i == Idle
           r == [i EXCEPT !.op = op, !.pc = "quieting", !.awaits = s.poller, !.joins = joins]
<1>1. /\ s' = d /\ UNCHANGED <<mutex, native>> /\ SlotOK
      /\ task' = [CancelPoll(task, t) EXCEPT ![t] = r]
  BY WorldOf DEF Quieting
<1>2. s.poller \in Tasks \cup {None} /\ task \in [Tasks -> TaskState]
  BY DataAssumption DEF DataAssumption, IInv, TypeOK, Session
<1>3. i \in TaskState /\ op \in AllOperations
  BY IdleTypes DEF AllOperations
<1> HIDE DEF i
<1>4. r \in TaskState /\ r.pc = "quieting" /\ r.op = op
  BY <1>2, <1>3 DEF TaskState, Places
<1>5. SlotOK' /\ holder' = holder
  BY <1>1, SlotSteps DEF mutex
<1> HIDE DEF r
<1>6. /\ task' \in [Tasks -> TaskState] /\ task'[t] = r
      /\ \A u \in Tasks \ {t} : Unmoved(u)
  BY <1>1, <1>2, <1>4, CancelPollKeeps DEF Unmoved
<1>7. Forward(s')
  BY <1>1
<1> QED
  BY <1>1, <1>4, <1>5, <1>6, <1>7, AwayKeeps

(* Ending the polling leaves a session a step may leave behind. *)
LEMMA PollingOffForward ==
    IInv => Forward(PollingOff) /\ PollingOff.pending.owner = s.pending.owner
<1> SUFFICES ASSUME IInv PROVE Forward(PollingOff) /\ PollingOff.pending.owner = s.pending.owner
  OBVIOUS
<1>1. Forward(s) /\ s \in Session
  BY SessionForward DEF IInv, TypeOK
<1> QED
  BY <1>1 DEF PollingOff, Session, Forward

(* Stop, and the end of polling. *)
LEMMA CallStopKeeps ==
    ASSUME IInv, NEW t \in Tasks, CallStop(t) \/ CallStopPolling(t)
    PROVE  IInv'
<1>1. /\ WorldOK /\ Forward(PollingOff) /\ PollingOff.pending.owner = s.pending.owner
      /\ Beside(t, task) /\ SameSetup(t, task) /\ NoTarget \in Targets
  BY WorldOf, SessionForward, PollingOffForward, BlankTypes
<1>2. WorldOK' /\ task[t].pc \notin Transacting /\ UNCHANGED orphans
  BY <1>1, CallingWorld DEF CallStop, CallStopPolling
<1>3. CASE \E op \in {"stop", "stop_polling"} : Quieting(t, op, PollingOff, None)
  BY <1>1, <1>2, <1>3, QuietingKeeps
<1>4. CASE Begin(t, PollingOff, task, "stop", NoTarget, 1)
  BY <1>1, <1>2, <1>4, ProgramNonempty, BeginKeeps
<1> QED
  BY <1>3, <1>4 DEF CallStop, CallStopPolling

(* Polling starts, with a new poll task if the last one has ended. *)
LEMMA CallStartPollingKeeps ==
    ASSUME IInv, NEW t \in Tasks, CallStartPolling(t)
    PROVE  IInv'
<1>1. /\ WorldOK /\ Forward(s) /\ SlotOK /\ s \in Session /\ task \in [Tasks -> TaskState]
      /\ native \in [Tasks -> NativeWrite] /\ UNCHANGED <<mutex, native, orphans>>
  BY WorldOf, SessionForward DEF IInv, TypeOK, CallStartPolling
<1>2. WorldOK'
  BY <1>1, CallingWorld DEF CallStartPolling
<1>3. SlotOK' /\ holder' = holder
  BY <1>1, SlotSteps DEF mutex
<1>4. CASE s' = [s EXCEPT !.polling = TRUE] /\ UNCHANGED task
  <2>1. Forward(s') /\ s'.pending.owner = s.pending.owner /\ \A u \in Tasks : Unmoved(u)
    BY <1>1, <1>4 DEF Forward, Session, Unmoved
  <2> QED
    BY <1>1, <1>2, <1>3, <1>4, <2>1, QuietKeeps
<1>5. ASSUME NEW p \in Pollers, task[p].pc = "idle",
             s' = [s EXCEPT !.polling = TRUE, !.poller = p],
             task' = [task EXCEPT ![p] = Sleeping]
      PROVE  IInv'
  <2>1. p \in Tasks
    BY SessionAssumption DEF SessionAssumption
  <2>2. Forward(s') /\ s'.pending.owner = s.pending.owner
    BY <1>1, <1>5, <2>1 DEF Forward, Session
  <2>3. /\ task' \in [Tasks -> TaskState]
        /\ \A u \in Tasks : Unmoved(u) \/ (Placed(u) /\ Aside(u))
    BY <1>1, <1>5, <2>1, IdleTypes DEF Unmoved, Placed, Aside, Idle, Sleeping, Transacting
  <2> QED
    BY <1>1, <1>2, <1>3, <2>2, <2>3, QuietKeeps
<1> QED
  BY <1>4, <1>5 DEF CallStartPolling

(* A poll cycle starts, or the poll finds that it is no longer wanted. *)
LEMMA PollWakeKeeps ==
    ASSUME IInv, NEW t \in Tasks, PollWake(t)
    PROVE  IInv'
<1>1. /\ WorldOK /\ Forward(s) /\ SlotOK /\ s \in Session /\ task \in [Tasks -> TaskState]
      /\ native \in [Tasks -> NativeWrite] /\ task[t].pc \notin Transacting
      /\ UNCHANGED <<orphans, world, faults>> /\ Beside(t, task) /\ SameSetup(t, task)
      /\ NoTarget \in Targets
  BY WorldOf, SessionForward, BlankTypes DEF IInv, TypeOK, PollWake, Transacting
<1>2. WorldOK'
  <2>1. calls' \in 0 .. MaxCalls
    BY <1>1, SessionAssumption DEF SessionAssumption, PollWake, WorldOK
  <2> QED
    BY <1>1, <2>1 DEF WorldOK, world
<1>3. CASE /\ task' = [task EXCEPT ![t] = Idle]
           /\ UNCHANGED <<s, mutex, native, calls>>
  <2>1. SlotOK' /\ holder' = holder
    BY <1>1, <1>3, SlotSteps DEF mutex
  <2>2. /\ task' \in [Tasks -> TaskState] /\ Forward(s')
        /\ \A u \in Tasks : Unmoved(u) \/ (Placed(u) /\ Aside(u))
    BY <1>1, <1>3, IdleTypes DEF Unmoved, Placed, Aside, Idle, Transacting, Forward
  <2> QED
    BY <1>1, <1>2, <1>3, <2>1, <2>2, QuietKeeps
<1>4. CASE \E op \in {"refresh_config", "refresh_telemetry"} : Begin(t, s, task, op, NoTarget, 1)
  BY <1>1, <1>2, <1>4, ProgramNonempty, BeginKeeps
<1> QED
  BY <1>3, <1>4 DEF PollWake

(* d with the next generation; what it forgets, it forgets of the old one. *)
LEMMA NextGenerationForward ==
    ASSUME IInv, NEW d, d = [s EXCEPT !.generation = @ + 1]
    PROVE  /\ Forward(d) /\ d.pending.owner = s.pending.owner
           /\ d.generation = s.generation + 1
           /\ d.poisoned = s.poisoned /\ d.state = s.state
<1>1. Forward(s) /\ s \in Session /\ s.generation \in Nat
  BY SessionForward DEF IInv, TypeOK, Session
<1>2. d \in Session /\ d.generation = s.generation + 1 /\ d.pending = s.pending
  BY <1>1 DEF Session
<1>3. d.poisoned = s.poisoned /\ d.state = s.state
  BY <1>1 DEF Session
<1> QED
  BY <1>1, <1>2, <1>3 DEF Forward

(* What a helper keeps is still ahead of the session. *)
LEMMA KeptForward ==
    ASSUME NEW d, Forward(d), NEW e, Kept(d, e),
           e.state \in {d.state, "error", "disconnecting", "disconnected"}
    PROVE  Forward(e) /\ e.pending.owner = d.pending.owner
  BY DEF Forward, Kept

(* The next place of a setup. *)
LEMMA AdvanceKeeps ==
    ASSUME IInv, NEW t \in Tasks, task[t].pc \notin Transacting, task[t].op = "connect",
           NEW r \in TaskState, task' = [task EXCEPT ![t] = r],
           r.op = "connect", r.gen = task[t].gen,
           r.pc \in {"discovering", "subscribing", "settling"},
           Forward(s'), s'.pending.owner = s.pending.owner,
           UNCHANGED <<mutex, native, orphans>>, WorldOK'
    PROVE  IInv'
<1>1. task \in [Tasks -> TaskState] /\ native \in [Tasks -> NativeWrite] /\ SlotOK
  BY WorldOf DEF IInv, TypeOK
<1>2. /\ task' \in [Tasks -> TaskState] /\ \A u \in Tasks \ {t} : Unmoved(u)
      /\ Placed(t) /\ Aside(t)
  BY <1>1 DEF Unmoved, Placed, Aside, Transacting
<1>3. SlotOK' /\ holder' = holder
  BY <1>1, SlotSteps DEF mutex
<1> QED
  BY <1>1, <1>2, <1>3, QuietKeeps

(* A setup that is unwound outside any transaction. *)
LEMMA UnwindKeeps ==
    ASSUME IInv, NEW t \in Tasks, task[t].pc \notin Transacting,
           NEW d, Forward(d), d.pending.owner = s.pending.owner,
           NEW ts, Beside(t, ts),
           ts[t].op = "connect" => \/ task[t].op = "connect" /\ ts[t].gen = task[t].gen
                                   \/ ts[t].gen = d.generation /\ ~d.poisoned,
           NEW up, NEW cancelled \in BOOLEAN, ConnectUnwind(t, d, ts, up, cancelled),
           UNCHANGED <<mutex, native, orphans>>, WorldOK'
    PROVE  IInv'
<1>1. GaveUp(t, d, ts)
  BY ConnectUnwindEnds DEF Forward, Beside
<1>2. SlotOK' /\ holder' = holder
  BY SlotSteps, WorldOf DEF mutex
<1> QED
  BY <1>1, <1>2, GaveUpAside

(* connect() is called: refused by the poison gate, by a live link, or begun. *)
LEMMA CallConnectKeeps ==
    ASSUME IInv, NEW t \in Tasks, CallConnect(t)
    PROVE  IInv'
<1> DEFINE b == [s EXCEPT !.generation = @ + 1]
           d == ForgetConnection(b)
           started == [d EXCEPT !.poisoned = FALSE, !.connector = t, !.state = "connecting"]
           i == Idle
           r == [i EXCEPT !.op = "connect", !.pc = "linking", !.gen = d.generation]
           ts == [task EXCEPT ![t] = r]
<1>1. /\ WorldOK /\ SlotOK /\ task \in [Tasks -> TaskState]
      /\ native \in [Tasks -> NativeWrite] /\ s.generation \in Nat
      /\ task[t].pc = "idle" /\ task[t].pc \notin Transacting
      /\ UNCHANGED <<mutex, native, orphans>>
  BY WorldOf DEF IInv, TypeOK, Session, CallConnect, Calling, Transacting
<1>2. Forward(b) /\ b.pending.owner = s.pending.owner /\ b.generation = s.generation + 1
      /\ b.poisoned = s.poisoned
  BY NextGenerationForward
<1> HIDE DEF b
<1>3. Kept(b, d) /\ d.state = b.state
  BY <1>2, ForgetKeeps DEF Forward
<1>4. /\ Forward(d) /\ d \in Session /\ d.pending.owner = s.pending.owner
      /\ d.generation = s.generation + 1 /\ d.generation \in Nat
  BY <1>1, <1>2, <1>3, KeptForward DEF Kept
<1> HIDE DEF d
<1>5. /\ started \in Session /\ started.pending = d.pending
      /\ started.generation = d.generation /\ ~started.poisoned
  BY <1>4 DEF Session, States
<1>6. i \in TaskState
  BY IdleTypes
<1> HIDE DEF i
<1>7. /\ r \in TaskState /\ r.op = "connect" /\ r.pc = "linking"
      /\ r.gen = started.generation
  BY <1>4, <1>5, <1>6 DEF TaskState, Places, AllOperations
<1> HIDE DEF r
<1>8. Beside(t, ts) /\ ts[t] = r
  BY <1>1, <1>7 DEF Beside
<1>9. SlotOK' /\ holder' = holder
  BY <1>1, SlotSteps DEF mutex
<1>10. ASSUME \/ link' = link
              \/ link' = [link EXCEPT !.handler = d.generation]
       PROVE  WorldOK'
  <2>1. calls' \in 0 .. MaxCalls
    BY <1>1, SessionAssumption DEF SessionAssumption, CallConnect, Calling, WorldOK
  <2>2. link' \in [up : BOOLEAN, id : Nat, handler : Nat, notify : BOOLEAN]
    BY <1>1, <1>4, <1>10 DEF WorldOK
  <2> QED
    BY <1>1, <2>1, <2>2 DEF CallConnect, WorldOK, air
<1>11. CASE s' = d /\ UNCHANGED <<task, link>>
  <2>1. \A u \in Tasks : Unmoved(u)
    BY <1>11 DEF Unmoved
  <2> QED
    BY <1>1, <1>4, <1>9, <1>10, <1>11, <2>1, QuietKeeps
<1>12. CASE ~PoisonGateShut
  <2>1. orphans = {}
    BY <1>12 DEF PoisonGateShut, IInv, SlotInv, OrphansHeld
  <2>2. Forward(started) /\ started.pending.owner = s.pending.owner
    BY <1>1, <1>4, <1>5, <2>1 DEF Forward
  <2> HIDE DEF started
  <2>3. CASE ConnectUnwind(t, started, ts, TRUE, FALSE) /\ UNCHANGED link
    <3> HIDE DEF ts
    <3> QED
      BY <1>1, <1>5, <1>7, <1>8, <1>10, <2>2, <2>3, UnwindKeeps
  <2>4. CASE /\ s' = started /\ task' = ts
             /\ link' = [link EXCEPT !.handler = d.generation]
    <3>1. \A u \in Tasks \ {t} : Unmoved(u)
      BY <1>1, <2>4 DEF Unmoved
    <3>2. Placed(t) /\ Aside(t)
      BY <1>1, <1>5, <1>7, <1>8, <2>4 DEF Placed, Aside, Transacting
    <3>3. Forward(s') /\ s'.pending.owner = s.pending.owner /\ task' \in [Tasks -> TaskState]
      BY <1>8, <2>2, <2>4 DEF Beside
    <3> QED
      BY <1>1, <1>9, <1>10, <2>4, <3>1, <3>2, <3>3, QuietKeeps
  <2> QED
    BY <1>12, <2>3, <2>4 DEF CallConnect, b, d, started, i, r, ts
<1> QED
  BY <1>11, <1>12 DEF CallConnect, b, d

(* The native connect returns, to a setup that is current or was overtaken. *)
LEMMA LinkedKeeps ==
    ASSUME IInv, NEW t \in Tasks, Linked(t)
    PROVE  IInv'
<1>1. /\ task \in [Tasks -> TaskState] /\ task[t] \in TaskState /\ Forward(s) /\ s \in Session
      /\ task[t].pc = "linking" /\ task[t].pc \notin Transacting /\ task[t].op = "connect"
      /\ UNCHANGED <<mutex, native, orphans>> /\ (orphans # {} => s.poisoned)
  BY SessionForward
     DEF IInv, TypeOK, Linked, SetupPlaces, Transacting, SlotInv, OrphansHeld
<1>2. WorldOK'
  BY <1>1 DEF Linked, IInv, TypeOK, WorldOK, budget, TaskState
<1> DEFINE c == [task[t] EXCEPT !.cancel = FALSE]
           ts == [task EXCEPT ![t] = c]
           r == [c EXCEPT !.pc = "discovering"]
<1>3. /\ c \in TaskState /\ c.op = "connect" /\ c.gen = task[t].gen
      /\ r \in TaskState /\ r.op = "connect" /\ r.gen = task[t].gen /\ r.pc = "discovering"
  BY <1>1 DEF TaskState, Places
<1>4. Beside(t, ts) /\ ts[t].op = "connect" /\ ts[t].gen = task[t].gen
  BY <1>1, <1>3 DEF Beside
<1>5. CASE /\ Current(t)
           /\ s' = [s EXCEPT !.state = "discovering"]
           /\ task' = [ts EXCEPT ![t].pc = "discovering"]
  <2>1. ~s.poisoned
    BY <1>1, <1>5, CurrentUnpoisoned
  <2>2. /\ s' \in Session /\ s'.poisoned = s.poisoned /\ s'.pending = s.pending
        /\ s'.generation = s.generation
    BY <1>1, <1>5 DEF Session, States
  <2>3. Forward(s') /\ s'.pending.owner = s.pending.owner
    BY <1>1, <2>1, <2>2 DEF Forward
  <2>4. task' = [task EXCEPT ![t] = r]
    BY <1>1, <1>5
  <2> HIDE DEF r
  <2> QED
    BY <1>1, <1>2, <1>3, <2>3, <2>4, AdvanceKeeps
<1>6. CASE ConnectUnwind(t, s, ts, TRUE, TRUE)
  <2> HIDE DEF ts
  <2> QED
    BY <1>1, <1>2, <1>4, <1>6, UnwindKeeps
<1> QED
  BY <1>1, <1>5, <1>6 DEF Linked

(* The native connect fails. *)
LEMMA LinkFailsKeeps ==
    ASSUME IInv, NEW t \in Tasks, LinkFails(t)
    PROVE  IInv'
<1>1. /\ task[t].pc \notin Transacting /\ Forward(s) /\ Beside(t, task) /\ SameSetup(t, task)
      /\ UNCHANGED <<mutex, native, orphans>> /\ ConnectUnwind(t, s, task, FALSE, FALSE)
  BY SessionForward DEF LinkFails, Transacting
<1>2. WorldOK'
  <2>1. link' \in [up : BOOLEAN, id : Nat, handler : Nat, notify : BOOLEAN]
    BY DEF LinkFails, IInv, TypeOK
  <2>2. faults' \in 0 .. MaxFaults
    BY InjectBounds DEF LinkFails, IInv, TypeOK
  <2> QED
    BY <2>1, <2>2 DEF LinkFails, IInv, TypeOK, WorldOK, air
<1> QED
  BY <1>1, <1>2, UnwindKeeps DEF SameSetup

(* Discovery ends: the setup goes on to the subscription, or is unwound. *)
LEMMA DiscoveredKeeps ==
    ASSUME IInv, NEW t \in Tasks, Discovered(t)
    PROVE  IInv'
<1>1. /\ task \in [Tasks -> TaskState] /\ task[t] \in TaskState /\ Forward(s) /\ s \in Session
      /\ task[t].pc = "discovering" /\ task[t].pc \notin Transacting /\ task[t].op = "connect"
      /\ UNCHANGED <<mutex, native, orphans>> /\ Beside(t, task) /\ SameSetup(t, task)
      /\ link.up \in BOOLEAN
  BY SessionForward DEF IInv, TypeOK, Discovered, SetupPlaces, Transacting
<1>2. WorldOK'
  <2>1. faults' \in 0 .. MaxFaults
    BY InjectBounds DEF Discovered, IInv, TypeOK
  <2> QED
    BY <2>1 DEF Discovered, IInv, TypeOK, WorldOK, world
<1>3. CASE /\ s' = [s EXCEPT !.topology = TRUE]
           /\ task' = [task EXCEPT ![t].pc = "subscribing"]
  <2>1. /\ s' \in Session /\ s'.poisoned = s.poisoned /\ s'.pending = s.pending
        /\ s'.generation = s.generation /\ s'.state = s.state
    BY <1>1, <1>3 DEF Session
  <2>2. Forward(s') /\ s'.pending.owner = s.pending.owner
    BY <1>1, <2>1 DEF Forward
  <2> DEFINE r == [task[t] EXCEPT !.pc = "subscribing"]
  <2>3. task' = [task EXCEPT ![t] = r]
    BY <1>3
  <2>4. r \in TaskState /\ r.op = "connect" /\ r.gen = task[t].gen /\ r.pc = "subscribing"
    BY <1>1 DEF TaskState, Places
  <2> HIDE DEF r
  <2> QED
    BY <1>1, <1>2, <2>2, <2>3, <2>4, AdvanceKeeps
<1>4. CASE \E cancelled \in BOOLEAN : ConnectUnwind(t, s, task, link.up, cancelled)
  BY <1>1, <1>2, <1>4, UnwindKeeps DEF SameSetup
<1>5. CASE ~link.up /\ ConnectUnwind(t, s, task, FALSE, FALSE)
  BY <1>1, <1>2, <1>5, UnwindKeeps DEF SameSetup
<1> QED
  BY <1>1, <1>3, <1>4, <1>5 DEF Discovered

(* Notifications are on, or the setup is unwound. *)
LEMMA SubscribedKeeps ==
    ASSUME IInv, NEW t \in Tasks, Subscribed(t)
    PROVE  IInv'
<1>1. /\ task \in [Tasks -> TaskState] /\ task[t] \in TaskState /\ Forward(s) /\ s \in Session
      /\ task[t].pc = "subscribing" /\ task[t].pc \notin Transacting /\ task[t].op = "connect"
      /\ UNCHANGED <<mutex, native, orphans>> /\ Beside(t, task) /\ SameSetup(t, task)
      /\ link.up \in BOOLEAN
  BY SessionForward DEF IInv, TypeOK, Subscribed, SetupPlaces, Transacting
<1>2. WorldOK'
  <2>1. link' \in [up : BOOLEAN, id : Nat, handler : Nat, notify : BOOLEAN]
    BY DEF Subscribed, IInv, TypeOK
  <2> QED
    BY <2>1 DEF Subscribed, IInv, TypeOK, WorldOK, air, budget
<1>3. CASE /\ task' = [task EXCEPT ![t].pc = "settling"]
           /\ UNCHANGED s
  <2>1. Forward(s')
    BY <1>1, <1>3
  <2> DEFINE r == [task[t] EXCEPT !.pc = "settling"]
  <2>2. task' = [task EXCEPT ![t] = r]
    BY <1>3
  <2>3. r \in TaskState /\ r.op = "connect" /\ r.gen = task[t].gen /\ r.pc = "settling"
    BY <1>1 DEF TaskState, Places
  <2> HIDE DEF r
  <2> QED
    BY <1>1, <1>2, <1>3, <2>1, <2>2, <2>3, AdvanceKeeps
<1>4. CASE \E cancelled \in BOOLEAN : ConnectUnwind(t, s, task, link.up, cancelled)
  BY <1>1, <1>2, <1>4, UnwindKeeps DEF SameSetup
<1>5. CASE ~link.up /\ ConnectUnwind(t, s, task, FALSE, FALSE)
  BY <1>1, <1>2, <1>5, UnwindKeeps DEF SameSetup
<1> QED
  BY <1>1, <1>3, <1>4, <1>5 DEF Subscribed

(* The first request of a setup that is still current. *)
LEMMA SettledKeeps ==
    ASSUME IInv, NEW t \in Tasks, Settled(t)
    PROVE  IInv'
<1> DEFINE d == [s EXCEPT !.state = "authenticating"]
<1>1. /\ Forward(s) /\ s \in Session
      /\ task[t].pc = "settling" /\ task[t].pc \notin Transacting /\ task[t].op = "connect"
      /\ UNCHANGED orphans /\ Beside(t, task) /\ SameSetup(t, task) /\ WorldOK'
      /\ NoTarget \in Targets
  BY SessionForward, WorldOf, WorldSame, BlankTypes
     DEF IInv, TypeOK, Settled, SetupPlaces, Transacting
<1>2. CASE Current(t) /\ Begin(t, d, task, "connect", NoTarget, 1)
  <2>1. ~s.poisoned
    BY <1>1, <1>2, CurrentUnpoisoned
  <2>2. /\ d \in Session /\ d.poisoned = s.poisoned /\ d.pending = s.pending
        /\ d.generation = s.generation
    BY <1>1 DEF Session, States
  <2> HIDE DEF d
  <2>3. Forward(d) /\ d.pending.owner = s.pending.owner
    BY <1>1, <2>1, <2>2 DEF Forward
  <2>4. "connect" \in AllOperations /\ 1 \in 1 .. Len(Program("connect"))
    BY ProgramNonempty
  <2> QED
    BY <1>1, <1>2, <2>3, <2>4, BeginKeeps
<1>3. CASE ConnectUnwind(t, s, task, link.up, TRUE) /\ UNCHANGED <<mutex, native>>
  BY <1>1, <1>3, UnwindKeeps DEF SameSetup
<1> QED
  BY <1>2, <1>3 DEF Settled

(* The end of a native disconnect, whether it worked or not. *)
LEMMA HangUpWorld ==
    ASSUME WorldOK, NEW id, HangUpOrStick(id), UNCHANGED <<lost, fromDev, dev, heard, calls>>
    PROVE  WorldOK'
<1>1. faults' \in 0 .. MaxFaults
  BY InjectBounds DEF HangUpOrStick, WorldOK
<1>2. \/ link' = [link EXCEPT !.up = FALSE, !.handler = 0] /\ toDev' = <<>>
      \/ link' = link /\ toDev' = toDev
  BY DEF HangUpOrStick, HangUp
<1>3. link' \in [up : BOOLEAN, id : Nat, handler : Nat, notify : BOOLEAN]
  <2>1. link \in [up : BOOLEAN, id : Nat, handler : Nat, notify : BOOLEAN]
    BY DEF WorldOK
  <2>2. [link EXCEPT !.up = FALSE, !.handler = 0]
          \in [up : BOOLEAN, id : Nat, handler : Nat, notify : BOOLEAN]
    BY <2>1
  <2>3. link' = link \/ link' = [link EXCEPT !.up = FALSE, !.handler = 0]
    BY <1>2
  <2> QED
    BY <2>1, <2>2, <2>3, Zenon
<1>4. toDev' \in Seq(AirFrame)
  <2>1. <<>> \in Seq(AirFrame) /\ toDev \in Seq(AirFrame)
    BY DEF WorldOK
  <2>2. toDev' = <<>> \/ toDev' = toDev
    BY <1>2
  <2> QED
    BY <2>1, <2>2
<1> QED
  BY <1>1, <1>3, <1>4 DEF WorldOK

(* connect()'s own cleanup ends. *)
LEMMA CleanedKeeps ==
    ASSUME IInv, NEW t \in Tasks, Cleaned(t)
    PROVE  IInv'
<1> DEFINE d == [s EXCEPT !.expected = FALSE]
           f == ForgetConnection(FailPending(d))
           g == [f EXCEPT !.connector = None]
<1>1. /\ Forward(s) /\ s \in Session /\ task \in [Tasks -> TaskState] /\ SlotOK /\ WorldOK
      /\ task[t].pc = "cleaning" /\ task[t].pc \notin Transacting
      /\ UNCHANGED <<mutex, native, orphans>> /\ task' = [task EXCEPT ![t] = Idle]
  BY SessionForward, WorldOf DEF IInv, TypeOK, Cleaned, Transacting
<1>2. WorldOK'
  BY <1>1, HangUpWorld DEF Cleaned
<1>3. SlotOK' /\ holder' = holder
  BY <1>1, SlotSteps DEF mutex
<1>4. Kept(s, d) /\ d.state = s.state
  BY <1>1 DEF Kept, Session
<1>5. Forward(d) /\ d \in Session /\ d.pending.owner = s.pending.owner
  BY <1>1, <1>4, KeptForward DEF Kept
<1>6. s' = g \/ s' = ConnectEnded(d, link'.up, ~task[t].failing)
  BY DEF Cleaned
<1> HIDE DEF d
<1>7. Kept(d, f) /\ f.state = d.state
  BY <1>5, FailPendingKeeps, ForgetKeeps DEF Kept
<1> HIDE DEF f
<1>8. Kept(d, g) /\ g.state = d.state
  BY <1>7 DEF Kept, Session
<1> HIDE DEF g
<1>9. Forward(s') /\ s'.pending.owner = s.pending.owner
  BY <1>5, <1>6, <1>8, ConnectEndedKeeps, KeptForward
<1>10. /\ task' \in [Tasks -> TaskState] /\ \A u \in Tasks \ {t} : Unmoved(u)
       /\ task'[t].op # "connect" /\ task'[t].pc = "idle"
  BY <1>1, IdleTypes DEF Unmoved, Idle
<1> QED
  BY <1>1, <1>2, <1>3, <1>9, <1>10, AwayKeeps

-----------------------------------------------------------------------------
(* disconnect() and the teardown of a poisoned client. *)

(* A disconnect() ends in ERROR or DISCONNECTED. *)
LEMMA DisconnectEndedKeeps ==
    ASSUME NEW d \in Session, NEW up
    PROVE  /\ Kept(d, DisconnectEnded(d, up))
           /\ DisconnectEnded(d, up).state \in {"error", "disconnected"}
<1> DEFINE e == ForgetConnection(FailPending(d))
<1>1. Kept(d, e)
  BY FailPendingKeeps, ForgetKeeps DEF Kept
<1>2. PICK x \in {"error", "disconnected"} : DisconnectEnded(d, up) =
        [e EXCEPT !.expected = FALSE, !.state = x]
  <2>1. (IF up THEN "error" ELSE "disconnected") \in {"error", "disconnected"}
    OBVIOUS
  <2> QED
    BY <2>1 DEF DisconnectEnded
<1> HIDE DEF e
<1>3. DisconnectEnded(d, up) \in Session
  BY <1>1, <1>2 DEF Kept, Session, States
<1>4. /\ DisconnectEnded(d, up).pending = e.pending
      /\ DisconnectEnded(d, up).poisoned = e.poisoned
      /\ DisconnectEnded(d, up).generation = e.generation
      /\ DisconnectEnded(d, up).state = x
  BY <1>1, <1>2 DEF Kept, Session
<1> QED
  BY <1>1, <1>2, <1>3, <1>4 DEF Kept

(* What follows once no setup is left to wait for. *)
LEMMA AfterJoinKeeps ==
    ASSUME IInv, NEW t \in Tasks, task[t].pc \notin Transacting,
           NEW d, Forward(d), d.pending.owner = s.pending.owner,
           NEW ts, Beside(t, ts), ts[t].op # "connect", AfterJoin(t, d, ts),
           UNCHANGED <<mutex, native, orphans>>, WorldOK'
    PROVE  IInv'
<1>1. /\ d \in Session /\ ts \in [Tasks -> TaskState] /\ ts[t] \in TaskState
      /\ link.id \in Nat /\ SlotOK
  BY WorldOf DEF Forward, Beside, IInv, TypeOK
<1>2. SlotOK' /\ holder' = holder
  BY <1>1, SlotSteps DEF mutex
<1>3. PICK r \in TaskState :
        /\ task' = [ts EXCEPT ![t] = r] /\ r.op # "connect"
        /\ r.pc \in {"idle", "tearing", "unsubscribing", "hanging_up"}
  <2>1. CASE task' = [ts EXCEPT ![t].pc = "tearing"]
    <3>1. [ts[t] EXCEPT !.pc = "tearing"] \in TaskState
      BY <1>1 DEF TaskState, Places
    <3>2. /\ [ts[t] EXCEPT !.pc = "tearing"].op # "connect"
          /\ [ts[t] EXCEPT !.pc = "tearing"].pc = "tearing"
      BY <1>1 DEF TaskState
    <3>3. task' = [ts EXCEPT ![t] = [ts[t] EXCEPT !.pc = "tearing"]]
      BY <2>1
    <3> QED
      BY <3>1, <3>2, <3>3
  <2>2. CASE task' = [ts EXCEPT ![t] = Idle]
    BY <2>2, IdleTypes DEF Idle
  <2>3. CASE \E where \in {"unsubscribing", "hanging_up"} :
                task' = [ts EXCEPT ![t].gen = link.id, ![t].pc = where]
    <3>1. PICK where \in {"unsubscribing", "hanging_up"} :
                task' = [ts EXCEPT ![t].gen = link.id, ![t].pc = where]
      BY <2>3
    <3> DEFINE r == [ts[t] EXCEPT !.gen = link.id, !.pc = where]
    <3>2. r \in TaskState /\ r.op # "connect" /\ r.pc = where
      BY <1>1 DEF TaskState, Places
    <3>3. task' = [ts EXCEPT ![t] = r]
      BY <3>1
    <3> QED
      BY <3>2, <3>3
  <2> QED
    BY <2>1, <2>2, <2>3 DEF AfterJoin, HangingUp
<1>4. Forward(s') /\ s'.pending.owner = d.pending.owner
  <2>1. CASE s' = d
    BY <2>1
  <2>2. CASE s' = [d EXCEPT !.expected = TRUE]
    BY <1>1, <2>2 DEF Forward, Session
  <2>3. CASE s' = DisconnectEnded(d, FALSE)
    BY <1>1, <2>3, DisconnectEndedKeeps, KeptForward
  <2> QED
    BY <2>1, <2>2, <2>3 DEF AfterJoin, HangingUp
<1>5. /\ task' \in [Tasks -> TaskState] /\ task'[t] = r
      /\ \A u \in Tasks \ {t} : Unmoved(u)
  BY <1>1, <1>3 DEF Beside, Unmoved
<1> QED
  BY <1>2, <1>3, <1>4, <1>5, AwayKeeps

(* What follows once the poll has ended: the setup in flight is cancelled. *)
LEMMA AfterQuietKeeps ==
    ASSUME IInv, NEW t \in Tasks, task[t].pc \notin Transacting,
           NEW d, Forward(d), d.pending.owner = s.pending.owner,
           NEW ts, Beside(t, ts), ts[t].op # "connect", AfterQuiet(t, d, ts),
           UNCHANGED <<native, orphans>>, WorldOK'
    PROVE  IInv'
<1>1. ts \in [Tasks -> TaskState] /\ ts[t] \in TaskState /\ SlotOK
  BY WorldOf DEF Beside
<1>2. CASE TearingDown(d) /\ s' = d /\ task' = [ts EXCEPT ![t].pc = "tearing"] /\ UNCHANGED mutex
  BY <1>2, AfterJoinKeeps DEF AfterJoin
<1>3. CASE /\ ts[t].joins # None
           /\ s' = d /\ CancelTask([ts EXCEPT ![t].pc = "joining"], ts[t].joins)
  <2> DEFINE r == [ts[t] EXCEPT !.pc = "joining"]
             us == [ts EXCEPT ![t] = r]
  <2>1. /\ r \in TaskState /\ r.op # "connect" /\ r.pc = "joining"
    BY <1>1 DEF TaskState, Places
  <2>2. us = [ts EXCEPT ![t].pc = "joining"]
    OBVIOUS
  <2>3. ts[t].joins \in Tasks
    BY <1>1, <1>3 DEF TaskState
  <2> HIDE DEF r
  <2>4. /\ us \in [Tasks -> TaskState] /\ us[t] = r
        /\ \A u \in Tasks \ {t} : us[u] = ts[u]
    BY <1>1, <2>1
  <2>5. CancelTask(us, ts[t].joins)
    BY <1>3, <2>2
  <2> HIDE DEF us
  <2>6. /\ task' \in [Tasks -> TaskState]
        /\ \A u \in Tasks : /\ task'[u].pc = us[u].pc /\ task'[u].op = us[u].op
                            /\ task'[u].gen = us[u].gen /\ task'[u].step = us[u].step
        /\ SlotOK' /\ holder' = holder
    BY <1>1, <2>3, <2>4, <2>5, CancelTaskKeeps
  <2>7. \A u \in Tasks \ {t} : Unmoved(u)
    BY <2>4, <2>6 DEF Beside, Unmoved
  <2>8. task'[t].op # "connect" /\ task'[t].pc = "joining"
    BY <2>1, <2>4, <2>6
  <2>9. Forward(s') /\ s'.pending.owner = s.pending.owner
    BY <1>3
  <2> QED
    BY <2>6, <2>7, <2>8, <2>9, AwayKeeps
<1>4. CASE AfterJoin(t, d, [ts EXCEPT ![t].joins = None]) /\ UNCHANGED mutex
  <2> DEFINE r == [ts[t] EXCEPT !.joins = None]
             us == [ts EXCEPT ![t] = r]
  <2>1. r \in TaskState /\ r.op # "connect"
    BY <1>1 DEF TaskState
  <2>2. us = [ts EXCEPT ![t].joins = None]
    OBVIOUS
  <2> HIDE DEF r
  <2>3. Beside(t, us) /\ us[t].op # "connect"
    BY <1>1, <2>1 DEF Beside
  <2>4. AfterJoin(t, d, us)
    BY <1>4, <2>2
  <2> HIDE DEF us
  <2> QED
    BY <1>4, <2>3, <2>4, AfterJoinKeeps
<1> QED
  BY <1>2, <1>3, <1>4 DEF AfterQuiet

(* disconnect() is called: it ends the generation and the polling. *)
LEMMA CallDisconnectKeeps ==
    ASSUME IInv, NEW t \in Tasks, CallDisconnect(t)
    PROVE  IInv'
<1> DEFINE left == [s EXCEPT !.generation = @ + 1]
           d == [left EXCEPT !.state = "disconnecting", !.polling = FALSE, !.poller = None]
           i == Idle
           r == [i EXCEPT !.op = "disconnect", !.joins = s.connector]
           ts == [task EXCEPT ![t] = r]
<1>1. /\ SlotOK /\ task \in [Tasks -> TaskState] /\ native \in [Tasks -> NativeWrite]
      /\ s.connector \in Tasks \cup {None} /\ UNCHANGED orphans /\ WorldOK
  BY WorldOf DEF IInv, TypeOK, Session, CallDisconnect
<1>2. WorldOK' /\ task[t].pc \notin Transacting
  BY <1>1, CallingWorld DEF CallDisconnect
<1>3. Forward(left) /\ left \in Session /\ left.pending.owner = s.pending.owner
  BY NextGenerationForward DEF Forward
<1>4. CASE s' = ForgetConnection(left) /\ UNCHANGED <<task, mutex, native>>
  <2>1. Forward(s') /\ s'.pending.owner = s.pending.owner
    <3> HIDE DEF left
    <3> QED
      BY <1>3, <1>4, ForgetKeeps, KeptForward
  <2>2. SlotOK' /\ holder' = holder /\ \A u \in Tasks : Unmoved(u)
    BY <1>1, <1>4, SlotSteps DEF mutex, Unmoved
  <2>3. /\ task' \in [Tasks -> TaskState] /\ native' \in [Tasks -> NativeWrite]
        /\ native' = native
    BY <1>1, <1>4
  <2> QED
    BY <1>1, <1>2, <2>1, <2>2, <2>3, QuietKeeps
<1>5. Forward(d) /\ d.pending.owner = s.pending.owner
  <2> HIDE DEF left
  <2>1. Kept(left, d) /\ d.state = "disconnecting"
    BY <1>3 DEF Kept, Session, States
  <2> QED
    BY <1>3, <2>1, KeptForward
<1>6. CASE Quieting(t, "disconnect", d, s.connector)
  <2> HIDE DEF d
  <2> QED
    BY <1>1, <1>2, <1>5, <1>6, QuietingKeeps
<1>7. CASE AfterQuiet(t, d, ts) /\ UNCHANGED native
  <2>1. i \in TaskState
    BY IdleTypes
  <2> HIDE DEF d, i
  <2>2. r \in TaskState /\ r.op = "disconnect"
    BY <1>1, <2>1 DEF TaskState, AllOperations
  <2> HIDE DEF r
  <2>3. Beside(t, ts) /\ ts[t].op # "connect"
    BY <1>1, <2>2 DEF Beside
  <2> HIDE DEF ts
  <2> QED
    BY <1>1, <1>2, <1>5, <1>7, <2>3, AfterQuietKeeps
<1> QED
  BY <1>4, <1>6, <1>7 DEF CallDisconnect

(* The poll that Stop, stop_polling or disconnect() waited for has ended. *)
LEMMA QuietedKeeps ==
    ASSUME IInv, NEW t \in Tasks, Quieted(t)
    PROVE  IInv'
<1> DEFINE r == [task[t] EXCEPT !.awaits = None]
           ts == [task EXCEPT ![t] = r]
<1>1. /\ WorldOK' /\ Forward(s) /\ SlotOK /\ task \in [Tasks -> TaskState] /\ task[t] \in TaskState
      /\ task[t].pc = "quieting" /\ task[t].pc \notin Transacting /\ UNCHANGED orphans
      /\ NoTarget \in Targets
  BY SessionForward, WorldOf, WorldSame, BlankTypes DEF IInv, TypeOK, Quieted, Transacting
<1>2. r \in TaskState /\ r.op = task[t].op /\ r.gen = task[t].gen
  BY <1>1 DEF TaskState
<1>3. ts = [task EXCEPT ![t].awaits = None]
  OBVIOUS
<1> HIDE DEF r
<1>4. Beside(t, ts) /\ SameSetup(t, ts) /\ ts[t].op = task[t].op
  BY <1>1, <1>2 DEF Beside, SameSetup
<1>5. \/ task[t].op = "stop" /\ Begin(t, s, ts, "stop", NoTarget, 1)
      \/ task[t].op = "disconnect" /\ AfterQuiet(t, s, ts) /\ UNCHANGED native
      \/ task' = [ts EXCEPT ![t] = Idle] /\ UNCHANGED <<s, mutex, native>>
  BY <1>3 DEF Quieted
<1> HIDE DEF ts
<1>6. CASE Begin(t, s, ts, "stop", NoTarget, 1)
  BY <1>1, <1>4, <1>6, ProgramNonempty, BeginKeeps
<1>7. CASE task[t].op = "disconnect" /\ AfterQuiet(t, s, ts) /\ UNCHANGED native
  BY <1>1, <1>4, <1>7, AfterQuietKeeps
<1>8. CASE task' = [ts EXCEPT ![t] = Idle] /\ UNCHANGED <<s, mutex, native>>
  <2>1. SlotOK' /\ holder' = holder /\ Forward(s')
    BY <1>1, <1>8, SlotSteps DEF mutex
  <2>2. /\ task' \in [Tasks -> TaskState] /\ task'[t] = Idle
        /\ \A u \in Tasks \ {t} : Unmoved(u)
    BY <1>4, <1>8, IdleTypes DEF Beside, Unmoved
  <2>3. task'[t].op # "connect" /\ task'[t].pc = "idle"
    BY <2>2 DEF Idle
  <2> QED
    BY <1>1, <1>8, <2>1, <2>2, <2>3, AwayKeeps
<1> QED
  BY <1>5, <1>6, <1>7, <1>8

(* The poisoned client's teardown, or the cancelled setup, has ended. *)
LEMMA WaitedKeeps ==
    ASSUME IInv, NEW t \in Tasks, TornDown(t) \/ Joined(t)
    PROVE  IInv'
<1>1. /\ Forward(s) /\ Beside(t, task) /\ SlotOK /\ task \in [Tasks -> TaskState]
      /\ task[t] \in TaskState /\ task[t].op # "connect" /\ task[t].pc \notin Transacting
      /\ WorldOK' /\ UNCHANGED <<native, orphans>>
  BY SessionForward, WorldOf, WorldSame
     DEF IInv, TypeOK, SetupPlaces, TornDown, Joined, Transacting
<1>2. CASE TornDown(t)
  BY <1>1, <1>2, AfterQuietKeeps DEF TornDown
<1>3. CASE Joined(t)
  <2> DEFINE r == [task[t] EXCEPT !.joins = None]
             ts == [task EXCEPT ![t] = r]
  <2>1. r \in TaskState /\ r.op = task[t].op
    BY <1>1 DEF TaskState
  <2>2. ts = [task EXCEPT ![t].joins = None]
    OBVIOUS
  <2> HIDE DEF r
  <2>3. Beside(t, ts) /\ ts[t].op # "connect"
    BY <1>1, <2>1 DEF Beside
  <2>4. AfterJoin(t, s, ts) /\ UNCHANGED mutex
    BY <1>3, <2>2 DEF Joined
  <2> HIDE DEF ts
  <2> QED
    BY <1>1, <2>3, <2>4, AfterJoinKeeps
<1> QED
  BY <1>2, <1>3

(* stop_notify() has returned. *)
LEMMA UnsubscribedKeeps ==
    ASSUME IInv, NEW t \in Tasks, Unsubscribed(t)
    PROVE  IInv'
<1>1. /\ Forward(s) /\ s \in Session /\ SlotOK /\ task \in [Tasks -> TaskState]
      /\ task[t] \in TaskState /\ task[t].op # "connect" /\ task[t].pc \notin Transacting
      /\ WorldOK' /\ UNCHANGED <<mutex, native, orphans>> /\ link.id \in Nat
  BY SessionForward, WorldOf, WorldSame
     DEF IInv, TypeOK, SetupPlaces, Unsubscribed, Transacting
<1>2. SlotOK' /\ holder' = holder
  BY <1>1, SlotSteps DEF mutex
<1>3. PICK r \in TaskState :
        task' = [task EXCEPT ![t] = r] /\ r.op # "connect" /\ r.pc \in {"idle", "hanging_up"}
  <2>1. CASE task' = [task EXCEPT ![t].pc = "hanging_up", ![t].gen = link.id]
    <3> DEFINE r == [task[t] EXCEPT !.pc = "hanging_up", !.gen = link.id]
    <3>1. r \in TaskState /\ r.op # "connect" /\ r.pc = "hanging_up"
      BY <1>1 DEF TaskState, Places
    <3>2. task' = [task EXCEPT ![t] = r]
      BY <2>1
    <3> QED
      BY <3>1, <3>2
  <2>2. CASE task' = [task EXCEPT ![t] = Idle]
    BY <2>2, IdleTypes DEF Idle
  <2> QED
    BY <2>1, <2>2 DEF Unsubscribed
<1>4. Forward(s') /\ s'.pending.owner = s.pending.owner
  <2>1. CASE s' = s
    BY <1>1, <2>1
  <2>2. CASE s' = DisconnectEnded(s, FALSE)
    BY <1>1, <2>2, DisconnectEndedKeeps, KeptForward
  <2> QED
    BY <2>1, <2>2 DEF Unsubscribed
<1>5. /\ task' \in [Tasks -> TaskState] /\ task'[t] = r
      /\ \A u \in Tasks \ {t} : Unmoved(u)
  BY <1>1, <1>3 DEF Unmoved
<1> QED
  BY <1>1, <1>2, <1>3, <1>4, <1>5, AwayKeeps

(* disconnect()'s native disconnect has returned. *)
LEMMA HungUpKeeps ==
    ASSUME IInv, NEW t \in Tasks, HungUp(t)
    PROVE  IInv'
<1>1. /\ Forward(s) /\ s \in Session /\ SlotOK /\ task \in [Tasks -> TaskState]
      /\ task[t].pc \notin Transacting /\ WorldOK
      /\ UNCHANGED <<mutex, native, orphans>> /\ task' = [task EXCEPT ![t] = Idle]
  BY SessionForward, WorldOf DEF IInv, TypeOK, HungUp, Transacting
<1>2. SlotOK' /\ holder' = holder
  BY <1>1, SlotSteps DEF mutex
<1>3. WorldOK'
  BY <1>1, HangUpWorld DEF HungUp
<1>4. s' = DisconnectEnded(s, link'.up)
  BY DEF HungUp
<1>5. Forward(s') /\ s'.pending.owner = s.pending.owner
  BY <1>1, <1>4, DisconnectEndedKeeps, KeptForward
<1>6. /\ task' \in [Tasks -> TaskState] /\ \A u \in Tasks \ {t} : Unmoved(u)
      /\ task'[t].op # "connect" /\ task'[t].pc = "idle"
  BY <1>1, IdleTypes DEF Unmoved, Idle
<1> QED
  BY <1>1, <1>2, <1>3, <1>5, <1>6, AwayKeeps

(* A step that leaves the tasks and the slot alone. *)
LEMMA SessionStepKeeps ==
    ASSUME IInv, Forward(s'), s'.pending.owner = s.pending.owner,
           UNCHANGED <<task, mutex, native, orphans>>, WorldOK'
    PROVE  IInv'
<1>1. task \in [Tasks -> TaskState] /\ native \in [Tasks -> NativeWrite] /\ SlotOK
  BY WorldOf DEF IInv, TypeOK
<1>2. SlotOK'
  BY <1>1 DEF SlotOK, QueueBounded, Mutex!MutexTypeOK, Mutex!Entry, mutex
<1>3. holder' = holder /\ \A u \in Tasks : Unmoved(u)
  BY DEF mutex, Unmoved
<1> QED
  BY <1>1, <1>2, <1>3, QuietKeeps

(* The poisoned client's teardown only moves its own bookkeeping. *)
LEMMA TeardownKeeps ==
    ASSUME IInv, TeardownStarts \/ TeardownEnds
    PROVE  IInv'
<1>1. Forward(s) /\ s \in Session /\ WorldOK
  BY SessionForward, WorldOf DEF IInv, TypeOK
<1>2. UNCHANGED <<task, mutex, native, orphans>>
  BY DEF TeardownStarts, TeardownEnds
<1>3. WorldOK'
  BY <1>1, WorldSame, HangUpWorld DEF TeardownStarts, TeardownEnds
<1>4. PICK x \in {"none", "hanging_up"}, y \in BOOLEAN :
         s' = [s EXCEPT !.teardown = x, !.expected = y]
  BY DEF TeardownStarts, TeardownEnds
<1>5. Kept(s, s') /\ s'.state = s.state
  BY <1>1, <1>4 DEF Kept, Session
<1> QED
  BY <1>1, <1>2, <1>3, <1>5, KeptForward, SessionStepKeeps

-----------------------------------------------------------------------------
(* Callbacks, the native stack, the charger and the world. *)

(* Poisoning from a callback also flags the poll. *)
LEMMA CallbackKeeps ==
    ASSUME IInv, Forward(s'), s'.pending.owner = s.pending.owner,
           task' \in {task, CancelPoll(task, None)},
           UNCHANGED <<mutex, native, orphans>>, WorldOK'
    PROVE  IInv'
<1>1. task \in [Tasks -> TaskState] /\ native \in [Tasks -> NativeWrite] /\ SlotOK
  BY WorldOf DEF IInv, TypeOK
<1>2. SlotOK'
  BY <1>1 DEF SlotOK, QueueBounded, Mutex!MutexTypeOK, Mutex!Entry, mutex
<1>3. task' \in [Tasks -> TaskState] /\ \A u \in Tasks : Unmoved(u)
  BY <1>1, CancelPollKeeps DEF Unmoved
<1>4. holder' = holder
  BY DEF mutex
<1> QED
  BY <1>1, <1>2, <1>3, <1>4, QuietKeeps

(* A notification is delivered. *)
LEMMA NotifiedKeeps ==
    ASSUME IInv, Notified
    PROVE  IInv'
<1> DEFINE f == Head(fromDev)
<1>1. /\ Forward(s) /\ s \in Session /\ s.generation \in Nat /\ WorldOK
      /\ UNCHANGED <<mutex, native, orphans>> /\ f \in Frame /\ fromDev' \in Seq(Frame)
  BY SessionForward, WorldOf DEF IInv, TypeOK, Session, Notified
<1>2. WorldOK'
  BY <1>1 DEF Notified, WorldOK, budget
<1>3. CASE UNCHANGED <<s, task>>
  BY <1>1, <1>2, <1>3, CallbackKeeps
<1>4. CASE s' = PoisonCurrentClient(FailPending(s)) /\ task' = CancelPoll(task, None)
  <2> DEFINE d == FailPending(s)
  <2>1. Kept(s, d) /\ d.state = s.state
    BY <1>1, FailPendingKeeps
  <2>2. Forward(d) /\ d \in Session /\ d.generation \in Nat /\ d.pending.owner = s.pending.owner
    BY <1>1, <2>1, KeptForward DEF Kept
  <2> HIDE DEF d
  <2>3. Forward(s') /\ s'.pending.owner = d.pending.owner
    BY <1>1, <1>4, <2>1, <2>2, PoisonPoisons DEF d, Forward, Kept
  <2> QED
    BY <1>1, <1>2, <1>4, <2>2, <2>3, CallbackKeeps
<1>5. CASE s' = MatchPending(ApplyDecoded(s, f), f) /\ UNCHANGED task
  <2> DEFINE d == ApplyDecoded(s, f)
  <2>1. Kept(s, d) /\ d.state = s.state /\ d \in Session
    BY <1>1, ApplyKeeps DEF Kept
  <2> HIDE DEF d
  <2>2. Kept(d, s') /\ s'.state = d.state
    BY <1>1, <1>5, <2>1, MatchKeeps DEF d
  <2>3. Forward(s') /\ s'.pending.owner = s.pending.owner
    BY <1>1, <2>1, <2>2, KeptForward
  <2> QED
    BY <1>1, <1>2, <1>5, <2>3, CallbackKeeps
<1> QED
  BY <1>3, <1>4, <1>5 DEF Notified

(* The loss of the link is delivered. *)
LEMMA DisconnectedKeeps ==
    ASSUME IInv, Disconnected
    PROVE  IInv'
<1>1. /\ Forward(s) /\ s \in Session /\ s.generation \in Nat /\ WorldOK
      /\ UNCHANGED <<mutex, native, orphans>>
  BY SessionForward, WorldOf DEF IInv, TypeOK, Session, Disconnected
<1>2. WorldOK'
  <2>1. lost' \in Nat
    BY <1>1 DEF Disconnected, WorldOK
  <2> QED
    BY <1>1, <2>1 DEF Disconnected, WorldOK, budget
<1>3. CASE UNCHANGED <<s, task>>
  BY <1>1, <1>2, <1>3, CallbackKeeps
<1> DEFINE b == [s EXCEPT !.generation = @ + 1]
           c == [b EXCEPT !.polling = FALSE, !.poller = None]
           d == FailPending(ResetConnectionData(c))
<1>4. CASE /\ task' = CancelPoll(task, None)
           /\ \E x \in {"disconnected", "error"} : s' = [d EXCEPT !.state = x]
  <2>1. Forward(b) /\ b \in Session /\ b.pending.owner = s.pending.owner
    BY NextGenerationForward DEF Forward
  <2> HIDE DEF b
  <2>2. Kept(b, c) /\ c.state = b.state
    BY <2>1 DEF Kept, Session
  <2> HIDE DEF c
  <2>3. Kept(c, d) /\ d.state = c.state
    BY <2>2, ResetKeeps, FailPendingKeeps DEF Kept
  <2> HIDE DEF d
  <2>4. Kept(d, s') /\ s'.state \in {"disconnected", "error"}
    BY <1>4, <2>3 DEF Kept, Session, States
  <2>5. Kept(b, s') /\ s'.state \in {"disconnected", "error"}
    BY <2>2, <2>3, <2>4 DEF Kept
  <2>6. Forward(s') /\ s'.pending.owner = s.pending.owner
    BY <2>1, <2>5, KeptForward
  <2> QED
    BY <1>1, <1>2, <1>4, <2>6, CallbackKeeps
<1>5. \/ s' = s /\ task' = task
      \/ /\ task' = CancelPoll(task, None)
         /\ \E x \in {"disconnected", "error"} : s' = [d EXCEPT !.state = x]
  <2>1. CASE link.handler # s.generation
    BY <2>1 DEF Disconnected
  <2>2. CASE link.handler = s.generation
    <3>1. c = [s EXCEPT !.generation = @ + 1, !.polling = FALSE, !.poller = None]
      BY <1>1 DEF Session
    <3>2. s' = [d EXCEPT !.state = IF s.expected \/ s.state = "disconnecting"
                                   THEN "disconnected" ELSE "error"]
      BY <2>2, <3>1 DEF Disconnected
    <3>3. task' = CancelPoll(task, None)
      BY <2>2 DEF Disconnected
    <3>4. (IF s.expected \/ s.state = "disconnecting" THEN "disconnected" ELSE "error")
             \in {"disconnected", "error"}
      OBVIOUS
    <3> HIDE DEF d
    <3> QED
      BY <3>2, <3>3, <3>4
  <2> QED
    BY <2>1, <2>2
<1> QED
  BY <1>3, <1>4, <1>5

(* A step that neither the session nor any task takes. *)
LEMMA WorldStepKeeps ==
    ASSUME IInv, UNCHANGED <<s, task, mutex>>, WorldOK',
           native' \in [Tasks -> NativeWrite],
           \A u \in Tasks : native[u].at = "none" => native'[u].at = "none",
           orphans' \subseteq orphans
    PROVE  IInv'
<1>1. task \in [Tasks -> TaskState] /\ SlotOK /\ Forward(s)
  BY WorldOf, SessionForward DEF IInv, TypeOK
<1>2. SlotOK'
  BY <1>1 DEF SlotOK, QueueBounded, Mutex!MutexTypeOK, Mutex!Entry, mutex
<1>3. holder' = holder /\ \A u \in Tasks : Unmoved(u)
  BY DEF mutex, Unmoved
<1>4. Forward(s') /\ s'.pending.owner = s.pending.owner
  BY <1>1 DEF Forward
<1> QED
  BY <1>1, <1>2, <1>3, <1>4, QuietKeeps

(* A native write lands, completes or fails. *)
LEMMA NativeKeeps ==
    ASSUME IInv, NEW t \in Tasks, NativeLands(t) \/ NativeCompletes(t) \/ NativeFails(t)
    PROVE  IInv'
<1>1. /\ WorldOK /\ native \in [Tasks -> NativeWrite] /\ native[t] \in NativeWrite
      /\ native[t].at # "none" /\ UNCHANGED <<s, task, mutex, orphans>>
  BY WorldOf DEF IInv, TypeOK, NativeLands, NativeCompletes, NativeFails
<1>2. PICK x \in {"landed", "done", "failed"} : native' = [native EXCEPT ![t].at = x]
  BY DEF NativeLands, NativeCompletes, NativeFails
<1>3. /\ native' \in [Tasks -> NativeWrite]
      /\ \A u \in Tasks : native[u].at = "none" => native'[u].at = "none"
  <2>1. [native[t] EXCEPT !.at = x] \in NativeWrite
    BY <1>1 DEF NativeWrite
  <2>2. native' = [native EXCEPT ![t] = [native[t] EXCEPT !.at = x]]
    BY <1>2
  <2> QED
    BY <1>1, <2>1, <2>2
<1>4. WorldOK'
  <2>1. CASE NativeLands(t)
    <3>1. task[t].pc \in Transacting
      BY <1>1 DEF IInv, SlotInv, WriterWrites, Transacting
    <3>2. /\ Request(t) \in Requests /\ task[t].want \in Targets
      BY <3>1, OperationOf, ProgramTypes DEF Request
    <3>3. OnAir(Request(t), task[t].want, link.id) \in AirFrame
      BY <1>1, <3>2, BlankTypes DEF OnAir, AirFrame, WorldOK
    <3>4. toDev' \in Seq(AirFrame)
      BY <1>1, <2>1, <3>3 DEF NativeLands, WorldOK
    <3> QED
      BY <1>1, <2>1, <3>4 DEF NativeLands, WorldOK, budget
  <2>2. CASE NativeCompletes(t)
    BY <1>1, <2>2, WorldSame DEF NativeCompletes
  <2>3. CASE NativeFails(t)
    <3>1. faults' \in 0 .. MaxFaults
      BY <1>1, <2>3, InjectBounds DEF NativeFails, WorldOK
    <3> QED
      BY <1>1, <2>3, <3>1 DEF NativeFails, WorldOK, world
  <2> QED
    BY <2>1, <2>2, <2>3
<1> QED
  BY <1>1, <1>3, <1>4, WorldStepKeeps

(* A write left behind ends. *)
LEMMA OrphanEndsKeeps ==
    ASSUME IInv, OrphanEnds
    PROVE  IInv'
<1>1. /\ WorldOK /\ native \in [Tasks -> NativeWrite] /\ UNCHANGED <<s, task, mutex, native>>
      /\ orphans \subseteq Orphan
  BY WorldOf DEF IInv, TypeOK, OrphanEnds
<1>2. PICK o \in orphans :
          /\ orphans' = orphans \ {o}
          /\ toDev' = toDev \/ toDev' = Append(toDev, o.frame)
  BY DEF OrphanEnds
<1>3. toDev' \in Seq(AirFrame)
  <2>1. o.frame \in AirFrame
    BY <1>1 DEF Orphan
  <2>2. toDev \in Seq(AirFrame) /\ \A x \in AirFrame : Append(toDev, x) \in Seq(AirFrame)
    BY <1>1 DEF WorldOK
  <2> QED
    BY <1>2, <2>1, <2>2, Zenon
<1>4. WorldOK'
  BY <1>1, <1>3 DEF OrphanEnds, WorldOK, budget
<1> QED
  BY <1>1, <1>2, <1>4, WorldStepKeeps

(* What the charger does and answers is typed. *)
LEMMA ChargerTypes ==
    ASSUME WorldOK, NEW f \in AirFrame, NEW ack \in {OFF, ON, Unknown}
    PROVE  /\ Effect(f) \in [output : {OFF, ON}, target : Targets, ceiling : Levels]
           /\ Reply(f, ack) \in Frame
<1>1. f.op \in Requests /\ f.on \in Nat /\ f.want \in Targets
  BY DEF AirFrame
<1>2. /\ dev \in [output : {OFF, ON}, target : Targets, ceiling : Levels]
      /\ dev.output \in {OFF, ON} /\ dev.target \in Targets /\ dev.ceiling \in Levels
  BY DEF WorldOK
<1>3. ASSUME f.op \in Setters
      PROVE  [dev EXCEPT !.target[f.op] = f.want[f.op]]
               \in [output : {OFF, ON}, target : Targets, ceiling : Levels]
  <2>1. [dev.target EXCEPT ![f.op] = f.want[f.op]] \in Targets
    BY <1>1, <1>2, <1>3 DEF Targets
  <2> QED
    BY <1>2, <2>1
<1>4. /\ [dev EXCEPT !.output = ON] \in [output : {OFF, ON}, target : Targets, ceiling : Levels]
      /\ [dev EXCEPT !.output = OFF] \in [output : {OFF, ON}, target : Targets, ceiling : Levels]
  BY <1>2
<1>5. Effect(f) \in [output : {OFF, ON}, target : Targets, ceiling : Levels]
  BY <1>2, <1>3, <1>4 DEF Effect
<1>6. Opcode(f.op) \in Opcodes
  BY <1>1 DEF Opcodes
<1>7. Reply(f, ack) \in Frame
  BY <1>1, <1>2, <1>6, BlankTypes DEF Reply, Frame, Unknown, OFF, ON
<1> QED
  BY <1>5, <1>7

(* The auxiliary record of what the charger heard is typed. *)
LEMMA HeardTypes ==
    ASSUME WorldOK, NEW f \in AirFrame, Hears(f)
    PROVE  heard' \in [last : Seq(Requests), reported : Targets]
<1>1. /\ f.op \in Requests /\ dev.target \in Targets
      /\ heard.last \in Seq(Requests) /\ heard.reported \in Targets
  BY DEF AirFrame, WorldOK
<1>2. <<f.op>> \in Seq(Requests)
  BY <1>1
<1>3. heard.last # <<>> => <<heard.last[Len(heard.last)], f.op>> \in Seq(Requests)
  BY <1>1
<1> QED
  BY <1>1, <1>2, <1>3 DEF Hears

(* The charger handles a request, and it is answered or not. *)
LEMMA AnswerTypes ==
    ASSUME WorldOK, toDev # <<>>, toDev' = Tail(toDev), Hears(Head(toDev)),
           dev' \in {dev, Effect(Head(toDev))},
           \/ UNCHANGED fromDev
           \/ \E f \in Frame : Answer(f),
           faults' \in 0 .. MaxFaults, UNCHANGED <<link, lost, calls>>
    PROVE  WorldOK'
<1> DEFINE h == Head(toDev)
<1>1. h \in AirFrame /\ toDev' \in Seq(AirFrame)
  BY DEF WorldOK
<1>2. heard' \in [last : Seq(Requests), reported : Targets]
  BY <1>1, HeardTypes
<1>3. dev' \in [output : {OFF, ON}, target : Targets, ceiling : Levels]
  <2>1. Effect(h) \in [output : {OFF, ON}, target : Targets, ceiling : Levels]
    BY <1>1, ChargerTypes DEF ON
  <2>2. dev \in [output : {OFF, ON}, target : Targets, ceiling : Levels]
    BY DEF WorldOK
  <2> QED
    BY <2>1, <2>2, Zenon
<1>4. fromDev' \in Seq(Frame)
  <2>1. fromDev \in Seq(Frame)
    BY DEF WorldOK
  <2> QED
    BY <2>1 DEF Answer
<1> QED
  BY <1>1, <1>2, <1>3, <1>4 DEF WorldOK

(* The charger, well behaved or not, keeps the invariant. *)
LEMMA ChargerKeeps ==
    ASSUME IInv, ChargerHandles \/ ChargerMisbehaves
    PROVE  IInv'
<1> DEFINE f == Head(toDev)
<1>1. /\ WorldOK /\ native \in [Tasks -> NativeWrite]
      /\ UNCHANGED <<s, task, mutex, native, orphans>> /\ UNCHANGED <<link, lost, calls>>
      /\ toDev # <<>> /\ toDev' = Tail(toDev) /\ Hears(f) /\ faults \in 0 .. MaxFaults
  BY WorldOf DEF IInv, TypeOK, ChargerHandles, ChargerMisbehaves, budget
<1>2. f \in AirFrame
  BY <1>1 DEF WorldOK
<1>3. \A ack \in {OFF, ON, Unknown} : Reply(f, ack) \in Frame
  BY <1>1, <1>2, ChargerTypes
<1>4. /\ dev' \in {dev, Effect(f)}
      /\ UNCHANGED fromDev \/ \E g \in Frame : Answer(g)
      /\ faults' \in 0 .. MaxFaults
  <2>1. CASE ChargerHandles
    BY <1>1, <1>3, <2>1 DEF ChargerHandles, budget
  <2>2. CASE ChargerMisbehaves
    <3>1. ASSUME NEW ack \in {OFF, ON, Unknown}, Inject("reject"),
                 dev' \in {dev, Effect(f)}, Answer(Reply(f, ack))
          PROVE  /\ dev' \in {dev, Effect(f)}
                 /\ \E g \in Frame : Answer(g)
                 /\ faults' \in 0 .. MaxFaults
      BY <1>1, <1>3, <3>1, InjectBounds
    <3>2. CASE Inject("silence") /\ dev' = Effect(f) /\ UNCHANGED fromDev
      BY <1>1, <3>2, InjectBounds
    <3> DEFINE g == Reply(f, ON)
    <3>3. g \in Frame
      BY <1>3
    <3>4. CASE Inject("corrupt") /\ dev' = Effect(f) /\ Answer([g EXCEPT !.kind = "corrupt"])
      <4> HIDE DEF g
      <4>1. [g EXCEPT !.kind = "corrupt"] \in Frame
        BY <3>3 DEF Frame
      <4> QED
        BY <1>1, <3>4, <4>1, InjectBounds
    <3>5. CASE /\ Inject("layout") /\ UNCHANGED dev
               /\ \/ Answer([g EXCEPT !.layout = FALSE])
                  \/ Answer([g EXCEPT !.output = Unknown, !.ceiling = 0])
      <4> HIDE DEF g
      <4>1. /\ [g EXCEPT !.layout = FALSE] \in Frame
            /\ [g EXCEPT !.output = Unknown, !.ceiling = 0] \in Frame
        BY <3>3 DEF Frame
      <4> QED
        BY <1>1, <3>5, <4>1, InjectBounds
    <3> QED
      BY <2>2, <3>1, <3>2, <3>4, <3>5 DEF ChargerMisbehaves
  <2> QED
    BY <1>1, <2>1, <2>2
<1>5. WorldOK'
  BY <1>1, <1>4, AnswerTypes
<1>6. native' \in [Tasks -> NativeWrite] /\ native' = native /\ orphans' = orphans
  BY <1>1
<1> QED
  BY <1>1, <1>5, <1>6, WorldStepKeeps

(* The front panel, spontaneous frames, noise, the loss of the link. *)
LEMMA RadioKeeps ==
    ASSUME IInv, Panel \/ Unsolicited \/ NoiseArrives \/ LinkLoss
    PROVE  IInv'
<1>1. /\ WorldOK /\ native \in [Tasks -> NativeWrite]
      /\ UNCHANGED <<s, task, mutex, native, orphans>>
  BY WorldOf DEF IInv, TypeOK, Panel, Unsolicited, NoiseArrives, LinkLoss
<1>2. faults' \in 0 .. MaxFaults
  BY <1>1, InjectBounds DEF WorldOK, Panel, Unsolicited, NoiseArrives, LinkLoss
<1>3. CASE Panel
  <2>1. dev' \in [output : {OFF, ON}, target : Targets, ceiling : Levels]
    <3>1. Confirmed \subseteq Targets
      BY SessionAssumption DEF SessionAssumption, Targets
    <3> QED
      BY <1>1, <1>3, <3>1 DEF Panel, WorldOK
  <2> QED
    BY <1>1, <1>2, <1>3, <2>1, WorldStepKeeps DEF Panel, WorldOK, air
<1>4. CASE Unsolicited
  <2>1. /\ link.id \in Nat /\ dev.output \in {OFF, ON}
    BY <1>1 DEF WorldOK
  <2> DEFINE f == Reply([op |-> "get_telemetry", on |-> link.id], ON)
  <2>2. f \in Frame
    BY <2>1, BlankTypes DEF Reply, Frame, Unknown, Opcode, Opcodes, Requests, Reads
  <2>3. Answer(f)
    BY <1>4 DEF Unsolicited
  <2> HIDE DEF f
  <2>4. fromDev' \in Seq(Frame)
    BY <1>1, <2>2, <2>3 DEF Answer, WorldOK
  <2> QED
    BY <1>1, <1>2, <1>4, <2>4, WorldStepKeeps DEF Unsolicited, WorldOK
<1>5. CASE NoiseArrives
  <2> DEFINE n == NoFrame
             f == [n EXCEPT !.kind = "corrupt", !.on = link.id]
  <2>1. n \in Frame /\ link.id \in Nat /\ fromDev \in Seq(Frame)
    BY <1>1, BlankTypes DEF WorldOK
  <2> HIDE DEF n
  <2>2. f \in Frame
    BY <2>1 DEF Frame
  <2>3. fromDev' = Append(fromDev, f)
    BY <1>5 DEF NoiseArrives, n
  <2> HIDE DEF f
  <2>4. fromDev' \in Seq(Frame)
    BY <2>1, <2>2, <2>3
  <2> QED
    BY <1>1, <1>2, <1>5, <2>4, WorldStepKeeps DEF NoiseArrives, WorldOK
<1>6. CASE LinkLoss
  <2>1. link' \in [up : BOOLEAN, id : Nat, handler : Nat, notify : BOOLEAN]
    BY <1>1, <1>6 DEF LinkLoss, WorldOK
  <2>2. lost' \in Nat /\ toDev' \in Seq(AirFrame)
    BY <1>1, <1>6 DEF LinkLoss, WorldOK
  <2> QED
    BY <1>1, <1>2, <1>6, <2>1, <2>2, WorldStepKeeps DEF LinkLoss, WorldOK
<1> QED
  BY <1>3, <1>4, <1>5, <1>6

(* A readback grows old. *)
LEMMA ExpireKeeps ==
    ASSUME IInv, Expire
    PROVE  IInv'
<1>1. /\ WorldOK /\ Forward(s) /\ s \in Session /\ UNCHANGED <<task, mutex, native, orphans>>
  BY WorldOf, SessionForward DEF IInv, TypeOK, Expire
<1>2. WorldOK'
  <2>1. faults' \in 0 .. MaxFaults
    BY <1>1, InjectBounds DEF WorldOK, Expire
  <2> QED
    BY <1>1, <2>1 DEF WorldOK, Expire, world
<1>3. Kept(s, s') /\ s'.state = s.state
  <2>1. CASE s' = [s EXCEPT !.config.fresh = FALSE]
    <3>1. [s.config EXCEPT !.fresh = FALSE] \in Readback
      BY <1>1 DEF Session, Readback
    <3>2. s' = [s EXCEPT !.config = [s.config EXCEPT !.fresh = FALSE]]
      BY <1>1, <2>1
    <3> QED
      BY <1>1, <3>1, <3>2 DEF Kept, Session
  <2>2. CASE s' = [s EXCEPT !.telemetry.fresh = FALSE]
    <3>1. [s.telemetry EXCEPT !.fresh = FALSE] \in OutputReading
      BY <1>1 DEF Session, OutputReading
    <3>2. s' = [s EXCEPT !.telemetry = [s.telemetry EXCEPT !.fresh = FALSE]]
      BY <1>1, <2>2
    <3> QED
      BY <1>1, <3>1, <3>2 DEF Kept, Session
  <2> QED
    BY <2>1, <2>2 DEF Expire
<1> QED
  BY <1>1, <1>2, <1>3, KeptForward, SessionStepKeeps

-----------------------------------------------------------------------------
(* The inductive invariant holds initially and every step keeps it. *)

(* A new session, idle tasks, a free slot and a silent link satisfy the invariant. *)
LEMMA InitEstablishes == Init => IInv
<1> SUFFICES ASSUME Init PROVE IInv
  OBVIOUS
<1>1. s \in Session /\ s.pending.owner = None /\ ~s.poisoned
  BY NewSessionType DEF Init, NewSession, NoPending
<1>2. /\ task \in [Tasks -> TaskState]
      /\ \A t \in Tasks : task[t].pc = "idle" /\ task[t].op = "none"
  BY IdleTypes DEF Init, Idle
<1>3. /\ native \in [Tasks -> NativeWrite] /\ \A t \in Tasks : native[t].at = "none"
      /\ orphans = {}
  BY DEF Init, NoWrite, NativeWrite
<1>4. SlotOK
  <2>1. queue = {} /\ holder = "free"
    BY DEF Init, Mutex!MutexInit
  <2> QED
    BY <2>1 DEF SlotOK, QueueBounded, Mutex!MutexTypeOK
<1>5. WorldOK
  <2>1. dev \in [output : {OFF, ON}, target : Targets, ceiling : Levels]
    <3>1. Confirmed \subseteq Targets
      BY SessionAssumption DEF SessionAssumption, Targets
    <3> QED
      BY <3>1 DEF Init
  <2>2. heard \in [last : Seq(Requests), reported : Targets]
    BY BlankTypes DEF Init
  <2>3. link \in [up : BOOLEAN, id : Nat, handler : Nat, notify : BOOLEAN]
    BY DEF Init
  <2>4. lost \in Nat /\ toDev \in Seq(AirFrame) /\ fromDev \in Seq(Frame)
    BY DEF Init
  <2>5. calls \in 0 .. MaxCalls /\ faults \in 0 .. MaxFaults
    BY SessionAssumption DEF SessionAssumption, Init
  <2> QED
    BY <2>1, <2>2, <2>3, <2>4, <2>5 DEF WorldOK
<1>6. TypeOK /\ QueueBounded
  BY <1>1, <1>2, <1>3, <1>4, <1>5 DEF TypeOK, SlotOK, WorldOK
<1>7. SlotInv
  <2>1. None \notin Tasks
    BY DataAssumption DEF DataAssumption
  <2> QED
    BY <1>1, <1>2, <1>3, <2>1
       DEF SlotInv, PendingBelongsToOwner, OwnerTransacts, WriterWrites, OrphansHeld
<1>8. StepsInProgram /\ SetupIsCurrent /\ SetupPlaces /\ PoisonedUnusable
  BY <1>1, <1>2 DEF StepsInProgram, SetupIsCurrent, SetupPlaces, PoisonedUnusable, Transacting
<1> QED
  BY <1>6, <1>7, <1>8 DEF IInv

(* Every step, of whichever task, callback or part of the world, keeps it. *)
LEMMA NextPreserves == IInv /\ [Next]_vars => IInv'
<1> SUFFICES ASSUME IInv, [Next]_vars PROVE IInv'
  OBVIOUS
<1>1. CASE UNCHANGED vars
  <2>1. WorldOK /\ native \in [Tasks -> NativeWrite]
    BY WorldOf DEF IInv, TypeOK
  <2>2. UNCHANGED <<s, task, mutex, native, orphans, world, budget>>
    BY <1>1 DEF vars, mutex, world, budget
  <2>3. WorldOK'
    BY <2>1, <2>2, WorldSame
  <2> QED
    BY <2>1, <2>2, <2>3, WorldStepKeeps
<1>2. ASSUME NEW t \in Tasks, Call(t)
      PROVE  IInv'
  <2>1. CASE \/ \E op \in {"refresh_config", "refresh_telemetry"} : CallRead(t, op)
             \/ \E op \in Setters, v \in Levels : CallSetter(t, op, v)
             \/ \E confirmed \in Confirmed : CallStart(t, confirmed)
    BY <2>1, CallRequestKeeps
  <2>2. CASE CallStop(t) \/ CallStopPolling(t)
    BY <2>2, CallStopKeeps
  <2>3. CASE CallStartPolling(t)
    BY <2>3, CallStartPollingKeeps
  <2>4. CASE CallConnect(t)
    BY <2>4, CallConnectKeeps
  <2>5. CASE CallDisconnect(t)
    BY <2>5, CallDisconnectKeeps
  <2> QED
    BY <1>2, <2>1, <2>2, <2>3, <2>4, <2>5 DEF Call
<1>3. ASSUME NEW t \in Tasks, Resume(t)
      PROVE  IInv'
  <2>1. CASE Granted(t)
    BY <2>1, GrantedKeeps
  <2>2. CASE WriteDone(t)
    BY <2>2, WriteDoneKeeps
  <2>3. CASE WriteFailed(t) \/ ReplyFailed(t) \/ UnwindWrite(t) \/ UnwindReply(t)
    BY <2>3, FailuresKeep
  <2>4. CASE SetupReply(t)
    BY <2>4, SetupReplyKeeps
  <2>5. CASE OperationReply(t)
    BY <2>5, OperationReplyKeeps
  <2>6. CASE UnwindQueued(t)
    BY <2>6, UnwindQueuedKeeps
  <2>7. CASE UnwindSleep(t)
    BY <2>7, UnwindSleepKeeps
  <2>8. CASE UnwindSetup(t)
    BY <2>8, UnwindSetupKeeps
  <2>9. CASE Discovered(t)
    BY <2>9, DiscoveredKeeps
  <2>10. CASE Subscribed(t)
    BY <2>10, SubscribedKeeps
  <2>11. CASE Settled(t)
    BY <2>11, SettledKeeps
  <2>12. CASE Cleaned(t)
    BY <2>12, CleanedKeeps
  <2>13. CASE Quieted(t)
    BY <2>13, QuietedKeeps
  <2>14. CASE TornDown(t) \/ Joined(t)
    BY <2>14, WaitedKeeps
  <2>15. CASE Unsubscribed(t)
    BY <2>15, UnsubscribedKeeps
  <2>16. CASE HungUp(t)
    BY <2>16, HungUpKeeps
  <2> QED
    BY <1>3, <2>1, <2>2, <2>3, <2>4, <2>5, <2>6, <2>7, <2>8, <2>9, <2>10, <2>11, <2>12,
       <2>13, <2>14, <2>15, <2>16 DEF Resume
<1>4. ASSUME NEW t \in Tasks, Deadline(t)
      PROVE  IInv'
  BY <1>4, FailuresKeep DEF Deadline
<1>5. ASSUME NEW t \in Tasks, CancelCall(t) \/ Linked(t) \/ LinkFails(t) \/ PollWake(t)
      PROVE  IInv'
  BY <1>5, CancelCallKeeps, LinkedKeeps, LinkFailsKeeps, PollWakeKeeps
<1>6. CASE HandBack
  BY <1>6, HandBackKeeps
<1>7. CASE TeardownStarts \/ TeardownEnds
  BY <1>7, TeardownKeeps
<1>8. CASE Notified
  BY <1>8, NotifiedKeeps
<1>9. CASE Disconnected
  BY <1>9, DisconnectedKeeps
<1>10. CASE Environment
  <2>1. CASE \E t \in Tasks : NativeLands(t) \/ NativeCompletes(t) \/ NativeFails(t)
    BY <2>1, NativeKeeps
  <2>2. CASE OrphanEnds
    BY <2>2, OrphanEndsKeeps
  <2>3. CASE ChargerHandles \/ ChargerMisbehaves
    BY <2>3, ChargerKeeps
  <2>4. CASE Panel \/ Unsolicited \/ NoiseArrives \/ LinkLoss
    BY <2>4, RadioKeeps
  <2>5. CASE Expire
    BY <2>5, ExpireKeeps
  <2> QED
    BY <1>10, <2>1, <2>2, <2>3, <2>4, <2>5 DEF Environment
<1> QED
  BY <1>1, <1>2, <1>3, <1>4, <1>5, <1>6, <1>7, <1>8, <1>9, <1>10 DEF Next

(* The inductive invariant holds in every reachable state. *)
THEOREM Invariance == Spec => []IInv
<1>1. Init => IInv
  BY InitEstablishes
<1>2. IInv /\ [Next]_vars => IInv'
  BY NextPreserves
<1> QED
  BY <1>1, <1>2, PTL DEF Spec

(* Every variable keeps its type: the session object, the tasks' places, the slot and
   its heap, the native writes and the frames in the air. *)
THEOREM TypeCorrect == Spec => []TypeOK
<1>1. IInv => TypeOK
  BY DEF IInv
<1> QED
  BY <1>1, Invariance, PTL

(* At most one application write is outstanding in the native stack, those left behind
   by deadlines and cancellations included, across every loss of the link,
   disconnection and reconnection: what the poison gate of connect() is for. *)
THEOREM NoOverlap == Spec => []NoOverlappingWrites
<1>1. IInv => NoOverlappingWrites
  <2> SUFFICES ASSUME IInv PROVE NoOverlappingWrites
    OBVIOUS
  <2>1. \A t \in Outstanding : t \in Tasks /\ task[t].pc = "writing"
    BY DEF Outstanding, IInv, SlotInv, WriterWrites
  <2>2. \A t \in Outstanding : s.pending.owner = t
    BY <2>1, TransactingOwns DEF Transacting
  <2>3. /\ \A o, p \in orphans : o = p
        /\ orphans # {} => Outstanding = {}
    BY <2>1 DEF IInv, SlotInv, OrphansHeld
  <2> QED
    BY <2>2, <2>3 DEF NoOverlappingWrites
<1> QED
  BY <1>1, Invariance, PTL

(* The response future belongs to the owner of the transaction slot, and every task
   that writes or awaits an answer is that owner: _request_locked never meets the
   future of another request, and nobody awaits one that was dropped. *)
THEOREM PendingOwned == Spec => []PendingBelongsToOwner
<1>1. IInv => PendingBelongsToOwner
  BY DEF IInv, SlotInv
<1> QED
  BY <1>1, Invariance, PTL

(* A session whose client is poisoned is never readable or controllable, whichever
   connect, disconnect, teardown or callback was under way when it was poisoned. *)
THEOREM PoisonedClientUnusable == Spec => []PoisonedUnusable
<1>1. IInv => PoisonedUnusable
  BY DEF IInv
<1> QED
  BY <1>1, Invariance, PTL
=============================================================================
