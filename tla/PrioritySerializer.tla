------------------------- MODULE PrioritySerializer -------------------------
(***************************************************************************)
(* hwcdq/serialization.py: the heap of futures that lets one application   *)
(* transaction at a time onto the link.                                    *)
(*                                                                         *)
(* The asyncio.Lock of the class is never contended (no body it guards     *)
(* awaits anything), so acquire up to its await, and release, are single   *)
(* steps.  What interleaves is what happens around the future: it may be   *)
(* completed long before its task resumes, and the task may be cancelled   *)
(* at any moment of that interval.                                         *)
(***************************************************************************)
EXTENDS Naturals, FiniteSets

CONSTANTS Tasks,         \* asyncio tasks
          Priorities,    \* the numbers callers pass (0 stop, 10 normal, 50 poll)
          MaxSequence    \* bound on the sequence numbers in the heap at once

ASSUME SerializerAssumption ==
    /\ Priorities \subseteq Nat
    /\ MaxSequence \in Nat
    /\ "free" \notin Tasks /\ "detached" \notin Tasks

VARIABLES active,      \* self._active
          waiters,     \* self._waiters, the heap, cancelled futures included
          pc,          \* where each task stands in slot()
          handbacks    \* detached release() tasks not yet run

vars == <<active, waiters, pc, handbacks>>

Sequences == 0 .. MaxSequence - 1
Waiter == [task : Tasks, priority : Priorities, sequence : Sequences,
           cancelled : BOOLEAN]
Places == {"idle", "waiting", "granted", "holding"}

(* Type invariant: every variable stays in the set its declaration names. *)
TypeOK == /\ active \in BOOLEAN
          /\ waiters \subseteq Waiter
          /\ pc \in [Tasks -> Places]
          /\ handbacks \in Nat

Init == /\ active = FALSE
        /\ waiters = {}
        /\ pc = [t \in Tasks |-> "idle"]
        /\ handbacks = 0

-----------------------------------------------------------------------------
(* Variants named after a bug, here and below, are not part of Spec: each is a
   plausible slip in the definition that follows it, and shows that the
   properties notice it. *)

(* Slip: among equals the last to arrive is popped first. *)
PopsBeforeLastIn(v, w) == \/ v.priority < w.priority
                          \/ v.priority = w.priority /\ v.sequence > w.sequence

(* The dataclass order of _Waiter: the future is not compared. *)
PopsBefore(v, w) == \/ v.priority < w.priority
                    \/ v.priority = w.priority /\ v.sequence < w.sequence

Live == {w \in waiters : ~w.cancelled}

(* Slip: arrival alone decides, the priority is ignored. *)
PassOnByArrival(places) ==
    \/ /\ Live = {}
       /\ waiters' = {}
       /\ active' = FALSE
       /\ pc' = places
    \/ \E w \in Live :
          /\ \A v \in Live : w.sequence <= v.sequence
          /\ waiters' = {v \in waiters : w.sequence < v.sequence}
          /\ pc' = [places EXCEPT ![w.task] = "granted"]
          /\ UNCHANGED active

(* release(): pop, skipping completed futures, until one can be granted. *)
PassOn(places) ==
    \/ /\ Live = {}
       /\ waiters' = {}
       /\ active' = FALSE
       /\ pc' = places
    \/ \E w \in Live :
          /\ \A v \in Live \ {w} : PopsBefore(w, v)
          /\ waiters' = {v \in waiters : PopsBefore(w, v)}
          /\ pc' = [places EXCEPT ![w.task] = "granted"]
          /\ UNCHANGED active

-----------------------------------------------------------------------------
(* Slip: the fast path looks at the heap only. *)
AcquireNowBargingIn(t) ==
    /\ pc[t] = "idle"
    /\ waiters = {}
    /\ active' = TRUE
    /\ pc' = [pc EXCEPT ![t] = "holding"]
    /\ UNCHANGED <<waiters, handbacks>>

AcquireNow(t) ==
    /\ pc[t] = "idle"
    /\ ~active /\ waiters = {}
    /\ active' = TRUE
    /\ pc' = [pc EXCEPT ![t] = "holding"]
    /\ UNCHANGED <<waiters, handbacks>>

(* next(self._sequence).  Sequence numbers are compared only between entries of
   the heap, so one above those in the heap stands for the next: MaxSequence
   bounds the heap, and waiters may arrive for ever. *)
NextInHeap(n) == /\ \A w \in waiters : w.sequence < n
                 /\ n = 0 \/ \E w \in waiters : n = w.sequence + 1

Wait(t, p, n) ==
    /\ pc[t] = "idle"
    /\ active \/ waiters # {}
    /\ NextInHeap(n)
    /\ waiters' = waiters \cup {[task |-> t, priority |-> p, sequence |-> n,
                                 cancelled |-> FALSE]}
    /\ pc' = [pc EXCEPT ![t] = "waiting"]
    /\ UNCHANGED <<active, handbacks>>

(* The waiting task resumes after its future was completed. *)
Resume(t) ==
    /\ pc[t] = "granted"
    /\ pc' = [pc EXCEPT ![t] = "holding"]
    /\ UNCHANGED <<active, waiters, handbacks>>

(* Slip: the cancelled future is left pending in the heap. *)
CancelWaitLeavingFuture(t) ==
    /\ pc[t] = "waiting"
    /\ pc' = [pc EXCEPT ![t] = "idle"]
    /\ UNCHANGED <<active, waiters, handbacks>>

(* Cancelled while still queued: the future is cancelled and stays in the heap. *)
CancelWait(t) ==
    /\ pc[t] = "waiting"
    /\ waiters' = {[w EXCEPT !.cancelled = @ \/ w.task = t] : w \in waiters}
    /\ pc' = [pc EXCEPT ![t] = "idle"]
    /\ UNCHANGED <<active, handbacks>>

(* Slip: the grant is dropped with the task. *)
CancelGrantWithoutHandback(t) ==
    /\ pc[t] = "granted"
    /\ pc' = [pc EXCEPT ![t] = "idle"]
    /\ UNCHANGED <<active, waiters, handbacks>>

(* Slip: the cancelled task also marks the serializer free at once. *)
CancelGrantClearingActive(t) ==
    /\ pc[t] = "granted"
    /\ pc' = [pc EXCEPT ![t] = "idle"]
    /\ active' = FALSE
    /\ handbacks' = handbacks + 1
    /\ UNCHANGED waiters

(* Cancelled after the grant and before resuming: create_task(self.release()). *)
CancelGrant(t) ==
    /\ pc[t] = "granted"
    /\ pc' = [pc EXCEPT ![t] = "idle"]
    /\ handbacks' = handbacks + 1
    /\ UNCHANGED <<active, waiters>>

(* slot()'s finally clause. *)
Release(t) ==
    /\ pc[t] = "holding" /\ active
    /\ PassOn([pc EXCEPT ![t] = "idle"])
    /\ UNCHANGED handbacks

(* Slip: release() is run although no cancelled task owes it. *)
RunHandbackUnowed ==
    /\ active
    /\ handbacks' = handbacks - 1
    /\ PassOn(pc)

RunHandback ==
    /\ handbacks > 0 /\ active
    /\ handbacks' = handbacks - 1
    /\ PassOn(pc)

Next == \/ \E t \in Tasks : \/ AcquireNow(t)
                            \/ \E p \in Priorities, n \in Sequences : Wait(t, p, n)
                            \/ Resume(t)
                            \/ CancelWait(t)
                            \/ CancelGrant(t)
                            \/ Release(t)
        \/ RunHandback

(* The event loop runs what is ready; a transaction ends (it is deadline-bound). *)
Fairness == /\ \A t \in Tasks : WF_vars(Resume(t)) /\ WF_vars(Release(t))
            /\ WF_vars(RunHandback)

Spec == Init /\ [][Next]_vars
FairSpec == Spec /\ Fairness

-----------------------------------------------------------------------------
Owners == {t \in Tasks : pc[t] \in {"granted", "holding"}}

(* One transaction owner at a time, counting a grant its task has not yet seen
   and a release() still owed for a cancelled one. *)
SingleOwner == /\ \A t, u \in Owners : t = u
               /\ handbacks <= 1
               /\ handbacks = 1 => Owners = {}

(* release() never raises "serializer released without an owner": whoever is
   about to release finds the serializer active. *)
NeverReleasedWithoutOwner ==
    (\E t \in Tasks : pc[t] = "holding") \/ handbacks > 0 => active

(* The serializer is not wedged: while a task waits in the heap, some other task
   owns the slot or a detached release() is about to pass it on. *)
NotWedged == Live # {} => Owners # {} \/ handbacks > 0

(* Every grant goes to a task of the foremost class: a queued stop (the lowest
   number) is never passed over for a poll, and arrival decides among equals. *)
GrantsForemost ==
    [][\A t \in Tasks : pc[t] = "waiting" /\ pc'[t] = "granted" =>
          \E w \in Live : w.task = t /\ \A v \in Live : v = w \/ PopsBefore(w, v)]_vars

Queued(t, p) == \E w \in Live : w.task = t /\ w.priority = p

JumpsQueue(p) == \E w \in waiters' \ waiters : ~w.cancelled /\ w.priority < p

(* A queued task leaves the queue, granted or cancelled, unless more urgent waiters
   keep arriving for ever: those starve it, because release() looks at nothing but
   the priority.  The foremost class is served whatever arrives.  So no grant is
   lost between release(), a cancelled waiter and the detached release(). *)
WaiterServed ==
    \A t \in Tasks, p \in Priorities :
        \/ Queued(t, p) ~> ~Queued(t, p)
        \/ []<><<JumpsQueue(p)>>_vars

-----------------------------------------------------------------------------
(* The abstract mutex this heap implements. *)
Free == "free"
Detached == "detached"

Holder == IF Owners # {} THEN CHOOSE t \in Tasks : t \in Owners
          ELSE IF handbacks > 0 THEN Detached ELSE Free

Queue == {[task |-> w.task, priority |-> w.priority, ticket |-> w.sequence] : w \in Live}

Mutex == INSTANCE PriorityMutex WITH
            Tickets <- Sequences, holder <- Holder, queue <- Queue

(* The heap, with its cancelled entries and its detached releases, implements
   the direct handover of PriorityMutex. *)
ImplementsMutex == Mutex!MutexSpec
=============================================================================
