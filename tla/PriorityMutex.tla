---------------------------- MODULE PriorityMutex ----------------------------
(***************************************************************************)
(* What PrioritySerializer promises to the tasks that share one charger    *)
(* link: at most one task owns the transaction slot, a task that finds it  *)
(* taken is queued, and an owner that leaves passes the slot straight to   *)
(* the foremost queued task, so that nobody can barge in between.          *)
(*                                                                         *)
(* PrioritySerializer.tla (the code's heap of futures) is shown to         *)
(* implement this module, and ChargerSession.tla is built on it.           *)
(***************************************************************************)
EXTENDS Naturals

CONSTANTS Tasks,        \* asyncio tasks that use the serializer
          Priorities,   \* priority numbers; the lowest goes first
          Tickets,      \* order of arrival among the queued tasks
          Free,         \* value of holder, no task: nobody owns the slot
          Detached      \* value of holder, no task: a detached release() owes it

VARIABLES holder, queue
mutexVars == <<holder, queue>>

Entry == [task : Tasks, priority : Priorities, ticket : Tickets]

MutexTypeOK == /\ holder \in Tasks \cup {Free, Detached}
               /\ queue \subseteq Entry

MutexInit == holder = Free /\ queue = {}

Before(v, w) == \/ v.priority < w.priority
                \/ v.priority = w.priority /\ v.ticket < w.ticket

Foremost(w, q) == w \in q /\ \A v \in q \ {w} : Before(w, v)

Waiting(t) == \E w \in queue : w.task = t

-----------------------------------------------------------------------------
(* The slot leaves its owner: to the foremost waiter, or back to nobody. *)
Handover ==
    \/ /\ queue = {}
       /\ holder' = Free
       /\ UNCHANGED queue
    \/ \E w \in queue : /\ Foremost(w, queue)
                        /\ holder' = w.task
                        /\ queue' = queue \ {w}

Acquire(t) == /\ holder = Free /\ queue = {}
              /\ holder' = t
              /\ UNCHANGED queue

Enqueue(t, p, n) == /\ holder # Free \/ queue # {}
                    /\ holder # t /\ ~Waiting(t)
                    /\ \A w \in queue : w.ticket < n
                    /\ queue' = queue \cup {[task |-> t, priority |-> p, ticket |-> n]}
                    /\ UNCHANGED holder

Release(t) == holder = t /\ Handover

(* An owner that leaves and asks again at once goes behind who was waiting. *)
Requeue(t, p, n) ==
    /\ holder = t /\ ~Waiting(t)
    /\ \A v \in queue : v.ticket < n
    /\ \E w \in queue :
          /\ Foremost(w, queue)
          /\ holder' = w.task
          /\ queue' = (queue \ {w}) \cup {[task |-> t, priority |-> p, ticket |-> n]}

Withdraw(t) == /\ Waiting(t)
               /\ queue' = {w \in queue : w.task # t}
               /\ UNCHANGED holder

(* A task cancelled just as it was granted leaves a release() behind it. *)
Abandon(t) == holder = t /\ holder' = Detached /\ UNCHANGED queue

HandBack == holder = Detached /\ Handover

MutexNext ==
    \/ \E t \in Tasks : \/ Acquire(t)
                        \/ \E p \in Priorities, n \in Tickets : Enqueue(t, p, n) \/ Requeue(t, p, n)
                        \/ Release(t)
                        \/ Withdraw(t)
                        \/ Abandon(t)
    \/ HandBack

MutexSpec == MutexInit /\ [][MutexNext]_mutexVars
=============================================================================
