--------------------------- MODULE ChargerSession ---------------------------
(***************************************************************************)
(* hwcdq/session.py: one ChargerSession object, the asyncio tasks that     *)
(* call it, its maintenance poll, its poisoned-client teardown, the native *)
(* BLE client below it and the charger at the other end.                   *)
(*                                                                         *)
(* An action is what one task or callback does between two awaits.  The    *)
(* serializer is used through its abstract specification (PriorityMutex),  *)
(* which PrioritySerializer.tla is shown to implement.                     *)
(***************************************************************************)
EXTENDS SessionData, Sequences

CONSTANTS Callers,       \* application tasks that call the session
          Operations,    \* the public methods the callers use in an instance
          Confirmed,     \* target pairs an operator may confirm for Start
          AuthChunks,    \* writes the password frame is split into
          Faults,        \* kinds of faults the environment may inject
          ConnectPolicy, \* when callers call connect(), see MayConnect
          MaxCalls,      \* bound: method calls and poll cycles started
          MaxFaults      \* bound: faults injected

ASSUME SessionAssumption ==
    /\ Tasks = Callers \cup Pollers
    /\ Callers \cap Pollers = {}
    /\ "free" \notin Tasks /\ "detached" \notin Tasks
    /\ Confirmed \subseteq [Setters -> Levels]
    /\ AuthChunks \in Nat \ {0}
    /\ ConnectPolicy \in {"sequential", "gated"}
    /\ MaxCalls \in Nat /\ MaxFaults \in Nat

VARIABLES
    s,          \* the session object's fields
    task,       \* what each task is executing and where it is suspended
    holder, queue,   \* the transaction serializer
    native,     \* each task's current transport.write(): its own asyncio task
    orphans,    \* cancellation-resistant writes left behind
    link,       \* the native client: connected, its identity, its callback
    lost,       \* native disconnect notices not yet delivered
    toDev, fromDev,  \* request frames in the air; notifications not yet delivered
    dev,        \* the charger
    heard,      \* auxiliary: its last two requests, the targets it last reported
    calls, faults    \* how much of the bounds is used

mutex == <<holder, queue>>
air == <<toDev, fromDev>>
world == <<link, lost, toDev, fromDev, dev, heard>>
budget == <<calls, faults>>
vars == <<s, task, holder, queue, native, orphans, link, lost, toDev, fromDev, dev,
          heard, calls, faults>>

Mutex == INSTANCE PriorityMutex WITH
            Priorities <- {0, 10}, Tickets <- Nat, Free <- "free", Detached <- "detached"

-----------------------------------------------------------------------------
(* Slip: Start re-reads the telemetry twice and the configuration not at all. *)
ProgramWithoutConfig(op) ==
    CASE op = "connect" -> <<"check_password", "get_firmware", "get_serial",
                             "get_config", "get_telemetry">>
      [] op \in Setters -> <<op, "get_config">>
      [] op = "start" -> <<"get_telemetry", "get_telemetry", "output_on", "get_telemetry">>
      [] op = "stop" -> <<"output_off", "get_telemetry">>
      [] op = "refresh_config" -> <<"get_config">>
      [] op = "refresh_telemetry" -> <<"get_telemetry">>
      [] OTHER -> <<>>

(* The requests each method makes, in order. *)
Program(op) ==
    CASE op = "connect" -> <<"check_password", "get_firmware", "get_serial",
                             "get_config", "get_telemetry">>
      [] op \in Setters -> <<op, "get_config">>
      [] op = "start" -> <<"get_config", "get_telemetry", "output_on", "get_telemetry">>
      [] op = "stop" -> <<"output_off", "get_telemetry">>
      [] op = "refresh_config" -> <<"get_config">>
      [] op = "refresh_telemetry" -> <<"get_telemetry">>
      [] OTHER -> <<>>

Priority(op) == IF op = "stop" THEN 0 ELSE 10
Chunks(frame) == IF frame = "check_password" THEN AuthChunks ELSE 1

AllOperations == {"connect", "disconnect", "start", "stop", "refresh_config",
                  "refresh_telemetry", "start_polling", "stop_polling"} \cup Setters
Places == {"idle", "queued", "writing", "replying", "sleeping", "quieting",
           "linking", "discovering", "subscribing", "settling", "cleaning",
           "tearing", "joining", "unsubscribing", "hanging_up"}

TaskState == [op : AllOperations \cup {"none"}, pc : Places, step : Nat, chunk : Nat,
              want : Targets, ack : {OFF, ON, Unknown}, gen : Nat,
              cancel : BOOLEAN, awaits : Tasks \cup {None}, joins : Tasks \cup {None},
              failing : BOOLEAN]

Idle == [op |-> "none", pc |-> "idle", step |-> 0, chunk |-> 0, want |-> NoTarget,
         ack |-> Unknown, gen |-> 0, cancel |-> FALSE, awaits |-> None, joins |-> None,
         failing |-> FALSE]
Sleeping == [Idle EXCEPT !.pc = "sleeping"]

Busy(t) == task[t].pc # "idle"
Request(t) == Program(task[t].op)[task[t].step]

(* Writes: "busy" in the native stack, "landed" on the radio, then "done" or
   "failed"; `on` is the client the write was issued to. *)
NoWrite == [at |-> "none", on |-> 0]
NativeWrite == [at : {"none", "busy", "landed", "done", "failed"}, on : Nat]
OnAir(frame, want, id) == [op |-> frame, on |-> id,
    want |-> IF frame \in Mutations THEN want ELSE NoTarget]
AirFrame == [op : Requests, on : Nat, want : Targets]
Orphan == [frame : AirFrame, final : BOOLEAN]

(* Slip: an output command is recorded under its frame, not as "output". *)
OutcomeByFrame(frame, want) ==
    [operation |-> frame,
     value |-> IF frame \in Setters THEN want[frame] ELSE IF frame = "output_on" THEN ON ELSE OFF]

OutcomeOf(frame, want) ==
    IF frame \in Setters THEN [operation |-> frame, value |-> want[frame]]
    ELSE [operation |-> "output", value |-> IF frame = "output_on" THEN ON ELSE OFF]

Inject(kind) == kind \in Faults /\ faults < MaxFaults /\ faults' = faults + 1

-----------------------------------------------------------------------------
Init ==
    /\ s = NewSession
    /\ task = [t \in Tasks |-> Idle]
    /\ Mutex!MutexInit
    /\ native = [t \in Tasks |-> NoWrite]
    /\ orphans = {}
    /\ link = [up |-> FALSE, id |-> 0, handler |-> 0, notify |-> FALSE]
    /\ lost = 0
    /\ toDev = <<>> /\ fromDev = <<>>
    /\ dev \in [output : {OFF, ON}, target : Confirmed, ceiling : Levels]
    /\ heard = [last |-> <<>>, reported |-> NoTarget]
    /\ calls = 0 /\ faults = 0

-----------------------------------------------------------------------------
(* How a task gives up, goes on, or ends. *)

(* Slip: the poll's reference is dropped, and its flag left to end it. *)
CancelPollByFlag(ts, t) == ts

(* A poll that must not continue is cancelled, unless it is the current task. *)
CancelPoll(ts, t) ==
    IF s.poller \in Tasks \ {t} /\ ts[s.poller].pc # "idle"
    THEN [ts EXCEPT ![s.poller].cancel = TRUE] ELSE ts

(* The end of connect()'s except clauses. *)
ConnectEnded(d, up, cancelled) ==
    [ForgetConnection(FailPending(d)) EXCEPT
        !.polling = FALSE, !.poller = None, !.connector = None,
        !.state = IF cancelled /\ ~up THEN "disconnected" ELSE "error"]

(* _cleanup_failed_connection: the teardown of a poisoned client is left to its
   own task; otherwise a live link is disconnected first. *)
ConnectUnwind(t, d, ts, up, cancelled) ==
    IF (d.poisoned /\ d.teardown # "none") \/ ~up
    THEN /\ s' = ConnectEnded(d, up, cancelled)
         /\ task' = [ts EXCEPT ![t] = Idle]
    ELSE /\ s' = [d EXCEPT !.expected = TRUE, !.polling = FALSE, !.poller = None]
         /\ task' = [ts EXCEPT ![t].pc = "cleaning", ![t].cancel = FALSE,
                               ![t].failing = ~cancelled]

GiveUp(t, d, ts, cancelled) ==
    IF task[t].op = "connect" THEN ConnectUnwind(t, d, ts, link.up, cancelled)
    ELSE s' = d /\ task' = [ts EXCEPT ![t] = Idle]

(* The last request of a transaction is over, for better or worse. *)
Leave(t, d, ts) ==
    /\ s' = d
    /\ task' = [ts EXCEPT ![t] = IF t \in Pollers THEN Sleeping ELSE Idle]

-----------------------------------------------------------------------------
(* Requests. *)

(* The guards at the top of _request_locked. *)
CanSend(d) == ~d.poisoned /\ d.topology /\ link.up

(* What a method checks again once it owns the slot. *)
Admitted(d, op, want, k) ==
    /\ ~d.poisoned
    /\ op = "connect" /\ k >= 4 => Readable(d, link.up, TRUE)
    /\ op \in Setters => ControlContext(d, link.up, want)
    /\ op = "start" => PrecheckStartContext(d, link.up)
    /\ op = "stop" => StopContext(d, link.up)
    /\ op \in {"refresh_config", "refresh_telemetry"} => Readable(d, link.up, FALSE)

(* _request_locked up to its first await: the future and the first write task. *)
Send(t, d, ts, op, want, k) ==
    /\ s' = [d EXCEPT !.pending = [owner |-> t, op |-> Opcode(Program(op)[k]),
                                reply |-> NoFrame]]
    /\ task' = [ts EXCEPT ![t].pc = "writing", ![t].op = op, ![t].want = want,
                          ![t].step = k, ![t].chunk = 1]
    /\ native' = [native EXCEPT ![t] = [at |-> "busy", on |-> link.id]]

NextTicket ==
    IF queue = {} THEN 1
    ELSE 1 + (CHOOSE w \in queue : \A v \in queue : v.ticket <= w.ticket).ticket

(* Entering slot(): at once when it is free, else queued.  A task that takes a free
   slot and is refused inside it leaves it again before anything else runs, so the
   slot is as it was. *)
Begin(t, d, ts, op, want, k) ==
    \/ /\ holder = "free" /\ queue = {}
       /\ IF Admitted(d, op, want, k) /\ CanSend(d)
          THEN Mutex!Acquire(t) /\ Send(t, d, ts, op, want, k)
          ELSE GiveUp(t, d, ts, FALSE) /\ UNCHANGED <<mutex, native>>
    \/ /\ Mutex!Enqueue(t, Priority(op), NextTicket)
       /\ s' = d
       /\ task' = [ts EXCEPT ![t].pc = "queued", ![t].op = op, ![t].want = want,
                             ![t].step = k]
       /\ UNCHANGED native

(* The next request of the same transaction. *)
Continue(t, d, ts, k) ==
    IF CanSend(d)
    THEN Send(t, d, ts, task[t].op, task[t].want, k) /\ UNCHANGED mutex
    ELSE GiveUp(t, d, ts, FALSE) /\ Mutex!Release(t) /\ UNCHANGED native

(* connect() leaves one transaction and enters the next without awaiting. *)
NextTransaction(t, d, ts, k) ==
    IF queue = {} THEN Continue(t, d, ts, k)
    ELSE /\ Mutex!Requeue(t, 10, NextTicket)
         /\ s' = d
         /\ task' = [ts EXCEPT ![t].pc = "queued", ![t].step = k]
         /\ UNCHANGED native

(* A task that was granted the slot while queued resumes and checks again. *)
Granted(t) ==
    /\ task[t].pc = "queued" /\ holder = t /\ ~task[t].cancel
    /\ IF Admitted(s, task[t].op, task[t].want, task[t].step) /\ CanSend(s)
       THEN Send(t, s, task, task[t].op, task[t].want, task[t].step) /\ UNCHANGED mutex
       ELSE GiveUp(t, s, task, FALSE) /\ Mutex!Release(t) /\ UNCHANGED native
    /\ UNCHANGED <<orphans, world, budget>>

(* _request_locked's except and finally: the request was attempted and failed. *)
Failed(t, d, cancelled) ==
    LET marked == IF Request(t) \in Mutations
                  THEN MarkAmbiguous(d, OutcomeOf(Request(t), task[t].want)) ELSE d
        poisoning == d.poisoned /\ ~s.poisoned
        ts == IF poisoning THEN CancelPoll(task, t) ELSE task
    IN /\ GiveUp(t, [marked EXCEPT !.pending = NoPending], ts, cancelled)
       /\ Mutex!Release(t)
       /\ native' = [native EXCEPT ![t] = NoWrite]

-----------------------------------------------------------------------------
(* Resuming from a native write. *)
WriteDone(t) ==
    /\ task[t].pc = "writing" /\ native[t].at = "done" /\ ~task[t].cancel
    /\ IF task[t].chunk < Chunks(Request(t))
       THEN \/ /\ task' = [task EXCEPT ![t].chunk = @ + 1]
               /\ native' = [native EXCEPT ![t] = [at |-> "busy", on |-> link.id]]
               /\ UNCHANGED <<s, mutex>>
            \/ /\ "late_write" \in Faults      \* deadline expired between chunks
               /\ Failed(t, PoisonCurrentClient(s), FALSE)
       ELSE /\ task' = [task EXCEPT ![t].pc = "replying"]
            /\ native' = [native EXCEPT ![t] = NoWrite]
            /\ UNCHANGED <<s, mutex>>
    /\ UNCHANGED <<orphans, world, budget>>

WriteFailed(t) ==
    /\ task[t].pc = "writing" /\ native[t].at = "failed" /\ ~task[t].cancel
    /\ Failed(t, PoisonCurrentClient(s), FALSE)
    /\ UNCHANGED <<orphans, world, budget>>

(* The native write resists cancellation and is left behind as an orphan. *)
OrphanOf(t) == [frame |-> OnAir(Request(t), task[t].want, native[t].on),
                final |-> native[t].at = "busy" /\ task[t].chunk = Chunks(Request(t))]

(* Slip: the deadline starts to run when the native write has landed. *)
WriteTimeoutOnceLanded(t) ==
    /\ task[t].pc = "writing" /\ native[t].at = "landed" /\ ~task[t].cancel
    /\ "late_write" \in Faults
    /\ orphans' = orphans \cup {OrphanOf(t)}
    /\ Failed(t, PoisonCurrentClient(s), FALSE)
    /\ UNCHANGED <<world, budget>>

(* Slip: the timed-out write is abandoned and the client kept in use. *)
WriteTimeoutWithoutPoison(t) ==
    /\ task[t].pc = "writing" /\ native[t].at \in {"busy", "landed"} /\ ~task[t].cancel
    /\ "late_write" \in Faults
    /\ orphans' = orphans \cup {OrphanOf(t)}
    /\ Failed(t, s, FALSE)
    /\ UNCHANGED <<world, budget>>

WriteTimeout(t) ==
    /\ task[t].pc = "writing" /\ native[t].at \in {"busy", "landed"} /\ ~task[t].cancel
    /\ "late_write" \in Faults
    /\ orphans' = orphans \cup {OrphanOf(t)}
    /\ Failed(t, PoisonCurrentClient(s), FALSE)
    /\ UNCHANGED <<world, budget>>

(* Nothing answered within the response deadline. *)
ReplyTimeout(t) ==
    /\ task[t].pc = "replying" /\ s.pending.reply.kind = "none" /\ ~task[t].cancel
    /\ "late_reply" \in Faults \/ (toDev = <<>> /\ fromDev = <<>>)
    /\ Failed(t, PoisonCurrentClient(s), FALSE)
    /\ UNCHANGED <<orphans, world, budget>>

-----------------------------------------------------------------------------
(* Slip: connect() trusts that nothing happened while it was suspended. *)
CurrentAlways(t) == TRUE

(* _ensure_connect_is_current *)
Current(t) == task[t].gen = s.generation

(* Resuming from a response. *)
Answered(t) == task[t].pc = "replying" /\ s.pending.reply.kind # "none" /\ ~task[t].cancel
Taken == [s EXCEPT !.pending = NoPending]

ReplyFailed(t) ==
    /\ Answered(t) /\ s.pending.reply.kind = "failed"
    /\ Failed(t, s, FALSE)
    /\ UNCHANGED <<orphans, world, budget>>

SetupReply(t) ==
    /\ Answered(t) /\ s.pending.reply.kind = "frame" /\ task[t].op = "connect"
    /\ LET r == s.pending.reply
           done == task[t].step = Len(Program("connect"))
           d == IF task[t].step = 1
                THEN [Taken EXCEPT !.authenticated = TRUE, !.state = "loading"] ELSE Taken
       IN IF r.op \in {"get_config", "get_telemetry"} /\ ~r.layout
          THEN GiveUp(t, Taken, task, FALSE) /\ Mutex!Release(t) /\ UNCHANGED native
          ELSE IF ~Current(t)
          THEN GiveUp(t, Taken, task, TRUE) /\ Mutex!Release(t) /\ UNCHANGED native
          ELSE IF task[t].step = 1 /\ r.ack # ON
          THEN GiveUp(t, Taken, task, FALSE) /\ Mutex!Release(t) /\ UNCHANGED native
          ELSE IF done
          THEN /\ Leave(t, [d EXCEPT !.state = "ready", !.connector = None], task)
               /\ Mutex!Release(t) /\ UNCHANGED native
          ELSE IF /\ task[t].step >= 3 /\ ~Readable(d, link.up, TRUE)
          THEN GiveUp(t, d, task, FALSE) /\ Mutex!Release(t) /\ UNCHANGED native
          ELSE NextTransaction(t, d, task, task[t].step + 1)
    /\ UNCHANGED <<orphans, world, budget>>

(* The last readback compared with what was asked: ACK and effect must agree. *)
Applied(t, r) ==
    CASE task[t].op \in Setters -> r.target[task[t].op] = task[t].want[task[t].op]
      [] task[t].op = "start" -> r.output = ON
      [] task[t].op = "stop" -> r.output = OFF
      [] OTHER -> TRUE

Confirm(t, r) ==
    IF ~(task[t].ack = ON /\ Applied(t, r)) THEN Taken
    ELSE CASE task[t].op \in Setters -> ResolveAmbiguity(Taken, task[t].op, Nat)
           [] task[t].op = "start" -> ResolveAmbiguity(Taken, "output", {ON})
           [] task[t].op = "stop" -> ResolveAmbiguity(Taken, "output", {OFF})
           [] OTHER -> Taken

OperationReply(t) ==
    /\ Answered(t) /\ s.pending.reply.kind = "frame" /\ task[t].op # "connect"
    /\ LET r == s.pending.reply
           k == task[t].step
           last == k = Len(Program(task[t].op))
           acked == [task EXCEPT ![t].ack = r.ack]
       IN IF Request(t) \in Mutations
          THEN Continue(t, MarkAmbiguous(Taken, OutcomeOf(Request(t), task[t].want)),
                        acked, k + 1)
          ELSE IF ~r.layout
          THEN GiveUp(t, Taken, task, FALSE) /\ Mutex!Release(t) /\ UNCHANGED native
          ELSE IF last
          THEN Leave(t, Confirm(t, r), task) /\ Mutex!Release(t) /\ UNCHANGED native
          ELSE IF k = 2 /\ ~AtomicStartContext(Taken, link.up, task[t].want)
          THEN GiveUp(t, Taken, task, FALSE) /\ Mutex!Release(t) /\ UNCHANGED native
          ELSE Continue(t, Taken, task, k + 1)
    /\ UNCHANGED <<orphans, world, budget>>

-----------------------------------------------------------------------------
(* Cancellation.  cancel() only flags the task; what it awaits is unwound when it
   next runs.  A cancelled waiter leaves the heap at once. *)
CancelTask(ts, t) ==
    /\ task' = [ts EXCEPT ![t].cancel = TRUE]
    /\ IF task[t].pc = "queued" /\ Mutex!Waiting(t) THEN Mutex!Withdraw(t)
       ELSE UNCHANGED mutex

CancelCall(t) ==
    /\ t \in Callers /\ ~task[t].cancel
    /\ task[t].op # "disconnect" /\ task[t].pc \notin {"idle", "quieting"}
    /\ Inject("cancel")
    /\ CancelTask(task, t)
    /\ UNCHANGED <<s, native, orphans, world, calls>>

UnwindQueued(t) ==
    /\ task[t].cancel /\ task[t].pc = "queued"
    /\ IF holder = t THEN Mutex!Abandon(t) ELSE UNCHANGED mutex
    /\ GiveUp(t, s, task, TRUE)
    /\ UNCHANGED <<native, orphans, world, budget>>

UnwindWrite(t) ==
    /\ task[t].cancel /\ task[t].pc = "writing"
    /\ orphans' = orphans \cup (IF native[t].at \in {"busy", "landed"}
                                THEN {OrphanOf(t)} ELSE {})
    /\ Failed(t, PoisonCurrentClient(s), TRUE)
    /\ UNCHANGED <<world, budget>>

(* Slip: cancellation skips the cleanup of the pending response. *)
UnwindReplyKeepingPending(t) ==
    /\ task[t].cancel /\ task[t].pc = "replying"
    /\ GiveUp(t, s, task, TRUE) /\ Mutex!Release(t)
    /\ UNCHANGED <<native, orphans, world, budget>>

UnwindReply(t) ==
    /\ task[t].cancel /\ task[t].pc = "replying"
    /\ Failed(t, s, TRUE)
    /\ UNCHANGED <<orphans, world, budget>>

UnwindSleep(t) ==
    /\ task[t].cancel /\ task[t].pc = "sleeping"
    /\ task' = [task EXCEPT ![t] = Idle]
    /\ UNCHANGED <<s, mutex, native, orphans, world, budget>>

UnwindSetup(t) ==
    /\ task[t].cancel
    /\ task[t].pc \in {"linking", "discovering", "subscribing", "settling"}
    /\ ConnectUnwind(t, s, task, link.up, TRUE)
    /\ link' = IF task[t].pc = "linking" THEN [link EXCEPT !.handler = 0] ELSE link
    /\ UNCHANGED <<mutex, native, orphans, lost, air, dev, heard, budget>>

(* The detached release() of a task cancelled between grant and resumption. *)
HandBack ==
    /\ Mutex!HandBack
    /\ UNCHANGED <<s, task, native, orphans, world, budget>>

-----------------------------------------------------------------------------
(* The methods of the session up to their first await.  A call its guards reject
   at once changes nothing and is not an action. *)
Calling(t, op) ==
    /\ t \in Callers /\ op \in Operations /\ task[t].pc = "idle"
    /\ \A u \in Tasks : task[u].joins # t
    /\ calls < MaxCalls /\ calls' = calls + 1

CallRead(t, op) ==
    /\ op \in {"refresh_config", "refresh_telemetry"} /\ Calling(t, op)
    /\ Readable(s, link.up, FALSE)
    /\ Begin(t, s, task, op, NoTarget, 1)
    /\ UNCHANGED <<orphans, world, faults>>

CallSetter(t, op, v) ==
    /\ op \in Setters /\ Calling(t, op)
    /\ LET want == [NoTarget EXCEPT ![op] = v]
       IN ControlContext(s, link.up, want) /\ Begin(t, s, task, op, want, 1)
    /\ UNCHANGED <<orphans, world, faults>>

CallStart(t, confirmed) ==
    /\ Calling(t, "start")
    /\ PrecheckStartContext(s, link.up) /\ WithinLimits(s, confirmed)
    /\ Begin(t, s, task, "start", confirmed, 1)
    /\ UNCHANGED <<orphans, world, faults>>

(* stop_periodic_telemetry: the poll is cancelled and its end awaited. *)
PollLive == s.poller \in Tasks /\ task[s.poller].pc # "idle"
PollingOff == [s EXCEPT !.polling = FALSE, !.poller = None]
Quieting(t, op, d, joins) ==
    /\ s' = d
    /\ task' = [CancelPoll(task, t) EXCEPT
                  ![t] = [Idle EXCEPT !.op = op, !.pc = "quieting",
                                      !.awaits = s.poller, !.joins = joins]]
    /\ UNCHANGED <<mutex, native>>

CallStop(t) ==
    /\ Calling(t, "stop")
    /\ ~s.poisoned /\ StopContext(s, link.up)
    /\ IF PollLive THEN Quieting(t, "stop", PollingOff, None)
       ELSE Begin(t, PollingOff, task, "stop", NoTarget, 1)
    /\ UNCHANGED <<orphans, world, faults>>

CallStopPolling(t) ==
    /\ Calling(t, "stop_polling") /\ PollLive
    /\ Quieting(t, "stop_polling", PollingOff, None)
    /\ UNCHANGED <<orphans, world, faults>>

(* start_periodic_telemetry; a poll whose cancellation is still unwinding keeps
   its identity busy. *)
CallStartPolling(t) ==
    /\ Calling(t, "start_polling") /\ Readable(s, link.up, FALSE)
    /\ IF PollLive THEN s' = [s EXCEPT !.polling = TRUE] /\ UNCHANGED task
       ELSE \E p \in Pollers :
              /\ task[p].pc = "idle" /\ \A u \in Tasks : task[u].awaits # p
              /\ s' = [s EXCEPT !.polling = TRUE, !.poller = p]
              /\ task' = [task EXCEPT ![p] = Sleeping]
    /\ UNCHANGED <<mutex, native, orphans, world, faults>>

(* One cycle of _poll_maintenance after its quiet period.  The poll never queues:
   it skips its turn while the serializer is busy. *)
PollWake(p) ==
    /\ task[p].pc = "sleeping" /\ ~task[p].cancel
    /\ IF ~s.polling
       THEN /\ task' = [task EXCEPT ![p] = Idle]
            /\ UNCHANGED <<s, mutex, native, calls>>
       ELSE /\ holder = "free" /\ queue = {}
            /\ calls < MaxCalls /\ calls' = calls + 1
            /\ \E op \in {"refresh_config", "refresh_telemetry"} :
                  Begin(p, s, task, op, NoTarget, 1)
    /\ UNCHANGED <<orphans, world, faults>>

-----------------------------------------------------------------------------
(* connect(). *)

(* wait_until_reconnectable() would return True. *)
Reconnectable == s.teardown = "none" /\ ~link.up /\ orphans = {}

(* Callers never connect during a disconnect(); "gated" ones connect as the desktop
   application does, after disconnect() and wait_until_reconnectable(). *)
MayConnect ==
    /\ \A t \in Tasks : task[t].op # "disconnect"
    /\ ConnectPolicy = "gated" => s.state = "disconnected" /\ Reconnectable

(* Slip: a write left behind does not hold the gate. *)
PoisonGateIgnoringOrphans == s.poisoned /\ (link.up \/ s.teardown # "none")

(* What a poisoned client must have finished before the object may be reused. *)
PoisonGateShut == s.poisoned /\ (link.up \/ orphans # {} \/ s.teardown # "none")

CallConnect(t) ==
    /\ Calling(t, "connect")
    /\ s.state \in {"disconnected", "error"} /\ s.connector = None
    /\ MayConnect
    /\ LET d == ForgetConnection([s EXCEPT !.generation = @ + 1])
           started == [d EXCEPT !.poisoned = FALSE, !.connector = t, !.state = "connecting"]
           ts == [task EXCEPT ![t] = [Idle EXCEPT !.op = "connect", !.pc = "linking",
                                                  !.gen = d.generation]]
       IN IF PoisonGateShut
          THEN s' = d /\ UNCHANGED <<task, link>>
          ELSE IF link.up           \* transport.connect(): already connected
          THEN ConnectUnwind(t, started, ts, TRUE, FALSE) /\ UNCHANGED link
          ELSE /\ s' = started /\ task' = ts
               /\ link' = [link EXCEPT !.handler = d.generation]
    /\ UNCHANGED <<mutex, native, orphans, lost, air, dev, heard, faults>>

(* transport.connect() returns.  A transport may have swallowed a cancellation. *)
Linked(t) ==
    /\ task[t].pc = "linking"
    /\ ~task[t].cancel \/ "swallowed_cancel" \in Faults
    /\ link' = [up |-> TRUE, id |-> task[t].gen, handler |-> task[t].gen, notify |-> FALSE]
    /\ toDev' = <<>> /\ fromDev' = <<>>
    /\ LET ts == [task EXCEPT ![t].cancel = FALSE]
       IN IF Current(t)
          THEN /\ s' = [s EXCEPT !.state = "discovering"]
               /\ task' = [ts EXCEPT ![t].pc = "discovering"]
          ELSE ConnectUnwind(t, s, ts, TRUE, TRUE)
    /\ UNCHANGED <<mutex, native, orphans, lost, dev, heard, budget>>

LinkFails(t) ==
    /\ task[t].pc = "linking" /\ ~task[t].cancel
    /\ Inject("connect_fail")
    /\ link' = [link EXCEPT !.handler = 0]
    /\ ConnectUnwind(t, s, task, FALSE, FALSE)
    /\ UNCHANGED <<mutex, native, orphans, lost, air, dev, heard, calls>>

(* Discovery, then notifications: on a link already lost either call may fail, or
   may still return before the loss is seen. *)
Discovered(t) ==
    /\ task[t].pc = "discovering" /\ ~task[t].cancel
    /\ \/ /\ Current(t)
          /\ s' = [s EXCEPT !.topology = TRUE]
          /\ task' = [task EXCEPT ![t].pc = "subscribing"]
          /\ UNCHANGED faults
       \/ Current(t) /\ Inject("no_topology") /\ ConnectUnwind(t, s, task, link.up, FALSE)
       \/ ~Current(t) /\ ConnectUnwind(t, s, task, link.up, TRUE) /\ UNCHANGED faults
       \/ ~link.up /\ ConnectUnwind(t, s, task, FALSE, FALSE) /\ UNCHANGED faults
    /\ UNCHANGED <<mutex, native, orphans, world, calls>>

Subscribed(t) ==
    /\ task[t].pc = "subscribing" /\ ~task[t].cancel
    /\ \/ /\ link' = [link EXCEPT !.notify = TRUE]
          /\ IF Current(t) THEN task' = [task EXCEPT ![t].pc = "settling"] /\ UNCHANGED s
             ELSE ConnectUnwind(t, s, task, link.up, TRUE)
       \/ ~link.up /\ ConnectUnwind(t, s, task, FALSE, FALSE) /\ UNCHANGED link
    /\ UNCHANGED <<mutex, native, orphans, lost, air, dev, heard, budget>>

Settled(t) ==
    /\ task[t].pc = "settling" /\ ~task[t].cancel
    /\ IF Current(t)
       THEN Begin(t, [s EXCEPT !.state = "authenticating"], task, "connect", NoTarget, 1)
       ELSE ConnectUnwind(t, s, task, link.up, TRUE) /\ UNCHANGED <<mutex, native>>
    /\ UNCHANGED <<orphans, world, budget>>

(* The client `id` is gone: requests still in the air die with it. *)
HangUp(id) ==
    IF link.id = id
    THEN /\ link' = [link EXCEPT !.up = FALSE, !.handler = 0]
         /\ toDev' = <<>>
    ELSE UNCHANGED <<link, toDev>>

(* A native disconnect may fail and leave the link up. *)
HangUpOrStick(id) == \/ HangUp(id) /\ UNCHANGED faults
                     \/ Inject("stuck_link") /\ UNCHANGED <<link, toDev>>

Cleaned(t) ==
    /\ task[t].pc = "cleaning"
    /\ HangUpOrStick(link.id)
    /\ task' = [task EXCEPT ![t] = Idle]
    /\ LET d == [s EXCEPT !.expected = FALSE]
       IN s' = IF task[t].cancel         \* cancelled again: no state is published
               THEN [ForgetConnection(FailPending(d)) EXCEPT !.connector = None]
               ELSE ConnectEnded(d, link'.up, ~task[t].failing)
    /\ UNCHANGED <<mutex, native, orphans, lost, fromDev, dev, heard, calls>>

-----------------------------------------------------------------------------
(* disconnect(). *)
(* Slip: the native disconnect is taken to have worked. *)
DisconnectEndedAnyway(d, up) ==
    [ForgetConnection(FailPending(d)) EXCEPT
        !.expected = FALSE, !.state = "disconnected"]

DisconnectEnded(d, up) ==
    [ForgetConnection(FailPending(d)) EXCEPT
        !.expected = FALSE, !.state = IF up THEN "error" ELSE "disconnected"]

HangingUp(t, d, ts) ==
    IF link.up
    THEN /\ s' = [d EXCEPT !.expected = TRUE]
         /\ task' = [ts EXCEPT ![t].gen = link.id, ![t].pc =
                       IF ~d.poisoned /\ d.topology THEN "unsubscribing" ELSE "hanging_up"]
    ELSE /\ s' = DisconnectEnded(d, FALSE)
         /\ task' = [ts EXCEPT ![t] = Idle]

TearingDown(d) == d.poisoned /\ d.teardown # "none"

AfterJoin(t, d, ts) ==
    IF TearingDown(d) THEN s' = d /\ task' = [ts EXCEPT ![t].pc = "tearing"]
    ELSE HangingUp(t, d, ts)

(* The setup in flight when disconnect() was called is cancelled and awaited. *)
AfterQuiet(t, d, ts) ==
    LET c == ts[t].joins
    IN IF TearingDown(d)
       THEN s' = d /\ task' = [ts EXCEPT ![t].pc = "tearing"] /\ UNCHANGED mutex
       ELSE IF c # None /\ task[c].op = "connect"
       THEN s' = d /\ CancelTask([ts EXCEPT ![t].pc = "joining"], c)
       ELSE AfterJoin(t, d, [ts EXCEPT ![t].joins = None]) /\ UNCHANGED mutex

CallDisconnect(t) ==
    /\ Calling(t, "disconnect")
    /\ LET left == [s EXCEPT !.generation = @ + 1]
           d == [left EXCEPT !.state = "disconnecting", !.polling = FALSE, !.poller = None]
       IN IF s.state = "disconnected" /\ s.connector = None /\ ~link.up
          THEN s' = ForgetConnection(left) /\ UNCHANGED <<task, mutex, native>>
          ELSE IF PollLive THEN Quieting(t, "disconnect", d, s.connector)
          ELSE /\ AfterQuiet(t, d, [task EXCEPT ![t] =
                               [Idle EXCEPT !.op = "disconnect", !.joins = s.connector]])
               /\ UNCHANGED native
    /\ UNCHANGED <<orphans, world, faults>>

(* The cancelled poll has ended. *)
Quieted(t) ==
    /\ task[t].pc = "quieting" /\ task[task[t].awaits].pc = "idle"
    /\ LET ts == [task EXCEPT ![t].awaits = None]
       IN CASE task[t].op = "stop" -> Begin(t, s, ts, "stop", NoTarget, 1)
            [] task[t].op = "disconnect" -> AfterQuiet(t, s, ts) /\ UNCHANGED native
            [] OTHER -> /\ task' = [ts EXCEPT ![t] = Idle]
                        /\ UNCHANGED <<s, mutex, native>>
    /\ UNCHANGED <<orphans, world, budget>>

TornDown(t) ==
    /\ task[t].pc = "tearing" /\ s.teardown = "none"
    /\ AfterQuiet(t, s, task)
    /\ UNCHANGED <<native, orphans, world, budget>>

Joined(t) ==
    /\ task[t].pc = "joining" /\ task[task[t].joins].op # "connect"
    /\ AfterJoin(t, s, [task EXCEPT ![t].joins = None])
    /\ UNCHANGED <<mutex, native, orphans, world, budget>>

(* stop_notify() returns; an error of it is only reported. *)
Unsubscribed(t) ==
    /\ task[t].pc = "unsubscribing"
    /\ IF link.up THEN /\ task' = [task EXCEPT ![t].pc = "hanging_up", ![t].gen = link.id]
                       /\ UNCHANGED s
       ELSE s' = DisconnectEnded(s, FALSE) /\ task' = [task EXCEPT ![t] = Idle]
    /\ UNCHANGED <<mutex, native, orphans, world, budget>>

HungUp(t) ==
    /\ task[t].pc = "hanging_up"
    /\ HangUpOrStick(task[t].gen)
    /\ s' = DisconnectEnded(s, link'.up)
    /\ task' = [task EXCEPT ![t] = Idle]
    /\ UNCHANGED <<mutex, native, orphans, lost, fromDev, dev, heard, calls>>

(* _teardown_poisoned_client, a task of its own. *)
TeardownStarts ==
    /\ s.teardown = "scheduled"
    /\ s' = IF link.up THEN [s EXCEPT !.teardown = "hanging_up", !.expected = TRUE]
            ELSE [s EXCEPT !.teardown = "none", !.expected = FALSE]
    /\ UNCHANGED <<task, mutex, native, orphans, world, budget>>

TeardownEnds ==
    /\ s.teardown = "hanging_up"
    /\ HangUpOrStick(link.id)
    /\ s' = [s EXCEPT !.teardown = "none", !.expected = FALSE]
    /\ UNCHANGED <<task, mutex, native, orphans, lost, fromDev, dev, heard, calls>>

-----------------------------------------------------------------------------
(* Callbacks of the native client. *)

(* _on_notification *)
Notified ==
    /\ fromDev # <<>>
    /\ fromDev' = Tail(fromDev)
    /\ LET f == Head(fromDev)
       IN IF f.on # s.generation \/ s.poisoned
          THEN UNCHANGED <<s, task>>
          ELSE IF f.kind = "corrupt"      \* FrameStreamError
          THEN s' = PoisonCurrentClient(FailPending(s)) /\ task' = CancelPoll(task, None)
          ELSE s' = MatchPending(ApplyDecoded(s, f), f) /\ UNCHANGED task
    /\ UNCHANGED <<mutex, native, orphans, link, lost, toDev, dev, heard, budget>>

(* Slip: the loss of the link does not end the generation. *)
DisconnectedSameGeneration ==
    /\ lost > 0
    /\ lost' = lost - 1
    /\ IF link.handler # s.generation
       THEN UNCHANGED <<s, task>>
       ELSE LET d == FailPending(ResetConnectionData(
                        [s EXCEPT !.polling = FALSE, !.poller = None]))
            IN /\ s' = [d EXCEPT !.state = IF s.expected \/ s.state = "disconnecting"
                                           THEN "disconnected" ELSE "error"]
               /\ task' = CancelPoll(task, None)
    /\ UNCHANGED <<mutex, native, orphans, link, toDev, fromDev, dev, heard, budget>>

(* _on_transport_disconnected, with the generation bound to the current handler. *)
Disconnected ==
    /\ lost > 0
    /\ lost' = lost - 1
    /\ IF link.handler # s.generation
       THEN UNCHANGED <<s, task>>
       ELSE LET d == FailPending(ResetConnectionData(
                        [s EXCEPT !.generation = @ + 1, !.polling = FALSE, !.poller = None]))
            IN /\ s' = [d EXCEPT !.state = IF s.expected \/ s.state = "disconnecting"
                                           THEN "disconnected" ELSE "error"]
               /\ task' = CancelPoll(task, None)
    /\ UNCHANGED <<mutex, native, orphans, link, toDev, fromDev, dev, heard, budget>>

-----------------------------------------------------------------------------
(* The native stack, the radio and the charger. *)
Alive(id) == link.up /\ link.id = id

NativeLands(t) ==
    /\ native[t].at = "busy" /\ Alive(native[t].on)
    /\ native' = [native EXCEPT ![t].at = "landed"]
    /\ toDev' = IF task[t].chunk = Chunks(Request(t))
                THEN Append(toDev, OnAir(Request(t), task[t].want, link.id)) ELSE toDev
    /\ UNCHANGED <<s, task, mutex, orphans, link, lost, fromDev, dev, heard, budget>>

NativeCompletes(t) ==
    /\ native[t].at = "landed"
    /\ native' = [native EXCEPT ![t].at = "done"]
    /\ UNCHANGED <<s, task, mutex, orphans, world, budget>>

NativeFails(t) ==
    /\ native[t].at \in {"busy", "landed"}
    /\ IF Alive(native[t].on) THEN Inject("write_error") ELSE UNCHANGED faults
    /\ native' = [native EXCEPT ![t].at = "failed"]
    /\ UNCHANGED <<s, task, mutex, orphans, world, calls>>

(* An orphaned write finally ends; its bytes may still reach the charger. *)
OrphanEnds ==
    /\ \E o \in orphans :
          /\ orphans' = orphans \ {o}
          /\ \/ UNCHANGED toDev
             \/ o.final /\ Alive(o.frame.on) /\ toDev' = Append(toDev, o.frame)
    /\ UNCHANGED <<s, task, mutex, native, link, lost, fromDev, dev, heard, budget>>

(* What the charger does with a request it accepts. *)
Effect(f) ==
    CASE f.op \in Setters -> [dev EXCEPT !.target[f.op] = f.want[f.op]]
      [] f.op = "output_on" -> [dev EXCEPT !.output = ON]
      [] f.op = "output_off" -> [dev EXCEPT !.output = OFF]
      [] OTHER -> dev

Reply(f, ack) ==
    [kind |-> "frame", op |-> Opcode(f.op), on |-> f.on,
     ack |-> IF f.op \in Reads THEN Unknown ELSE ack,
     layout |-> f.op \in {"get_config", "get_telemetry"},
     target |-> IF f.op = "get_config" THEN dev.target ELSE NoTarget,
     ceiling |-> IF f.op = "get_config" THEN dev.ceiling ELSE 0,
     output |-> IF f.op = "get_telemetry" THEN dev.output ELSE Unknown]

Answer(f) == fromDev' = IF link.notify THEN Append(fromDev, f) ELSE fromDev

(* Auxiliary: what the charger was asked and what it reported. *)
Hears(f) ==
    heard' = [last |-> IF heard.last = <<>> THEN <<f.op>>
                       ELSE <<heard.last[Len(heard.last)], f.op>>,
              reported |-> IF f.op = "get_config" THEN dev.target ELSE heard.reported]

ChargerHandles ==
    /\ toDev # <<>> /\ link.up
    /\ toDev' = Tail(toDev)
    /\ dev' = Effect(Head(toDev))
    /\ Hears(Head(toDev))
    /\ Answer(Reply(Head(toDev), ON))
    /\ UNCHANGED <<s, task, mutex, native, orphans, link, lost, budget>>

(* Answers that go wrong: refused, acknowledged without effect, effective without
   acknowledgement, never sent, unreadable, or of a layout nobody knows. *)
ChargerMisbehaves ==
    /\ toDev # <<>> /\ link.up
    /\ toDev' = Tail(toDev)
    /\ Hears(Head(toDev))
    /\ LET f == Head(toDev) IN
       \/ /\ Inject("reject")
          /\ f.op \notin Reads
          /\ \E ack \in {OFF, ON, Unknown} :
                /\ dev' \in {dev, Effect(f)}
                /\ Answer(Reply(f, ack))
       \/ /\ Inject("silence")
          /\ dev' = Effect(f)
          /\ UNCHANGED fromDev
       \/ /\ Inject("corrupt")
          /\ dev' = Effect(f)
          /\ Answer([Reply(f, ON) EXCEPT !.kind = "corrupt"])
       \/ /\ Inject("layout")
          /\ f.op \in {"get_config", "get_telemetry"}
          /\ UNCHANGED dev
          /\ \/ Answer([Reply(f, ON) EXCEPT !.layout = FALSE])
             \/ Answer([Reply(f, ON) EXCEPT !.output = Unknown, !.ceiling = 0])
    /\ UNCHANGED <<s, task, mutex, native, orphans, link, lost, calls>>

(* The front panel, a spontaneous report, the passing of time, the radio. *)
Panel ==
    /\ Inject("panel")
    /\ dev' \in [output : {OFF, ON}, target : Confirmed, ceiling : {dev.ceiling}] \ {dev}
    /\ UNCHANGED <<s, task, mutex, native, orphans, link, lost, air, heard, calls>>

Unsolicited ==
    /\ Inject("unsolicited") /\ link.up /\ link.notify
    /\ Answer(Reply([op |-> "get_telemetry", on |-> link.id], ON))
    /\ UNCHANGED <<s, task, mutex, native, orphans, link, lost, toDev, dev, heard, calls>>

NoiseArrives ==
    /\ Inject("noise") /\ link.up /\ link.notify
    /\ fromDev' = Append(fromDev, [NoFrame EXCEPT !.kind = "corrupt", !.on = link.id])
    /\ UNCHANGED <<s, task, mutex, native, orphans, link, lost, toDev, dev, heard, calls>>

Expire ==
    /\ Inject("expire")
    /\ \/ s.config.fresh /\ s' = [s EXCEPT !.config.fresh = FALSE]
       \/ s.telemetry.fresh /\ s' = [s EXCEPT !.telemetry.fresh = FALSE]
    /\ UNCHANGED <<task, mutex, native, orphans, world, calls>>

LinkLoss ==
    /\ Inject("link_loss") /\ link.up
    /\ link' = [link EXCEPT !.up = FALSE]
    /\ toDev' = <<>>
    /\ lost' = lost + 1
    /\ UNCHANGED <<s, task, mutex, native, orphans, fromDev, dev, heard, calls>>

-----------------------------------------------------------------------------
Call(t) ==
    \/ \E op \in {"refresh_config", "refresh_telemetry"} : CallRead(t, op)
    \/ \E op \in Setters, v \in Levels : CallSetter(t, op, v)
    \/ \E confirmed \in Confirmed : CallStart(t, confirmed)
    \/ CallStop(t) \/ CallStopPolling(t) \/ CallStartPolling(t)
    \/ CallConnect(t) \/ CallDisconnect(t)

Resume(t) ==
    \/ Granted(t) \/ WriteDone(t) \/ WriteFailed(t) \/ ReplyFailed(t)
    \/ SetupReply(t) \/ OperationReply(t)
    \/ UnwindQueued(t) \/ UnwindWrite(t) \/ UnwindReply(t) \/ UnwindSleep(t)
    \/ UnwindSetup(t)
    \/ Discovered(t) \/ Subscribed(t) \/ Settled(t) \/ Cleaned(t)
    \/ Quieted(t) \/ TornDown(t) \/ Joined(t) \/ Unsubscribed(t) \/ HungUp(t)

Deadline(t) == WriteTimeout(t) \/ ReplyTimeout(t)

Environment ==
    \/ \E t \in Tasks : NativeLands(t) \/ NativeCompletes(t) \/ NativeFails(t)
    \/ OrphanEnds \/ ChargerHandles \/ ChargerMisbehaves
    \/ Panel \/ Unsolicited \/ NoiseArrives \/ Expire \/ LinkLoss

Next ==
    \/ \E t \in Tasks : \/ Call(t) \/ CancelCall(t) \/ Resume(t) \/ Deadline(t)
                        \/ Linked(t) \/ LinkFails(t) \/ PollWake(t)
    \/ HandBack \/ TeardownStarts \/ TeardownEnds
    \/ Notified \/ Disconnected
    \/ Environment

Spec == Init /\ [][Next]_vars

(* asyncio runs what is ready and its timers fire; a native connect or disconnect
   returns.  Nothing is assumed of a native write, of an orphan or of the charger. *)
Fairness ==
    /\ \A t \in Tasks : /\ WF_vars(Resume(t) \/ Deadline(t))
                        /\ WF_vars(Linked(t) \/ LinkFails(t))
    /\ WF_vars(HandBack) /\ WF_vars(TeardownStarts) /\ WF_vars(TeardownEnds)

FairSpec == Spec /\ Fairness

-----------------------------------------------------------------------------
Outstanding == {t \in Tasks : native[t].at \in {"busy", "landed"}}

(* Type invariant. *)
TypeOK ==
    /\ s \in Session
    /\ task \in [Tasks -> TaskState]
    /\ Mutex!MutexTypeOK
    /\ native \in [Tasks -> NativeWrite]
    /\ orphans \subseteq Orphan
    /\ link \in [up : BOOLEAN, id : Nat, handler : Nat, notify : BOOLEAN]
    /\ lost \in Nat
    /\ toDev \in Seq(AirFrame) /\ fromDev \in Seq(Frame)
    /\ dev \in [output : {OFF, ON}, target : Targets, ceiling : Levels]
    /\ heard \in [last : Seq(Requests), reported : Targets]
    /\ calls \in 0 .. MaxCalls /\ faults \in 0 .. MaxFaults

(* "The poison gate guarantees that it can never overlap a later application
   write": at most one native write is outstanding, an orphan counts, and this
   holds across link loss, reconnection and disconnection. *)
NoOverlappingWrites ==
    /\ \A t, u \in Outstanding : t = u
    /\ \A o, p \in orphans : o = p
    /\ orphans # {} => Outstanding = {}

(* The response future belongs to the task that owns the transaction slot, so
   "more than one application request was attempted" is never raised and no
   task is left awaiting a future that nobody can complete. *)
PendingBelongsToOwner ==
    /\ s.pending.owner # None => holder = s.pending.owner
    /\ \A t \in Tasks : task[t].pc \in {"writing", "replying"} => s.pending.owner = t

(* A poisoned client is never readable, whatever connect, disconnect, teardown
   and callbacks were in progress when it was poisoned. *)
PoisonedUnusable == s.poisoned => s.state \in {"error", "disconnecting", "disconnected"}

(* A READY session is authenticated on an intact client and shows readbacks of
   that connection and no other. *)
ReadyIsWhole ==
    s.state = "ready" =>
        /\ s.authenticated /\ s.topology /\ ~s.poisoned /\ s.connector = None
        /\ s.config.known /\ s.config.origin = s.generation
        /\ s.telemetry.known /\ s.telemetry.origin = s.generation

(* A session that reports DISCONNECTED has no native link. *)
DisconnectedMeansDown ==
    s.state = "disconnected" /\ s.connector = None => ~link.up

(* While nobody owns the slot, a READY session that reports no ambiguity shows
   what the charger does: no accepted mutation is missing from its readbacks. *)
ViewAgrees ==
    s.state = "ready" /\ holder = "free" /\ s.ambiguities = {} =>
        /\ s.config.target = dev.target
        /\ s.telemetry.output \in {dev.output, Unknown}

(* A Start reaches the charger only while its targets are the pair the operator
   confirmed, whatever setters, stops and reconnections surround it. *)
StartAsConfirmed ==
    [][toDev # <<>> /\ Head(toDev).op = "output_on" /\ dev.output = OFF /\ dev'.output = ON
        => dev.target = Head(toDev).want]_vars

(* Start is one transaction: when it is the charger's turn to handle one, the two requests
   it handled last are the re-reads of configuration and telemetry; nothing slips between,
   not even what an abandoned write or an older connection left behind. *)
StartReadsFirst ==
    toDev # <<>> /\ Head(toDev).op = "output_on" =>
        heard.last = <<"get_config", "get_telemetry">>

(* "In the same serialized transaction that may transmit Start, the session rereads
   configuration and telemetry, compares the confirmed V/I to the current device targets":
   the last targets the charger reported before it switches on are the confirmed pair. *)
StartAsReported ==
    [][toDev # <<>> /\ Head(toDev).op = "output_on" /\ toDev' = Tail(toDev) /\ dev' # dev
        => heard.reported = Head(toDev).want]_vars

(* A poll that nobody has cancelled is the one the session remembers, and its session
   is READY: Stop, disconnect(), a lost link and a poisoned client always find the poll
   they have to cancel, and no forgotten poll goes on talking to the charger. *)
PollReachable ==
    \A p \in Pollers : task[p].pc # "idle" /\ ~task[p].cancel =>
        p = s.poller /\ s.state = "ready"

(* Every call returns, although native writes and the charger may stay silent for
   ever: no cancelled waiter, orphan, poll or teardown wedges the serializer. *)
CallReturns == \A t \in Callers : Busy(t) ~> ~Busy(t)

(* A poisoned client does not stay connected, whichever of its teardown, connect's
   cleanup and an explicit disconnect gets to it first. *)
PoisonedLinkGoesDown == s.poisoned /\ link.up ~> ~(s.poisoned /\ link.up)

-----------------------------------------------------------------------------
(* What the documentation says and the code does not do. *)

(* docs/app.md: Stop "cancels polling and takes the next priority transaction slot":
   on a client still fit for use, the slot a cancelled poll leaves goes to the Stop
   that cancelled it. *)
StopIsNext ==
    [][\A t, u \in Callers :
        /\ task[t].op = "stop" /\ task[t].pc = "quieting"
        /\ holder = task[t].awaits /\ holder' = u /\ ~s'.poisoned
        => u = t]_vars

(* docs/app.md: "No second application write is allowed on that client". *)
NothingWrittenOncePoisoned ==
    [][\A t \in Tasks : native'[t].at = "busy" /\ native[t].at # "busy" => ~s.poisoned]_vars

(* docs/app.md: only after every old native write has finished may the next
   CoreBluetooth client be constructed. *)
NewClientAfterOldWrites ==
    link.up => \A t \in Outstanding : native[t].on = link.id
=============================================================================
