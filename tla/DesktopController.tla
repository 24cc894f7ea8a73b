-------------------------- MODULE DesktopController --------------------------
(***************************************************************************)
(* hwcdq_control/qt_controller.py: the desktop's connection commands, its  *)
(* bounded read-only recovery and its shutdown, above session objects that *)
(* are seen only through connect(), disconnect() and                       *)
(* wait_until_reconnectable() (ChargerSession.tla models their inside).    *)
(*                                                                         *)
(* Two threads: Qt submits coroutines, the asyncio worker runs them.  An   *)
(* action is what a coroutine does between two awaits, and is written as   *)
(* a function from the world before it to the world after it.              *)
(***************************************************************************)
EXTENDS Naturals, FiniteSets

CONSTANTS MaxCommands,   \* bound: Connect and Disconnect commands, shutdown's included
          Attempts,      \* len(reconnect_delays)
          MaxTroubles    \* bound: lost links, poisonings, failed connects, refused disconnects

ASSUME ControllerAssumption ==
    /\ MaxCommands \in Nat \ {0} /\ MaxTroubles \in Nat
    /\ Attempts \in 1..3

Commands == 1..MaxCommands
Supervisors == (MaxCommands + 1)..(MaxCommands + MaxTroubles)
Jobs == Commands \cup Supervisors
Sessions == 1..(MaxCommands + MaxTroubles)   \* one per Connect, one per trouble recovered from
Nobody == 0

VARIABLES
    ctl,      \* _session, _desired_*, the intent generation, _reconnect_task, _closed
    job,      \* the coroutines of the worker's loop
    sess,     \* the session objects and the native client of each
    worker,   \* shutdown(): where Qt and the loop are
    troubles  \* how much of the bound is used

ctlVars == <<ctl, job, sess, worker, troubles>>

NewSession == [state |-> "disconnected", client |-> "none", orphan |-> FALSE,
               poisoned |-> FALSE, stuck |-> FALSE, intent |-> 0]
SessionType == [state : {"disconnected", "connecting", "ready", "disconnecting", "error"},
                client : {"none", "opening", "up", "closing"},
                orphan : BOOLEAN, poisoned : BOOLEAN, stuck : BOOLEAN, intent : Nat]

Connected(x) == x.client \in {"up", "closing"}      \* transport.connected
TearingDown(x) == x.poisoned /\ x.client = "closing"

(* Slip: a finished teardown is taken for a released link. *)
ReconnectableOnceTornDown(x) == ~TearingDown(x) /\ ~x.orphan

(* Slip: the poison flag, which only connect() clears, is asked for as well. *)
ReconnectableUnpoisoned(x) == ~Connected(x) /\ ~x.orphan /\ ~x.poisoned

(* wait_until_reconnectable(): no teardown, no link, no orphaned write. *)
Reconnectable(x) == ~Connected(x) /\ ~x.orphan

Idle == [kind |-> "none", pc |-> "none", at |-> "none", on |-> Nobody,
         intent |-> 0, attempt |-> 0, joins |-> Nobody, cancel |-> FALSE]
JobType == [kind : {"none", "connect", "disconnect", "supervise"},
            pc : {"none", "queued", "created", "cancelling", "closing", "waiting",
                  "connecting", "undoing", "backoff", "done"},
            at : {"none", "opening", "setup", "cleanup", "unwind", "teardown", "join", "notify", "native"},
            on : Sessions \cup {Nobody}, intent : Nat, attempt : 0..Attempts,
            joins : Jobs \cup {Nobody}, cancel : BOOLEAN]

(* A world: what one step of the loop reads and changes. *)
World == [ctl |-> ctl, job |-> job, sess |-> sess]
Becomes(w) == ctl' = w.ctl /\ job' = w.job /\ sess' = w.sess

Live(w, j) == w.job[j].pc \notin {"none", "done"}
IntentIsCurrent(w, j) == w.ctl.intent = w.job[j].intent
RecoveryIsCurrent(w, j) == ~w.ctl.closed /\ IntentIsCurrent(w, j) /\ w.ctl.desired
On(w, j) == w.sess[w.job[j].on]
Cancelled(w, j) == IF Live(w, j) THEN [w EXCEPT !.job[j].cancel = TRUE] ELSE w
At(w, j, pc, at) == [w EXCEPT !.job[j].pc = pc, !.job[j].at = at]

(* The task is done; its done callback clears _reconnect_task. *)
Ended(w, j) == [w EXCEPT !.job[j] = [Idle EXCEPT !.kind = w.job[j].kind, !.pc = "done"],
                         !.ctl.keeper = IF @ = j THEN Nobody ELSE @]
Unwanted(w) == [w EXCEPT !.ctl.desired = FALSE]

Running == worker # "gone"
Trouble == troubles < MaxTroubles /\ troubles' = troubles + 1
Calm == UNCHANGED <<worker, troubles>>

CtlInit ==
    /\ ctl = [session |-> Nobody, made |-> 0, desired |-> FALSE, intent |-> 0,
              keeper |-> Nobody, closed |-> FALSE, autos |-> 0, last |-> "none"]
    /\ job = [j \in Jobs |-> Idle]
    /\ sess = [n \in Sessions |-> NewSession]
    /\ worker = "running"
    /\ troubles = 0

-----------------------------------------------------------------------------
(* Opening a session, and what follows connect() in its caller. *)

(* _create_session(_create_transport()), _session := it, connect() up to the
   native open. *)
OpenSession(w, j) ==
    LET n == w.ctl.made + 1
    IN [At(w, j, "connecting", "opening") EXCEPT
          !.job[j].on = n,
          !.ctl.session = n, !.ctl.made = n,
          !.ctl.autos = @ + (IF w.job[j].kind = "supervise" THEN 1 ELSE 0),
          !.sess[n] = [NewSession EXCEPT !.state = "connecting", !.client = "opening",
                                         !.intent = w.job[j].intent]]

(* _connect(): its own intent is stored first, whatever came in between. *)
OpenWanted(w, j) == OpenSession([w EXCEPT !.ctl.desired = TRUE], j)

(* Slip: one attempt more than there are delays. *)
NextAttemptOneMore(w, j) ==
    IF w.job[j].attempt > Attempts
    THEN Ended(IF RecoveryIsCurrent(w, j) THEN Unwanted(w) ELSE w, j)
    ELSE IF RecoveryIsCurrent(w, j)
         THEN [At(w, j, "backoff", "none") EXCEPT !.job[j].attempt = @ + 1]
         ELSE Ended(w, j)

(* Slip: a failed attempt does not count. *)
NextAttemptUncounted(w, j) ==
    IF RecoveryIsCurrent(w, j) THEN At(w, j, "backoff", "none") ELSE Ended(w, j)

(* The next round of the recovery's for loop, or its exhaustion. *)
NextAttempt(w, j) ==
    IF w.job[j].attempt >= Attempts
    THEN Ended(IF RecoveryIsCurrent(w, j) THEN Unwanted(w) ELSE w, j)
    ELSE IF RecoveryIsCurrent(w, j)
         THEN [At(w, j, "backoff", "none") EXCEPT !.job[j].attempt = @ + 1]
         ELSE Ended(w, j)

(* _wait_for_manual_connect_release and _wait_for_reconnectable_session: a
   client that is already released costs no await. *)
AwaitRelease(w, j) ==
    LET byHand == w.job[j].kind = "connect"
        current == IF byHand THEN ~w.ctl.closed /\ IntentIsCurrent(w, j)
                             ELSE RecoveryIsCurrent(w, j)
    IN CASE ~current -> Ended(w, j)
         [] current /\ Reconnectable(On(w, j)) ->
              IF byHand THEN OpenWanted(w, j) ELSE NextAttempt(w, j)
         [] OTHER -> At(w, j, "waiting", "none")

(* What the caller of disconnect() does after it returned. *)
AfterDisconnect(w, j, raised) ==
    IF w.job[j].kind = "connect" /\ w.job[j].pc = "closing" /\ ~raised
    THEN AwaitRelease(w, j)
    ELSE Ended(w, j)

(* Slip: the native disconnect is taken to have worked. *)
DisconnectedAnyway(w, j) ==
    AfterDisconnect([w EXCEPT !.sess[w.job[j].on].state = "disconnected"], j, FALSE)

(* disconnect() past its joins: stop_notify, the native disconnect, the end. *)
Disconnected(w, j) ==
    LET up == Connected(On(w, j))
    IN AfterDisconnect([w EXCEPT !.sess[w.job[j].on].state =
                            IF up THEN "error" ELSE "disconnected"], j, up)
HangUp(w, j) ==
    LET x == On(w, j)
    IN IF x.client = "none" THEN Disconnected(w, j)
       ELSE [At(w, j, w.job[j].pc, "native") EXCEPT
                !.sess[w.job[j].on].client = "closing", !.sess[w.job[j].on].stuck = FALSE]
StopNotify(w, j) ==
    IF On(w, j).client = "up" /\ ~On(w, j).poisoned
    THEN At(w, j, w.job[j].pc, "notify") ELSE HangUp(w, j)

(* disconnect() from its start: the awaits that are due, in their order. *)
JoinConnect(w, j) ==
    LET k == w.job[j].joins
    IN IF k # Nobody /\ Live(w, k) THEN At(Cancelled(w, k), j, w.job[j].pc, "join")
       ELSE IF TearingDown(On(w, j)) THEN At(w, j, w.job[j].pc, "teardown")
       ELSE StopNotify(w, j)
Disconnect(w, j, pc, n) ==
    LET x == w.sess[n]
        connecting == {k \in Jobs \ {j} : w.job[k].pc = "connecting" /\ w.job[k].on = n}
        k == IF connecting = {} THEN Nobody ELSE CHOOSE i \in connecting : TRUE
        entered == [At(w, j, pc, "teardown") EXCEPT
                      !.job[j].on = n, !.job[j].joins = k, !.sess[n].state = "disconnecting"]
    IN IF x.state = "disconnected" /\ k = Nobody /\ ~Connected(x)
       THEN AfterDisconnect([At(w, j, pc, "none") EXCEPT !.job[j].on = n], j, FALSE)
       ELSE IF TearingDown(x) THEN entered ELSE JoinConnect(entered, j)

(* Slip: connect() is taken to be still wanted when it returns. *)
ConnectReturnedAnyway(w, j) ==
    Ended([w EXCEPT !.sess[w.job[j].on].state = "ready", !.ctl.autos = 0], j)

(* session.connect() returned, raised, or was cancelled. *)
ConnectReturned(w, j) ==
    LET n == w.job[j].on
        ready == [w EXCEPT !.sess[n].state = "ready", !.ctl.autos = 0]
        current == IF w.job[j].kind = "connect" THEN IntentIsCurrent(w, j)
                                                ELSE RecoveryIsCurrent(w, j)
    IN IF current THEN Ended(ready, j) ELSE Disconnect(ready, j, "undoing", n)
ConnectRaised(w, j) ==
    IF w.job[j].kind = "connect"
    THEN Ended(IF IntentIsCurrent(w, j) THEN Unwanted(w) ELSE w, j)
    ELSE AwaitRelease(w, j)
ConnectCancelled(w, j) ==
    IF w.job[j].kind = "connect"
    THEN Ended(IF IntentIsCurrent(w, j) THEN Unwanted(w) ELSE w, j)
    ELSE Disconnect([w EXCEPT !.job[j].cancel = FALSE], j, "undoing", w.job[j].on)

-----------------------------------------------------------------------------
(* Commands.  The window offers Connect only while nothing is active; its
   other buttons follow queued snapshots, so they may be pressed at any time. *)

Quit == MaxCommands                       \* shutdown()'s own _disconnect
Pending(j) == job[j].pc = "queued"
Press(j, kind) == job' = [job EXCEPT ![j].kind = kind, ![j].pc = "queued"]
IsNext(j) == /\ job[j].kind = "none"
             /\ \A i \in Commands : i < j => job[i].kind # "none"

PressConnect(j) ==
    /\ worker = "running" /\ j # Quit /\ IsNext(j)
    /\ \A i \in Commands : ~Live(World, i)
    /\ Press(j, "connect")
    /\ UNCHANGED <<ctl, sess, worker, troubles>>

PressDisconnect(j) ==
    /\ worker = "running" /\ j # Quit /\ IsNext(j)
    /\ Press(j, "disconnect")
    /\ UNCHANGED <<ctl, sess, worker, troubles>>

Shutdown ==
    /\ worker = "running"
    /\ worker' = "closing"
    /\ ctl' = [ctl EXCEPT !.closed = TRUE]
    /\ Press(Quit, "disconnect")
    /\ UNCHANGED <<sess, troubles>>

(* _connect and _disconnect once no recovery task is left. *)
AfterCancelReconnect(w, j) ==
    LET n == w.ctl.session
        v == IF w.job[j].kind = "connect" THEN Unwanted(w) ELSE w
    IN IF n # Nobody THEN Disconnect(v, j, "closing", n)
       ELSE IF w.job[j].kind = "connect" THEN OpenWanted(v, j) ELSE Ended(v, j)

CancelReconnect(w, j) ==
    LET task == w.ctl.keeper
        v == [w EXCEPT !.ctl.keeper = Nobody]
    IN IF task # Nobody /\ Live(w, task)
       THEN [At(Cancelled(v, task), j, "cancelling", "none") EXCEPT !.job[j].joins = task]
       ELSE AfterCancelReconnect(v, j)

(* The loop runs submitted coroutines in the order of their submission. *)
Start(j) ==
    /\ Running /\ Pending(j)
    /\ \A i \in Commands : Pending(i) => j <= i
    /\ LET w == [World EXCEPT !.ctl.intent = @ + 1, !.ctl.last = job[j].kind, !.ctl.autos = 0,
                              !.job[j].intent = ctl.intent + 1]
           v == IF job[j].kind = "disconnect" THEN Unwanted(w) ELSE w
       IN Becomes(CancelReconnect(v, j))
    /\ Calm

-----------------------------------------------------------------------------
(* A coroutine goes on: what it awaited is there, and no cancellation is. *)

Resumes(j, pc, at) == Running /\ Calm /\ ~job[j].cancel /\ job[j].pc \in pc /\ job[j].at = at

Gathered(j) ==
    /\ Resumes(j, {"cancelling"}, "none")
    /\ ~Live(World, job[j].joins)
    /\ Becomes(AfterCancelReconnect([World EXCEPT !.job[j].joins = Nobody], j))
RecoveryStarts(j) ==
    /\ Resumes(j, {"created"}, "none")
    /\ Becomes(AwaitRelease(World, j))
TornDown(j) ==
    /\ Resumes(j, {"closing", "undoing"}, "teardown")
    /\ ~TearingDown(On(World, j))
    /\ Becomes(JoinConnect(World, j))
Joined(j) ==
    /\ Resumes(j, {"closing", "undoing"}, "join")
    /\ ~Live(World, job[j].joins)
    /\ Becomes(JoinConnect([World EXCEPT !.job[j].joins = Nobody], j))
NotifyStopped(j) ==
    /\ Resumes(j, {"closing", "undoing"}, "notify")
    /\ Becomes(HangUp(World, j))
(* BleakTransport hides a cancellation until the native call has returned. *)
HungUp(j) ==
    /\ Running /\ Calm /\ job[j].at = "native"
    /\ On(World, j).client # "closing"
    /\ LET w == [World EXCEPT !.sess[job[j].on].state =
                     IF Connected(On(World, j)) THEN "error" ELSE "disconnected"]
       IN Becomes(IF job[j].cancel THEN Ended(w, j) ELSE Disconnected(World, j))
(* wait_until_reconnectable() answers True, and Connect asks nothing more. *)
Released(j) ==
    /\ Resumes(j, {"waiting"}, "none")
    /\ Reconnectable(On(World, j))
    /\ Becomes(IF job[j].kind = "connect" THEN OpenWanted(World, j) ELSE NextAttempt(World, j))
(* It answers False after 0.25 s; only then the loop looks at the intent. *)
WaitIsStale(j) ==
    /\ Resumes(j, {"waiting"}, "none")
    /\ ~Reconnectable(On(World, j))
    /\ AwaitRelease(World, j) = Ended(World, j)
    /\ Becomes(Ended(World, j))
(* Slip: the intent is not looked at again after the sleep. *)
BackoffOverAnyway(j) ==
    /\ Resumes(j, {"backoff"}, "none")
    /\ Becomes(OpenSession(World, j))
BackoffOver(j) ==
    /\ Resumes(j, {"backoff"}, "none")
    /\ Becomes(IF RecoveryIsCurrent(World, j) THEN OpenSession(World, j) ELSE Ended(World, j))

Opened(j) ==
    /\ Resumes(j, {"connecting"}, "opening")
    /\ Becomes([At(World, j, "connecting", "setup") EXCEPT !.sess[job[j].on].client = "up"])
SetupDone(j) ==
    /\ Resumes(j, {"connecting"}, "setup")
    /\ On(World, j).client = "up"
    /\ Becomes(ConnectReturned(World, j))
LinkIsGone(j) ==
    /\ Resumes(j, {"connecting"}, "setup")
    /\ On(World, j).client = "none"
    /\ Becomes(ConnectRaised(World, j))
Cleaned(j) ==
    /\ Running /\ Calm /\ job[j].at \in {"cleanup", "unwind"}
    /\ On(World, j).client # "closing"
    /\ LET cancel == job[j].cancel
           failed == [World EXCEPT !.sess[job[j].on].state = "error"]
           ended == [World EXCEPT !.sess[job[j].on].state =
                        IF Connected(On(World, j)) THEN "error" ELSE "disconnected"]
       IN Becomes(IF cancel THEN ConnectCancelled(World, j)
                  ELSE IF job[j].at = "cleanup" THEN ConnectRaised(failed, j)
                  ELSE ConnectCancelled(ended, j))

(* _poison: the session is given up for good, its client goes to a teardown of
   its own, and a native write that was in flight may outlive it. *)
Poison(n, orphan) ==
    [World EXCEPT !.sess[n].state = "error", !.sess[n].poisoned = TRUE,
                  !.sess[n].client = "closing", !.sess[n].orphan = orphan]

(* The cancellation arrives at what the coroutine awaits. A native write of the
   setup that it finds in flight poisons the client; any other await of
   connect() lets it close the client itself. *)
CancelArrives(j) ==
    /\ Running /\ Calm /\ job[j].cancel
    /\ job[j].pc # "queued" /\ job[j].at \notin {"cleanup", "unwind", "native"}
    /\ LET x == On(World, j)
           left(state) == [World EXCEPT !.sess[job[j].on].state = state]
           quiet == [left("disconnected") EXCEPT !.sess[job[j].on].client = "none"]
           unwinding == [At(World, j, "connecting", "unwind") EXCEPT
                            !.job[j].cancel = FALSE, !.sess[job[j].on].client = "closing"]
       IN IF job[j].pc = "connecting"
          THEN IF TearingDown(x) THEN Becomes(ConnectCancelled(left("error"), j))
               ELSE \/ x.client # "up" /\ Becomes(ConnectCancelled(quiet, j))
                    \/ x.client # "none" /\ Becomes(unwinding)
                    \/ /\ job[j].at = "setup" /\ x.client = "up"
                       /\ \E orphan \in BOOLEAN :
                             Becomes(ConnectCancelled(Poison(job[j].on, orphan), j))
          ELSE IF job[j].at = "notify"
          THEN Becomes(Ended(left(IF Connected(x) THEN "error" ELSE "disconnected"), j))
          ELSE Becomes(Ended(World, j))

Step(j) ==
    \/ Start(j) \/ Gathered(j) \/ RecoveryStarts(j) \/ TornDown(j) \/ Joined(j)
    \/ NotifyStopped(j) \/ HungUp(j) \/ Released(j) \/ WaitIsStale(j) \/ BackoffOver(j)
    \/ Opened(j) \/ SetupDone(j) \/ LinkIsGone(j) \/ Cleaned(j) \/ CancelArrives(j)

-----------------------------------------------------------------------------
(* What sessions and native clients do by themselves. *)

(* _on_session_event: an ERROR of the current session that a read-only
   recovery may follow starts the one recovery task. *)
Recover(w, n, recoverable) ==
    LET free == {j \in Supervisors : w.job[j].kind = "none"}
        j == CHOOSE k \in free : \A i \in free : k <= i
    IN IF /\ recoverable /\ w.ctl.session = n
          /\ ~w.ctl.closed /\ w.ctl.desired
          /\ (w.ctl.keeper = Nobody \/ ~Live(w, w.ctl.keeper))
       THEN [w EXCEPT !.ctl.keeper = j,
                      !.job[j] = [Idle EXCEPT !.kind = "supervise", !.pc = "created",
                                              !.on = n, !.intent = w.ctl.intent]]
       ELSE w

(* A transaction of a ready or closing session times out. *)
Poisoned(n) == \E orphan \in BOOLEAN, mutation \in BOOLEAN :
    /\ Running /\ Trouble
    /\ sess[n].state \in {"ready", "disconnecting"}
    /\ Connected(sess[n]) /\ ~sess[n].poisoned
    /\ \A j \in Jobs : job[j].pc = "connecting" => job[j].on # n
    /\ Becomes(Recover(Poison(n, orphan), n, sess[n].state = "ready" /\ ~mutation))
    /\ UNCHANGED worker

(* The link drops; a poisoned session ignores the callback. *)
Lost(n) == \E mutation \in BOOLEAN :
    /\ Running /\ Trouble
    /\ sess[n].client = "up"
    /\ LET w == [World EXCEPT !.sess[n].client = "none",
                    !.sess[n].state = IF sess[n].poisoned THEN @
                                      ELSE IF @ = "disconnecting" THEN "disconnected" ELSE "error"]
       IN Becomes(Recover(w, n, sess[n].state = "ready" /\ ~mutation))
    /\ UNCHANGED worker

OpenFails(j) ==
    /\ Running /\ Trouble /\ ~job[j].cancel /\ job[j].at = "opening"
    /\ Becomes(ConnectRaised([World EXCEPT !.sess[job[j].on].client = "none",
                                           !.sess[job[j].on].state = "error"], j))
    /\ UNCHANGED worker

(* Setup fails: a timeout poisons the client and leaves its teardown behind,
   any other failure closes the link before connect() raises. *)
SetupFails(j) ==
    /\ Running /\ Trouble /\ ~job[j].cancel /\ job[j].at = "setup"
    /\ On(World, j).client = "up"
    /\ \/ \E orphan \in BOOLEAN : Becomes(ConnectRaised(Poison(job[j].on, orphan), j))
       \/ Becomes([At(World, j, "connecting", "cleanup") EXCEPT
                       !.sess[job[j].on].client = "closing"])
    /\ UNCHANGED worker

NativeEnds(n) ==
    /\ Running /\ sess[n].client = "closing"
    /\ sess' = [sess EXCEPT ![n].client = "none"]
    /\ UNCHANGED <<ctl, job, worker, troubles>>

(* The platform keeps the link; or the closing loop, which cancels every task,
   cuts the shielded native disconnect itself. *)
NativeRefuses(n) ==
    /\ Running /\ sess[n].client = "closing"
    /\ (worker = "stopping" /\ UNCHANGED troubles) \/ Trouble
    /\ sess' = [sess EXCEPT ![n].client = "up", ![n].stuck = TRUE]
    /\ UNCHANGED <<ctl, job, worker>>

OrphanEnds(n) ==
    /\ Running /\ sess[n].orphan
    /\ sess' = [sess EXCEPT ![n].orphan = FALSE]
    /\ UNCHANGED <<ctl, job, worker, troubles>>

(* future.result() answered or its 2.5 s are over (a loop that is not blocked
   has started the coroutine by then): loop.stop(), every task is cancelled. *)
StopLoop ==
    /\ worker = "closing" /\ ~Pending(Quit)
    /\ worker' = "stopping"
    /\ job' = [j \in Jobs |-> IF Live(World, j) THEN [job[j] EXCEPT !.cancel = TRUE] ELSE job[j]]
    /\ UNCHANGED <<ctl, sess, troubles>>

(* Slip: the loop is left only when no link is. *)
ExitOnceDown ==
    /\ worker = "stopping"
    /\ \A n \in Sessions : sess[n].client = "none"
    /\ worker' = "gone"
    /\ UNCHANGED <<ctl, job, sess, troubles>>
Exit ==
    /\ worker = "stopping"
    /\ \A j \in Jobs : ~Live(World, j)
    /\ \A n \in Sessions : sess[n].client # "closing"
    /\ worker' = "gone"
    /\ UNCHANGED <<ctl, job, sess, troubles>>

Gone == worker = "gone" /\ UNCHANGED ctlVars

CtlNext ==
    \/ \E j \in Commands : PressConnect(j) \/ PressDisconnect(j)
    \/ Shutdown \/ StopLoop \/ Exit \/ Gone
    \/ \E j \in Jobs : Step(j) \/ OpenFails(j) \/ SetupFails(j)
    \/ \E n \in Sessions : \/ Poisoned(n) \/ Lost(n) \/ NativeEnds(n)
                           \/ NativeRefuses(n) \/ OrphanEnds(n)

(* The loop runs what is ready, native calls return, setup answers or times
   out, and shutdown() waits no longer than 2.5 s. *)
LoopRuns == \E j \in Jobs : Step(j)
NativeCallsReturn == \E n \in Sessions : NativeEnds(n) \/ OrphanEnds(n)
CtlFairness ==
    /\ WF_ctlVars(LoopRuns) /\ WF_ctlVars(NativeCallsReturn)
    /\ WF_ctlVars(StopLoop \/ Exit)

CtlSpec == CtlInit /\ [][CtlNext]_ctlVars /\ CtlFairness

-----------------------------------------------------------------------------
ControllerTypeOK ==
    /\ ctl \in [session : Sessions \cup {Nobody}, made : 0..(MaxCommands + MaxTroubles),
                desired : BOOLEAN, intent : Nat, keeper : Supervisors \cup {Nobody},
                closed : BOOLEAN, autos : Nat, last : {"none", "connect", "disconnect"}]
    /\ job \in [Jobs -> JobType]
    /\ sess \in [Sessions -> SessionType]
    /\ worker \in {"running", "closing", "stopping", "gone"}
    /\ troubles \in 0..MaxTroubles

(* Never two native clients at once, whatever commands, recoveries, failures
   and teardowns overlap: a second CoreBluetooth client of the same charger is
   what the release waits are there to prevent. *)
OneClient == Cardinality({n \in Sessions : sess[n].client # "none"}) <= 1

AtRest == \A j \in Jobs : ~Live(World, j)

(* Once every coroutine has ended, a ready session is the controller's own,
   was opened for the newest intent and is still wanted: no older Connect and
   no recovery survives a later command. *)
LatestIntentWins ==
    AtRest => \A n \in Sessions : sess[n].state = "ready" =>
        /\ n = ctl.session /\ sess[n].intent = ctl.intent
        /\ ctl.desired /\ ctl.last = "connect"

(* After Disconnect nothing is left open unless the platform refused, and then
   the session says so; a quit may also run out of time, but then no session
   passes for ready, or for disconnected, over the link it leaves. *)
DisconnectSticks ==
    (AtRest /\ ctl.last = "disconnect") =>
        \A n \in Sessions : sess[n].client = "up" =>
            IF worker = "running" THEN sess[n].stuck /\ sess[n].state = "error"
            ELSE sess[n].state \notin {"ready", "disconnected"}

(* At most one recovery is at work, and never more automatic connections than
   there are delays between two moments the user or a ready link vouches for. *)
RecoveryBounded ==
    /\ ctl.autos <= Attempts
    /\ \A i, j \in Supervisors : Live(World, i) /\ Live(World, j) => i = j

(* No automatic connection is opened after a Disconnect or a quit, whatever
   the recovery was waiting for when it came. *)
NoAttemptAfterDisconnect ==
    [][ctl'.autos > ctl.autos => ctl.last = "connect" /\ ~ctl.closed]_ctlVars

(* Every command and every recovery comes to its end (a Disconnect that joins
   a Connect that waits for a recovery is never a circle), unless it waits for
   a link that the platform would not let go. *)
HeldUp(j) == job[j].pc = "waiting" /\ On(World, j).stuck /\ On(World, j).client = "up"
JobsEnd == []<>(\A j \in Jobs : Live(World, j) => HeldUp(j))

(* A shutdown comes to its end whatever it interrupts. *)
ShutdownEnds == worker = "closing" ~> worker = "gone"

(* What the window offers (main_window.py): Disconnect is enabled only while
   there is a link or a connect in progress. *)
DisconnectEnabled ==
    LET x == sess[ctl.session]
    IN /\ ctl.session # Nobody
       /\ Connected(x) \/ x.state = "connecting"
       /\ x.state # "disconnecting"

(* Disconnect during backoff cancels every remaining attempt: so while a wanted
   recovery sleeps and no command is under way, the window has to offer it. *)
DisconnectOfferedInBackoff ==
    (/\ \E j \in Supervisors : job[j].pc = "backoff" /\ RecoveryIsCurrent(World, j)
     /\ \A j \in Commands : ~Live(World, j)) => DisconnectEnabled

=============================================================================
