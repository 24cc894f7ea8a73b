----------------------------- MODULE SessionData -----------------------------
(***************************************************************************)
(* The state a ChargerSession object keeps (hwcdq/session.py, __init__),   *)
(* as one record, and the synchronous helpers that transform it.  None of  *)
(* these awaits anything, so each is a function from the record before to  *)
(* the record after; ChargerSession.tla is built from them.                *)
(*                                                                         *)
(* Setpoints are small naturals, the device's reported maximum is one of   *)
(* them (0 when missing or malformed), and a timestamp is only the answer  *)
(* to _is_fresh.  `origin` in a readback is the generation of the link it  *)
(* was received on; the code does not store it.                            *)
(***************************************************************************)
EXTENDS Naturals, FiniteSets

CONSTANTS Setters,         \* setter operations: set_voltage, set_current
          Levels,          \* values a setter may send
          Tasks,           \* asyncio tasks that may own a request
          Pollers,         \* those among them that are _poll_maintenance tasks
          None,            \* no task
          ControlEnabled   \* access is AccessMode.CONTROL

ASSUME DataAssumption ==
    /\ Setters \subseteq {"set_voltage", "set_current"}
    /\ Levels \subseteq Nat \ {0}
    /\ None \notin Tasks /\ Pollers \subseteq Tasks
    /\ ControlEnabled \in BOOLEAN

States == {"disconnected", "connecting", "discovering", "authenticating",
           "loading", "ready", "disconnecting", "error"}
Reads == {"get_firmware", "get_serial", "get_config", "get_telemetry"}
Mutations == Setters \cup {"output_on", "output_off"}
Requests == {"check_password"} \cup Reads \cup Mutations
(* Start and Stop are one opcode, 0x0C, with different arguments. *)
Opcode(request) == IF request \in {"output_on", "output_off"} THEN "output_control"
                   ELSE request
Opcodes == {Opcode(x) : x \in Requests}
OFF == 0
ON == 1
Unknown == 2             \* an output or an acknowledgement that is not a bool
Targets == [Setters -> Levels \cup {0}]
NoTarget == [x \in Setters |-> 0]

Readback == [known : BOOLEAN, fresh : BOOLEAN, target : Targets,
             ceiling : Levels \cup {0}, origin : Nat]
OutputReading == [known : BOOLEAN, fresh : BOOLEAN, output : {OFF, ON, Unknown},
                  origin : Nat]
Outcome == [operation : Setters \cup {"output"}, value : Nat]

(* A decoded packet; `layout` says whether decode_packet recognised the payload. *)
Frame == [kind : {"none", "failed", "corrupt", "frame"}, op : Opcodes \cup {"none"},
          ack : {OFF, ON, Unknown}, layout : BOOLEAN, target : Targets,
          ceiling : Levels \cup {0}, output : {OFF, ON, Unknown}, on : Nat]
Pending == [owner : Tasks \cup {None}, op : Opcodes \cup {"none"}, reply : Frame]

Session == [state : States, authenticated : BOOLEAN, topology : BOOLEAN,
            config : Readback, telemetry : OutputReading,
            ambiguities : SUBSET Outcome, generation : Nat,
            poisoned : BOOLEAN, teardown : {"none", "scheduled", "hanging_up"},
            expected : BOOLEAN, connector : Tasks \cup {None},
            polling : BOOLEAN, poller : Pollers \cup {None}, pending : Pending]

NoConfig == [known |-> FALSE, fresh |-> FALSE, target |-> NoTarget, ceiling |-> 0,
             origin |-> 0]
NoTelemetry == [known |-> FALSE, fresh |-> FALSE, output |-> Unknown, origin |-> 0]
NoFrame == [kind |-> "none", op |-> "none", ack |-> Unknown, layout |-> FALSE,
            target |-> NoTarget, ceiling |-> 0, output |-> Unknown, on |-> 0]
NoPending == [owner |-> None, op |-> "none", reply |-> NoFrame]

NewSession == [state |-> "disconnected", authenticated |-> FALSE, topology |-> FALSE,
               config |-> NoConfig, telemetry |-> NoTelemetry, ambiguities |-> {},
               generation |-> 0, poisoned |-> FALSE, teardown |-> "none",
               expected |-> FALSE, connector |-> None, polling |-> FALSE,
               poller |-> None, pending |-> NoPending]

-----------------------------------------------------------------------------
(* Helpers that change the session. *)

(* _reset_connection_data(preserve_ambiguities=True) *)
ResetConnectionData(d) ==
    [d EXCEPT !.topology = FALSE, !.authenticated = FALSE,
              !.config = NoConfig, !.telemetry = NoTelemetry]

(* _reset_connection_data() *)
ForgetConnection(d) == [ResetConnectionData(d) EXCEPT !.ambiguities = {}]

FailPending(d) ==
    IF d.pending.owner # None /\ d.pending.reply.kind = "none"
    THEN [d EXCEPT !.pending.reply.kind = "failed"] ELSE d

(* Variants named after a bug, here and in ChargerSession, are not part of Spec:
   each is a plausible slip in the definition that follows it, and shows that the
   properties notice it. *)

(* Slip: the native teardown is left to whoever disconnects next. *)
PoisonWithoutTeardown(d) ==
    IF d.poisoned THEN d
    ELSE [ResetConnectionData(d) EXCEPT
            !.poisoned = TRUE, !.generation = @ + 1,
            !.polling = FALSE, !.poller = None, !.state = "error"]

(* _poison_current_client; the poll it cancels is the caller's to flag. *)
PoisonCurrentClient(d) ==
    IF d.poisoned THEN d
    ELSE [ResetConnectionData(d) EXCEPT
            !.poisoned = TRUE, !.generation = @ + 1,
            !.polling = FALSE, !.poller = None, !.state = "error",
            !.teardown = IF @ = "none" THEN "scheduled" ELSE @]

MarkAmbiguous(d, outcome) == [d EXCEPT !.ambiguities = @ \cup {outcome}]

(* _resolve_ambiguity, for every value of the operation or for one of them. *)
ResolveAmbiguity(d, operation, values) ==
    [d EXCEPT !.ambiguities =
        {o \in @ : ~(o.operation = operation /\ o.value \in values)}]

(* Slip: a configuration readback is taken to settle the output too. *)
ResolveEverythingFromConfig(d) == [d EXCEPT !.ambiguities = {}]

(* A readback resolves the uncertainty even when it shows another value. *)
ResolveFromConfig(d) ==
    [d EXCEPT !.ambiguities =
        {o \in @ : o.operation \notin {x \in Setters : d.config.target[x] # 0}}]

ResolveFromTelemetry(d) ==
    IF d.telemetry.output = Unknown THEN d
    ELSE [d EXCEPT !.ambiguities = {o \in @ : o.operation # "output"}]

(* _apply_decoded: only a recognised payload touches the session. *)
ApplyDecoded(d, f) ==
    IF ~f.layout THEN d
    ELSE IF f.op = "get_config"
    THEN ResolveFromConfig([d EXCEPT !.config =
            [known |-> TRUE, fresh |-> TRUE, target |-> f.target,
             ceiling |-> f.ceiling, origin |-> f.on]])
    ELSE IF f.op = "get_telemetry"
    THEN ResolveFromTelemetry([d EXCEPT !.telemetry =
            [known |-> TRUE, fresh |-> TRUE, output |-> f.output, origin |-> f.on]])
    ELSE d

(* The pending request takes the first frame with its opcode. *)
MatchPending(d, f) ==
    IF d.pending.owner # None /\ d.pending.reply.kind = "none" /\ d.pending.op = f.op
    THEN [d EXCEPT !.pending.reply = f] ELSE d

-----------------------------------------------------------------------------
(* Interlocks; `up` is transport.connected. *)
Readable(d, up, loading) ==
    /\ d.state \in {"ready"} \cup IF loading THEN {"authenticating", "loading"} ELSE {}
    /\ up
    /\ d.authenticated

WithinLimits(d, target) ==
    /\ d.config.known
    /\ \A x \in Setters : target[x] # 0 => target[x] \in Levels /\ target[x] <= d.config.ceiling

TelemetryValidForControl(d) == d.telemetry.output # Unknown

SafetyContext(d) == /\ d.config.known /\ d.config.fresh
                    /\ d.telemetry.known /\ d.telemetry.fresh

(* _require_control_context with the operator's confirmation, then the limits. *)
ControlContext(d, up, target) ==
    /\ Readable(d, up, FALSE)
    /\ ControlEnabled
    /\ d.ambiguities = {}
    /\ SafetyContext(d)
    /\ TelemetryValidForControl(d)
    /\ WithinLimits(d, target)

PrecheckStartContext(d, up) ==
    Readable(d, up, FALSE) /\ ControlEnabled /\ d.ambiguities = {}

(* Slip: the confirmed targets are only compared with the limits. *)
StartContextWithoutTargets(d, up, confirmed) ==
    /\ PrecheckStartContext(d, up)
    /\ SafetyContext(d)
    /\ WithinLimits(d, confirmed)
    /\ TelemetryValidForControl(d)
    /\ d.telemetry.output = OFF

(* _validate_atomic_start_context, on the readbacks of the same transaction. *)
AtomicStartContext(d, up, confirmed) ==
    /\ PrecheckStartContext(d, up)
    /\ SafetyContext(d)
    /\ d.config.target = confirmed
    /\ WithinLimits(d, confirmed)
    /\ TelemetryValidForControl(d)
    /\ d.telemetry.output = OFF

StopContext(d, up) ==
    /\ Readable(d, up, TRUE)
    /\ ControlEnabled
    /\ d.telemetry.known /\ d.telemetry.fresh
    /\ d.telemetry.output = ON
=============================================================================
