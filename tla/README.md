# Formal model of the HWCDQ charger client

The repository controls a battery charger over Bluetooth LE. The charger speaks
a request/response protocol without sequence numbers, over a link that may be
lost, through a native stack whose writes may outlive the task that started
them, and its commands switch mains-powered output. The Python package
`src/packages/hwcdq-client` holds the control logic; the desktop application
(`src/src/hwcdq_control`) drives it from a Qt window; `src/native` ports the
framing and the codec to Kotlin and Swift.

This directory holds TLA+ modules that model the control logic, the TLC
configurations that check them on small instances, and theorems proved with
TLAPS. `PROJECT.json` maps every definition to the lines it models.

## Inventory

| Component | State it keeps | Operations | Correct when |
|---|---|---|---|
| Priority serializer, `serialization.py` | `_active`, heap of futures, counter | `acquire`, `release`, `slot` | one owner, no lost grant, priority then arrival |
| Session, `session.py` | state, generation, poison flag, readbacks, ambiguities, pending response, poll task, teardown task, orphaned writes | connect, disconnect, read, set, Start, Stop, polling, callbacks, reconnect gate | writes never overlap; what it shows is what the charger does, or it says it does not know; Start and Stop are what the operator confirmed; every call returns |
| BLE adapter, `bleak.py` | client, disconnect handler, notification wrappers | connect, disconnect, notify, write | no live client is hidden; a stale callback reaches nobody |
| Frame assembler, `framing.py` | buffer | `feed`, `reset` | frames do not depend on chunking; corruption fails closed |
| Codec, `protocol.py` | none | `encode_*`, `decode_*` | decode inverts encode; corruption is refused |
| GATT topology, `gatt.py` | none | `select_hwcdq_topology`, `chunks_for_write` | one unambiguous service; chunks concatenate to the frame |
| Profiles and limits, `profile.py` | none | `effective_limits`, `NumericRange` | a device maximum only ever narrows |
| Diagnostic logger, `diagnostics.py`, `redaction.py` | secrets, files | record, rotate | no secret is written; a failed rotation loses nothing |
| Desktop controller, `qt_controller.py` | session, reconnect supervisor, scan task, shutdown flag | start/stop scan, connect, disconnect, commands, shutdown | reconnects only after an unexpected read-only loss, never replays a mutation, stops when told |
| Test transport, `testing.py` | simulated link | the transport protocol | executable reference of what a transport may do |
| Qt window | device list, busy flag, scanning flag | scan button, queued signals, which buttons are offered | shows the newest scan, becomes free again, offers Disconnect while there is something to disconnect |
| Command line, packaging | none | start-up, builds | not modelled |
| Kotlin and Swift libraries | decoder buffer | framing, codec, limits | agree with the Python ones |

How they interact. Application tasks and the session's own poll call the
session on one asyncio loop. A method takes the serializer's slot, checks its
interlocks again, writes a frame through the transport (each chunk in an asyncio
task of its own), and waits for a future that the notification callback
completes. The transport also calls back when the native link is lost. Each
callback carries the generation of the connection it was registered for, and is
dropped when the session has moved on. When an exchange becomes uncertain the
session *poisons* the client: the generation is advanced, the readbacks are
forgotten and a task tears the link down. The controller runs the session on a
worker thread; Qt submits coroutines to it and receives queued signals. It makes
a new session object for each connection, after the old one's `disconnect()` and
`wait_until_reconnectable()`; after a loss in the middle of reading, a supervisor
task does so by itself, at most once per configured delay. Each command and each
recovery carries the intent generation it was started for.

What is hard here: a task may be cancelled at each await, in particular between
a grant and the resumption; native writes resist cancellation; answers cannot
be told apart; the link, the teardown and `connect()` end in any order;
`disconnect()` waits for the poll, the teardown and a setup at once; Start needs
a confirmation to remain true while it waits. The hazards are listed with their
lines in `PROJECT.json`.

## Modules

| Module | Models |
|---|---|
| `PriorityMutex` | what the serializer promises: an owner, a queue, direct handover |
| `PrioritySerializer` | `serialization.py`: heap, cancelled futures, detached `release()` |
| `MCPrioritySerializer` | its instance: three tasks, two priorities |
| `PrioritySerializerProofs` | theorems about `PrioritySerializer`, the refinement included |
| `SessionData` | the fields of a `ChargerSession` object and the helpers that do not await |
| `ChargerSession` | the session's methods, callbacks and tasks, on `PriorityMutex`; the native client, the radio, the charger |
| `MCChargerSession` | its instances: one or two callers, at most one poll task |
| `ChargerSessionProofs` | lemmas on the helpers of `SessionData`; theorems about `ChargerSession` |
| `ChargerSetupProofs` | three more, about what `connect()` and the poll establish and about the end of a link |
| `ChargerViewProofs` | three more, about what the charger hears before a Start, and about what the session knows of it |
| `DesktopController` | `qt_controller.py` and its worker: Connect, Disconnect, shutdown, the reconnect supervisor, over sessions seen from outside |
| `DeviceScan` | `qt_controller.py` and the window: scans, their generations, the operation registry, the signals to Qt |
| `MCDesktop` | their instances |
| `DesktopProofs` | theorems about `DesktopController` and `DeviceScan` |
| `BleakLink`, `BleakLinkProofs` | `bleak.py`: the native client across connect, disconnect and cancellation |
| `FrameStream` | `framing.py`, the structural half of `decode_packet`, and their Kotlin and Swift ports |
| `DeviceReports`, `DeviceReportsProofs` | `profile.py` and its ports: effective limits; `gatt.py`: the topology and the chunks |
| `DiagnosticLog`, `DiagnosticLogProofs` | `diagnostics.py`: the log file, its rotation, the registered secrets |
| `MCLibrary` | the instances of these four |

**Serializer.** `active` and `waiters` are the object's attributes. The counter `sequence`
is not kept: its numbers are compared between entries of the heap only, so a new entry takes
the number after the largest one there (`NextInHeap`), and waiters may arrive for ever.
`pc` is where each task stands: `waiting` on its future, `granted` when the
future is completed and the task has not run yet, `holding` inside the body.
`handbacks` counts the detached `release()` tasks that `acquire` creates when a
task is cancelled after its grant. The `asyncio.Lock` never suspends anybody,
because no body it guards awaits, so `acquire` up to the future and `release`
are single steps.

**Session.** An action is what one task or callback does between two awaits.
`s` is the object, `task[t]` says which method a task executes (`op`), where it
is suspended (`pc`), at which request of `Program(op)` (`step`, `chunk`) and
whether it was cancelled. `holder` and `queue` are the serializer.
`native[t]` is the task's current `transport.write()`; `orphans` are
`_orphaned_writes`. `link` is the native client with the generation it was
opened under (`id`) and the generation its disconnect callback is bound to
(`handler`); `lost` counts native disconnect notices the loop has not delivered.
`toDev` and `fromDev` are frames in flight, `dev` the charger. `heard` is
auxiliary: it only records. The `pc` values are the awaits: `queued` for the
slot, `writing`, `replying`; `linking`, `discovering`, `subscribing`, `settling`
inside `connect()` and `cleaning` in its except clauses; `quieting` (waiting for
the cancelled poll), `tearing` (for the poison teardown), `joining` (for a setup
it cancelled), `unsubscribing`, `hanging_up` inside `disconnect()` and Stop.

Each application task runs one method at a time, in any order. `Begin`,
`Continue`, `Failed` and `GiveUp` are `_request_locked` and the try/finally
around it, shared by all methods; what differs between them is in `Program`,
`Admitted`, `Confirm` and `AtomicStartContext`. A call rejected by its first
checks changes nothing and is not an action.

**Controller.** `job[j]` is a coroutine of the worker's loop: a command (in order
of submission; the last one is shutdown's own disconnect) or a recovery. `pc` says
where in `_connect`, `_disconnect` or `_recover_read_only` it is suspended and `at`
which await inside `session.connect()` or `session.disconnect()`. `ctl` holds
`_session`, `_desired_*` (`desired`), the intent generation, `_reconnect_task`
(`keeper`), `_closed`; `autos` and `last` only record. `sess[n]` is a session from
outside: its state, its native client, whether it has an orphaned write, was
poisoned, or was refused a disconnect. Since a coroutine runs from one await to the next through
several methods, each stretch is written as a function from a `World` to a `World`,
composed as the methods call each other, and an action is the stretch it starts with.
`worker` follows `shutdown()`: it waits for its disconnect no longer than its
timeout, stops the loop, and the loop cancels what is left.
A cancelled `connect()` closes its client, unless a native write of the setup was in flight:
that poisons the client and may leave the write behind (`CancelArrives`).

**Scan.** `scan` holds what both threads share under a lock, `coro` the coroutine of
each generation, `future` its concurrent future (`popped`: the callback has removed it
from the registry and not reported yet), `qt` what the Qt thread is in the middle of,
`signals` what the loop emitted and Qt has not received, `window` what is shown. What Qt emits itself it
shows at once, ahead of the queue.

**BLE adapter.** `call` is the one `connect()` or `disconnect()` in progress with its
local variables, `link` the object's `_client` and the owner of `_disconnect_handler`,
`native` the clients whose link is up. A cancellation during the shielded teardown
only sets a flag, however often it comes.

**Frames.** `received` is the stream, `decoder[p]` the buffer and the returned frames of
each port. The loop the ports share is one operator; what they do differently, the
checksum's arithmetic and the validation, is one each.

**Limits and GATT.** A report is a natural number or not a real number at all. `Wire`
is rounding to binary32, a constant operator: the model is checked with rounding to a
grid, and proved for any monotone rounding that leaves its results alone.

**Log.** A file is a sequence of bytes, of which a byte says only which record it
belongs to or that it is a newline. Each file operation of a rotation is a step, may
raise, and may be the last of the process; the next process opens what it finds.

### What is abstracted

- Payloads: a setpoint is one of two levels, a device maximum is one of them or
  0 (missing or malformed), a frame carries the fields that some decision reads.
- Time: the poll's quiet period and the settling delay are arbitrary; a write
  deadline may fire at any time if the instance has the fault `late_write`; a
  response deadline fires when nothing is left in flight, or at any time with
  `late_reply`. A readback is fresh until `Expire` says otherwise.
- The loop: tasks that are ready may be delayed and run in any order. This is
  more than asyncio does, which keeps them in a queue; the consequence is named
  under *Limits*.
- `refresh()` is its two reads, called separately. The firmware and serial reads
  of `connect()` are kept as exchanges and their values dropped.
- Events, diagnostics, `last_error`, argument validation, the confirmation
  object (only the pair of targets it holds is kept).

### Limits

- `disconnect()` is not cancelled by its caller; a Stop is not cancelled while it
  waits for the poll to end (the code swallows that cancellation). Cancellation
  at every other await is there.
- Callers do not call `connect()` while a `disconnect()` is under way. In the
  instance `new_client` they also wait for the reconnect gate, like the
  desktop application.
- One poll identity at a time. The native disconnect is one step.
- A generation is a natural number: Python integers do not wrap.
- The controller's sessions make one transition per await and hide their requests:
  a poisoning or a loss is one step with a choice of whether a mutation was at work.
  A write still awaited when its link is lost is left out here, since
  `session_new_client` already shows what it does to the reconnect gate. A Connect is
  pressed only while no command is under way, as the window offers it; Disconnect at
  any time. Shutdown's wait for the thread (3 s) is taken to be long enough.
- The transport makes one call at a time, which the session guarantees; a native
  disconnect notice comes with the loss, never after the client was replaced.
- One process uses the log at a time. A record has one length; its text and the
  redaction of it are left out.

## Runs

| Run | Instance | Shows |
|---|---|---|
| `serializer` | 3 tasks, 2 priorities, numbers up to 3 in the heap, no limit to arrivals | type, one owner, no unowned `release()`, no wedge, grants by priority and arrival, every waiter served unless more urgent ones keep arriving, refinement of `PriorityMutex` |
| `session_calls` | 2 callers and the poll, every method, 4 calls, 1 fault out of cancellation, late write, expiry, panel | type; the response future belongs to the slot's owner; a poll that nobody cancelled is the registered one, of a READY session; the two requests the charger handles right before a Start are re-reads of configuration and telemetry |
| `session_faults` | 2 callers, 4 calls, 1 fault out of refusal, silence, corruption, unknown layout, late write, late answer | a READY session that claims certainty agrees with the charger; Start takes effect only on the confirmed targets; no overlapping writes |
| `session_reconnect` | 2 callers, 3 calls, 2 faults out of link loss, failing, late or stuck native calls, swallowed cancellation, stray notifications; a two-chunk password | no overlapping writes across reconnections; a poisoned client is unusable; READY shows data of this connection only; DISCONNECTED hides no live link |
| `session_liveness` | 2 callers, 3 calls, 1 fault out of cancellation, late write, late answer, link loss | every call returns; a poisoned link goes down |
| `desktop` | 2 commands and shutdown, 2 delays, 3 faults out of loss, poisoning (with and without an orphaned write), failing open or setup, refused disconnect; and separately 2 scans of 2 devices | one native client at a time; a ready session is the newest intent's; after Disconnect or a quit nothing stays open that passes for closed; one recovery, at most one attempt per delay, none after Disconnect; every command, recovery and shutdown ends; a finished scan is shown whole and alone; the registry empties and the window becomes free |
| `library` | the log: 4 records, of 2 bytes or larger than a file, 2 processes, 0 to 2 backups, 2 holders of 2 secrets; every stream of 7 bytes over 4 byte values in chunks of up to 4; 3 native clients; every report over 0..24 against 16 models on a grid of 4; every GATT table of up to 2 services and 4 characteristics, all four in one service included | lines stay separate; only the oldest records are lost; files stay within their size; what is held is redacted; three decoders return what the stream contains; no live link is hidden; three ports grant the same limits, and only believable ones; only an unambiguous table is used |
| `session_stop_slot`, `session_second_write`, `session_new_client`, `session_stale_targets`, `desktop_backoff` | the smallest instance that shows it | the disagreements below |

`MCDesktop` and `MCLibrary` check parts that share no state in one run: the variable
`part` is chosen initially, and only that part moves. A property about a part then
holds in the behaviours of the others because they stay in its initial state.

**Bounds.** `MaxCalls` counts method calls and poll cycles, `MaxFaults` injected
faults, `MaxSequence` the numbers in the heap at once. Three or four calls are what the hazards need: a
connect, the operation, the operation that races it, and one that comes after;
a reconnection is one of them. Two faults matter where the failure of the
recovery is the question (`session_reconnect`), one elsewhere; `session_stale_targets` needs five calls
and three faults. Two levels make a
setpoint right, wrong or above the device's maximum. Two chunks are enough for
a write to be one of several. Two callers are symmetric and are declared so
where no liveness is checked. The serializer's four numbers let cancelled futures pile
up beneath live ones of both priorities; they leave the heap as `release()` pops past them, so
the run goes on for ever. Deadlock is not checked in the session's
runs: callers may stop calling, and the bounds run out. It is not checked in `library`
either, whose parts do nothing unless they are called; it is in `desktop`, where
only a closed worker or a finished scan may rest.

Three commands are a Connect, the Connect or Disconnect that overtakes it, and a
quit; three faults let a recovery be started, fail once and lose what it reached, so
that the second delay is used and the attempts run out (`Attempts` is 1 to 3 in the
code). Two scans let one be newer. Four records of two bytes fill four-byte files
twice over, and the record of five is larger than any; with two processes a log is
opened after a crash at every step of a rotation. Frames have 3 or 4 bytes with
`MaxFrame` 4, so 7 bytes hold two of them and the beginning of a third, and the byte values are two
valid lengths, an invalid one and one that makes checksums wrap. A third native client
follows one that was hung up and one that was refused. On the grid of 4 a model's minimum rounds
down, up, and not at all.

**Fairness.** Weak fairness of `Resume` or `Deadline` per task: asyncio runs what
is ready, and its timers fire. Weak fairness of a native connect returning or
failing, of the teardown task and of the detached `release()`. Nothing is assumed
of a native write, of an orphan, of the charger or of the radio, so `CallReturns`
rests on the code's deadlines. For the serializer, weak fairness of `Resume`,
`Release` (every transaction is bounded by deadlines, which
`session_liveness` shows) and of the detached `release()`; none of cancellation.
For the desktop, weak fairness of the loop as a whole (it runs what is ready: some
coroutine moves while any can), of native disconnects and orphaned writes coming to
an end (a refusal is an end, and spends the fault bound), and of `shutdown()` going
on after its timeout. `JobsEnd` excepts who waits for a link the platform would not let
go, since the code waits for that without limit. For the scan, weak fairness of Qt's own steps and
of the loop's: a scan lasts a given time.

**Slips.** Some definitions have a neighbour whose comment begins with *Slip*: the
same definition with a plausible bug. None is part of a specification. Each is
put in its neighbour's place to confirm that a given property then fails.

## Disagreements found

1. `session_stop_slot`. Stop cancels the poll and waits for its end, and queues for the slot only
   then. The slot which the poll leaves goes to whoever was queued already: a configuration
   read goes before this Stop. The documentation promises the next priority slot. (A poll
   cancelled in mid-write poisons the client, and Stop is then refused inside its slot, as the
   documentation says of a queued Stop; `StopIsNext` leaves that case out.)
2. `session_second_write`. The chunk loop does not look at the poison flag: after a
   corrupt notification between two chunks the next chunk is still written to
   the poisoned client.
3. `session_new_client`. The reconnect gate counts orphaned writes. A write its
   request is still awaiting when the link is lost is not one yet, and a
   new client can be opened beside it.
4. `session_stale_targets`. A request cancelled while it awaits its answer clears the pending
   slot and does not poison the client, so its late answer is taken for a later one. A configuration
   read and a telemetry read are cancelled so. The two re-reads of the next Start are written and then
   resolved by those older answers: the confirmed pair is compared with targets the charger reported
   before its front panel was used, and the output is switched on over the others. The documentation says
   that the re-reads show the current device targets. The requests do reach the charger first
   (`StartReadsFirst`); it is their answers that come too late.
5. `desktop_backoff`. Between two attempts of a recovery there is neither a link nor a
   connect in progress, and the window enables Disconnect only then. The live test
   procedure promises that pressing it during backoff cancels the remaining attempts;
   the controller would do so (`NoAttemptAfterDisconnect`), the window does not let it.

The late answer of the fourth has another effect. A configuration requested before a setter resolves
that setter's ambiguity before the charger has handled it, and the session shows the old value without
doubt: with one caller, `refresh_config` and `set_voltage`, three calls and two cancellations, TLC finds
`ViewAgrees` violated. So the passing runs check `ViewAgrees` and `StartAsConfirmed` without cancellation, and
`StartAsReported` only in the run that refutes it.

## Proved

`PrioritySerializerProofs` proves, for any set of tasks, any priorities and any
bound on the waiters (`SerializerAssumption`: priorities are naturals, and the
strings used as values of `Holder` are not tasks):

- `TypeCorrect`, `MutualExclusion`, `ReleaseIsOwned`, `NeverWedged`: the
  invariants `TypeOK`, `SingleOwner`, `NeverReleasedWithoutOwner`, `NotWedged`;
- `GrantOrder`: the action property `GrantsForemost`;
- `Refinement`: `Spec => Mutex!MutexSpec`, the heap implements the abstract mutex
  under the mapping `Holder`, `Queue`. `ChargerSession` stands on `PriorityMutex`,
  so this is what entitles it to.

Mutual exclusion is not inductive: with `active` false beside a task that holds
the slot it is true, and a second task may acquire. The inductive invariant `IInv` adds what the heap means (`HeapMatchesTasks`: each
uncancelled future belongs to a waiting task, each waiting task has exactly one,
and sequence numbers are unique) and that `active` says
exactly that somebody owns the slot or owes a release (`ActiveMeansOwned`). The
argument runs along two lemmas, `PassOnPreserves` for `release()`, whoever runs it,
and `NextPreserves` with a step per action. `StepSimulation` maps each action:
`Resume` and a cancelled future skipped to stuttering, `CancelGrant` to `Abandon`,
the detached `release()` to `HandBack`, `PassOn` to `Handover`.

`ChargerSessionProofs` proves, for any callers and poll tasks, any setpoints, any
confirmed pairs, any number of password chunks, any set of faults, both connect
policies and any bounds (`DataAssumption`, `SessionAssumption`: setpoints are positive
naturals, callers and polls are different tasks, `None` and the two values of
`holder` are not tasks):

- `TypeCorrect`: `TypeOK`;
- `NoOverlap`: `NoOverlappingWrites`;
- `PendingOwned`: `PendingBelongsToOwner`;
- `PoisonedClientUnusable`: `PoisonedUnusable`.

They stand on one inductive invariant, also called `IInv`. That writes do not overlap
cannot be proved from itself: a second write needs a second task at `writing`, which
needs the slot to have two owners, or a write left behind by an earlier one. So
`SlotInv` says that who writes or awaits an answer owns the slot and the response
future, that only such a task owns the future, that a native write belongs to a task
that is still waiting for it, and that a write left behind means a poisoned client and
nobody writing. Then `connect()` is the only step that makes a poisoned client usable
again, and its gate (`PoisonGateShut`) is where orphans are excluded. `SetupIsCurrent`
closes the other way round the gate: a `connect()` that is still of the present
generation was started on a client not poisoned since, so `_ensure_connect_is_current`
keeps an overtaken one from setting a readable state. `StepsInProgram` and
`QueueBounded` are what types need: the next request and the next ticket exist.

The proof has a lemma per action. The steps share their ends, so most lemmas state what
`Begin`, `Send`, `GiveUp`, `Failed` and the like leave behind (`Sent`, `GaveUp`), and
four carry the invariant across: `SentKeeps` (a request starts), `LeftKeeps` (one
ends), `GaveUpAside` (a task gives up outside a request), `QuietKeeps` (nothing of the
kind). `Forward` says which sessions a step may leave behind: no generation goes back,
and a client is poisoned only on its way to a new one.

`ChargerSetupProofs` goes on from `IInv`, under the same assumptions:

- `ReadySessionWhole`: `ReadyIsWhole`;
- `PollsAreReachable`: `PollReachable`.

Its strengthening `SInv` is an account of `connect()`. There is at most one setup, the one
the session calls its connector (`OneSetup`); a `disconnect()` ends the generation of every
setup and READY with it (`Overtaken`), so a setup that is still current has been overtaken by
nobody, and what it has established by each place and each request of its program
(`Progress`: topology, authentication, the two readbacks) stays so. A readback counts only
if it came as the answer to the setup's own request, which is what `Answers` keeps: the
pending response, and the frame in it, are of the request its owner has reached. From
this `SetupDone` makes a whole session READY, and READY keeps it whole until the
generation changes. A poll starts only in READY, registered; `PollReachable` needs besides
that every step that leaves READY cancels the registered poll. It replaces an earlier
property, that a Stop leaves no poll exchange beside it: with five calls TLC refutes that
one, since a poll which was cancelled in mid-write, forgotten and replaced may still be
unwinding when the next Stop comes. What holds, and what Stop relies on, is that nobody
forgets a poll that has not been told to end.

Its third theorem goes on from `IInv` and `SInv` with the inductive invariant `DInv`, and has a
hypothesis:

- `DisconnectedIsDown`: `DisconnectedMeansDown`, unless `Faults` has both `link_loss` and `stuck_link`.

Each alone is allowed, with all other faults. With both, and a cancellation, it is
false: a client is lost, and before its callback runs the next `connect()`
is linked and cancelled; the late callback arrives while that `connect()` cleans up, takes
the loss for the one expected and shows DISCONNECTED; a second cancellation then cuts the
clean-up off and the native disconnect it leaves behind has no effect. The new client is up. TLC finds
this with four faults; with the two of `session_reconnect`, which has both of them, the property
holds, and there only TLC says so.

DISCONNECTED is published by `disconnect()`, by the teardown and by the native callback, and each
must have seen the end of the same client. `DInv` says that a callback is bound to
the present generation at the latest and to an older one once somebody is leaving (`Handled`); that
an end is expected only while a `disconnect()`, a teardown or a clean-up is about to bring it
(`Expecting`); that only `disconnect()` says DISCONNECTING and only a poisoned client is torn down; that
a client is connected by a setup that found none up (`LinkingDown`), and that `disconnect()` hangs up
when the setup it cancelled is over (`JoinsSetup`). `Lossless` covers the instances without lost links:
there no notice waits to be delivered, so no setup in flight finds the session DISCONNECTED. Most steps
have nothing to do with any of this and share one lemma (`Bears` says what they may do to the
session); the steps that leave the link have one each (`Standing`, `Departing`).

`ChargerViewProofs` goes on from `IInv` and `SInv`, under the same assumptions. One theorem has no
hypothesis, and the other two have one:

- `StartRereads`: `StartReadsFirst`;
- `ViewIsRight`: `ViewAgrees`, unless `Faults` has `cancel` or `panel`;
- `StartIsConfirmed`: `StartAsConfirmed`, unless `Faults` has `cancel` or `panel`.

`heard.last` is what the charger handled last, whoever asked, so it must be shown that nothing gets between
a re-read and its Start: not the other task's request, not a write that outlived its
request, not a frame of an earlier link. `RInv` looks at all requests of the present link in order, those
heard and those still in the air (`Said`). It says of each task inside a Start that its re-reads
are the last of them, as far as the request it has reached and the place of that request, native write or air,
imply (`Rereads`); that each Start in the air comes right after both re-reads (`StartsReread`), and one
left behind in a native write would (`OrphansReread`); and that a write of an older link is told by its
number and cannot land on the present one (`LinksOld`). Mutual exclusion of the transactions is not enough, since a
write outlives the transaction it belongs to: what serves is that a write left behind means a poisoned
client, on which nobody begins another (`IInv`). `GoesKeeps` carries `RInv` over every step, from what
happens to the task (`Goes`: it opens a transaction, follows its program, stays, or leaves).

The hypothesis is what the fourth disagreement takes away: once a caller leaves a request that the charger
has not answered, a reading from before a mutation can arrive after the session believes the mutation
settled. The panel changes the charger behind the session's back, and nothing the session does could make its
view right. Every other fault is allowed: refusals, silence, damaged frames, unknown layouts, writes
and answers that come after their deadline, unsolicited and stale frames, failing writes and connects, lost and
stuck links, cancellations that are swallowed; and so are the cancellations the session itself sends to
its poll and to a setup it overtakes.

`VInv` treats the two things a mutation changes, targets and output, alike (`Aspects`). About each, while the
session is open, either nothing is on its way (`Peaceful`: no mutation towards the charger, no
acknowledgement back, and every reading in flight is right), or one mutation is and its caller still waits for
the answer (`AirKnown`). While it is on its way out, all readings in flight are right (`Coming`); once the charger
has handled it, those behind its acknowledgement are (`Through`), and those ahead of it may be old. The
session takes the frames in order, so an old reading is taken while the caller waits, and only by the caller's own
answer does the wait end well; any other end poisons the client, which closes the session, or
leaves an ambiguity. Hence what is shown is right, or doubted, or being changed (`ViewKnown`), and with the
slot free and no ambiguity it is right. For Start, `StartsSound` says of each one that may still reach the charger, in
the air, in a native write or in one left behind, that it is for the targets the charger has and that no
setter is ahead of it. A Start gets there after a re-read which, by `AnswerShown` and `StartShown`, is right when it is
compared.

Here the lemmas are split by who moves. A step of a task is `Carried`: the task rests, keeps its request
or opens one (`Tends`), it writes and drops one notification at most, and `QuietKeepsView` carries
`VInv` over it from there. The steps of the native stack, the radio and the charger have a lemma each, which
follow the queues frame by frame (`ChargerTakesKeepsView`, `NativeLandsKeepsView`, `OrphanEndsKeepsView`,
`NotifiedKeepsView`).

`BleakLinkProofs` proves, for any number of clients:

- `LinkNeverHidden`: `NoHiddenLink`;
- `LossReachesSession`: the action property `LossReported`, which no run checks apart.

`NoHiddenLink` says nothing of a call in progress but that its client is still the
object's; the inductive invariant adds, for each place `call.at`, which client the local
variables hold, that only that client can be up, and that its handler is the one a
refused teardown would restore.

`DeviceReportsProofs` proves, for any models, reports and numbers, and any rounding
that is monotone, keeps 0 and leaves its own results alone (`WireAssumption`,
`ModelAssumption`; binary32 rounding of positive numbers is such):

- `LimitsFailClosedAlways`: `LimitsFailClosed`.

A lemma per port shows its maximum to be refused or the lesser of report and model
(`PythonMaximumSound`, `SwiftMaximumSound`, `KotlinMaximumSound`); that a maximum replaced by the unrounded
minimum admits the same setpoints needs that both have the same wire value.

`DiagnosticLogProofs` proves, for any limits, records, processes and contexts
(`LogAssumption`: records have a byte besides their newline, contexts are finite in number):

- `LinesStaySeparate`: `OwnLine`;
- `HeldIsRedacted`: `RedactsWhatIsHeld`;
- `FilesStayBounded`: `FilesBounded`;
- `OnlyOldestRecordsLost`: `OnlyOldestLost`.

A torn line keeps `OwnLine` true; what would break it is the next record. So `LineInv` adds
that an active log between two records, or about to take one, exists and ends with a
newline, and `OpeningCloses` that opening makes it so whatever was left. For the
secrets `SecretInv` equates each count with the number of its holders while
the logger lives; after `close()` nothing is claimed.

The files need two facts about a rotation in progress (`FilesInv`): the number above the
next file to move is free, and no log exists while it is about to be reopened. With them a
file only moves into a gap, which keeps its place among the others
(`MovingKeepsText`), and the file that is dropped has the highest number, so everything in it
is older than what remains (`DroppingLosesOldest`); `HistoryInv` adds that while `emit()` is at work
every byte on disk belongs to an earlier record. For the sizes `SizeInv` says that a log
whose last line is open has room for the newline that will close it, or is one line (`HasRoom`), and
that a line about to be written fits or goes to an empty file.

`DesktopProofs` proves, for any number of devices and scans (`ScanAssumption`):

- `ScanTypesHold`: `ScanTypeOK`;
- `ScansEndQuiet`: `QuietAtRest`;
- `FinishedScansShown`: `FinishedScanIsShown`.

That the window is free at rest follows from a chain: a busy window is either in the
middle of `start_scan()`, or has a current scan whose end is still to be reported, or has a
completion on its way (`BusyWaits`), and a completion never says "busy" (`Truthful`). The
registry holds the newest scan between its registration and its end and nothing else
(`Registered`), which covers a future that ends before its callback is added. The list
needs to be followed through the queue: `LastShown` says that a list is the last one on its
way to the window, or is shown with none behind it; a scan that returned without having
been stopped has this with what it heard, and no step of an older generation undoes it.

And, for any number of commands and troubles and one to three delays (`ControllerAssumption`;
at least one command, since shutdown makes one):

- `ControllerTypesHold`: `ControllerTypeOK`;
- `NeverTwoClients`: `OneClient`;
- `RecoveriesAreBounded`: `RecoveryBounded`;
- `LatestIntentIsKept`: `LatestIntentWins`;
- `AttemptsAreWanted`: the action property `NoAttemptAfterDisconnect`;
- `DisconnectsStick`: `DisconnectSticks`.

The first five come from one invariant, `CtlInv`. A step of a coroutine goes through several
methods before the next await, and the model composes them as functions of a world, so the
proof follows worlds as well. `Steady(w, K, r, t)` describes a world in which the jobs K are
at an await: where each can be and on which session (`Places`, `Opens`, `Recovers`), that only
the newest session has a client (`OnlyNewest`), that who leaves a session waits for who
opens it (`Joins`), that Connects come one after the other (`OneConnect`, `Ordered`), that
a Disconnect under way has made every other intent stale (`Overruled`), and that a recovery the
controller has forgotten is awaited by the command that cancelled it (`Awaited`). `Moves` is
the same without the job that is running, `Good` its result; one lemma per function shows
that it takes the one to the other (`OpenOK`, `NextAttemptOK`, `AwaitReleaseOK`,
`DisconnectOK`, ...), and one per action that the world it starts from is such a one. The
bounds are part of it: `Funded` pays for each session ever made with a command that has
not opened yet or with a trouble, which is why the types hold without a guard on them.

`DisconnectSticks` needs more (`Tidy`): DISCONNECTED is shown only by a session without a
client (`Down`); a client that is up while somebody awaits its native disconnect was refused
(`Refused`); and, while the loop runs and the last command was a Disconnect, a client that
is there is one the platform refused under ERROR, or some coroutine that has not been told to stop
is still going to close it: a command before its `disconnect()`, whoever is inside one, or
the `connect()` that will find itself unwanted (`Attended`). `Lands` carries this through the
same functions. At rest nobody attends, so what is left was refused.

Only model-checked:

- `WaiterServed` (a stream of more urgent waiters starves the others, and nothing else keeps
  one from the slot), `CallReturns`, `PoisonedLinkGoesDown`, `JobsEnd`, `ShutdownEnds`,
  `ScanEnds`: liveness is out of the prover's reach.
- `DisconnectedMeansDown` where links are both lost and kept up, as above.
- `StreamDecoded`, `TopologyFailClosed`: they are about what recursive definitions compute.

## Not modelled

- The byte offsets of the configuration and telemetry payloads, the encoders and
  the meaning of each opcode: straight-line layout, which the repository compares across its
  three languages by shared fixtures.
- Redaction of text and sanitising of values: string processing. The file kinds and
  permissions the log checks, two processes on one log.
- `connect()` overlapping `disconnect()` on one session, which needs the order of the loop's ready
  queue; two calls of one transport at once; in `BleakLink`, a native callback that arrives after its
  client was replaced (`ChargerSession` delivers it at any later time).
- The controller's guard that keeps the password registered, the snapshots and packets it emits,
  the charger commands it forwards.
- The window's rendering and dialogs, theme, command line, build tools, fixtures.
