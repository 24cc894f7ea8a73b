----------------------------- MODULE DeviceScan -----------------------------
(***************************************************************************)
(* Scanning for chargers: qt_controller.py's start_scan, stop_scan, _scan   *)
(* and _finish_future, and the part of the window that shows them.         *)
(*                                                                         *)
(* Qt and the worker loop share _scan_state_lock and _operation_lock.  What *)
(* the loop emits is queued for Qt; what Qt emits itself is shown at once, *)
(* ahead of what is still queued.                                          *)
(***************************************************************************)
EXTENDS Naturals, Sequences, FiniteSets

CONSTANTS Devices,   \* identifiers that advertise
          MaxScans   \* bound: scans started

ASSUME ScanAssumption == MaxScans \in Nat

Scans == 1..MaxScans

VARIABLES
    scan,      \* the generation, the cancelled generations, _discovered, _active_futures
    coro,      \* the _scan coroutine of each generation: where it is, what it heard
    future,    \* the concurrent future of each generation
    qt,        \* what the Qt thread is in the middle of
    signals,   \* emitted by the loop, not yet delivered
    window     \* _devices, _operation_busy and _scanning

scanVars == <<scan, coro, future, qt, signals, window>>

ScanInit ==
    /\ scan = [generation |-> 0, cancelled |-> {}, discovered |-> {}, active |-> {}]
    /\ coro = [g \in Scans |-> [at |-> "none", heard |-> {}]]
    /\ future = [g \in Scans |-> "none"]
    /\ qt = "idle"
    /\ signals = <<>>
    /\ window = [devices |-> {}, busy |-> FALSE, scanning |-> FALSE]

(* Slip: only a stop makes an update stale. *)
UpdateIsUncancelled(g) == g \notin scan.cancelled

(* _scan_update_is_current_unlocked *)
UpdateIsCurrent(g) == g = scan.generation /\ g \notin scan.cancelled

DevicesChanged(found) == [kind |-> "devices", found |-> found]
OperationChanged(busy) == [kind |-> "operation", busy |-> busy]

(* _apply_operation for a scan's completion. *)
Finish(w, busy) == [w EXCEPT !.busy = busy, !.scanning = FALSE]

-----------------------------------------------------------------------------
(* The Qt thread. *)

(* Slip: the stopped generations are never forgotten. *)
StartScanKeepingCancelled ==
    LET g == scan.generation + 1
    IN /\ qt = "idle" /\ ~window.scanning /\ g \in Scans
       /\ scan.generation # 0 => future[scan.generation] # "pending"
       /\ scan' = [scan EXCEPT !.generation = g, !.discovered = {}]
       /\ coro' = [coro EXCEPT ![g].at = "submitted"]
       /\ future' = [future EXCEPT ![g] = "pending"]
       /\ qt' = "starting"
       /\ window' = [window EXCEPT !.devices = {}, !.busy = TRUE]
       /\ UNCHANGED signals

(* start_scan() up to the submission: a new generation, an empty list. *)
StartScan ==
    LET g == scan.generation + 1
    IN /\ qt = "idle" /\ ~window.scanning /\ g \in Scans
       /\ scan.generation # 0 => future[scan.generation] # "pending"
       /\ scan' = [scan EXCEPT !.generation = g, !.cancelled = {}, !.discovered = {}]
       /\ coro' = [coro EXCEPT ![g].at = "submitted"]
       /\ future' = [future EXCEPT ![g] = "pending"]
       /\ qt' = "starting"
       /\ window' = [window EXCEPT !.devices = {}, !.busy = TRUE]
       /\ UNCHANGED signals

(* The button says "scan" while one runs: a completion queued by an older scan
   made the window think that none does. *)
ScanIgnored ==
    /\ qt = "idle" /\ ~window.scanning
    /\ scan.generation # 0 /\ future[scan.generation] = "pending"
    /\ window' = [window EXCEPT !.scanning = TRUE]
    /\ UNCHANGED <<scan, coro, future, qt, signals>>

(* Slip: a future that ended before its registration stays registered. *)
RegisterEnded ==
    /\ qt = "starting"
    /\ qt' = "idle"
    /\ scan' = [scan EXCEPT !.active = @ \cup {scan.generation}]
    /\ window' = [window EXCEPT !.scanning = TRUE]
    /\ UNCHANGED <<coro, future, signals>>

(* _finish_future registers the future and its callback, which runs here and
   now if the scan has already ended; only then _toggle_scan sets _scanning. *)
Register ==
    LET g == scan.generation
        ended == future[g] # "pending"
    IN /\ qt = "starting"
       /\ qt' = "idle"
       /\ scan' = [scan EXCEPT !.active = IF ended THEN @ ELSE @ \cup {g}]
       /\ window' = [(IF ended THEN Finish(window, scan.active # {}) ELSE window)
                        EXCEPT !.scanning = TRUE]
       /\ UNCHANGED <<coro, future, signals>>

(* stop_scan() reads done(), marks the generation, then cancels the future;
   a future that ended in between refuses. *)
StopScan ==
    LET g == scan.generation
    IN /\ qt = "idle" /\ window.scanning
       /\ IF future[g] = "pending"
          THEN /\ scan' = [scan EXCEPT !.cancelled = @ \cup {g}]
               /\ qt' = "stopping"
               /\ UNCHANGED window
          ELSE /\ window' = [window EXCEPT !.scanning = FALSE]
               /\ UNCHANGED <<scan, qt>>
       /\ UNCHANGED <<coro, future, signals>>

CancelFuture ==
    LET g == scan.generation
        cancels == future[g] = "pending"
        active == scan.active \ {g}
    IN /\ qt = "stopping"
       /\ qt' = "idle"
       /\ future' = IF cancels THEN [future EXCEPT ![g] = "cancelled"] ELSE future
       /\ scan' = IF cancels THEN [scan EXCEPT !.active = active] ELSE scan
       /\ window' = [(IF cancels THEN Finish(window, active # {}) ELSE window)
                        EXCEPT !.scanning = FALSE]
       /\ UNCHANGED <<coro, signals>>

Deliver ==
    /\ qt = "idle" /\ signals # <<>>
    /\ LET s == Head(signals)
       IN window' = IF s.kind = "devices" THEN [window EXCEPT !.devices = s.found]
                                          ELSE Finish(window, s.busy)
    /\ signals' = Tail(signals)
    /\ UNCHANGED <<scan, coro, future, qt>>

-----------------------------------------------------------------------------
(* The worker loop. *)

ScanBegins(g) ==
    /\ coro[g].at = "submitted"
    /\ coro' = [coro EXCEPT ![g].at = "scanning"]
    /\ UNCHANGED <<scan, future, qt, signals, window>>

(* on_advertisement, and the scanner's own record for the final batch.  It also
   hears devices after the stop, until its cancellation arrives. *)
Advertised(g, d) ==
    /\ coro[g].at = "scanning" /\ d \notin coro[g].heard
    /\ coro' = [coro EXCEPT ![g].heard = @ \cup {d}]
    /\ IF UpdateIsCurrent(g)
       THEN LET found == scan.discovered \cup {d}
            IN /\ scan' = [scan EXCEPT !.discovered = found]
               /\ signals' = Append(signals, DevicesChanged(found))
       ELSE UNCHANGED <<scan, signals>>
    /\ UNCHANGED <<future, qt, window>>

(* The scanner returns its final batch, or raises. *)
ScanReturns(g) ==
    /\ coro[g].at = "scanning"
    /\ coro' = [coro EXCEPT ![g].at = "returned"]
    /\ IF UpdateIsCurrent(g)
       THEN LET found == scan.discovered \cup coro[g].heard
            IN /\ scan' = [scan EXCEPT !.discovered = found]
               /\ signals' = Append(signals, DevicesChanged(found))
       ELSE UNCHANGED <<scan, signals>>
    /\ UNCHANGED <<future, qt, window>>

ScanRaises(g) ==
    /\ coro[g].at = "scanning"
    /\ coro' = [coro EXCEPT ![g].at = "failed"]
    /\ UNCHANGED <<scan, future, qt, signals, window>>

CancelLands(g) ==
    /\ coro[g].at = "scanning" /\ future[g] = "cancelled"
    /\ coro' = [coro EXCEPT ![g].at = "cancelled"]
    /\ UNCHANGED <<scan, future, qt, signals, window>>

(* The future is set, and on_done pops it from the registry under the lock... *)
FutureDone(g) ==
    /\ coro[g].at \in {"returned", "failed"} /\ future[g] = "pending"
    /\ g \in scan.active
    /\ future' = [future EXCEPT ![g] = "popped"]
    /\ scan' = [scan EXCEPT !.active = @ \ {g}]
    /\ UNCHANGED <<coro, qt, signals, window>>

(* ...(or has no callback yet, and Qt will run it when it registers)... *)
FutureDoneEarly(g) ==
    /\ coro[g].at \in {"returned", "failed"} /\ future[g] = "pending"
    /\ qt = "starting" /\ g = scan.generation
    /\ future' = [future EXCEPT ![g] = "done"]
    /\ UNCHANGED <<scan, coro, qt, signals, window>>

(* Slip: the completion of a stopped scan is discarded like its updates. *)
CompleteUncancelled(g) ==
    /\ future[g] = "popped"
    /\ future' = [future EXCEPT ![g] = "done"]
    /\ signals' = IF UpdateIsCurrent(g) THEN Append(signals, OperationChanged(FALSE)) ELSE signals
    /\ UNCHANGED <<scan, coro, qt, window>>

(* ...and asks its guard, outside the lock, before it reports.  still_busy was
   read when it popped: no other scan can be registered before it. *)
Complete(g) ==
    /\ future[g] = "popped"
    /\ future' = [future EXCEPT ![g] = "done"]
    /\ signals' = IF g = scan.generation THEN Append(signals, OperationChanged(FALSE)) ELSE signals
    /\ UNCHANGED <<scan, coro, qt, window>>

ScanLoop(g) ==
    \/ ScanBegins(g) \/ ScanReturns(g) \/ ScanRaises(g) \/ CancelLands(g)
    \/ FutureDone(g) \/ FutureDoneEarly(g) \/ Complete(g)

ScanNext ==
    \/ StartScan \/ ScanIgnored \/ Register \/ StopScan \/ CancelFuture \/ Deliver
    \/ \E g \in Scans : ScanLoop(g) \/ \E d \in Devices : Advertised(g, d)

(* Qt delivers, the loop runs, and a scan lasts scan_duration. *)
ScanFairness ==
    /\ WF_scanVars(Register \/ CancelFuture \/ Deliver)
    /\ WF_scanVars(\E g \in Scans : ScanLoop(g))

ScanSpec == ScanInit /\ [][ScanNext]_scanVars /\ ScanFairness

-----------------------------------------------------------------------------
(* The types; of the stopped generations only the newest is ever kept. *)
ScanTypeOK ==
    /\ scan.cancelled \subseteq {scan.generation}
    /\ scan \in [generation : 0..MaxScans, cancelled : SUBSET Scans,
                 discovered : SUBSET Devices, active : SUBSET Scans]
    /\ coro \in [Scans -> [at : {"none", "submitted", "scanning", "returned", "failed", "cancelled"},
                           heard : SUBSET Devices]]
    /\ future \in [Scans -> {"none", "pending", "popped", "done", "cancelled"}]
    /\ qt \in {"idle", "starting", "stopping"}
    /\ signals \in Seq([kind : {"devices"}, found : SUBSET Devices]
                        \cup [kind : {"operation"}, busy : BOOLEAN])
    /\ window \in [devices : SUBSET Devices, busy : BOOLEAN, scanning : BOOLEAN]

ScanAtRest == /\ qt = "idle" /\ signals = <<>>
              /\ \A g \in Scans : /\ coro[g].at \notin {"submitted", "scanning"}
                                  /\ future[g] \notin {"pending", "popped"}

(* When the newest scan ran to its end, the window shows exactly what it
   heard: nothing of an older scan, whose advertisements, final batch and
   queued lists may all arrive after it began. *)
FinishedScanIsShown ==
    LET g == scan.generation
    IN ScanAtRest /\ g # 0 /\ coro[g].at = "returned" /\ g \notin scan.cancelled
         => window.devices = coro[g].heard

(* No order of start, stop, failure and completion leaves a future registered
   or the window busy for ever. *)
QuietAtRest == ScanAtRest => scan.active = {} /\ ~window.busy

(* A busy window becomes free again. *)
ScanEnds == window.busy ~> ~window.busy

=============================================================================
