--------------------------- MODULE DesktopProofs ---------------------------
(***************************************************************************)
(* Proofs about the desktop's two components.  The scan (DeviceScan.tla):  *)
(* its types, its quiet end, and the list the window keeps.  The           *)
(* connection commands and the recovery (DesktopController.tla): one       *)
(* native client, the newest intent, the bounded recovery, and what a      *)
(* Disconnect leaves behind.                                               *)
(***************************************************************************)
EXTENDS DesktopController, DeviceScan, FiniteSetTheorems, TLAPS

-----------------------------------------------------------------------------
(* DeviceScan. *)

Current(g) == g = scan.generation

(* Generations not started yet have done nothing; an older one has ended or is about to
   report its end. *)
Generations ==
    /\ \A g \in Scans : g > scan.generation =>
          coro[g] = [at |-> "none", heard |-> {}] /\ future[g] = "none"
    /\ \A g \in Scans : g < scan.generation => future[g] # "pending"
    /\ window.scanning \/ qt # "idle" => scan.generation # 0

(* The registry holds the newest scan from its registration to its end, and no other. *)
Registered ==
    scan.active = {g \in Scans : Current(g) /\ future[g] = "pending" /\ qt # "starting"}

(* A completion on its way to the window always says that nothing is at work. *)
Completes(e) == e.kind = "operation"
Truthful == \A i \in 1 .. Len(signals) : Completes(signals[i]) => ~signals[i].busy

(* A busy window waits for the end of a scan, or for the news of it. *)
BusyWaits ==
    window.busy =>
        \/ qt = "starting"
        \/ \E g \in Scans : Current(g) /\ future[g] \in {"pending", "popped"}
        \/ \E i \in 1 .. Len(signals) : Completes(signals[i])

(* The last list the window has, or is about to get, is `found`. *)
Silent(from) == \A k \in from .. Len(signals) : signals[k].kind # "devices"
LastShown(found) ==
    \/ \E i \in 1 .. Len(signals) : signals[i] = DevicesChanged(found) /\ Silent(i + 1)
    \/ window.devices = found /\ Silent(1)

(* The list is what the newest scan has heard, once it has returned. *)
Lists ==
    \A g \in Scans : Current(g) =>
        /\ scan.discovered \subseteq coro[g].heard
        /\ coro[g].at = "returned" /\ g \notin scan.cancelled => LastShown(coro[g].heard)

ScanInv == /\ ScanTypeOK /\ Generations /\ Registered
           /\ Truthful /\ BusyWaits /\ Lists

Signal == [kind : {"devices"}, found : SUBSET Devices] \cup [kind : {"operation"}, busy : BOOLEAN]

(* What the window shows last is decided by the last list on its way. *)
LEMMA ShownAppended ==
    ASSUME signals \in Seq(Signal), NEW e \in Signal, signals' = Append(signals, e),
           window' = window
    PROVE  /\ e.kind # "devices" => \A found : LastShown(found) => LastShown(found)'
           /\ \A found : e = DevicesChanged(found) => LastShown(found)'
           /\ Truthful /\ (Completes(e) => ~e.busy) => Truthful'
           /\ Completes(e) => \E i \in 1 .. Len(signals') : Completes(signals'[i])
           /\ signals' \in Seq(Signal)
<1>1. /\ Len(signals) \in Nat /\ Len(signals') = Len(signals) + 1
      /\ signals'[Len(signals) + 1] = e
      /\ \A i \in 1 .. Len(signals) : signals'[i] = signals[i]
  OBVIOUS
<1>2. \A found : e = DevicesChanged(found) => LastShown(found)'
  BY <1>1 DEF LastShown, Silent
<1>3. ASSUME e.kind # "devices", NEW found, LastShown(found)
      PROVE  LastShown(found)'
  <2>1. ASSUME NEW from \in Nat \ {0}, Silent(from)
        PROVE  Silent(from)'
    BY <1>1, <1>3, <2>1 DEF Silent
  <2> QED
    BY <1>1, <1>3, <2>1 DEF LastShown
<1>4. Truthful /\ (Completes(e) => ~e.busy) => Truthful'
  BY <1>1 DEF Truthful
<1>5. Completes(e) => \E i \in 1 .. Len(signals') : Completes(signals'[i])
  BY <1>1 DEF Completes
<1>6. signals' \in Seq(Signal)
  OBVIOUS
<1> QED
  BY <1>2, <1>3, <1>4, <1>5, <1>6

(* Delivering the first signal changes nothing about what is shown last. *)
LEMMA ShownDelivered ==
    ASSUME ScanTypeOK, Truthful, Deliver
    PROVE  /\ signals' \in Seq(Signal) /\ Truthful'
           /\ \A found : LastShown(found) => LastShown(found)'
           /\ window'.busy => /\ window.busy
                              /\ (\E i \in 1 .. Len(signals) : Completes(signals[i]))
                                   => \E i \in 1 .. Len(signals') : Completes(signals'[i])
<1> DEFINE e == Head(signals)
<1>1. /\ signals \in Seq(Signal) /\ signals # <<>> /\ signals' = Tail(signals)
      /\ window \in [devices : SUBSET Devices, busy : BOOLEAN, scanning : BOOLEAN]
  BY DEF ScanTypeOK, Signal, Deliver
<1>2. /\ Len(signals) \in Nat \ {0} /\ Len(signals') = Len(signals) - 1
      /\ e = signals[1] /\ e \in Signal /\ signals' \in Seq(Signal)
      /\ \A i \in 1 .. Len(signals') : signals'[i] = signals[i + 1]
  BY <1>1
<1>3. ASSUME NEW from \in Nat \ {0, 1}, Silent(from)
      PROVE  Silent(from - 1)'
  <2> SUFFICES ASSUME NEW k \in (from - 1) .. Len(signals') PROVE signals'[k].kind # "devices"
    BY DEF Silent
  <2>1. k + 1 \in from .. Len(signals) /\ k \in 1 .. Len(signals')
    BY <1>2
  <2> QED
    BY <1>2, <1>3, <2>1 DEF Silent
<1>4. ASSUME NEW found, NEW i \in 2 .. Len(signals),
             signals[i] = DevicesChanged(found), Silent(i + 1)
      PROVE  LastShown(found)'
  <2>1. /\ i - 1 \in 1 .. Len(signals') /\ signals'[i - 1] = DevicesChanged(found)
        /\ i + 1 \in Nat \ {0, 1}
    BY <1>2, <1>4
  <2>2. Silent((i - 1) + 1)'
    BY <1>2, <1>3, <1>4, <2>1
  <2> QED
    BY <2>1, <2>2 DEF LastShown
<1>5. Truthful'
  BY <1>2 DEF Truthful
<1>6. CASE e.kind = "devices"
  <2>1. window' = [window EXCEPT !.devices = e.found]
    BY <1>6 DEF Deliver
  <2>2. ASSUME NEW found, LastShown(found) PROVE LastShown(found)'
    <3>1. ~Silent(1)
      BY <1>2, <1>6 DEF Silent
    <3>2. PICK i \in 1 .. Len(signals) : signals[i] = DevicesChanged(found) /\ Silent(i + 1)
      BY <2>2, <3>1 DEF LastShown
    <3>3. CASE i = 1
      <4>1. window'.devices = found
        BY <1>1, <1>2, <2>1, <3>2, <3>3 DEF DevicesChanged
      <4>2. Silent(1)'
        BY <1>2, <1>3, <3>2, <3>3
      <4> QED
        BY <4>1, <4>2 DEF LastShown
    <3> QED
      BY <1>2, <1>4, <3>2, <3>3
  <2>3. /\ window'.busy = window.busy
        /\ (\E i \in 1 .. Len(signals) : Completes(signals[i]))
             => \E i \in 1 .. Len(signals') : Completes(signals'[i])
    <3>1. \A i \in 1 .. Len(signals) : Completes(signals[i]) =>
             i - 1 \in 1 .. Len(signals') /\ signals'[i - 1] = signals[i]
      BY <1>2, <1>6 DEF Completes
    <3> QED
      BY <1>1, <2>1, <3>1
  <2> QED
    BY <1>2, <1>5, <2>2, <2>3
<1>7. CASE e.kind # "devices"
  <2>1. e.kind = "operation" /\ ~e.busy
    BY <1>2, <1>7 DEF Signal, Truthful, Completes
  <2>2. window' = Finish(window, e.busy)
    BY <1>7 DEF Deliver
  <2>3. window'.devices = window.devices /\ ~window'.busy
    BY <1>1, <2>1, <2>2 DEF Finish
  <2>4. ASSUME NEW found, LastShown(found) PROVE LastShown(found)'
    <3>1. CASE window.devices = found /\ Silent(1)
      <4>1. Silent(2)
        BY <1>2, <3>1 DEF Silent
      <4>2. Silent(1)'
        BY <1>3, <4>1
      <4> QED
        BY <2>3, <3>1, <4>2 DEF LastShown
    <3>2. ASSUME NEW i \in 1 .. Len(signals), signals[i] = DevicesChanged(found), Silent(i + 1)
          PROVE  LastShown(found)'
      <4>1. i \in 2 .. Len(signals)
        BY <1>2, <1>7, <3>2 DEF DevicesChanged
      <4> QED
        BY <1>4, <3>2, <4>1
    <3> QED
      BY <2>4, <3>1, <3>2 DEF LastShown
  <2> QED
    BY <1>2, <1>5, <2>3, <2>4
<1> QED
  BY <1>6, <1>7

(* start_scan(): a new generation; what an older one still sends is no longer its end. *)
LEMMA StartScanKept ==
    ASSUME ScanInv, StartScan
    PROVE  ScanInv'
<1>1. ScanTypeOK'
  <2>1. /\ scan' \in [generation : 0..MaxScans, cancelled : SUBSET Scans,
                     discovered : SUBSET Devices, active : SUBSET Scans]
        /\ scan'.cancelled \subseteq {scan'.generation}
    <3>1. scan' = [generation |-> scan.generation + 1, cancelled |-> {}, discovered |-> {},
                   active |-> scan.active]
      BY DEF ScanInv, ScanTypeOK, StartScan
    <3>2. scan.generation + 1 \in 0..MaxScans /\ scan.active \subseteq Scans
      BY ScanAssumption DEF ScanInv, ScanTypeOK, StartScan, Scans
    <3> QED
      BY <3>1, <3>2
  <2>2. coro' \in [Scans -> [at : {"none", "submitted", "scanning", "returned", "failed", "cancelled"},
                            heard : SUBSET Devices]]
    BY DEF ScanInv, ScanTypeOK, StartScan
  <2>3. future' \in [Scans -> {"none", "pending", "popped", "done", "cancelled"}]
    BY DEF ScanInv, ScanTypeOK, StartScan
  <2>4. /\ qt' \in {"idle", "starting", "stopping"} /\ signals' = signals
        /\ window' \in [devices : SUBSET Devices, busy : BOOLEAN, scanning : BOOLEAN]
    BY DEF ScanInv, ScanTypeOK, StartScan, Finish
  <2> QED
    BY <2>1, <2>2, <2>3, <2>4 DEF ScanInv, ScanTypeOK
<1>2. Generations'
  <2>1. /\ scan'.generation = scan.generation + 1 /\ scan.generation \in Nat /\ qt' = "starting"
        /\ future' = [future EXCEPT ![scan.generation + 1] = "pending"]
        /\ coro' = [coro EXCEPT ![scan.generation + 1].at = "submitted"]
        /\ scan.generation # 0 => future[scan.generation] # "pending"
    BY DEF ScanInv, ScanTypeOK, StartScan
  <2>2. ASSUME NEW h \in Scans
        PROVE  /\ h > scan.generation + 1 =>
                    coro'[h] = [at |-> "none", heard |-> {}] /\ future'[h] = "none"
               /\ h < scan.generation + 1 => future'[h] # "pending"
    <3>1. h \in Nat \ {0}
      BY ScanAssumption DEF Scans
    <3>2. h # scan.generation + 1 => coro'[h] = coro[h] /\ future'[h] = future[h]
      BY <2>1 DEF ScanInv, ScanTypeOK
    <3>3. h > scan.generation => coro[h] = [at |-> "none", heard |-> {}] /\ future[h] = "none"
      BY DEF ScanInv, Generations
    <3>4. h < scan.generation => future[h] # "pending"
      BY DEF ScanInv, Generations
    <3> QED
      BY <2>1, <3>1, <3>2, <3>3, <3>4
  <2>3. scan'.generation # 0
    BY <2>1
  <2> QED
    BY <2>1, <2>2, <2>3 DEF Generations
<1>3. Registered'
  BY ScanAssumption DEF ScanInv, Registered, Current, StartScan, Scans
<1>4. Truthful'
  BY DEF ScanInv, Truthful, StartScan, Completes
<1>5. BusyWaits'
  BY ScanAssumption DEF BusyWaits, StartScan
<1>6. Lists'
  BY ScanAssumption DEF ScanInv, ScanTypeOK, Lists, Current, StartScan
<1> QED
  BY <1>1, <1>2, <1>3, <1>4, <1>5, <1>6 DEF ScanInv

(* start_scan() while a scan is active changes nothing but the window. *)
LEMMA ScanIgnoredKept ==
    ASSUME ScanInv, ScanIgnored
    PROVE  ScanInv'
<1>1. ScanTypeOK'
  BY ScanAssumption DEF ScanInv, ScanTypeOK, ScanIgnored
<1>2. Generations'
  BY ScanAssumption DEF ScanInv, ScanTypeOK, Generations, ScanIgnored, Scans, Finish,
     UpdateIsCurrent
<1>3. Registered'
  BY ScanAssumption DEF ScanInv, Registered, Current, ScanIgnored
<1>4. Truthful'
  BY DEF ScanInv, Truthful, ScanIgnored, Completes
<1>5. BusyWaits'
  BY ScanAssumption DEF ScanInv, Current, BusyWaits, ScanIgnored
<1>6. Lists'
  BY ScanAssumption DEF ScanInv, Lists, LastShown, Silent, Current, ScanIgnored
<1> QED
  BY <1>1, <1>2, <1>3, <1>4, <1>5, <1>6 DEF ScanInv

(* The future of the new scan is registered before its done callback is added. *)
LEMMA RegisterKept ==
    ASSUME ScanInv, Register
    PROVE  ScanInv'
<1>1. ScanTypeOK'
  <2>1. /\ scan' \in [generation : 0..MaxScans, cancelled : SUBSET Scans,
                     discovered : SUBSET Devices, active : SUBSET Scans]
        /\ scan'.cancelled \subseteq {scan'.generation}
    <3>1. PICK active \in SUBSET Scans : scan' = [scan EXCEPT !.active = active]
      <4>1. scan.generation \in Scans /\ scan.active \subseteq Scans
        BY ScanAssumption DEF ScanInv, ScanTypeOK, Generations, Register, Scans
      <4> QED
        BY <4>1 DEF Register
    <3> QED
      BY <3>1 DEF ScanInv, ScanTypeOK
  <2>2. coro' \in [Scans -> [at : {"none", "submitted", "scanning", "returned", "failed", "cancelled"},
                            heard : SUBSET Devices]]
    BY DEF ScanInv, ScanTypeOK, Register
  <2>3. future' \in [Scans -> {"none", "pending", "popped", "done", "cancelled"}]
    BY DEF ScanInv, ScanTypeOK, Register
  <2>4. /\ qt' \in {"idle", "starting", "stopping"} /\ signals' = signals
        /\ window' \in [devices : SUBSET Devices, busy : BOOLEAN, scanning : BOOLEAN]
    BY DEF ScanInv, ScanTypeOK, Register, Finish
  <2> QED
    BY <2>1, <2>2, <2>3, <2>4 DEF ScanInv, ScanTypeOK
<1>2. Generations'
  BY ScanAssumption DEF ScanInv, ScanTypeOK, Generations, Register, Scans, Finish, UpdateIsCurrent
<1>3. Registered'
  BY ScanAssumption DEF ScanInv, ScanTypeOK, Generations, Registered, Current, Register, Scans
<1>4. Truthful'
  BY DEF ScanInv, Truthful, Register, Completes
<1>5. BusyWaits'
  <2> DEFINE g == scan.generation
  <2>1. /\ g \in Scans /\ future' = future /\ signals' = signals /\ scan'.generation = g
        /\ window \in [devices : SUBSET Devices, busy : BOOLEAN, scanning : BOOLEAN]
    BY ScanAssumption DEF ScanInv, ScanTypeOK, Generations, Register, Scans
  <2>2. CASE future[g] = "pending"
    BY <2>1, <2>2 DEF BusyWaits, Current
  <2>3. CASE future[g] # "pending"
    <3>1. scan.active = {}
      BY DEF ScanInv, Registered, Register
    <3>2. ~window'.busy
      BY <2>1, <2>3, <3>1 DEF Register, Finish
    <3> QED
      BY <3>2 DEF BusyWaits
  <2> QED
    BY <2>2, <2>3
<1>6. Lists'
  BY ScanAssumption DEF ScanInv, ScanTypeOK, Generations, Lists, LastShown, Silent, Current,
     Register, Scans, Finish, UpdateIsCurrent
<1> QED
  BY <1>1, <1>2, <1>3, <1>4, <1>5, <1>6 DEF ScanInv

(* stop_scan(): the generation is stopped, and the active future is taken out. *)
LEMMA StopScanKept ==
    ASSUME ScanInv, StopScan
    PROVE  ScanInv'
<1>1. ScanTypeOK'
  <2>1. /\ scan' \in [generation : 0..MaxScans, cancelled : SUBSET Scans,
                     discovered : SUBSET Devices, active : SUBSET Scans]
        /\ scan'.cancelled \subseteq {scan'.generation}
    <3>1. scan.generation \in Scans
      BY ScanAssumption DEF ScanInv, ScanTypeOK, Generations, StopScan, Scans
    <3>2. PICK cancelled \in SUBSET {scan.generation} : scan' = [scan EXCEPT !.cancelled = cancelled]
      <4>1. scan = [scan EXCEPT !.cancelled = scan.cancelled]
        BY DEF ScanInv, ScanTypeOK
      <4>2. scan.cancelled \subseteq {scan.generation}
        BY DEF ScanInv, ScanTypeOK
      <4> QED
        BY <4>1, <4>2 DEF StopScan
    <3> QED
      BY <3>1, <3>2 DEF ScanInv, ScanTypeOK
  <2>2. coro' \in [Scans -> [at : {"none", "submitted", "scanning", "returned", "failed", "cancelled"},
                            heard : SUBSET Devices]]
    BY DEF ScanInv, ScanTypeOK, StopScan
  <2>3. future' \in [Scans -> {"none", "pending", "popped", "done", "cancelled"}]
    BY DEF ScanInv, ScanTypeOK, StopScan
  <2>4. /\ qt' \in {"idle", "starting", "stopping"} /\ signals' = signals
        /\ window' \in [devices : SUBSET Devices, busy : BOOLEAN, scanning : BOOLEAN]
    <3>1. /\ qt \in {"idle", "starting", "stopping"}
          /\ window \in [devices : SUBSET Devices, busy : BOOLEAN, scanning : BOOLEAN]
      BY DEF ScanInv, ScanTypeOK
    <3>2. CASE future[scan.generation] = "pending"
      BY <3>1, <3>2 DEF StopScan
    <3>3. CASE future[scan.generation] # "pending"
      BY <3>1, <3>3 DEF StopScan
    <3> QED
      BY <3>2, <3>3
  <2> QED
    BY <2>1, <2>2, <2>3, <2>4 DEF ScanInv, ScanTypeOK
<1>2. Generations'
  BY ScanAssumption DEF ScanInv, ScanTypeOK, Generations, StopScan, Scans, Finish, UpdateIsCurrent
<1>3. Registered'
  BY ScanAssumption DEF ScanInv, ScanTypeOK, Registered, Current, StopScan
<1>4. Truthful'
  BY DEF ScanInv, Truthful, StopScan, Completes
<1>5. BusyWaits'
  BY ScanAssumption DEF ScanInv, ScanTypeOK, Current, BusyWaits, StopScan
<1>6. Lists'
  BY ScanAssumption DEF ScanInv, ScanTypeOK, Lists, LastShown, Silent, Current, StopScan
<1> QED
  BY <1>1, <1>2, <1>3, <1>4, <1>5, <1>6 DEF ScanInv

(* The cancellation of the stopped future, on its way to the loop. *)
LEMMA CancelFutureKept ==
    ASSUME ScanInv, CancelFuture
    PROVE  ScanInv'
<1>1. ScanTypeOK'
  BY ScanAssumption DEF ScanInv, ScanTypeOK, CancelFuture, Scans, Generations, Finish,
     UpdateIsCurrent, DevicesChanged, OperationChanged
<1>2. Generations'
  BY ScanAssumption DEF ScanInv, ScanTypeOK, Generations, CancelFuture, Scans, Finish,
     UpdateIsCurrent
<1>3. Registered'
  BY ScanAssumption DEF ScanInv, ScanTypeOK, Registered, Current, CancelFuture
<1>4. Truthful'
  BY DEF ScanInv, Truthful, CancelFuture, Completes
<1>5. BusyWaits'
  BY ScanAssumption DEF ScanInv, ScanTypeOK, Generations, Registered, Current, BusyWaits,
     Completes, CancelFuture, Scans, Finish, UpdateIsCurrent
<1>6. Lists'
  BY ScanAssumption DEF ScanInv, ScanTypeOK, Generations, Lists, LastShown, Silent, Current,
     CancelFuture, Scans, Finish, UpdateIsCurrent
<1> QED
  BY <1>1, <1>2, <1>3, <1>4, <1>5, <1>6 DEF ScanInv

(* The loop starts the scan. *)
LEMMA ScanBeginsKept ==
    ASSUME ScanInv, NEW g \in Scans, ScanBegins(g)
    PROVE  ScanInv'
<1>1. ScanTypeOK'
  BY ScanAssumption DEF ScanInv, ScanTypeOK, ScanBegins
<1>2. Generations'
  <2>1. ASSUME NEW h \in Scans, h > scan.generation PROVE coro'[h] = coro[h]
    BY <2>1 DEF ScanInv, ScanTypeOK, Generations, ScanBegins
  <2> QED
    BY <2>1 DEF ScanInv, Generations, ScanBegins
<1>3. Registered'
  BY ScanAssumption DEF ScanInv, Registered, Current, ScanBegins
<1>4. Truthful'
  BY DEF ScanInv, Truthful, ScanBegins, Completes
<1>5. BusyWaits'
  BY ScanAssumption DEF ScanInv, Current, BusyWaits, ScanBegins
<1>6. Lists'
  BY ScanAssumption DEF ScanInv, Lists, LastShown, Silent, Current, ScanBegins
<1> QED
  BY <1>1, <1>2, <1>3, <1>4, <1>5, <1>6 DEF ScanInv

(* The scan fails. *)
LEMMA ScanRaisesKept ==
    ASSUME ScanInv, NEW g \in Scans, ScanRaises(g)
    PROVE  ScanInv'
<1>1. ScanTypeOK'
  BY ScanAssumption DEF ScanInv, ScanTypeOK, ScanRaises
<1>2. Generations'
  <2>1. ASSUME NEW h \in Scans, h > scan.generation PROVE coro'[h] = coro[h]
    BY <2>1 DEF ScanInv, ScanTypeOK, Generations, ScanRaises
  <2> QED
    BY <2>1 DEF ScanInv, Generations, ScanRaises
<1>3. Registered'
  BY ScanAssumption DEF ScanInv, Registered, Current, ScanRaises
<1>4. Truthful'
  BY DEF ScanInv, Truthful, ScanRaises, Completes
<1>5. BusyWaits'
  BY ScanAssumption DEF ScanInv, Current, BusyWaits, ScanRaises
<1>6. Lists'
  BY ScanAssumption DEF ScanInv, Lists, LastShown, Silent, Current, ScanRaises
<1> QED
  BY <1>1, <1>2, <1>3, <1>4, <1>5, <1>6 DEF ScanInv

(* The cancellation reaches the coroutine, or comes too late for it. *)
LEMMA CancelLandsKept ==
    ASSUME ScanInv, NEW g \in Scans, CancelLands(g)
    PROVE  ScanInv'
<1>1. ScanTypeOK'
  <2>1. /\ scan' \in [generation : 0..MaxScans, cancelled : SUBSET Scans,
                     discovered : SUBSET Devices, active : SUBSET Scans]
        /\ scan'.cancelled \subseteq {scan'.generation}
    BY ScanAssumption DEF ScanInv, ScanTypeOK, CancelLands, Scans, Generations
  <2>2. coro' \in [Scans -> [at : {"none", "submitted", "scanning", "returned", "failed", "cancelled"},
                            heard : SUBSET Devices]]
    BY DEF ScanInv, ScanTypeOK, CancelLands
  <2>3. future' \in [Scans -> {"none", "pending", "popped", "done", "cancelled"}]
    BY DEF ScanInv, ScanTypeOK, CancelLands
  <2>4. /\ qt' \in {"idle", "starting", "stopping"} /\ signals' = signals
        /\ window' \in [devices : SUBSET Devices, busy : BOOLEAN, scanning : BOOLEAN]
    BY DEF ScanInv, ScanTypeOK, CancelLands, Finish
  <2> QED
    BY <2>1, <2>2, <2>3, <2>4 DEF ScanInv, ScanTypeOK
<1>2. Generations'
  BY ScanAssumption DEF ScanInv, ScanTypeOK, Generations, CancelLands, Scans, Finish,
     UpdateIsCurrent
<1>3. Registered'
  BY ScanAssumption DEF ScanInv, Registered, Current, CancelLands
<1>4. Truthful'
  BY DEF ScanInv, Truthful, CancelLands, Completes
<1>5. BusyWaits'
  BY ScanAssumption DEF ScanInv, Current, BusyWaits, CancelLands
<1>6. Lists'
  BY ScanAssumption DEF ScanInv, Lists, LastShown, Silent, Current, CancelLands
<1> QED
  BY <1>1, <1>2, <1>3, <1>4, <1>5, <1>6 DEF ScanInv

(* The done callback takes the future out of the registry. *)
LEMMA FutureDoneKept ==
    ASSUME ScanInv, NEW g \in Scans, FutureDone(g)
    PROVE  ScanInv'
<1>1. ScanTypeOK'
  BY ScanAssumption DEF ScanInv, ScanTypeOK, FutureDone
<1>2. Generations'
  BY ScanAssumption DEF ScanInv, ScanTypeOK, Generations, FutureDone, Scans, Finish, UpdateIsCurrent
<1>3. Registered'
  BY ScanAssumption DEF ScanInv, ScanTypeOK, Registered, Current, FutureDone
<1>4. Truthful'
  BY DEF ScanInv, Truthful, FutureDone, Completes
<1>5. BusyWaits'
  BY ScanAssumption DEF ScanInv, Current, BusyWaits, FutureDone
<1>6. Lists'
  BY ScanAssumption DEF ScanInv, Lists, LastShown, Silent, Current, FutureDone
<1> QED
  BY <1>1, <1>2, <1>3, <1>4, <1>5, <1>6 DEF ScanInv

(* A scan that was done before the callback was added. *)
LEMMA FutureDoneEarlyKept ==
    ASSUME ScanInv, NEW g \in Scans, FutureDoneEarly(g)
    PROVE  ScanInv'
<1>1. ScanTypeOK'
  BY ScanAssumption DEF ScanInv, ScanTypeOK, FutureDoneEarly
<1>2. Generations'
  BY ScanAssumption DEF ScanInv, Generations, FutureDoneEarly
<1>3. Registered'
  BY ScanAssumption DEF ScanInv, Registered, FutureDoneEarly
<1>4. Truthful'
  BY DEF ScanInv, Truthful, FutureDoneEarly, Completes
<1>5. BusyWaits'
  BY ScanAssumption DEF BusyWaits, FutureDoneEarly
<1>6. Lists'
  BY ScanAssumption DEF ScanInv, Lists, LastShown, Silent, Current, FutureDoneEarly
<1> QED
  BY <1>1, <1>2, <1>3, <1>4, <1>5, <1>6 DEF ScanInv

(* Qt delivers the oldest signal to the window. *)
LEMMA DeliverKept ==
    ASSUME ScanInv, Deliver
    PROVE  ScanInv'
<1>1. ScanTypeOK
  BY DEF ScanInv
<1>2. /\ signals' \in Seq(Signal) /\ Truthful'
      /\ \A found : LastShown(found) => LastShown(found)'
      /\ window'.busy => /\ window.busy
                         /\ (\E i \in 1 .. Len(signals) : Completes(signals[i]))
                              => \E i \in 1 .. Len(signals') : Completes(signals'[i])
  BY ShownDelivered DEF ScanInv
<1>3. UNCHANGED <<scan, coro, future, qt>> /\ qt = "idle"
  BY DEF Deliver
<1>4. /\ window' \in [devices : SUBSET Devices, busy : BOOLEAN, scanning : BOOLEAN]
      /\ window'.scanning => window.scanning
  <2>1. /\ Head(signals) \in Signal
        /\ window \in [devices : SUBSET Devices, busy : BOOLEAN, scanning : BOOLEAN]
    BY <1>1 DEF ScanTypeOK, Signal, Deliver
  <2>2. CASE Head(signals).kind = "devices"
    BY <2>1, <2>2 DEF Deliver, Signal
  <2>3. CASE Head(signals).kind # "devices"
    BY <2>1, <2>3 DEF Deliver, Signal, Finish
  <2> QED
    BY <2>2, <2>3
<1>5. ScanTypeOK'
  BY <1>1, <1>2, <1>3, <1>4 DEF ScanTypeOK, Signal
<1>6. Generations'
  BY <1>3, <1>4 DEF ScanInv, Generations
<1>7. Registered'
  BY <1>3 DEF ScanInv, Registered, Current
<1>8. BusyWaits'
  BY <1>2, <1>3 DEF ScanInv, BusyWaits, Current
<1>9. Lists'
  BY <1>2, <1>3 DEF ScanInv, Lists, Current
<1> QED
  BY <1>2, <1>5, <1>6, <1>7, <1>8, <1>9 DEF ScanInv

(* An advertisement of a scan that is current is shown, any other one is not. *)
LEMMA AdvertisedKept ==
    ASSUME ScanInv, NEW g \in Scans, NEW d \in Devices, Advertised(g, d)
    PROVE  ScanInv'
<1>0. PICK found : found = scan.discovered \cup {d}
  OBVIOUS
<1>1. /\ scan.generation \in 0..MaxScans /\ future' = future /\ qt' = qt /\ window' = window
      /\ coro[g].at = "scanning" /\ coro[g] \in [at : {"none", "submitted", "scanning", "returned", "failed", "cancelled"},
                                                  heard : SUBSET Devices]
      /\ \A h \in Scans \ {g} : coro'[h] = coro[h]
  BY DEF ScanInv, ScanTypeOK, Advertised
<1>2. /\ found \subseteq Devices /\ (Current(g) => found \subseteq coro'[g].heard)
      /\ coro'[g].heard \in SUBSET Devices /\ coro[g].heard \subseteq coro'[g].heard
  BY <1>0, <1>1 DEF ScanInv, ScanTypeOK, Lists, Current, Advertised
<1>3. coro' \in [Scans -> [at : {"none", "submitted", "scanning", "returned", "failed", "cancelled"},
                           heard : SUBSET Devices]]
  BY <1>2 DEF ScanInv, ScanTypeOK, Advertised
<1>4. \A h \in Scans : h > scan.generation => h # g
  BY <1>1 DEF ScanInv, Generations
<1>5. CASE UpdateIsCurrent(g)
  <2>1. /\ scan' = [scan EXCEPT !.discovered = found]
        /\ signals' = Append(signals, DevicesChanged(found)) /\ Current(g)
    BY <1>0, <1>5 DEF Advertised, UpdateIsCurrent, Current
  <2>2. /\ DevicesChanged(found) \in Signal /\ signals \in Seq(Signal)
        /\ ~Completes(DevicesChanged(found)) /\ Truthful
    BY <1>2 DEF Signal, DevicesChanged, Completes, ScanInv, ScanTypeOK
  <2>3. LastShown(found)' /\ Truthful' /\ signals' \in Seq(Signal)
    <3> DEFINE e == DevicesChanged(found)
    <3>1. e \in Signal /\ signals \in Seq(Signal) /\ signals' = Append(signals, e) /\ window' = window
      BY <1>1, <2>1, <2>2
    <3>2. ~Completes(e) /\ Truthful /\ e = DevicesChanged(found)
      BY <2>2
    <3> HIDE DEF e
    <3> QED
      BY <3>1, <3>2, ShownAppended
  <2>4. /\ scan'.generation = scan.generation /\ scan'.cancelled = scan.cancelled
        /\ scan'.active = scan.active /\ scan'.discovered = found
        /\ scan' \in [generation : 0..MaxScans, cancelled : SUBSET Scans,
                      discovered : SUBSET Devices, active : SUBSET Scans]
    BY <1>2, <2>1 DEF ScanInv, ScanTypeOK
  <2>5. ScanTypeOK'
    BY <1>1, <1>3, <2>3, <2>4 DEF ScanInv, ScanTypeOK, Signal
  <2>6. Generations' /\ Registered'
    BY <1>1, <1>4, <2>4 DEF ScanInv, Generations, Registered, Current
  <2>7. BusyWaits'
    BY <1>1, <2>1, <2>2, <2>4 DEF ScanInv, BusyWaits, Current
  <2>8. Lists'
    <3>1. coro'[g].at = "scanning"
      BY <1>1 DEF ScanInv, ScanTypeOK, Advertised
    <3> QED
      BY <1>2, <2>1, <2>4, <3>1 DEF Lists, Current
  <2> QED
    BY <2>3, <2>5, <2>6, <2>7, <2>8 DEF ScanInv
<1>6. CASE ~UpdateIsCurrent(g)
  <2>1. scan' = scan /\ signals' = signals
    BY <1>6 DEF Advertised
  <2>2. ScanTypeOK'
    BY <1>1, <1>3, <2>1 DEF ScanInv, ScanTypeOK
  <2>3. /\ Generations' /\ Registered' /\ Truthful' /\ BusyWaits'
    BY <1>1, <1>4, <2>1 DEF ScanInv, Generations, Registered, Current, Truthful, BusyWaits
  <2>4. Current(g) => g \in scan.cancelled
    BY <1>6 DEF UpdateIsCurrent, Current
  <2>5. \A shown : LastShown(shown)' <=> LastShown(shown)
    BY <1>1, <2>1 DEF LastShown, Silent
  <2>6. Lists'
    BY <1>1, <1>2, <2>1, <2>4, <2>5 DEF ScanInv, Lists, Current
  <2> QED
    BY <2>2, <2>3, <2>6 DEF ScanInv
<1> QED
  BY <1>5, <1>6

(* The scan returns its list, which replaces what was shown on the way. *)
LEMMA ScanReturnsKept ==
    ASSUME ScanInv, NEW g \in Scans, ScanReturns(g)
    PROVE  ScanInv'
<1>0. PICK found : found = scan.discovered \cup coro[g].heard
  OBVIOUS
<1>1. /\ scan.generation \in 0..MaxScans /\ future' = future /\ qt' = qt /\ window' = window
      /\ coro[g].at = "scanning" /\ coro[g] \in [at : {"none", "submitted", "scanning", "returned", "failed", "cancelled"},
                                                  heard : SUBSET Devices]
      /\ \A h \in Scans \ {g} : coro'[h] = coro[h]
  BY DEF ScanInv, ScanTypeOK, ScanReturns
<1>2. /\ found \subseteq Devices /\ (Current(g) => found \subseteq coro'[g].heard)
      /\ coro'[g].heard \in SUBSET Devices /\ coro[g].heard \subseteq coro'[g].heard
  BY <1>0, <1>1 DEF ScanInv, ScanTypeOK, Lists, Current, ScanReturns
<1>3. coro' \in [Scans -> [at : {"none", "submitted", "scanning", "returned", "failed", "cancelled"},
                           heard : SUBSET Devices]]
  BY <1>2 DEF ScanInv, ScanTypeOK, ScanReturns
<1>4. \A h \in Scans : h > scan.generation => h # g
  BY <1>1 DEF ScanInv, Generations
<1>5. CASE UpdateIsCurrent(g)
  <2>1. /\ scan' = [scan EXCEPT !.discovered = found]
        /\ signals' = Append(signals, DevicesChanged(found)) /\ Current(g)
    BY <1>0, <1>5 DEF ScanReturns, UpdateIsCurrent, Current
  <2>2. /\ DevicesChanged(found) \in Signal /\ signals \in Seq(Signal)
        /\ ~Completes(DevicesChanged(found)) /\ Truthful
    BY <1>2 DEF Signal, DevicesChanged, Completes, ScanInv, ScanTypeOK
  <2>3. LastShown(found)' /\ Truthful' /\ signals' \in Seq(Signal)
    <3> DEFINE e == DevicesChanged(found)
    <3>1. e \in Signal /\ signals \in Seq(Signal) /\ signals' = Append(signals, e) /\ window' = window
      BY <1>1, <2>1, <2>2
    <3>2. ~Completes(e) /\ Truthful /\ e = DevicesChanged(found)
      BY <2>2
    <3> HIDE DEF e
    <3> QED
      BY <3>1, <3>2, ShownAppended
  <2>4. /\ scan'.generation = scan.generation /\ scan'.cancelled = scan.cancelled
        /\ scan'.active = scan.active /\ scan'.discovered = found
        /\ scan' \in [generation : 0..MaxScans, cancelled : SUBSET Scans,
                      discovered : SUBSET Devices, active : SUBSET Scans]
    BY <1>2, <2>1 DEF ScanInv, ScanTypeOK
  <2>5. ScanTypeOK'
    BY <1>1, <1>3, <2>3, <2>4 DEF ScanInv, ScanTypeOK, Signal
  <2>6. Generations' /\ Registered'
    BY <1>1, <1>4, <2>4 DEF ScanInv, Generations, Registered, Current
  <2>7. BusyWaits'
    BY <1>1, <2>1, <2>2, <2>4 DEF ScanInv, BusyWaits, Current
  <2>8. Lists'
    <3>1. found = coro'[g].heard
      BY <1>0, <1>1, <2>1 DEF ScanInv, ScanTypeOK, Lists, Current, ScanReturns
    <3> QED
      BY <1>2, <2>1, <2>3, <2>4, <3>1 DEF Lists, Current
  <2> QED
    BY <2>3, <2>5, <2>6, <2>7, <2>8 DEF ScanInv
<1>6. CASE ~UpdateIsCurrent(g)
  <2>1. scan' = scan /\ signals' = signals
    BY <1>6 DEF ScanReturns
  <2>2. ScanTypeOK'
    BY <1>1, <1>3, <2>1 DEF ScanInv, ScanTypeOK
  <2>3. /\ Generations' /\ Registered' /\ Truthful' /\ BusyWaits'
    BY <1>1, <1>4, <2>1 DEF ScanInv, Generations, Registered, Current, Truthful, BusyWaits
  <2>4. Current(g) => g \in scan.cancelled
    BY <1>6 DEF UpdateIsCurrent, Current
  <2>5. \A shown : LastShown(shown)' <=> LastShown(shown)
    BY <1>1, <2>1 DEF LastShown, Silent
  <2>6. Lists'
    BY <1>1, <1>2, <2>1, <2>4, <2>5 DEF ScanInv, Lists, Current
  <2> QED
    BY <2>2, <2>3, <2>6 DEF ScanInv
<1> QED
  BY <1>5, <1>6

(* The completion of the newest scan ends the operation, that of an older one does not. *)
LEMMA CompleteKept ==
    ASSUME ScanInv, NEW g \in Scans, Complete(g)
    PROVE  ScanInv'
<1>1. /\ UNCHANGED <<scan, coro, qt, window>> /\ future[g] = "popped"
      /\ future' = [future EXCEPT ![g] = "done"] /\ signals \in Seq(Signal)
      /\ future' \in [Scans -> {"none", "pending", "popped", "done", "cancelled"}]
      /\ \A h \in Scans : future'[h] = IF h = g THEN "done" ELSE future[h]
  BY DEF ScanInv, ScanTypeOK, Signal, Complete
<1>2. Generations' /\ Registered'
  BY <1>1 DEF ScanInv, Generations, Registered, Current
<1>3. CASE Current(g)
  <2> DEFINE e == OperationChanged(FALSE)
  <2>1. /\ signals' = Append(signals, e) /\ e \in Signal
        /\ Completes(e) /\ ~e.busy /\ e.kind # "devices"
    BY <1>3 DEF Complete, Current, OperationChanged, Signal, Completes
  <2>2. /\ \A found : LastShown(found) => LastShown(found)'
        /\ Truthful' /\ \E i \in 1 .. Len(signals') : Completes(signals'[i])
        /\ signals' \in Seq(Signal)
    <3> HIDE DEF e
    <3> QED
      BY <1>1, <2>1, ShownAppended DEF ScanInv
  <2>3. ScanTypeOK'
    BY <1>1, <2>2 DEF ScanInv, ScanTypeOK, Signal
  <2>4. BusyWaits' /\ Lists'
    BY <1>1, <2>2 DEF ScanInv, BusyWaits, Lists, Current
  <2> QED
    BY <1>2, <2>2, <2>3, <2>4 DEF ScanInv
<1>4. CASE ~Current(g)
  <2>1. signals' = signals
    BY <1>4 DEF Complete, Current
  <2>2. ScanTypeOK' /\ Truthful' /\ BusyWaits'
    BY <1>1, <1>4, <2>1 DEF ScanInv, ScanTypeOK, Truthful, BusyWaits, Current
  <2>3. \A shown : LastShown(shown)' <=> LastShown(shown)
    BY <1>1, <2>1 DEF LastShown, Silent
  <2>4. Lists'
    BY <1>1, <2>3 DEF ScanInv, Lists, Current
  <2> QED
    BY <1>2, <2>2, <2>4 DEF ScanInv
<1> QED
  BY <1>3, <1>4

(* Everything holds before the first scan, and every step keeps it. *)
LEMMA ScanInduction == ScanSpec => []ScanInv
<1>1. ScanInit => ScanInv
  <2> SUFFICES ASSUME ScanInit PROVE ScanInv
    OBVIOUS
  <2> USE ScanAssumption DEF ScanInit
  <2>1. ScanTypeOK
    BY DEF ScanTypeOK, Scans
  <2>2. Generations /\ Registered /\ Truthful /\ BusyWaits /\ Lists
    BY DEF Generations, Registered, Truthful, BusyWaits, Lists, Current, Scans
  <2> QED
    BY <2>1, <2>2 DEF ScanInv
<1>2. ScanInv /\ [ScanNext]_scanVars => ScanInv'
  <2> SUFFICES ASSUME ScanInv, [ScanNext]_scanVars PROVE ScanInv'
    OBVIOUS
  <2>1. CASE StartScan \/ ScanIgnored \/ Register \/ StopScan \/ CancelFuture \/ Deliver
    BY <2>1, StartScanKept, ScanIgnoredKept, RegisterKept, StopScanKept, CancelFutureKept,
       DeliverKept
  <2>2. ASSUME NEW g \in Scans, ScanLoop(g) PROVE ScanInv'
    BY <2>2, ScanBeginsKept, ScanReturnsKept, ScanRaisesKept, CancelLandsKept, FutureDoneKept,
       FutureDoneEarlyKept, CompleteKept DEF ScanLoop
  <2>3. ASSUME NEW g \in Scans, NEW d \in Devices, Advertised(g, d) PROVE ScanInv'
    BY <2>3, AdvertisedKept
  <2>4. CASE UNCHANGED scanVars
    <3>1. UNCHANGED <<scan, coro, future, qt, signals, window>>
      BY <2>4 DEF scanVars
    <3>2. (\A shown : LastShown(shown)' <=> LastShown(shown)) /\ ScanTypeOK'
      BY <3>1 DEF ScanInv, LastShown, Silent, ScanTypeOK
    <3> QED
      BY <3>1, <3>2 DEF ScanInv, Generations, Registered, Truthful, BusyWaits, Lists, Current
  <2> QED
    BY <2>1, <2>2, <2>3, <2>4 DEF ScanNext
<1> QED
  BY <1>1, <1>2, PTL DEF ScanSpec

(* The types, and that of the stopped generations only the newest is remembered. *)
THEOREM ScanTypesHold == ScanSpec => []ScanTypeOK
BY ScanInduction, PTL DEF ScanInv

(* However starts, stops, failures and completions of qt_controller.py fall: once every
   scan and every signal has run its course nothing is registered and the window is idle. *)
THEOREM ScansEndQuiet == ScanSpec => []QuietAtRest
<1>1. ScanInv => QuietAtRest
  BY DEF ScanInv, QuietAtRest, ScanAtRest, Registered, BusyWaits
<1> QED
  BY <1>1, ScanInduction, PTL

(* Once all is quiet the window shows exactly what the newest scan has found, unless it
   was stopped: no late advertisement and no older scan comes after its list. *)
THEOREM FinishedScansShown == ScanSpec => []FinishedScanIsShown
<1>1. ScanInv => FinishedScanIsShown
  <2> SUFFICES ASSUME ScanInv, ScanAtRest, scan.generation # 0,
                      coro[scan.generation].at = "returned", scan.generation \notin scan.cancelled
               PROVE  window.devices = coro[scan.generation].heard
    BY DEF FinishedScanIsShown
  <2>1. scan.generation \in Scans
    BY ScanAssumption DEF ScanInv, ScanTypeOK, Scans
  <2>2. LastShown(coro[scan.generation].heard)
    BY <2>1 DEF ScanInv, Lists, Current
  <2> QED
    BY <2>2 DEF LastShown, ScanAtRest
<1> QED
  BY <1>1, ScanInduction, PTL

-----------------------------------------------------------------------------
(* DesktopController: what holds between two steps of the loop.  A world is described for  *)
(* the jobs in K, so that the job that is being moved can be left out.                      *)

CtlType == [session : Sessions \cup {Nobody}, made : 0..(MaxCommands + MaxTroubles),
            desired : BOOLEAN, intent : Nat, keeper : Supervisors \cup {Nobody},
            closed : BOOLEAN, autos : Nat, last : {"none", "connect", "disconnect"}]
WorldType == [ctl : CtlType, job : [Jobs -> JobType], sess : [Sessions -> SessionType]]

Newest(w) == w.sess[w.ctl.made]
Opening(w, j) == w.job[j].pc = "connecting"
Leaving(w, j) == w.job[j].pc \in {"closing", "undoing"}
Started(w, j) == w.job[j].pc \notin {"none", "queued", "done"}
NoRecovery(w) == \A s \in Supervisors : ~Live(w, s)

(* What a job is, and where it can be. *)
Kinds(w, j) ==
    /\ w.job[j].kind = "none" => w.job[j] = Idle
    /\ w.job[j].pc = "none" => w.job[j].kind = "none"
    /\ w.job[j].pc = "done" => ~w.job[j].cancel
    /\ j \in Supervisors => w.job[j].kind \in {"none", "supervise"}
    /\ j \in Commands => w.job[j].kind \in {"none", "connect", "disconnect"}
    /\ w.job[j].kind = "connect" => j # Quit
    /\ w.job[j].intent <= w.ctl.intent
    /\ /\ w.job[j].kind # "disconnect" /\ w.job[j].pc \notin {"none", "queued", "done"}
       /\ w.job[j].intent = w.ctl.intent
       => w.ctl.last = "connect"
Places(w, j) ==
    /\ w.job[j].pc \in {"queued", "cancelling", "closing"} => j \in Commands
    /\ w.job[j].pc \in {"created", "backoff"} => j \in Supervisors
    /\ w.job[j].pc \in {"waiting", "connecting", "undoing"} => w.job[j].kind # "disconnect"
    /\ Leaving(w, j) <=> w.job[j].at \in {"teardown", "join", "notify", "native"}
    /\ Opening(w, j) <=> w.job[j].at \in {"opening", "setup", "cleanup", "unwind"}
    /\ w.job[j].pc \in {"closing", "undoing", "connecting", "waiting", "backoff", "created"}
         <=> w.job[j].on # Nobody
    /\ w.job[j].on <= w.ctl.made
    /\ w.job[j].kind # "disconnect" /\ w.job[j].on # Nobody => w.job[j].on = w.ctl.made
    /\ w.job[j].pc = "cancelling" => w.job[j].joins \in Supervisors
    /\ w.job[j].at = "teardown" => w.job[j].joins = Nobody

(* A job that connects does so on the newest session. *)
Opens(w, j) == Opening(w, j) =>
    /\ ~Newest(w).poisoned
    /\ w.job[j].at = "opening" => Newest(w).client = "opening"
    /\ w.job[j].at = "setup" => Newest(w).client \in {"up", "none"}
    /\ w.job[j].at \in {"cleanup", "unwind"} => Newest(w).client # "opening"
    /\ Newest(w).intent = w.job[j].intent
    /\ w.job[j].kind = "connect" /\ IntentIsCurrent(w, j) => w.ctl.desired

(* A recovery sleeps over a released link, and counts its attempts. *)
Recovers(w, j) == j \in Supervisors /\ Live(w, j) =>
    /\ w.job[j].pc = "backoff" => Newest(w).client = "none"
    /\ IntentIsCurrent(w, j) => /\ w.ctl.autos <= w.job[j].attempt
                                /\ w.job[j].pc = "backoff" => w.ctl.autos < w.job[j].attempt

(* Before the loop stops a command is cancelled only while it connects. *)
Uncancelled(w, j, r) ==
    r \in {"running", "closing"} /\ j \in Commands /\ w.job[j].cancel => Opening(w, j)

JobOK(w, j, r) == Kinds(w, j) /\ Places(w, j) /\ Opens(w, j) /\ Recovers(w, j) /\ Uncancelled(w, j, r)

(* Only the newest session has a client; one that opens has a job that opens it. *)
OnlyNewest(w) == /\ w.ctl.session = w.ctl.made
                 /\ \A n \in Sessions : n # w.ctl.made => w.sess[n].client = "none"
Opened1(w, K) == \A n \in Sessions :
    w.sess[n].client = "opening" => \E j \in K : w.job[j].at = "opening"

(* Who closes the newest session first waits for the job that opens it. *)
Joins(w, K) == \A j, k \in K :
    Leaving(w, j) /\ w.job[j].on = w.ctl.made /\ Opening(w, k) =>
        w.job[j].joins = k /\ w.job[j].at = "join"

(* One Connect at a time, in the order of the commands; one recovery at a time. *)
OneConnect(w) == \A c \in Commands : w.job[c].kind = "connect" =>
    \A i \in Commands : i < c => /\ w.job[i].kind # "none"
                                 /\ Live(w, c) => w.job[i].pc = "done"
Pressed(w, r) == r = "running" => \A c \in Commands :
    /\ w.job[Quit].kind = "none"
    /\ \A i \in Commands : c < i /\ w.job[i].kind # "none" => w.job[c].kind # "none"
Ordered(w) == \A c, i \in Commands :
    w.job[c].pc = "queued" /\ c < i => w.job[i].pc \in {"none", "queued"}

(* No Connect and no recovery is current any more beside a Disconnect at work. *)
Overruled(w, K) == \A j, k \in K :
    Started(w, j) /\ w.job[j].kind = "disconnect" /\ Started(w, k) /\ w.job[k].kind # "disconnect" =>
        ~IntentIsCurrent(w, k)
OneSupervisor(w) == \A i, j \in Supervisors : Live(w, i) /\ Live(w, j) => i = j
Used(w, t) == \E u \in 0..t : \A s \in Supervisors : w.job[s].kind = "none" <=> s > MaxCommands + u

(* The recovery at work is the keeper, or was told to stop by the command that awaits it. *)
Keeper(w) == w.ctl.keeper # Nobody => w.ctl.keeper \in Supervisors /\ Live(w, w.ctl.keeper)
Kept(w) == \A s \in Supervisors : Live(w, s) /\ w.ctl.keeper = s =>
    \A c \in Commands : Live(w, c) /\ w.job[c].kind = "connect" => w.job[c].pc = "queued"
Orphaned(w) == \A s \in Supervisors : Live(w, s) /\ w.ctl.keeper # s =>
    /\ ~IntentIsCurrent(w, s)
    /\ \A c \in Commands : Live(w, c) /\ w.job[c].kind = "connect" =>
          w.job[c].pc = "cancelling" /\ w.job[c].joins = s
Awaited(w, K, r) == r = "running" => \A s \in Supervisors : Live(w, s) /\ w.ctl.keeper # s =>
    \E i \in Commands \cap K : w.job[i].pc = "cancelling" /\ w.job[i].joins = s

(* Every session is paid for by a Connect or by a trouble: `more` can still be opened. *)
Unopened(w, c) ==
    \/ w.job[c].kind = "none"
    \/ w.job[c].kind = "connect" /\ w.job[c].pc \in {"queued", "cancelling", "closing", "waiting"}
Affords(w, t, more) ==
    /\ w.ctl.made + more <= MaxCommands + t
    /\ \A c \in Commands : Unopened(w, c) => w.ctl.made + more < c + t
Credit(w, s) == \/ w.job[s].pc \in {"created", "waiting", "backoff"}
                \/ w.job[s].at = "cleanup"
                \/ w.job[s].at = "setup" /\ Newest(w).client = "none"
Funded(w, K, t) == /\ Affords(w, t, 0)
                   /\ \A s \in Supervisors \cap K : Credit(w, s) => Affords(w, t, 1)

Steady(w, K, r, t) ==
    /\ w \in WorldType
    /\ \A j \in K : JobOK(w, j, r)
    /\ OnlyNewest(w) /\ Opened1(w, K) /\ Joins(w, K)
    /\ OneConnect(w) /\ Pressed(w, r) /\ Ordered(w) /\ Overruled(w, K) /\ OneSupervisor(w) /\ Used(w, t)
    /\ Keeper(w) /\ Kept(w) /\ Orphaned(w) /\ Awaited(w, K, r)
    /\ Funded(w, K, t)

(* Only what was queued after j is queued beside it; what is current, it overrules. *)
Orderly(w, j) ==
    /\ \A c \in Commands \ {j} : j \in Commands /\ w.job[c].pc = "queued" => j < c
    /\ \A k \in Jobs \ {j} : Started(w, k) =>
          /\ w.job[j].kind = "disconnect" /\ w.job[k].kind # "disconnect" => ~IntentIsCurrent(w, k)
          /\ w.job[j].kind # "disconnect" /\ w.job[k].kind = "disconnect" => ~IntentIsCurrent(w, j)

(* A ready session is the newest, opened for the newest intent, wanted, and left alone. *)
NoneReady(w) == \A n \in Sessions : w.sess[n].state # "ready"
Ready(w) == \A n \in Sessions : w.sess[n].state = "ready" =>
    /\ n = w.ctl.made /\ ~w.sess[n].poisoned
    /\ w.sess[n].intent = w.ctl.intent /\ w.ctl.desired /\ w.ctl.last = "connect" /\ w.ctl.autos = 0
    /\ NoRecovery(w)
    /\ \A j \in Jobs : w.job[j].pc \in {"none", "queued", "done"}

Sound(w, r, t) == Steady(w, Jobs, r, t) /\ Ready(w)
Good(w, r, t, autos) == Steady(w, Jobs, r, t) /\ NoneReady(w) /\ w.ctl.autos <= autos

(* What a job that is between two places must be for the loop to move it on. *)
Moves(w, j, r, t) ==
    /\ Steady(w, Jobs \ {j}, r, t)
    /\ j \in Jobs /\ Live(w, j) /\ Kinds(w, j)
    /\ w.job[j].kind = "connect" => NoRecovery(w)
    /\ Orderly(w, j)

(* Commands and recoveries are different jobs; numbers start above Nobody. *)
LEMMA JobSets ==
    /\ Commands \subseteq Jobs /\ Supervisors \subseteq Jobs /\ Jobs \subseteq Nat \ {0}
    /\ Commands \cap Supervisors = {} /\ Jobs = Commands \cup Supervisors
    /\ Sessions \subseteq Nat \ {0} /\ Nobody = 0
    /\ MaxCommands \in Nat /\ MaxTroubles \in Nat /\ Attempts \in Nat /\ Quit \in Commands
BY ControllerAssumption DEF Commands, Supervisors, Jobs, Sessions, Nobody, Quit

(* Which commands were pressed depends on their kinds only. *)
LEMMA PressedOK ==
    ASSUME NEW w, NEW v, NEW r, Pressed(w, r), \A i \in Commands : v.job[i].kind = w.job[i].kind
    PROVE  Pressed(v, r)
<1>1. \A c \in Commands : Quit \in Commands
  BY JobSets DEF Commands, Quit
<1> QED
  BY <1>1 DEF Pressed

(* What Ended() leaves of a job, and what it does not touch. *)
LEMMA EndedIs ==
    ASSUME NEW w \in WorldType, NEW j \in Jobs, NEW v, v = Ended(w, j)
    PROVE  /\ v \in WorldType /\ v.sess = w.sess
           /\ \A k \in Jobs \ {j} : v.job[k] = w.job[k]
           /\ v.ctl.session = w.ctl.session /\ v.ctl.made = w.ctl.made
           /\ v.ctl.desired = w.ctl.desired /\ v.ctl.closed = w.ctl.closed
           /\ v.ctl.intent = w.ctl.intent /\ v.ctl.autos = w.ctl.autos /\ v.ctl.last = w.ctl.last
           /\ v.ctl.keeper = IF w.ctl.keeper = j THEN Nobody ELSE w.ctl.keeper
           /\ v.job[j].kind = w.job[j].kind /\ v.job[j].pc = "done" /\ v.job[j].at = "none"
           /\ v.job[j].on = Nobody /\ v.job[j].intent = 0 /\ ~v.job[j].cancel
<1>1. w.ctl \in CtlType /\ w.job \in [Jobs -> JobType] /\ w.job[j] \in JobType
  BY DEF WorldType
<1>2. PICK x \in JobType : /\ x = [Idle EXCEPT !.kind = w.job[j].kind, !.pc = "done"]
                           /\ x.kind = w.job[j].kind /\ x.pc = "done" /\ x.at = "none"
                           /\ x.on = Nobody /\ x.intent = 0 /\ ~x.cancel
  <2>1. 0 \in 0..Attempts /\ 0 \in Nat
    BY JobSets
  <2>2. Idle \in JobType
    BY <2>1 DEF Idle, JobType
  <2>3. PICK kind \in {"none", "connect", "disconnect", "supervise"} : kind = w.job[j].kind
    BY <1>1 DEF JobType
  <2>4. [Idle EXCEPT !.kind = kind, !.pc = "done"] \in JobType
    BY <2>2 DEF JobType
  <2> QED
    BY <2>3, <2>4 DEF Idle
<1>3. PICK keeper \in Supervisors \cup {Nobody} :
         keeper = IF w.ctl.keeper = j THEN Nobody ELSE w.ctl.keeper
  BY <1>1 DEF CtlType
<1>4. v = [w EXCEPT !.job[j] = x, !.ctl.keeper = keeper]
  BY <1>1, <1>2, <1>3 DEF Ended, WorldType, CtlType
<1>5. /\ v.job = [w.job EXCEPT ![j] = x] /\ v.ctl = [w.ctl EXCEPT !.keeper = keeper]
      /\ v.sess = w.sess
  BY <1>4 DEF WorldType
<1>6. /\ v.ctl \in CtlType /\ v.ctl.keeper = keeper
      /\ v.ctl.session = w.ctl.session /\ v.ctl.made = w.ctl.made
      /\ v.ctl.desired = w.ctl.desired /\ v.ctl.closed = w.ctl.closed
      /\ v.ctl.intent = w.ctl.intent /\ v.ctl.autos = w.ctl.autos /\ v.ctl.last = w.ctl.last
  BY <1>1, <1>3, <1>5 DEF CtlType
<1>7. v.job \in [Jobs -> JobType] /\ v.job[j] = x /\ \A k \in Jobs \ {j} : v.job[k] = w.job[k]
  BY <1>1, <1>2, <1>5
<1>8. v \in WorldType
  BY <1>4, <1>5, <1>6, <1>7 DEF WorldType
<1> QED
  BY <1>2, <1>3, <1>5, <1>6, <1>7, <1>8

(* What At() sets, and what it does not touch. *)
LEMMA AtIs ==
    ASSUME NEW w \in WorldType, NEW j \in Jobs, NEW v, NEW pc, NEW at, v = At(w, j, pc, at),
           pc \in {"none", "queued", "created", "cancelling", "closing", "waiting",
                  "connecting", "undoing", "backoff", "done"},
           at \in {"none", "opening", "setup", "cleanup", "unwind", "teardown", "join", "notify", "native"}
    PROVE  /\ v \in WorldType /\ v.ctl = w.ctl /\ v.sess = w.sess
           /\ \A k \in Jobs \ {j} : v.job[k] = w.job[k]
           /\ v.job[j].pc = pc /\ v.job[j].at = at
           /\ v.job[j].kind = w.job[j].kind /\ v.job[j].on = w.job[j].on
           /\ v.job[j].intent = w.job[j].intent /\ v.job[j].attempt = w.job[j].attempt
           /\ v.job[j].joins = w.job[j].joins /\ v.job[j].cancel = w.job[j].cancel
<1>1. w.ctl \in CtlType /\ w.job \in [Jobs -> JobType] /\ w.job[j] \in JobType
      /\ w.sess \in [Sessions -> SessionType]
  BY DEF WorldType
<1>2. PICK x \in JobType : /\ x = [w.job[j] EXCEPT !.pc = pc, !.at = at]
                           /\ x.pc = pc /\ x.at = at /\ x.kind = w.job[j].kind /\ x.on = w.job[j].on
                           /\ x.intent = w.job[j].intent /\ x.attempt = w.job[j].attempt
                           /\ x.joins = w.job[j].joins /\ x.cancel = w.job[j].cancel
  <2>1. [w.job[j] EXCEPT !.pc = pc, !.at = at] \in JobType
    BY <1>1 DEF JobType
  <2>2. PICK x : x = [w.job[j] EXCEPT !.pc = pc, !.at = at]
    OBVIOUS
  <2>3. /\ x.pc = pc /\ x.at = at /\ x.kind = w.job[j].kind /\ x.on = w.job[j].on
    BY <1>1, <2>2 DEF JobType
  <2>4. /\ x.intent = w.job[j].intent /\ x.attempt = w.job[j].attempt
        /\ x.joins = w.job[j].joins /\ x.cancel = w.job[j].cancel
    BY <1>1, <2>2 DEF JobType
  <2> QED
    BY <2>1, <2>2, <2>3, <2>4
<1>3. v = [w EXCEPT !.job[j] = x]
  BY <1>1, <1>2 DEF At, WorldType
<1>4. v.job = [w.job EXCEPT ![j] = x] /\ v.ctl = w.ctl /\ v.sess = w.sess /\ v \in WorldType
  BY <1>1, <1>2, <1>3 DEF WorldType
<1> QED
  BY <1>1, <1>2, <1>4

(* The job j has moved, and the newest session with it at most. *)
Moved(w, v, j) ==
    /\ v \in WorldType
    /\ \A k \in Jobs \ {j} : v.job[k] = w.job[k]
    /\ v.job[j].kind = w.job[j].kind /\ v.job[j].pc \notin {"none", "queued"}
    /\ Live(v, j) => v.job[j].intent = w.job[j].intent
    /\ v.ctl.session = w.ctl.session /\ v.ctl.made = w.ctl.made /\ v.ctl.intent = w.ctl.intent
    /\ v.ctl.autos = w.ctl.autos /\ v.ctl.last = w.ctl.last
    /\ v.ctl.keeper = IF w.ctl.keeper = j /\ ~Live(v, j) THEN Nobody ELSE w.ctl.keeper
    /\ v.ctl.desired = w.ctl.desired \/ \A k \in Jobs \ {j} : ~Opening(w, k)
    /\ \A n \in Sessions :
          /\ v.sess[n].intent = w.sess[n].intent /\ v.sess[n].state # "ready"
          /\ \/ v.sess[n].client = w.sess[n].client /\ v.sess[n].poisoned = w.sess[n].poisoned
             \/ /\ n = w.ctl.made /\ v.sess[n].client # "opening"
                /\ \A k \in Jobs \ {j} : ~Opening(w, k) /\ w.job[k].pc # "backoff"

(* A job that has gone on to a place of its own is a job like the others again: the
   world is steady with it, whatever it did to the newest session on its way. *)
LEMMA MovedOK ==
    ASSUME NEW w, NEW j, NEW r, NEW t, NEW v, Moves(w, j, r, t), Moved(w, v, j), JobOK(v, j, r),
           \A k \in Jobs \ {j} : /\ Leaving(v, j) /\ v.job[j].on = w.ctl.made /\ Opening(w, k)
                                    => v.job[j].joins = k /\ v.job[j].at = "join"
                                 /\ Opening(v, j) /\ Leaving(w, k) /\ w.job[k].on = w.ctl.made
                                    => w.job[k].joins = j /\ w.job[k].at = "join",
           Unopened(v, j) => Unopened(w, j),
           j \in Supervisors /\ Credit(v, j) => Affords(w, t, 1)
    PROVE  Good(v, r, t, w.ctl.autos)
<1>1. /\ w \in WorldType /\ j \in Jobs /\ w.job[j].kind # "none"
      /\ w.ctl.intent \in Nat /\ w.ctl.made \in Nat /\ w.ctl.autos \in Nat
  <2>1. w \in WorldType /\ j \in Jobs
    BY DEF Moves, Steady
  <2>2. w.job[j].kind # "none"
    BY DEF Moves, Kinds, Live, Idle
  <2>3. w.ctl.intent \in Nat /\ w.ctl.made \in Nat /\ w.ctl.autos \in Nat
    BY <2>1, JobSets DEF WorldType, CtlType
  <2> QED
    BY <2>1, <2>2, <2>3
<1>2. /\ OnlyNewest(w) /\ Opened1(w, Jobs \ {j}) /\ Joins(w, Jobs \ {j})
      /\ OneConnect(w) /\ OneSupervisor(w) /\ Used(w, t)
      /\ Keeper(w) /\ Kept(w) /\ Orphaned(w) /\ Awaited(w, Jobs \ {j}, r)
      /\ Funded(w, Jobs \ {j}, t) /\ Live(w, j)
      /\ w.job[j].kind = "connect" => NoRecovery(w)
  BY DEF Moves, Steady
<1>3. \A k \in Jobs : Live(v, k) => Live(w, k)
  BY <1>2 DEF Live, Moved
<1>4. \A k \in Jobs \ {j} : Live(v, k) <=> Live(w, k)
  BY DEF Live, Moved
<1>17. \A k \in Jobs \ {j} : Opening(w, k) \/ w.job[k].pc = "backoff" => w.ctl.made \in Sessions
  <2> TAKE k \in Jobs \ {j}
  <2>1. /\ w.job[k].on \in Sessions \cup {Nobody} /\ w.ctl.made \in 0..(MaxCommands + MaxTroubles)
    BY <1>1 DEF WorldType, JobType, CtlType
  <2>2. Opening(w, k) \/ w.job[k].pc = "backoff" => w.job[k].on # Nobody /\ w.job[k].on <= w.ctl.made
    BY DEF JobOK, Places, Opening, Moves, Steady
  <2> QED
    BY <2>1, <2>2, JobSets DEF Sessions
<1>5. \A k \in Jobs : JobOK(v, k, r)
  <2> SUFFICES ASSUME NEW k \in Jobs \ {j}
               PROVE  JobOK(v, k, r)
    OBVIOUS
  <2>1. JobOK(w, k, r)
    BY DEF Moves, Steady
  <2>2. Kinds(v, k) /\ Uncancelled(v, k, r)
    BY <2>1 DEF JobOK, Kinds, Uncancelled, Opening, Moved
  <2>3. Places(v, k)
    BY <2>1 DEF JobOK, Places, Leaving, Opening, Moved
  <2>4. Opens(v, k) /\ Recovers(v, k)
    BY <1>17, <2>1 DEF JobOK, Opens, Recovers, Opening, Moved, IntentIsCurrent, Newest, Live
  <2> QED
    BY <2>2, <2>3, <2>4 DEF JobOK
<1>6. OnlyNewest(v)
  BY <1>2 DEF OnlyNewest, Moved
<1>7. Opened1(v, Jobs)
  BY <1>1, <1>2 DEF Opened1, OnlyNewest, Moved, Newest
<1>8. Joins(v, Jobs)
  BY <1>1, <1>2 DEF Joins, Leaving, Opening, Moved
<1>30. Pressed(v, r)
  <2>1. Pressed(w, r) /\ \A i \in Commands : v.job[i].kind = w.job[i].kind
    BY <1>1, JobSets DEF Moved, Moves, Steady
  <2> QED
    BY <2>1, PressedOK
<1>9. OneConnect(v)
  BY <1>1, <1>2, <1>3, JobSets DEF OneConnect, Moved, Live
<1>18. Ordered(v)
  <2>1. Ordered(w) /\ \A c \in Commands \ {j} : j \in Commands /\ w.job[c].pc = "queued" => j < c
    BY DEF Moves, Steady, Orderly
  <2> QED
    BY <2>1, JobSets DEF Ordered, Moved
<1>19. Overruled(v, Jobs)
  <2>1. /\ Overruled(w, Jobs \ {j})
        /\ \A k \in Jobs \ {j} : Started(w, k) =>
              /\ w.job[j].kind = "disconnect" /\ w.job[k].kind # "disconnect" => ~IntentIsCurrent(w, k)
              /\ w.job[j].kind # "disconnect" /\ w.job[k].kind = "disconnect" => ~IntentIsCurrent(w, j)
    BY DEF Moves, Steady, Orderly
  <2>2. \A k \in Jobs \ {j} : v.job[k] = w.job[k]
    BY DEF Moved
  <2>3. /\ v.job[j].kind = w.job[j].kind /\ v.ctl.intent = w.ctl.intent
        /\ Started(v, j) => v.job[j].intent = w.job[j].intent
    BY DEF Moved, Started, Live
  <2> QED
    BY <1>1, <2>1, <2>2, <2>3 DEF Overruled, Started, IntentIsCurrent
<1>10. OneSupervisor(v) /\ Used(v, t)
  BY <1>1, <1>2, <1>3, JobSets DEF OneSupervisor, Used, Moved
<1>11. Keeper(v)
  BY <1>1, <1>2, <1>4, JobSets DEF Keeper, Moved
<1>12. Kept(v)
  BY <1>1, <1>2, <1>3, <1>4, JobSets DEF Kept, Moved, NoRecovery
<1>13. Orphaned(v)
  BY <1>1, <1>2, <1>3, <1>4, JobSets DEF Orphaned, Moved, NoRecovery, IntentIsCurrent
<1>14. Awaited(v, Jobs, r)
  BY <1>1, <1>2, <1>3, JobSets DEF Awaited, Moved
<1>15. Funded(v, Jobs, t)
  <2>1. \A c \in Commands : Unopened(v, c) => Unopened(w, c)
    BY JobSets DEF Unopened, Moved
  <2>2. \A more \in {0, 1} : Affords(w, t, more) => Affords(v, t, more)
    BY <2>1 DEF Affords, Moved
  <2>3. \A s \in Supervisors \ {j} : Credit(v, s) => Credit(w, s)
    <3> SUFFICES ASSUME NEW s \in Supervisors \ {j}, Credit(v, s) PROVE Credit(w, s)
      OBVIOUS
    <3>1. s \in Jobs \ {j} /\ v.job[s] = w.job[s]
      BY JobSets DEF Moved
    <3>2. w.job[s].at = "setup" => Opening(w, s) /\ w.ctl.made \in Sessions
      BY <1>17, <3>1 DEF Moves, Steady, JobOK, Places
    <3> QED
      BY <3>1, <3>2 DEF Credit, Moved, Newest
  <2> QED
    BY <1>2, <2>2, <2>3, JobSets DEF Funded
<1>16. NoneReady(v)
  BY DEF NoneReady, Moved
<1>20. v.ctl.autos <= w.ctl.autos /\ v \in WorldType
  BY <1>1 DEF Moved
<1> QED
  BY <1>5, <1>6, <1>7, <1>8, <1>9, <1>10, <1>11, <1>12, <1>13, <1>14, <1>15, <1>16, <1>18,
     <1>19, <1>20, <1>30 DEF Good, Steady

(* The sessions may change under a job that is being moved. *)
Rests(w, v, j) ==
    /\ v \in WorldType /\ v.job = w.job
    /\ v.ctl.session = w.ctl.session /\ v.ctl.made = w.ctl.made /\ v.ctl.intent = w.ctl.intent
    /\ v.ctl.autos <= w.ctl.autos /\ v.ctl.last = w.ctl.last /\ v.ctl.keeper = w.ctl.keeper
    /\ v.ctl.desired = w.ctl.desired \/ \A k \in Jobs \ {j} : ~Opening(w, k)
    /\ \A n \in Sessions :
          /\ v.sess[n].intent = w.sess[n].intent
          /\ \/ v.sess[n].client = w.sess[n].client /\ v.sess[n].poisoned = w.sess[n].poisoned
             \/ /\ n = w.ctl.made /\ v.sess[n].client # "opening"
                /\ \A k \in Jobs \ {j} : ~Opening(w, k) /\ w.job[k].pc # "backoff"

(* A trouble more or less in the purse. *)
LEMMA AffordsMore ==
    ASSUME NEW w, NEW v, NEW t \in Nat, NEW t2 \in {t, t + 1}, w.ctl.made \in Nat,
           v.ctl.made = w.ctl.made,
           \A c \in Commands : Unopened(v, c) => Unopened(w, c)
    PROVE  /\ \A more \in {0, 1} : Affords(w, t, more) => Affords(v, t2, more)
           /\ Affords(w, t, 0) /\ t2 # t => Affords(v, t2, 1)
BY JobSets DEF Affords, Commands

(* Nothing else in the world depends on where j is. *)
Leavable(w, v, j, r) ==
    /\ w.job[j].at = "opening" => \A n \in Sessions : v.sess[n].client # "opening"
    /\ r = "running" /\ w.job[j].pc = "cancelling" =>
          \A s \in Supervisors : Live(w, s) => w.job[j].joins # s

(* A job that has not gone on yet may still be moved after the sessions changed. *)
LEMMA RestsOK ==
    ASSUME NEW w, NEW j \in Jobs, NEW r, NEW t \in Nat, NEW t2 \in {t, t + 1}, NEW v,
           NEW K, K = Jobs \/ K = Jobs \ {j}, Steady(w, K, r, t), Rests(w, v, j),
           Live(w, j), Kinds(w, j), w.job[j].kind = "connect" => NoRecovery(w),
           Orderly(w, j),
           K = Jobs => Leavable(w, v, j, r)
    PROVE  /\ Moves(v, j, r, t2)
           /\ t2 # t => Affords(v, t2, 1)
           /\ Affords(w, t, 1) => Affords(v, t2, 1)
<1>1. /\ w \in WorldType /\ w.ctl.intent \in Nat /\ w.ctl.made \in Nat
      /\ OnlyNewest(w) /\ Opened1(w, K) /\ Joins(w, K)
      /\ OneConnect(w) /\ OneSupervisor(w) /\ Used(w, t)
      /\ Keeper(w) /\ Kept(w) /\ Orphaned(w) /\ Awaited(w, K, r)
      /\ Funded(w, K, t)
  <2>1. w \in WorldType
    BY DEF Steady
  <2>2. w.ctl.intent \in Nat /\ w.ctl.made \in Nat
    BY <2>1, JobSets DEF WorldType, CtlType
  <2> QED
    BY <2>1, <2>2 DEF Steady
<1>2. \A k \in Jobs : Live(v, k) <=> Live(w, k)
  BY DEF Live, Rests
<1>3. \A k \in Jobs \ {j} : JobOK(w, k, r)
  BY DEF Steady
<1>4. \A k \in Jobs \ {j} : Opening(w, k) \/ w.job[k].pc = "backoff" => w.ctl.made \in Sessions
  <2> TAKE k \in Jobs \ {j}
  <2>1. /\ w.job[k].on \in Sessions \cup {Nobody} /\ w.ctl.made \in 0..(MaxCommands + MaxTroubles)
    BY <1>1 DEF WorldType, JobType, CtlType
  <2>2. Opening(w, k) \/ w.job[k].pc = "backoff" => w.job[k].on # Nobody /\ w.job[k].on <= w.ctl.made
    BY <1>3 DEF JobOK, Places, Opening
  <2> QED
    BY <2>1, <2>2, JobSets DEF Sessions
<1>24. w.ctl.autos \in Nat /\ v.ctl.autos \in Nat /\ \A k \in Jobs : w.job[k].attempt \in Nat
  BY <1>1, JobSets DEF WorldType, CtlType, JobType, Rests
<1>5. \A k \in Jobs \ {j} : JobOK(v, k, r)
  <2> TAKE k \in Jobs \ {j}
  <2>1. JobOK(w, k, r)
    BY <1>3
  <2>2. Kinds(v, k) /\ Uncancelled(v, k, r)
    BY <2>1 DEF JobOK, Kinds, Uncancelled, Opening, Rests
  <2>3. Places(v, k)
    BY <2>1 DEF JobOK, Places, Leaving, Opening, Rests
  <2>4. Opens(v, k) /\ Recovers(v, k)
    BY <1>4, <1>24, <2>1 DEF JobOK, Opens, Recovers, Opening, Rests, IntentIsCurrent, Newest, Live
  <2> QED
    BY <2>2, <2>3, <2>4 DEF JobOK
<1>6. OnlyNewest(v)
  BY <1>1 DEF OnlyNewest, Rests
<1>7. Opened1(v, Jobs \ {j})
  <2>1. CASE K = Jobs
    BY <1>1, <2>1 DEF Opened1, OnlyNewest, Rests, Leavable
  <2>2. CASE K = Jobs \ {j}
    BY <1>1, <2>2 DEF Opened1, OnlyNewest, Rests
  <2> QED
    BY <2>1, <2>2
<1>8. Joins(v, Jobs \ {j})
  BY <1>1 DEF Joins, Leaving, Opening, Rests
<1>30. Pressed(v, r)
  <2>1. Pressed(w, r) /\ \A i \in Commands : v.job[i].kind = w.job[i].kind
    BY DEF Rests, Steady
  <2> QED
    BY <2>1, PressedOK
<1>9. OneConnect(v)
  BY <1>1, <1>2, JobSets DEF OneConnect, Rests
<1>22. Ordered(v) /\ Overruled(v, Jobs \ {j})
  <2>1. Ordered(w) /\ Overruled(w, Jobs \ {j})
    BY DEF Steady, Overruled
  <2> QED
    BY <2>1 DEF Ordered, Overruled, Started, IntentIsCurrent, Rests
<1>23. Orderly(v, j)
  BY DEF Orderly, Rests, Started, IntentIsCurrent
<1>21. OneSupervisor(v) /\ Keeper(v)
  BY <1>1, <1>2, JobSets DEF OneSupervisor, Keeper, Rests
<1>10. Used(v, t2)
  <2>1. PICK u \in 0..t : \A s \in Supervisors : w.job[s].kind = "none" <=> s > MaxCommands + u
    BY <1>1 DEF Used
  <2>2. u \in 0..t2 /\ v.job = w.job
    BY DEF Rests
  <2> QED
    BY <2>1, <2>2 DEF Used
<1>11. Kept(v)
  BY <1>1, <1>2, JobSets DEF Kept, Rests
<1>12. Orphaned(v)
  BY <1>1, <1>2, JobSets DEF Orphaned, Rests, IntentIsCurrent
<1>13. Awaited(v, Jobs \ {j}, r)
  <2>1. CASE K = Jobs
    BY <1>1, <1>2, <2>1, JobSets DEF Awaited, Rests, Leavable
  <2>2. CASE K = Jobs \ {j}
    BY <1>1, <1>2, <2>2, JobSets DEF Awaited, Rests
  <2> QED
    BY <2>1, <2>2
<1>14. /\ \A c \in Commands : Unopened(v, c) => Unopened(w, c)
       /\ v.ctl.made = w.ctl.made
  BY DEF Unopened, Rests
<1>15. /\ \A more \in {0, 1} : Affords(w, t, more) => Affords(v, t2, more)
       /\ Affords(w, t, 0) /\ t2 # t => Affords(v, t2, 1)
  <2>1. w.ctl.made \in Nat /\ t \in Nat /\ t2 \in {t, t + 1}
    BY <1>1
  <2> HIDE DEF Affords, Unopened
  <2> QED
    BY ONLY <1>14, <2>1, AffordsMore
<1>16. \A s \in Supervisors \ {j} : Credit(v, s) => Credit(w, s)
  <2> SUFFICES ASSUME NEW s \in Supervisors \ {j}, Credit(v, s) PROVE Credit(w, s)
    OBVIOUS
  <2>1. s \in Jobs \ {j} /\ v.job[s] = w.job[s]
    BY JobSets DEF Rests
  <2>2. w.job[s].at = "setup" => Opening(w, s) /\ w.ctl.made \in Sessions
    BY <1>3, <1>4, <2>1 DEF JobOK, Places
  <2> QED
    BY <2>1, <2>2 DEF Credit, Rests, Newest
<1>17. Funded(v, Jobs \ {j}, t2)
  BY <1>1, <1>15, <1>16, JobSets DEF Funded
<1>18. Live(v, j) /\ Kinds(v, j) /\ (v.job[j].kind = "connect" => NoRecovery(v))
  BY <1>2, JobSets DEF Kinds, Rests, NoRecovery
<1>19. Affords(w, t, 0)
  BY <1>1 DEF Funded
<1>20. v \in WorldType
  BY DEF Rests
<1> QED
  BY <1>5, <1>6, <1>7, <1>8, <1>9, <1>10, <1>11, <1>12, <1>13, <1>15, <1>17, <1>18,
     <1>19, <1>20, <1>21, <1>22, <1>23, <1>30
     DEF Moves, Steady

(* A job may end anywhere: the recovery task through its done callback. *)
LEMMA EndedOK ==
    ASSUME NEW w, NEW j, NEW r, NEW t, Moves(w, j, r, t), NoneReady(w)
    PROVE  Good(Ended(w, j), r, t, w.ctl.autos)
<1>1. PICK v : v = Ended(w, j)
  OBVIOUS
<1>2. w \in WorldType /\ j \in Jobs /\ w.ctl.made \in Nat /\ w.ctl.intent \in Nat
  <2>1. w \in WorldType /\ j \in Jobs
    BY DEF Moves, Steady
  <2> QED
    BY <2>1, JobSets DEF WorldType, CtlType
<1>3. /\ v \in WorldType /\ v.sess = w.sess
      /\ \A k \in Jobs \ {j} : v.job[k] = w.job[k]
      /\ v.ctl.session = w.ctl.session /\ v.ctl.made = w.ctl.made
      /\ v.ctl.desired = w.ctl.desired /\ v.ctl.closed = w.ctl.closed
      /\ v.ctl.intent = w.ctl.intent /\ v.ctl.autos = w.ctl.autos /\ v.ctl.last = w.ctl.last
      /\ v.ctl.keeper = IF w.ctl.keeper = j THEN Nobody ELSE w.ctl.keeper
      /\ v.job[j].kind = w.job[j].kind /\ v.job[j].pc = "done" /\ v.job[j].at = "none"
      /\ v.job[j].on = Nobody /\ v.job[j].intent = 0 /\ ~v.job[j].cancel
  BY <1>1, <1>2, EndedIs
<1>4. Kinds(w, j) /\ Live(w, j)
  BY DEF Moves
<1>5. w.job[j].kind # "none"
  BY <1>4 DEF Kinds, Live, Idle
<1>6. JobOK(v, j, r)
  BY <1>2, <1>3, <1>4, <1>5, JobSets DEF JobOK, Kinds, Places, Opens, Recovers, Uncancelled,
     Leaving, Opening, Live
<1>7. Moved(w, v, j)
  BY <1>3 DEF Moved, Live, NoneReady
<1>8. ~Leaving(v, j) /\ ~Opening(v, j) /\ ~Credit(v, j) /\ ~Unopened(v, j)
  BY <1>3, <1>5 DEF Leaving, Opening, Credit, Unopened
<1> QED
  BY <1>1, <1>6, <1>7, <1>8, MovedOK

(* While a Connect or a recovery is at work no other one is past its queue. *)
LEMMA AloneIs ==
    ASSUME NEW w, NEW j \in Jobs, NEW r, NEW k \in Jobs \ {j}, OneConnect(w), OneSupervisor(w),
           Kept(w), Orphaned(w), Live(w, j), Kinds(w, j),
           w.job[j].kind = "connect" => NoRecovery(w), JobOK(w, k, r), w.job[j].kind # "disconnect"
    PROVE  /\ w.job[k].pc \notin {"connecting", "undoing", "waiting", "backoff", "created"}
           /\ w.job[k].kind # "disconnect" => w.job[k].pc # "closing" /\ w.job[k].on = Nobody
<1>1. /\ OneConnect(w) /\ OneSupervisor(w) /\ Kept(w) /\ Orphaned(w) /\ Live(w, j) /\ Kinds(w, j)
      /\ j \in Jobs /\ (w.job[j].kind = "connect" => NoRecovery(w)) /\ JobOK(w, k, r)
  OBVIOUS
<1>2. w.job[j].kind # "none"
  BY <1>1 DEF Kinds, Live, Idle
<1>3. Places(w, k) /\ Kinds(w, k)
  BY <1>1 DEF JobOK
<1>4. ASSUME k \in Supervisors, Live(w, k)
      PROVE  FALSE
  <2>1. w.job[j].kind # "connect"
    BY <1>1, <1>4 DEF NoRecovery
  <2>2. j \in Supervisors
    BY <1>1, <1>2, <2>1, JobSets DEF Kinds
  <2> QED
    BY <1>1, <1>4, <2>2 DEF OneSupervisor
<1>5. ASSUME k \in Commands, Live(w, k), w.job[k].kind = "connect"
      PROVE  w.job[k].pc \in {"queued", "cancelling"}
  <2>1. CASE j \in Supervisors
    BY <1>1, <1>5, <2>1 DEF Kept, Orphaned
  <2>2. CASE j \in Commands
    <3>1. w.job[j].kind = "connect" /\ j \in Nat /\ k \in Nat /\ j # k
      BY <1>1, <1>2, <2>2, JobSets DEF Kinds
    <3> QED
      BY <1>1, <1>5, <2>2, <3>1 DEF OneConnect, Live
  <2> QED
    BY <1>1, <2>1, <2>2, JobSets
<1>6. w.job[k].kind \in {"none", "connect", "disconnect", "supervise"}
  BY <1>3, JobSets DEF Kinds
<1> QED
  BY <1>3, <1>4, <1>5, <1>6, JobSets DEF Places, Kinds, Live, Idle

(* What AloneIs says, as the later proofs use it. *)
LEMMA Alone ==
    ASSUME NEW w, NEW j, NEW r, NEW t, Moves(w, j, r, t), w.job[j].kind # "disconnect",
           NEW k \in Jobs \ {j}
    PROVE  /\ w.job[k].pc \notin {"connecting", "undoing", "waiting", "backoff", "created"}
           /\ w.job[k].kind # "disconnect" => w.job[k].pc # "closing" /\ w.job[k].on = Nobody
<1>1. /\ j \in Jobs /\ OneConnect(w) /\ OneSupervisor(w) /\ Kept(w) /\ Orphaned(w)
      /\ Live(w, j) /\ Kinds(w, j) /\ JobOK(w, k, r)
      /\ w.job[j].kind = "connect" => NoRecovery(w)
  BY DEF Moves, Steady
<1> QED
  BY <1>1, AloneIs

Wanted(w) == [w EXCEPT !.ctl.desired = TRUE]

(* Giving up what is desired disturbs no job, as long as no other one opens. *)
LEMMA UnwantedOK ==
    ASSUME NEW w, NEW j, NEW r, NEW t \in Nat, Moves(w, j, r, t),
           w.job[j].kind # "disconnect",
           NEW v \in {Unwanted(w), Wanted(w)}
    PROVE  /\ Moves(v, j, r, t) /\ (NoneReady(w) => NoneReady(v)) /\ v.job = w.job /\ v.sess = w.sess
           /\ v.ctl.made = w.ctl.made /\ v.ctl.session = w.ctl.session
           /\ v.ctl.intent = w.ctl.intent /\ v.ctl.autos = w.ctl.autos /\ v.ctl.closed = w.ctl.closed
           /\ v.ctl.last = w.ctl.last
           /\ v = Wanted(w) => v.ctl.desired = TRUE
           /\ Affords(w, t, 1) => Affords(v, t, 1)
<1>1. /\ w \in WorldType /\ j \in Jobs /\ Steady(w, Jobs \ {j}, r, t) /\ Live(w, j) /\ Kinds(w, j)
      /\ w.job[j].kind = "connect" => NoRecovery(w)
      /\ Orderly(w, j)
  BY DEF Moves, Steady
<1>2. /\ v.job = w.job /\ v.sess = w.sess
      /\ v.ctl = [w.ctl EXCEPT !.desired = FALSE] \/ v.ctl = [w.ctl EXCEPT !.desired = TRUE]
      /\ v = Wanted(w) => v.ctl = [w.ctl EXCEPT !.desired = TRUE]
      /\ v = [ctl |-> v.ctl, job |-> v.job, sess |-> v.sess]
  BY <1>1 DEF WorldType, Unwanted, Wanted
<1>3. /\ v.ctl.session = w.ctl.session /\ v.ctl.made = w.ctl.made /\ v.ctl.intent = w.ctl.intent
      /\ v.ctl.autos = w.ctl.autos /\ v.ctl.last = w.ctl.last /\ v.ctl.keeper = w.ctl.keeper
      /\ v.ctl.closed = w.ctl.closed /\ v.ctl \in CtlType
  BY <1>1, <1>2 DEF WorldType, CtlType
<1>7. v = Wanted(w) => v.ctl.desired = TRUE
  BY <1>1, <1>2 DEF WorldType, CtlType
<1>4. v \in WorldType
  BY <1>1, <1>2, <1>3 DEF WorldType
<1>5. Rests(w, v, j)
  <2>1. w.ctl.autos \in Nat
    BY <1>1 DEF WorldType, CtlType
  <2> QED
    BY <1>2, <1>3, <1>4, <2>1, Alone DEF Rests, Opening
<1>6. Moves(v, j, r, t) /\ (Affords(w, t, 1) => Affords(v, t, 1))
  <2>1. t \in {t, t + 1} /\ Jobs \ {j} # Jobs
    BY <1>1
  <2> QED
    BY <1>1, <1>5, <2>1, RestsOK
<1> QED
  BY <1>2, <1>3, <1>6, <1>7 DEF NoneReady

(* What OpenSession() sets, and what it does not touch. *)
LEMMA OpenIs ==
    ASSUME NEW w \in WorldType, NEW j \in Jobs, NEW v, v = OpenSession(w, j),
           w.ctl.made + 1 \in Sessions
    PROVE  /\ v \in WorldType
           /\ \A k \in Jobs \ {j} : v.job[k] = w.job[k]
           /\ v.job[j].pc = "connecting" /\ v.job[j].at = "opening" /\ v.job[j].on = w.ctl.made + 1
           /\ v.job[j].kind = w.job[j].kind /\ v.job[j].intent = w.job[j].intent
           /\ v.job[j].attempt = w.job[j].attempt /\ v.job[j].joins = w.job[j].joins
           /\ v.job[j].cancel = w.job[j].cancel
           /\ v.ctl.session = w.ctl.made + 1 /\ v.ctl.made = w.ctl.made + 1
           /\ v.ctl.desired = w.ctl.desired /\ v.ctl.closed = w.ctl.closed
           /\ v.ctl.intent = w.ctl.intent /\ v.ctl.last = w.ctl.last /\ v.ctl.keeper = w.ctl.keeper
           /\ v.ctl.autos = w.ctl.autos + (IF w.job[j].kind = "supervise" THEN 1 ELSE 0)
           /\ \A n \in Sessions \ {w.ctl.made + 1} : v.sess[n] = w.sess[n]
           /\ v.sess[w.ctl.made + 1].state = "connecting" /\ v.sess[w.ctl.made + 1].client = "opening"
           /\ v.sess[w.ctl.made + 1].intent = w.job[j].intent /\ ~v.sess[w.ctl.made + 1].poisoned
<1> DEFINE n == w.ctl.made + 1
<1>1. w.ctl \in CtlType /\ w.job \in [Jobs -> JobType] /\ w.job[j] \in JobType
      /\ w.sess \in [Sessions -> SessionType]
  BY DEF WorldType
<1>2. PICK u : u = At(w, j, "connecting", "opening")
  OBVIOUS
<1>3. /\ u \in WorldType /\ u.ctl = w.ctl /\ u.sess = w.sess
      /\ \A k \in Jobs \ {j} : u.job[k] = w.job[k]
      /\ u.job[j].pc = "connecting" /\ u.job[j].at = "opening"
      /\ u.job[j].kind = w.job[j].kind
      /\ u.job[j].intent = w.job[j].intent /\ u.job[j].attempt = w.job[j].attempt
      /\ u.job[j].joins = w.job[j].joins /\ u.job[j].cancel = w.job[j].cancel
  BY <1>2, AtIs
<1>4. PICK x \in SessionType :
         /\ x = [NewSession EXCEPT !.state = "connecting", !.client = "opening",
                                 !.intent = w.job[j].intent]
         /\ x.state = "connecting" /\ x.client = "opening" /\ x.intent = w.job[j].intent /\ ~x.poisoned
  <2>1. NewSession \in SessionType
    BY DEF NewSession, SessionType
  <2>2. w.job[j].intent \in Nat
    BY <1>1 DEF JobType
  <2>3. PICK x : x = [NewSession EXCEPT !.state = "connecting", !.client = "opening",
                                 !.intent = w.job[j].intent]
    OBVIOUS
  <2>4. x \in SessionType
    BY <2>1, <2>2, <2>3 DEF SessionType
  <2>5. x.state = "connecting" /\ x.client = "opening" /\ x.intent = w.job[j].intent /\ ~x.poisoned
    BY <2>1, <2>3 DEF SessionType, NewSession
  <2> QED
    BY <2>3, <2>4, <2>5
<1>5. PICK autos : autos = w.ctl.autos + (IF w.job[j].kind = "supervise" THEN 1 ELSE 0)
  OBVIOUS
<1>6. v = [u EXCEPT !.job[j].on = n, !.ctl.session = n, !.ctl.made = n, !.ctl.autos = autos, !.sess[n] = x]
  BY <1>2, <1>3, <1>4, <1>5 DEF OpenSession
<1>7. /\ v.job = [u.job EXCEPT ![j].on = n]
      /\ v.ctl = [u.ctl EXCEPT !.session = n, !.made = n, !.autos = autos]
      /\ v.sess = [u.sess EXCEPT ![n] = x]
      /\ v = [ctl |-> v.ctl, job |-> v.job, sess |-> v.sess]
  BY <1>3, <1>6 DEF WorldType
<1>8. n \in Sessions /\ n \in 0..(MaxCommands + MaxTroubles) /\ autos \in Nat
  <2>1. n \in 0..(MaxCommands + MaxTroubles)
    BY JobSets DEF Sessions
  <2>2. w.ctl.autos \in Nat
    BY <1>1 DEF CtlType
  <2> QED
    BY <1>5, <2>1, <2>2
<1> HIDE DEF n
<1>9. /\ v.ctl \in CtlType /\ v.ctl.session = n /\ v.ctl.made = n
      /\ v.ctl.desired = w.ctl.desired /\ v.ctl.closed = w.ctl.closed
      /\ v.ctl.intent = w.ctl.intent /\ v.ctl.last = w.ctl.last /\ v.ctl.keeper = w.ctl.keeper
      /\ v.ctl.autos = autos
  <2>1. v.ctl = [w.ctl EXCEPT !.session = n, !.made = n, !.autos = autos]
    BY <1>3, <1>7
  <2>2. v.ctl \in CtlType
    BY <1>1, <1>8, <2>1 DEF CtlType
  <2>3. v.ctl.session = n /\ v.ctl.made = n /\ v.ctl.autos = autos
    BY <1>1, <2>1 DEF CtlType
  <2>4. /\ v.ctl.desired = w.ctl.desired /\ v.ctl.closed = w.ctl.closed
        /\ v.ctl.intent = w.ctl.intent /\ v.ctl.last = w.ctl.last /\ v.ctl.keeper = w.ctl.keeper
    BY <1>1, <2>1 DEF CtlType
  <2> QED
    BY <2>2, <2>3, <2>4
<1>10. /\ v.job \in [Jobs -> JobType] /\ v.job[j] = [u.job[j] EXCEPT !.on = n]
       /\ \A k \in Jobs \ {j} : v.job[k] = u.job[k]
  BY <1>3, <1>7, <1>8 DEF WorldType, JobType
<1>11. /\ v.job[j].pc = u.job[j].pc /\ v.job[j].at = u.job[j].at /\ v.job[j].on = n
       /\ v.job[j].kind = u.job[j].kind /\ v.job[j].intent = u.job[j].intent
       /\ v.job[j].attempt = u.job[j].attempt /\ v.job[j].joins = u.job[j].joins
       /\ v.job[j].cancel = u.job[j].cancel
  <2>1. u.job[j] \in JobType
    BY <1>3 DEF WorldType
  <2> QED
    BY <1>10, <2>1 DEF JobType
<1>12. v.sess \in [Sessions -> SessionType] /\ v.sess[n] = x
       /\ \A m \in Sessions \ {n} : v.sess[m] = w.sess[m]
  BY <1>1, <1>3, <1>4, <1>7, <1>8
<1>13. v \in WorldType
  BY <1>7, <1>9, <1>10, <1>12 DEF WorldType
<1> QED
  BY <1>3, <1>4, <1>5, <1>9, <1>10, <1>11, <1>12, <1>13 DEF n

(* A new session may be opened once the last one has let go of its client. *)
LEMMA OpenOK ==
    ASSUME NEW w, NEW j, NEW r, NEW t \in Nat, Moves(w, j, r, t), NoneReady(w), t <= MaxTroubles,
           w.job[j].kind # "disconnect",
           IntentIsCurrent(w, j) => w.ctl.last = "connect",
           w.job[j].kind = "connect" => Unopened(w, j) /\ (IntentIsCurrent(w, j) => w.ctl.desired),
           j \in Supervisors =>
              Affords(w, t, 1) /\ (IntentIsCurrent(w, j) => w.ctl.autos < w.job[j].attempt),
           w.ctl.made = 0 \/ Newest(w).client = "none"
    PROVE  Good(OpenSession(w, j), r, t, IF j \in Supervisors THEN w.ctl.autos + 1 ELSE w.ctl.autos)
<1>1. PICK v : v = OpenSession(w, j)
  OBVIOUS
<1>2. /\ w \in WorldType /\ j \in Jobs /\ Live(w, j) /\ Kinds(w, j)
      /\ OnlyNewest(w) /\ Opened1(w, Jobs \ {j}) /\ Joins(w, Jobs \ {j})
      /\ OneConnect(w) /\ OneSupervisor(w) /\ Used(w, t)
      /\ Keeper(w) /\ Kept(w) /\ Orphaned(w) /\ Awaited(w, Jobs \ {j}, r)
      /\ Funded(w, Jobs \ {j}, t)
      /\ w.job[j].kind = "connect" => NoRecovery(w)
      /\ \A k \in Jobs \ {j} : JobOK(w, k, r)
  BY DEF Moves, Steady
<1>3. w.ctl.made \in Nat /\ w.ctl.intent \in Nat /\ w.ctl.autos \in Nat /\ w.job[j].attempt \in Nat
  BY <1>2, JobSets DEF WorldType, CtlType, JobType
<1>4. w.job[j].kind # "none"
  BY <1>2 DEF Kinds, Live, Idle
<1>5. /\ j \in Commands => w.job[j].kind = "connect"
      /\ j \in Supervisors => w.job[j].kind = "supervise"
  BY <1>2, <1>4 DEF Kinds
<1>6. Affords(w, t, 0)
  BY <1>2 DEF Funded
<1>7. w.ctl.made + 1 \in Sessions
  <2>1. CASE j \in Supervisors
    BY <1>3, <2>1, JobSets DEF Affords, Sessions
  <2>2. CASE j \in Commands
    BY <1>3, <1>5, <1>6, <2>2, JobSets DEF Affords, Sessions, Commands
  <2> QED
    BY <1>2, <2>1, <2>2, JobSets
<1>8. /\ v \in WorldType
      /\ \A k \in Jobs \ {j} : v.job[k] = w.job[k]
      /\ v.job[j].pc = "connecting" /\ v.job[j].at = "opening" /\ v.job[j].on = w.ctl.made + 1
      /\ v.job[j].kind = w.job[j].kind /\ v.job[j].intent = w.job[j].intent
      /\ v.job[j].attempt = w.job[j].attempt /\ v.job[j].joins = w.job[j].joins
      /\ v.job[j].cancel = w.job[j].cancel
      /\ v.ctl.session = w.ctl.made + 1 /\ v.ctl.made = w.ctl.made + 1
      /\ v.ctl.desired = w.ctl.desired /\ v.ctl.closed = w.ctl.closed
      /\ v.ctl.intent = w.ctl.intent /\ v.ctl.last = w.ctl.last /\ v.ctl.keeper = w.ctl.keeper
      /\ v.ctl.autos = w.ctl.autos + (IF w.job[j].kind = "supervise" THEN 1 ELSE 0)
      /\ \A n \in Sessions \ {w.ctl.made + 1} : v.sess[n] = w.sess[n]
      /\ v.sess[w.ctl.made + 1].state = "connecting" /\ v.sess[w.ctl.made + 1].client = "opening"
      /\ v.sess[w.ctl.made + 1].intent = w.job[j].intent /\ ~v.sess[w.ctl.made + 1].poisoned
  BY <1>1, <1>2, <1>7, OpenIs
<1>9. \A k \in Jobs : Live(v, k) <=> Live(w, k)
  BY <1>2, <1>8 DEF Live
<1>10. JobOK(v, j, r)
  <2>1. Kinds(v, j)
    BY <1>2, <1>4, <1>8 DEF Kinds, IntentIsCurrent
  <2>2. Places(v, j) /\ Opens(v, j) /\ Uncancelled(v, j, r)
    BY <1>3, <1>7, <1>8, JobSets DEF Places, Opens, Uncancelled, Leaving, Opening,
       IntentIsCurrent, Newest
  <2>3. Recovers(v, j)
    BY <1>3, <1>5, <1>8 DEF Recovers, IntentIsCurrent
  <2> QED
    BY <2>1, <2>2, <2>3 DEF JobOK
<1>11. ASSUME NEW k \in Jobs \ {j}
       PROVE  JobOK(v, k, r)
  <2>1. /\ JobOK(w, k, r) /\ v.job[k] = w.job[k]
        /\ w.job[k].pc \notin {"connecting", "undoing", "waiting", "backoff", "created"}
        /\ w.job[k].kind # "disconnect" => w.job[k].pc # "closing" /\ w.job[k].on = Nobody
    BY <1>2, <1>8, Alone
  <2>2. Kinds(v, k) /\ Uncancelled(v, k, r) /\ Opens(v, k)
    BY <1>8, <2>1 DEF JobOK, Kinds, Uncancelled, Opening, Opens
  <2>3. Places(v, k)
    <3>1. w.job[k].on \in Nat
      <4>1. w.job[k].on \in Sessions \cup {Nobody}
        BY <1>2 DEF WorldType, JobType
      <4>2. Sessions \subseteq Nat /\ Nobody \in Nat
        BY JobSets
      <4> QED
        BY <4>1, <4>2
    <3> QED
      BY <1>3, <1>8, <2>1, <3>1 DEF JobOK, Places, Leaving, Opening
  <2>4. Recovers(v, k)
    <3> SUFFICES ASSUME k \in Supervisors, Live(w, k) PROVE FALSE
      BY <1>9 DEF Recovers
    <3>1. w.job[k].kind = "supervise" /\ Places(w, k)
      BY <2>1 DEF JobOK, Kinds, Live, Idle
    <3>2. j \in Commands
      BY <1>2, JobSets DEF OneSupervisor
    <3> QED
      BY <1>2, <1>5, <3>2 DEF NoRecovery
  <2> QED
    BY <2>2, <2>3, <2>4 DEF JobOK
<1>12. OnlyNewest(v)
  <2>1. \A n \in Sessions : n # w.ctl.made + 1 => w.sess[n].client = "none"
    BY <1>2, JobSets DEF OnlyNewest, Newest
  <2> QED
    BY <1>8, <2>1 DEF OnlyNewest
<1>13. Opened1(v, Jobs)
  BY <1>2, <1>8 DEF Opened1
<1>14. Joins(v, Jobs)
  <2> SUFFICES ASSUME NEW k \in Jobs, NEW i \in Jobs,
                      Leaving(v, k), v.job[k].on = v.ctl.made, Opening(v, i)
               PROVE  FALSE
    BY DEF Joins
  <2>1. k # j
    BY <1>8 DEF Leaving
  <2>2. v.job[k].on <= w.ctl.made
    BY <1>2, <1>8, <2>1 DEF JobOK, Places
  <2> QED
    BY <1>3, <1>8, <2>2
<1>30. Pressed(v, r)
  <2>1. Pressed(w, r) /\ \A i \in Commands : v.job[i].kind = w.job[i].kind
    BY <1>2, <1>8, JobSets DEF Moves, Steady
  <2> QED
    BY <2>1, PressedOK
<1>15. OneConnect(v)
  <2>1. \A k \in Commands : /\ v.job[k].kind = w.job[k].kind
                            /\ w.job[k].pc = "done" => v.job[k].pc = "done"
    BY <1>2, <1>8, JobSets DEF Live
  <2> QED
    BY <1>2, <1>9, <2>1, JobSets DEF OneConnect
<1>23. Ordered(v)
  <2>1. Ordered(w) /\ \A c \in Commands \ {j} : j \in Commands /\ w.job[c].pc = "queued" => j < c
    BY DEF Moves, Steady, Orderly
  <2> QED
    BY <1>8, <2>1, JobSets DEF Ordered
<1>24. Overruled(v, Jobs)
  <2>1. /\ Overruled(w, Jobs \ {j})
        /\ \A k \in Jobs \ {j} : Started(w, k) =>
              /\ w.job[j].kind = "disconnect" /\ w.job[k].kind # "disconnect" => ~IntentIsCurrent(w, k)
              /\ w.job[j].kind # "disconnect" /\ w.job[k].kind = "disconnect" => ~IntentIsCurrent(w, j)
    BY DEF Moves, Steady, Orderly
  <2> QED
    BY <1>2, <1>8, <2>1 DEF Overruled, Started, IntentIsCurrent
<1>25. v.ctl.autos <= IF j \in Supervisors THEN w.ctl.autos + 1 ELSE w.ctl.autos
  BY <1>2, <1>3, <1>5, <1>8, JobSets
<1>16. OneSupervisor(v) /\ Keeper(v)
  BY <1>2, <1>8, <1>9, JobSets DEF OneSupervisor, Keeper
<1>17. Used(v, t)
  BY <1>2, <1>8, JobSets DEF Used
<1>18. Kept(v)
  BY <1>2, <1>8, <1>9, JobSets DEF Kept, NoRecovery
<1>19. Orphaned(v)
  BY <1>2, <1>8, <1>9, JobSets DEF Orphaned, NoRecovery, IntentIsCurrent
<1>20. Awaited(v, Jobs, r)
  BY <1>2, <1>8, <1>9, JobSets DEF Awaited
<1>21. Funded(v, Jobs, t)
  <2>1. \A s \in Supervisors : ~Credit(v, s)
    <3> SUFFICES ASSUME NEW s \in Supervisors PROVE ~Credit(v, s)
      OBVIOUS
    <3>1. CASE s = j
      BY <1>8, <3>1 DEF Credit
    <3>2. CASE s # j
      <4>1. /\ v.job[s] = w.job[s] /\ JobOK(w, s, r)
            /\ w.job[s].pc \notin {"connecting", "undoing", "waiting", "backoff", "created"}
        BY <1>2, <1>8, <3>2, Alone, JobSets
      <4> QED
        BY <4>1 DEF Credit, JobOK, Places, Opening
    <3> QED
      BY <3>1, <3>2
  <2>2. ASSUME NEW c \in Commands, Unopened(v, c)
        PROVE  Unopened(w, c) /\ (j \in Commands => j < c)
    <3>1. c # j
      BY <1>4, <1>8, <2>2 DEF Unopened
    <3>2. Unopened(w, c)
      BY <1>8, <2>2, <3>1, JobSets DEF Unopened
    <3>3. ASSUME j \in Commands, c < j PROVE FALSE
      <4>1. w.job[c].kind # "none" /\ w.job[c].pc = "done"
        BY <1>2, <1>5, <3>3 DEF OneConnect
      <4> QED
        BY <3>2, <4>1 DEF Unopened
    <3> QED
      BY <3>1, <3>2, <3>3, JobSets DEF Commands
  <2>3. Affords(v, t, 0)
    <3>1. CASE j \in Supervisors
      BY <1>3, <1>8, <2>2, <3>1 DEF Affords
    <3>2. CASE j \in Commands
      <4>1. w.ctl.made < j + t
        <5>1. Unopened(w, j) /\ w.ctl.made + 0 < j + t
          BY <1>5, <1>6, <3>2 DEF Affords
        <5> QED
          BY <1>3, <5>1
      <4> QED
        BY <1>3, <1>6, <1>8, <2>2, <3>2, <4>1, JobSets DEF Affords, Commands
    <3> QED
      BY <1>2, <3>1, <3>2, JobSets
  <2> QED
    BY <2>1, <2>3 DEF Funded
<1>22. NoneReady(v)
  BY <1>8 DEF NoneReady
<1> QED
  BY <1>1, <1>8, <1>10, <1>11, <1>12, <1>13, <1>14, <1>15, <1>16, <1>17, <1>18, <1>19, <1>20, <1>21,
     <1>22, <1>23, <1>24, <1>25, <1>30 DEF Good, Steady

(* A Connect or a recovery whose session is the newest and that may open the next one. *)
Proceeds(w, j, r, t) ==
    /\ w.job[j].kind # "disconnect" /\ w.job[j].on = w.ctl.made /\ w.job[j].on # Nobody
    /\ r \in {"running", "closing"} /\ j \in Commands => ~w.job[j].cancel
    /\ w.job[j].kind = "connect" => Unopened(w, j)
    /\ IntentIsCurrent(w, j) => w.ctl.last = "connect"
    /\ j \in Supervisors =>
          Affords(w, t, 1) /\ (IntentIsCurrent(w, j) => w.ctl.autos <= w.job[j].attempt)

(* The job that is being moved is of the kind its number says. *)
LEMMA KindIs ==
    ASSUME NEW w, NEW j, NEW r, NEW t, Moves(w, j, r, t)
    PROVE  /\ j \in Jobs /\ w \in WorldType /\ w.job[j].kind # "none" /\ Live(w, j) /\ Kinds(w, j)
           /\ j \in Supervisors <=> w.job[j].kind = "supervise"
           /\ j \in Commands <=> w.job[j].kind \in {"connect", "disconnect"}
           /\ w.ctl.made \in Nat /\ w.ctl.intent \in Nat /\ w.ctl.autos \in Nat
           /\ w.job[j].attempt \in 0..Attempts
<1>1. j \in Jobs /\ w \in WorldType /\ Live(w, j) /\ Kinds(w, j)
  BY DEF Moves, Steady
<1>2. w.job[j].kind # "none"
  BY <1>1 DEF Kinds, Live, Idle
<1>3. w.ctl \in CtlType /\ w.job[j] \in JobType
  BY <1>1 DEF WorldType
<1>4. w.job[j].attempt \in 0..Attempts
  BY <1>3 DEF JobType
<1>5. w.ctl.made \in Nat /\ w.ctl.intent \in Nat /\ w.ctl.autos \in Nat
  BY <1>3, JobSets DEF CtlType
<1> QED
  BY <1>1, <1>2, <1>4, <1>5, JobSets DEF Kinds

(* wait_until_reconnectable(): the job waits for the release. *)
LEMMA WaitingOK ==
    ASSUME NEW w, NEW j, NEW r, NEW t, Moves(w, j, r, t), NoneReady(w), Proceeds(w, j, r, t)
    PROVE  Good(At(w, j, "waiting", "none"), r, t, w.ctl.autos)
<1>1. PICK v : v = At(w, j, "waiting", "none")
  OBVIOUS
<1>2. /\ w \in WorldType /\ j \in Jobs /\ Kinds(w, j) /\ Live(w, j) /\ w.job[j].kind # "none"
      /\ j \in Supervisors <=> w.job[j].kind = "supervise"
      /\ j \in Commands <=> w.job[j].kind \in {"connect", "disconnect"}
      /\ w.ctl.made \in Nat /\ w.ctl.autos \in Nat
  BY KindIs
<1>3. /\ v \in WorldType /\ v.ctl = w.ctl /\ v.sess = w.sess
      /\ \A k \in Jobs \ {j} : v.job[k] = w.job[k]
      /\ v.job[j].pc = "waiting" /\ v.job[j].at = "none"
      /\ v.job[j].kind = w.job[j].kind /\ v.job[j].on = w.job[j].on
      /\ v.job[j].intent = w.job[j].intent /\ v.job[j].attempt = w.job[j].attempt
      /\ v.job[j].joins = w.job[j].joins /\ v.job[j].cancel = w.job[j].cancel
  BY <1>1, <1>2, AtIs
<1>4. Kinds(v, j)
  BY <1>2, <1>3 DEF Kinds, Proceeds, IntentIsCurrent
<1>5. Places(v, j) /\ Opens(v, j) /\ Uncancelled(v, j, r)
  BY <1>2, <1>3 DEF Places, Opens, Uncancelled, Leaving, Opening, Proceeds
<1>6. Recovers(v, j)
  BY <1>3 DEF Recovers, Proceeds, IntentIsCurrent
<1>7. Moved(w, v, j)
  BY <1>3 DEF Moved, Live, NoneReady
<1>8. /\ ~Leaving(v, j) /\ ~Opening(v, j)
      /\ Unopened(v, j) => Unopened(w, j)
      /\ j \in Supervisors => Affords(w, t, 1)
  BY <1>2, <1>3 DEF Leaving, Opening, Unopened, Proceeds
<1> QED
  BY <1>1, <1>4, <1>5, <1>6, <1>7, <1>8, MovedOK DEF JobOK

(* A recovery goes to sleep before its next attempt, which it counts. *)
LEMMA BackoffOK ==
    ASSUME NEW w, NEW j, NEW r, NEW t, Moves(w, j, r, t), NoneReady(w), Proceeds(w, j, r, t),
           j \in Supervisors, w.job[j].attempt < Attempts, Newest(w).client = "none"
    PROVE  Good([At(w, j, "backoff", "none") EXCEPT !.job[j].attempt = @ + 1], r, t, w.ctl.autos)
<1>1. PICK u : u = At(w, j, "backoff", "none")
  OBVIOUS
<1>2. PICK v : v = [u EXCEPT !.job[j].attempt = @ + 1]
  OBVIOUS
<1>3. /\ w \in WorldType /\ j \in Jobs /\ Kinds(w, j) /\ Live(w, j) /\ w.job[j].kind # "none"
      /\ j \in Supervisors <=> w.job[j].kind = "supervise"
      /\ w.ctl.made \in Nat /\ w.ctl.autos \in Nat /\ w.job[j].attempt \in 0..Attempts
  BY KindIs
<1>4. /\ u \in WorldType /\ u.ctl = w.ctl /\ u.sess = w.sess
      /\ \A k \in Jobs \ {j} : u.job[k] = w.job[k]
      /\ u.job[j].pc = "backoff" /\ u.job[j].at = "none"
      /\ u.job[j].kind = w.job[j].kind /\ u.job[j].on = w.job[j].on
      /\ u.job[j].intent = w.job[j].intent /\ u.job[j].attempt = w.job[j].attempt
      /\ u.job[j].joins = w.job[j].joins /\ u.job[j].cancel = w.job[j].cancel
  BY <1>1, <1>3, AtIs
<1>5. /\ u.job \in [Jobs -> JobType] /\ u.job[j] \in JobType
  BY <1>3, <1>4 DEF WorldType
<1>6. PICK x : x = [u.job[j] EXCEPT !.attempt = @ + 1]
  OBVIOUS
<1>7. x \in JobType
  <2>1. u.job[j].attempt + 1 \in 0..Attempts
    BY <1>3, <1>4, JobSets
  <2> QED
    BY <1>5, <1>6, <2>1 DEF JobType
<1>8. /\ x.pc = "backoff" /\ x.at = "none" /\ x.kind = w.job[j].kind /\ x.on = w.job[j].on
      /\ x.intent = w.job[j].intent /\ x.attempt = w.job[j].attempt + 1
      /\ x.joins = w.job[j].joins /\ x.cancel = w.job[j].cancel
  BY <1>4, <1>5, <1>6 DEF JobType
<1>9. v = [u EXCEPT !.job[j] = x]
  BY <1>2, <1>5, <1>6, <1>4 DEF WorldType
<1>10. /\ v \in WorldType /\ v.ctl = w.ctl /\ v.sess = w.sess /\ v.job[j] = x
       /\ \A k \in Jobs \ {j} : v.job[k] = w.job[k]
  BY <1>3, <1>4, <1>7, <1>9 DEF WorldType
<1>11. Kinds(v, j)
  BY <1>3, <1>8, <1>10, JobSets DEF Kinds, Proceeds, IntentIsCurrent
<1>12. Places(v, j) /\ Opens(v, j) /\ Uncancelled(v, j, r)
  BY <1>3, <1>8, <1>10, JobSets DEF Places, Opens, Uncancelled, Leaving, Opening, Proceeds
<1>13. Recovers(v, j)
  BY <1>3, <1>8, <1>10 DEF Recovers, Proceeds, IntentIsCurrent, Newest
<1>14. Moved(w, v, j)
  BY <1>8, <1>10 DEF Moved, Live, NoneReady
<1>15. /\ ~Leaving(v, j) /\ ~Opening(v, j) /\ ~Unopened(v, j)
       /\ j \in Supervisors => Affords(w, t, 1)
  BY <1>3, <1>8, <1>10 DEF Leaving, Opening, Unopened, Proceeds
<1>16. Good(v, r, t, w.ctl.autos)
  BY <1>11, <1>12, <1>13, <1>14, <1>15, MovedOK DEF JobOK
<1> QED
  BY <1>1, <1>2, <1>16

(* A job that has left connect() opens no session. *)
LEMMA Unopening ==
    ASSUME NEW w, NEW j, NEW r, NEW t, Moves(w, j, r, t), w.job[j].kind # "disconnect",
           w.ctl.made # 0
    PROVE  w.ctl.made \in Sessions /\ Newest(w).client # "opening"
<1>1. w.ctl.made \in Sessions /\ j \in Jobs /\ Opened1(w, Jobs \ {j})
  <2>1. w.ctl.made \in 0..(MaxCommands + MaxTroubles)
    BY DEF Moves, Steady, WorldType, CtlType
  <2> QED
    BY <2>1, JobSets DEF Moves, Steady, Sessions
<1>2. \A k \in Jobs \ {j} : w.job[k].at # "opening"
  BY Alone DEF Moves, Steady, JobOK, Places, Opening
<1> QED
  BY <1>1, <1>2 DEF Opened1, Newest

(* The next round of the recovery, or its exhaustion. *)
LEMMA NextAttemptOK ==
    ASSUME NEW w, NEW j, NEW r, NEW t \in Nat, Moves(w, j, r, t), NoneReady(w), Proceeds(w, j, r, t),
           j \in Supervisors, Newest(w).client = "none"
    PROVE  Good(NextAttempt(w, j), r, t, w.ctl.autos)
<1>1. Good(Ended(w, j), r, t, w.ctl.autos)
  BY EndedOK
<1>2. Good(Ended(Unwanted(w), j), r, t, w.ctl.autos)
  <2>1. PICK v : v = Unwanted(w)
    OBVIOUS
  <2>2. w.job[j].kind # "disconnect"
    BY DEF Proceeds
  <2>3. Moves(v, j, r, t) /\ NoneReady(v) /\ v.ctl.autos = w.ctl.autos
    BY <2>1, <2>2, UnwantedOK
  <2> QED
    BY <2>1, <2>3, EndedOK
<1>3. w.job[j].attempt < Attempts =>
         Good([At(w, j, "backoff", "none") EXCEPT !.job[j].attempt = @ + 1], r, t, w.ctl.autos)
  BY BackoffOK
<1>4. w.job[j].attempt \in 0..Attempts /\ Attempts \in Nat
  BY KindIs, JobSets
<1> QED
  BY <1>1, <1>2, <1>3, <1>4 DEF NextAttempt

(* A Connect by hand opens its session and stores its wish. *)
LEMMA OpenWantedOK ==
    ASSUME NEW w, NEW j, NEW r, NEW t \in 0..MaxTroubles, Moves(w, j, r, t), NoneReady(w),
           w.job[j].kind = "connect", Unopened(w, j), IntentIsCurrent(w, j) => w.ctl.last = "connect",
           w.ctl.made = 0 \/ Newest(w).client = "none"
    PROVE  Good(OpenWanted(w, j), r, t, w.ctl.autos)
<1>1. PICK v : v = Wanted(w)
  OBVIOUS
<1>5. t \in Nat /\ t <= MaxTroubles /\ w.job[j].kind # "disconnect"
  BY JobSets
<1>2. /\ Moves(v, j, r, t) /\ NoneReady(v) /\ v.job = w.job /\ v.sess = w.sess
      /\ v.ctl.made = w.ctl.made /\ v.ctl.desired = TRUE
      /\ v.ctl.intent = w.ctl.intent /\ v.ctl.last = w.ctl.last /\ v.ctl.autos = w.ctl.autos
  BY <1>1, <1>5, UnwantedOK
<1>3. j \notin Supervisors
  BY KindIs
<1>4. Good(OpenSession(v, j), r, t, v.ctl.autos)
  <2>1. /\ v.job[j].kind # "disconnect" /\ Unopened(v, j)
        /\ IntentIsCurrent(v, j) => v.ctl.last = "connect" /\ v.ctl.desired
        /\ v.ctl.made = 0 \/ Newest(v).client = "none"
    BY <1>2, <1>3 DEF IntentIsCurrent, Unopened, Newest
  <2> QED
    BY <1>2, <1>3, <1>5, <2>1, OpenOK
<1> QED
  BY <1>1, <1>2, <1>4 DEF OpenWanted, Wanted

(* The wait for the release, and what follows it without an await. *)
LEMMA AwaitReleaseOK ==
    ASSUME NEW w, NEW j, NEW r, NEW t \in 0..MaxTroubles, Moves(w, j, r, t), NoneReady(w),
           Proceeds(w, j, r, t)
    PROVE  Good(AwaitRelease(w, j), r, t, w.ctl.autos)
<1>1. Good(Ended(w, j), r, t, w.ctl.autos) /\ Good(At(w, j, "waiting", "none"), r, t, w.ctl.autos)
  BY EndedOK, WaitingOK
<1>2. /\ j \in Jobs /\ w.job[j].kind \in {"connect", "supervise"}
      /\ j \in Supervisors <=> w.job[j].kind = "supervise"
  BY KindIs, JobSets DEF Proceeds
<1>3. ASSUME Reconnectable(On(w, j))
      PROVE  Newest(w).client = "none"
  <2>1. w.ctl.made \in Sessions /\ Newest(w).client # "opening" /\ On(w, j) = Newest(w)
    BY Unopening, JobSets DEF Proceeds, On, Newest
  <2>2. Newest(w).client \in {"none", "opening", "up", "closing"}
    BY <2>1, KindIs DEF WorldType, SessionType, Newest
  <2> QED
    BY <1>3, <2>1, <2>2 DEF Reconnectable, Connected
<1>4. CASE w.job[j].kind = "connect"
  <2>1. Reconnectable(On(w, j)) => Good(OpenWanted(w, j), r, t, w.ctl.autos)
    BY <1>3, <1>4, OpenWantedOK DEF Proceeds
  <2> QED
    BY <1>1, <1>4, <2>1 DEF AwaitRelease
<1>5. CASE w.job[j].kind = "supervise"
  <2>1. Reconnectable(On(w, j)) => Good(NextAttempt(w, j), r, t, w.ctl.autos)
    BY <1>2, <1>3, <1>5, NextAttemptOK
  <2> QED
    BY <1>1, <1>5, <2>1 DEF AwaitRelease
<1> QED
  BY <1>2, <1>4, <1>5

(* A coroutine inside disconnect(). *)
Leaves(w, j, r) ==
    /\ \/ w.job[j].pc = "closing" /\ j \in Commands
       \/ w.job[j].pc = "undoing" /\ w.job[j].kind # "disconnect"
    /\ w.job[j].on \in Sessions /\ w.job[j].on <= w.ctl.made
    /\ w.job[j].kind # "disconnect" => w.job[j].on = w.ctl.made
    /\ r \in {"running", "closing"} /\ j \in Commands => ~w.job[j].cancel
    /\ j \in Supervisors /\ IntentIsCurrent(w, j) => w.ctl.autos <= w.job[j].attempt

(* Nobody opens the session any more that it closes; or it waits for who does. *)
Joined1(w, j) == \A k \in Jobs \ {j} : w.job[j].on = w.ctl.made => ~Opening(w, k)
JoinsIt(w, j) == \A k \in Jobs \ {j} : w.job[j].on = w.ctl.made /\ Opening(w, k) => w.job[j].joins = k

States == {"disconnected", "connecting", "ready", "disconnecting", "error"}
WithState(w, n, state) == [w EXCEPT !.sess[n].state = state]

(* What a session's new state leaves alone. *)
LEMMA StateIs ==
    ASSUME NEW w \in WorldType, NEW n \in Sessions, NEW v,
           NEW state \in States, v = WithState(w, n, state)
    PROVE  /\ v \in WorldType /\ v.job = w.job /\ v.ctl = w.ctl /\ v.sess[n].state = state
           /\ \A m \in Sessions \ {n} : v.sess[m] = w.sess[m]
           /\ \A m \in Sessions : /\ v.sess[m].client = w.sess[m].client
                                  /\ v.sess[m].intent = w.sess[m].intent
                                  /\ v.sess[m].orphan = w.sess[m].orphan
                                  /\ v.sess[m].poisoned = w.sess[m].poisoned
                                  /\ v.sess[m].stuck = w.sess[m].stuck
<1>1. /\ w.sess \in [Sessions -> SessionType] /\ w.sess[n] \in SessionType
  BY DEF WorldType
<1>2. /\ v.job = w.job /\ v.ctl = w.ctl /\ v = [ctl |-> v.ctl, job |-> v.job, sess |-> v.sess]
      /\ v.sess = [w.sess EXCEPT ![n] = [w.sess[n] EXCEPT !.state = state]]
  BY DEF WithState, WorldType
<1>3. PICK x : x = [w.sess[n] EXCEPT !.state = state]
  OBVIOUS
<1>4. x \in SessionType /\ x.state = state /\ x.client = w.sess[n].client /\ x.intent = w.sess[n].intent
  BY <1>1, <1>3 DEF SessionType, States
<1>5. x.orphan = w.sess[n].orphan /\ x.poisoned = w.sess[n].poisoned /\ x.stuck = w.sess[n].stuck
  BY <1>1, <1>3 DEF SessionType
<1>6. v.sess \in [Sessions -> SessionType] /\ v.sess[n] = x
      /\ \A m \in Sessions \ {n} : v.sess[m] = w.sess[m]
  BY <1>1, <1>2, <1>3, <1>4
<1>7. v \in WorldType
  BY <1>2, <1>6 DEF WorldType
<1> QED
  BY <1>2, <1>4, <1>5, <1>6, <1>7

(* A session's state may change under the job that is being moved. *)
LEMMA StateOK ==
    ASSUME NEW w, NEW j, NEW r, NEW t \in Nat, NEW n \in Sessions, Moves(w, j, r, t),
           \A m \in Sessions \ {n} : w.sess[m].state # "ready",
           NEW state \in States \ {"ready"}
    PROVE  /\ Moves(WithState(w, n, state), j, r, t) /\ NoneReady(WithState(w, n, state))
           /\ Affords(w, t, 1) => Affords(WithState(w, n, state), t, 1)
           /\ Leaves(w, j, r) => Leaves(WithState(w, n, state), j, r)
           /\ Proceeds(w, j, r, t) => Proceeds(WithState(w, n, state), j, r, t)
<1>1. PICK v : v = WithState(w, n, state)
  OBVIOUS
<1>2. /\ w \in WorldType /\ j \in Jobs /\ Steady(w, Jobs \ {j}, r, t) /\ Live(w, j) /\ Kinds(w, j)
      /\ w.job[j].kind = "connect" => NoRecovery(w)
      /\ Orderly(w, j)
  BY DEF Moves, Steady
<1>3. /\ v \in WorldType /\ v.job = w.job /\ v.ctl = w.ctl /\ v.sess[n].state = state
      /\ \A m \in Sessions \ {n} : v.sess[m] = w.sess[m]
      /\ \A m \in Sessions : /\ v.sess[m].client = w.sess[m].client /\ v.sess[m].intent = w.sess[m].intent
                               /\ v.sess[m].poisoned = w.sess[m].poisoned
  BY <1>1, <1>2, StateIs
<1>4. Rests(w, v, j)
  <2>1. w.ctl.autos \in Nat
    BY <1>2 DEF WorldType, CtlType
  <2> QED
    BY <1>3, <2>1 DEF Rests
<1>5. Moves(v, j, r, t) /\ (Affords(w, t, 1) => Affords(v, t, 1))
  <2>1. t \in {t, t + 1} /\ Jobs \ {j} # Jobs
    BY <1>2
  <2> QED
    BY <1>2, <1>4, <2>1, RestsOK
<1>6. NoneReady(v)
  BY <1>3 DEF NoneReady, States
<1>7. Leaves(w, j, r) => Leaves(v, j, r)
  BY <1>3 DEF Leaves, IntentIsCurrent
<1>8. Proceeds(w, j, r, t) => Proceeds(v, j, r, t)
  BY <1>3, <1>5 DEF Proceeds, IntentIsCurrent, Unopened
<1> QED
  BY <1>1, <1>5, <1>6, <1>7, <1>8

(* What the caller of disconnect() does next. *)
LEMMA AfterDisconnectOK ==
    ASSUME NEW w, NEW j, NEW r, NEW t \in 0..MaxTroubles, Moves(w, j, r, t), NoneReady(w),
           Leaves(w, j, r), NEW raised
    PROVE  Good(AfterDisconnect(w, j, raised), r, t, w.ctl.autos)
<1>1. Good(Ended(w, j), r, t, w.ctl.autos)
  BY EndedOK
<1>2. CASE w.job[j].kind = "connect" /\ w.job[j].pc = "closing"
  <2>1. Proceeds(w, j, r, t)
    BY <1>2, KindIs, JobSets DEF Proceeds, Leaves, Unopened, Kinds, IntentIsCurrent
  <2>2. Good(AwaitRelease(w, j), r, t, w.ctl.autos)
    BY <2>1, AwaitReleaseOK
  <2> QED
    BY <1>1, <2>2 DEF AfterDisconnect
<1> QED
  BY <1>1, <1>2 DEF AfterDisconnect

(* disconnect() comes to its end. *)
LEMMA DisconnectedOK ==
    ASSUME NEW w, NEW j, NEW r, NEW t \in 0..MaxTroubles, Moves(w, j, r, t), NoneReady(w),
           Leaves(w, j, r)
    PROVE  Good(Disconnected(w, j), r, t, w.ctl.autos)
<1>1. PICK state : state = IF Connected(On(w, j)) THEN "error" ELSE "disconnected"
  OBVIOUS
<1>2. PICK v : v = WithState(w, w.job[j].on, state)
  OBVIOUS
<1>3. Moves(v, j, r, t) /\ NoneReady(v) /\ Leaves(v, j, r)
  <2>1. /\ w.job[j].on \in Sessions /\ state \in States \ {"ready"} /\ t \in Nat
    BY <1>1, JobSets DEF Leaves, States
  <2>2. \A m \in Sessions \ {w.job[j].on} : w.sess[m].state # "ready"
    BY DEF NoneReady
  <2> QED
    BY <1>2, <2>1, <2>2, StateOK
<1>5. v.ctl.autos = w.ctl.autos
  BY <1>2 DEF WithState
<1>4. Good(AfterDisconnect(v, j, Connected(On(w, j))), r, t, v.ctl.autos)
  BY <1>3, AfterDisconnectOK
<1> QED
  BY <1>1, <1>2, <1>4, <1>5 DEF Disconnected, WithState

(* One more await inside disconnect(). *)
LEMMA LeftOK ==
    ASSUME NEW w, NEW j, NEW r, NEW t, Moves(w, j, r, t), NoneReady(w), Leaves(w, j, r),
           NEW at \in {"teardown", "join", "notify"},
           IF at = "join" THEN JoinsIt(w, j) ELSE Joined1(w, j),
           at = "teardown" => w.job[j].joins = Nobody
    PROVE  Good(At(w, j, w.job[j].pc, at), r, t, w.ctl.autos)
<1>1. PICK v : v = At(w, j, w.job[j].pc, at)
  OBVIOUS
<1>2. /\ w \in WorldType /\ j \in Jobs /\ Kinds(w, j) /\ Live(w, j) /\ w.job[j].kind # "none"
      /\ j \in Supervisors <=> w.job[j].kind = "supervise"
      /\ w.ctl.made \in Nat
  BY KindIs
<1>3. /\ v \in WorldType /\ v.ctl = w.ctl /\ v.sess = w.sess
      /\ \A k \in Jobs \ {j} : v.job[k] = w.job[k]
      /\ v.job[j].pc = w.job[j].pc /\ v.job[j].at = at
      /\ v.job[j].kind = w.job[j].kind /\ v.job[j].on = w.job[j].on
      /\ v.job[j].intent = w.job[j].intent /\ v.job[j].attempt = w.job[j].attempt
      /\ v.job[j].joins = w.job[j].joins /\ v.job[j].cancel = w.job[j].cancel
  <2>1. w.job[j].pc \in {"closing", "undoing"}
    BY DEF Leaves
  <2> QED
    BY <1>1, <1>2, <2>1, AtIs
<1>4. JobOK(v, j, r)
  <2>1. Kinds(v, j)
    BY <1>2, <1>3 DEF Kinds, IntentIsCurrent
  <2>2. Places(v, j) /\ Opens(v, j) /\ Uncancelled(v, j, r)
    BY <1>2, <1>3, JobSets DEF Places, Opens, Uncancelled, Leaving, Opening, Leaves
  <2>3. Recovers(v, j)
    BY <1>3 DEF Recovers, IntentIsCurrent, Leaves
  <2> QED
    BY <2>1, <2>2, <2>3 DEF JobOK
<1>5. Moved(w, v, j)
  BY <1>2, <1>3 DEF Moved, Live, NoneReady, Leaves
<1>6. /\ ~Opening(v, j) /\ (Unopened(v, j) => Unopened(w, j)) /\ (j \in Supervisors => ~Credit(v, j))
      /\ \A k \in Jobs \ {j} : v.job[j].on = w.ctl.made /\ Opening(w, k)
                                  => v.job[j].joins = k /\ at = "join"
  BY <1>3 DEF Opening, Unopened, Credit, Leaves, Joined1, JoinsIt
<1> QED
  BY <1>1, <1>3, <1>4, <1>5, <1>6, MovedOK

(* The native disconnect. *)
LEMMA HangUpOK ==
    ASSUME NEW w, NEW j, NEW r, NEW t \in 0..MaxTroubles, Moves(w, j, r, t), NoneReady(w),
           Leaves(w, j, r), Joined1(w, j)
    PROVE  Good(HangUp(w, j), r, t, w.ctl.autos)
<1>1. CASE On(w, j).client = "none"
  BY <1>1, DisconnectedOK DEF HangUp
<1>2. CASE On(w, j).client # "none"
  <2> DEFINE n == w.job[j].on
             x == [w.sess[n] EXCEPT !.client = "closing", !.stuck = FALSE]
  <2>1. PICK u : u = At(w, j, w.job[j].pc, "native")
    OBVIOUS
  <2>2. PICK v : v = [u EXCEPT !.sess[n].client = "closing", !.sess[n].stuck = FALSE]
    OBVIOUS
  <2>3. /\ w \in WorldType /\ j \in Jobs /\ Kinds(w, j) /\ Live(w, j) /\ w.job[j].kind # "none"
        /\ j \in Supervisors <=> w.job[j].kind = "supervise"
        /\ w.ctl.made \in Nat
    BY KindIs
  <2>4. /\ u \in WorldType /\ u.ctl = w.ctl /\ u.sess = w.sess
        /\ \A k \in Jobs \ {j} : u.job[k] = w.job[k]
        /\ u.job[j].pc = w.job[j].pc /\ u.job[j].at = "native"
        /\ u.job[j].kind = w.job[j].kind /\ u.job[j].on = w.job[j].on
        /\ u.job[j].intent = w.job[j].intent /\ u.job[j].attempt = w.job[j].attempt
        /\ u.job[j].joins = w.job[j].joins /\ u.job[j].cancel = w.job[j].cancel
    <3>1. w.job[j].pc \in {"closing", "undoing"}
      BY DEF Leaves
    <3> QED
      BY <2>1, <2>3, <3>1, AtIs
  <2>5. n \in Sessions /\ n = w.ctl.made
    BY <1>2 DEF Leaves, Moves, Steady, OnlyNewest, On
  <2>6. w.sess[n] \in SessionType /\ w.sess \in [Sessions -> SessionType]
    BY <2>3, <2>5 DEF WorldType
  <2>7. /\ x \in SessionType /\ x.client = "closing"
        /\ x.state = w.sess[n].state /\ x.intent = w.sess[n].intent
    BY <2>6 DEF SessionType
  <2> HIDE DEF n
  <2>8. /\ v.ctl = u.ctl /\ v.job = u.job /\ v = [ctl |-> v.ctl, job |-> v.job, sess |-> v.sess]
        /\ v.sess = [w.sess EXCEPT ![n] = x]
    BY <2>2, <2>4, <2>5, <2>6 DEF WorldType
  <2> HIDE DEF x
  <2>9. /\ v.sess \in [Sessions -> SessionType] /\ v.sess[n] = x
        /\ \A m \in Sessions \ {n} : v.sess[m] = w.sess[m]
    BY <2>5, <2>6, <2>7, <2>8
  <2>10. v \in WorldType
    BY <2>4, <2>8, <2>9 DEF WorldType
  <2>11. JobOK(v, j, r)
    <3>1. Kinds(v, j)
      BY <2>3, <2>4, <2>8 DEF Kinds, IntentIsCurrent
    <3>2. Places(v, j) /\ Opens(v, j) /\ Uncancelled(v, j, r)
      BY <2>3, <2>4, <2>8, JobSets DEF Places, Opens, Uncancelled, Leaving, Opening, Leaves
    <3>3. Recovers(v, j)
      BY <2>4, <2>8 DEF Recovers, IntentIsCurrent, Leaves
    <3> QED
      BY <3>1, <3>2, <3>3 DEF JobOK
  <2>12. \A k \in Jobs \ {j} : ~Opening(w, k) /\ w.job[k].pc # "backoff"
    <3> SUFFICES ASSUME NEW k \in Jobs \ {j} PROVE ~Opening(w, k) /\ w.job[k].pc # "backoff"
      OBVIOUS
    <3>1. JobOK(w, k, r) /\ ~Opening(w, k)
      BY <2>5 DEF Moves, Steady, Joined1, n
    <3>2. w.job[k].pc = "backoff" => k \in Supervisors /\ Live(w, k) /\ Newest(w).client = "none"
      BY <3>1 DEF JobOK, Places, Recovers, Live
    <3> QED
      BY <1>2, <2>5, <3>1, <3>2 DEF Newest, On, n
  <2>13. Moved(w, v, j)
    <3>1. \A m \in Sessions : /\ v.sess[m].intent = w.sess[m].intent /\ v.sess[m].state # "ready"
                               /\ \/ /\ v.sess[m].client = w.sess[m].client
                                     /\ v.sess[m].poisoned = w.sess[m].poisoned
                                  \/ m = w.ctl.made /\ v.sess[m].client # "opening"
      BY <2>5, <2>7, <2>9 DEF NoneReady
    <3> QED
      <4>1. v.job[j].kind = w.job[j].kind /\ v.job[j].pc \notin {"none", "queued", "done"} /\ Live(v, j)
            /\ v.job[j].intent = w.job[j].intent /\ v.ctl = w.ctl
            /\ \A k \in Jobs \ {j} : v.job[k] = w.job[k]
        BY <2>4, <2>8 DEF Leaves, Live
      <4> QED
        BY <2>10, <2>12, <3>1, <4>1 DEF Moved
  <2>14. ~Opening(v, j) /\ (Unopened(v, j) => Unopened(w, j)) /\ (j \in Supervisors => ~Credit(v, j))
    BY <2>4, <2>8 DEF Opening, Unopened, Credit, Leaves
  <2>15. Good(v, r, t, w.ctl.autos)
    BY <2>11, <2>12, <2>13, <2>14, MovedOK
  <2> QED
    BY <1>2, <2>1, <2>2, <2>15 DEF HangUp, n
<1> QED
  BY <1>1, <1>2

(* disconnect() past its joins. *)
LEMMA StopNotifyOK ==
    ASSUME NEW w, NEW j, NEW r, NEW t \in 0..MaxTroubles, Moves(w, j, r, t), NoneReady(w),
           Leaves(w, j, r), Joined1(w, j)
    PROVE  Good(StopNotify(w, j), r, t, w.ctl.autos)
<1>1. Good(HangUp(w, j), r, t, w.ctl.autos)
  BY HangUpOK
<1>2. Good(At(w, j, w.job[j].pc, "notify"), r, t, w.ctl.autos)
  BY LeftOK
<1> QED
  BY <1>1, <1>2 DEF StopNotify

IsCancelled(w, v, k) ==
    /\ v \in WorldType /\ v.ctl = w.ctl /\ v.sess = w.sess
    /\ v.job[k].cancel = TRUE
    /\ \A i \in Jobs \ {k} : v.job[i] = w.job[i]
    /\ \A i \in Jobs : /\ v.job[i].pc = w.job[i].pc /\ v.job[i].at = w.job[i].at
                       /\ v.job[i].kind = w.job[i].kind /\ v.job[i].on = w.job[i].on
                       /\ v.job[i].intent = w.job[i].intent /\ v.job[i].attempt = w.job[i].attempt
                       /\ v.job[i].joins = w.job[i].joins

(* What task.cancel() leaves alone. *)
LEMMA CancelledIs ==
    ASSUME NEW w \in WorldType, NEW k \in Jobs, Live(w, k), NEW v, v = Cancelled(w, k)
    PROVE  IsCancelled(w, v, k)
<1>1. w.job \in [Jobs -> JobType] /\ w.job[k] \in JobType
  BY DEF WorldType
<1>2. PICK x : x = [w.job[k] EXCEPT !.cancel = TRUE]
  OBVIOUS
<1>3. x \in JobType /\ x.cancel = TRUE
  BY <1>1, <1>2 DEF JobType
<1>4. /\ x.pc = w.job[k].pc /\ x.at = w.job[k].at /\ x.kind = w.job[k].kind /\ x.on = w.job[k].on
  BY <1>1, <1>2 DEF JobType
<1>5. x.intent = w.job[k].intent /\ x.attempt = w.job[k].attempt /\ x.joins = w.job[k].joins
  BY <1>1, <1>2 DEF JobType
<1>6. v = [w EXCEPT !.job[k] = x]
  BY <1>1, <1>2 DEF Cancelled, WorldType
<1>7. v.job = [w.job EXCEPT ![k] = x] /\ v.ctl = w.ctl /\ v.sess = w.sess /\ v \in WorldType
  BY <1>1, <1>3, <1>6 DEF WorldType
<1> QED
  BY <1>1, <1>3, <1>4, <1>5, <1>7 DEF IsCancelled

(* Who is told to stop is no longer asked: a Connect that opens, or a recovery. *)
LEMMA CancelledOK ==
    ASSUME NEW w, NEW j, NEW r, NEW t, Moves(w, j, r, t), NEW k \in Jobs \ {j}, Live(w, k),
           k \in Supervisors \/ Opening(w, k), NEW v, v = Cancelled(w, k)
    PROVE  /\ Moves(v, j, r, t)
           /\ NoneReady(w) => NoneReady(v)
           /\ Leaves(w, j, r) => Leaves(v, j, r)
           /\ JoinsIt(w, j) => JoinsIt(v, j)
           /\ v.job[j] = w.job[j] /\ v.ctl = w.ctl /\ v.sess = w.sess
<1>1. /\ w \in WorldType /\ j \in Jobs /\ Live(w, j) /\ Kinds(w, j) /\ Orderly(w, j)
      /\ OnlyNewest(w) /\ Opened1(w, Jobs \ {j}) /\ Joins(w, Jobs \ {j})
      /\ OneConnect(w) /\ Ordered(w) /\ Overruled(w, Jobs \ {j}) /\ OneSupervisor(w) /\ Used(w, t)
      /\ Keeper(w) /\ Kept(w) /\ Orphaned(w) /\ Awaited(w, Jobs \ {j}, r)
      /\ Funded(w, Jobs \ {j}, t)
      /\ w.job[j].kind = "connect" => NoRecovery(w)
      /\ \A i \in Jobs \ {j} : JobOK(w, i, r)
  BY DEF Moves, Steady
<1>2. /\ v \in WorldType /\ v.ctl = w.ctl /\ v.sess = w.sess
      /\ v.job[k].cancel = TRUE
      /\ \A i \in Jobs \ {k} : v.job[i] = w.job[i]
      /\ \A i \in Jobs : /\ v.job[i].pc = w.job[i].pc /\ v.job[i].at = w.job[i].at
                         /\ v.job[i].kind = w.job[i].kind /\ v.job[i].on = w.job[i].on
                         /\ v.job[i].intent = w.job[i].intent /\ v.job[i].attempt = w.job[i].attempt
                         /\ v.job[i].joins = w.job[i].joins
  <2>1. w \in WorldType /\ k \in Jobs /\ Live(w, k) /\ v = Cancelled(w, k)
    BY <1>1
  <2> HIDE DEF Cancelled
  <2>2. IsCancelled(w, v, k)
    BY <2>1, CancelledIs
  <2> QED
    BY <2>2 DEF IsCancelled
<1>3. \A i \in Jobs : Live(v, i) <=> Live(w, i)
  BY <1>2 DEF Live
<1>4. ASSUME NEW i \in Jobs \ {j}
      PROVE  JobOK(v, i, r)
  <2>1. JobOK(w, i, r)
    BY <1>1
  <2>2. Kinds(v, i)
    <3>1. v.job[i] = w.job[i] \/ (w.job[i].kind # "none" /\ w.job[i].pc # "done")
      <4>1. w.job[k].pc # "none" /\ w.job[k].pc # "done"
        BY DEF Live
      <4>2. i # k => v.job[i] = w.job[i]
        BY <1>2
      <4>3. Kinds(w, i)
        BY <2>1 DEF JobOK
      <4> QED
        BY <4>1, <4>2, <4>3 DEF Kinds, Idle
    <3>2. Kinds(w, i) /\ v.job[i].pc = w.job[i].pc /\ v.job[i].kind = w.job[i].kind
          /\ v.job[i].intent = w.job[i].intent /\ v.ctl = w.ctl
      BY <1>2, <2>1 DEF JobOK
    <3> QED
      BY <3>1, <3>2 DEF Kinds
  <2>3. Places(v, i)
    BY <1>2, <2>1 DEF JobOK, Places, Leaving, Opening
  <2>4. Opens(v, i)
    BY <1>2, <2>1 DEF JobOK, Opens, Opening, Newest, IntentIsCurrent
  <2>5. Recovers(v, i)
    BY <1>2, <1>3, <2>1 DEF JobOK, Recovers, Newest, IntentIsCurrent
  <2>6. Uncancelled(v, i, r)
    <3>1. Uncancelled(w, i, r)
      BY <2>1 DEF JobOK
    <3>2. CASE i = k
      BY <1>2, <3>2, JobSets DEF Uncancelled, Opening
    <3>3. CASE i # k
      BY <1>2, <3>1, <3>3 DEF Uncancelled, Opening
    <3> QED
      BY <3>2, <3>3
  <2> QED
    BY <2>2, <2>3, <2>4, <2>5, <2>6 DEF JobOK
<1>5. OnlyNewest(v) /\ Opened1(v, Jobs \ {j})
  BY <1>1, <1>2 DEF OnlyNewest, Opened1
<1>6. Joins(v, Jobs \ {j})
  BY <1>1, <1>2 DEF Joins, Leaving, Opening
<1>30. Pressed(v, r)
  <2>1. Pressed(w, r) /\ \A i \in Commands : v.job[i].kind = w.job[i].kind
    BY <1>2, JobSets DEF Moves, Steady
  <2> QED
    BY <2>1, PressedOK
<1>7. OneConnect(v) /\ Ordered(v)
  <2>1. \A i \in Commands : v.job[i].kind = w.job[i].kind /\ v.job[i].pc = w.job[i].pc
                            /\ (Live(v, i) <=> Live(w, i))
    BY <1>2, <1>3, JobSets
  <2> QED
    BY <1>1, <2>1 DEF OneConnect, Ordered
<1>8. Overruled(v, Jobs \ {j})
  BY <1>1, <1>2 DEF Overruled, Started, IntentIsCurrent
<1>9. OneSupervisor(v) /\ Used(v, t) /\ Keeper(v)
  <2>1. \A s \in Supervisors : v.job[s].kind = w.job[s].kind /\ (Live(v, s) <=> Live(w, s))
    BY <1>2, <1>3, JobSets
  <2> QED
    BY <1>1, <1>2, <2>1 DEF OneSupervisor, Used, Keeper
<1>10. Kept(v)
  BY <1>1, <1>2, <1>3, JobSets DEF Kept
<1>11. Orphaned(v)
  BY <1>1, <1>2, <1>3, JobSets DEF Orphaned, IntentIsCurrent
<1>12. Awaited(v, Jobs \ {j}, r)
  BY <1>1, <1>2, <1>3, JobSets DEF Awaited
<1>13. Funded(v, Jobs \ {j}, t)
  <2>1. \A c \in Commands : Unopened(v, c) <=> Unopened(w, c)
    BY <1>2, JobSets DEF Unopened
  <2>2. \A s \in Supervisors : Credit(v, s) => Credit(w, s)
    BY <1>2, JobSets DEF Credit, Newest
  <2> QED
    BY <1>1, <1>2, <2>1, <2>2 DEF Funded, Affords
<1>14. Live(v, j) /\ Kinds(v, j) /\ (v.job[j].kind = "connect" => NoRecovery(v))
  BY <1>1, <1>2, <1>3, JobSets DEF Kinds, NoRecovery
<1>15. Orderly(v, j)
  BY <1>1, <1>2, JobSets DEF Orderly, Started, IntentIsCurrent
<1>16. Moves(v, j, r, t)
  BY <1>1, <1>2, <1>4, <1>5, <1>6, <1>7, <1>8, <1>9, <1>10, <1>11, <1>12, <1>13, <1>14, <1>15, <1>30
     DEF Moves, Steady
<1>17. v.job[j] = w.job[j]
  BY <1>1, <1>2
<1>18. Leaves(w, j, r) => Leaves(v, j, r)
  BY <1>2, <1>17 DEF Leaves, IntentIsCurrent
<1>19. JoinsIt(w, j) => JoinsIt(v, j)
  BY <1>2, <1>17 DEF JoinsIt, Opening
<1> QED
  BY <1>2, <1>16, <1>17, <1>18, <1>19 DEF NoneReady

(* disconnect() from its first join: k is the one it found opening the session. *)
LEMMA JoinConnectOK ==
    ASSUME NEW w, NEW j, NEW r, NEW t \in 0..MaxTroubles, Moves(w, j, r, t), NoneReady(w),
           Leaves(w, j, r), JoinsIt(w, j),
           w.job[j].joins # Nobody => w.job[j].joins \in Jobs \ {j} /\ Opening(w, w.job[j].joins)
    PROVE  Good(JoinConnect(w, j), r, t, w.ctl.autos)
<1>1. CASE w.job[j].joins # Nobody
  <2> DEFINE k == w.job[j].joins
  <2>1. k \in Jobs \ {j} /\ Opening(w, k) /\ Live(w, k)
    BY <1>1 DEF Opening, Live
  <2>2. PICK v : v = Cancelled(w, k)
    OBVIOUS
  <2> HIDE DEF k
  <2>3. /\ Moves(v, j, r, t) /\ NoneReady(v) /\ Leaves(v, j, r) /\ JoinsIt(v, j)
        /\ v.job[j] = w.job[j] /\ v.ctl = w.ctl
    BY <2>1, <2>2, CancelledOK
  <2>4. Good(At(v, j, v.job[j].pc, "join"), r, t, v.ctl.autos)
    BY <2>3, LeftOK
  <2>5. Good(At(v, j, w.job[j].pc, "join"), r, t, w.ctl.autos)
    BY <2>3, <2>4
  <2> QED
    BY <1>1, <2>1, <2>2, <2>5 DEF JoinConnect, k
<1>2. CASE w.job[j].joins = Nobody
  <2>1. Joined1(w, j)
    BY <1>2, JobSets DEF JoinsIt, Joined1
  <2>2. Good(At(w, j, w.job[j].pc, "teardown"), r, t, w.ctl.autos)
    BY <1>2, <2>1, LeftOK
  <2>3. Good(StopNotify(w, j), r, t, w.ctl.autos)
    BY <2>1, StopNotifyOK
  <2> QED
    BY <1>2, <2>2, <2>3 DEF JoinConnect
<1> QED
  BY <1>1, <1>2

(* Job j is at work elsewhere. *)
Remade(w, v, j) ==
    /\ v \in WorldType /\ v.ctl = w.ctl
    /\ \A k \in Jobs \ {j} : v.job[k] = w.job[k]
    /\ v.job[j].kind = w.job[j].kind /\ v.job[j].intent = w.job[j].intent
    /\ Started(v, j) /\ (Unopened(v, j) => Unopened(w, j))
    /\ \A m \in Sessions : /\ v.sess[m].client = w.sess[m].client
                           /\ v.sess[m].intent = w.sess[m].intent
                           /\ v.sess[m].poisoned = w.sess[m].poisoned

(* The fields of the moved job that no other part of the world reads may change. *)
LEMMA RemadeOK ==
    ASSUME NEW w, NEW j, NEW r, NEW t, Moves(w, j, r, t), NEW v, Remade(w, v, j),
           w.job[j].kind # "disconnect" /\ IntentIsCurrent(w, j) => w.ctl.last = "connect"
    PROVE  Moves(v, j, r, t)
<1>1. /\ w \in WorldType /\ j \in Jobs /\ Live(w, j) /\ Kinds(w, j) /\ Orderly(w, j)
      /\ OnlyNewest(w) /\ Opened1(w, Jobs \ {j}) /\ Joins(w, Jobs \ {j})
      /\ OneConnect(w) /\ Ordered(w) /\ Overruled(w, Jobs \ {j}) /\ OneSupervisor(w) /\ Used(w, t)
      /\ Keeper(w) /\ Kept(w) /\ Orphaned(w) /\ Awaited(w, Jobs \ {j}, r)
      /\ Funded(w, Jobs \ {j}, t)
      /\ w.job[j].kind = "connect" => NoRecovery(w)
      /\ \A i \in Jobs \ {j} : JobOK(w, i, r)
  BY DEF Moves, Steady
<1>2. /\ v \in WorldType /\ v.ctl = w.ctl
      /\ \A k \in Jobs \ {j} : v.job[k] = w.job[k]
      /\ v.job[j].kind = w.job[j].kind /\ v.job[j].intent = w.job[j].intent
      /\ v.job[j].pc # "none" /\ v.job[j].pc # "queued" /\ v.job[j].pc # "done"
      /\ Unopened(v, j) => Unopened(w, j)
  BY DEF Remade, Started
<1>3. \A m \in Sessions : /\ v.sess[m].client = w.sess[m].client
                          /\ v.sess[m].intent = w.sess[m].intent
                          /\ v.sess[m].poisoned = w.sess[m].poisoned
  BY DEF Remade
<1>4. \A i \in Jobs : /\ Live(v, i) <=> Live(w, i)
                      /\ v.job[i].kind = w.job[i].kind
  BY <1>1, <1>2 DEF Live
<1>5. \A k \in Jobs \ {j} : Opening(w, k) \/ w.job[k].pc = "backoff" => w.ctl.made \in Sessions
  <2> TAKE k \in Jobs \ {j}
  <2>1. /\ w.job[k].on \in Sessions \cup {Nobody} /\ w.ctl.made \in 0..(MaxCommands + MaxTroubles)
    BY <1>1 DEF WorldType, JobType, CtlType
  <2>2. Opening(w, k) \/ w.job[k].pc = "backoff" => w.job[k].on # Nobody /\ w.job[k].on <= w.ctl.made
    BY <1>1 DEF JobOK, Places, Opening
  <2> QED
    BY <2>1, <2>2, JobSets DEF Sessions
<1>6. ASSUME NEW i \in Jobs \ {j}
      PROVE  JobOK(v, i, r)
  <2>1. JobOK(w, i, r) /\ v.job[i] = w.job[i] /\ v.ctl = w.ctl
    BY <1>1, <1>2
  <2>2. Kinds(v, i) /\ Places(v, i) /\ Uncancelled(v, i, r)
    BY <2>1 DEF JobOK, Kinds, Places, Uncancelled, Leaving, Opening
  <2>3. Opens(v, i) /\ Recovers(v, i)
    BY <1>3, <1>5, <2>1 DEF JobOK, Opens, Recovers, Opening, Newest, IntentIsCurrent, Live
  <2> QED
    BY <2>1, <2>2, <2>3 DEF JobOK
<1>7. OnlyNewest(v) /\ Opened1(v, Jobs \ {j})
  BY <1>1, <1>2, <1>3 DEF OnlyNewest, Opened1
<1>8. Joins(v, Jobs \ {j})
  BY <1>1, <1>2 DEF Joins, Leaving, Opening
<1>30. Pressed(v, r)
  <2>1. Pressed(w, r) /\ \A i \in Commands : v.job[i].kind = w.job[i].kind
    BY <1>1, <1>2, JobSets DEF Moves, Steady
  <2> QED
    BY <2>1, PressedOK
<1>9. OneConnect(v)
  <2>1. \A i \in Commands : /\ v.job[i].kind = w.job[i].kind
                            /\ Live(v, i) <=> Live(w, i)
                            /\ w.job[i].pc = "done" => v.job[i].pc = "done"
    BY <1>1, <1>2, <1>4, JobSets DEF Live
  <2> QED
    BY <1>1, <2>1 DEF OneConnect
<1>10. Ordered(v)
  BY <1>1, <1>2, JobSets DEF Ordered, Orderly
<1>11. Overruled(v, Jobs \ {j})
  BY <1>1, <1>2 DEF Overruled, Started, IntentIsCurrent
<1>12. OneSupervisor(v) /\ Used(v, t) /\ Keeper(v)
  <2>1. \A s \in Supervisors : v.job[s].kind = w.job[s].kind /\ (Live(v, s) <=> Live(w, s))
    BY <1>4, JobSets
  <2> QED
    BY <1>1, <1>2, <2>1 DEF OneSupervisor, Used, Keeper
<1>13. Kept(v) /\ Orphaned(v)
  <2>1. \A c \in Commands : Live(v, c) /\ v.job[c].kind = "connect" =>
           Live(w, c) /\ w.job[c].kind = "connect" /\ (v.job[c] = w.job[c] \/ NoRecovery(w))
    BY <1>1, <1>2, <1>4, JobSets
  <2>2. \A s \in Supervisors : /\ Live(v, s) <=> Live(w, s)
                               /\ IntentIsCurrent(v, s) <=> IntentIsCurrent(w, s)
    BY <1>1, <1>2, <1>4, JobSets DEF IntentIsCurrent
  <2> QED
    BY <1>1, <1>2, <2>1, <2>2 DEF Kept, Orphaned, NoRecovery
<1>14. Awaited(v, Jobs \ {j}, r)
  BY <1>1, <1>2, <1>4, JobSets DEF Awaited
<1>15. Funded(v, Jobs \ {j}, t)
  <2>1. \A c \in Commands : Unopened(v, c) => Unopened(w, c)
    BY <1>2, JobSets DEF Unopened
  <2>2. \A s \in Supervisors \ {j} : Credit(v, s) => Credit(w, s)
    <3> SUFFICES ASSUME NEW s \in Supervisors \ {j}, Credit(v, s) PROVE Credit(w, s)
      OBVIOUS
    <3>1. s \in Jobs \ {j} /\ v.job[s] = w.job[s]
      BY <1>2, JobSets
    <3>2. w.job[s].at = "setup" => Opening(w, s) /\ w.ctl.made \in Sessions
      BY <1>1, <1>5, <3>1 DEF JobOK, Places
    <3> QED
      BY <1>2, <1>3, <3>1, <3>2 DEF Credit, Newest
  <2> QED
    BY <1>1, <1>2, <2>1, <2>2, JobSets DEF Funded, Affords
<1>16. Live(v, j) /\ Kinds(v, j) /\ (v.job[j].kind = "connect" => NoRecovery(v))
  <2>1. w.job[j].kind # "none"
    BY <1>1 DEF Kinds, Live, Idle
  <2>2. w.job[j].kind = "connect" => NoRecovery(v)
    BY <1>1, <1>4, JobSets DEF NoRecovery
  <2> QED
    BY <1>1, <1>2, <1>4, <2>1, <2>2 DEF Kinds, IntentIsCurrent
<1>17. Orderly(v, j)
  BY <1>1, <1>2, JobSets DEF Orderly, Started, IntentIsCurrent
<1> QED
  BY <1>1, <1>2, <1>6, <1>7, <1>8, <1>9, <1>10, <1>11, <1>12, <1>13, <1>14, <1>15, <1>16, <1>17,
     <1>30
     DEF Moves, Steady

(* At most one job opens a session. *)
LEMMA OneOpens ==
    ASSUME NEW w, NEW j, NEW r, NEW t, Moves(w, j, r, t),
           NEW i \in Jobs \ {j}, NEW k \in Jobs \ {j}, Opening(w, i), Opening(w, k)
    PROVE  i = k
<1>1. /\ OneConnect(w) /\ OneSupervisor(w) /\ Kept(w) /\ Orphaned(w)
      /\ JobOK(w, i, r) /\ JobOK(w, k, r) /\ Live(w, i) /\ Live(w, k)
  BY DEF Moves, Steady, Opening, Live
<1>2. /\ i \in Commands => w.job[i].kind = "connect" /\ w.job[i].pc \notin {"queued", "cancelling"}
      /\ k \in Commands => w.job[k].kind = "connect" /\ w.job[k].pc \notin {"queued", "cancelling"}
  BY <1>1 DEF JobOK, Kinds, Places, Opening, Idle
<1>3. CASE i \in Supervisors /\ k \in Supervisors
  BY <1>1, <1>3 DEF OneSupervisor
<1>4. CASE i \in Commands /\ k \in Commands
  BY <1>1, <1>2, <1>4, JobSets DEF OneConnect, Live
<1>5. CASE i \in Commands /\ k \in Supervisors
  BY <1>1, <1>2, <1>5 DEF Kept, Orphaned
<1>6. CASE i \in Supervisors /\ k \in Commands
  BY <1>1, <1>2, <1>6 DEF Kept, Orphaned
<1> QED
  BY <1>3, <1>4, <1>5, <1>6, JobSets

Entered(w, j, pc, n, k) ==
    [At(w, j, pc, "teardown") EXCEPT !.job[j].on = n, !.job[j].joins = k, !.sess[n].state = "disconnecting"]
Beside(w, j, pc, n) == [At(w, j, pc, "none") EXCEPT !.job[j].on = n]
LeavesAs(w, v, j, pc, n) ==
    /\ v \in WorldType /\ v.ctl = w.ctl
    /\ \A i \in Jobs \ {j} : v.job[i] = w.job[i]
    /\ v.job[j].pc = pc /\ v.job[j].on = n
    /\ v.job[j].kind = w.job[j].kind /\ v.job[j].intent = w.job[j].intent
    /\ v.job[j].attempt = w.job[j].attempt /\ v.job[j].cancel = w.job[j].cancel
    /\ \A m \in Sessions : /\ v.sess[m].client = w.sess[m].client
                           /\ v.sess[m].intent = w.sess[m].intent
                           /\ v.sess[m].poisoned = w.sess[m].poisoned
                           /\ v.sess[m].stuck = w.sess[m].stuck

(* What disconnect() sets when it is entered. *)
LEMMA EnteredIs ==
    ASSUME NEW w \in WorldType, NEW j \in Jobs, NEW pc \in {"closing", "undoing"}, NEW n \in Sessions,
           NEW k \in Jobs \cup {Nobody}, NEW v, v = Entered(w, j, pc, n, k)
    PROVE  /\ LeavesAs(w, v, j, pc, n)
           /\ v.job[j].joins = k /\ v.job[j].at = "teardown" /\ v.sess[n].state = "disconnecting"
           /\ \A m \in Sessions \ {n} : v.sess[m] = w.sess[m]
<1>1. PICK u : u = At(w, j, pc, "teardown")
  OBVIOUS
<1>2. /\ u \in WorldType /\ u.ctl = w.ctl /\ u.sess = w.sess
      /\ \A i \in Jobs \ {j} : u.job[i] = w.job[i]
      /\ u.job[j].pc = pc /\ u.job[j].at = "teardown"
      /\ u.job[j].kind = w.job[j].kind /\ u.job[j].on = w.job[j].on
      /\ u.job[j].intent = w.job[j].intent /\ u.job[j].attempt = w.job[j].attempt
      /\ u.job[j].joins = w.job[j].joins /\ u.job[j].cancel = w.job[j].cancel
  BY <1>1, AtIs
<1>3. /\ u.job \in [Jobs -> JobType] /\ u.job[j] \in JobType
      /\ w.sess \in [Sessions -> SessionType] /\ w.sess[n] \in SessionType
  BY <1>2 DEF WorldType
<1>4. PICK x : x = [u.job[j] EXCEPT !.on = n, !.joins = k]
  OBVIOUS
<1>5. PICK y : y = [w.sess[n] EXCEPT !.state = "disconnecting"]
  OBVIOUS
<1>6. x \in JobType /\ x.on = n /\ x.joins = k /\ x.pc = pc /\ x.at = "teardown"
  BY <1>2, <1>3, <1>4 DEF JobType
<1>7. /\ x.kind = w.job[j].kind /\ x.intent = w.job[j].intent
      /\ x.attempt = w.job[j].attempt /\ x.cancel = w.job[j].cancel
  BY <1>2, <1>3, <1>4 DEF JobType
<1>8. y \in SessionType /\ y.state = "disconnecting" /\ y.client = w.sess[n].client
  BY <1>3, <1>5 DEF SessionType
<1>9. y.intent = w.sess[n].intent /\ y.poisoned = w.sess[n].poisoned /\ y.stuck = w.sess[n].stuck
  BY <1>3, <1>5 DEF SessionType
<1>10. /\ v.ctl = u.ctl /\ v.job = [u.job EXCEPT ![j] = x] /\ v.sess = [w.sess EXCEPT ![n] = y]
       /\ v = [ctl |-> v.ctl, job |-> v.job, sess |-> v.sess]
  <2>1. v = [u EXCEPT !.job[j].on = n, !.job[j].joins = k, !.sess[n].state = "disconnecting"]
    BY <1>1 DEF Entered
  <2>2. PICK a : a = [u EXCEPT !.job[j].on = n]
    OBVIOUS
  <2>3. PICK b : b = [a EXCEPT !.job[j].joins = k]
    OBVIOUS
  <2>4. v = [b EXCEPT !.sess[n].state = "disconnecting"]
    BY <2>1, <2>2, <2>3
  <2>5. a = [ctl |-> u.ctl, job |-> [u.job EXCEPT ![j] = [u.job[j] EXCEPT !.on = n]], sess |-> w.sess]
    BY <1>2, <1>3, <2>2 DEF WorldType
  <2>6. b = [ctl |-> u.ctl, job |-> [u.job EXCEPT ![j] = x], sess |-> w.sess]
    BY <1>3, <1>4, <2>3, <2>5
  <2> QED
    BY <1>5, <2>4, <2>6
<1>11. /\ v.job \in [Jobs -> JobType] /\ v.job[j] = x /\ \A i \in Jobs \ {j} : v.job[i] = w.job[i]
  BY <1>2, <1>3, <1>6, <1>10
<1>12. /\ v.sess \in [Sessions -> SessionType] /\ v.sess[n] = y
       /\ \A m \in Sessions \ {n} : v.sess[m] = w.sess[m]
  BY <1>3, <1>8, <1>10
<1>13. v \in WorldType
  BY <1>2, <1>10, <1>11, <1>12 DEF WorldType
<1> QED
  BY <1>2, <1>6, <1>7, <1>8, <1>9, <1>10, <1>11, <1>12, <1>13 DEF LeavesAs

(* The job that disconnect() joins is the only one that opens the session. *)
LEMMA BesideIs ==
    ASSUME NEW w \in WorldType, NEW j \in Jobs, NEW pc \in {"closing", "undoing"}, NEW n \in Sessions,
           NEW v, v = Beside(w, j, pc, n)
    PROVE  LeavesAs(w, v, j, pc, n) /\ v.sess = w.sess
<1>1. PICK u : u = At(w, j, pc, "none")
  OBVIOUS
<1>2. /\ u \in WorldType /\ u.ctl = w.ctl /\ u.sess = w.sess
      /\ \A i \in Jobs \ {j} : u.job[i] = w.job[i]
      /\ u.job[j].pc = pc
      /\ u.job[j].kind = w.job[j].kind /\ u.job[j].on = w.job[j].on
      /\ u.job[j].intent = w.job[j].intent /\ u.job[j].attempt = w.job[j].attempt
      /\ u.job[j].cancel = w.job[j].cancel
  BY <1>1, AtIs
<1>3. u.job \in [Jobs -> JobType] /\ u.job[j] \in JobType
  BY <1>2 DEF WorldType
<1>4. PICK x : x = [u.job[j] EXCEPT !.on = n]
  OBVIOUS
<1>5. x \in JobType /\ x.on = n /\ x.pc = pc
  BY <1>2, <1>3, <1>4 DEF JobType
<1>6. /\ x.kind = w.job[j].kind /\ x.intent = w.job[j].intent
      /\ x.attempt = w.job[j].attempt /\ x.cancel = w.job[j].cancel
  BY <1>2, <1>3, <1>4 DEF JobType
<1>7. /\ v.ctl = u.ctl /\ v.job = [u.job EXCEPT ![j] = x] /\ v.sess = w.sess /\ v \in WorldType
  <2>1. v = [u EXCEPT !.job[j] = x]
    BY <1>1, <1>2, <1>3, <1>4 DEF Beside, WorldType
  <2> QED
    BY <1>2, <1>3, <1>5, <2>1 DEF WorldType
<1> QED
  BY <1>2, <1>3, <1>5, <1>6, <1>7 DEF LeavesAs

(* What enters disconnect() for the newest session. *)
Departs(w, j, pc, r) ==
    /\ \/ pc = "closing" /\ j \in Commands /\ (w.job[j].kind = "connect" => Unopened(w, j))
       \/ pc = "undoing" /\ w.job[j].kind # "disconnect"
    /\ r \in {"running", "closing"} /\ j \in Commands => ~w.job[j].cancel
    /\ j \in Supervisors /\ IntentIsCurrent(w, j) => w.ctl.autos <= w.job[j].attempt
    /\ w.job[j].kind # "disconnect" /\ IntentIsCurrent(w, j) => w.ctl.last = "connect"

(* A job that is allowed to leave still is once it has entered disconnect(). *)
LEMMA DepartsOK ==
    ASSUME NEW w, NEW j, NEW r, NEW t, Moves(w, j, r, t), NEW pc, Departs(w, j, pc, r),
           NEW n \in Sessions, n = w.ctl.made, NEW v, LeavesAs(w, v, j, pc, n)
    PROVE  Moves(v, j, r, t) /\ Leaves(v, j, r)
<1>1. Remade(w, v, j)
  BY DEF Remade, LeavesAs, Departs, Unopened, Started
<1>2. Moves(v, j, r, t)
  BY <1>1, RemadeOK DEF Departs
<1>3. w.ctl.made \in Nat
  BY KindIs
<1>4. Leaves(v, j, r)
  BY <1>3 DEF Leaves, Departs, LeavesAs, IntentIsCurrent
<1> QED
  BY <1>2, <1>4

(* disconnect(), from its start to its first await. *)
LEMMA DisconnectOK ==
    ASSUME NEW w, NEW j, NEW r, NEW t \in 0..MaxTroubles, Moves(w, j, r, t),
           NEW pc \in {"closing", "undoing"}, Departs(w, j, pc, r),
           NEW n \in Sessions, n = w.ctl.made, \A m \in Sessions \ {n} : w.sess[m].state # "ready"
    PROVE  Good(Disconnect(w, j, pc, n), r, t, w.ctl.autos)
<1> DEFINE connecting == {i \in Jobs \ {j} : w.job[i].pc = "connecting" /\ w.job[i].on = n}
           k == IF connecting = {} THEN Nobody ELSE CHOOSE i \in connecting : TRUE
<1>1. w \in WorldType /\ j \in Jobs
  BY KindIs
<1>2. /\ k \in Jobs \cup {Nobody}
      /\ k # Nobody => k \in Jobs \ {j} /\ Opening(w, k) /\ w.job[k].on = n
      /\ k = Nobody => \A i \in Jobs \ {j} : w.job[i].on = n => ~Opening(w, i)
  BY JobSets DEF Opening
<1>3. PICK v : v = Entered(w, j, pc, n, k)
  OBVIOUS
<1>4. PICK u : u = Beside(w, j, pc, n)
  OBVIOUS
<1>5. Disconnect(w, j, pc, n) =
        IF w.sess[n].state = "disconnected" /\ k = Nobody /\ ~Connected(w.sess[n])
        THEN AfterDisconnect(u, j, FALSE)
        ELSE IF TearingDown(w.sess[n]) THEN v ELSE JoinConnect(v, j)
  BY <1>3, <1>4 DEF Disconnect, Entered, Beside
<1> HIDE DEF k, connecting
<1>6. /\ LeavesAs(w, v, j, pc, n)
      /\ v.job[j].joins = k /\ v.job[j].at = "teardown" /\ v.sess[n].state = "disconnecting"
      /\ \A m \in Sessions \ {n} : v.sess[m] = w.sess[m]
  BY <1>1, <1>2, <1>3, EnteredIs
<1>7. LeavesAs(w, u, j, pc, n) /\ u.sess = w.sess
  BY <1>1, <1>4, BesideIs
<1>8. Moves(v, j, r, t) /\ Leaves(v, j, r)
  BY <1>6, DepartsOK
<1>9. Moves(u, j, r, t) /\ Leaves(u, j, r)
  BY <1>7, DepartsOK
<1>10. NoneReady(v)
  BY <1>6 DEF NoneReady
<1>11. v.ctl = w.ctl /\ u.ctl = w.ctl
  BY <1>6, <1>7 DEF LeavesAs
<1>12. \A i \in Jobs \ {j} : v.job[i] = w.job[i]
  BY <1>6 DEF LeavesAs
<1>13. JoinsIt(v, j)
  <2> SUFFICES ASSUME NEW i \in Jobs \ {j}, Opening(v, i) PROVE k = i
    BY <1>6 DEF JoinsIt
  <2>1. Opening(w, i)
    BY <1>12 DEF Opening
  <2>2. w.job[i].on = n
    <3>1. JobOK(w, i, r)
      BY DEF Moves, Steady
    <3>2. w.job[i].kind # "disconnect" /\ w.job[i].on # Nobody
      BY <2>1, <3>1 DEF JobOK, Places, Opening
    <3> QED
      BY <3>1, <3>2 DEF JobOK, Places
  <2>3. k # Nobody
    BY <1>2, <2>1, <2>2
  <2> QED
    BY <1>2, <2>1, <2>3, OneOpens
<1>14. k # Nobody => k \in Jobs \ {j} /\ Opening(v, k)
  BY <1>2, <1>12 DEF Opening
<1>15. w.sess[n].state = "disconnected" => Good(AfterDisconnect(u, j, FALSE), r, t, w.ctl.autos)
  <2> SUFFICES ASSUME w.sess[n].state = "disconnected"
               PROVE  Good(AfterDisconnect(u, j, FALSE), r, t, w.ctl.autos)
    OBVIOUS
  <2>1. NoneReady(u)
    BY <1>7 DEF NoneReady
  <2> QED
    BY <1>9, <1>11, <2>1, AfterDisconnectOK
<1>16. Good(JoinConnect(v, j), r, t, w.ctl.autos)
  BY <1>6, <1>8, <1>10, <1>11, <1>13, <1>14, JoinConnectOK
<1>17. ASSUME TearingDown(w.sess[n])
       PROVE  Good(v, r, t, w.ctl.autos)
  <2>1. k = Nobody
    <3> SUFFICES ASSUME k # Nobody PROVE FALSE
      OBVIOUS
    <3>1. k \in Jobs \ {j} /\ Opening(w, k)
      BY <1>2
    <3>2. JobOK(w, k, r)
      BY <3>1 DEF Moves, Steady
    <3>3. ~Newest(w).poisoned
      BY <3>1, <3>2 DEF JobOK, Opens
    <3> QED
      BY <1>17, <3>3 DEF TearingDown, Newest
  <2>2. Joined1(v, j)
    BY <1>6, <1>13, <2>1, JobSets DEF JoinsIt, Joined1
  <2>3. Good(At(v, j, v.job[j].pc, "teardown"), r, t, v.ctl.autos)
    BY <1>6, <1>8, <1>10, <2>1, <2>2, LeftOK
  <2>4. At(v, j, v.job[j].pc, "teardown") = v
    <3>1. v \in WorldType /\ v.job[j] \in JobType
      BY <1>1, <1>6 DEF LeavesAs, WorldType
    <3>2. PICK x : x = [v.job[j] EXCEPT !.pc = v.job[j].pc, !.at = "teardown"]
      OBVIOUS
    <3>3. x = v.job[j]
      BY <1>6, <3>1, <3>2 DEF JobType
    <3>4. At(v, j, v.job[j].pc, "teardown") = [v EXCEPT !.job[j] = x]
      BY <1>1, <3>1, <3>2 DEF At, WorldType
    <3> QED
      BY <1>1, <3>1, <3>3, <3>4 DEF WorldType
  <2> QED
    BY <1>11, <2>3, <2>4
<1> QED
  BY <1>5, <1>15, <1>16, <1>17

(* connect() has come to its end for job j. *)
Connects(w, j, r) ==
    /\ w.job[j].kind # "disconnect" /\ w.job[j].on = w.ctl.made /\ w.ctl.made \in Sessions
    /\ Newest(w).intent = w.job[j].intent
    /\ w.job[j].kind = "connect" /\ IntentIsCurrent(w, j) => w.ctl.desired
    /\ IntentIsCurrent(w, j) => w.ctl.last = "connect"
    /\ j \in Supervisors /\ IntentIsCurrent(w, j) => w.ctl.autos <= w.job[j].attempt

(* What is current is alone at work. *)
LEMMA CurrentAlone ==
    ASSUME NEW w, NEW j, NEW r, NEW t, Moves(w, j, r, t), w.job[j].kind # "disconnect",
           IntentIsCurrent(w, j), NEW k \in Jobs \ {j}
    PROVE  ~Started(w, k) /\ (k \in Supervisors => ~Live(w, k))
<1>1. /\ w.job[k].pc \notin {"connecting", "undoing", "waiting", "backoff", "created"}
      /\ w.job[k].kind # "disconnect" => w.job[k].pc # "closing" /\ w.job[k].on = Nobody
  BY Alone
<1>2. /\ OneConnect(w) /\ OneSupervisor(w) /\ Kept(w) /\ Orphaned(w) /\ JobOK(w, k, r)
      /\ w.job[j].kind = "connect" => NoRecovery(w)
      /\ Started(w, k) => w.job[k].kind # "disconnect"
  BY DEF Moves, Steady, Orderly
<1>3. /\ j \in Jobs /\ w.job[j].kind # "none" /\ Live(w, j)
      /\ j \in Supervisors <=> w.job[j].kind = "supervise"
      /\ j \in Commands <=> w.job[j].kind \in {"connect", "disconnect"}
  BY KindIs
<1>4. k \in Supervisors => ~Live(w, k)
  BY <1>2, <1>3, JobSets DEF OneSupervisor, NoRecovery
<1>5. ASSUME Started(w, k)
      PROVE  FALSE
  <2>1. Live(w, k)
    BY <1>5 DEF Started, Live
  <2>2. k \in Commands
    BY <1>4, <2>1, JobSets
  <2>3. w.job[k].kind = "connect"
    BY <1>2, <1>5, <2>2 DEF JobOK, Kinds, Started, Idle
  <2>4. CASE j \in Commands
    BY <1>2, <1>3, <2>1, <2>2, <2>3, <2>4, JobSets DEF OneConnect, Live
  <2>5. CASE j \in Supervisors
    BY <1>2, <1>3, <1>5, <2>1, <2>2, <2>3, <2>5 DEF Kept, Orphaned, Started
  <2> QED
    BY <1>3, <2>4, <2>5, JobSets
<1> QED
  BY <1>4, <1>5

Readied(w, n) == [w EXCEPT !.sess[n].state = "ready", !.ctl.autos = 0]

IsReadied(w, v, n) ==
    /\ v \in WorldType /\ v.job = w.job
    /\ v.ctl = [w.ctl EXCEPT !.autos = 0]
    /\ v.ctl.session = w.ctl.session /\ v.ctl.made = w.ctl.made
    /\ v.ctl.desired = w.ctl.desired /\ v.ctl.closed = w.ctl.closed
    /\ v.ctl.intent = w.ctl.intent /\ v.ctl.autos = 0 /\ v.ctl.last = w.ctl.last
    /\ v.ctl.keeper = w.ctl.keeper
    /\ \A m \in Sessions \ {n} : v.sess[m] = w.sess[m]
    /\ \A m \in Sessions : /\ v.sess[m].client = w.sess[m].client
                           /\ v.sess[m].intent = w.sess[m].intent
                           /\ v.sess[m].poisoned = w.sess[m].poisoned
                           /\ v.sess[m].stuck = w.sess[m].stuck

(* What a connect() that returns sets. *)
LEMMA ReadiedIs ==
    ASSUME NEW w \in WorldType, NEW n \in Sessions, NEW v, v = Readied(w, n)
    PROVE  IsReadied(w, v, n)
<1>1. /\ w.sess \in [Sessions -> SessionType] /\ w.sess[n] \in SessionType /\ w.ctl \in CtlType
  BY DEF WorldType
<1>2. PICK x : x = [w.sess[n] EXCEPT !.state = "ready"]
  OBVIOUS
<1>3. /\ v.job = w.job /\ v.ctl = [w.ctl EXCEPT !.autos = 0] /\ v.sess = [w.sess EXCEPT ![n] = x]
      /\ v = [ctl |-> v.ctl, job |-> v.job, sess |-> v.sess]
  BY <1>2 DEF Readied, WorldType
<1>4. x \in SessionType /\ x.client = w.sess[n].client /\ x.intent = w.sess[n].intent
  BY <1>1, <1>2 DEF SessionType
<1>5. x.poisoned = w.sess[n].poisoned /\ x.stuck = w.sess[n].stuck
  BY <1>1, <1>2 DEF SessionType
<1>6. v.sess \in [Sessions -> SessionType] /\ v.sess[n] = x
      /\ \A m \in Sessions \ {n} : v.sess[m] = w.sess[m]
  BY <1>1, <1>3, <1>4
<1>7. v.ctl \in CtlType /\ v.ctl.autos = 0
  BY <1>1, <1>3 DEF CtlType
<1>8. /\ v.ctl.session = w.ctl.session /\ v.ctl.made = w.ctl.made
      /\ v.ctl.desired = w.ctl.desired /\ v.ctl.closed = w.ctl.closed
      /\ v.ctl.intent = w.ctl.intent /\ v.ctl.last = w.ctl.last
      /\ v.ctl.keeper = w.ctl.keeper
  BY <1>1, <1>3 DEF CtlType
<1>9. v \in WorldType
  BY <1>3, <1>6, <1>7 DEF WorldType
<1> QED
  BY <1>3, <1>4, <1>5, <1>6, <1>7, <1>8, <1>9 DEF IsReadied

(* The newest session becomes ready while nothing else is at work. *)
LEMMA ReadyOK ==
    ASSUME NEW u, NEW r, NEW t, NEW a, Good(u, r, t, a), NEW v, v \in WorldType, v.job = u.job,
           v.ctl.session = u.ctl.session, v.ctl.made = u.ctl.made, v.ctl.desired = u.ctl.desired,
           v.ctl.intent = u.ctl.intent, v.ctl.autos = 0, v.ctl.last = u.ctl.last,
           v.ctl.keeper = u.ctl.keeper,
           \A m \in Sessions \ {u.ctl.made} : v.sess[m] = u.sess[m],
           \A m \in Sessions : /\ v.sess[m].client = u.sess[m].client
                               /\ v.sess[m].intent = u.sess[m].intent
                               /\ v.sess[m].poisoned = u.sess[m].poisoned,
           \A k \in Jobs : ~Started(u, k), NoRecovery(u),
           u.ctl.desired, u.ctl.last = "connect", u.sess[u.ctl.made].intent = u.ctl.intent,
           ~u.sess[u.ctl.made].poisoned
    PROVE  Sound(v, r, t)
<1>1. /\ u \in WorldType
      /\ OnlyNewest(u) /\ Opened1(u, Jobs) /\ Joins(u, Jobs)
      /\ OneConnect(u) /\ Ordered(u) /\ Overruled(u, Jobs) /\ OneSupervisor(u) /\ Used(u, t)
      /\ Keeper(u) /\ Kept(u) /\ Orphaned(u) /\ Awaited(u, Jobs, r)
      /\ Funded(u, Jobs, t) /\ NoneReady(u)
      /\ \A i \in Jobs : JobOK(u, i, r)
  BY DEF Good, Steady
<1>2. \A k \in Jobs : Live(v, k) <=> Live(u, k)
  BY DEF Live
<1>3. NoRecovery(v)
  BY <1>2, JobSets DEF NoRecovery
<1>4. ASSUME NEW i \in Jobs PROVE JobOK(v, i, r)
  <2>1. Kinds(v, i) /\ Places(v, i) /\ Uncancelled(v, i, r)
    BY <1>1 DEF JobOK, Kinds, Places, Uncancelled, Leaving, Opening
  <2>2. Opens(v, i)
    BY DEF Opens, Opening, Started
  <2>3. Recovers(v, i)
    BY <1>3 DEF Recovers, NoRecovery
  <2> QED
    BY <2>1, <2>2, <2>3 DEF JobOK
<1>5. OnlyNewest(v) /\ Opened1(v, Jobs)
  BY <1>1 DEF OnlyNewest, Opened1
<1>6. Joins(v, Jobs) /\ Ordered(v)
  BY <1>1 DEF Joins, Ordered, Leaving, Opening
<1>30. Pressed(v, r)
  <2>1. Pressed(u, r) /\ \A i \in Commands : v.job[i].kind = u.job[i].kind
    BY DEF Good, Steady
  <2> QED
    BY <2>1, PressedOK
<1>7. OneConnect(v) /\ OneSupervisor(v)
  BY <1>1, <1>2, JobSets DEF OneConnect, OneSupervisor
<1>8. Overruled(v, Jobs)
  BY DEF Overruled, Started
<1>9. Used(v, t)
  BY <1>1 DEF Used
<1>10. Keeper(v) /\ Kept(v) /\ Orphaned(v) /\ Awaited(v, Jobs, r)
  <2>1. v.ctl.keeper = Nobody
    BY <1>1 DEF Keeper, NoRecovery
  <2> QED
    BY <1>3, <2>1 DEF Keeper, Kept, Orphaned, Awaited, NoRecovery
<1>11. Funded(v, Jobs, t)
  <2>1. Affords(v, t, 0)
    BY <1>1 DEF Funded, Affords, Unopened
  <2>2. \A s \in Supervisors : ~Credit(v, s)
    <3> SUFFICES ASSUME NEW s \in Supervisors PROVE ~Credit(v, s)
      OBVIOUS
    <3>1. ~Started(v, s) /\ JobOK(v, s, r)
      BY <1>4, JobSets DEF Started
    <3> QED
      BY <3>1 DEF Credit, JobOK, Places, Opening, Started
  <2> QED
    BY <2>1, <2>2 DEF Funded
<1>12. Ready(v)
  <2> SUFFICES ASSUME NEW n \in Sessions, v.sess[n].state = "ready"
               PROVE  /\ n = v.ctl.made /\ ~v.sess[n].poisoned
                      /\ v.sess[n].intent = v.ctl.intent /\ v.ctl.desired /\ v.ctl.last = "connect"
                      /\ v.ctl.autos = 0
                      /\ NoRecovery(v)
                      /\ \A j \in Jobs : v.job[j].pc \in {"none", "queued", "done"}
    BY DEF Ready
  <2>1. n = u.ctl.made
    BY <1>1 DEF NoneReady
  <2> QED
    BY <1>3, <2>1 DEF Started
<1> QED
  BY <1>4, <1>5, <1>6, <1>7, <1>8, <1>9, <1>10, <1>11, <1>12, <1>30 DEF Sound, Steady

(* connect() returned: the session is ready, or hung up again when nobody wants it
   any more. *)
LEMMA ConnectReturnedOK ==
    ASSUME NEW w, NEW j, NEW r, NEW t \in 0..MaxTroubles, Moves(w, j, r, t), NoneReady(w),
           Connects(w, j, r), ~Newest(w).poisoned, ~w.job[j].cancel, NEW v, v = ConnectReturned(w, j)
    PROVE  Sound(v, r, t) /\ v.ctl.autos <= w.ctl.autos
<1> DEFINE n == w.job[j].on
<1>1. /\ w \in WorldType /\ j \in Jobs /\ Live(w, j) /\ w.job[j].kind # "none" /\ Kinds(w, j)
      /\ j \in Supervisors <=> w.job[j].kind = "supervise"
      /\ w.ctl.autos \in Nat /\ w.job[j].attempt \in 0..Attempts
  BY KindIs
<1>2. n \in Sessions /\ n = w.ctl.made
  BY DEF Connects
<1>3. PICK u : u = Readied(w, n)
  OBVIOUS
<1>4. /\ u \in WorldType /\ u.job = w.job
      /\ u.ctl.session = w.ctl.session /\ u.ctl.made = w.ctl.made
      /\ u.ctl.desired = w.ctl.desired /\ u.ctl.closed = w.ctl.closed
      /\ u.ctl.intent = w.ctl.intent /\ u.ctl.autos = 0 /\ u.ctl.last = w.ctl.last
      /\ u.ctl.keeper = w.ctl.keeper
      /\ \A m \in Sessions \ {n} : u.sess[m] = w.sess[m]
      /\ \A m \in Sessions : /\ u.sess[m].client = w.sess[m].client
                             /\ u.sess[m].intent = w.sess[m].intent
                             /\ u.sess[m].poisoned = w.sess[m].poisoned
  <2>1. IsReadied(w, u, n)
    BY <1>1, <1>2, <1>3, ReadiedIs
  <2> QED
    BY <2>1 DEF IsReadied
<1>5. v \in {Ended(u, j), Disconnect(u, j, "undoing", n)}
      /\ (v # Disconnect(u, j, "undoing", n) => v = Ended(u, j) /\ IntentIsCurrent(w, j) /\ w.ctl.desired)
  BY <1>3 DEF ConnectReturned, Readied, RecoveryIsCurrent, Connects
<1> HIDE DEF n
<1>6. CASE v = Disconnect(u, j, "undoing", n)
  <2>1. Rests(w, u, j)
    BY <1>1, <1>4 DEF Rests
  <2>2. Moves(u, j, r, t)
    <3>1. t \in Nat /\ t \in {t, t + 1} /\ Jobs \ {j} # Jobs
      BY <1>1, JobSets
    <3>2. /\ Steady(w, Jobs \ {j}, r, t) /\ Orderly(w, j)
          /\ w.job[j].kind = "connect" => NoRecovery(w)
      BY DEF Moves
    <3> QED
      BY <1>1, <2>1, <3>1, <3>2, RestsOK
  <2>3. Departs(u, j, "undoing", r)
    BY <1>1, <1>4 DEF Departs, Connects, IntentIsCurrent
  <2>4. \A m \in Sessions \ {n} : u.sess[m].state # "ready"
    BY <1>4 DEF NoneReady
  <2>5. Good(Disconnect(u, j, "undoing", n), r, t, u.ctl.autos)
    BY <1>2, <1>4, <2>2, <2>3, <2>4, DisconnectOK
  <2>6. Good(v, r, t, 0)
    BY <1>4, <1>6, <2>5
  <2>7. Sound(v, r, t)
    BY <2>6 DEF Good, Sound, NoneReady, Ready
  <2>8. v.ctl.autos \in Nat /\ v.ctl.autos <= 0
    BY <2>6 DEF Good, Steady, WorldType, CtlType
  <2> QED
    BY <1>1, <2>7, <2>8
<1>7. CASE v # Disconnect(u, j, "undoing", n)
  <2>1. v = Ended(u, j) /\ IntentIsCurrent(w, j) /\ w.ctl.desired
    BY <1>5, <1>7
  <2>2. PICK d : d = Ended(w, j)
    OBVIOUS
  <2>3. Good(d, r, t, w.ctl.autos)
    BY <2>2, EndedOK
  <2>4. /\ d \in WorldType /\ d.sess = w.sess
        /\ \A k \in Jobs \ {j} : d.job[k] = w.job[k]
        /\ d.ctl.session = w.ctl.session /\ d.ctl.made = w.ctl.made
        /\ d.ctl.desired = w.ctl.desired /\ d.ctl.closed = w.ctl.closed
        /\ d.ctl.intent = w.ctl.intent /\ d.ctl.autos = w.ctl.autos /\ d.ctl.last = w.ctl.last
        /\ d.ctl.keeper = IF w.ctl.keeper = j THEN Nobody ELSE w.ctl.keeper
        /\ d.job[j].kind = w.job[j].kind /\ d.job[j].pc = "done" /\ d.job[j].at = "none"
        /\ d.job[j].on = Nobody /\ d.job[j].intent = 0 /\ ~d.job[j].cancel
    BY <1>1, <2>2, EndedIs
  <2>5. /\ v \in WorldType /\ v.sess = u.sess
        /\ v.ctl.session = u.ctl.session /\ v.ctl.made = u.ctl.made
        /\ v.ctl.desired = u.ctl.desired
        /\ v.ctl.intent = u.ctl.intent /\ v.ctl.autos = u.ctl.autos /\ v.ctl.last = u.ctl.last
        /\ v.ctl.keeper = IF u.ctl.keeper = j THEN Nobody ELSE u.ctl.keeper
    <3>1. u \in WorldType /\ j \in Jobs /\ v = Ended(u, j)
      BY <1>1, <1>4, <2>1
    <3> QED
      BY ONLY <3>1, EndedIs
  <2>6. v.job = d.job
    <3>1. v.job = [w.job EXCEPT ![j] = [Idle EXCEPT !.kind = w.job[j].kind, !.pc = "done"]]
      BY <1>4, <2>1 DEF Ended, WorldType
    <3>2. d.job = [w.job EXCEPT ![j] = [Idle EXCEPT !.kind = w.job[j].kind, !.pc = "done"]]
      BY <1>1, <2>2 DEF Ended, WorldType
    <3> QED
      BY <3>1, <3>2
  <2>7. \A k \in Jobs : ~Started(d, k)
    <3> SUFFICES ASSUME NEW k \in Jobs, k # j PROVE ~Started(d, k)
      BY <2>4 DEF Started
    <3>1. ~Started(w, k)
      BY <2>1, CurrentAlone DEF Connects
    <3> QED
      BY <2>4, <3>1 DEF Started
  <2>8. NoRecovery(d)
    <3> SUFFICES ASSUME NEW k \in Supervisors, k # j PROVE ~Live(d, k)
      BY <2>4 DEF NoRecovery, Live
    <3>1. ~Live(w, k)
      BY <2>1, CurrentAlone, JobSets DEF Connects
    <3> QED
      BY <2>4, <3>1, JobSets DEF Live
  <2>9. /\ d.ctl.desired /\ d.ctl.last = "connect" /\ d.sess[d.ctl.made].intent = d.ctl.intent
        /\ ~d.sess[d.ctl.made].poisoned
    BY <2>1, <2>4 DEF Connects, IntentIsCurrent, Newest
  <2>10. /\ \A m \in Sessions \ {d.ctl.made} : v.sess[m] = d.sess[m]
         /\ \A m \in Sessions : /\ v.sess[m].client = d.sess[m].client
                                /\ v.sess[m].intent = d.sess[m].intent
                                /\ v.sess[m].poisoned = d.sess[m].poisoned
    BY <1>2, <1>4, <2>4, <2>5
  <2>11. /\ v.ctl.session = d.ctl.session /\ v.ctl.made = d.ctl.made
         /\ v.ctl.desired = d.ctl.desired
         /\ v.ctl.intent = d.ctl.intent /\ v.ctl.autos = 0 /\ v.ctl.last = d.ctl.last
         /\ v.ctl.keeper = d.ctl.keeper
    BY <1>4, <2>4, <2>5
  <2>12. Sound(v, r, t)
    BY <2>3, <2>5, <2>6, <2>7, <2>8, <2>9, <2>10, <2>11, ReadyOK
  <2> QED
    BY <1>1, <2>11, <2>12
<1> QED
  BY <1>6, <1>7

(* connect() raised. *)
LEMMA ConnectRaisedOK ==
    ASSUME NEW w, NEW j, NEW r, NEW t \in 0..MaxTroubles, Moves(w, j, r, t), NoneReady(w),
           w.job[j].kind # "disconnect", j \in Supervisors => Proceeds(w, j, r, t)
    PROVE  Good(ConnectRaised(w, j), r, t, w.ctl.autos)
<1>1. Good(Ended(w, j), r, t, w.ctl.autos)
  BY EndedOK
<1>2. Good(Ended(Unwanted(w), j), r, t, w.ctl.autos)
  <2>1. PICK v : v = Unwanted(w)
    OBVIOUS
  <2>2. t \in Nat
    BY JobSets
  <2>3. Moves(v, j, r, t) /\ NoneReady(v) /\ v.ctl.autos = w.ctl.autos
    BY <2>1, <2>2, UnwantedOK
  <2>4. Good(Ended(v, j), r, t, v.ctl.autos)
    BY <2>3, EndedOK
  <2> QED
    BY <2>1, <2>3, <2>4
<1>3. CASE w.job[j].kind = "connect"
  BY <1>1, <1>2, <1>3 DEF ConnectRaised
<1>4. CASE w.job[j].kind # "connect"
  <2>1. j \in Supervisors
    BY <1>4, KindIs, JobSets
  <2>2. Good(AwaitRelease(w, j), r, t, w.ctl.autos)
    BY <2>1, AwaitReleaseOK
  <2> QED
    BY <1>4, <2>2 DEF ConnectRaised
<1> QED
  BY <1>3, <1>4

Uncancel(w, j) == [w EXCEPT !.job[j].cancel = FALSE]

IsUncancel(w, v, j) ==
    /\ v \in WorldType /\ v.ctl = w.ctl /\ v.sess = w.sess
    /\ \A i \in Jobs \ {j} : v.job[i] = w.job[i]
    /\ v.job[j].pc = w.job[j].pc /\ v.job[j].at = w.job[j].at
    /\ v.job[j].kind = w.job[j].kind /\ v.job[j].on = w.job[j].on
    /\ v.job[j].intent = w.job[j].intent /\ v.job[j].attempt = w.job[j].attempt
    /\ v.job[j].joins = w.job[j].joins /\ v.job[j].cancel = FALSE

(* What catching a cancellation leaves alone. *)
LEMMA UncancelIs ==
    ASSUME NEW w \in WorldType, NEW j \in Jobs, NEW v, v = Uncancel(w, j)
    PROVE  IsUncancel(w, v, j)
<1>1. w.job \in [Jobs -> JobType] /\ w.job[j] \in JobType
  BY DEF WorldType
<1>2. PICK x : x = [w.job[j] EXCEPT !.cancel = FALSE]
  OBVIOUS
<1>3. x \in JobType /\ x.cancel = FALSE
  BY <1>1, <1>2 DEF JobType
<1>4. /\ x.pc = w.job[j].pc /\ x.at = w.job[j].at /\ x.kind = w.job[j].kind /\ x.on = w.job[j].on
  BY <1>1, <1>2 DEF JobType
<1>5. x.intent = w.job[j].intent /\ x.attempt = w.job[j].attempt /\ x.joins = w.job[j].joins
  BY <1>1, <1>2 DEF JobType
<1>6. v = [w EXCEPT !.job[j] = x]
  BY <1>1, <1>2 DEF Uncancel, WorldType
<1>7. v.job = [w.job EXCEPT ![j] = x] /\ v.ctl = w.ctl /\ v.sess = w.sess /\ v \in WorldType
  BY <1>1, <1>3, <1>6 DEF WorldType
<1> QED
  BY <1>1, <1>3, <1>4, <1>5, <1>7 DEF IsUncancel

(* connect() was cancelled: a recovery hangs up what it opened. *)
LEMMA ConnectCancelledOK ==
    ASSUME NEW w, NEW j, NEW r, NEW t \in 0..MaxTroubles, Moves(w, j, r, t), NoneReady(w),
           Connects(w, j, r), Opening(w, j)
    PROVE  Good(ConnectCancelled(w, j), r, t, w.ctl.autos)
<1>1. /\ w \in WorldType /\ j \in Jobs
      /\ j \in Supervisors <=> w.job[j].kind = "supervise"
      /\ j \in Commands <=> w.job[j].kind \in {"connect", "disconnect"}
  BY KindIs
<1>2. CASE w.job[j].kind = "connect"
  <2>1. Good(ConnectRaised(w, j), r, t, w.ctl.autos)
    BY <1>1, <1>2, ConnectRaisedOK
  <2> QED
    BY <1>2, <2>1 DEF ConnectRaised, ConnectCancelled
<1>3. CASE w.job[j].kind # "connect"
  <2>1. j \in Supervisors /\ j \notin Commands
    BY <1>1, <1>3, JobSets DEF Connects
  <2>2. PICK v : v = Uncancel(w, j)
    OBVIOUS
  <2>3. /\ v \in WorldType /\ v.ctl = w.ctl /\ v.sess = w.sess
        /\ \A i \in Jobs \ {j} : v.job[i] = w.job[i]
        /\ v.job[j].pc = w.job[j].pc /\ v.job[j].at = w.job[j].at
        /\ v.job[j].kind = w.job[j].kind /\ v.job[j].on = w.job[j].on
        /\ v.job[j].intent = w.job[j].intent /\ v.job[j].attempt = w.job[j].attempt
        /\ v.job[j].joins = w.job[j].joins /\ v.job[j].cancel = FALSE
    <3>1. IsUncancel(w, v, j)
      BY <1>1, <2>2, UncancelIs
    <3> QED
      BY <3>1 DEF IsUncancel
  <2>4. Remade(w, v, j)
    BY <2>3 DEF Remade, Started, Opening, Unopened
  <2>5. Moves(v, j, r, t)
    BY <2>4, RemadeOK DEF Connects
  <2>6. Departs(v, j, "undoing", r)
    BY <2>1, <2>3 DEF Departs, Connects, IntentIsCurrent
  <2>7. /\ v.job[j].on \in Sessions /\ v.job[j].on = v.ctl.made
        /\ \A m \in Sessions : v.sess[m].state # "ready"
    BY <2>3 DEF Connects, NoneReady
  <2>8. Good(Disconnect(v, j, "undoing", v.job[j].on), r, t, v.ctl.autos)
    BY <2>5, <2>6, <2>7, DisconnectOK
  <2>9. Good(Disconnect(v, j, "undoing", w.job[j].on), r, t, w.ctl.autos)
    BY <2>3, <2>8
  <2> QED
    BY <1>3, <2>2, <2>9 DEF ConnectCancelled, Uncancel
<1> QED
  BY <1>2, <1>3

(* _connect and _disconnect once no recovery task is left. *)
LEMMA AfterCancelReconnectOK ==
    ASSUME NEW w, NEW j \in Commands, NEW r, NEW t \in 0..MaxTroubles, Moves(w, j, r, t),
           w.job[j].kind = "connect" => Unopened(w, j),
           r \in {"running", "closing"} => ~w.job[j].cancel,
           w.job[j].kind = "connect" /\ IntentIsCurrent(w, j) => w.ctl.last = "connect",
           \A m \in Sessions : w.sess[m].state = "ready" => m = w.ctl.made
    PROVE  Good(AfterCancelReconnect(w, j), r, t, w.ctl.autos)
<1>1. /\ w \in WorldType /\ j \in Jobs /\ w.ctl.made \in 0..(MaxCommands + MaxTroubles)
      /\ w.job[j].kind \in {"connect", "disconnect"} /\ w.ctl.session = w.ctl.made
      /\ j \notin Supervisors /\ t \in Nat
  <2>1. w \in WorldType /\ w.job[j].kind \in {"connect", "disconnect"} /\ j \in Jobs
    BY KindIs
  <2>2. w.ctl.session = w.ctl.made
    BY DEF Moves, Steady, OnlyNewest
  <2>3. w.ctl.made \in 0..(MaxCommands + MaxTroubles)
    BY <2>1 DEF WorldType, CtlType
  <2> QED
    BY <2>1, <2>2, <2>3, JobSets
<1>2. PICK v : v = IF w.job[j].kind = "connect" THEN Unwanted(w) ELSE w
  OBVIOUS
<1>3. /\ Moves(v, j, r, t) /\ v.job = w.job /\ v.sess = w.sess
      /\ v.ctl.made = w.ctl.made /\ v.ctl.session = w.ctl.session /\ v.ctl.intent = w.ctl.intent
      /\ v.ctl.autos = w.ctl.autos /\ v.ctl.last = w.ctl.last
      /\ \A m \in Sessions : v.sess[m].state = "ready" => m = v.ctl.made
  <2>1. CASE w.job[j].kind = "connect"
    <3>1. v = Unwanted(w) /\ w.job[j].kind # "disconnect"
      BY <1>2, <2>1
    <3> QED
      BY <1>1, <3>1, UnwantedOK
  <2>2. CASE w.job[j].kind # "connect"
    BY <1>2, <2>2
  <2> QED
    BY <2>1, <2>2
<1>4. CASE w.ctl.made # 0
  <2>1. w.ctl.made \in Sessions
    BY <1>1, <1>4, JobSets DEF Sessions
  <2>2. Departs(v, j, "closing", r)
    BY <1>1, <1>3 DEF Departs, Unopened, IntentIsCurrent
  <2>3. Good(Disconnect(v, j, "closing", w.ctl.made), r, t, v.ctl.autos)
    BY <1>3, <2>1, <2>2, DisconnectOK
  <2> QED
    BY <1>1, <1>2, <1>3, <1>4, <2>3, JobSets DEF AfterCancelReconnect
<1>5. CASE w.ctl.made = 0
  <2>1. NoneReady(v)
    BY <1>3, <1>5, JobSets DEF NoneReady
  <2>2. w.job[j].kind = "connect" => Good(OpenWanted(v, j), r, t, v.ctl.autos)
    BY <1>3, <1>5, <2>1, OpenWantedOK DEF Unopened, IntentIsCurrent
  <2>3. Good(Ended(v, j), r, t, v.ctl.autos)
    BY <1>3, <2>1, EndedOK
  <2> QED
    BY <1>1, <1>2, <1>3, <1>5, <2>2, <2>3, JobSets DEF AfterCancelReconnect
<1> QED
  BY <1>4, <1>5

-----------------------------------------------------------------------------
(* From a sound world each step of the loop leads to a sound one. *)

(* What holds of a job that is at work. *)
LEMMA StartedIs ==
    ASSUME NEW w, NEW r, NEW t, Sound(w, r, t), NEW j \in Jobs, Started(w, j)
    PROVE  /\ w \in WorldType /\ Steady(w, Jobs, r, t) /\ NoneReady(w)
           /\ Live(w, j) /\ JobOK(w, j, r) /\ Orderly(w, j) /\ w.job[j].kind # "none"
           /\ j \in Supervisors <=> w.job[j].kind = "supervise"
           /\ j \in Commands <=> w.job[j].kind \in {"connect", "disconnect"}
           /\ w.job[j].kind = "connect" /\ w.job[j].pc # "cancelling" => NoRecovery(w)
           /\ w.ctl.made \in Nat /\ w.ctl.intent \in Nat /\ w.ctl.autos \in Nat
<1>1. Steady(w, Jobs, r, t) /\ Ready(w)
  BY DEF Sound
<1>2. w \in WorldType /\ JobOK(w, j, r) /\ Ordered(w) /\ Overruled(w, Jobs) /\ Kept(w) /\ Orphaned(w)
  BY <1>1 DEF Steady
<1>3. Live(w, j) /\ w.job[j].pc \notin {"none", "queued", "done"}
  BY DEF Started, Live
<1>4. NoneReady(w)
  BY <1>1, <1>3 DEF Ready, NoneReady
<1>5. Orderly(w, j)
  <2>1. \A c \in Commands \ {j} : j \in Commands /\ w.job[c].pc = "queued" => j < c
    <3> SUFFICES ASSUME NEW c \in Commands \ {j}, j \in Commands, w.job[c].pc = "queued"
                 PROVE  j < c
      OBVIOUS
    <3>1. ~(c < j)
      BY <1>2, <1>3 DEF Ordered
    <3>2. c \in Nat /\ j \in Nat
      BY JobSets
    <3> QED
      BY <3>1, <3>2
  <2> QED
    BY <1>2, <2>1 DEF Orderly, Overruled
<1>6. w.job[j].kind # "none"
  BY <1>2, <1>3 DEF JobOK, Kinds, Idle
<1>7. /\ j \in Supervisors <=> w.job[j].kind = "supervise"
      /\ j \in Commands <=> w.job[j].kind \in {"connect", "disconnect"}
  BY <1>2, <1>6, JobSets DEF JobOK, Kinds
<1>8. w.job[j].kind = "connect" /\ w.job[j].pc # "cancelling" => NoRecovery(w)
  BY <1>2, <1>3, <1>7 DEF NoRecovery, Kept, Orphaned
<1>9. w.ctl.made \in Nat /\ w.ctl.intent \in Nat /\ w.ctl.autos \in Nat
  BY <1>2, JobSets DEF WorldType, CtlType
<1> QED
  BY <1>1, <1>2, <1>3, <1>4, <1>5, <1>6, <1>7, <1>8, <1>9

(* The sessions may change under a job that is at work. *)
LEMMA AtWorkOK ==
    ASSUME NEW w, NEW r, NEW t \in Nat, Sound(w, r, t), NEW j \in Jobs, Started(w, j),
           w.job[j].pc # "cancelling", NEW v, Rests(w, v, j), NEW t2 \in {t, t + 1},
           w.job[j].at = "opening" => \A n \in Sessions : v.sess[n].client # "opening"
    PROVE  /\ Moves(v, j, r, t2)
           /\ t2 # t => Affords(v, t2, 1)
           /\ j \in Supervisors /\ Credit(w, j) => Affords(v, t2, 1)
<1>1. /\ Steady(w, Jobs, r, t) /\ Live(w, j) /\ JobOK(w, j, r) /\ Orderly(w, j)
      /\ w.job[j].kind = "connect" => NoRecovery(w)
  BY StartedIs
<1>2. Kinds(w, j) /\ (j \in Supervisors /\ Credit(w, j) => Affords(w, t, 1))
  BY <1>1 DEF JobOK, Steady, Funded
<1>3. Leavable(w, v, j, r)
  BY DEF Leavable
<1>5. j \in Jobs /\ t \in Nat /\ t2 \in {t, t + 1} /\ Rests(w, v, j)
  OBVIOUS
<1>4. /\ Moves(v, j, r, t2)
      /\ t2 # t => Affords(v, t2, 1)
      /\ Affords(w, t, 1) => Affords(v, t2, 1)
  BY ONLY <1>1, <1>2, <1>3, <1>5, RestsOK
<1> QED
  BY <1>2, <1>4

(* A job inside connect() may be moved. *)
LEMMA StaysOK ==
    ASSUME NEW w, NEW r, NEW t \in Nat, Sound(w, r, t), NEW j \in Jobs, Started(w, j),
           w.job[j].pc # "cancelling", w.job[j].at # "opening"
    PROVE  Moves(w, j, r, t) /\ (j \in Supervisors /\ Credit(w, j) => Affords(w, t, 1))
<1>1. Rests(w, w, j)
  BY StartedIs DEF Rests
<1> QED
  BY <1>1, AtWorkOK

(* Without a ready session nothing is promised of one. *)
LEMMA GoodIsSound ==
    ASSUME NEW v, NEW r, NEW t, NEW autos, Good(v, r, t, autos)
    PROVE  Sound(v, r, t) /\ v.ctl.autos <= autos
BY DEF Good, Sound, Ready, NoneReady

(* A Connect or a recovery that waits, sleeps or starts. *)
LEMMA AtWorkProceeds ==
    ASSUME NEW w, NEW r, NEW t \in Nat, Sound(w, r, t), NEW j \in Jobs,
           w.job[j].pc \in {"created", "waiting", "backoff"}, ~w.job[j].cancel
    PROVE  Proceeds(w, j, r, t) /\ Moves(w, j, r, t) /\ NoneReady(w)
<1>1. Started(w, j)
  BY DEF Started
<1>2. /\ NoneReady(w) /\ JobOK(w, j, r)
      /\ j \in Supervisors <=> w.job[j].kind = "supervise"
      /\ j \in Commands <=> w.job[j].kind \in {"connect", "disconnect"}
  BY <1>1, StartedIs
<1>3. /\ Places(w, j) /\ Kinds(w, j) /\ Recovers(w, j)
  BY <1>2 DEF JobOK
<1>4. w.job[j].at # "opening"
  BY <1>3 DEF Places, Opening
<1>5. Moves(w, j, r, t) /\ (j \in Supervisors => Affords(w, t, 1))
  BY <1>1, <1>4, StaysOK DEF Credit
<1>6. /\ w.job[j].kind # "disconnect" /\ w.job[j].on = w.ctl.made /\ w.job[j].on # Nobody
  BY <1>2, <1>3, JobSets DEF Places
<1>7. w.job[j].kind = "connect" => w.job[j].pc = "waiting"
  BY <1>2, <1>3, JobSets DEF Places
<1>8. j \in Supervisors /\ IntentIsCurrent(w, j) => w.ctl.autos <= w.job[j].attempt
  BY <1>1, <1>3 DEF Recovers, Live, Started
<1>9. IntentIsCurrent(w, j) => w.ctl.last = "connect"
  BY <1>3, <1>6 DEF Kinds, IntentIsCurrent
<1> QED
  BY <1>2, <1>5, <1>6, <1>7, <1>8, <1>9 DEF Proceeds, Unopened

(* From the world a step builds to the next state. *)
LEMMA LandsOK ==
    ASSUME NEW v, NEW t, Good(v, worker, t, ctl.autos), Becomes(v), worker' = worker, troubles' = t
    PROVE  Sound(World', worker', troubles') /\ ctl'.autos <= ctl.autos
<1>1. v \in WorldType /\ Sound(v, worker, t) /\ v.ctl.autos <= ctl.autos
  BY GoodIsSound DEF Good, Steady
<1>2. World' = v /\ ctl' = v.ctl
  BY <1>1 DEF World, WorldType, Becomes
<1> QED
  BY <1>1, <1>2

(* The parts of the world are the variables. *)
LEMMA WorldIs == World.job = job /\ World.ctl = ctl /\ World.sess = sess
BY DEF World

(* The recovery task runs for the first time. *)
LEMMA RecoveryStartsOK ==
    ASSUME NEW j \in Jobs, Sound(World, worker, troubles), troubles \in 0..MaxTroubles,
           RecoveryStarts(j)
    PROVE  Sound(World', worker', troubles') /\ ctl'.autos <= ctl.autos
<1>1. /\ World.job[j].pc = "created" /\ ~World.job[j].cancel /\ World.ctl.autos = ctl.autos
      /\ Becomes(AwaitRelease(World, j)) /\ worker' = worker /\ troubles' = troubles /\ troubles \in Nat
  BY WorldIs, JobSets DEF RecoveryStarts, Resumes, Calm
<1>2. Good(AwaitRelease(World, j), worker, troubles, ctl.autos)
  BY <1>1, AtWorkProceeds, AwaitReleaseOK
<1> QED
  BY <1>1, <1>2, LandsOK

(* The link that a Connect or a recovery waits for is released. *)
LEMMA ReleasedOK ==
    ASSUME NEW j \in Jobs, Sound(World, worker, troubles), troubles \in 0..MaxTroubles, Released(j)
    PROVE  Sound(World', worker', troubles') /\ ctl'.autos <= ctl.autos
<1> DEFINE v == IF job[j].kind = "connect" THEN OpenWanted(World, j) ELSE NextAttempt(World, j)
<1>1. /\ World.job[j].pc = "waiting" /\ ~World.job[j].cancel /\ Reconnectable(On(World, j))
      /\ World.ctl.autos = ctl.autos /\ World.job[j].kind = job[j].kind
      /\ Becomes(v) /\ worker' = worker /\ troubles' = troubles /\ troubles \in Nat
  BY WorldIs, JobSets DEF Released, Resumes, Calm
<1>2. Proceeds(World, j, worker, troubles) /\ Moves(World, j, worker, troubles) /\ NoneReady(World)
  BY <1>1, AtWorkProceeds
<1>3. /\ j \in Supervisors <=> World.job[j].kind = "supervise"
      /\ World.job[j].kind \in {"connect", "supervise"}
  BY <1>2, KindIs, JobSets DEF Proceeds
<1>4. Newest(World).client = "none"
  <2>1. /\ World.ctl.made \in Sessions /\ Newest(World).client # "opening"
        /\ On(World, j) = Newest(World)
    BY <1>2, Unopening, JobSets DEF Proceeds, On, Newest
  <2>2. Newest(World).client \in {"none", "opening", "up", "closing"}
    BY <1>2, <2>1, KindIs DEF WorldType, SessionType, Newest
  <2> QED
    BY <1>1, <2>1, <2>2 DEF Reconnectable, Connected
<1>5. World.job[j].kind = "connect" => Good(OpenWanted(World, j), worker, troubles, World.ctl.autos)
  BY <1>2, <1>4, OpenWantedOK DEF Proceeds
<1>6. World.job[j].kind # "connect" => Good(NextAttempt(World, j), worker, troubles, World.ctl.autos)
  BY <1>1, <1>2, <1>3, <1>4, NextAttemptOK
<1>7. Good(v, worker, troubles, ctl.autos)
  BY <1>1, <1>5, <1>6
<1> HIDE DEF v
<1> QED
  BY <1>1, <1>7, LandsOK

(* The intent has changed during the wait. *)
LEMMA WaitIsStaleOK ==
    ASSUME NEW j \in Jobs, Sound(World, worker, troubles), troubles \in 0..MaxTroubles, WaitIsStale(j)
    PROVE  Sound(World', worker', troubles') /\ ctl'.autos <= ctl.autos
<1>1. /\ World.job[j].pc = "waiting" /\ ~World.job[j].cancel /\ World.ctl.autos = ctl.autos
      /\ Becomes(Ended(World, j)) /\ worker' = worker /\ troubles' = troubles /\ troubles \in Nat
  BY WorldIs, JobSets DEF WaitIsStale, Resumes, Calm
<1>2. Good(Ended(World, j), worker, troubles, ctl.autos)
  BY <1>1, AtWorkProceeds, EndedOK
<1> QED
  BY <1>1, <1>2, LandsOK

(* The one step that opens a connection by itself: the intent is still the one that the    *)
(* recovery was started for, nothing is closed, and there is an attempt left.              *)
LEMMA BackoffOverOK ==
    ASSUME NEW j \in Jobs, Sound(World, worker, troubles), troubles \in 0..MaxTroubles, BackoffOver(j)
    PROVE  /\ Sound(World', worker', troubles')
           /\ \/ ctl'.autos <= ctl.autos
              \/ ctl'.autos <= Attempts /\ ctl.last = "connect" /\ ~ctl.closed
<1>1. /\ World.job[j].pc = "backoff" /\ ~World.job[j].cancel /\ World.ctl = ctl
      /\ Becomes(IF RecoveryIsCurrent(World, j) THEN OpenSession(World, j) ELSE Ended(World, j))
      /\ worker' = worker /\ troubles' = troubles /\ troubles \in Nat /\ troubles <= MaxTroubles
  BY WorldIs, JobSets DEF BackoffOver, Resumes, Calm
<1>2. Proceeds(World, j, worker, troubles) /\ Moves(World, j, worker, troubles) /\ NoneReady(World)
  BY <1>1, AtWorkProceeds
<1>3. CASE ~RecoveryIsCurrent(World, j)
  <2>1. Good(Ended(World, j), worker, troubles, ctl.autos)
    BY <1>1, <1>2, EndedOK
  <2> QED
    BY <1>1, <1>3, <2>1, LandsOK
<1>4. CASE RecoveryIsCurrent(World, j)
  <2>1. IntentIsCurrent(World, j) /\ ~ctl.closed /\ ctl.last = "connect"
    BY <1>1, <1>2, <1>4 DEF RecoveryIsCurrent, Proceeds
  <2>2. Started(World, j)
    BY <1>1 DEF Started
  <2>3. JobOK(World, j, worker) /\ Live(World, j)
    BY <2>2, StartedIs
  <2>4. j \in Supervisors
    BY <1>1, <2>3 DEF JobOK, Places
  <2>5. Newest(World).client = "none" /\ ctl.autos < World.job[j].attempt
    BY <1>1, <2>1, <2>3, <2>4 DEF JobOK, Recovers
  <2>6. World.job[j].kind = "supervise" /\ World.job[j].attempt \in 0..Attempts /\ ctl.autos \in Nat
    BY <1>1, <1>2, <2>4, KindIs
  <2>7. Good(OpenSession(World, j), worker, troubles, ctl.autos + 1)
    BY <1>1, <1>2, <2>1, <2>4, <2>5, <2>6, OpenOK DEF Proceeds
  <2> DEFINE v == OpenSession(World, j)
  <2>8. v \in WorldType /\ Sound(v, worker, troubles) /\ v.ctl.autos <= ctl.autos + 1
    BY <2>7, GoodIsSound DEF Good, Steady
  <2>9. Becomes(v)
    BY <1>1, <1>4
  <2> HIDE DEF v
  <2>10. World' = v /\ ctl' = v.ctl /\ v.ctl.autos \in Nat
    BY <2>8, <2>9 DEF World, WorldType, Becomes, CtlType
  <2> QED
    BY <1>1, <2>1, <2>5, <2>6, <2>8, <2>10, JobSets
<1> QED
  BY <1>3, <1>4

(* A job inside disconnect(). *)
LEMMA AtWorkLeaves ==
    ASSUME NEW w, NEW r, NEW t \in Nat, Sound(w, r, t), NEW j \in Jobs, Leaving(w, j), ~w.job[j].cancel
    PROVE  /\ Leaves(w, j, r) /\ Moves(w, j, r, t) /\ NoneReady(w) /\ Started(w, j)
           /\ w.job[j].at = "teardown" => w.job[j].joins = Nobody
           /\ JoinsIt(w, j)
           /\ w.job[j].at # "join" => Joined1(w, j)
<1>1. Started(w, j)
  BY DEF Started, Leaving
<1>2. /\ w \in WorldType /\ NoneReady(w) /\ JobOK(w, j, r) /\ Live(w, j) /\ Steady(w, Jobs, r, t)
      /\ j \in Supervisors <=> w.job[j].kind = "supervise"
      /\ w.ctl.made \in Nat
  BY <1>1, StartedIs
<1>3. Places(w, j) /\ Recovers(w, j) /\ Joins(w, Jobs)
  BY <1>2 DEF JobOK, Steady
<1>4. w.job[j].at \in {"teardown", "join", "notify", "native"} /\ w.job[j].pc \in {"closing", "undoing"}
  BY <1>3 DEF Places, Leaving
<1>5. Moves(w, j, r, t)
  BY <1>1, <1>4, StaysOK
<1>6. /\ w.job[j].on \in Sessions /\ w.job[j].on <= w.ctl.made
      /\ w.job[j].kind # "disconnect" => w.job[j].on = w.ctl.made
  <2>1. w.job[j].on \in Sessions \cup {Nobody}
    BY <1>2 DEF WorldType, JobType
  <2> QED
    BY <1>3, <1>4, <2>1 DEF Places
<1>7. Leaves(w, j, r)
  BY <1>2, <1>3, <1>4, <1>6 DEF Leaves, Places, Recovers
<1> QED
  BY <1>1, <1>2, <1>3, <1>5, <1>7 DEF Joins, JoinsIt, Joined1, Places

(* The teardown that disconnect() awaits is over. *)
LEMMA TornDownOK ==
    ASSUME NEW j \in Jobs, Sound(World, worker, troubles), troubles \in 0..MaxTroubles, TornDown(j)
    PROVE  Sound(World', worker', troubles') /\ ctl'.autos <= ctl.autos
<1>1. /\ Leaving(World, j) /\ World.job[j].at = "teardown" /\ ~World.job[j].cancel
      /\ World.ctl.autos = ctl.autos /\ Becomes(JoinConnect(World, j))
      /\ worker' = worker /\ troubles' = troubles /\ troubles \in Nat
  BY WorldIs, JobSets DEF TornDown, Resumes, Calm, Leaving
<1>2. Good(JoinConnect(World, j), worker, troubles, ctl.autos)
  BY <1>1, AtWorkLeaves, JoinConnectOK
<1> QED
  BY <1>1, <1>2, LandsOK

(* stop_notify has returned. *)
LEMMA NotifyStoppedOK ==
    ASSUME NEW j \in Jobs, Sound(World, worker, troubles), troubles \in 0..MaxTroubles, NotifyStopped(j)
    PROVE  Sound(World', worker', troubles') /\ ctl'.autos <= ctl.autos
<1>1. /\ Leaving(World, j) /\ World.job[j].at = "notify" /\ ~World.job[j].cancel
      /\ World.ctl.autos = ctl.autos /\ Becomes(HangUp(World, j))
      /\ worker' = worker /\ troubles' = troubles /\ troubles \in Nat
  BY WorldIs, JobSets DEF NotifyStopped, Resumes, Calm, Leaving
<1>2. Good(HangUp(World, j), worker, troubles, ctl.autos)
  BY <1>1, AtWorkLeaves, HangUpOK
<1> QED
  BY <1>1, <1>2, LandsOK

Unjoined(w, j) == [w EXCEPT !.job[j].joins = Nobody]
IsUnjoined(w, v, j) ==
    /\ v \in WorldType /\ v.ctl = w.ctl /\ v.sess = w.sess
    /\ \A i \in Jobs \ {j} : v.job[i] = w.job[i]
    /\ v.job[j].pc = w.job[j].pc /\ v.job[j].at = w.job[j].at
    /\ v.job[j].kind = w.job[j].kind /\ v.job[j].on = w.job[j].on
    /\ v.job[j].intent = w.job[j].intent /\ v.job[j].attempt = w.job[j].attempt
    /\ v.job[j].cancel = w.job[j].cancel /\ v.job[j].joins = Nobody

(* A job that has been joined is forgotten. *)
LEMMA UnjoinedIs ==
    ASSUME NEW w \in WorldType, NEW j \in Jobs, NEW v, v = Unjoined(w, j)
    PROVE  IsUnjoined(w, v, j)
<1>1. w.job \in [Jobs -> JobType] /\ w.job[j] \in JobType
  BY DEF WorldType
<1>2. PICK x : x = [w.job[j] EXCEPT !.joins = Nobody]
  OBVIOUS
<1>3. x \in JobType /\ x.joins = Nobody
  BY <1>1, <1>2 DEF JobType
<1>4. /\ x.pc = w.job[j].pc /\ x.at = w.job[j].at /\ x.kind = w.job[j].kind /\ x.on = w.job[j].on
  BY <1>1, <1>2 DEF JobType
<1>5. x.intent = w.job[j].intent /\ x.attempt = w.job[j].attempt /\ x.cancel = w.job[j].cancel
  BY <1>1, <1>2 DEF JobType
<1>6. v = [w EXCEPT !.job[j] = x]
  BY <1>1, <1>2 DEF Unjoined, WorldType
<1>7. v.job = [w.job EXCEPT ![j] = x] /\ v.ctl = w.ctl /\ v.sess = w.sess /\ v \in WorldType
  BY <1>1, <1>3, <1>6 DEF WorldType
<1> QED
  BY <1>1, <1>3, <1>4, <1>5, <1>7 DEF IsUnjoined

(* The connect() that disconnect() joins is over. *)
LEMMA JoinedOK ==
    ASSUME NEW j \in Jobs, Sound(World, worker, troubles), troubles \in 0..MaxTroubles, Joined(j)
    PROVE  Sound(World', worker', troubles') /\ ctl'.autos <= ctl.autos
<1>1. /\ Leaving(World, j) /\ World.job[j].at = "join" /\ ~World.job[j].cancel
      /\ ~Live(World, World.job[j].joins)
      /\ World.ctl.autos = ctl.autos /\ Becomes(JoinConnect(Unjoined(World, j), j))
      /\ worker' = worker /\ troubles' = troubles /\ troubles \in Nat
  BY WorldIs, JobSets DEF Joined, Resumes, Calm, Leaving, Unjoined
<1>2. PICK v : v = Unjoined(World, j)
  OBVIOUS
<1>3. /\ Leaves(World, j, worker) /\ Moves(World, j, worker, troubles) /\ NoneReady(World)
      /\ JoinsIt(World, j) /\ Started(World, j)
  BY <1>1, AtWorkLeaves
<1>4. IsUnjoined(World, v, j)
  BY <1>2, <1>3, KindIs, UnjoinedIs
<1>5. /\ v \in WorldType /\ v.ctl = World.ctl /\ v.sess = World.sess
      /\ \A i \in Jobs \ {j} : v.job[i] = World.job[i]
      /\ v.job[j].pc = World.job[j].pc /\ v.job[j].at = World.job[j].at
      /\ v.job[j].kind = World.job[j].kind /\ v.job[j].on = World.job[j].on
      /\ v.job[j].intent = World.job[j].intent /\ v.job[j].attempt = World.job[j].attempt
      /\ v.job[j].cancel = World.job[j].cancel /\ v.job[j].joins = Nobody
  BY <1>4 DEF IsUnjoined
<1>6. Remade(World, v, j)
  BY <1>3, <1>5 DEF Remade, Started, Unopened
<1>7. World.job[j].kind # "disconnect" /\ IntentIsCurrent(World, j) => World.ctl.last = "connect"
  BY <1>3, StartedIs DEF JobOK, Kinds, IntentIsCurrent, Started
<1>8. Moves(v, j, worker, troubles) /\ NoneReady(v)
  BY <1>3, <1>5, <1>6, <1>7, RemadeOK DEF NoneReady
<1>9. Leaves(v, j, worker)
  BY <1>3, <1>5 DEF Leaves, IntentIsCurrent
<1>10. JoinsIt(v, j)
  BY <1>1, <1>3, <1>5 DEF JoinsIt, Opening, Live
<1>11. Good(JoinConnect(v, j), worker, troubles, ctl.autos)
  BY <1>1, <1>5, <1>8, <1>9, <1>10, JoinConnectOK
<1>12. Becomes(JoinConnect(v, j))
  BY <1>1, <1>2
<1> QED
  BY <1>1, <1>11, <1>12, LandsOK

(* The recovery that a command cancelled is over, and the command goes on. *)
LEMMA GatheredOK ==
    ASSUME NEW j \in Jobs, Sound(World, worker, troubles), troubles \in 0..MaxTroubles, Gathered(j)
    PROVE  Sound(World', worker', troubles') /\ ctl'.autos <= ctl.autos
<1>1. /\ World.job[j].pc = "cancelling" /\ ~World.job[j].cancel
      /\ ~Live(World, World.job[j].joins)
      /\ World.ctl.autos = ctl.autos /\ Becomes(AfterCancelReconnect(Unjoined(World, j), j))
      /\ worker' = worker /\ troubles' = troubles /\ troubles \in Nat
  BY WorldIs, JobSets DEF Gathered, Resumes, Calm, Unjoined
<1>2. PICK v : v = Unjoined(World, j)
  OBVIOUS
<1>3. Started(World, j)
  BY <1>1 DEF Started
<1>4. /\ World \in WorldType /\ Steady(World, Jobs, worker, troubles) /\ NoneReady(World)
      /\ Live(World, j) /\ JobOK(World, j, worker) /\ Orderly(World, j)
      /\ j \in Commands <=> World.job[j].kind \in {"connect", "disconnect"}
      /\ World.ctl.autos \in Nat
  BY <1>3, StartedIs
<1>5. /\ Kinds(World, j) /\ Places(World, j) /\ j \in Commands
  BY <1>1, <1>4 DEF JobOK, Places
<1>6. \A s \in Supervisors : Live(World, s) => World.job[j].joins # s
  BY <1>1
<1>7. World.job[j].kind = "connect" => NoRecovery(World)
  <2>1. Kept(World) /\ Orphaned(World)
    BY <1>4 DEF Steady
  <2> QED
    BY <1>1, <1>4, <1>5, <1>6, <2>1 DEF NoRecovery, Kept, Orphaned
<1>8. Leavable(World, World, j, worker) /\ Rests(World, World, j)
  BY <1>1, <1>4, <1>5, <1>6 DEF Leavable, Places, Opening, Rests
<1>9. Moves(World, j, worker, troubles)
  <2>1. troubles \in {troubles, troubles + 1}
    OBVIOUS
  <2> QED
    BY <1>1, <1>4, <1>5, <1>7, <1>8, <2>1, RestsOK
<1>10. IsUnjoined(World, v, j)
  BY <1>2, <1>4, UnjoinedIs
<1>11. /\ v \in WorldType /\ v.ctl = World.ctl /\ v.sess = World.sess
       /\ \A i \in Jobs \ {j} : v.job[i] = World.job[i]
       /\ v.job[j].pc = World.job[j].pc /\ v.job[j].at = World.job[j].at
       /\ v.job[j].kind = World.job[j].kind /\ v.job[j].on = World.job[j].on
       /\ v.job[j].intent = World.job[j].intent /\ v.job[j].attempt = World.job[j].attempt
       /\ v.job[j].cancel = World.job[j].cancel /\ v.job[j].joins = Nobody
  BY <1>10 DEF IsUnjoined
<1>12. Remade(World, v, j)
  <2>1. Started(v, j) /\ (Unopened(v, j) => Unopened(World, j))
    BY <1>3, <1>11 DEF Started, Unopened
  <2> QED
    BY <1>3, <1>11, <2>1 DEF Remade
<1>13. World.job[j].kind # "disconnect" /\ IntentIsCurrent(World, j) => World.ctl.last = "connect"
  BY <1>1, <1>5 DEF Kinds, IntentIsCurrent
<1>14. Moves(v, j, worker, troubles) /\ NoneReady(v)
  BY <1>4, <1>9, <1>11, <1>12, <1>13, RemadeOK DEF NoneReady
<1>15. /\ v.job[j].kind = "connect" => Unopened(v, j)
       /\ ~v.job[j].cancel
       /\ v.job[j].kind = "connect" /\ IntentIsCurrent(v, j) => v.ctl.last = "connect"
  <2>1. v.job[j].kind = "connect" => Unopened(v, j)
    BY <1>1, <1>11 DEF Unopened
  <2>2. ~v.job[j].cancel
    BY <1>1, <1>11
  <2>3. IntentIsCurrent(v, j) <=> IntentIsCurrent(World, j)
    BY <1>11 DEF IntentIsCurrent
  <2> QED
    BY <1>11, <1>13, <2>1, <2>2, <2>3
<1>16. Good(AfterCancelReconnect(v, j), worker, troubles, ctl.autos)
  BY <1>1, <1>5, <1>11, <1>14, <1>15, AfterCancelReconnectOK DEF NoneReady
<1>17. Becomes(AfterCancelReconnect(v, j))
  BY <1>1, <1>2
<1> QED
  BY <1>1, <1>16, <1>17, LandsOK

(* The native disconnect has returned. *)
LEMMA HungUpOK ==
    ASSUME NEW j \in Jobs, Sound(World, worker, troubles), troubles \in 0..MaxTroubles, HungUp(j)
    PROVE  Sound(World', worker', troubles') /\ ctl'.autos <= ctl.autos
<1> DEFINE state == IF Connected(On(World, j)) THEN "error" ELSE "disconnected"
           n == World.job[j].on
<1>1. /\ World.job[j].at = "native" /\ World.ctl.autos = ctl.autos
      /\ Becomes(IF World.job[j].cancel THEN Ended(WithState(World, n, state), j) ELSE Disconnected(World, j))
      /\ worker' = worker /\ troubles' = troubles /\ troubles \in Nat
  BY WorldIs, JobSets DEF HungUp, Calm, WithState
<1>2. World \in WorldType /\ JobOK(World, j, worker)
  BY DEF Sound, Steady
<1>3. Leaving(World, j) /\ Started(World, j)
  BY <1>1, <1>2 DEF JobOK, Places, Leaving, Started
<1>4. Moves(World, j, worker, troubles) /\ NoneReady(World)
  <2>1. World.job[j].pc # "cancelling"
    BY <1>3 DEF Leaving
  <2> QED
    BY <1>1, <1>3, <2>1, StaysOK, StartedIs
<1>5. n \in Sessions
  <2>1. n \in Sessions \cup {Nobody}
    BY <1>2 DEF WorldType, JobType
  <2> QED
    BY <1>2, <1>3, <2>1 DEF JobOK, Places, Leaving
<1>6. CASE World.job[j].cancel
  <2>1. PICK v : v = WithState(World, n, state)
    OBVIOUS
  <2>2. state \in States \ {"ready"}
    BY DEF States
  <2>3. Moves(v, j, worker, troubles) /\ NoneReady(v)
    BY <1>1, <1>4, <1>5, <2>1, <2>2, StateOK DEF NoneReady
  <2>4. v.ctl = World.ctl
    BY <2>1 DEF WithState
  <2>5. Good(Ended(v, j), worker, troubles, ctl.autos)
    BY <1>1, <2>3, <2>4, EndedOK
  <2>6. Becomes(Ended(v, j))
    BY <1>1, <1>6, <2>1
  <2> QED
    BY <1>1, <2>5, <2>6, LandsOK
<1>7. CASE ~World.job[j].cancel
  <2>1. Good(Disconnected(World, j), worker, troubles, ctl.autos)
    BY <1>1, <1>3, <1>4, <1>7, AtWorkLeaves, DisconnectedOK
  <2>2. Becomes(Disconnected(World, j))
    BY <1>1, <1>7
  <2> QED
    BY <1>1, <2>1, <2>2, LandsOK
<1> QED
  BY <1>6, <1>7

(* A job that connects does so alone, on the newest session. *)
LEMMA OpeningIs ==
    ASSUME NEW w, NEW r, NEW t \in Nat, Sound(w, r, t), NEW j \in Jobs, Opening(w, j)
    PROVE  /\ Connects(w, j, r) /\ Started(w, j) /\ NoneReady(w) /\ ~Newest(w).poisoned
           /\ w \in WorldType /\ JobOK(w, j, r) /\ w.job[j].pc = "connecting"
           /\ w.ctl.made \in Sessions /\ w.job[j].on = w.ctl.made /\ On(w, j) = Newest(w)
           /\ w.job[j].at \in {"opening", "setup", "cleanup", "unwind"}
           /\ w.ctl.autos \in Nat
           /\ \A k \in Jobs \ {j} : ~Opening(w, k) /\ w.job[k].pc # "backoff"
<1>1. w.job[j].pc = "connecting" /\ Started(w, j)
  BY DEF Opening, Started
<1>2. /\ w \in WorldType /\ Steady(w, Jobs, r, t) /\ NoneReady(w) /\ Live(w, j) /\ JobOK(w, j, r)
      /\ w.job[j].kind = "connect" => NoRecovery(w)
      /\ w.ctl.autos \in Nat
  BY <1>1, StartedIs
<1>3. /\ w.job[j].kind # "disconnect" /\ w.job[j].on = w.ctl.made /\ w.job[j].on # Nobody
      /\ w.job[j].at \in {"opening", "setup", "cleanup", "unwind"}
  BY <1>1, <1>2 DEF JobOK, Places, Opening
<1>4. w.ctl.made \in Sessions
  BY <1>2, <1>3 DEF WorldType, JobType
<1>5. /\ ~Newest(w).poisoned /\ Newest(w).intent = w.job[j].intent
      /\ w.job[j].kind = "connect" /\ IntentIsCurrent(w, j) => w.ctl.desired
  BY <1>2 DEF JobOK, Opens
<1>6. IntentIsCurrent(w, j) => w.ctl.last = "connect"
  BY <1>1, <1>2, <1>3 DEF JobOK, Kinds, IntentIsCurrent
<1>7. j \in Supervisors /\ IntentIsCurrent(w, j) => w.ctl.autos <= w.job[j].attempt
  BY <1>2 DEF JobOK, Recovers
<1>8. \A k \in Jobs \ {j} : ~Opening(w, k) /\ w.job[k].pc # "backoff"
  <2> SUFFICES ASSUME NEW k \in Jobs \ {j} PROVE ~Opening(w, k) /\ w.job[k].pc # "backoff"
    OBVIOUS
  <2>1. /\ OneConnect(w) /\ OneSupervisor(w) /\ Kept(w) /\ Orphaned(w) /\ JobOK(w, k, r)
        /\ Kinds(w, j)
    BY <1>2 DEF Steady, JobOK
  <2>2. w.job[k].pc \notin {"connecting", "undoing", "waiting", "backoff", "created"}
    BY <1>2, <1>3, <2>1, AloneIs
  <2> QED
    BY <2>2 DEF Opening
<1> QED
  BY <1>1, <1>2, <1>3, <1>4, <1>5, <1>6, <1>7, <1>8 DEF Connects, On, Newest

(* Only session n has changed, and it neither opens nor is ready. *)
Turned(w, v, n) ==
    /\ v \in WorldType /\ v.job = w.job /\ v.ctl = w.ctl
    /\ \A m \in Sessions \ {n} : v.sess[m] = w.sess[m]
    /\ v.sess[n].intent = w.sess[n].intent
    /\ v.sess[n].state # "ready" /\ v.sess[n].client # "opening"

(* The newest session may change in any such way under the job that connects. *)
LEMMA TurnedOK ==
    ASSUME NEW w, NEW r, NEW t \in Nat, Sound(w, r, t), NEW j \in Jobs, Opening(w, j),
           NEW v, Turned(w, v, w.ctl.made), NEW t2 \in {t, t + 1}
    PROVE  /\ Moves(v, j, r, t2) /\ NoneReady(v) /\ Connects(v, j, r) /\ Opening(v, j)
           /\ t2 # t => Affords(v, t2, 1)
           /\ j \in Supervisors /\ Credit(w, j) => Affords(v, t2, 1)
<1>1. /\ Connects(w, j, r) /\ Started(w, j) /\ NoneReady(w) /\ w.job[j].pc = "connecting"
      /\ w.ctl.made \in Sessions /\ w \in WorldType /\ w.ctl.autos \in Nat
      /\ \A k \in Jobs \ {j} : ~Opening(w, k) /\ w.job[k].pc # "backoff"
  BY OpeningIs
<1>2. OnlyNewest(w)
  BY <1>1, StartedIs DEF Steady
<1>3. Rests(w, v, j)
  BY <1>1 DEF Rests, Turned
<1>4. \A n \in Sessions : v.sess[n].client # "opening"
  <2> SUFFICES ASSUME NEW n \in Sessions \ {w.ctl.made} PROVE v.sess[n].client # "opening"
    BY DEF Turned
  <2>1. w.sess[n].client = "none" /\ v.sess[n] = w.sess[n]
    BY <1>2 DEF OnlyNewest, Turned
  <2> QED
    BY <2>1
<1>5. /\ Moves(v, j, r, t2)
      /\ t2 # t => Affords(v, t2, 1)
      /\ j \in Supervisors /\ Credit(w, j) => Affords(v, t2, 1)
  BY <1>1, <1>3, <1>4, AtWorkOK
<1>6. NoneReady(v)
  BY <1>1 DEF Turned, NoneReady
<1>7. Connects(v, j, r) /\ Opening(v, j)
  BY <1>1 DEF Turned, Connects, Opening, IntentIsCurrent, Newest
<1> QED
  BY <1>5, <1>6, <1>7

(* connect() raises over the changed session. *)
LEMMA TurnedRaisedOK ==
    ASSUME NEW w, NEW r, NEW t \in Nat, Sound(w, r, t), NEW j \in Jobs, Opening(w, j),
           NEW v, Turned(w, v, w.ctl.made), NEW t2 \in {t, t + 1}, t2 \in 0..MaxTroubles,
           j \in Supervisors => t2 # t \/ Credit(w, j)
    PROVE  Good(ConnectRaised(v, j), r, t2, w.ctl.autos)
<1>1. /\ Moves(v, j, r, t2) /\ NoneReady(v) /\ Connects(v, j, r)
      /\ j \in Supervisors => Affords(v, t2, 1)
  BY TurnedOK
<1>2. v.ctl = w.ctl
  BY DEF Turned
<1>3. /\ j \in Supervisors <=> v.job[j].kind = "supervise"
      /\ j \in Commands <=> v.job[j].kind \in {"connect", "disconnect"}
  BY <1>1, KindIs
<1>4. v.job[j].kind # "disconnect" /\ v.job[j].on # Nobody
  BY <1>1, JobSets DEF Connects
<1>5. j \in Supervisors => Proceeds(v, j, r, t2)
  BY <1>1, <1>3, <1>4, JobSets DEF Proceeds, Connects
<1> QED
  BY <1>1, <1>2, <1>4, <1>5, ConnectRaisedOK

(* connect() is cancelled over the changed session. *)
LEMMA TurnedCancelledOK ==
    ASSUME NEW w, NEW r, NEW t \in 0..MaxTroubles, Sound(w, r, t), NEW j \in Jobs, Opening(w, j),
           NEW v, Turned(w, v, w.ctl.made)
    PROVE  Good(ConnectCancelled(v, j), r, t, w.ctl.autos)
<1>1. t \in Nat /\ t \in {t, t + 1}
  BY JobSets
<1>2. Moves(v, j, r, t) /\ NoneReady(v) /\ Connects(v, j, r) /\ Opening(v, j)
  BY <1>1, TurnedOK
<1>3. v.ctl = w.ctl
  BY DEF Turned
<1> QED
  BY <1>2, <1>3, ConnectCancelledOK

(* connect() goes on inside: it is set up, cleans up or unwinds. *)
GoesOn(w, v, j) ==
    /\ v \in WorldType /\ v.ctl = w.ctl
    /\ \A k \in Jobs \ {j} : v.job[k] = w.job[k]
    /\ v.job[j].pc = "connecting" /\ v.job[j].at \in {"setup", "cleanup", "unwind"}
    /\ v.job[j].kind = w.job[j].kind /\ v.job[j].on = w.job[j].on
    /\ v.job[j].intent = w.job[j].intent /\ v.job[j].attempt = w.job[j].attempt
    /\ \A m \in Sessions \ {w.ctl.made} : v.sess[m] = w.sess[m]
    /\ Newest(v).intent = Newest(w).intent /\ Newest(v).poisoned = Newest(w).poisoned
    /\ Newest(v).state # "ready"
    /\ Newest(v).client = IF v.job[j].at = "setup" THEN "up" ELSE "closing"

(* connect() goes on over the changed session. *)
LEMMA GoesOnOK ==
    ASSUME NEW w, NEW r, NEW t \in Nat, Sound(w, r, t), NEW j \in Jobs, Opening(w, j),
           NEW v, GoesOn(w, v, j), NEW t2 \in {t, t + 1}, v.job[j].at = "cleanup" => t2 # t
    PROVE  Good(v, r, t2, w.ctl.autos)
<1>1. /\ Connects(w, j, r) /\ Started(w, j) /\ NoneReady(w) /\ ~Newest(w).poisoned
      /\ w \in WorldType /\ JobOK(w, j, r) /\ w.job[j].pc = "connecting"
      /\ w.ctl.made \in Sessions /\ w.job[j].on = w.ctl.made
      /\ w.ctl.autos \in Nat
      /\ \A k \in Jobs \ {j} : ~Opening(w, k) /\ w.job[k].pc # "backoff"
  BY OpeningIs
<1>2. PICK u : u = [w EXCEPT !.sess = v.sess]
  OBVIOUS
<1>3. u \in WorldType /\ u.ctl = w.ctl /\ u.job = w.job /\ u.sess = v.sess
  BY <1>1, <1>2 DEF WorldType, GoesOn
<1>4. Turned(w, u, w.ctl.made)
  BY <1>3 DEF Turned, GoesOn, Newest
<1>5. /\ Moves(u, j, r, t2) /\ NoneReady(u)
      /\ t2 # t => Affords(u, t2, 1)
  BY <1>4, TurnedOK
<1>6. Moved(u, v, j)
  <2>1. \A n \in Sessions :
          /\ v.sess[n].intent = u.sess[n].intent /\ v.sess[n].state # "ready"
          /\ v.sess[n].client = u.sess[n].client /\ v.sess[n].poisoned = u.sess[n].poisoned
    BY <1>3, <1>5 DEF NoneReady
  <2>2. Live(v, j) /\ v.ctl = u.ctl /\ v \in WorldType /\ v.job[j].pc = "connecting"
    BY <1>3 DEF GoesOn, Live
  <2>3. /\ v.job[j].kind = u.job[j].kind /\ v.job[j].intent = u.job[j].intent
        /\ \A k \in Jobs \ {j} : v.job[k] = u.job[k]
    BY <1>3 DEF GoesOn
  <2> QED
    BY <2>1, <2>2, <2>3 DEF Moved
<1>7. JobOK(v, j, r)
  <2>1. /\ v.ctl = w.ctl /\ v.job[j].pc = "connecting" /\ v.job[j].at \in {"setup", "cleanup", "unwind"}
        /\ v.job[j].kind = w.job[j].kind /\ v.job[j].on = w.job[j].on
        /\ v.job[j].intent = w.job[j].intent /\ v.job[j].attempt = w.job[j].attempt
        /\ Kinds(w, j) /\ Places(w, j) /\ Opens(w, j) /\ Recovers(w, j)
    BY <1>1 DEF GoesOn, JobOK
  <2>2. Kinds(v, j)
    BY <1>1, <2>1 DEF Kinds, Connects, Idle
  <2>3. Places(v, j)
    BY <1>1, <2>1 DEF Places, Opening, Leaving
  <2>4. Opens(v, j)
    <3>1. /\ ~Newest(v).poisoned /\ Newest(v).intent = Newest(w).intent
          /\ v.job[j].at = "setup" => Newest(v).client = "up"
          /\ v.job[j].at # "setup" => Newest(v).client = "closing"
      BY <1>1 DEF GoesOn
    <3> QED
      BY <1>1, <2>1, <3>1 DEF Opens, Opening, IntentIsCurrent
  <2>5. Recovers(v, j) /\ Uncancelled(v, j, r)
    BY <1>1, <2>1 DEF Recovers, Uncancelled, Opening, Live, IntentIsCurrent
  <2> QED
    BY <2>2, <2>3, <2>4, <2>5 DEF JobOK
<1>8. \A k \in Jobs \ {j} :
         Leaving(u, k) /\ u.job[k].on = u.ctl.made => u.job[k].joins = j /\ u.job[k].at = "join"
  <2>1. Joins(w, Jobs)
    BY <1>1, StartedIs DEF Steady
  <2> QED
    BY <1>3, <2>1 DEF Joins, Leaving
<1>9. ~Leaving(v, j) /\ ~Unopened(v, j)
  BY <1>1 DEF GoesOn, Leaving, Unopened, Connects, Opening, JobOK, Kinds, Idle
<1>10. j \in Supervisors /\ Credit(v, j) => Affords(u, t2, 1)
  <2>1. v.job[j].pc = "connecting" /\ (v.job[j].at = "setup" => Newest(v).client = "up")
    BY DEF GoesOn
  <2> QED
    BY <1>5, <2>1 DEF Credit
<1>11. Good(v, r, t2, u.ctl.autos)
  BY <1>5, <1>6, <1>7, <1>8, <1>9, <1>10, MovedOK
<1> QED
  BY <1>3, <1>11

(* A session that is neither ready nor opening any more. *)
LEMMA TurnedIs ==
    ASSUME NEW w \in WorldType, NEW n \in Sessions, NEW x \in SessionType, x.state # "ready",
           x.client # "opening", x.intent = w.sess[n].intent, NEW v, v = [w EXCEPT !.sess[n] = x]
    PROVE  Turned(w, v, n)
<1>1. w.sess \in [Sessions -> SessionType]
  BY DEF WorldType
<1>2. v.sess = [w.sess EXCEPT ![n] = x] /\ v.job = w.job /\ v.ctl = w.ctl /\ v \in WorldType
  BY <1>1 DEF WorldType
<1> QED
  BY <1>1, <1>2 DEF Turned

(* The worlds in which connect() comes to its end. *)
Failed(w, n) == [w EXCEPT !.sess[n].client = "none", !.sess[n].state = "error"]
Quiet(w, n) == [WithState(w, n, "disconnected") EXCEPT !.sess[n].client = "none"]
Broken(w, n, orphan) == [w EXCEPT !.sess[n].state = "error", !.sess[n].poisoned = TRUE,
                                  !.sess[n].client = "closing", !.sess[n].orphan = orphan]

(* The changes with which connect() ends are of that kind. *)
LEMMA EndingsAre ==
    ASSUME NEW w \in WorldType, NEW n \in Sessions
    PROVE  /\ Turned(w, Failed(w, n), n)
           /\ Turned(w, Quiet(w, n), n)
           /\ \A orphan \in BOOLEAN : Turned(w, Broken(w, n, orphan), n)
           /\ w.sess[n].client # "opening" =>
                 \A state \in States \ {"ready"} : Turned(w, WithState(w, n, state), n)
<1> DEFINE s == w.sess[n]
<1>1. w.sess \in [Sessions -> SessionType] /\ s \in SessionType
  BY DEF WorldType
<1>2. Turned(w, Failed(w, n), n)
  <2>1. PICK x \in SessionType : x = [s EXCEPT !.client = "none", !.state = "error"]
    BY <1>1 DEF SessionType
  <2>2. x.client = "none" /\ x.state = "error" /\ x.intent = s.intent
    BY <1>1, <2>1 DEF SessionType
  <2>3. Failed(w, n) = [w EXCEPT !.sess[n] = x]
    BY <1>1, <2>1 DEF Failed, WorldType
  <2> QED
    BY <2>2, <2>3, TurnedIs
<1>3. Turned(w, Quiet(w, n), n)
  <2>1. PICK x \in SessionType : x = [s EXCEPT !.state = "disconnected", !.client = "none"]
    BY <1>1 DEF SessionType
  <2>2. x.client = "none" /\ x.state = "disconnected" /\ x.intent = s.intent
    BY <1>1, <2>1 DEF SessionType
  <2>3. Quiet(w, n) = [w EXCEPT !.sess[n] = x]
    BY <1>1, <2>1 DEF Quiet, WithState, WorldType
  <2> QED
    BY <2>2, <2>3, TurnedIs
<1>4. ASSUME NEW orphan \in BOOLEAN PROVE Turned(w, Broken(w, n, orphan), n)
  <2>1. PICK x \in SessionType : x = [s EXCEPT !.state = "error", !.poisoned = TRUE,
                                               !.client = "closing", !.orphan = orphan]
    BY <1>1 DEF SessionType
  <2>2. x.client = "closing" /\ x.state = "error" /\ x.intent = s.intent
    BY <1>1, <2>1 DEF SessionType
  <2>3. Broken(w, n, orphan) = [w EXCEPT !.sess[n] = x]
    BY <1>1, <2>1 DEF Broken, WorldType
  <2> QED
    BY <2>2, <2>3, TurnedIs
<1>5. ASSUME s.client # "opening", NEW state \in States \ {"ready"}
      PROVE  Turned(w, WithState(w, n, state), n)
  <2>1. PICK x \in SessionType : x = [s EXCEPT !.state = state]
    BY <1>1 DEF SessionType, States
  <2>2. x.client = s.client /\ x.state = state /\ x.intent = s.intent
    BY <1>1, <2>1 DEF SessionType
  <2>3. WithState(w, n, state) = [w EXCEPT !.sess[n] = x]
    BY <1>1, <2>1 DEF WithState, WorldType
  <2> QED
    BY <1>5, <2>2, <2>3, TurnedIs
<1> QED
  BY <1>2, <1>3, <1>4, <1>5

(* The steps inside connect(). *)
Shifted(w, j, n, at, client) == [At(w, j, "connecting", at) EXCEPT !.sess[n].client = client]
Unwinding(w, j, n) == [At(w, j, "connecting", "unwind") EXCEPT
                          !.job[j].cancel = FALSE, !.sess[n].client = "closing"]

(* The changes with which connect() goes on are of that kind. *)
LEMMA ShiftsAre ==
    ASSUME NEW w \in WorldType, NEW j \in Jobs, w.ctl.made \in Sessions, Newest(w).state # "ready"
    PROVE  /\ GoesOn(w, Shifted(w, j, w.ctl.made, "setup", "up"), j)
           /\ GoesOn(w, Shifted(w, j, w.ctl.made, "cleanup", "closing"), j)
           /\ GoesOn(w, Unwinding(w, j, w.ctl.made), j)
           /\ Shifted(w, j, w.ctl.made, "setup", "up").job[j].at = "setup"
           /\ Unwinding(w, j, w.ctl.made).job[j].at = "unwind"
<1> DEFINE n == w.ctl.made
           s == w.sess[n]
<1>1. /\ w.sess \in [Sessions -> SessionType] /\ s \in SessionType
      /\ w.job \in [Jobs -> JobType] /\ w.job[j] \in JobType
  BY DEF WorldType
<1>2. ASSUME NEW at \in {"setup", "cleanup"}, NEW client \in {"up", "closing"},
             client = IF at = "setup" THEN "up" ELSE "closing",
             NEW v, v = Shifted(w, j, n, at, client)
      PROVE  GoesOn(w, v, j) /\ v.job[j].at = at
  <2>1. PICK u : u = At(w, j, "connecting", at)
    OBVIOUS
  <2>2. /\ u \in WorldType /\ u.ctl = w.ctl /\ u.sess = w.sess
        /\ \A k \in Jobs \ {j} : u.job[k] = w.job[k]
        /\ u.job[j].pc = "connecting" /\ u.job[j].at = at
        /\ u.job[j].kind = w.job[j].kind /\ u.job[j].on = w.job[j].on
        /\ u.job[j].intent = w.job[j].intent /\ u.job[j].attempt = w.job[j].attempt
    BY <2>1, AtIs
  <2>3. PICK x : x = [s EXCEPT !.client = client]
    OBVIOUS
  <2>4. /\ x \in SessionType /\ x.client = client /\ x.state = s.state
        /\ x.intent = s.intent /\ x.poisoned = s.poisoned
    BY <1>1, <2>3 DEF SessionType
  <2>5. v = [u EXCEPT !.sess[n] = x]
    BY <1>1, <1>2, <2>1, <2>2, <2>3 DEF Shifted, WorldType
  <2>6. v.sess = [w.sess EXCEPT ![n] = x] /\ v.job = u.job /\ v.ctl = w.ctl /\ v \in WorldType
    BY <1>1, <2>2, <2>4, <2>5 DEF WorldType
  <2>7. v.sess[n] = x /\ \A m \in Sessions \ {n} : v.sess[m] = w.sess[m]
    BY <1>1, <2>6
  <2> QED
    BY <1>2, <2>2, <2>4, <2>6, <2>7 DEF GoesOn, Newest
<1>3. ASSUME NEW v, v = Unwinding(w, j, n)
      PROVE  GoesOn(w, v, j) /\ v.job[j].at = "unwind"
  <2>1. PICK y : y = [w.job[j] EXCEPT !.pc = "connecting", !.at = "unwind", !.cancel = FALSE]
    OBVIOUS
  <2>2. /\ y \in JobType /\ y.pc = "connecting" /\ y.at = "unwind"
        /\ y.kind = w.job[j].kind /\ y.on = w.job[j].on
    BY <1>1, <2>1 DEF JobType
  <2>3. y.intent = w.job[j].intent /\ y.attempt = w.job[j].attempt
    BY <1>1, <2>1 DEF JobType
  <2>4. PICK x : x = [s EXCEPT !.client = "closing"]
    OBVIOUS
  <2>5. /\ x \in SessionType /\ x.client = "closing" /\ x.state = s.state
        /\ x.intent = s.intent /\ x.poisoned = s.poisoned
    BY <1>1, <2>4 DEF SessionType
  <2>6. v = [w EXCEPT !.job[j] = y, !.sess[n] = x]
    BY <1>1, <1>3, <2>1, <2>4 DEF Unwinding, At, WorldType
  <2>7. /\ v.sess = [w.sess EXCEPT ![n] = x] /\ v.job = [w.job EXCEPT ![j] = y]
        /\ v.ctl = w.ctl /\ v \in WorldType
    BY <1>1, <2>2, <2>5, <2>6 DEF WorldType
  <2>8. /\ v.sess[n] = x /\ \A m \in Sessions \ {n} : v.sess[m] = w.sess[m]
        /\ v.job[j] = y /\ \A k \in Jobs \ {j} : v.job[k] = w.job[k]
    BY <1>1, <2>7
  <2> QED
    BY <2>2, <2>3, <2>5, <2>7, <2>8 DEF GoesOn, Newest
<1> QED
  BY <1>2, <1>3

(* The native open has returned. *)
LEMMA OpenedOK ==
    ASSUME NEW j \in Jobs, Sound(World, worker, troubles), troubles \in 0..MaxTroubles, Opened(j)
    PROVE  Sound(World', worker', troubles') /\ ctl'.autos <= ctl.autos
<1>1. /\ World.job[j].pc = "connecting" /\ Opening(World, j) /\ World.ctl.autos = ctl.autos
      /\ Becomes(Shifted(World, j, World.job[j].on, "setup", "up"))
      /\ worker' = worker /\ troubles' = troubles /\ troubles \in Nat
  BY WorldIs, JobSets DEF Opened, Resumes, Calm, Opening, Shifted
<1>2. /\ NoneReady(World) /\ World \in WorldType /\ World.ctl.made \in Sessions
      /\ World.job[j].on = World.ctl.made
  BY <1>1, OpeningIs
<1>3. PICK v : v = Shifted(World, j, World.ctl.made, "setup", "up")
  OBVIOUS
<1>4. GoesOn(World, v, j) /\ v.job[j].at = "setup"
  BY <1>2, <1>3, ShiftsAre DEF NoneReady, Newest
<1>5. Good(v, worker, troubles, ctl.autos)
  BY <1>1, <1>4, GoesOnOK
<1>6. Becomes(v)
  BY <1>1, <1>2, <1>3
<1> QED
  BY <1>1, <1>5, <1>6, LandsOK

(* The setup is done and connect() returns. *)
LEMMA SetupDoneOK ==
    ASSUME NEW j \in Jobs, Sound(World, worker, troubles), troubles \in 0..MaxTroubles, SetupDone(j)
    PROVE  Sound(World', worker', troubles') /\ ctl'.autos <= ctl.autos
<1>1. /\ Opening(World, j) /\ World.job[j].at = "setup" /\ ~World.job[j].cancel
      /\ World.ctl.autos = ctl.autos
      /\ Becomes(ConnectReturned(World, j))
      /\ worker' = worker /\ troubles' = troubles /\ troubles \in Nat
  BY WorldIs, JobSets DEF SetupDone, Resumes, Calm, Opening
<1>2. /\ NoneReady(World) /\ Connects(World, j, worker) /\ Started(World, j)
      /\ World.job[j].pc = "connecting" /\ ~Newest(World).poisoned
  BY <1>1, OpeningIs
<1>3. Moves(World, j, worker, troubles)
  BY <1>1, <1>2, StaysOK
<1>4. PICK v : v = ConnectReturned(World, j)
  OBVIOUS
<1>5. Sound(v, worker, troubles) /\ v.ctl.autos <= ctl.autos
  BY <1>1, <1>2, <1>3, <1>4, ConnectReturnedOK
<1>6. v \in WorldType
  BY <1>5 DEF Sound, Steady
<1>7. World' = v /\ ctl' = v.ctl
  BY <1>1, <1>4, <1>6 DEF World, WorldType, Becomes
<1> QED
  BY <1>1, <1>5, <1>7

(* The link was lost during the setup. *)
LEMMA LinkIsGoneOK ==
    ASSUME NEW j \in Jobs, Sound(World, worker, troubles), troubles \in 0..MaxTroubles, LinkIsGone(j)
    PROVE  Sound(World', worker', troubles') /\ ctl'.autos <= ctl.autos
<1>1. /\ Opening(World, j) /\ World.job[j].at = "setup" /\ On(World, j).client = "none"
      /\ World.ctl.autos = ctl.autos
      /\ Becomes(ConnectRaised(World, j))
      /\ worker' = worker /\ troubles' = troubles /\ troubles \in Nat
  BY WorldIs, JobSets DEF LinkIsGone, Resumes, Calm, Opening
<1>2. /\ NoneReady(World) /\ World \in WorldType /\ World.ctl.made \in Sessions
      /\ On(World, j) = Newest(World)
  BY <1>1, OpeningIs
<1>3. Turned(World, World, World.ctl.made)
  BY <1>1, <1>2 DEF Turned, NoneReady, Newest
<1>4. Credit(World, j)
  BY <1>1, <1>2 DEF Credit
<1>5. troubles \in {troubles, troubles + 1}
  OBVIOUS
<1>6. Good(ConnectRaised(World, j), worker, troubles, ctl.autos)
  BY <1>1, <1>3, <1>4, <1>5, TurnedRaisedOK
<1> QED
  BY <1>1, <1>6, LandsOK

(* The cleanup of a failed or cancelled connect() is over. *)
LEMMA CleanedOK ==
    ASSUME NEW j \in Jobs, Sound(World, worker, troubles), troubles \in 0..MaxTroubles, Cleaned(j)
    PROVE  Sound(World', worker', troubles') /\ ctl'.autos <= ctl.autos
<1> DEFINE n == World.job[j].on
           ended == IF Connected(On(World, j)) THEN "error" ELSE "disconnected"
<1>1. /\ World.job[j].at \in {"cleanup", "unwind"} /\ World.ctl.autos = ctl.autos
      /\ Becomes(IF World.job[j].cancel THEN ConnectCancelled(World, j)
                 ELSE IF World.job[j].at = "cleanup" THEN ConnectRaised(WithState(World, n, "error"), j)
                 ELSE ConnectCancelled(WithState(World, n, ended), j))
      /\ worker' = worker /\ troubles' = troubles /\ troubles \in Nat
  BY WorldIs, JobSets DEF Cleaned, Calm, WithState
<1>2. JobOK(World, j, worker)
  BY DEF Sound, Steady
<1>3. Opening(World, j)
  BY <1>1, <1>2 DEF JobOK, Places
<1>4. /\ NoneReady(World) /\ World \in WorldType /\ n \in Sessions /\ n = World.ctl.made
  BY <1>1, <1>3, OpeningIs
<1>5. World.sess[n].client # "opening"
  BY <1>1, <1>2, <1>3, <1>4 DEF JobOK, Opens, Newest
<1>6. /\ Turned(World, World, n)
      /\ \A state \in States \ {"ready"} : Turned(World, WithState(World, n, state), n)
  BY <1>4, <1>5, EndingsAre DEF Turned, NoneReady
<1>7. ended \in States \ {"ready"} /\ "error" \in States \ {"ready"}
  BY DEF States
<1>8. PICK v : v = IF World.job[j].cancel THEN World
                   ELSE IF World.job[j].at = "cleanup" THEN WithState(World, n, "error")
                   ELSE WithState(World, n, ended)
  OBVIOUS
<1>9. Turned(World, v, World.ctl.made)
  BY <1>4, <1>6, <1>7, <1>8
<1>10. Becomes(IF ~World.job[j].cancel /\ World.job[j].at = "cleanup"
               THEN ConnectRaised(v, j) ELSE ConnectCancelled(v, j))
  BY <1>1, <1>8
<1> HIDE DEF n, ended
<1>11. CASE ~World.job[j].cancel /\ World.job[j].at = "cleanup"
  <2>1. Credit(World, j) /\ troubles \in {troubles, troubles + 1}
    BY <1>11 DEF Credit
  <2>2. Good(ConnectRaised(v, j), worker, troubles, ctl.autos)
    BY <1>1, <1>3, <1>9, <2>1, TurnedRaisedOK
  <2>3. Becomes(ConnectRaised(v, j))
    BY <1>10, <1>11
  <2> QED
    BY <1>1, <2>2, <2>3, LandsOK
<1>12. CASE ~(~World.job[j].cancel /\ World.job[j].at = "cleanup")
  <2>1. Good(ConnectCancelled(v, j), worker, troubles, ctl.autos)
    BY <1>1, <1>3, <1>9, TurnedCancelledOK
  <2>2. Becomes(ConnectCancelled(v, j))
    BY <1>10, <1>12
  <2> QED
    BY <1>1, <2>1, <2>2, LandsOK
<1> QED
  BY <1>11, <1>12

(* The native open fails. *)
LEMMA OpenFailsOK ==
    ASSUME NEW j \in Jobs, Sound(World, worker, troubles), troubles \in 0..MaxTroubles, OpenFails(j)
    PROVE  Sound(World', worker', troubles') /\ ctl'.autos <= ctl.autos
<1>1. /\ World.job[j].at = "opening" /\ World.ctl.autos = ctl.autos
      /\ Becomes(ConnectRaised(Failed(World, World.job[j].on), j))
      /\ worker' = worker /\ troubles' = troubles + 1 /\ troubles \in Nat
      /\ troubles + 1 \in 0..MaxTroubles
  BY WorldIs, JobSets DEF OpenFails, Trouble, Failed
<1>2. JobOK(World, j, worker)
  BY DEF Sound, Steady
<1>3. Opening(World, j)
  BY <1>1, <1>2 DEF JobOK, Places
<1>4. World \in WorldType /\ World.ctl.made \in Sessions /\ World.job[j].on = World.ctl.made
  BY <1>1, <1>3, OpeningIs
<1>5. PICK v : v = Failed(World, World.ctl.made)
  OBVIOUS
<1>6. Turned(World, v, World.ctl.made)
  BY <1>4, <1>5, EndingsAre
<1>7. troubles + 1 \in {troubles, troubles + 1} /\ troubles + 1 # troubles
  BY <1>1
<1>8. Good(ConnectRaised(v, j), worker, troubles + 1, ctl.autos)
  BY <1>1, <1>3, <1>6, <1>7, TurnedRaisedOK
<1>9. Becomes(ConnectRaised(v, j))
  BY <1>1, <1>4, <1>5
<1> QED
  BY <1>1, <1>8, <1>9, LandsOK

(* The setup fails, with a poisoned client or with a clean disconnect. *)
LEMMA SetupFailsOK ==
    ASSUME NEW j \in Jobs, Sound(World, worker, troubles), troubles \in 0..MaxTroubles, SetupFails(j)
    PROVE  Sound(World', worker', troubles') /\ ctl'.autos <= ctl.autos
<1>1. /\ World.job[j].at = "setup" /\ World.ctl.autos = ctl.autos
      /\ \/ \E orphan \in BOOLEAN : Becomes(ConnectRaised(Broken(World, World.job[j].on, orphan), j))
         \/ Becomes(Shifted(World, j, World.job[j].on, "cleanup", "closing"))
      /\ worker' = worker /\ troubles' = troubles + 1 /\ troubles \in Nat
      /\ troubles + 1 \in 0..MaxTroubles
  <2>1. \A n, orphan : Poison(n, orphan) = Broken(World, n, orphan)
    BY DEF Poison, Broken
  <2>2. World.job[j].at = "setup" /\ World.ctl.autos = ctl.autos
    BY WorldIs DEF SetupFails
  <2>3. worker' = worker /\ troubles' = troubles + 1 /\ troubles \in Nat /\ troubles + 1 \in 0..MaxTroubles
    BY JobSets DEF SetupFails, Trouble
  <2>4. \/ \E orphan \in BOOLEAN : Becomes(ConnectRaised(Poison(World.job[j].on, orphan), j))
        \/ Becomes(Shifted(World, j, World.job[j].on, "cleanup", "closing"))
    BY WorldIs DEF SetupFails, Shifted
  <2> QED
    BY <2>1, <2>2, <2>3, <2>4
<1>2. JobOK(World, j, worker)
  BY DEF Sound, Steady
<1>3. Opening(World, j)
  BY <1>1, <1>2 DEF JobOK, Places
<1>4. /\ NoneReady(World) /\ World \in WorldType /\ World.ctl.made \in Sessions
      /\ World.job[j].on = World.ctl.made
  BY <1>1, <1>3, OpeningIs
<1>5. troubles + 1 \in {troubles, troubles + 1} /\ troubles + 1 # troubles
  BY <1>1
<1>6. ASSUME NEW orphan \in BOOLEAN,
             Becomes(ConnectRaised(Broken(World, World.job[j].on, orphan), j))
      PROVE  Sound(World', worker', troubles') /\ ctl'.autos <= ctl.autos
  <2>1. PICK v : v = Broken(World, World.ctl.made, orphan)
    OBVIOUS
  <2>2. Turned(World, v, World.ctl.made)
    BY <1>4, <2>1, EndingsAre
  <2>3. Good(ConnectRaised(v, j), worker, troubles + 1, ctl.autos)
    BY <1>1, <1>3, <1>5, <2>2, TurnedRaisedOK
  <2>4. Becomes(ConnectRaised(v, j))
    BY <1>4, <1>6, <2>1
  <2> QED
    BY <1>1, <2>3, <2>4, LandsOK
<1>7. ASSUME Becomes(Shifted(World, j, World.job[j].on, "cleanup", "closing"))
      PROVE  Sound(World', worker', troubles') /\ ctl'.autos <= ctl.autos
  <2>1. PICK v : v = Shifted(World, j, World.ctl.made, "cleanup", "closing")
    OBVIOUS
  <2>2. GoesOn(World, v, j)
    BY <1>4, <2>1, ShiftsAre DEF NoneReady, Newest
  <2>3. Good(v, worker, troubles + 1, ctl.autos)
    BY <1>1, <1>3, <1>5, <2>2, GoesOnOK
  <2>4. Becomes(v)
    BY <1>4, <1>7, <2>1
  <2> QED
    BY <1>1, <2>3, <2>4, LandsOK
<1> QED
  BY <1>1, <1>6, <1>7

(* A command that is cut while it awaits the recovery it stopped: only the closing loop    *)
(* does that, and leaves the recovery behind.                                               *)
LEMMA EndedCancellingOK ==
    ASSUME NEW w, NEW r, NEW t \in Nat, Sound(w, r, t), r # "running", NEW j \in Jobs,
           w.job[j].pc = "cancelling"
    PROVE  Good(Ended(w, j), r, t, w.ctl.autos)
<1>1. PICK v : v = Ended(w, j)
  OBVIOUS
<1>2. Started(w, j)
  BY DEF Started
<1>3. /\ w \in WorldType /\ Steady(w, Jobs, r, t) /\ NoneReady(w) /\ Live(w, j)
      /\ w.ctl.autos \in Nat /\ JobOK(w, j, r) /\ w.job[j].kind # "none"
  BY <1>2, StartedIs
<1>4. /\ \A k \in Jobs : JobOK(w, k, r)
      /\ OnlyNewest(w) /\ Opened1(w, Jobs) /\ Joins(w, Jobs)
      /\ OneConnect(w) /\ Pressed(w, r) /\ Ordered(w) /\ Overruled(w, Jobs) /\ OneSupervisor(w)
      /\ Used(w, t) /\ Keeper(w) /\ Kept(w) /\ Orphaned(w) /\ Funded(w, Jobs, t)
  BY <1>3 DEF Steady
<1>5. j \in Commands /\ j \notin Supervisors
  BY <1>3, JobSets DEF JobOK, Places
<1>6. w.ctl.keeper # j
  BY <1>3, <1>5, JobSets DEF WorldType, CtlType
<1>7. /\ v \in WorldType /\ v.sess = w.sess
      /\ \A k \in Jobs \ {j} : v.job[k] = w.job[k]
      /\ v.ctl.session = w.ctl.session /\ v.ctl.made = w.ctl.made
      /\ v.ctl.desired = w.ctl.desired /\ v.ctl.closed = w.ctl.closed
      /\ v.ctl.intent = w.ctl.intent /\ v.ctl.autos = w.ctl.autos /\ v.ctl.last = w.ctl.last
      /\ v.ctl.keeper = w.ctl.keeper
      /\ v.job[j].kind = w.job[j].kind /\ v.job[j].pc = "done" /\ v.job[j].at = "none"
      /\ v.job[j].on = Nobody /\ v.job[j].intent = 0 /\ ~v.job[j].cancel
  BY <1>1, <1>3, <1>6, EndedIs
<1>8. /\ \A k \in Jobs : /\ Live(v, k) => Live(w, k) /\ k # j
                         /\ Started(v, k) => Started(w, k) /\ k # j
                         /\ Opening(v, k) => Opening(w, k) /\ k # j
                         /\ Leaving(v, k) => Leaving(w, k) /\ k # j
      /\ \A k \in Jobs \ {j} : Live(v, k) <=> Live(w, k)
      /\ \A c \in Commands : Unopened(v, c) => Unopened(w, c) /\ c # j
      /\ \A k \in Jobs : v.job[k].kind = w.job[k].kind
  <2>1. Commands \subseteq Jobs
    BY JobSets
  <2> QED
    BY <1>7, <1>3, <2>1 DEF Live, Started, Opening, Leaving, Unopened
<1>9. \A k \in Jobs \ {j} : JobOK(v, k, r)
  <2> TAKE k \in Jobs \ {j}
  <2>1. JobOK(w, k, r) /\ v.job[k] = w.job[k]
    BY <1>4, <1>7
  <2>2. Kinds(v, k) /\ Uncancelled(v, k, r)
    BY <1>7, <2>1 DEF JobOK, Kinds, Uncancelled, Opening
  <2>3. Places(v, k)
    BY <1>7, <2>1 DEF JobOK, Places, Opening, Leaving
  <2>4. Opens(v, k) /\ Recovers(v, k)
    BY <1>7, <2>1 DEF JobOK, Opens, Recovers, Opening, Newest, IntentIsCurrent, Live
  <2> QED
    BY <2>1, <2>2, <2>3, <2>4 DEF JobOK
<1>10. JobOK(v, j, r)
  <2>1. w.ctl.intent \in Nat /\ 0 <= w.ctl.intent /\ w.ctl.made \in Nat /\ 0 <= w.ctl.made
    BY <1>3, StartedIs, <1>2
  <2>2. Kinds(v, j)
    BY <1>3, <1>5, <1>7, <2>1, JobSets DEF Kinds, JobOK
  <2>3. Places(v, j)
    BY <1>7, <2>1, JobSets DEF Places, Leaving, Opening
  <2>4. Opens(v, j) /\ Recovers(v, j) /\ Uncancelled(v, j, r)
    BY <1>5, <1>7 DEF Opens, Recovers, Uncancelled, Opening
  <2> QED
    BY <2>2, <2>3, <2>4 DEF JobOK
<1>11. OnlyNewest(v)
  BY <1>4, <1>7 DEF OnlyNewest
<1>12. Opened1(v, Jobs)
  <2>1. w.job[j].at # "opening"
    BY <1>3 DEF JobOK, Places, Opening
  <2> QED
    BY <1>4, <1>7, <2>1 DEF Opened1
<1>13. Joins(v, Jobs)
  BY <1>4, <1>7, <1>8 DEF Joins
<1>14. OneConnect(v)
  BY <1>4, <1>7, <1>8, JobSets DEF OneConnect
<1>15. Pressed(v, r) /\ Used(v, t)
  <2>1. \A i \in Commands : v.job[i].kind = w.job[i].kind
    BY <1>8, JobSets
  <2>2. \A s \in Supervisors : v.job[s].kind = w.job[s].kind
    BY <1>8, JobSets
  <2> QED
    BY <1>4, <2>1, <2>2, PressedOK DEF Used
<1>16. Ordered(v)
  <2>1. \A c \in Commands : w.job[c].pc = "queued" => ~(c < j)
    BY <1>4, <1>5 DEF Ordered
  <2> QED
    BY <1>4, <1>5, <1>7, <2>1, JobSets DEF Ordered
<1>17. Overruled(v, Jobs)
  BY <1>4, <1>7, <1>8 DEF Overruled, IntentIsCurrent
<1>18. OneSupervisor(v)
  BY <1>4, <1>8, JobSets DEF OneSupervisor
<1>19. Keeper(v)
  BY <1>4, <1>5, <1>7, <1>8, JobSets DEF Keeper
<1>20. Kept(v)
  <2>1. /\ \A s \in Supervisors : Live(v, s) => Live(w, s)
        /\ \A c \in Commands : Live(v, c) => Live(w, c) /\ v.job[c] = w.job[c]
    BY <1>7, <1>8, JobSets
  <2> QED
    BY <1>4, <1>7, <2>1 DEF Kept
<1>21. Orphaned(v)
  <2>1. /\ \A s \in Supervisors : Live(v, s) => Live(w, s) /\ v.job[s] = w.job[s]
        /\ \A c \in Commands : Live(v, c) => Live(w, c) /\ v.job[c] = w.job[c]
    BY <1>5, <1>7, <1>8, JobSets
  <2> QED
    BY <1>4, <1>7, <2>1 DEF Orphaned, IntentIsCurrent
<1>22. Awaited(v, Jobs, r)
  BY DEF Awaited
<1>23. Funded(v, Jobs, t)
  <2>1. \A more : Affords(w, t, more) => Affords(v, t, more)
    BY <1>7, <1>8 DEF Affords
  <2>2. \A s \in Supervisors \cap Jobs : Credit(v, s) => Credit(w, s)
    BY <1>5, <1>7 DEF Credit, Newest
  <2> QED
    BY <1>4, <2>1, <2>2 DEF Funded
<1>24. Steady(v, Jobs, r, t)
  BY <1>7, <1>9, <1>10, <1>11, <1>12, <1>13, <1>14, <1>15, <1>16, <1>17, <1>18, <1>19, <1>20,
     <1>21, <1>22, <1>23 DEF Steady
<1>25. NoneReady(v)
  BY <1>3, <1>7 DEF NoneReady
<1> QED
  BY <1>1, <1>3, <1>7, <1>24, <1>25 DEF Good

(* A cancellation reaches the job it is meant for. *)
LEMMA CancelArrivesOK ==
    ASSUME NEW j \in Jobs, Sound(World, worker, troubles), troubles \in 0..MaxTroubles, CancelArrives(j)
    PROVE  Sound(World', worker', troubles') /\ ctl'.autos <= ctl.autos
<1> DEFINE n == World.job[j].on
           ended == IF Connected(On(World, j)) THEN "error" ELSE "disconnected"
<1>1. /\ World.job[j].cancel /\ World.job[j].pc # "queued"
      /\ World.job[j].at \notin {"cleanup", "unwind", "native"} /\ World.ctl.autos = ctl.autos
      /\ worker' = worker /\ troubles' = troubles /\ troubles \in Nat
  BY WorldIs, JobSets DEF CancelArrives, Calm
<1>2. IF World.job[j].pc = "connecting"
      THEN IF TearingDown(On(World, j)) THEN Becomes(ConnectCancelled(WithState(World, n, "error"), j))
           ELSE \/ Becomes(ConnectCancelled(Quiet(World, n), j))
                \/ Becomes(Unwinding(World, j, n))
                \/ \E orphan \in BOOLEAN : Becomes(ConnectCancelled(Broken(World, n, orphan), j))
      ELSE IF World.job[j].at = "notify" THEN Becomes(Ended(WithState(World, n, ended), j))
      ELSE Becomes(Ended(World, j))
  <2>1. \A m, orphan : Poison(m, orphan) = Broken(World, m, orphan)
    BY DEF Poison, Broken
  <2> QED
    BY <2>1, WorldIs DEF CancelArrives, WithState, Quiet, Unwinding
<1>3. World \in WorldType /\ JobOK(World, j, worker)
  BY DEF Sound, Steady
<1>4. Kinds(World, j) /\ Places(World, j)
  BY <1>3 DEF JobOK
<1>5. Started(World, j)
  BY <1>1, <1>4 DEF Kinds, Idle, Started
<1>6. NoneReady(World)
  BY <1>5, StartedIs
<1>7. CASE Opening(World, j)
  <2>1. /\ World.ctl.made \in Sessions /\ n = World.ctl.made /\ ~TearingDown(On(World, j))
        /\ World.job[j].pc = "connecting"
    BY <1>1, <1>7, OpeningIs DEF TearingDown
  <2>2. CASE Becomes(ConnectCancelled(Quiet(World, n), j))
    <3>1. PICK v : v = Quiet(World, n)
      OBVIOUS
    <3>2. Turned(World, v, World.ctl.made)
      BY <1>3, <2>1, <3>1, EndingsAre
    <3>3. Good(ConnectCancelled(v, j), worker, troubles, ctl.autos)
      BY <1>1, <1>7, <3>2, TurnedCancelledOK
    <3>4. Becomes(ConnectCancelled(v, j))
      BY <2>2, <3>1
    <3> QED
      BY <1>1, <3>3, <3>4, LandsOK
  <2>3. CASE Becomes(Unwinding(World, j, n))
    <3>1. PICK v : v = Unwinding(World, j, World.ctl.made)
      OBVIOUS
    <3>2. GoesOn(World, v, j) /\ v.job[j].at = "unwind"
      BY <1>3, <1>6, <2>1, <3>1, ShiftsAre DEF NoneReady, Newest
    <3>3. Good(v, worker, troubles, ctl.autos)
      BY <1>1, <1>7, <3>2, GoesOnOK
    <3>4. Becomes(v)
      BY <2>1, <2>3, <3>1
    <3> QED
      BY <1>1, <3>3, <3>4, LandsOK
  <2>4. ASSUME NEW orphan \in BOOLEAN, Becomes(ConnectCancelled(Broken(World, n, orphan), j))
        PROVE  Sound(World', worker', troubles') /\ ctl'.autos <= ctl.autos
    <3>1. PICK v : v = Broken(World, n, orphan)
      OBVIOUS
    <3>2. Turned(World, v, World.ctl.made)
      BY <1>3, <2>1, <3>1, EndingsAre
    <3>3. Good(ConnectCancelled(v, j), worker, troubles, ctl.autos)
      BY <1>1, <1>7, <3>2, TurnedCancelledOK
    <3>4. Becomes(ConnectCancelled(v, j))
      BY <2>4, <3>1
    <3> QED
      BY <1>1, <3>3, <3>4, LandsOK
  <2> QED
    BY <1>2, <2>1, <2>2, <2>3, <2>4
<1>8. CASE ~Opening(World, j) /\ World.job[j].pc = "cancelling"
  <2>1. World.job[j].at # "notify" /\ j \in Commands
    BY <1>4, <1>8 DEF Places, Leaving
  <2>2. worker # "running"
    BY <1>1, <1>3, <1>8, <2>1 DEF JobOK, Uncancelled
  <2>3. Good(Ended(World, j), worker, troubles, ctl.autos)
    BY <1>1, <1>8, <2>2, EndedCancellingOK
  <2>4. Becomes(Ended(World, j))
    BY <1>2, <1>8, <2>1
  <2> QED
    BY <1>1, <2>3, <2>4, LandsOK
<1>9. CASE ~Opening(World, j) /\ World.job[j].pc # "cancelling"
  <2>1. World.job[j].pc # "connecting" /\ World.job[j].at # "opening"
    BY <1>4, <1>9 DEF Opening, Places
  <2>2. Moves(World, j, worker, troubles)
    BY <1>1, <1>5, <1>9, <2>1, StaysOK
  <2>3. CASE World.job[j].at = "notify"
    <3>1. n \in Sessions
      <4>1. n # Nobody /\ n \in Sessions \cup {Nobody}
        BY <1>3, <1>4, <2>3 DEF Places, Leaving, WorldType, JobType
      <4> QED
        BY <4>1
    <3>2. ended \in States \ {"ready"}
      BY DEF States
    <3>3. PICK v : v = WithState(World, n, ended)
      OBVIOUS
    <3>4. Moves(v, j, worker, troubles) /\ NoneReady(v)
      BY <1>1, <1>6, <2>2, <3>1, <3>2, <3>3, StateOK DEF NoneReady
    <3>5. v.ctl = World.ctl
      BY <3>3 DEF WithState
    <3>6. Good(Ended(v, j), worker, troubles, ctl.autos)
      BY <1>1, <3>4, <3>5, EndedOK
    <3>7. Becomes(Ended(v, j))
      BY <1>2, <2>1, <2>3, <3>3
    <3> QED
      BY <1>1, <3>6, <3>7, LandsOK
  <2>4. CASE World.job[j].at # "notify"
    <3>1. Good(Ended(World, j), worker, troubles, ctl.autos)
      BY <1>1, <1>6, <2>2, EndedOK
    <3>2. Becomes(Ended(World, j))
      BY <1>2, <2>1, <2>4
    <3> QED
      BY <1>1, <3>1, <3>2, LandsOK
  <2> QED
    BY <2>3, <2>4
<1> QED
  BY <1>7, <1>8, <1>9

(* A command starts: the newest intent is its own, and the keeper is let go. *)
Stamped(w, j) == [w EXCEPT !.ctl.intent = @ + 1, !.ctl.last = w.job[j].kind, !.ctl.autos = 0,
                           !.job[j].intent = w.ctl.intent + 1]
Intended(w, j) == IF w.job[j].kind = "disconnect" THEN Unwanted(Stamped(w, j)) ELSE Stamped(w, j)
Begun(w, j) == [Intended(w, j) EXCEPT !.ctl.keeper = Nobody]
IsBegun(w, u, j) ==
    /\ u \in WorldType /\ u.sess = w.sess
    /\ \A k \in Jobs \ {j} : u.job[k] = w.job[k]
    /\ u.job[j].pc = w.job[j].pc /\ u.job[j].at = w.job[j].at /\ u.job[j].kind = w.job[j].kind
    /\ u.job[j].on = w.job[j].on /\ u.job[j].joins = w.job[j].joins
    /\ u.job[j].cancel = w.job[j].cancel /\ u.job[j].intent = w.ctl.intent + 1
    /\ u.ctl.session = w.ctl.session /\ u.ctl.made = w.ctl.made /\ u.ctl.closed = w.ctl.closed
    /\ u.ctl.intent = w.ctl.intent + 1 /\ u.ctl.last = w.job[j].kind /\ u.ctl.autos = 0
    /\ u.ctl.keeper = Nobody

(* What a command sets when it starts. *)
LEMMA BegunIs ==
    ASSUME NEW w \in WorldType, NEW j \in Jobs, w.job[j].kind \in {"connect", "disconnect"},
           NEW u, u = Begun(w, j)
    PROVE  IsBegun(w, u, j)
<1>1. /\ w.ctl \in CtlType /\ w.job \in [Jobs -> JobType] /\ w.job[j] \in JobType
      /\ w.ctl.intent \in Nat
  BY DEF WorldType, CtlType
<1>2. PICK y : y = [w.job[j] EXCEPT !.intent = w.ctl.intent + 1]
  OBVIOUS
<1>3. /\ y \in JobType /\ y.intent = w.ctl.intent + 1
      /\ y.pc = w.job[j].pc /\ y.at = w.job[j].at /\ y.kind = w.job[j].kind
  BY <1>1, <1>2 DEF JobType
<1>4. y.on = w.job[j].on /\ y.joins = w.job[j].joins /\ y.cancel = w.job[j].cancel
  BY <1>1, <1>2 DEF JobType
<1>5. PICK d \in BOOLEAN : d = IF w.job[j].kind = "disconnect" THEN FALSE ELSE w.ctl.desired
  BY <1>1 DEF CtlType
<1>6. PICK c : c = [w.ctl EXCEPT !.intent = @ + 1, !.last = w.job[j].kind, !.autos = 0, !.desired = d,
                                 !.keeper = Nobody]
  OBVIOUS
<1>7. /\ c \in CtlType
      /\ c.session = w.ctl.session /\ c.made = w.ctl.made /\ c.closed = w.ctl.closed
  <2>1. c \in CtlType
    <3>1. PICK kind \in {"connect", "disconnect"} : kind = w.job[j].kind
      OBVIOUS
    <3>2. PICK i \in Nat : i = w.ctl.intent + 1
      BY <1>1
    <3>3. c = [w.ctl EXCEPT !.intent = i, !.last = kind, !.autos = 0, !.desired = d, !.keeper = Nobody]
      BY <1>1, <1>6, <3>1, <3>2 DEF CtlType
    <3> QED
      BY <1>1, <1>5, <3>1, <3>2, <3>3 DEF CtlType
  <2>2. c.session = w.ctl.session /\ c.made = w.ctl.made /\ c.closed = w.ctl.closed
    BY <1>1, <1>6 DEF CtlType
  <2> QED
    BY <2>1, <2>2
<1>8. c.intent = w.ctl.intent + 1 /\ c.last = w.job[j].kind /\ c.autos = 0 /\ c.keeper = Nobody
  BY <1>1, <1>6 DEF CtlType
<1>9. u = [w EXCEPT !.ctl = c, !.job[j] = y]
  <2>1. CASE w.job[j].kind = "disconnect"
    <3>1. d = FALSE
      BY <1>5, <2>1
    <3> QED
      BY <1>1, <1>2, <1>6, <2>1, <3>1 DEF Begun, Intended, Stamped, Unwanted, WorldType, CtlType
  <2>2. CASE w.job[j].kind # "disconnect"
    <3>1. d = w.ctl.desired
      BY <1>5, <2>2
    <3> QED
      BY <1>1, <1>2, <1>6, <2>2, <3>1 DEF Begun, Intended, Stamped, WorldType, CtlType
  <2> QED
    BY <2>1, <2>2
<1>10. u.sess = w.sess /\ u.job = [w.job EXCEPT ![j] = y] /\ u.ctl = c /\ u \in WorldType
  <2>1. u.sess = w.sess /\ u.job = [w.job EXCEPT ![j] = y] /\ u.ctl = c
    BY <1>1, <1>9 DEF WorldType
  <2>2. u = [ctl |-> u.ctl, job |-> u.job, sess |-> u.sess]
    BY <1>9 DEF WorldType
  <2>3. u.job \in [Jobs -> JobType]
    BY <1>1, <1>3, <2>1
  <2> QED
    BY <1>7, <2>1, <2>2, <2>3 DEF WorldType
<1> QED
  BY <1>1, <1>3, <1>4, <1>7, <1>8, <1>10 DEF IsBegun

(* Nothing older is current beside it. *)
BegunBeside(w, u, j, r, t) ==
    /\ \A k \in Jobs \ {j} : JobOK(u, k, r) /\ ~IntentIsCurrent(u, k) /\ w.job[k] = u.job[k]
    /\ \A k \in Jobs : u.job[k].pc = w.job[k].pc /\ u.job[k].at = w.job[k].at
                       /\ u.job[k].kind = w.job[k].kind /\ u.job[k].joins = w.job[k].joins
                       /\ u.job[k].on = w.job[k].on
    /\ u.job[j].on = Nobody /\ u.job[j].kind \in {"connect", "disconnect"}
    /\ u.job[j].at \notin {"opening", "setup", "cleanup", "unwind", "teardown", "join", "notify", "native"}
    /\ r \in {"running", "closing"} => ~u.job[j].cancel
    /\ Kinds(u, j)
    /\ OnlyNewest(u) /\ Opened1(u, Jobs \ {j}) /\ Joins(u, Jobs)
    /\ OneConnect(u) /\ Pressed(u, r) /\ Ordered(u) /\ OneSupervisor(u) /\ Used(u, t)
    /\ Funded(u, Jobs, t)
    /\ \A i \in Commands \ {j} : w.job[i].pc = "queued" => j < i
    /\ w.job[j].kind = "connect" => \A k \in Commands \ {j} : ~(Started(w, k) /\ w.job[k].kind = "disconnect")
    /\ \A c \in Commands \ {j} : w.job[c].kind = "connect" /\ Live(w, c) => w.job[c].pc # "queued"

(* A newer intent makes every older one stale: the world is steady beside the command
   that has it. *)
LEMMA BegunOK ==
    ASSUME NEW w, NEW r, NEW t \in Nat, Sound(w, r, t), NEW j \in Commands, w.job[j].pc = "queued",
           \A i \in Commands : w.job[i].pc = "queued" => j <= i, NEW u, IsBegun(w, u, j)
    PROVE  BegunBeside(w, u, j, r, t)
<1>1. /\ w \in WorldType /\ \A k \in Jobs : JobOK(w, k, r)
      /\ OnlyNewest(w) /\ Opened1(w, Jobs) /\ Joins(w, Jobs)
      /\ OneConnect(w) /\ Pressed(w, r) /\ Ordered(w) /\ OneSupervisor(w) /\ Used(w, t)
      /\ Funded(w, Jobs, t)
  BY DEF Sound, Steady
<1>2. j \in Jobs /\ JobOK(w, j, r) /\ w.ctl.intent \in Nat /\ Commands \subseteq Nat
      /\ Commands \subseteq Jobs /\ Supervisors \subseteq Jobs
  BY <1>1, JobSets DEF WorldType, CtlType
<1>3. /\ u \in WorldType /\ u.sess = w.sess
      /\ \A k \in Jobs \ {j} : u.job[k] = w.job[k]
      /\ u.job[j].pc = w.job[j].pc /\ u.job[j].at = w.job[j].at /\ u.job[j].kind = w.job[j].kind
      /\ u.job[j].on = w.job[j].on /\ u.job[j].joins = w.job[j].joins
      /\ u.job[j].cancel = w.job[j].cancel /\ u.job[j].intent = w.ctl.intent + 1
      /\ u.ctl.session = w.ctl.session /\ u.ctl.made = w.ctl.made /\ u.ctl.closed = w.ctl.closed
      /\ u.ctl.intent = w.ctl.intent + 1 /\ u.ctl.last = w.job[j].kind /\ u.ctl.autos = 0
      /\ u.ctl.keeper = Nobody
  BY DEF IsBegun
<1>4. \A k \in Jobs \ {j} : ~IntentIsCurrent(u, k)
  <2> TAKE k \in Jobs \ {j}
  <2>1. w.job[k].intent <= w.ctl.intent /\ w.job[k].intent \in Nat
    BY <1>1 DEF JobOK, Kinds, WorldType, JobType
  <2> QED
    BY <1>2, <1>3, <2>1 DEF IntentIsCurrent
<1>5. \A k \in Jobs \ {j} : JobOK(u, k, r)
  <2> TAKE k \in Jobs \ {j}
  <2>1. JobOK(w, k, r) /\ u.job[k] = w.job[k] /\ ~IntentIsCurrent(u, k) /\ w.job[k].intent \in Nat
    BY <1>1, <1>3, <1>4 DEF WorldType, JobType
  <2>2. Kinds(u, k)
    BY <1>2, <1>3, <2>1 DEF JobOK, Kinds, IntentIsCurrent
  <2>3. Places(u, k)
    BY <1>3, <2>1 DEF JobOK, Places, Opening, Leaving
  <2>4. Opens(u, k)
    BY <1>3, <2>1 DEF JobOK, Opens, Opening, Newest
  <2>5. Recovers(u, k) /\ Uncancelled(u, k, r)
    BY <1>3, <2>1 DEF JobOK, Recovers, Uncancelled, Opening, Newest, Live
  <2> QED
    BY <2>2, <2>3, <2>4, <2>5 DEF JobOK
<1>6. \A k \in Jobs : u.job[k].pc = w.job[k].pc /\ u.job[k].at = w.job[k].at
                      /\ u.job[k].kind = w.job[k].kind /\ u.job[k].joins = w.job[k].joins
                      /\ u.job[k].on = w.job[k].on
  BY <1>3
<1>7. /\ u.job[j].on = Nobody /\ ~Opening(w, j) /\ ~Leaving(w, j)
      /\ u.job[j].at \notin {"opening", "setup", "cleanup", "unwind", "teardown", "join", "notify", "native"}
  BY <1>2, <1>3 DEF JobOK, Places, Opening, Leaving
<1>8. u.job[j].kind \in {"connect", "disconnect"}
  BY <1>2, <1>3, JobSets DEF JobOK, Kinds, Idle
<1>9. r \in {"running", "closing"} => ~u.job[j].cancel
  BY <1>2, <1>3, <1>7 DEF JobOK, Uncancelled
<1>10. Kinds(u, j)
  BY <1>2, <1>3, <1>8, JobSets DEF JobOK, Kinds, Idle
<1>11. OnlyNewest(u) /\ Opened1(u, Jobs \ {j})
  BY <1>1, <1>3, <1>7 DEF OnlyNewest, Opened1
<1>12. Joins(u, Jobs)
  BY <1>1, <1>3, <1>6 DEF Joins, Leaving, Opening
<1>13. OneConnect(u) /\ Ordered(u)
  BY <1>1, <1>2, <1>6 DEF OneConnect, Ordered, Live
<1>14. Pressed(u, r)
  BY <1>1, <1>2, <1>6, PressedOK
<1>15. OneSupervisor(u) /\ Used(u, t)
  BY <1>1, <1>2, <1>6 DEF OneSupervisor, Used, Live
<1>16. Funded(u, Jobs, t)
  <2>1. \A more : Affords(w, t, more) => Affords(u, t, more)
    BY <1>2, <1>3, <1>6 DEF Affords, Unopened
  <2>2. \A s \in Supervisors : Credit(u, s) => Credit(w, s)
    BY <1>2, <1>3, <1>6 DEF Credit, Newest
  <2> QED
    BY <1>1, <2>1, <2>2 DEF Funded
<1>17. \A i \in Commands \ {j} : w.job[i].pc = "queued" => j < i
  BY <1>2
<1>18. ASSUME w.job[j].kind = "connect", NEW k \in Commands \ {j}
       PROVE  ~(Started(w, k) /\ w.job[k].kind = "disconnect")
  <2>1. Live(w, j)
    BY DEF Live
  <2>2. k < j => w.job[k].pc = "done"
    BY <1>1, <1>18, <2>1 DEF OneConnect
  <2>3. j < k => w.job[k].pc \in {"none", "queued"}
    BY <1>1 DEF Ordered
  <2>4. k \in Nat /\ j \in Nat
    BY <1>2
  <2> QED
    BY <2>2, <2>3, <2>4 DEF Started
<1>19. ASSUME NEW c \in Commands \ {j}, w.job[c].kind = "connect", Live(w, c), w.job[c].pc = "queued"
       PROVE  FALSE
  <2>1. j < c
    BY <1>17, <1>19
  <2>2. w.job[j].pc = "done"
    BY <1>1, <1>19, <2>1 DEF OneConnect
  <2> QED
    BY <2>2
<1> QED
  BY <1>4, <1>5, <1>3, <1>6, <1>7, <1>8, <1>9, <1>10, <1>11, <1>12, <1>13, <1>14, <1>15, <1>16,
     <1>17,
     <1>18, <1>19 DEF BegunBeside

(* No recovery is kept: the command goes on. *)
LEMMA BegunMoves ==
    ASSUME NEW w, NEW r, NEW t \in Nat, Sound(w, r, t), NEW j \in Commands, w.job[j].pc = "queued",
           \A i \in Commands : w.job[i].pc = "queued" => j <= i, NEW u, IsBegun(w, u, j),
           w.ctl.keeper = Nobody
    PROVE  Moves(u, j, r, t)
<1>1. /\ \A k \in Jobs \ {j} : JobOK(u, k, r) /\ ~IntentIsCurrent(u, k) /\ w.job[k] = u.job[k]
      /\ \A k \in Jobs : u.job[k].pc = w.job[k].pc /\ u.job[k].at = w.job[k].at
                         /\ u.job[k].kind = w.job[k].kind /\ u.job[k].joins = w.job[k].joins
                         /\ u.job[k].on = w.job[k].on
      /\ Kinds(u, j)
      /\ OnlyNewest(u) /\ Opened1(u, Jobs \ {j}) /\ Joins(u, Jobs)
      /\ OneConnect(u) /\ Pressed(u, r) /\ Ordered(u) /\ OneSupervisor(u) /\ Used(u, t)
      /\ Funded(u, Jobs, t)
      /\ \A i \in Commands \ {j} : w.job[i].pc = "queued" => j < i
      /\ w.job[j].kind = "connect" =>
            \A k \in Commands \ {j} : ~(Started(w, k) /\ w.job[k].kind = "disconnect")
  <2>1. BegunBeside(w, u, j, r, t)
    BY BegunOK
  <2> QED
    BY <2>1 DEF BegunBeside
<1>2. u \in WorldType /\ u.ctl.keeper = Nobody
  BY DEF IsBegun
<1>3. j \in Jobs /\ Commands \subseteq Jobs /\ Supervisors \subseteq Jobs /\ j \notin Supervisors
      /\ Nobody \notin Supervisors
  BY JobSets
<1>4. Orphaned(w) /\ Awaited(w, Jobs, r)
  BY DEF Sound, Steady
<1>5. \A k \in Jobs : (Live(u, k) <=> Live(w, k)) /\ (Started(u, k) <=> Started(w, k))
  BY <1>1 DEF Live, Started
<1>6. Keeper(u) /\ Kept(u)
  BY <1>2, <1>3 DEF Keeper, Kept
<1>7. Orphaned(u)
  <2>1. \A s \in Supervisors : w.ctl.keeper # s /\ ~IntentIsCurrent(u, s)
    BY <1>1, <1>3
  <2> QED
    BY <1>1, <1>3, <1>4, <1>5, <2>1 DEF Orphaned
<1>8. Awaited(u, Jobs \ {j}, r)
  <2>1. \A s \in Supervisors : w.ctl.keeper # s
    BY <1>3
  <2> QED
    BY <1>1, <1>3, <1>4, <1>5, <2>1 DEF Awaited
<1>9. Overruled(u, Jobs \ {j}) /\ Joins(u, Jobs \ {j}) /\ Funded(u, Jobs \ {j}, t)
  BY <1>1 DEF Overruled, Joins, Funded
<1>10. Steady(u, Jobs \ {j}, r, t)
  BY <1>1, <1>2, <1>6, <1>7, <1>8, <1>9 DEF Steady
<1>11. Live(u, j)
  BY <1>1, <1>3 DEF Live
<1>12. u.job[j].kind = "connect" => NoRecovery(u)
  <2>1. \A s \in Supervisors : w.ctl.keeper # s
    BY <1>3
  <2>2. Live(w, j) /\ w.job[j].pc # "cancelling" /\ u.job[j].kind = w.job[j].kind
    BY <1>1, <1>3, <1>5, <1>11
  <2> QED
    BY <1>3, <1>4, <1>5, <2>1, <2>2 DEF NoRecovery, Orphaned
<1>13. Orderly(u, j)
  <2>1. \A c \in Commands \ {j} : u.job[c].pc = "queued" => j < c
    BY <1>1, <1>3
  <2>2. \A k \in Jobs \ {j} : Started(u, k) /\ u.job[k].kind = "disconnect" => u.job[j].kind # "connect"
    <3> SUFFICES ASSUME NEW k \in Jobs \ {j}, Started(u, k), u.job[k].kind = "disconnect"
                 PROVE  u.job[j].kind # "connect"
      OBVIOUS
    <3>1. Started(w, k) /\ w.job[k].kind = "disconnect" /\ JobOK(u, k, r)
      BY <1>1, <1>5
    <3>2. k \in Commands
      BY <3>1, JobSets DEF JobOK, Kinds
    <3> QED
      BY <1>1, <1>3, <3>1, <3>2
  <2>3. u.job[j].kind \in {"connect", "disconnect"}
    <3>1. BegunBeside(w, u, j, r, t)
      BY BegunOK
    <3> QED
      BY <3>1 DEF BegunBeside
  <2> QED
    BY <1>1, <2>1, <2>2, <2>3 DEF Orderly
<1> QED
  BY <1>3, <1>10, <1>11, <1>12, <1>13, <1>1 DEF Moves

(* A recovery is kept: it is told to stop, and the command awaits its end. *)
Awaiting(u, j, s) == [At(Cancelled(u, s), j, "cancelling", "none") EXCEPT !.job[j].joins = s]
IsAwaiting(u, x, j, s) ==
    /\ x \in WorldType /\ x.ctl = u.ctl /\ x.sess = u.sess
    /\ \A k \in Jobs \ {j, s} : x.job[k] = u.job[k]
    /\ x.job[s].cancel = TRUE
    /\ x.job[s].pc = u.job[s].pc /\ x.job[s].at = u.job[s].at /\ x.job[s].kind = u.job[s].kind
    /\ x.job[s].on = u.job[s].on /\ x.job[s].intent = u.job[s].intent
    /\ x.job[s].attempt = u.job[s].attempt /\ x.job[s].joins = u.job[s].joins
    /\ x.job[j].pc = "cancelling" /\ x.job[j].at = "none" /\ x.job[j].joins = s
    /\ x.job[j].kind = u.job[j].kind /\ x.job[j].on = u.job[j].on
    /\ x.job[j].intent = u.job[j].intent /\ x.job[j].cancel = u.job[j].cancel

(* What a command sets before it awaits the recovery that it cancels. *)
LEMMA AwaitingIs ==
    ASSUME NEW u \in WorldType, NEW j \in Commands, NEW s \in Supervisors, Live(u, s),
           NEW x, x = Awaiting(u, j, s)
    PROVE  IsAwaiting(u, x, j, s)
<1>1. j \in Jobs /\ s \in Jobs /\ j # s
  BY JobSets
<1>2. PICK v : v = Cancelled(u, s)
  OBVIOUS
<1>3. /\ v \in WorldType /\ v.ctl = u.ctl /\ v.sess = u.sess
      /\ v.job[s].cancel = TRUE
      /\ \A i \in Jobs \ {s} : v.job[i] = u.job[i]
      /\ v.job[s].pc = u.job[s].pc /\ v.job[s].at = u.job[s].at
      /\ v.job[s].kind = u.job[s].kind /\ v.job[s].on = u.job[s].on
      /\ v.job[s].intent = u.job[s].intent /\ v.job[s].attempt = u.job[s].attempt
      /\ v.job[s].joins = u.job[s].joins
  <2>1. IsCancelled(u, v, s)
    BY <1>1, <1>2, CancelledIs
  <2> QED
    BY <1>1, <2>1 DEF IsCancelled
<1>4. v.job \in [Jobs -> JobType] /\ v.job[j] \in JobType
  BY <1>1, <1>3 DEF WorldType
<1>5. PICK y : y = [v.job[j] EXCEPT !.pc = "cancelling", !.at = "none", !.joins = s]
  OBVIOUS
<1>6. /\ y \in JobType /\ y.pc = "cancelling" /\ y.at = "none" /\ y.joins = s
  BY <1>1, <1>4, <1>5 DEF JobType
<1>7. /\ y.kind = v.job[j].kind /\ y.on = v.job[j].on
      /\ y.intent = v.job[j].intent /\ y.cancel = v.job[j].cancel
  BY <1>4, <1>5 DEF JobType
<1>8. x = [v EXCEPT !.job[j] = y]
  BY <1>2, <1>3, <1>4, <1>5 DEF Awaiting, At, WorldType
<1>9. x.job = [v.job EXCEPT ![j] = y] /\ x.ctl = v.ctl /\ x.sess = v.sess /\ x \in WorldType
  BY <1>3, <1>4, <1>6, <1>8 DEF WorldType
<1>10. x.job[j] = y /\ \A k \in Jobs \ {j} : x.job[k] = v.job[k]
  BY <1>1, <1>4, <1>9
<1> QED
  BY <1>1, <1>3, <1>6, <1>7, <1>9, <1>10 DEF IsAwaiting

(* A recovery is kept: the command tells it to stop, and waits for that. *)
LEMMA AwaitingOK ==
    ASSUME NEW w, NEW r, NEW t \in Nat, Sound(w, r, t), NEW j \in Commands, w.job[j].pc = "queued",
           \A i \in Commands : w.job[i].pc = "queued" => j <= i, NEW u, IsBegun(w, u, j),
           NEW s \in Supervisors, w.ctl.keeper = s, NEW x, IsAwaiting(u, x, j, s)
    PROVE  Good(x, r, t, 0)
<1>1. BegunBeside(w, u, j, r, t)
  BY BegunOK
<1>2. /\ \A k \in Jobs \ {j} : JobOK(u, k, r) /\ ~IntentIsCurrent(u, k) /\ w.job[k] = u.job[k]
      /\ \A k \in Jobs : u.job[k].pc = w.job[k].pc /\ u.job[k].at = w.job[k].at
                         /\ u.job[k].kind = w.job[k].kind /\ u.job[k].joins = w.job[k].joins
                         /\ u.job[k].on = w.job[k].on
      /\ u.job[j].on = Nobody /\ u.job[j].kind \in {"connect", "disconnect"}
      /\ u.job[j].at \notin {"opening", "setup", "cleanup", "unwind", "teardown", "join", "notify", "native"}
      /\ r \in {"running", "closing"} => ~u.job[j].cancel
      /\ Kinds(u, j)
      /\ OnlyNewest(u) /\ Opened1(u, Jobs \ {j}) /\ Joins(u, Jobs)
      /\ OneConnect(u) /\ Pressed(u, r) /\ Ordered(u) /\ OneSupervisor(u) /\ Used(u, t)
      /\ Funded(u, Jobs, t)
      /\ \A i \in Commands \ {j} : w.job[i].pc = "queued" => j < i
      /\ w.job[j].kind = "connect" =>
            \A k \in Commands \ {j} : ~(Started(w, k) /\ w.job[k].kind = "disconnect")
      /\ \A c \in Commands \ {j} : w.job[c].kind = "connect" /\ Live(w, c) => w.job[c].pc # "queued"
  BY <1>1 DEF BegunBeside
<1>3. /\ x \in WorldType /\ x.ctl = u.ctl /\ x.sess = u.sess
      /\ \A k \in Jobs \ {j, s} : x.job[k] = u.job[k]
      /\ x.job[s].cancel = TRUE
      /\ x.job[s].pc = u.job[s].pc /\ x.job[s].at = u.job[s].at /\ x.job[s].kind = u.job[s].kind
      /\ x.job[s].on = u.job[s].on /\ x.job[s].intent = u.job[s].intent
      /\ x.job[s].attempt = u.job[s].attempt /\ x.job[s].joins = u.job[s].joins
      /\ x.job[j].pc = "cancelling" /\ x.job[j].at = "none" /\ x.job[j].joins = s
      /\ x.job[j].kind = u.job[j].kind /\ x.job[j].on = u.job[j].on
      /\ x.job[j].intent = u.job[j].intent /\ x.job[j].cancel = u.job[j].cancel
  BY DEF IsAwaiting
<1>4. u \in WorldType /\ u.ctl.keeper = Nobody /\ u.ctl.autos = 0 /\ u.sess = w.sess
      /\ u.ctl.last = w.job[j].kind /\ u.ctl.made \in Nat
  BY JobSets DEF IsBegun, WorldType, CtlType
<1>5. j \in Jobs /\ Commands \subseteq Jobs /\ Supervisors \subseteq Jobs /\ j \notin Supervisors
      /\ Nobody \notin Supervisors /\ Commands \subseteq Nat /\ Nobody \in Nat /\ s \in Jobs
      /\ Commands \cap Supervisors = {} /\ s # j
  BY JobSets
<1>6. Live(w, s) /\ Kept(w) /\ Ready(w) /\ Keeper(w)
  BY <1>5 DEF Sound, Steady, Keeper
<1>7. NoneReady(x)
  <2>1. ~NoRecovery(w)
    BY <1>6 DEF NoRecovery
  <2> QED
    BY <1>3, <1>4, <1>6, <2>1 DEF Ready, NoneReady
<1>8. /\ \A k \in Jobs : /\ x.job[k].kind = u.job[k].kind /\ x.job[k].on = u.job[k].on
                         /\ x.job[k].intent = u.job[k].intent
      /\ \A k \in Jobs \ {j} : x.job[k].pc = u.job[k].pc /\ x.job[k].at = u.job[k].at
                               /\ x.job[k].joins = u.job[k].joins /\ x.job[k].attempt = u.job[k].attempt
  BY <1>3
<1>9. /\ \A k \in Jobs : Live(x, k) <=> Live(w, k)
      /\ \A k \in Jobs \ {j} : Started(x, k) <=> Started(w, k)
      /\ \A k \in Jobs \ {j} : ~IntentIsCurrent(x, k)
      /\ ~Opening(x, j) /\ ~Leaving(x, j)
      /\ \A k \in Jobs \ {j} : (Opening(x, k) <=> Opening(u, k)) /\ (Leaving(x, k) <=> Leaving(u, k))
  <2>1. Live(w, j) /\ Live(x, j)
    BY <1>3 DEF Live
  <2>2. \A k \in Jobs \ {j} : x.job[k].pc = w.job[k].pc
    BY <1>2, <1>8
  <2>3. ~Opening(x, j) /\ ~Leaving(x, j)
    BY <1>3 DEF Opening, Leaving
  <2>4. \A k \in Jobs \ {j} : ~IntentIsCurrent(x, k)
    BY <1>2, <1>3, <1>8 DEF IntentIsCurrent
  <2>5. /\ \A k \in Jobs : Live(x, k) <=> Live(w, k)
        /\ \A k \in Jobs \ {j} : Started(x, k) <=> Started(w, k)
    BY <2>1, <2>2 DEF Live, Started
  <2>6. \A k \in Jobs \ {j} : (Opening(x, k) <=> Opening(u, k)) /\ (Leaving(x, k) <=> Leaving(u, k))
    BY <1>8 DEF Opening, Leaving
  <2> QED
    BY <2>3, <2>4, <2>5, <2>6
<1>10. ASSUME NEW k \in Jobs \ {j} PROVE JobOK(x, k, r)
  <2>1. JobOK(u, k, r) /\ ~IntentIsCurrent(x, k) /\ ~IntentIsCurrent(u, k)
        /\ (Opening(x, k) <=> Opening(u, k)) /\ (Leaving(x, k) <=> Leaving(u, k))
    BY <1>2, <1>9
  <2>2. CASE k # s
    <3>1. x.job[k] = u.job[k]
      BY <1>3, <2>2
    <3>2. Kinds(x, k) /\ Places(x, k)
      BY <1>3, <2>1, <3>1 DEF JobOK, Kinds, Places
    <3>3. Opens(x, k) /\ Recovers(x, k) /\ Uncancelled(x, k, r)
      BY <1>3, <2>1, <3>1 DEF JobOK, Opens, Recovers, Uncancelled, Newest, Live
    <3> QED
      BY <3>2, <3>3 DEF JobOK
  <2>3. CASE k = s
    <3>1. x.job[s].pc \notin {"none", "done"} /\ u.job[s].kind # "none"
      <4>1. Live(x, s) /\ Live(u, s) /\ Kinds(u, s)
        BY <1>2, <1>5, <1>6, <1>9, <2>1, <2>3 DEF Live, JobOK
      <4> QED
        BY <4>1 DEF Live, Kinds, Idle
    <3>2. Kinds(x, s)
      BY <1>3, <1>5, <2>1, <2>3, <3>1 DEF JobOK, Kinds, IntentIsCurrent
    <3>3. Places(x, s)
      BY <1>3, <1>5, <2>1, <2>3 DEF JobOK, Places
    <3>4. Opens(x, s)
      BY <1>3, <1>5, <2>1, <2>3 DEF JobOK, Opens, Newest
    <3>5. Recovers(x, s)
      BY <1>3, <1>5, <2>1, <2>3 DEF JobOK, Recovers, Newest, Live
    <3>6. Uncancelled(x, s, r)
      BY <1>5 DEF Uncancelled
    <3> QED
      BY <2>3, <3>2, <3>3, <3>4, <3>5, <3>6 DEF JobOK
  <2> QED
    BY <2>2, <2>3
<1>11. JobOK(x, j, r)
  <2>1. Kinds(x, j)
    BY <1>2, <1>3, <1>4, <1>5 DEF Kinds
  <2>2. Places(x, j)
    BY <1>2, <1>3, <1>4, <1>5, <1>9 DEF Places, Nobody
  <2>3. Opens(x, j) /\ Recovers(x, j) /\ Uncancelled(x, j, r)
    BY <1>2, <1>3, <1>5, <1>9 DEF Opens, Recovers, Uncancelled
  <2> QED
    BY <2>1, <2>2, <2>3 DEF JobOK
<1>12. OnlyNewest(x) /\ Opened1(x, Jobs)
  <2>1. OnlyNewest(x)
    BY <1>2, <1>3 DEF OnlyNewest
  <2>2. \A k \in Jobs \ {j} : x.job[k].at = u.job[k].at
    BY <1>8
  <2> QED
    BY <1>2, <1>3, <2>1, <2>2 DEF Opened1
<1>13. Joins(x, Jobs)
  <2> SUFFICES ASSUME NEW i \in Jobs \ {j}, NEW k \in Jobs \ {j},
                      Leaving(x, i), x.job[i].on = x.ctl.made, Opening(x, k)
               PROVE  x.job[i].joins = k /\ x.job[i].at = "join"
    BY <1>9 DEF Joins
  <2>1. Leaving(u, i) /\ u.job[i].on = u.ctl.made /\ Opening(u, k)
    BY <1>3, <1>8, <1>9
  <2> QED
    BY <1>2, <1>8, <2>1 DEF Joins
<1>14. OneConnect(x)
  <2> SUFFICES ASSUME NEW c \in Commands, x.job[c].kind = "connect", NEW i \in Commands, i < c
               PROVE  x.job[i].kind # "none" /\ (Live(x, c) => x.job[i].pc = "done")
    BY DEF OneConnect
  <2>1. u.job[c].kind = "connect" /\ x.job[i].kind = u.job[i].kind /\ (Live(x, c) <=> Live(u, c))
    BY <1>2, <1>5, <1>8, <1>9 DEF Live
  <2>2. u.job[i].kind # "none" /\ (Live(u, c) => u.job[i].pc = "done")
    BY <1>2, <2>1 DEF OneConnect
  <2>3. u.job[j].pc # "done"
    BY <1>2, <1>5
  <2>4. i # j => x.job[i].pc = u.job[i].pc
    BY <1>5, <1>8
  <2> QED
    BY <2>1, <2>2, <2>3, <2>4
<1>15. Pressed(x, r) /\ Used(x, t)
  <2>1. \A i \in Commands : x.job[i].kind = u.job[i].kind
    BY <1>5, <1>8
  <2>2. \A i \in Supervisors : x.job[i].kind = u.job[i].kind
    BY <1>5, <1>8
  <2>3. Pressed(u, r) /\ Used(u, t)
    BY <1>2
  <2> QED
    BY <2>1, <2>2, <2>3, PressedOK DEF Used
<1>16. Ordered(x)
  <2> SUFFICES ASSUME NEW c \in Commands, NEW i \in Commands, x.job[c].pc = "queued", c < i
               PROVE  x.job[i].pc \in {"none", "queued"}
    BY DEF Ordered
  <2>1. c # j /\ u.job[c].pc = "queued" /\ j < c
    BY <1>2, <1>3, <1>5, <1>8
  <2>2. i # j
    BY <1>5, <2>1
  <2> QED
    BY <1>2, <1>5, <1>8, <2>1, <2>2 DEF Ordered
<1>17. Overruled(x, Jobs)
  <2> SUFFICES ASSUME NEW a \in Jobs, NEW k \in Jobs, Started(x, a), x.job[a].kind = "disconnect",
                      Started(x, k), x.job[k].kind # "disconnect"
               PROVE  ~IntentIsCurrent(x, k)
    BY DEF Overruled
  <2>1. CASE k # j
    BY <1>9, <2>1
  <2>2. CASE k = j
    <3>1. w.job[j].kind = "connect" /\ a # j
      BY <1>2, <1>5, <1>8, <2>2
    <3>2. Started(w, a) /\ w.job[a].kind = "disconnect" /\ JobOK(u, a, r)
          /\ u.job[a].kind = "disconnect"
      BY <1>2, <1>8, <1>9, <3>1
    <3>3. a \in Commands
      BY <3>2, JobSets DEF JobOK, Kinds
    <3> QED
      BY <1>2, <3>1, <3>2, <3>3
  <2> QED
    BY <2>1, <2>2
<1>18. OneSupervisor(x)
  <2>1. \A i \in Supervisors : Live(x, i) <=> Live(u, i)
    BY <1>2, <1>5, <1>9 DEF Live
  <2> QED
    BY <1>2, <2>1 DEF OneSupervisor
<1>19. Keeper(x) /\ Kept(x)
  BY <1>3, <1>4, <1>5 DEF Keeper, Kept
<1>20. \A i \in Supervisors : Live(x, i) => i = s
  BY <1>5, <1>6, <1>9, <1>18 DEF OneSupervisor
<1>21. Orphaned(x)
  <2> SUFFICES ASSUME NEW c \in Commands, Live(x, c), x.job[c].kind = "connect"
               PROVE  x.job[c].pc = "cancelling" /\ x.job[c].joins = s
    BY <1>5, <1>9, <1>20 DEF Orphaned
  <2>1. CASE c = j
    BY <1>3, <2>1
  <2>2. CASE c # j
    <3>1. Live(w, c) /\ w.job[c].kind = "connect"
      BY <1>2, <1>5, <1>8, <1>9
    <3>2. w.job[c].pc = "queued"
      BY <1>6, <3>1 DEF Kept
    <3> QED
      BY <1>2, <2>2, <3>1, <3>2
  <2> QED
    BY <2>1, <2>2
<1>22. Awaited(x, Jobs, r)
  BY <1>3, <1>5, <1>20 DEF Awaited
<1>23. Funded(x, Jobs, t)
  <2>1. \A c \in Commands : Unopened(x, c) => Unopened(u, c)
    <3> TAKE c \in Commands
    <3>1. CASE c = j
      BY <1>2, <1>3, <1>5, <3>1 DEF Unopened
    <3>2. CASE c # j
      BY <1>5, <1>8, <3>2 DEF Unopened
    <3> QED
      BY <3>1, <3>2
  <2>2. \A more : Affords(u, t, more) => Affords(x, t, more)
    BY <1>3, <2>1 DEF Affords
  <2>3. \A i \in Supervisors : Credit(x, i) => Credit(u, i)
    BY <1>3, <1>5, <1>8 DEF Credit, Newest
  <2> QED
    BY <1>2, <2>2, <2>3 DEF Funded
<1>24. Steady(x, Jobs, r, t)
  BY <1>3, <1>10, <1>11, <1>12, <1>13, <1>14, <1>15, <1>16, <1>17, <1>18, <1>19, <1>21, <1>22, <1>23
     DEF Steady
<1> QED
  BY <1>3, <1>4, <1>7, <1>24 DEF Good

(* What the command's intent sets, and what it does not touch. *)
LEMMA IntendedIs ==
    ASSUME NEW w \in WorldType, NEW j \in Jobs, NEW v, v = Intended(w, j)
    PROVE  v.ctl.keeper = w.ctl.keeper /\ \A k \in Jobs : Live(v, k) <=> Live(w, k)
<1>1. w.ctl \in CtlType /\ w.job \in [Jobs -> JobType] /\ w.job[j] \in JobType
  BY DEF WorldType
<1>2. PICK y : y = [w.job[j] EXCEPT !.intent = w.ctl.intent + 1]
  OBVIOUS
<1>3. y.pc = w.job[j].pc
  BY <1>1, <1>2 DEF JobType
<1>4. PICK d : d = IF w.job[j].kind = "disconnect" THEN FALSE ELSE w.ctl.desired
  OBVIOUS
<1>5. PICK c : c = [w.ctl EXCEPT !.intent = @ + 1, !.last = w.job[j].kind, !.autos = 0, !.desired = d]
  OBVIOUS
<1>6. c.keeper = w.ctl.keeper
  BY <1>1, <1>5 DEF CtlType
<1>7. v = [w EXCEPT !.ctl = c, !.job[j] = y]
  <2>1. CASE w.job[j].kind = "disconnect"
    <3>1. d = FALSE
      BY <1>4, <2>1
    <3> QED
      BY <1>1, <1>2, <1>5, <2>1, <3>1 DEF Intended, Stamped, Unwanted, WorldType, CtlType
  <2>2. CASE w.job[j].kind # "disconnect"
    <3>1. d = w.ctl.desired
      BY <1>4, <2>2
    <3> QED
      BY <1>1, <1>2, <1>5, <2>2, <3>1 DEF Intended, Stamped, WorldType, CtlType
  <2> QED
    BY <2>1, <2>2
<1>8. v.job = [w.job EXCEPT ![j] = y] /\ v.ctl = c
  BY <1>1, <1>7 DEF WorldType
<1>9. \A k \in Jobs : v.job[k].pc = w.job[k].pc
  BY <1>1, <1>3, <1>8
<1> QED
  BY <1>6, <1>8, <1>9 DEF Live

(* A command starts: with its intent, and the end of the recovery. *)
LEMMA StartOK ==
    ASSUME NEW j \in Commands, Sound(World, worker, troubles), troubles \in 0..MaxTroubles, Start(j)
    PROVE  Sound(World', worker', troubles') /\ ctl'.autos <= ctl.autos
<1>1. /\ World.job[j].pc = "queued" /\ \A i \in Commands : World.job[i].pc = "queued" => j <= i
      /\ worker' = worker /\ troubles' = troubles /\ troubles \in Nat
  BY WorldIs, JobSets DEF Start, Pending, Calm
<1>2. /\ World \in WorldType /\ JobOK(World, j, worker) /\ j \in Jobs /\ World.ctl.autos \in Nat
      /\ Keeper(World) /\ Ready(World)
  BY JobSets DEF Sound, Steady, WorldType, CtlType
<1>3. World.job[j].kind \in {"connect", "disconnect"}
  BY <1>1, <1>2, JobSets DEF JobOK, Kinds, Idle
<1>4. Becomes(CancelReconnect(Intended(World, j), j))
  BY WorldIs DEF Start, Intended, Stamped
<1>5. PICK u : u = Begun(World, j)
  OBVIOUS
<1>6. IsBegun(World, u, j)
  BY <1>2, <1>3, <1>5, BegunIs
<1>7. 0 <= ctl.autos /\ ctl.autos \in Nat
  BY <1>2, WorldIs
<1>8. /\ u \in WorldType /\ u.ctl.autos = 0
      /\ \A k \in Jobs : u.job[k].pc = World.job[k].pc
      /\ u.sess = World.sess /\ u.ctl.made = World.ctl.made
      /\ u.job[j].kind = World.job[j].kind /\ u.ctl.last = World.job[j].kind
  BY <1>6 DEF IsBegun
<1>9. PICK v : v = Intended(World, j)
  OBVIOUS
<1>10. /\ v.ctl.keeper = World.ctl.keeper /\ \A k \in Jobs : Live(v, k) <=> Live(World, k)
       /\ u = [v EXCEPT !.ctl.keeper = Nobody]
  BY <1>2, <1>5, <1>9, IntendedIs DEF Begun
<1>11. CASE World.ctl.keeper = Nobody
  <2>1. Becomes(AfterCancelReconnect(u, j))
    BY <1>4, <1>9, <1>10, <1>11 DEF CancelReconnect
  <2>2. Moves(u, j, worker, troubles)
    BY <1>1, <1>6, <1>11, BegunMoves
  <2>3. /\ u.job[j].kind = "connect" => Unopened(u, j)
        /\ worker \in {"running", "closing"} => ~u.job[j].cancel
    <3>1. BegunBeside(World, u, j, worker, troubles)
      BY <1>1, <1>6, BegunOK
    <3>2. u.job[j].pc = "queued"
      BY <1>1, <1>2, <1>8
    <3> QED
      BY <3>1, <3>2 DEF BegunBeside, Unopened
  <2>4. \A m \in Sessions : u.sess[m].state = "ready" => m = u.ctl.made
    BY <1>2, <1>8 DEF Ready
  <2>5. u.job[j].kind = "connect" /\ IntentIsCurrent(u, j) => u.ctl.last = "connect"
    BY <1>8
  <2>6. Good(AfterCancelReconnect(u, j), worker, troubles, u.ctl.autos)
    BY <2>2, <2>3, <2>4, <2>5, AfterCancelReconnectOK
  <2>7. Good(AfterCancelReconnect(u, j), worker, troubles, ctl.autos)
    <3>1. AfterCancelReconnect(u, j).ctl.autos \in Nat
      BY <2>6 DEF Good, Steady, WorldType, CtlType
    <3> QED
      BY <1>7, <1>8, <2>6, <3>1 DEF Good
  <2> QED
    BY <1>1, <2>1, <2>7, LandsOK
<1>12. CASE World.ctl.keeper # Nobody
  <2>1. PICK s \in Supervisors : World.ctl.keeper = s /\ Live(World, s)
    BY <1>2, <1>12 DEF Keeper
  <2>2. s \in Jobs /\ Live(v, s) /\ Live(u, s)
    BY <1>8, <1>10, <2>1, JobSets DEF Live
  <2>3. PICK x : x = Awaiting(u, j, s)
    OBVIOUS
  <2>4. IsAwaiting(u, x, j, s)
    BY <1>8, <2>2, <2>3, AwaitingIs
  <2>5. Good(x, worker, troubles, 0)
    BY <1>1, <1>6, <2>1, <2>4, AwaitingOK
  <2>6. Becomes(x)
    BY <1>4, <1>9, <1>10, <1>12, <2>1, <2>2, <2>3 DEF CancelReconnect, Awaiting
  <2>7. Good(x, worker, troubles, ctl.autos)
    <3>1. x.ctl.autos \in Nat
      BY <2>5 DEF Good, Steady, WorldType, CtlType
    <3> QED
      BY <1>7, <2>5, <3>1 DEF Good
  <2> QED
    BY <1>1, <2>6, <2>7, LandsOK
<1> QED
  BY <1>11, <1>12

(* A command is submitted. *)
IsQueued(w, v, j, kind) ==
    /\ v \in WorldType /\ v.sess = w.sess
    /\ \A k \in Jobs \ {j} : v.job[k] = w.job[k]
    /\ v.job[j] = [Idle EXCEPT !.kind = kind, !.pc = "queued"]
    /\ v.ctl.session = w.ctl.session /\ v.ctl.made = w.ctl.made /\ v.ctl.desired = w.ctl.desired
    /\ v.ctl.intent = w.ctl.intent /\ v.ctl.keeper = w.ctl.keeper /\ v.ctl.autos = w.ctl.autos
    /\ v.ctl.last = w.ctl.last

(* A command waits in the queue of the loop. *)
LEMMA QueuedOK ==
    ASSUME NEW w, NEW t, Sound(w, "running", t), NEW j \in Commands, w.job[j].kind = "none",
           NEW kind \in {"connect", "disconnect"}, NEW v, IsQueued(w, v, j, kind),
           kind = "connect" => /\ j # Quit /\ \A i \in Commands : ~Live(w, i)
                               /\ \A i \in Commands : i < j => w.job[i].kind # "none",
           NEW r \in {"running", "closing"},
           r = "running" => j # Quit /\ \A i \in Commands : i < j => w.job[i].kind # "none"
    PROVE  Sound(v, r, t)
<1>1. /\ w \in WorldType /\ \A k \in Jobs : JobOK(w, k, "running")
      /\ OnlyNewest(w) /\ Opened1(w, Jobs) /\ Joins(w, Jobs)
      /\ OneConnect(w) /\ Pressed(w, "running") /\ Ordered(w) /\ Overruled(w, Jobs) /\ OneSupervisor(w)
      /\ Used(w, t) /\ Keeper(w) /\ Kept(w) /\ Orphaned(w) /\ Awaited(w, Jobs, "running")
      /\ Funded(w, Jobs, t) /\ Ready(w)
  BY DEF Sound, Steady
<1>2. j \in Jobs /\ Commands \subseteq Jobs /\ Supervisors \subseteq Jobs /\ j \notin Supervisors
      /\ Commands \cap Supervisors = {} /\ Commands \subseteq Nat
      /\ w.ctl.made \in Nat /\ w.ctl.intent \in Nat
  BY <1>1, JobSets DEF WorldType, CtlType
<1>3. /\ v \in WorldType /\ v.sess = w.sess
      /\ \A k \in Jobs \ {j} : v.job[k] = w.job[k]
      /\ v.ctl.session = w.ctl.session /\ v.ctl.made = w.ctl.made /\ v.ctl.desired = w.ctl.desired
      /\ v.ctl.intent = w.ctl.intent /\ v.ctl.keeper = w.ctl.keeper /\ v.ctl.autos = w.ctl.autos
      /\ v.ctl.last = w.ctl.last
  BY DEF IsQueued
<1>4. /\ v.job[j].kind = kind /\ v.job[j].pc = "queued" /\ v.job[j].at = "none"
      /\ v.job[j].on = Nobody /\ v.job[j].intent = 0 /\ ~v.job[j].cancel
  <2>1. v.job[j] = [Idle EXCEPT !.kind = kind, !.pc = "queued"]
    BY DEF IsQueued
  <2> QED
    BY <2>1 DEF Idle
<1>5. w.job[j].pc = "none" /\ w.job[j].at = "none" /\ w.job[j].kind = "none"
  BY <1>1, <1>2 DEF JobOK, Kinds, Idle
<1>6. /\ \A k \in Jobs \ {j} : (Live(v, k) <=> Live(w, k)) /\ (Started(v, k) <=> Started(w, k))
      /\ ~Started(v, j) /\ ~Live(w, j) /\ ~Started(w, j)
      /\ ~Opening(v, j) /\ ~Leaving(v, j)
      /\ \A k \in Jobs \ {j} : (Opening(v, k) <=> Opening(w, k)) /\ (Leaving(v, k) <=> Leaving(w, k))
                               /\ (IntentIsCurrent(v, k) <=> IntentIsCurrent(w, k))
  BY <1>3, <1>4, <1>5 DEF Live, Started, Opening, Leaving, IntentIsCurrent
<1>7. ASSUME NEW k \in Jobs \ {j} PROVE JobOK(v, k, r)
  <2>1. JobOK(w, k, "running") /\ v.job[k] = w.job[k]
    BY <1>1, <1>3
  <2>2. Kinds(v, k) /\ Places(v, k)
    BY <1>3, <2>1 DEF JobOK, Kinds, Places, Opening, Leaving
  <2>3. Opens(v, k)
    BY <1>3, <2>1 DEF JobOK, Opens, Opening, Newest, IntentIsCurrent
  <2>4. Recovers(v, k) /\ Uncancelled(v, k, r)
    BY <1>3, <2>1 DEF JobOK, Recovers, Uncancelled, Newest, Live, IntentIsCurrent, Opening
  <2> QED
    BY <2>2, <2>3, <2>4 DEF JobOK
<1>8. JobOK(v, j, r)
  <2>1. Kinds(v, j)
    BY <1>2, <1>3, <1>4 DEF Kinds
  <2>2. Places(v, j)
    BY <1>2, <1>3, <1>4, <1>6 DEF Places, Nobody
  <2>3. Opens(v, j) /\ Recovers(v, j) /\ Uncancelled(v, j, r)
    BY <1>2, <1>4, <1>6 DEF Opens, Recovers, Uncancelled
  <2> QED
    BY <2>1, <2>2, <2>3 DEF JobOK
<1>9. OnlyNewest(v) /\ Opened1(v, Jobs)
  <2>1. OnlyNewest(v)
    BY <1>1, <1>3 DEF OnlyNewest
  <2> QED
    BY <1>1, <1>3, <1>5, <2>1 DEF Opened1
<1>10. Joins(v, Jobs)
  <2> SUFFICES ASSUME NEW i \in Jobs \ {j}, NEW k \in Jobs \ {j},
                      Leaving(v, i), v.job[i].on = v.ctl.made, Opening(v, k)
               PROVE  v.job[i].joins = k /\ v.job[i].at = "join"
    BY <1>6 DEF Joins
  <2>1. Leaving(w, i) /\ w.job[i].on = w.ctl.made /\ Opening(w, k) /\ v.job[i] = w.job[i]
    BY <1>3, <1>6
  <2> QED
    BY <1>1, <2>1 DEF Joins
<1>11. OneConnect(v)
  <2> SUFFICES ASSUME NEW c \in Commands, v.job[c].kind = "connect", NEW i \in Commands, i < c
               PROVE  v.job[i].kind # "none" /\ (Live(v, c) => v.job[i].pc = "done")
    BY DEF OneConnect
  <2>1. CASE c = j
    <3>1. i # j /\ v.job[i] = w.job[i] /\ w.job[i].kind # "none" /\ ~Live(w, i)
      BY <1>2, <1>3, <1>4, <2>1
    <3>2. w.job[i].pc # "none"
      BY <1>1, <1>2, <3>1 DEF JobOK, Kinds
    <3> QED
      BY <3>1, <3>2 DEF Live
  <2>2. CASE c # j
    <3>1. v.job[c] = w.job[c] /\ (Live(v, c) <=> Live(w, c))
      BY <1>2, <1>3, <1>6, <2>2
    <3>2. w.job[i].kind # "none" /\ (Live(w, c) => w.job[i].pc = "done")
      BY <1>1, <3>1 DEF OneConnect
    <3>3. i # j
      BY <3>2
    <3> QED
      BY <1>2, <1>3, <3>1, <3>2, <3>3
  <2> QED
    BY <2>1, <2>2
<1>12. Pressed(v, r)
  <2>1. Quit \in Commands
    BY JobSets DEF Quit, Commands
  <2> SUFFICES ASSUME r = "running", NEW c \in Commands
               PROVE  /\ v.job[Quit].kind = "none"
                      /\ \A i \in Commands : c < i /\ v.job[i].kind # "none" => v.job[c].kind # "none"
    BY DEF Pressed
  <2>2. /\ w.job[Quit].kind = "none" /\ j # Quit
        /\ \A i \in Commands : c < i /\ w.job[i].kind # "none" => w.job[c].kind # "none"
        /\ c < j => w.job[c].kind # "none"
    BY <1>1 DEF Pressed
  <2>3. \A i \in Commands : i # j => v.job[i] = w.job[i]
    BY <1>2, <1>3
  <2> QED
    BY <1>4, <2>1, <2>2, <2>3
<1>13. Ordered(v)
  <2> SUFFICES ASSUME NEW c \in Commands, NEW i \in Commands, v.job[c].pc = "queued", c < i
               PROVE  v.job[i].pc \in {"none", "queued"}
    BY DEF Ordered
  <2>1. CASE i = j
    BY <1>4, <2>1
  <2>2. CASE i # j /\ c = j
    <3>1. w.job[i].kind = "none"
      BY <1>1, <1>5, <2>2 DEF Pressed
    <3>2. w.job[i].pc = "none" /\ v.job[i] = w.job[i]
      BY <1>1, <1>2, <1>3, <2>2, <3>1 DEF JobOK, Kinds, Idle
    <3> QED
      BY <3>2
  <2>3. CASE i # j /\ c # j
    BY <1>1, <1>2, <1>3, <2>3 DEF Ordered
  <2> QED
    BY <2>1, <2>2, <2>3
<1>14. Overruled(v, Jobs)
  <2> SUFFICES ASSUME NEW a \in Jobs \ {j}, NEW k \in Jobs \ {j}, Started(v, a),
                      v.job[a].kind = "disconnect",
                      Started(v, k), v.job[k].kind # "disconnect"
               PROVE  ~IntentIsCurrent(v, k)
    BY <1>6 DEF Overruled
  <2> QED
    BY <1>1, <1>3, <1>6 DEF Overruled
<1>15. OneSupervisor(v) /\ Used(v, t) /\ Keeper(v)
  <2>1. \A s \in Supervisors : v.job[s] = w.job[s] /\ (Live(v, s) <=> Live(w, s))
    BY <1>2, <1>3, <1>6
  <2> QED
    BY <1>1, <1>3, <2>1 DEF OneSupervisor, Used, Keeper
<1>16. Kept(v)
  <2> SUFFICES ASSUME NEW s \in Supervisors, Live(v, s), v.ctl.keeper = s, NEW c \in Commands,
                      Live(v, c), v.job[c].kind = "connect"
               PROVE  v.job[c].pc = "queued"
    BY DEF Kept
  <2>1. CASE c = j
    BY <1>4, <2>1
  <2>2. CASE c # j
    BY <1>1, <1>2, <1>3, <1>6, <2>2 DEF Kept
  <2> QED
    BY <2>1, <2>2
<1>17. Orphaned(v)
  <2> SUFFICES ASSUME NEW s \in Supervisors, Live(v, s), v.ctl.keeper # s
               PROVE  /\ ~IntentIsCurrent(v, s)
                      /\ \A c \in Commands : Live(v, c) /\ v.job[c].kind = "connect" =>
                            v.job[c].pc = "cancelling" /\ v.job[c].joins = s
    BY DEF Orphaned
  <2>1. Live(w, s) /\ w.ctl.keeper # s /\ s \in Jobs \ {j}
    BY <1>2, <1>3, <1>6
  <2>2. PICK i \in Commands : w.job[i].pc = "cancelling"
    BY <1>1, <2>1 DEF Awaited
  <2>3. kind # "connect"
    BY <2>2 DEF Live
  <2>4. ~IntentIsCurrent(v, s)
    BY <1>1, <1>6, <2>1 DEF Orphaned
  <2>5. ASSUME NEW c \in Commands, Live(v, c), v.job[c].kind = "connect"
        PROVE  v.job[c].pc = "cancelling" /\ v.job[c].joins = s
    <3>1. c # j
      BY <1>4, <2>3, <2>5
    <3>2. v.job[c] = w.job[c] /\ Live(w, c)
      BY <1>2, <1>3, <1>6, <2>5, <3>1
    <3> QED
      BY <1>1, <2>1, <2>5, <3>2 DEF Orphaned
  <2> QED
    BY <2>4, <2>5
<1>18. Awaited(v, Jobs, r)
  <2> SUFFICES ASSUME NEW s \in Supervisors, Live(v, s), v.ctl.keeper # s
               PROVE  \E i \in Commands \cap Jobs : v.job[i].pc = "cancelling" /\ v.job[i].joins = s
    BY DEF Awaited
  <2>1. Live(w, s) /\ w.ctl.keeper # s
    BY <1>2, <1>3, <1>6
  <2>2. PICK i \in Commands \cap Jobs : w.job[i].pc = "cancelling" /\ w.job[i].joins = s
    BY <1>1, <2>1 DEF Awaited
  <2>3. i # j /\ v.job[i] = w.job[i]
    BY <1>3, <1>5, <2>2
  <2> QED
    BY <2>2, <2>3
<1>19. Funded(v, Jobs, t)
  <2>1. \A c \in Commands : Unopened(v, c) => Unopened(w, c)
    <3> TAKE c \in Commands
    <3>1. CASE c = j
      BY <1>5, <3>1 DEF Unopened
    <3>2. CASE c # j
      BY <1>2, <1>3, <3>2 DEF Unopened
    <3> QED
      BY <3>1, <3>2
  <2>2. \A more : Affords(w, t, more) => Affords(v, t, more)
    BY <1>3, <2>1 DEF Affords
  <2>3. \A i \in Supervisors : Credit(v, i) => Credit(w, i)
    BY <1>2, <1>3 DEF Credit, Newest
  <2> QED
    BY <1>1, <2>2, <2>3 DEF Funded
<1>20. Steady(v, Jobs, r, t)
  BY <1>3, <1>7, <1>8, <1>9, <1>10, <1>11, <1>12, <1>13, <1>14, <1>15, <1>16, <1>17, <1>18, <1>19
     DEF Steady
<1>21. Ready(v)
  <2> SUFFICES ASSUME NEW n \in Sessions, v.sess[n].state = "ready"
               PROVE  /\ n = v.ctl.made /\ ~v.sess[n].poisoned
                      /\ v.sess[n].intent = v.ctl.intent /\ v.ctl.desired
                      /\ v.ctl.last = "connect" /\ v.ctl.autos = 0
                      /\ NoRecovery(v)
                      /\ \A k \in Jobs : v.job[k].pc \in {"none", "queued", "done"}
    BY DEF Ready
  <2>1. /\ n = w.ctl.made /\ ~w.sess[n].poisoned
        /\ w.sess[n].intent = w.ctl.intent /\ w.ctl.desired /\ w.ctl.last = "connect" /\ w.ctl.autos = 0
        /\ NoRecovery(w)
        /\ \A k \in Jobs : w.job[k].pc \in {"none", "queued", "done"}
    BY <1>1, <1>3 DEF Ready
  <2>2. NoRecovery(v)
    BY <1>2, <1>6, <2>1 DEF NoRecovery
  <2>3. \A k \in Jobs : v.job[k].pc \in {"none", "queued", "done"}
    BY <1>3, <1>4, <2>1
  <2> QED
    BY <1>3, <2>1, <2>2, <2>3
<1> QED
  BY <1>20, <1>21 DEF Sound

(* What a submission sets. *)
LEMMA QueuedIs ==
    ASSUME NEW w \in WorldType, NEW j \in Jobs, w.job[j] = Idle, NEW kind \in {"connect", "disconnect"},
           NEW c \in CtlType, NEW v,
           v = [ctl |-> c, job |-> [w.job EXCEPT ![j].kind = kind, ![j].pc = "queued"], sess |-> w.sess],
           c.session = w.ctl.session, c.made = w.ctl.made, c.desired = w.ctl.desired,
           c.intent = w.ctl.intent, c.keeper = w.ctl.keeper, c.autos = w.ctl.autos, c.last = w.ctl.last
    PROVE  IsQueued(w, v, j, kind)
<1>1. w.job \in [Jobs -> JobType] /\ w.job[j] \in JobType /\ w.sess \in [Sessions -> SessionType]
  BY DEF WorldType
<1>2. PICK x : x = [Idle EXCEPT !.kind = kind, !.pc = "queued"]
  OBVIOUS
<1>3. x \in JobType
  <2>1. 0 \in 0..Attempts /\ 0 \in Nat
    BY JobSets
  <2> QED
    BY <1>2, <2>1 DEF Idle, JobType
<1>4. v.job = [w.job EXCEPT ![j] = x]
  BY <1>1, <1>2
<1>5. v.job \in [Jobs -> JobType] /\ v.job[j] = x /\ \A k \in Jobs \ {j} : v.job[k] = w.job[k]
  BY <1>1, <1>3, <1>4
<1>6. v \in WorldType
  BY <1>1, <1>5 DEF WorldType
<1> QED
  BY <1>2, <1>5, <1>6 DEF IsQueued

(* A pressed command. *)
LEMMA PressOK ==
    ASSUME NEW j \in Commands, Sound(World, "running", troubles), troubles \in 0..MaxTroubles,
           job[j].kind = "none", NEW kind \in {"connect", "disconnect"}, Press(j, kind),
           NEW r \in {"running", "closing"}, worker' = r, sess' = sess, troubles' = troubles,
           ctl' = ctl \/ ctl' = [ctl EXCEPT !.closed = TRUE],
           kind = "connect" => /\ j # Quit /\ \A i \in Commands : ~Live(World, i)
                               /\ \A i \in Commands : i < j => job[i].kind # "none",
           r = "running" => j # Quit /\ \A i \in Commands : i < j => job[i].kind # "none"
    PROVE  Sound(World', worker', troubles') /\ ctl'.autos <= ctl.autos
<1>1. /\ World \in WorldType /\ JobOK(World, j, "running") /\ j \in Jobs
      /\ World.ctl \in CtlType /\ ctl \in CtlType /\ ctl.autos \in Nat
  BY WorldIs, JobSets DEF Sound, Steady, WorldType, CtlType
<1>2. World.job[j] = Idle /\ World.job[j].kind = "none"
  BY <1>1, WorldIs DEF JobOK, Kinds
<1>3. /\ ctl' \in CtlType
      /\ ctl'.session = ctl.session /\ ctl'.made = ctl.made /\ ctl'.desired = ctl.desired
      /\ ctl'.intent = ctl.intent /\ ctl'.keeper = ctl.keeper /\ ctl'.autos = ctl.autos
      /\ ctl'.last = ctl.last
  <2>1. CASE ctl' = ctl
    BY <1>1, <2>1
  <2>2. CASE ctl' = [ctl EXCEPT !.closed = TRUE]
    BY <1>1, <2>2 DEF CtlType
  <2> QED
    BY <2>1, <2>2
<1>4. World' = [ctl |-> ctl', job |-> [World.job EXCEPT ![j].kind = kind, ![j].pc = "queued"],
                sess |-> World.sess]
  BY WorldIs DEF World, Press
<1>5. PICK v : v = World'
  OBVIOUS
<1>6. IsQueued(World, v, j, kind)
  BY <1>1, <1>2, <1>3, <1>4, <1>5, WorldIs, QueuedIs
<1>7. \A i \in Commands : World.job[i].kind = job[i].kind
  BY WorldIs
<1>8. Sound(v, r, troubles)
  BY <1>2, <1>6, <1>7, QueuedOK
<1> QED
  BY <1>1, <1>3, <1>5, <1>8

(* Connect is pressed while no command is at work. *)
LEMMA PressConnectOK ==
    ASSUME NEW j \in Commands, Sound(World, worker, troubles), troubles \in 0..MaxTroubles,
           PressConnect(j)
    PROVE  Sound(World', worker', troubles') /\ ctl'.autos <= ctl.autos
<1>1. /\ worker = "running" /\ j # Quit /\ job[j].kind = "none"
      /\ \A i \in Commands : i < j => job[i].kind # "none"
      /\ \A i \in Commands : ~Live(World, i)
      /\ Press(j, "connect") /\ ctl' = ctl /\ sess' = sess /\ worker' = "running" /\ troubles' = troubles
  BY DEF PressConnect, IsNext
<1>2. Sound(World, "running", troubles) /\ "connect" \in {"connect", "disconnect"}
      /\ "running" \in {"running", "closing"}
  BY <1>1
<1> QED
  BY ONLY <1>1, <1>2, j \in Commands, troubles \in 0..MaxTroubles, PressOK

(* Disconnect is pressed at any time. *)
LEMMA PressDisconnectOK ==
    ASSUME NEW j \in Commands, Sound(World, worker, troubles), troubles \in 0..MaxTroubles,
           PressDisconnect(j)
    PROVE  Sound(World', worker', troubles') /\ ctl'.autos <= ctl.autos
<1>1. /\ worker = "running" /\ j # Quit /\ job[j].kind = "none"
      /\ \A i \in Commands : i < j => job[i].kind # "none"
      /\ Press(j, "disconnect") /\ ctl' = ctl /\ sess' = sess /\ worker' = "running" /\ troubles' = troubles
  BY DEF PressDisconnect, IsNext
<1>2. Sound(World, "running", troubles) /\ "disconnect" \in {"connect", "disconnect"}
      /\ "running" \in {"running", "closing"} /\ "disconnect" # "connect"
  BY <1>1
<1> QED
  BY ONLY <1>1, <1>2, j \in Commands, troubles \in 0..MaxTroubles, PressOK

(* shutdown() submits the last Disconnect. *)
LEMMA ShutdownOK ==
    ASSUME Sound(World, worker, troubles), troubles \in 0..MaxTroubles, Shutdown
    PROVE  Sound(World', worker', troubles') /\ ctl'.autos <= ctl.autos
<1>1. /\ worker = "running" /\ ctl' = [ctl EXCEPT !.closed = TRUE]
      /\ Press(Quit, "disconnect") /\ sess' = sess /\ worker' = "closing" /\ troubles' = troubles
  BY DEF Shutdown
<1>2. Sound(World, "running", troubles) /\ "disconnect" \in {"connect", "disconnect"}
      /\ "closing" \in {"running", "closing"} /\ "disconnect" # "connect" /\ "closing" # "running"
  BY <1>1
<1>3. job[Quit].kind = "none"
  BY <1>2, WorldIs, JobSets DEF Sound, Steady, Pressed
<1> QED
  BY ONLY <1>1, <1>2, <1>3, JobSets, troubles \in 0..MaxTroubles, PressOK

(* The loop is stopped and left: what is promised to a user no longer holds, the rest does. *)
LEMMA WithdrawnOK ==
    ASSUME NEW w, NEW r, NEW t, Sound(w, r, t), NEW v \in WorldType, v.ctl = w.ctl, v.sess = w.sess,
           \A k \in Jobs : /\ v.job[k].pc = w.job[k].pc /\ v.job[k].at = w.job[k].at
                           /\ v.job[k].kind = w.job[k].kind /\ v.job[k].on = w.job[k].on
                           /\ v.job[k].intent = w.job[k].intent /\ v.job[k].attempt = w.job[k].attempt
                           /\ v.job[k].joins = w.job[k].joins
                           /\ Live(w, k) \/ v.job[k] = w.job[k],
           NEW r2 \in {"stopping", "gone"}
    PROVE  Sound(v, r2, t)
<1>1. /\ w \in WorldType /\ \A k \in Jobs : JobOK(w, k, r)
      /\ OnlyNewest(w) /\ Opened1(w, Jobs) /\ Joins(w, Jobs)
      /\ OneConnect(w) /\ Ordered(w) /\ Overruled(w, Jobs) /\ OneSupervisor(w)
      /\ Used(w, t) /\ Keeper(w) /\ Kept(w) /\ Orphaned(w)
      /\ Funded(w, Jobs, t) /\ Ready(w)
  BY DEF Sound, Steady
<1>2. Commands \subseteq Jobs /\ Supervisors \subseteq Jobs
  BY JobSets
<1>3. \A k \in Jobs : /\ Live(v, k) <=> Live(w, k)
                      /\ Started(v, k) <=> Started(w, k)
                      /\ Opening(v, k) <=> Opening(w, k)
                      /\ Leaving(v, k) <=> Leaving(w, k)
                      /\ IntentIsCurrent(v, k) <=> IntentIsCurrent(w, k)
                      /\ Unopened(v, k) <=> Unopened(w, k)
                      /\ Credit(v, k) <=> Credit(w, k)
  BY DEF Live, Started, Opening, Leaving, IntentIsCurrent, Unopened, Credit, Newest
<1>4. ASSUME NEW k \in Jobs PROVE JobOK(v, k, r2)
  <2>1. JobOK(w, k, r) /\ (Opening(v, k) <=> Opening(w, k)) /\ (Live(v, k) <=> Live(w, k))
        /\ (Leaving(v, k) <=> Leaving(w, k)) /\ (IntentIsCurrent(v, k) <=> IntentIsCurrent(w, k))
    BY <1>1, <1>3
  <2>2. Kinds(v, k)
    <3>1. Live(w, k) => w.job[k].kind # "none" /\ w.job[k].pc # "done"
      BY <2>1 DEF JobOK, Kinds, Live, Idle
    <3> QED
      BY <2>1, <3>1 DEF JobOK, Kinds
  <2>3. Places(v, k)
    BY <2>1 DEF JobOK, Places
  <2>4. Opens(v, k)
    BY <2>1 DEF JobOK, Opens, Newest
  <2>5. Recovers(v, k) /\ Uncancelled(v, k, r2)
    BY <2>1 DEF JobOK, Recovers, Uncancelled, Newest
  <2> QED
    BY <2>2, <2>3, <2>4, <2>5 DEF JobOK
<1>5. OnlyNewest(v) /\ Opened1(v, Jobs) /\ Joins(v, Jobs)
  BY <1>1, <1>3 DEF OnlyNewest, Opened1, Joins
<1>6. OneConnect(v) /\ Pressed(v, r2) /\ Ordered(v)
  BY <1>1, <1>2, <1>3 DEF OneConnect, Pressed, Ordered
<1>7. Overruled(v, Jobs)
  BY <1>1, <1>3 DEF Overruled
<1>8. OneSupervisor(v) /\ Used(v, t) /\ Keeper(v)
  BY <1>1, <1>2, <1>3 DEF OneSupervisor, Used, Keeper
<1>9. Kept(v) /\ Orphaned(v) /\ Awaited(v, Jobs, r2)
  BY <1>1, <1>2, <1>3 DEF Kept, Orphaned, Awaited
<1>10. Funded(v, Jobs, t)
  BY <1>1, <1>2, <1>3 DEF Funded, Affords
<1>11. Ready(v)
  BY <1>1, <1>2, <1>3 DEF Ready, NoRecovery
<1> QED
  BY <1>4, <1>5, <1>6, <1>7, <1>8, <1>9, <1>10, <1>11 DEF Sound, Steady

(* loop.stop(): every task is cancelled. *)
LEMMA StopLoopOK ==
    ASSUME Sound(World, worker, troubles), StopLoop
    PROVE  Sound(World', worker', troubles') /\ ctl'.autos <= ctl.autos
<1>1. /\ job' = [j \in Jobs |-> IF Live(World, j) THEN [job[j] EXCEPT !.cancel = TRUE] ELSE job[j]]
      /\ ctl' = ctl /\ sess' = sess /\ troubles' = troubles /\ worker' = "stopping"
  BY DEF StopLoop
<1>2. World \in WorldType /\ job \in [Jobs -> JobType] /\ ctl.autos \in Nat
  BY WorldIs DEF Sound, Steady, WorldType, CtlType
<1>3. ASSUME NEW k \in Jobs
      PROVE  /\ job'[k].pc = job[k].pc /\ job'[k].at = job[k].at
             /\ job'[k].kind = job[k].kind /\ job'[k].on = job[k].on
             /\ job'[k].intent = job[k].intent /\ job'[k].attempt = job[k].attempt
             /\ job'[k].joins = job[k].joins /\ job'[k] \in JobType
             /\ Live(World, k) \/ job'[k] = job[k]
  <2>1. CASE Live(World, k)
    <3>1. job'[k] = [job[k] EXCEPT !.cancel = TRUE] /\ job[k] \in JobType
      BY <1>1, <1>2, <2>1
    <3>2. /\ job'[k].pc = job[k].pc /\ job'[k].at = job[k].at
          /\ job'[k].kind = job[k].kind /\ job'[k].on = job[k].on
      BY <3>1 DEF JobType
    <3>3. /\ job'[k].intent = job[k].intent /\ job'[k].attempt = job[k].attempt
          /\ job'[k].joins = job[k].joins /\ job'[k] \in JobType
      BY <3>1 DEF JobType
    <3> QED
      BY <2>1, <3>2, <3>3
  <2>2. CASE ~Live(World, k)
    BY <1>1, <1>2, <2>2
  <2> QED
    BY <2>1, <2>2
<1>4. PICK v : v = World'
  OBVIOUS
<1>5. v.job = job' /\ v.ctl = World.ctl /\ v.sess = World.sess
  BY <1>1, <1>4, WorldIs DEF World
<1>6. v \in WorldType
  <2>1. job' \in [Jobs -> JobType]
    BY <1>1, <1>3
  <2> QED
    BY <1>1, <1>2, <1>4, <2>1 DEF World, WorldType
<1>7. \A k \in Jobs : /\ v.job[k].pc = World.job[k].pc /\ v.job[k].at = World.job[k].at
                      /\ v.job[k].kind = World.job[k].kind /\ v.job[k].on = World.job[k].on
                      /\ v.job[k].intent = World.job[k].intent /\ v.job[k].attempt = World.job[k].attempt
                      /\ v.job[k].joins = World.job[k].joins
                      /\ Live(World, k) \/ v.job[k] = World.job[k]
  BY <1>3, <1>5, WorldIs
<1>8. "stopping" \in {"stopping", "gone"}
  OBVIOUS
<1>9. Sound(v, "stopping", troubles)
  BY <1>5, <1>6, <1>7, <1>8, WithdrawnOK
<1> QED
  BY <1>1, <1>2, <1>4, <1>9

(* The loop is left. *)
LEMMA ExitOK ==
    ASSUME Sound(World, worker, troubles), Exit
    PROVE  Sound(World', worker', troubles') /\ ctl'.autos <= ctl.autos
<1>1. ctl' = ctl /\ job' = job /\ sess' = sess /\ troubles' = troubles /\ worker' = "gone"
  BY DEF Exit
<1>2. World \in WorldType /\ ctl.autos \in Nat
  BY WorldIs DEF Sound, Steady, WorldType, CtlType
<1>3. World' = World
  BY <1>1 DEF World
<1>4. "gone" \in {"stopping", "gone"}
  OBVIOUS
<1>5. Sound(World, "gone", troubles)
  BY <1>2, <1>4, WithdrawnOK
<1> QED
  BY <1>1, <1>2, <1>3, <1>5

(* A session changes by itself: only the client of the newest one can. *)
IsChanged(w, v, n, t, t2) ==
    /\ v \in WorldType /\ v.job = w.job /\ v.ctl = w.ctl
    /\ \A m \in Sessions \ {n} : v.sess[m] = w.sess[m]
    /\ v.sess[n].intent = w.sess[n].intent
    /\ v.sess[n].state = "ready" => w.sess[n].state = "ready"
    /\ \/ v.sess[n].client = w.sess[n].client /\ v.sess[n].poisoned = w.sess[n].poisoned
       \/ /\ w.sess[n].client \in {"up", "closing"} /\ v.sess[n].client \in {"up", "closing", "none"}
          /\ v.sess[n].poisoned = w.sess[n].poisoned \/ v.sess[n].client = "closing"
          /\ v.sess[n].client = "closing" =>
                /\ v.sess[n].state # "ready"
                /\ \A k \in Jobs : Opening(w, k) => w.job[k].on # n
          /\ w.sess[n].client = "up" /\ v.sess[n].client = "none" => t2 = t + 1

(* Such a change keeps everything but readiness; only a lost link is paid by a trouble. *)
LEMMA ChangedOK ==
    ASSUME NEW w, NEW r, NEW t \in Nat, Sound(w, r, t), NEW t2 \in {t, t + 1}, NEW n \in Sessions,
           NEW v, IsChanged(w, v, n, t, t2)
    PROVE  Sound(v, r, t2)
<1>1. /\ w \in WorldType /\ \A k \in Jobs : JobOK(w, k, r)
      /\ OnlyNewest(w) /\ Opened1(w, Jobs) /\ Joins(w, Jobs)
      /\ OneConnect(w) /\ Pressed(w, r) /\ Ordered(w) /\ Overruled(w, Jobs) /\ OneSupervisor(w)
      /\ Used(w, t) /\ Keeper(w) /\ Kept(w) /\ Orphaned(w) /\ Awaited(w, Jobs, r)
      /\ Funded(w, Jobs, t) /\ Ready(w)
  BY DEF Sound, Steady
<1>2. Commands \subseteq Jobs /\ Supervisors \subseteq Jobs /\ w.ctl.made \in Nat
  BY <1>1, JobSets DEF WorldType, CtlType
<1>3. /\ v \in WorldType /\ v.job = w.job /\ v.ctl = w.ctl
      /\ \A m \in Sessions \ {n} : v.sess[m] = w.sess[m]
      /\ v.sess[n].intent = w.sess[n].intent
  BY DEF IsChanged
<1>4. /\ \A m \in Sessions : v.sess[m].client = "opening" => w.sess[m].client = "opening"
      /\ \A m \in Sessions : w.sess[m].client = "none" \/ w.sess[m].client = "opening" =>
            v.sess[m].client = w.sess[m].client /\ v.sess[m].poisoned = w.sess[m].poisoned
      /\ \A m \in Sessions : v.sess[m].client = "closing" /\ w.sess[m].client # "closing" =>
            \A k \in Jobs : Opening(w, k) => w.job[k].on # m
      /\ \A m \in Sessions : v.sess[m].client \in {"none", "opening", "up", "closing"}
      /\ \A m \in Sessions : v.sess[m].intent = w.sess[m].intent
      /\ \A m \in Sessions : \A k \in Jobs : Opening(w, k) /\ w.job[k].on = m =>
            v.sess[m].poisoned = w.sess[m].poisoned
  <2>1. \A m \in Sessions : w.sess[m].client \in {"none", "opening", "up", "closing"}
    BY <1>1 DEF WorldType, SessionType
  <2> QED
    BY <1>3, <2>1 DEF IsChanged
<1>5. ASSUME NEW k \in Jobs, Opening(w, k) \/ w.job[k].pc = "backoff"
      PROVE  w.ctl.made \in Sessions /\ w.job[k].on = w.ctl.made
  <2>1. /\ w.job[k].on \in Sessions \cup {Nobody} /\ w.job[k].kind # "disconnect"
        /\ w.job[k].on # Nobody /\ w.job[k].on = w.ctl.made
    <3>1. JobOK(w, k, r) /\ w.job[k] \in JobType
      BY <1>1 DEF WorldType
    <3>2. w.job[k].on \in Sessions \cup {Nobody}
      BY <3>1 DEF JobType
    <3>3. w.job[k].on # Nobody /\ w.job[k].kind # "disconnect"
      <4>1. k \in Commands => w.job[k].pc # "backoff"
        BY <3>1, JobSets DEF JobOK, Places
      <4>2. k \in Supervisors => w.job[k].kind # "disconnect"
        BY <3>1 DEF JobOK, Kinds
      <4> QED
        BY <1>5, <3>1, <4>1, <4>2, JobSets DEF JobOK, Places, Opening
    <3> QED
      BY <3>1, <3>2, <3>3 DEF JobOK, Places
  <2> QED
    BY <2>1
<1>6. ASSUME NEW k \in Jobs PROVE JobOK(v, k, r)
  <2>1. JobOK(w, k, r) /\ (Opening(v, k) <=> Opening(w, k)) /\ (Live(v, k) <=> Live(w, k))
        /\ (Leaving(v, k) <=> Leaving(w, k)) /\ (IntentIsCurrent(v, k) <=> IntentIsCurrent(w, k))
    BY <1>1, <1>3 DEF Opening, Live, Leaving, IntentIsCurrent
  <2>2. Kinds(v, k) /\ Places(v, k) /\ Uncancelled(v, k, r)
    BY <1>3, <2>1 DEF JobOK, Kinds, Places, Uncancelled
  <2>3. Opens(v, k)
    <3> SUFFICES ASSUME Opening(w, k) PROVE Opens(v, k)
      BY <2>1 DEF Opens
    <3>1. w.ctl.made \in Sessions /\ w.job[k].on = w.ctl.made
      BY <1>5
    <3>2. /\ Newest(v).poisoned = Newest(w).poisoned /\ Newest(v).intent = Newest(w).intent
          /\ Newest(w).client \in {"none", "opening"} => Newest(v).client = Newest(w).client
          /\ Newest(v).client = "closing" => Newest(w).client = "closing"
          /\ Newest(v).client = "opening" => Newest(w).client = "opening"
          /\ Newest(v).client \in {"none", "opening", "up", "closing"}
      BY <1>3, <1>4, <3>1 DEF Newest
    <3> QED
      BY <1>3, <2>1, <3>2 DEF JobOK, Opens
  <2>4. Recovers(v, k)
    <3>1. w.job[k].pc = "backoff" /\ Newest(w).client = "none" => Newest(v).client = "none"
      BY <1>3, <1>4, <1>5 DEF Newest
    <3> QED
      BY <1>3, <2>1, <3>1 DEF JobOK, Recovers
  <2> QED
    BY <2>2, <2>3, <2>4 DEF JobOK
<1>7. OnlyNewest(v) /\ Opened1(v, Jobs) /\ Joins(v, Jobs)
  <2>1. OnlyNewest(v) /\ Opened1(v, Jobs)
    BY <1>1, <1>3, <1>4 DEF OnlyNewest, Opened1
  <2>2. Joins(v, Jobs)
    BY <1>1, <1>3 DEF Joins, Leaving, Opening
  <2> QED
    BY <2>1, <2>2
<1>8. OneConnect(v) /\ Pressed(v, r) /\ Ordered(v) /\ Overruled(v, Jobs)
  <2>1. OneConnect(v) /\ Pressed(v, r) /\ Ordered(v)
    BY <1>1, <1>3 DEF OneConnect, Pressed, Ordered, Live
  <2>2. Overruled(v, Jobs)
    BY <1>1, <1>3 DEF Overruled, Started, IntentIsCurrent
  <2> QED
    BY <2>1, <2>2
<1>9. OneSupervisor(v) /\ Used(v, t2) /\ Keeper(v)
  <2>1. OneSupervisor(v) /\ Keeper(v)
    BY <1>1, <1>3 DEF OneSupervisor, Keeper, Live
  <2>2. \A u \in 0..t : u \in 0..t2
    OBVIOUS
  <2>3. Used(v, t2)
    BY <1>1, <1>3, <2>2 DEF Used
  <2> QED
    BY <2>1, <2>3
<1>10. Kept(v) /\ Orphaned(v) /\ Awaited(v, Jobs, r)
  <2>1. Kept(v) /\ Awaited(v, Jobs, r)
    BY <1>1, <1>3 DEF Kept, Awaited, Live
  <2>2. Orphaned(v)
    BY <1>1, <1>3 DEF Orphaned, Live, IntentIsCurrent
  <2> QED
    BY <2>1, <2>2
<1>11. Funded(v, Jobs, t2)
  <2>1. \A c \in Commands : Unopened(v, c) => Unopened(w, c)
    BY <1>3 DEF Unopened
  <2>2. /\ \A more \in {0, 1} : Affords(w, t, more) => Affords(v, t2, more)
        /\ Affords(w, t, 0) /\ t2 # t => Affords(v, t2, 1)
    BY <1>2, <1>3, <2>1, AffordsMore
  <2>3. ASSUME NEW s \in Supervisors, Credit(v, s) PROVE Affords(v, t2, 1)
    <3>1. CASE Credit(w, s)
      BY <1>1, <1>2, <2>2, <3>1 DEF Funded
    <3>2. CASE ~Credit(w, s)
      <4>1. w.job[s].at = "setup" /\ Newest(v).client = "none" /\ Newest(w).client # "none"
        BY <1>3, <2>3, <3>2 DEF Credit
      <4>2. Opening(w, s) /\ JobOK(w, s, r)
        BY <1>1, <1>2, <4>1 DEF JobOK, Places
      <4>3. Newest(w).client = "up" /\ w.ctl.made \in Sessions
        BY <1>2, <1>5, <4>1, <4>2 DEF JobOK, Opens
      <4>4. t2 = t + 1
        BY <1>3, <4>1, <4>3 DEF IsChanged, Newest
      <4> QED
        BY <1>1, <2>2, <4>4 DEF Funded
    <3> QED
      BY <3>1, <3>2
  <2> QED
    BY <1>1, <2>2, <2>3 DEF Funded
<1>12. Ready(v)
  <2> SUFFICES ASSUME NEW m \in Sessions, v.sess[m].state = "ready"
               PROVE  /\ m = v.ctl.made /\ ~v.sess[m].poisoned
                      /\ v.sess[m].intent = v.ctl.intent /\ v.ctl.desired /\ v.ctl.last = "connect"
                      /\ v.ctl.autos = 0
                      /\ NoRecovery(v)
                      /\ \A j \in Jobs : v.job[j].pc \in {"none", "queued", "done"}
    BY DEF Ready
  <2>1. w.sess[m].state = "ready" /\ v.sess[m].poisoned = w.sess[m].poisoned
    BY <1>3 DEF IsChanged
  <2>2. /\ m = w.ctl.made /\ ~w.sess[m].poisoned
        /\ w.sess[m].intent = w.ctl.intent /\ w.ctl.desired /\ w.ctl.last = "connect"
        /\ w.ctl.autos = 0
        /\ NoRecovery(w)
        /\ \A j \in Jobs : w.job[j].pc \in {"none", "queued", "done"}
    BY <1>1, <2>1 DEF Ready
  <2>3. NoRecovery(v)
    BY <1>3, <2>2 DEF NoRecovery, Live
  <2> QED
    BY <1>3, <1>4, <2>1, <2>2, <2>3
<1> QED
  BY <1>3, <1>6, <1>7, <1>8, <1>9, <1>10, <1>11, <1>12 DEF Sound, Steady

(* _on_session_event() starts the one recovery task. *)
Recovering(w, n, s) == [w EXCEPT !.ctl.keeper = s,
                                 !.job[s] = [Idle EXCEPT !.kind = "supervise", !.pc = "created",
                                                         !.on = n, !.intent = w.ctl.intent]]
IsRecovering(w, v, n, s) ==
    /\ v \in WorldType /\ v.sess = w.sess
    /\ \A k \in Jobs \ {s} : v.job[k] = w.job[k]
    /\ v.job[s].kind = "supervise" /\ v.job[s].pc = "created" /\ v.job[s].at = "none"
    /\ v.job[s].on = n /\ v.job[s].intent = w.ctl.intent /\ v.job[s].attempt = 0
    /\ v.job[s].joins = Nobody /\ ~v.job[s].cancel
    /\ v.ctl.session = w.ctl.session /\ v.ctl.made = w.ctl.made /\ v.ctl.desired = w.ctl.desired
    /\ v.ctl.intent = w.ctl.intent /\ v.ctl.keeper = s /\ v.ctl.autos = w.ctl.autos
    /\ v.ctl.last = w.ctl.last

(* What the start of a recovery sets. *)
LEMMA RecoveringIs ==
    ASSUME NEW w \in WorldType, NEW n \in Sessions, NEW s \in Supervisors, NEW v, v = Recovering(w, n, s)
    PROVE  IsRecovering(w, v, n, s)
<1>1. w.ctl \in CtlType /\ w.job \in [Jobs -> JobType] /\ s \in Jobs /\ w.ctl.intent \in Nat
      /\ w.sess \in [Sessions -> SessionType]
  BY JobSets DEF WorldType, CtlType
<1>2. PICK x : x = [Idle EXCEPT !.kind = "supervise", !.pc = "created", !.on = n, !.intent = w.ctl.intent]
  OBVIOUS
<1>3. Idle \in JobType
  <2>1. 0 \in 0..Attempts /\ 0 \in Nat
    BY JobSets
  <2> QED
    BY <2>1 DEF Idle, JobType
<1>4. x \in JobType
  BY <1>1, <1>2, <1>3 DEF JobType
<1>5. /\ x.kind = "supervise" /\ x.pc = "created" /\ x.at = "none" /\ x.on = n
      /\ x.intent = w.ctl.intent /\ x.attempt = 0 /\ x.joins = Nobody /\ x.cancel = FALSE
  BY <1>2 DEF Idle
<1>6. v = [w EXCEPT !.ctl.keeper = s, !.job[s] = x]
  BY <1>2 DEF Recovering
<1>7. /\ v.ctl = [w.ctl EXCEPT !.keeper = s] /\ v.job = [w.job EXCEPT ![s] = x]
      /\ v.sess = w.sess /\ v = [ctl |-> v.ctl, job |-> v.job, sess |-> v.sess]
  BY <1>1, <1>6 DEF WorldType
<1>8. v.ctl \in CtlType /\ v.ctl.keeper = s
  BY <1>1, <1>7 DEF CtlType
<1>9. /\ v.ctl.session = w.ctl.session /\ v.ctl.made = w.ctl.made /\ v.ctl.desired = w.ctl.desired
      /\ v.ctl.intent = w.ctl.intent /\ v.ctl.autos = w.ctl.autos /\ v.ctl.last = w.ctl.last
  BY <1>1, <1>7 DEF CtlType
<1>10. v.job \in [Jobs -> JobType] /\ v.job[s] = x /\ \A k \in Jobs \ {s} : v.job[k] = w.job[k]
  BY <1>1, <1>4, <1>7
<1>11. v \in WorldType
  BY <1>1, <1>7, <1>8, <1>10 DEF WorldType
<1> QED
  BY <1>5, <1>7, <1>8, <1>9, <1>10, <1>11 DEF IsRecovering

(* The first free one of the supervisors. *)
LEMMA FirstFree ==
    ASSUME NEW w, NEW t \in Nat, t < MaxTroubles, Used(w, t)
    PROVE  LET free == {k \in Supervisors : w.job[k].kind = "none"}
               s == CHOOSE k \in free : \A i \in free : k <= i
           IN /\ s \in Supervisors /\ w.job[s].kind = "none"
              /\ \A v : /\ \A k \in Supervisors \ {s} : v.job[k] = w.job[k]
                        /\ v.job[s].kind # "none"
                        => Used(v, t + 1)
<1> DEFINE free == {k \in Supervisors : w.job[k].kind = "none"}
<1> DEFINE s == CHOOSE k \in free : \A i \in free : k <= i
<1>1. PICK u \in 0..t : \A k \in Supervisors : w.job[k].kind = "none" <=> k > MaxCommands + u
  BY DEF Used
<1>2. u \in Nat /\ u + 1 \in 0..(t + 1) /\ MaxCommands + u + 1 \in free
  BY <1>1, JobSets DEF Supervisors
<1>3. \A i \in free : MaxCommands + u + 1 <= i
  BY <1>1, <1>2, JobSets DEF Supervisors
<1>4. s \in free /\ \A i \in free : s <= i
  BY <1>2, <1>3
<1> HIDE DEF s
<1>5. s = MaxCommands + u + 1
  BY <1>2, <1>3, <1>4, JobSets DEF Supervisors
<1>6. ASSUME NEW v, \A k \in Supervisors \ {s} : v.job[k] = w.job[k], v.job[s].kind # "none"
      PROVE  Used(v, t + 1)
  <2>1. \A k \in Supervisors : v.job[k].kind = "none" <=> k > MaxCommands + (u + 1)
    <3> TAKE k \in Supervisors
    <3>1. CASE k = s
      BY <1>2, <1>5, <1>6, <3>1, JobSets
    <3>2. CASE k # s
      <4>1. v.job[k].kind = "none" <=> k > MaxCommands + u
        BY <1>1, <1>6, <3>2
      <4>2. k \in Nat /\ k # MaxCommands + u + 1
        BY <1>5, <3>2, JobSets DEF Supervisors
      <4> QED
        BY <1>2, <4>1, <4>2, JobSets
    <3> QED
      BY <3>1, <3>2
  <2> QED
    BY <1>2, <2>1 DEF Used
<1>7. s \in Supervisors /\ w.job[s].kind = "none"
  BY <1>4
<1> QED
  BY <1>6, <1>7 DEF s

(* The session that was ready has failed, and a recovery is at work on it. *)
LEMMA RecoveringOK ==
    ASSUME NEW w, NEW r, NEW t \in Nat, Sound(w, r, t), NoneReady(w), NEW n \in Sessions,
           n = w.ctl.made, w.ctl.last = "connect", w.ctl.autos = 0, NoRecovery(w),
           \A j \in Jobs : w.job[j].pc \in {"none", "queued", "done"}, Affords(w, t, 1),
           NEW s \in Supervisors, NEW v, IsRecovering(w, v, n, s), Used(v, t)
    PROVE  Sound(v, r, t)
<1>1. /\ w \in WorldType /\ \A k \in Jobs : JobOK(w, k, r)
      /\ OnlyNewest(w) /\ Opened1(w, Jobs) /\ Joins(w, Jobs)
      /\ OneConnect(w) /\ Pressed(w, r) /\ Ordered(w)
  BY DEF Sound, Steady
<1>2. /\ Commands \subseteq Jobs /\ Supervisors \subseteq Jobs /\ s \in Jobs /\ s \notin Commands
      /\ Commands \cap Supervisors = {} /\ w.ctl.made \in Nat /\ w.ctl.intent \in Nat
      /\ n # Nobody /\ s # Nobody
  BY <1>1, JobSets DEF WorldType, CtlType
<1>3. /\ v \in WorldType /\ v.sess = w.sess
      /\ \A k \in Jobs \ {s} : v.job[k] = w.job[k]
      /\ v.job[s].kind = "supervise" /\ v.job[s].pc = "created" /\ v.job[s].at = "none"
      /\ v.job[s].on = n /\ v.job[s].intent = w.ctl.intent /\ v.job[s].attempt = 0
      /\ v.job[s].joins = Nobody /\ ~v.job[s].cancel
      /\ v.ctl.session = w.ctl.session /\ v.ctl.made = w.ctl.made /\ v.ctl.desired = w.ctl.desired
      /\ v.ctl.intent = w.ctl.intent /\ v.ctl.keeper = s /\ v.ctl.autos = w.ctl.autos
      /\ v.ctl.last = w.ctl.last
  BY DEF IsRecovering
<1>4. /\ \A k \in Jobs \ {s} : ~Started(v, k) /\ ~Opening(v, k) /\ ~Leaving(v, k)
      /\ ~Opening(v, s) /\ ~Leaving(v, s)
      /\ \A k \in Supervisors \ {s} : ~Live(v, k)
      /\ Live(v, s)
      /\ \A k \in Jobs \ {s} : (IntentIsCurrent(v, k) <=> IntentIsCurrent(w, k))
      /\ \A k \in Jobs \ {s} : (Live(v, k) <=> Live(w, k))
  <2>1. \A k \in Supervisors \ {s} : ~Live(v, k)
    BY <1>2, <1>3 DEF NoRecovery, Live
  <2> QED
    BY <1>3, <2>1 DEF Started, Opening, Leaving, Live, IntentIsCurrent
<1>5. ASSUME NEW k \in Jobs \ {s} PROVE JobOK(v, k, r)
  <2>1. JobOK(w, k, r) /\ v.job[k] = w.job[k]
    BY <1>1, <1>3
  <2>2. Kinds(v, k) /\ Places(v, k)
    BY <1>3, <2>1 DEF JobOK, Kinds, Places, Opening, Leaving
  <2>3. Opens(v, k) /\ Recovers(v, k) /\ Uncancelled(v, k, r)
    BY <1>4, <2>1 DEF JobOK, Opens, Recovers, Uncancelled, Opening
  <2> QED
    BY <2>2, <2>3 DEF JobOK
<1>6. JobOK(v, s, r)
  <2>1. Kinds(v, s)
    BY <1>2, <1>3 DEF Kinds
  <2>2. Places(v, s)
    BY <1>2, <1>3, <1>4 DEF Places
  <2>3. Opens(v, s) /\ Recovers(v, s) /\ Uncancelled(v, s, r)
    BY <1>2, <1>3, <1>4 DEF Opens, Recovers, Uncancelled
  <2> QED
    BY <2>1, <2>2, <2>3 DEF JobOK
<1>7. OnlyNewest(v) /\ Opened1(v, Jobs) /\ Joins(v, Jobs)
  <2>1. OnlyNewest(v) /\ Joins(v, Jobs)
    BY <1>1, <1>3, <1>4 DEF OnlyNewest, Joins
  <2>2. \A m \in Sessions : w.sess[m].client # "opening"
    <3>1. \A k \in Jobs : w.job[k].at # "opening"
      BY <1>1 DEF JobOK, Places, Opening
    <3> QED
      BY <1>1, <3>1 DEF Opened1
  <2> QED
    BY <1>3, <2>1, <2>2 DEF Opened1
<1>8. OneConnect(v) /\ Pressed(v, r) /\ Ordered(v)
  <2>1. \A c \in Commands : v.job[c] = w.job[c] /\ (Live(v, c) <=> Live(w, c))
    BY <1>2, <1>3, <1>4
  <2> QED
    BY <1>1, <2>1, JobSets DEF OneConnect, Pressed, Ordered
<1>9. Overruled(v, Jobs)
  BY <1>3, <1>4 DEF Overruled
<1>10. OneSupervisor(v) /\ Keeper(v) /\ Orphaned(v) /\ Awaited(v, Jobs, r)
  BY <1>3, <1>4 DEF OneSupervisor, Keeper, Orphaned, Awaited
<1>11. Kept(v)
  <2> SUFFICES ASSUME NEW c \in Commands, Live(v, c) PROVE v.job[c].pc = "queued"
    BY DEF Kept
  <2> QED
    BY <1>2, <1>3 DEF Live
<1>12. Funded(v, Jobs, t)
  <2>1. \A c \in Commands : Unopened(v, c) => Unopened(w, c)
    BY <1>2, <1>3 DEF Unopened
  <2>2. Affords(v, t, 1)
    BY <1>3, <2>1 DEF Affords
  <2>3. Affords(v, t, 0)
    <3>1. v.ctl.made + 0 <= MaxCommands + t
      BY <1>2, <1>3, <2>2, JobSets DEF Affords
    <3>2. ASSUME NEW c \in Commands, Unopened(v, c) PROVE v.ctl.made + 0 < c + t
      BY <1>2, <1>3, <2>2, <3>2, JobSets DEF Affords
    <3> QED
      BY <3>1, <3>2 DEF Affords
  <2> QED
    BY <2>2, <2>3 DEF Funded
<1>13. Ready(v)
  BY <1>3 DEF NoneReady, Ready
<1> QED
  BY <1>3, <1>5, <1>6, <1>7, <1>8, <1>9, <1>10, <1>11, <1>12, <1>13 DEF Sound, Steady

(* The recovery starts only after a ready session, so nothing else is at work: the
   trouble that brought it about pays for the session it may open. *)
LEMMA RecoverOK ==
    ASSUME NEW w, NEW r, NEW t \in Nat, t < MaxTroubles, Sound(w, r, t), NEW n \in Sessions,
           NEW v, IsChanged(w, v, n, t, t + 1), v.sess[n].state # "ready",
           NEW recoverable, recoverable => w.sess[n].state = "ready",
           NEW x, x = Recover(v, n, recoverable)
    PROVE  Sound(x, r, t + 1) /\ x.ctl.autos = w.ctl.autos
<1>1. Sound(v, r, t + 1) /\ v.ctl = w.ctl /\ v.job = w.job
  BY ChangedOK DEF IsChanged
<1> DEFINE free == {k \in Supervisors : v.job[k].kind = "none"}
<1> DEFINE s == CHOOSE k \in free : \A i \in free : k <= i
<1>2. x = v \/ (recoverable /\ x = Recovering(v, n, s))
  BY DEF Recover, Recovering
<1>3. CASE x = v
  BY <1>1, <1>3
<1>4. CASE recoverable /\ x = Recovering(v, n, s)
  <2>1. /\ w \in WorldType /\ Ready(w) /\ Used(w, t) /\ Affords(w, t, 0)
        /\ w.sess[n].state = "ready" /\ v \in WorldType /\ w.ctl.made \in Nat
    BY <1>1, <1>4, JobSets DEF Sound, Steady, Funded, WorldType, CtlType
  <2>2. /\ n = w.ctl.made /\ w.ctl.last = "connect" /\ w.ctl.autos = 0 /\ NoRecovery(w)
        /\ \A j \in Jobs : w.job[j].pc \in {"none", "queued", "done"}
    BY <2>1 DEF Ready
  <2>3. Used(v, t)
    BY <1>1, <2>1 DEF Used
  <2>4. /\ s \in Supervisors
        /\ \A y : /\ \A k \in Supervisors \ {s} : y.job[k] = v.job[k]
                  /\ y.job[s].kind # "none"
                  => Used(y, t + 1)
    BY <2>3, FirstFree
  <2> HIDE DEF s
  <2>5. IsRecovering(v, x, n, s)
    BY <1>4, <2>1, <2>4, RecoveringIs
  <2>6. Used(x, t + 1)
    BY <2>4, <2>5, JobSets DEF IsRecovering
  <2>7. NoneReady(v)
    <3>1. ASSUME NEW m \in Sessions, v.sess[m].state = "ready" PROVE FALSE
      <4>1. m # n /\ v.sess[m] = w.sess[m]
        BY <3>1 DEF IsChanged
      <4> QED
        BY <2>1, <2>2, <3>1, <4>1 DEF Ready
    <3> QED
      BY <3>1 DEF NoneReady
  <2>8. Affords(v, t + 1, 1)
    BY <1>1, <2>1, AffordsMore DEF Unopened
  <2>9. NoRecovery(v)
    BY <1>1, <2>2 DEF NoRecovery, Live
  <2>10. t + 1 \in Nat
    OBVIOUS
  <2>11. Sound(x, r, t + 1)
    BY <1>1, <2>2, <2>4, <2>5, <2>6, <2>7, <2>8, <2>9, <2>10, RecoveringOK
  <2> QED
    BY <1>1, <2>5, <2>11 DEF IsRecovering
<1> QED
  BY <1>2, <1>3, <1>4

(* One session has changed. *)
LEMMA SessionIs ==
    ASSUME NEW w \in WorldType, NEW n \in Sessions, NEW x \in SessionType,
           NEW v, v = [w EXCEPT !.sess[n] = x]
    PROVE  /\ v \in WorldType /\ v.job = w.job /\ v.ctl = w.ctl /\ v.sess[n] = x
           /\ \A m \in Sessions \ {n} : v.sess[m] = w.sess[m]
<1>1. w.sess \in [Sessions -> SessionType]
  BY DEF WorldType
<1>2. v.sess = [w.sess EXCEPT ![n] = x] /\ v.job = w.job /\ v.ctl = w.ctl /\ v \in WorldType
  BY <1>1 DEF WorldType
<1> QED
  BY <1>1, <1>2

(* A transaction of a ready or closing session times out. *)
LEMMA PoisonedOK ==
    ASSUME NEW n \in Sessions, Sound(World, worker, troubles), troubles \in 0..MaxTroubles, Poisoned(n)
    PROVE  Sound(World', worker', troubles') /\ ctl'.autos <= ctl.autos
<1>1. PICK orphan \in BOOLEAN, mutation \in BOOLEAN :
         Becomes(Recover(Poison(n, orphan), n, sess[n].state = "ready" /\ ~mutation))
  BY DEF Poisoned
<1>2. /\ troubles \in Nat /\ troubles < MaxTroubles /\ troubles' = troubles + 1 /\ worker' = worker
      /\ Connected(World.sess[n]) /\ ~World.sess[n].poisoned
      /\ \A j \in Jobs : Opening(World, j) => World.job[j].on # n
      /\ World \in WorldType /\ World.sess[n] \in SessionType
  <2>1. World \in WorldType
    BY DEF Sound, Steady
  <2> QED
    BY <2>1, WorldIs, JobSets DEF Poisoned, Trouble, WorldType, Opening
<1>3. PICK y : y = [World.sess[n] EXCEPT !.state = "error", !.poisoned = TRUE,
                                         !.client = "closing", !.orphan = orphan]
  OBVIOUS
<1>4. /\ y \in SessionType /\ y.client = "closing" /\ y.state = "error"
      /\ y.intent = World.sess[n].intent
  BY <1>2, <1>3 DEF SessionType
<1>5. PICK v : v = Poison(n, orphan)
  OBVIOUS
<1>6. v = [World EXCEPT !.sess[n] = y]
  BY <1>2, <1>3, <1>5 DEF Poison, WorldType
<1>7. IsChanged(World, v, n, troubles, troubles + 1) /\ v.sess[n].state # "ready"
  <2>1. /\ v \in WorldType /\ v.job = World.job /\ v.ctl = World.ctl /\ v.sess[n] = y
        /\ \A m \in Sessions \ {n} : v.sess[m] = World.sess[m]
    BY <1>2, <1>4, <1>6, SessionIs
  <2> QED
    BY <1>2, <1>4, <2>1 DEF IsChanged, Connected
<1>8. PICK x : x = Recover(v, n, sess[n].state = "ready" /\ ~mutation)
  OBVIOUS
<1>9. Sound(x, worker, troubles + 1) /\ x.ctl.autos = World.ctl.autos
  <2>1. PICK recoverable : recoverable = (sess[n].state = "ready" /\ ~mutation)
    OBVIOUS
  <2>2. x = Recover(v, n, recoverable) /\ (recoverable => World.sess[n].state = "ready")
    BY <1>8, <2>1, WorldIs
  <2> QED
    BY <1>2, <1>7, <2>2, RecoverOK
<1>10. World' = x
  <2>1. x \in WorldType
    BY <1>9 DEF Sound, Steady
  <2>2. Becomes(x)
    BY <1>1, <1>5, <1>8
  <2> QED
    BY <2>1, <2>2 DEF World, WorldType, Becomes
<1>11. ctl' = x.ctl /\ x.ctl.autos \in Nat
  BY <1>1, <1>5, <1>8, <1>9 DEF Becomes, Sound, Steady, WorldType, CtlType
<1> QED
  BY <1>2, <1>9, <1>10, <1>11, WorldIs

(* A link drops: a ready session is never a poisoned one, so it is not ready after. *)
LEMMA LostOK ==
    ASSUME NEW n \in Sessions, Sound(World, worker, troubles), troubles \in 0..MaxTroubles, Lost(n)
    PROVE  Sound(World', worker', troubles') /\ ctl'.autos <= ctl.autos
<1>1. PICK state : state = IF sess[n].poisoned THEN sess[n].state
                           ELSE IF sess[n].state = "disconnecting" THEN "disconnected" ELSE "error"
  OBVIOUS
<1>2. /\ troubles \in Nat /\ troubles < MaxTroubles /\ troubles' = troubles + 1 /\ worker' = worker
      /\ World.sess[n].client = "up"
      /\ World \in WorldType /\ World.sess[n] \in SessionType /\ Ready(World)
  <2>1. World \in WorldType /\ Ready(World)
    BY DEF Sound, Steady
  <2> QED
    BY <2>1, WorldIs, JobSets DEF Lost, Trouble, WorldType
<1>3. PICK y : y = [World.sess[n] EXCEPT !.client = "none", !.state = state]
  OBVIOUS
<1>4. /\ y \in SessionType /\ y.client = "none" /\ y.state = state
      /\ y.intent = World.sess[n].intent /\ y.poisoned = World.sess[n].poisoned
  BY <1>1, <1>2, <1>3, WorldIs DEF SessionType
<1>5. PICK v : v = [World EXCEPT !.sess[n] = y]
  OBVIOUS
<1>6. PICK mutation \in BOOLEAN :
         Becomes(Recover(v, n, sess[n].state = "ready" /\ ~mutation))
  <2>1. PICK mutation \in BOOLEAN :
          LET w == [World EXCEPT !.sess[n].client = "none",
                       !.sess[n].state = IF sess[n].poisoned THEN @
                                         ELSE IF @ = "disconnecting" THEN "disconnected" ELSE "error"]
          IN Becomes(Recover(w, n, sess[n].state = "ready" /\ ~mutation))
    BY DEF Lost
  <2>2. v = [World EXCEPT !.sess[n].client = "none",
                !.sess[n].state = IF sess[n].poisoned THEN @
                                  ELSE IF @ = "disconnecting" THEN "disconnected" ELSE "error"]
    BY <1>1, <1>2, <1>3, <1>5, WorldIs DEF WorldType, SessionType
  <2> QED
    BY <2>1, <2>2
<1>7. IsChanged(World, v, n, troubles, troubles + 1) /\ v.sess[n].state # "ready"
  <2>1. /\ v \in WorldType /\ v.job = World.job /\ v.ctl = World.ctl /\ v.sess[n] = y
        /\ \A m \in Sessions \ {n} : v.sess[m] = World.sess[m]
    BY <1>2, <1>4, <1>5, SessionIs
  <2>2. y.state # "ready"
    BY <1>1, <1>2, <1>4, WorldIs DEF Ready
  <2> QED
    BY <1>2, <1>4, <2>1, <2>2 DEF IsChanged
<1>8. PICK x : x = Recover(v, n, sess[n].state = "ready" /\ ~mutation)
  OBVIOUS
<1>9. Sound(x, worker, troubles + 1) /\ x.ctl.autos = World.ctl.autos
  <2>1. PICK recoverable : recoverable = (sess[n].state = "ready" /\ ~mutation)
    OBVIOUS
  <2>2. x = Recover(v, n, recoverable) /\ (recoverable => World.sess[n].state = "ready")
    BY <1>8, <2>1, WorldIs
  <2> QED
    BY <1>2, <1>7, <2>2, RecoverOK
<1>10. World' = x
  <2>1. x \in WorldType
    BY <1>9 DEF Sound, Steady
  <2>2. Becomes(x)
    BY <1>6, <1>8
  <2> QED
    BY <2>1, <2>2 DEF World, WorldType, Becomes
<1>11. ctl' = x.ctl /\ x.ctl.autos \in Nat
  BY <1>6, <1>8, <1>9 DEF Becomes, Sound, Steady, WorldType, CtlType
<1> QED
  BY <1>2, <1>9, <1>10, <1>11, WorldIs

(* What the native client of a session, or its orphaned write, does. *)
LEMMA NativeOK ==
    ASSUME NEW n \in Sessions, Sound(World, worker, troubles), troubles \in 0..MaxTroubles,
           NativeEnds(n) \/ NativeRefuses(n) \/ OrphanEnds(n)
    PROVE  Sound(World', worker', troubles') /\ ctl'.autos <= ctl.autos
<1>1. /\ troubles \in Nat /\ World \in WorldType /\ World.sess[n] \in SessionType
      /\ worker' = worker /\ ctl' = ctl /\ job' = job /\ troubles' \in {troubles, troubles + 1}
      /\ ctl.autos \in Nat
  <2>1. World \in WorldType
    BY DEF Sound, Steady
  <2>2. World.sess[n] \in SessionType /\ ctl.autos \in Nat
    BY <2>1, WorldIs DEF WorldType, CtlType
  <2>3. worker' = worker /\ ctl' = ctl /\ job' = job /\ troubles' \in {troubles, troubles + 1}
    BY DEF NativeEnds, NativeRefuses, OrphanEnds, Trouble
  <2> QED
    BY <2>1, <2>2, <2>3, JobSets
<1>2. /\ World'.ctl = World.ctl /\ World'.job = World.job /\ World'.sess = sess'
      /\ World' = [ctl |-> World.ctl, job |-> World.job, sess |-> sess']
  BY <1>1 DEF World
<1>3. PICK y \in SessionType :
         /\ sess' = [sess EXCEPT ![n] = y]
         /\ y.intent = sess[n].intent /\ y.state = sess[n].state /\ y.poisoned = sess[n].poisoned
         /\ \/ y.client = sess[n].client
            \/ sess[n].client = "closing" /\ y.client \in {"none", "up"}
  <2>1. CASE NativeEnds(n)
    <3>1. PICK y : y = [sess[n] EXCEPT !.client = "none"]
      OBVIOUS
    <3>2. /\ y \in SessionType /\ y.intent = sess[n].intent /\ y.state = sess[n].state
          /\ y.poisoned = sess[n].poisoned /\ y.client = "none"
      BY <1>1, <3>1, WorldIs DEF SessionType
    <3>3. sess' = [sess EXCEPT ![n] = y] /\ sess[n].client = "closing"
      BY <2>1, <3>1 DEF NativeEnds
    <3> QED
      BY <3>2, <3>3
  <2>2. CASE NativeRefuses(n)
    <3>1. PICK y : y = [sess[n] EXCEPT !.client = "up", !.stuck = TRUE]
      OBVIOUS
    <3>2. /\ y \in SessionType /\ y.intent = sess[n].intent /\ y.state = sess[n].state
          /\ y.poisoned = sess[n].poisoned /\ y.client = "up"
      BY <1>1, <3>1, WorldIs DEF SessionType
    <3>3. sess' = [sess EXCEPT ![n] = y] /\ sess[n].client = "closing"
      <4>1. sess' = [sess EXCEPT ![n].client = "up", ![n].stuck = TRUE] /\ sess[n].client = "closing"
        BY <2>2 DEF NativeRefuses
      <4>2. sess \in [Sessions -> SessionType]
        BY <1>1, WorldIs DEF WorldType
      <4> QED
        BY <3>1, <4>1, <4>2
    <3> QED
      BY <3>2, <3>3
  <2>3. CASE OrphanEnds(n)
    <3>1. PICK y : y = [sess[n] EXCEPT !.orphan = FALSE]
      OBVIOUS
    <3>2. /\ y \in SessionType /\ y.intent = sess[n].intent /\ y.state = sess[n].state
          /\ y.poisoned = sess[n].poisoned /\ y.client = sess[n].client
      BY <1>1, <3>1, WorldIs DEF SessionType
    <3>3. sess' = [sess EXCEPT ![n] = y]
      BY <2>3, <3>1 DEF OrphanEnds
    <3> QED
      BY <3>2, <3>3
  <2> QED
    BY <2>1, <2>2, <2>3
<1>4. PICK v : v = World'
  OBVIOUS
<1>5. v = [World EXCEPT !.sess[n] = y]
  BY <1>2, <1>3, <1>4 DEF World
<1>6. /\ v \in WorldType /\ v.job = World.job /\ v.ctl = World.ctl /\ v.sess[n] = y
      /\ \A m \in Sessions \ {n} : v.sess[m] = World.sess[m]
  BY <1>1, <1>5, SessionIs
<1>7. PICK t2 : t2 = troubles'
  OBVIOUS
<1>8. IsChanged(World, v, n, troubles, t2)
  BY <1>3, <1>6, WorldIs DEF IsChanged
<1>9. Sound(v, worker, t2)
  BY <1>1, <1>7, <1>8, ChangedOK
<1> QED
  BY <1>1, <1>4, <1>7, <1>9

CtlInv ==
    /\ Sound(World, worker, troubles)
    /\ worker \in {"running", "closing", "stopping", "gone"}
    /\ troubles \in 0..MaxTroubles
    /\ ctl.autos <= Attempts

(* Before the first command nothing is at work. *)
LEMMA InitOK == CtlInit => CtlInv
<1> SUFFICES ASSUME CtlInit PROVE CtlInv
  OBVIOUS
<1> DEFINE w == World
<1>1. /\ w.ctl = [session |-> Nobody, made |-> 0, desired |-> FALSE, intent |-> 0,
                  keeper |-> Nobody, closed |-> FALSE, autos |-> 0, last |-> "none"]
      /\ w.job = [j \in Jobs |-> Idle] /\ w.sess = [n \in Sessions |-> NewSession]
      /\ w = [ctl |-> w.ctl, job |-> w.job, sess |-> w.sess]
      /\ worker = "running" /\ troubles = 0 /\ ctl = w.ctl
  BY DEF CtlInit, World
<1> HIDE DEF w
<1>2. /\ \A j \in Jobs : w.job[j] = Idle
      /\ Idle.kind = "none" /\ Idle.pc = "none" /\ Idle.at = "none" /\ Idle.on = Nobody
      /\ Idle.intent = 0 /\ Idle.cancel = FALSE
      /\ \A n \in Sessions : w.sess[n].client = "none" /\ w.sess[n].state = "disconnected"
      /\ w.ctl.session = 0 /\ w.ctl.made = 0 /\ w.ctl.keeper = 0 /\ w.ctl.autos = 0
      /\ w.ctl.intent = 0
  BY <1>1 DEF Idle, NewSession, Nobody
<1>3. w \in WorldType
  <2>1. 0 \in 0..Attempts /\ 0 \in Nat /\ 0 \in 0..(MaxCommands + MaxTroubles)
    BY JobSets
  <2>2. Idle \in JobType
    BY <2>1 DEF Idle, JobType
  <2>3. NewSession \in SessionType
    BY <2>1 DEF NewSession, SessionType
  <2>4. w.ctl \in CtlType
    BY <1>1, <2>1 DEF CtlType
  <2> QED
    BY <1>1, <2>2, <2>3, <2>4 DEF WorldType
<1>4. \A j \in Jobs : /\ w.job[j].kind = "none" /\ w.job[j].pc = "none" /\ w.job[j].at = "none"
                      /\ w.job[j].on = Nobody /\ w.job[j].intent = 0 /\ ~w.job[j].cancel
                      /\ ~Live(w, j) /\ ~Opening(w, j) /\ ~Leaving(w, j) /\ ~Started(w, j)
  BY <1>2 DEF Live, Opening, Leaving, Started
<1>5. Commands \subseteq Jobs /\ Supervisors \subseteq Jobs
  BY JobSets
<1>6. ASSUME NEW j \in Jobs PROVE JobOK(w, j, "running")
  <2>1. Kinds(w, j)
    BY <1>2, <1>4 DEF Kinds
  <2>2. Places(w, j)
    BY <1>2, <1>4, JobSets DEF Places
  <2>3. Opens(w, j) /\ Recovers(w, j) /\ Uncancelled(w, j, "running")
    BY <1>4 DEF Opens, Recovers, Uncancelled
  <2> QED
    BY <2>1, <2>2, <2>3 DEF JobOK
<1>7. OnlyNewest(w) /\ Opened1(w, Jobs) /\ Joins(w, Jobs)
  BY <1>2, <1>4 DEF OnlyNewest, Opened1, Joins
<1>8. OneConnect(w) /\ Pressed(w, "running") /\ Ordered(w) /\ Overruled(w, Jobs)
  BY <1>4, <1>5, JobSets DEF OneConnect, Pressed, Ordered, Overruled
<1>9. OneSupervisor(w) /\ Keeper(w) /\ Kept(w) /\ Orphaned(w) /\ Awaited(w, Jobs, "running")
  BY <1>2, <1>4, <1>5 DEF OneSupervisor, Keeper, Kept, Orphaned, Awaited, Nobody
<1>10. Used(w, 0)
  <2>1. \A s \in Supervisors : w.job[s].kind = "none" /\ s > MaxCommands + 0
    BY <1>4, <1>5, JobSets DEF Supervisors
  <2> QED
    BY <2>1 DEF Used
<1>11. Funded(w, Jobs, 0)
  <2>1. Affords(w, 0, 0)
    BY <1>2, JobSets DEF Affords, Commands
  <2>2. \A s \in Supervisors : ~Credit(w, s)
    BY <1>4, <1>5 DEF Credit
  <2> QED
    BY <2>1, <2>2 DEF Funded
<1>12. Ready(w)
  BY <1>2 DEF Ready
<1>13. Sound(w, worker, troubles)
  BY <1>1, <1>3, <1>6, <1>7, <1>8, <1>9, <1>10, <1>11, <1>12 DEF Sound, Steady
<1> QED
  BY <1>1, <1>2, <1>13, JobSets DEF CtlInv, w

(* Every step keeps the invariant, and only the end of a backoff raises the count. *)
LEMMA StepsOK ==
    ASSUME CtlInv, [CtlNext]_ctlVars
    PROVE  /\ Sound(World', worker', troubles')
           /\ \/ ctl'.autos <= ctl.autos
              \/ ctl'.autos <= Attempts /\ ctl.last = "connect" /\ ~ctl.closed
<1>1. Sound(World, worker, troubles) /\ troubles \in 0..MaxTroubles /\ Commands \subseteq Jobs
      /\ ctl.autos \in Nat
  <2>1. World \in WorldType
    BY DEF CtlInv, Sound, Steady
  <2> QED
    BY <2>1, WorldIs, JobSets DEF CtlInv, WorldType, CtlType
<1>2. CASE \E j \in Commands : PressConnect(j) \/ PressDisconnect(j)
  BY <1>1, <1>2, PressConnectOK, PressDisconnectOK
<1>3. CASE Shutdown \/ StopLoop \/ Exit
  BY <1>1, <1>3, ShutdownOK, StopLoopOK, ExitOK
<1>4. CASE \E n \in Sessions : \/ Poisoned(n) \/ Lost(n) \/ NativeEnds(n)
                               \/ NativeRefuses(n) \/ OrphanEnds(n)
  BY <1>1, <1>4, PoisonedOK, LostOK, NativeOK
<1>5. ASSUME NEW j \in Jobs, OpenFails(j) \/ SetupFails(j)
      PROVE  Sound(World', worker', troubles') /\ ctl'.autos <= ctl.autos
  BY <1>1, <1>5, OpenFailsOK, SetupFailsOK
<1>6. ASSUME NEW j \in Jobs, Start(j)
      PROVE  Sound(World', worker', troubles') /\ ctl'.autos <= ctl.autos
  <2>1. World.job[j].pc = "queued" /\ JobOK(World, j, worker)
    BY <1>1, <1>6, WorldIs DEF Start, Pending, Sound, Steady
  <2>2. j \in Commands
    BY <2>1 DEF JobOK, Places
  <2> QED
    BY <1>1, <1>6, <2>2, StartOK
<1>7. ASSUME NEW j \in Jobs, Step(j)
      PROVE  /\ Sound(World', worker', troubles')
             /\ \/ ctl'.autos <= ctl.autos
                \/ ctl'.autos <= Attempts /\ ctl.last = "connect" /\ ~ctl.closed
  <2>1. CASE Start(j) \/ Gathered(j) \/ RecoveryStarts(j) \/ TornDown(j) \/ Joined(j)
    BY <1>1, <1>6, <2>1, GatheredOK, RecoveryStartsOK, TornDownOK, JoinedOK
  <2>2. CASE NotifyStopped(j) \/ HungUp(j) \/ Released(j) \/ WaitIsStale(j)
    BY <1>1, <2>2, NotifyStoppedOK, HungUpOK, ReleasedOK, WaitIsStaleOK
  <2>3. CASE BackoffOver(j)
    BY <1>1, <2>3, BackoffOverOK
  <2>4. CASE Opened(j) \/ SetupDone(j) \/ LinkIsGone(j) \/ Cleaned(j) \/ CancelArrives(j)
    BY <1>1, <2>4, OpenedOK, SetupDoneOK, LinkIsGoneOK, CleanedOK, CancelArrivesOK
  <2> QED
    BY <1>7, <2>1, <2>2, <2>3, <2>4 DEF Step
<1>8. CASE UNCHANGED ctlVars
  BY <1>1, <1>8 DEF ctlVars, World
<1> QED
  BY <1>2, <1>3, <1>4, <1>5, <1>7, <1>8 DEF CtlNext, Gone

(* shutdown() goes through its phases, and the bound on the troubles is kept. *)
LEMMA WorkerOK ==
    ASSUME CtlInv, [CtlNext]_ctlVars
    PROVE  worker' \in {"running", "closing", "stopping", "gone"} /\ troubles' \in 0..MaxTroubles
<1>1. worker \in {"running", "closing", "stopping", "gone"} /\ troubles \in 0..MaxTroubles
      /\ MaxTroubles \in Nat
  BY JobSets DEF CtlInv
<1>2. CASE \E j \in Commands : PressConnect(j) \/ PressDisconnect(j)
  BY <1>1, <1>2 DEF PressConnect, PressDisconnect
<1>3. CASE Shutdown \/ StopLoop \/ Exit
  BY <1>1, <1>3 DEF Shutdown, StopLoop, Exit
<1>4. CASE \E n \in Sessions : \/ Poisoned(n) \/ Lost(n) \/ NativeEnds(n)
                               \/ NativeRefuses(n) \/ OrphanEnds(n)
  BY <1>1, <1>4 DEF Poisoned, Lost, NativeEnds, NativeRefuses, OrphanEnds, Trouble
<1>5. ASSUME NEW j \in Jobs, OpenFails(j) \/ SetupFails(j)
      PROVE  worker' = worker /\ troubles' \in 0..MaxTroubles
  BY <1>1, <1>5 DEF OpenFails, SetupFails, Trouble
<1>6. ASSUME NEW j \in Jobs, Step(j) PROVE worker' = worker /\ troubles' = troubles
  BY <1>6 DEF Step, Start, Gathered, RecoveryStarts, TornDown, Joined, NotifyStopped, HungUp,
              Released, WaitIsStale, BackoffOver, Opened, SetupDone, LinkIsGone, Cleaned,
              CancelArrives, Resumes, Calm
<1>7. CASE UNCHANGED ctlVars
  BY <1>1, <1>7 DEF ctlVars
<1> QED
  BY <1>1, <1>2, <1>3, <1>4, <1>5, <1>6, <1>7 DEF CtlNext, Gone

(* Every state of the controller is sound: the invariant the theorems below rest on. *)
THEOREM ControllerInduction == CtlSpec => []CtlInv
<1>1. CtlInv /\ [CtlNext]_ctlVars => CtlInv'
  <2> SUFFICES ASSUME CtlInv, [CtlNext]_ctlVars PROVE CtlInv'
    OBVIOUS
  <2>1. /\ Sound(World', worker', troubles')
        /\ ctl'.autos <= ctl.autos \/ ctl'.autos <= Attempts
    BY StepsOK
  <2>2. ctl.autos <= Attempts /\ ctl.autos \in Nat /\ ctl'.autos \in Nat
    <3>1. World \in WorldType /\ World' \in WorldType /\ World'.ctl = ctl'
      BY <2>1 DEF CtlInv, Sound, Steady, World
    <3> QED
      BY <3>1, WorldIs DEF CtlInv, WorldType, CtlType
  <2>3. ctl'.autos <= Attempts
    BY <2>1, <2>2, JobSets
  <2> QED
    BY <2>1, <2>3, WorkerOK DEF CtlInv
<1> QED
  BY <1>1, InitOK, PTL DEF CtlSpec

(* The types, of every state the commands, the recoveries, their failures and a
   shutdown of qt_controller.py lead to. *)
THEOREM ControllerTypesHold == CtlSpec => []ControllerTypeOK
<1>1. CtlInv => ControllerTypeOK
  <2> SUFFICES ASSUME CtlInv PROVE ControllerTypeOK
    OBVIOUS
  <2>1. World \in WorldType
    BY DEF CtlInv, Sound, Steady
  <2>2. ctl \in CtlType /\ job \in [Jobs -> JobType] /\ sess \in [Sessions -> SessionType]
    BY <2>1, WorldIs DEF WorldType
  <2> QED
    BY <2>2 DEF CtlInv, ControllerTypeOK, CtlType
<1> QED
  BY <1>1, ControllerInduction, PTL

(* Never two native clients at once, for any number of commands and troubles: connect()
   and the recovery open a session only after the last one has let go of its client. *)
THEOREM NeverTwoClients == CtlSpec => []OneClient
<1>1. CtlInv => OneClient
  <2> SUFFICES ASSUME CtlInv PROVE OneClient
    OBVIOUS
  <2> DEFINE S == {n \in Sessions : sess[n].client # "none"}
  <2>1. S \subseteq {ctl.made}
    BY WorldIs DEF CtlInv, Sound, Steady, OnlyNewest
  <2>2. IsFiniteSet({ctl.made}) /\ Cardinality({ctl.made}) = 1
    BY FS_Singleton
  <2>3. IsFiniteSet(S) /\ Cardinality(S) <= Cardinality({ctl.made})
    BY <2>1, <2>2, FS_Subset
  <2> QED
    BY <2>2, <2>3 DEF OneClient
<1> QED
  BY <1>1, ControllerInduction, PTL

(* At most one recovery at work (_reconnect_task), and never more automatic connections
   in a row than len(reconnect_delays). *)
THEOREM RecoveriesAreBounded == CtlSpec => []RecoveryBounded
<1>1. CtlInv => RecoveryBounded
  BY DEF CtlInv, Sound, Steady, OneSupervisor, RecoveryBounded
<1> QED
  BY <1>1, ControllerInduction, PTL

(* At rest a ready session is the controller's own, was opened for the newest intent and
   is still wanted: no older _connect() and no recovery outlives a later command. *)
THEOREM LatestIntentIsKept == CtlSpec => []LatestIntentWins
<1>1. CtlInv => LatestIntentWins
  BY WorldIs DEF CtlInv, Sound, Steady, OnlyNewest, Ready, LatestIntentWins
<1> QED
  BY <1>1, ControllerInduction, PTL

(* The recovery opens no session after a Disconnect or a shutdown: only the end of a
   backoff raises the count, and it asks for the intent and the closing again. *)
THEOREM AttemptsAreWanted == CtlSpec => NoAttemptAfterDisconnect
<1>1. CtlInv /\ [CtlNext]_ctlVars =>
         [ctl'.autos > ctl.autos => ctl.last = "connect" /\ ~ctl.closed]_ctlVars
  <2> SUFFICES ASSUME CtlInv, [CtlNext]_ctlVars, ctl'.autos > ctl.autos
               PROVE  ctl.last = "connect" /\ ~ctl.closed
    OBVIOUS
  <2>1. ctl.autos \in Nat /\ ctl'.autos \in Nat
    <3>1. World \in WorldType /\ World' \in WorldType /\ World'.ctl = ctl'
      BY StepsOK DEF CtlInv, Sound, Steady, World
    <3> QED
      BY <3>1, WorldIs DEF CtlInv, WorldType, CtlType
  <2> QED
    BY <2>1, StepsOK
<1> QED
  BY <1>1, ControllerInduction, PTL DEF CtlSpec, NoAttemptAfterDisconnect

-----------------------------------------------------------------------------
(* What a Disconnect leaves behind.  Only a released client passes for disconnected; a       *)
(* native disconnect that left the link up was refused; and after a Disconnect a link that   *)
(* is there has either been refused, or somebody at work will still close it.                *)
Held(x) == x.client \in {"up", "closing"}
Hanging(w, k, n) == w.job[k].at \in {"native", "cleanup", "unwind"} /\ w.job[k].on = n
GivenUp(x) == x.state = "error" /\ (x.client = "up" => x.stuck)
Attends(w, k, n) ==
    /\ ~w.job[k].cancel
    /\ \/ w.job[k].pc = "cancelling"
       \/ (Leaving(w, k) \/ Opening(w, k)) /\ w.job[k].on = n

Down(w) == \A n \in Sessions : w.sess[n].state = "disconnected" => w.sess[n].client = "none"
Refused(w, K) == \A n \in Sessions, k \in K :
    w.sess[n].client = "up" /\ Hanging(w, k, n) => w.sess[n].stuck
Attended(w, K) == \A n \in Sessions :
    Held(w.sess[n]) => GivenUp(w.sess[n]) \/ \E k \in K : Attends(w, k, n)
Tidy(w, K, r) == /\ Down(w) /\ Refused(w, K)
                 /\ r = "running" /\ w.ctl.last = "disconnect" => Attended(w, K)

(* Nothing that Tidy() asks for has changed but the place of j. *)
Same(w, v, j) ==
    /\ \A k \in Jobs \ {j} : v.job[k] = w.job[k]
    /\ v.ctl.last = w.ctl.last
    /\ v.job[j].at \notin {"native", "cleanup", "unwind"}

(* A job that does nothing for a session may leave it. *)
LEMMA TidyAlone ==
    ASSUME NEW w, NEW j, NEW r, Tidy(w, Jobs, r),
           \A n \in Sessions : Held(w.sess[n]) => GivenUp(w.sess[n]) \/ ~Attends(w, j, n)
    PROVE  Tidy(w, Jobs \ {j}, r)
BY DEF Tidy, Refused, Attended

(* The job has moved, and it attends no session any more. *)
LEMMA TidyLeft ==
    ASSUME NEW w, NEW j, NEW r, Tidy(w, Jobs \ {j}, r), NEW v, Same(w, v, j), v.sess = w.sess
    PROVE  Tidy(v, Jobs, r)
<1>1. Down(v)
  BY DEF Tidy, Down
<1>2. Refused(v, Jobs)
  BY DEF Tidy, Refused, Same, Hanging
<1>3. ASSUME r = "running", v.ctl.last = "disconnect" PROVE Attended(v, Jobs)
  <2>1. \A k \in Jobs \ {j}, n \in Sessions : Attends(w, k, n) => Attends(v, k, n)
    BY DEF Same, Attends, Leaving, Opening
  <2>2. Attended(w, Jobs \ {j})
    BY <1>3 DEF Tidy, Same
  <2> QED
    BY <2>1, <2>2 DEF Attended
<1> QED
  BY <1>1, <1>2, <1>3 DEF Tidy

(* The job attends whatever is held. *)
LEMMA TidyAttended ==
    ASSUME NEW w, NEW j \in Jobs, NEW r, Down(w), Refused(w, Jobs \ {j}), NEW v,
           \A k \in Jobs \ {j} : v.job[k].at = w.job[k].at /\ v.job[k].on = w.job[k].on,
           \A n \in Sessions :
              \/ /\ v.sess[n].state = w.sess[n].state \/ v.sess[n].state # "disconnected"
                 /\ v.sess[n].client = w.sess[n].client /\ v.sess[n].stuck = w.sess[n].stuck
                 /\ ~Hanging(v, j, n)
              \/ v.sess[n].state # "disconnected" /\ v.sess[n].client = "closing",
           r = "running" => \A n \in Sessions : Held(v.sess[n]) => Attends(v, j, n)
    PROVE  Tidy(v, Jobs, r)
<1>1. Down(v)
  BY DEF Down
<1>2. Refused(v, Jobs)
  BY DEF Refused, Hanging
<1>3. r = "running" => Attended(v, Jobs)
  BY DEF Attended
<1> QED
  BY <1>1, <1>2, <1>3 DEF Tidy

(* A job that attends nothing ends. *)
LEMMA TidyEnded ==
    ASSUME NEW w \in WorldType, NEW j \in Jobs, NEW r, Tidy(w, Jobs \ {j}, r)
    PROVE  Tidy(Ended(w, j), Jobs, r)
<1>1. PICK v : v = Ended(w, j)
  OBVIOUS
<1>2. /\ v.sess = w.sess /\ v.ctl.last = w.ctl.last /\ v.job[j].at = "none"
      /\ \A k \in Jobs \ {j} : v.job[k] = w.job[k]
  BY <1>1, EndedIs
<1>3. Same(w, v, j)
  BY <1>2 DEF Same
<1> QED
  BY <1>1, <1>2, <1>3, TidyLeft

(* What is desired is no part of it. *)
Wishes(w, d) == [w EXCEPT !.ctl.desired = d]

(* A wish withdrawn or taken up again. *)
LEMMA DesiredIs ==
    ASSUME NEW w \in WorldType, NEW j \in Jobs, NEW r, NEW d \in BOOLEAN, NEW v, v = Wishes(w, d)
    PROVE  /\ v \in WorldType /\ v.job = w.job /\ v.sess = w.sess /\ v.ctl.made = w.ctl.made
           /\ v.ctl.last = w.ctl.last /\ v.ctl.session = w.ctl.session
           /\ v.ctl.intent = w.ctl.intent
           /\ Tidy(w, Jobs \ {j}, r) => Tidy(v, Jobs \ {j}, r)
<1>1. w.ctl \in CtlType
  BY DEF WorldType
<1>2. v.ctl = [w.ctl EXCEPT !.desired = d] /\ v.job = w.job /\ v.sess = w.sess /\ v \in WorldType
  BY <1>1 DEF WorldType, CtlType, Wishes
<1>3. /\ v.ctl.made = w.ctl.made /\ v.ctl.last = w.ctl.last
      /\ v.ctl.session = w.ctl.session /\ v.ctl.intent = w.ctl.intent
  BY <1>1, <1>2 DEF CtlType
<1>4. Tidy(w, Jobs \ {j}, r) => Tidy(v, Jobs \ {j}, r)
  BY <1>2, <1>3 DEF Tidy, Down, Refused, Attended, Hanging, Attends, Leaving, Opening
<1> QED
  BY <1>2, <1>3, <1>4

(* A session that has only begun to open holds no link. *)
LEMMA TidyOpened ==
    ASSUME NEW w \in WorldType, NEW j \in Jobs, NEW r, Tidy(w, Jobs \ {j}, r),
           NEW v, v = OpenSession(w, j), v \in WorldType
    PROVE  Tidy(v, Jobs, r)
<1>1. w.ctl.made + 1 \in Sessions
  <2>1. w.ctl \in CtlType /\ w.ctl.made \in Nat /\ v.ctl \in CtlType
    BY JobSets DEF WorldType, CtlType
  <2>2. PICK u : u = At(w, j, "connecting", "opening")
    OBVIOUS
  <2>3. u \in WorldType /\ u.ctl = w.ctl
    BY <2>2, AtIs
  <2>4. v.ctl.made = w.ctl.made + 1
    BY <2>1, <2>2, <2>3 DEF OpenSession, WorldType, CtlType
  <2>5. v.ctl.made \in 0..(MaxCommands + MaxTroubles)
    BY <2>1 DEF CtlType
  <2> QED
    BY <2>1, <2>4, <2>5, JobSets DEF Sessions
<1> DEFINE n == w.ctl.made + 1
<1>2. /\ \A k \in Jobs \ {j} : v.job[k] = w.job[k]
      /\ v.job[j].at = "opening" /\ v.ctl.last = w.ctl.last
      /\ \A m \in Sessions \ {n} : v.sess[m] = w.sess[m]
      /\ v.sess[n].state = "connecting" /\ v.sess[n].client = "opening"
  BY <1>1, OpenIs
<1> HIDE DEF n
<1>3. Down(v)
  BY <1>2 DEF Tidy, Down
<1>4. Refused(v, Jobs)
  <2> SUFFICES ASSUME NEW m \in Sessions, NEW k \in Jobs, v.sess[m].client = "up", Hanging(v, k, m)
               PROVE  v.sess[m].stuck
    BY DEF Refused
  <2>1. m # n /\ k # j
    BY <1>2 DEF Hanging
  <2>2. v.sess[m] = w.sess[m] /\ v.job[k] = w.job[k]
    BY <1>2, <2>1
  <2> QED
    BY <2>1, <2>2 DEF Tidy, Refused, Hanging
<1>5. ASSUME r = "running", v.ctl.last = "disconnect" PROVE Attended(v, Jobs)
  <2> SUFFICES ASSUME NEW m \in Sessions, Held(v.sess[m]), ~GivenUp(v.sess[m])
               PROVE  \E k \in Jobs : Attends(v, k, m)
    BY DEF Attended
  <2>1. m # n /\ v.sess[m] = w.sess[m]
    BY <1>2 DEF Held
  <2>2. PICK k \in Jobs \ {j} : Attends(w, k, m)
    BY <1>2, <1>5, <2>1 DEF Tidy, Attended
  <2>3. Attends(v, k, m)
    BY <1>2, <2>2 DEF Attends, Leaving, Opening
  <2> QED
    BY <2>3
<1> QED
  BY <1>3, <1>4, <1>5 DEF Tidy

(* Where a step of the loop may leave the world. *)
Lands(v, r) == v.ctl \in CtlType => v \in WorldType /\ Tidy(v, Jobs, r)

(* The end of a coroutine that attended nothing. *)
LEMMA EndedTidy ==
    ASSUME NEW w \in WorldType, NEW j \in Jobs, NEW r, Tidy(w, Jobs \ {j}, r)
    PROVE  Lands(Ended(w, j), r)
<1>1. PICK v : v = Ended(w, j)
  OBVIOUS
<1>2. v \in WorldType
  BY <1>1, EndedIs
<1>3. Tidy(v, Jobs, r)
  BY <1>1, TidyEnded
<1> QED
  BY <1>1, <1>2, <1>3 DEF Lands

(* The start of connect() on a new session. *)
LEMMA OpenTidy ==
    ASSUME NEW w \in WorldType, NEW j \in Jobs, NEW r, Tidy(w, Jobs \ {j}, r)
    PROVE  Lands(OpenSession(w, j), r)
<1>1. PICK v : v = OpenSession(w, j)
  OBVIOUS
<1> SUFFICES ASSUME v.ctl \in CtlType PROVE v \in WorldType /\ Tidy(v, Jobs, r)
  BY <1>1 DEF Lands
<1>2. w.ctl.made + 1 \in Sessions
  <2>1. w.ctl \in CtlType /\ w.ctl.made \in Nat
    BY JobSets DEF WorldType, CtlType
  <2>2. PICK u : u = At(w, j, "connecting", "opening")
    OBVIOUS
  <2>3. u \in WorldType /\ u.ctl = w.ctl
    BY <2>2, AtIs
  <2>4. v.ctl.made = w.ctl.made + 1
    BY <1>1, <2>1, <2>2, <2>3 DEF OpenSession, WorldType, CtlType
  <2>5. v.ctl.made \in 0..(MaxCommands + MaxTroubles)
    BY DEF CtlType
  <2> QED
    BY <2>1, <2>4, <2>5, JobSets DEF Sessions
<1>3. v \in WorldType
  BY <1>1, <1>2, OpenIs
<1> QED
  BY <1>1, <1>3, TidyOpened

(* The same, once the connection is wanted again. *)
LEMMA OpenWantedTidy ==
    ASSUME NEW w \in WorldType, NEW j \in Jobs, NEW r, Tidy(w, Jobs \ {j}, r)
    PROVE  Lands(OpenWanted(w, j), r)
<1>1. PICK v : v = Wishes(w, TRUE)
  OBVIOUS
<1>2. v \in WorldType /\ Tidy(v, Jobs \ {j}, r)
  BY <1>1, DesiredIs
<1>3. Lands(OpenSession(v, j), r)
  BY <1>2, OpenTidy
<1> QED
  BY <1>1, <1>3 DEF OpenWanted, Wishes

(* The next round of the recovery, or its end. *)
LEMMA NextAttemptTidy ==
    ASSUME NEW w \in WorldType, NEW j \in Jobs, NEW r, Tidy(w, Jobs \ {j}, r)
    PROVE  Lands(NextAttempt(w, j), r)
<1>1. Lands(Ended(w, j), r) /\ Lands(Ended(Unwanted(w), j), r)
  <2>1. PICK u : u = Wishes(w, FALSE)
    OBVIOUS
  <2>2. u \in WorldType /\ Tidy(u, Jobs \ {j}, r)
    BY <2>1, DesiredIs
  <2>3. Lands(Ended(u, j), r)
    BY <2>2, EndedTidy
  <2> QED
    BY <2>1, <2>3, EndedTidy DEF Unwanted, Wishes
<1>2. CASE w.job[j].attempt < Attempts
  <2>1. PICK u : u = At(w, j, "backoff", "none")
    OBVIOUS
  <2>2. PICK v : v = [u EXCEPT !.job[j].attempt = @ + 1]
    OBVIOUS
  <2>3. /\ u \in WorldType /\ u.ctl = w.ctl /\ u.sess = w.sess /\ u.job[j].at = "none"
        /\ u.job[j].attempt = w.job[j].attempt /\ \A k \in Jobs \ {j} : u.job[k] = w.job[k]
    BY <2>1, AtIs
  <2>4. u.job \in [Jobs -> JobType] /\ u.job[j] \in JobType /\ u.job[j].attempt + 1 \in 0..Attempts
    BY <1>2, <2>3, JobSets DEF WorldType, JobType
  <2>5. PICK x : x = [u.job[j] EXCEPT !.attempt = u.job[j].attempt + 1]
    OBVIOUS
  <2>6. x \in JobType /\ x.at = "none"
    BY <2>3, <2>4, <2>5 DEF JobType
  <2>7. v = [u EXCEPT !.job[j] = x]
    BY <2>2, <2>3, <2>4, <2>5 DEF WorldType
  <2>8. v.job = [u.job EXCEPT ![j] = x] /\ v.ctl = u.ctl /\ v.sess = u.sess /\ v \in WorldType
    BY <2>3, <2>4, <2>6, <2>7 DEF WorldType
  <2>9. Same(w, v, j)
    BY <2>3, <2>4, <2>6, <2>8 DEF Same
  <2>10. Tidy(v, Jobs, r)
    BY <2>3, <2>8, <2>9, TidyLeft
  <2>11. Lands(v, r)
    BY <2>8, <2>10 DEF Lands
  <2>12. ~(w.job[j].attempt >= Attempts)
    BY <1>2, JobSets DEF WorldType, JobType
  <2> QED
    BY <1>1, <2>1, <2>2, <2>11, <2>12 DEF NextAttempt
<1>3. CASE ~(w.job[j].attempt < Attempts)
  <2>1. w.job[j].attempt >= Attempts
    BY <1>3, JobSets DEF WorldType, JobType
  <2> QED
    BY <1>1, <2>1 DEF NextAttempt
<1> QED
  BY <1>2, <1>3

(* The wait for the release attends nothing. *)
LEMMA AwaitReleaseTidy ==
    ASSUME NEW w \in WorldType, NEW j \in Jobs, NEW r, Tidy(w, Jobs \ {j}, r)
    PROVE  Lands(AwaitRelease(w, j), r)
<1>1. PICK v : v = At(w, j, "waiting", "none")
  OBVIOUS
<1>2. /\ v \in WorldType /\ v.ctl = w.ctl /\ v.sess = w.sess /\ v.job[j].at = "none"
      /\ \A k \in Jobs \ {j} : v.job[k] = w.job[k]
  BY <1>1, AtIs
<1>3. Same(w, v, j)
  BY <1>2 DEF Same
<1>4. Tidy(v, Jobs, r)
  BY <1>2, <1>3, TidyLeft
<1>5. Lands(v, r)
  BY <1>2, <1>4 DEF Lands
<1>6. Lands(Ended(w, j), r) /\ Lands(OpenWanted(w, j), r) /\ Lands(NextAttempt(w, j), r)
  BY EndedTidy, OpenWantedTidy, NextAttemptTidy
<1>7. AwaitRelease(w, j) \in {Ended(w, j), OpenWanted(w, j), NextAttempt(w, j), v}
  BY <1>1 DEF AwaitRelease
<1> QED
  BY <1>5, <1>6, <1>7

(* What the caller of disconnect() goes on with. *)
LEMMA AfterDisconnectTidy ==
    ASSUME NEW w \in WorldType, NEW j \in Jobs, NEW r, Tidy(w, Jobs \ {j}, r), NEW raised
    PROVE  Lands(AfterDisconnect(w, j, raised), r)
<1>1. Lands(AwaitRelease(w, j), r) /\ Lands(Ended(w, j), r)
  BY AwaitReleaseTidy, EndedTidy
<1> QED
  BY <1>1 DEF AfterDisconnect

(* connect() raised. *)
LEMMA ConnectRaisedTidy ==
    ASSUME NEW w \in WorldType, NEW j \in Jobs, NEW r, Tidy(w, Jobs \ {j}, r)
    PROVE  Lands(ConnectRaised(w, j), r)
<1>1. PICK u : u = Wishes(w, FALSE)
  OBVIOUS
<1>2. u \in WorldType /\ Tidy(u, Jobs \ {j}, r)
  BY <1>1, DesiredIs
<1>3. Lands(Ended(u, j), r) /\ Lands(Ended(w, j), r) /\ Lands(AwaitRelease(w, j), r)
  BY <1>2, EndedTidy, AwaitReleaseTidy
<1> QED
  BY <1>1, <1>3 DEF ConnectRaised, Unwanted, Wishes

(* A job on its way through disconnect(): it attends the newest session, or none. *)
Quits(w, j, r) ==
    /\ w \in WorldType /\ OnlyNewest(w) /\ Down(w) /\ Refused(w, Jobs \ {j})
    /\ Leaving(w, j) /\ w.job[j].on \in Sessions
    /\ \/ w.job[j].on = w.ctl.made /\ (r = "running" => ~w.job[j].cancel)
       \/ w.job[j].on # w.ctl.made /\ Tidy(w, Jobs \ {j}, r)

(* The session of the job has no client any more, or the link stays and that is known. *)
Settles(x, state) == x.client = "none" \/ (state = "error" /\ (x.client = "up" => x.stuck))
(* The last state of a session tells whether its link is still there. *)
LEMMA SettledTidy ==
    ASSUME NEW w \in WorldType, NEW j \in Jobs, NEW r, NEW n \in Sessions, OnlyNewest(w), Down(w),
           Refused(w, Jobs \ {j}), n = w.ctl.made \/ Tidy(w, Jobs \ {j}, r),
           NEW state \in States, Settles(w.sess[n], state), NEW v, v = WithState(w, n, state)
    PROVE  /\ v \in WorldType /\ v.job = w.job /\ v.ctl = w.ctl
           /\ \A m \in Sessions : v.sess[m].client = w.sess[m].client
           /\ Tidy(v, Jobs \ {j}, r)
<1>1. /\ v \in WorldType /\ v.job = w.job /\ v.ctl = w.ctl /\ v.sess[n].state = state
      /\ \A m \in Sessions \ {n} : v.sess[m] = w.sess[m]
      /\ \A m \in Sessions : v.sess[m].client = w.sess[m].client /\ v.sess[m].stuck = w.sess[m].stuck
  BY StateIs
<1>2. Down(v)
  BY <1>1 DEF Down, Settles
<1>3. Refused(v, Jobs \ {j})
  BY <1>1 DEF Refused, Hanging
<1>4. ASSUME r = "running", w.ctl.last = "disconnect", NEW m \in Sessions, Held(v.sess[m])
      PROVE  GivenUp(v.sess[m]) \/ \E k \in Jobs \ {j} : Attends(v, k, m)
  <2>1. CASE m = n
    BY <1>1, <1>4, <2>1 DEF Held, GivenUp, Settles
  <2>2. CASE m # n
    <3>1. v.sess[m] = w.sess[m] /\ m # w.ctl.made => w.sess[m].client = "none"
      BY <1>1, <2>2 DEF OnlyNewest
    <3>2. Tidy(w, Jobs \ {j}, r)
      BY <1>1, <1>4, <2>2, <3>1 DEF Held
    <3>3. GivenUp(w.sess[m]) \/ \E k \in Jobs \ {j} : Attends(w, k, m)
      BY <1>1, <1>4, <2>2, <3>2 DEF Tidy, Attended
    <3> QED
      BY <1>1, <2>2, <3>3 DEF Attends, Leaving, Opening
  <2> QED
    BY <2>1, <2>2
<1>5. Tidy(v, Jobs \ {j}, r)
  BY <1>1, <1>2, <1>3, <1>4 DEF Tidy, Attended
<1> QED
  BY <1>1, <1>5

(* disconnect() has come to its end. *)
LEMMA DisconnectedTidy ==
    ASSUME NEW w, NEW j \in Jobs, NEW r, Quits(w, j, r),
           On(w, j).client = "none" \/ (On(w, j).client = "up" /\ On(w, j).stuck)
    PROVE  Lands(Disconnected(w, j), r)
<1>1. PICK n \in Sessions : n = w.job[j].on
  BY DEF Quits
<1>7. /\ w \in WorldType /\ OnlyNewest(w) /\ Down(w) /\ Refused(w, Jobs \ {j})
      /\ n = w.ctl.made \/ Tidy(w, Jobs \ {j}, r)
  BY <1>1 DEF Quits
<1>2. PICK state \in States : state = IF Connected(On(w, j)) THEN "error" ELSE "disconnected"
  BY DEF States
<1>3. Settles(w.sess[n], state)
  BY <1>1, <1>2 DEF Settles, Connected, On
<1>4. PICK v : v = WithState(w, n, state)
  OBVIOUS
<1>5. v \in WorldType /\ Tidy(v, Jobs \ {j}, r)
  BY <1>3, <1>4, <1>7, SettledTidy
<1>6. Lands(AfterDisconnect(v, j, Connected(On(w, j))), r)
  BY <1>5, AfterDisconnectTidy
<1> QED
  BY <1>1, <1>2, <1>4, <1>6 DEF Disconnected, WithState

(* The native disconnect is awaited, or there is nothing to disconnect. *)
LEMMA HangUpTidy ==
    ASSUME NEW w, NEW j \in Jobs, NEW r, Quits(w, j, r)
    PROVE  Lands(HangUp(w, j), r)
<1>4. PICK n \in Sessions : n = w.job[j].on
  BY DEF Quits
<1>1. w \in WorldType /\ OnlyNewest(w) /\ Down(w) /\ Refused(w, Jobs \ {j})
      /\ Leaving(w, j)
  BY DEF Quits
<1>2. CASE w.sess[n].client = "none"
  <2>1. On(w, j).client = "none"
    BY <1>2, <1>4 DEF On
  <2>2. Lands(Disconnected(w, j), r)
    BY <2>1, DisconnectedTidy
  <2> QED
    BY <2>1, <2>2 DEF HangUp
<1>3. CASE w.sess[n].client # "none"
  <2>1. n = w.ctl.made /\ (r = "running" => ~w.job[j].cancel)
    BY <1>1, <1>3, <1>4 DEF Quits, OnlyNewest
  <2>2. PICK u : u = At(w, j, w.job[j].pc, "native")
    OBVIOUS
  <2>3. PICK v : v = [u EXCEPT !.sess[n].client = "closing", !.sess[n].stuck = FALSE]
    OBVIOUS
  <2>4. /\ u \in WorldType /\ u.ctl = w.ctl /\ u.sess = w.sess
        /\ \A k \in Jobs \ {j} : u.job[k] = w.job[k]
        /\ u.job[j].pc = w.job[j].pc /\ u.job[j].on = n /\ u.job[j].cancel = w.job[j].cancel
    <3>1. w.job[j].pc \in {"closing", "undoing"}
      BY <1>1 DEF Leaving
    <3> QED
      BY <1>1, <1>4, <2>2, <3>1, AtIs
  <2>15. u.sess[n] \in SessionType
    BY <2>4 DEF WorldType
  <2>5. PICK y : y = [u.sess[n] EXCEPT !.client = "closing", !.stuck = FALSE]
    OBVIOUS
  <2>6. /\ y \in SessionType /\ y.client = "closing" /\ y.state = w.sess[n].state
    BY <2>4, <2>5, <2>15 DEF SessionType
  <2>7. v = [u EXCEPT !.sess[n] = y]
    BY <1>1, <2>3, <2>4, <2>5 DEF WorldType
  <2>8. /\ v \in WorldType /\ v.job = u.job /\ v.ctl = u.ctl /\ v.sess[n] = y
        /\ \A m \in Sessions \ {n} : v.sess[m] = u.sess[m]
    <3>1. u \in WorldType /\ n \in Sessions /\ y \in SessionType
      BY <1>4, <2>4, <2>6
    <3>2. u.sess \in [Sessions -> SessionType]
      BY <3>1 DEF WorldType
    <3>3. v.sess = [u.sess EXCEPT ![n] = y] /\ v.job = u.job /\ v.ctl = u.ctl /\ v \in WorldType
      BY <2>7, <3>1, <3>2 DEF WorldType
    <3> QED
      BY <3>1, <3>2, <3>3
  <2>9. /\ v.sess[n].state # "disconnected" /\ v.sess[n].client = "closing"
        /\ \A m \in Sessions \ {n} : v.sess[m] = w.sess[m]
    BY <1>1, <1>3, <2>4, <2>6, <2>8 DEF Down
  <2>10. /\ v.job[j].on = n /\ Leaving(v, j) /\ v.job[j].cancel = w.job[j].cancel
         /\ \A k \in Jobs \ {j} : v.job[k] = w.job[k]
    BY <1>1, <2>4, <2>8 DEF Leaving
  <2>11. r = "running" => \A m \in Sessions : Held(v.sess[m]) => Attends(v, j, m)
    BY <1>1, <2>1, <2>9, <2>10 DEF Held, Attends, OnlyNewest
  <2>12. \A m \in Sessions \ {n} : ~Hanging(v, j, m)
    BY <2>10 DEF Hanging
  <2>13. Tidy(v, Jobs, r)
    BY <1>1, <2>9, <2>10, <2>11, <2>12, TidyAttended
  <2>14. Lands(v, r)
    BY <2>8, <2>13 DEF Lands
  <2> QED
    BY <1>3, <1>4, <2>2, <2>3, <2>14 DEF HangUp, On
<1> QED
  BY <1>2, <1>3

(* The job awaits something on its way, and goes on attending the newest session. *)
LEMMA LeavingTidy ==
    ASSUME NEW w, NEW j \in Jobs, NEW r, Quits(w, j, r), w.job[j].on = w.ctl.made,
           NEW at \in {"teardown", "join", "notify"}, NEW v, v \in WorldType, v.sess = w.sess,
           \A k \in Jobs \ {j} : v.job[k].at = w.job[k].at /\ v.job[k].on = w.job[k].on,
           v.job[j].at = at, v.job[j].pc = w.job[j].pc, v.job[j].on = w.job[j].on,
           v.job[j].cancel = w.job[j].cancel
    PROVE  Lands(v, r)
<1>1. /\ OnlyNewest(w) /\ Down(w) /\ Refused(w, Jobs \ {j}) /\ Leaving(w, j)
      /\ r = "running" => ~w.job[j].cancel
  BY DEF Quits
<1>2. r = "running" => \A m \in Sessions : Held(v.sess[m]) => Attends(v, j, m)
  BY <1>1 DEF Held, Attends, OnlyNewest, Leaving
<1>3. \A m \in Sessions : ~Hanging(v, j, m)
  BY DEF Hanging
<1>4. Tidy(v, Jobs, r)
  BY <1>1, <1>2, <1>3, TidyAttended
<1> QED
  BY <1>4 DEF Lands

(* stop_notify() comes before it, if the link still answers. *)
LEMMA StopNotifyTidy ==
    ASSUME NEW w, NEW j \in Jobs, NEW r, Quits(w, j, r)
    PROVE  Lands(StopNotify(w, j), r)
<1>1. Lands(HangUp(w, j), r)
  BY HangUpTidy
<1>2. ASSUME On(w, j).client = "up"
      PROVE  Lands(At(w, j, w.job[j].pc, "notify"), r)
  <2>1. w.job[j].on = w.ctl.made /\ w \in WorldType /\ w.job[j].pc \in {"closing", "undoing"}
    BY <1>2 DEF Quits, OnlyNewest, On, Leaving
  <2>2. PICK v : v = At(w, j, w.job[j].pc, "notify")
    OBVIOUS
  <2>3. /\ v \in WorldType /\ v.sess = w.sess /\ \A k \in Jobs \ {j} : v.job[k] = w.job[k]
        /\ v.job[j].at = "notify" /\ v.job[j].pc = w.job[j].pc
        /\ v.job[j].on = w.job[j].on /\ v.job[j].cancel = w.job[j].cancel
    BY <2>1, <2>2, AtIs
  <2>4. Lands(v, r)
    BY <2>1, <2>3, LeavingTidy
  <2> QED
    BY <2>2, <2>4
<1> QED
  BY <1>1, <1>2 DEF StopNotify

(* disconnect() joins a connect(), then a teardown, before it goes on. *)
LEMMA JoinConnectTidy ==
    ASSUME NEW w, NEW j \in Jobs, NEW r, Quits(w, j, r),
           w.job[j].joins # Nobody => w.job[j].joins \in Jobs \ {j} /\ w.job[j].on = w.ctl.made
    PROVE  Lands(JoinConnect(w, j), r)
<1>1. w \in WorldType /\ w.job[j].pc \in {"closing", "undoing"}
  BY DEF Quits, Leaving
<1>2. ASSUME w.job[j].joins # Nobody, Live(w, w.job[j].joins)
      PROVE  Lands(At(Cancelled(w, w.job[j].joins), j, w.job[j].pc, "join"), r)
  <2>1. PICK u : u = Cancelled(w, w.job[j].joins)
    OBVIOUS
  <2>2. IsCancelled(w, u, w.job[j].joins)
    BY <1>1, <1>2, <2>1, CancelledIs
  <2>3. /\ u \in WorldType /\ u.sess = w.sess /\ u.job[j] = w.job[j]
        /\ \A k \in Jobs : u.job[k].at = w.job[k].at /\ u.job[k].on = w.job[k].on
    BY <1>2, <2>2 DEF IsCancelled
  <2>4. PICK v : v = At(u, j, w.job[j].pc, "join")
    OBVIOUS
  <2>5. /\ v \in WorldType /\ v.sess = u.sess /\ \A k \in Jobs \ {j} : v.job[k] = u.job[k]
        /\ v.job[j].at = "join" /\ v.job[j].pc = w.job[j].pc
        /\ v.job[j].on = u.job[j].on /\ v.job[j].cancel = u.job[j].cancel
    BY <1>1, <2>3, <2>4, AtIs
  <2>6. Lands(v, r)
    BY <1>2, <2>3, <2>5, LeavingTidy
  <2> QED
    BY <2>1, <2>4, <2>6
<1>3. ASSUME TearingDown(On(w, j))
      PROVE  Lands(At(w, j, w.job[j].pc, "teardown"), r)
  <2>1. w.job[j].on = w.ctl.made
    BY <1>3 DEF Quits, OnlyNewest, On, TearingDown
  <2>2. PICK v : v = At(w, j, w.job[j].pc, "teardown")
    OBVIOUS
  <2>3. /\ v \in WorldType /\ v.sess = w.sess /\ \A k \in Jobs \ {j} : v.job[k] = w.job[k]
        /\ v.job[j].at = "teardown" /\ v.job[j].pc = w.job[j].pc
        /\ v.job[j].on = w.job[j].on /\ v.job[j].cancel = w.job[j].cancel
    BY <1>1, <2>2, AtIs
  <2>4. Lands(v, r)
    BY <2>1, <2>3, LeavingTidy
  <2> QED
    BY <2>2, <2>4
<1>4. Lands(StopNotify(w, j), r)
  BY StopNotifyTidy
<1> QED
  BY <1>2, <1>3, <1>4 DEF JoinConnect

(* A job that enters disconnect() for the newest session. *)
Enters(w, j, r) ==
    /\ w \in WorldType /\ OnlyNewest(w) /\ Down(w) /\ Refused(w, Jobs \ {j})
    /\ r = "running" => ~w.job[j].cancel

(* disconnect() from its start. *)
LEMMA DisconnectTidy ==
    ASSUME NEW w, NEW j \in Jobs, NEW r, Enters(w, j, r), NEW pc \in {"closing", "undoing"},
           NEW n \in Sessions, n = w.ctl.made
    PROVE  Lands(Disconnect(w, j, pc, n), r)
<1> DEFINE connecting == {i \in Jobs \ {j} : w.job[i].pc = "connecting" /\ w.job[i].on = n}
           k == IF connecting = {} THEN Nobody ELSE CHOOSE i \in connecting : TRUE
<1>1. /\ w \in WorldType /\ OnlyNewest(w) /\ Down(w) /\ Refused(w, Jobs \ {j})
      /\ r = "running" => ~w.job[j].cancel
  BY DEF Enters
<1>2. k \in Jobs \cup {Nobody} /\ (k # Nobody => k \in Jobs \ {j})
  BY JobSets
<1>3. PICK v : v = Entered(w, j, pc, n, k)
  OBVIOUS
<1>4. PICK u : u = Beside(w, j, pc, n)
  OBVIOUS
<1>5. Disconnect(w, j, pc, n) =
        IF w.sess[n].state = "disconnected" /\ k = Nobody /\ ~Connected(w.sess[n])
        THEN AfterDisconnect(u, j, FALSE)
        ELSE IF TearingDown(w.sess[n]) THEN v ELSE JoinConnect(v, j)
  BY <1>3, <1>4 DEF Disconnect, Entered, Beside
<1> HIDE DEF k, connecting
<1>6. /\ LeavesAs(w, v, j, pc, n)
      /\ v.job[j].joins = k /\ v.job[j].at = "teardown" /\ v.sess[n].state = "disconnecting"
      /\ \A m \in Sessions \ {n} : v.sess[m] = w.sess[m]
  BY <1>1, <1>2, <1>3, EnteredIs
<1>7. LeavesAs(w, u, j, pc, n) /\ u.sess = w.sess
  BY <1>1, <1>4, BesideIs
<1>8. /\ v \in WorldType /\ v.ctl = w.ctl /\ \A i \in Jobs \ {j} : v.job[i] = w.job[i]
      /\ v.job[j].pc = pc /\ v.job[j].on = n /\ v.job[j].cancel = w.job[j].cancel
      /\ \A m \in Sessions : v.sess[m].client = w.sess[m].client /\ v.sess[m].stuck = w.sess[m].stuck
  BY <1>6 DEF LeavesAs
<1>9. u \in WorldType /\ u.ctl = w.ctl /\ \A i \in Jobs \ {j} : u.job[i] = w.job[i]
  BY <1>7 DEF LeavesAs
<1>10. ASSUME w.sess[n].state = "disconnected" PROVE Lands(AfterDisconnect(u, j, FALSE), r)
  <2>1. \A m \in Sessions : u.sess[m].client = "none"
    BY <1>1, <1>7, <1>10 DEF Down, OnlyNewest
  <2>2. Down(u) /\ Refused(u, Jobs \ {j}) /\ Attended(u, Jobs \ {j})
    BY <2>1 DEF Down, Refused, Attended, Held
  <2>3. Tidy(u, Jobs \ {j}, r)
    BY <2>2 DEF Tidy
  <2> QED
    BY <1>9, <2>3, AfterDisconnectTidy
<1>11. Quits(v, j, r)
  <2>1. OnlyNewest(v)
    BY <1>1, <1>8 DEF OnlyNewest
  <2>2. Down(v)
    BY <1>1, <1>6, <1>8 DEF Down
  <2>3. Refused(v, Jobs \ {j})
    BY <1>1, <1>8 DEF Refused, Hanging
  <2>4. Leaving(v, j)
    BY <1>8 DEF Leaving
  <2> QED
    BY <1>1, <1>8, <2>1, <2>2, <2>3, <2>4 DEF Quits
<1>12. Lands(v, r)
  <2>1. OnlyNewest(v) /\ Down(v) /\ Refused(v, Jobs \ {j})
    BY <1>11 DEF Quits
  <2>2. r = "running" => \A m \in Sessions : Held(v.sess[m]) => Attends(v, j, m)
    BY <1>1, <1>8, <2>1 DEF Held, Attends, OnlyNewest, Leaving
  <2>3. \A m \in Sessions : ~Hanging(v, j, m)
    BY <1>6 DEF Hanging
  <2>4. Tidy(v, Jobs, r)
    BY <2>1, <2>2, <2>3, TidyAttended
  <2> QED
    BY <1>8, <2>4 DEF Lands
<1>13. Lands(JoinConnect(v, j), r)
  BY <1>2, <1>6, <1>8, <1>11, JoinConnectTidy
<1> QED
  BY <1>5, <1>10, <1>12, <1>13

(* connect() returned: what nobody wants any more is hung up again. *)
LEMMA ConnectReturnedTidy ==
    ASSUME NEW w, NEW j \in Jobs, NEW r, Enters(w, j, r), Connects(w, j, r)
    PROVE  Lands(ConnectReturned(w, j), r)
<1>1. PICK n \in Sessions : n = w.job[j].on /\ n = w.ctl.made
  BY DEF Connects
<1>2. /\ w \in WorldType /\ OnlyNewest(w) /\ Down(w) /\ Refused(w, Jobs \ {j})
      /\ r = "running" => ~w.job[j].cancel
  BY DEF Enters
<1>3. PICK u : u = Readied(w, n)
  OBVIOUS
<1>4. /\ u \in WorldType /\ u.job = w.job
      /\ u.ctl.session = w.ctl.session /\ u.ctl.made = w.ctl.made /\ u.ctl.last = w.ctl.last
      /\ \A m \in Sessions \ {n} : u.sess[m] = w.sess[m]
      /\ \A m \in Sessions : u.sess[m].client = w.sess[m].client /\ u.sess[m].stuck = w.sess[m].stuck
  <2>1. IsReadied(w, u, n)
    BY <1>2, <1>3, ReadiedIs
  <2> QED
    BY <2>1 DEF IsReadied
<1>9. u.sess[n].state = "ready"
  <2>1. w.sess \in [Sessions -> SessionType] /\ w.sess[n] \in SessionType
    BY <1>2 DEF WorldType
  <2>2. u.sess = [w.sess EXCEPT ![n].state = "ready"]
    BY <1>2, <1>3 DEF Readied, WorldType
  <2> QED
    BY <2>1, <2>2 DEF SessionType
<1>5. Down(u) /\ Refused(u, Jobs \ {j}) /\ OnlyNewest(u)
  BY <1>2, <1>4, <1>9 DEF Down, Refused, Hanging, OnlyNewest
<1>6. Lands(Disconnect(u, j, "undoing", n), r)
  <2>1. Enters(u, j, r)
    BY <1>2, <1>4, <1>5 DEF Enters
  <2> QED
    BY <1>1, <1>4, <2>1, DisconnectTidy
<1>7. ASSUME IntentIsCurrent(w, j) PROVE Lands(Ended(u, j), r)
  <2>1. Tidy(u, Jobs \ {j}, r)
    BY <1>4, <1>5, <1>7 DEF Tidy, Connects
  <2> QED
    BY <1>4, <2>1, EndedTidy
<1> QED
  BY <1>1, <1>3, <1>6, <1>7 DEF ConnectReturned, Readied, RecoveryIsCurrent

(* connect() was cancelled. *)
LEMMA ConnectCancelledTidy ==
    ASSUME NEW w \in WorldType, NEW j \in Jobs, NEW r, OnlyNewest(w), Tidy(w, Jobs \ {j}, r),
           w.job[j].on \in Sessions, w.job[j].on = w.ctl.made
    PROVE  Lands(ConnectCancelled(w, j), r)
<1>1. Lands(ConnectRaised(w, j), r)
  BY ConnectRaisedTidy
<1>2. PICK v : v = Uncancel(w, j)
  OBVIOUS
<1>3. /\ v \in WorldType /\ v.ctl = w.ctl /\ v.sess = w.sess
      /\ \A i \in Jobs \ {j} : v.job[i] = w.job[i]
      /\ v.job[j].on = w.job[j].on /\ v.job[j].cancel = FALSE
  <2>1. IsUncancel(w, v, j)
    BY <1>2, UncancelIs
  <2> QED
    BY <2>1 DEF IsUncancel
<1>4. Enters(v, j, r)
  BY <1>3 DEF Enters, OnlyNewest, Tidy, Down, Refused, Hanging
<1>5. Lands(Disconnect(v, j, "undoing", w.job[j].on), r)
  BY <1>3, <1>4, DisconnectTidy
<1> QED
  BY <1>1, <1>2, <1>5 DEF ConnectCancelled, ConnectRaised, Uncancel

(* A command goes on once no recovery is left. *)
LEMMA AfterCancelReconnectTidy ==
    ASSUME NEW w, NEW j \in Jobs, NEW r, Enters(w, j, r)
    PROVE  Lands(AfterCancelReconnect(w, j), r)
<1>1. /\ w \in WorldType /\ OnlyNewest(w) /\ Down(w) /\ Refused(w, Jobs \ {j})
      /\ r = "running" => ~w.job[j].cancel
  BY DEF Enters
<1>2. PICK v : v = IF w.job[j].kind = "connect" THEN Unwanted(w) ELSE w
  OBVIOUS
<1>3. /\ v \in WorldType /\ v.job = w.job /\ v.sess = w.sess
      /\ v.ctl.made = w.ctl.made /\ v.ctl.session = w.ctl.session
  <2>1. PICK x : x = Wishes(w, FALSE)
    OBVIOUS
  <2>2. /\ x \in WorldType /\ x.job = w.job /\ x.sess = w.sess
        /\ x.ctl.made = w.ctl.made /\ x.ctl.session = w.ctl.session
    BY <1>1, <2>1, DesiredIs
  <2> QED
    BY <1>1, <1>2, <2>1, <2>2 DEF Unwanted, Wishes
<1>4. Enters(v, j, r)
  BY <1>1, <1>3 DEF Enters, OnlyNewest, Down, Refused, Hanging
<1>5. CASE w.ctl.session # Nobody
  <2>1. PICK n \in Sessions : n = w.ctl.session /\ n = v.ctl.made
    <3>1. w.ctl.session \in Sessions \cup {Nobody} /\ w.ctl.session = w.ctl.made
      BY <1>1 DEF WorldType, CtlType, OnlyNewest
    <3> QED
      BY <1>3, <1>5, <3>1
  <2>2. Lands(Disconnect(v, j, "closing", n), r)
    BY <1>4, <2>1, DisconnectTidy
  <2> QED
    BY <1>2, <1>5, <2>1, <2>2 DEF AfterCancelReconnect
<1>6. CASE w.ctl.session = Nobody
  <2>1. \A m \in Sessions : v.sess[m].client = "none"
    BY <1>1, <1>3, <1>6, JobSets DEF OnlyNewest
  <2>2. Down(v) /\ Refused(v, Jobs \ {j}) /\ Attended(v, Jobs \ {j})
    BY <2>1 DEF Down, Refused, Attended, Held
  <2>3. Tidy(v, Jobs \ {j}, r)
    BY <2>2 DEF Tidy
  <2>4. Lands(OpenWanted(v, j), r) /\ Lands(Ended(v, j), r)
    BY <1>3, <2>3, OpenWantedTidy, EndedTidy
  <2> QED
    BY <1>2, <1>6, <2>4 DEF AfterCancelReconnect
<1> QED
  BY <1>5, <1>6

-----------------------------------------------------------------------------
(* Every step of the loop lands in such a world. *)
Swept == /\ Sound(World, worker, troubles) /\ troubles \in 0..MaxTroubles
         /\ Tidy(World, Jobs, worker) /\ World' \in WorldType

(* The step that lands there. *)
LEMMA LandsTidy ==
    ASSUME NEW v, Becomes(v), Lands(v, worker), World' \in WorldType, worker' = worker
    PROVE  Tidy(World', Jobs, worker')
<1>1. World'.ctl = v.ctl /\ World'.job = v.job /\ World'.sess = v.sess
  BY DEF Becomes, World
<1>2. v.ctl \in CtlType
  BY <1>1 DEF WorldType
<1>3. Tidy(v, Jobs, worker)
  BY <1>2 DEF Lands
<1>4. PICK u : u = World'
  OBVIOUS
<1>5. Tidy(u, Jobs, worker)
  BY <1>1, <1>3, <1>4 DEF Tidy, Down, Refused, Attended, Hanging, Attends, Leaving, Opening
<1> QED
  BY <1>4, <1>5

(* The parts of it that the steps use. *)
LEMMA SweptIs ==
    ASSUME Swept, NEW j \in Jobs
    PROVE  /\ World \in WorldType /\ JobOK(World, j, worker) /\ OnlyNewest(World)
           /\ Opened1(World, Jobs) /\ Joins(World, Jobs) /\ troubles \in Nat
           /\ Down(World) /\ Refused(World, Jobs) /\ Refused(World, Jobs \ {j})
<1>1. troubles \in Nat
  BY JobSets DEF Swept
<1>2. Refused(World, Jobs) /\ Down(World)
  BY DEF Swept, Tidy
<1>3. Refused(World, Jobs \ {j})
  BY <1>2 DEF Refused
<1> QED
  BY <1>1, <1>2, <1>3 DEF Swept, Sound, Steady

(* Who neither leaves nor opens a session, or was told to stop, attends none. *)
LEMMA IdlesTidy ==
    ASSUME NEW w, NEW r, Tidy(w, Jobs, r), NEW j \in Jobs,
           w.job[j].pc \notin {"cancelling", "closing", "undoing", "connecting"} \/ w.job[j].cancel
    PROVE  Tidy(w, Jobs \ {j}, r)
<1>1. \A n \in Sessions : ~Attends(w, j, n)
  BY DEF Attends, Leaving, Opening
<1> QED
  BY <1>1, TidyAlone

(* Nothing is held: everything is tidy. *)
LEMMA ReleasedTidy ==
    ASSUME NEW w, NEW K, NEW r, \A m \in Sessions : w.sess[m].client \notin {"up", "closing"}, Down(w)
    PROVE  Tidy(w, K, r)
<1>1. Refused(w, K) /\ Attended(w, K)
  BY DEF Refused, Attended, Held
<1> QED
  BY <1>1 DEF Tidy

(* A job on its way through disconnect() is one that quits. *)
LEMMA LeavesTidy ==
    ASSUME Swept, NEW j \in Jobs, Leaving(World, j), ~World.job[j].cancel
    PROVE  Quits(World, j, worker)
<1>1. /\ World \in WorldType /\ JobOK(World, j, worker) /\ OnlyNewest(World)
      /\ Down(World) /\ Refused(World, Jobs \ {j})
  BY SweptIs
<1>2. World.job[j].on \in Sessions
  <2>1. World.job[j] \in JobType
    BY <1>1 DEF WorldType
  <2>2. World.job[j].on # Nobody
    BY <1>1 DEF JobOK, Places, Leaving
  <2> QED
    BY <2>1, <2>2 DEF JobType
<1>3. World.job[j].on # World.ctl.made => Tidy(World, Jobs \ {j}, worker)
  <2> SUFFICES ASSUME World.job[j].on # World.ctl.made PROVE Tidy(World, Jobs \ {j}, worker)
    OBVIOUS
  <2>1. \A n \in Sessions : Held(World.sess[n]) => ~Attends(World, j, n)
    BY <1>1 DEF Held, OnlyNewest, Attends, Leaving
  <2> QED
    BY <2>1, TidyAlone DEF Swept
<1> QED
  BY <1>1, <1>2, <1>3 DEF Quits

(* The recovery task runs for the first time. *)
LEMMA RecoveryStartsTidy ==
    ASSUME Swept, NEW j \in Jobs, RecoveryStarts(j)
    PROVE  Tidy(World', Jobs, worker')
<1>1. World.job[j].pc = "created" /\ Becomes(AwaitRelease(World, j)) /\ worker' = worker
  BY WorldIs DEF RecoveryStarts, Resumes, Calm
<1>2. Tidy(World, Jobs \ {j}, worker)
  BY <1>1, IdlesTidy DEF Swept
<1>3. Lands(AwaitRelease(World, j), worker)
  BY <1>2, SweptIs, AwaitReleaseTidy
<1> QED
  BY <1>1, <1>3, LandsTidy DEF Swept

(* The wait for the release is over. *)
LEMMA ReleasedLinkTidy ==
    ASSUME Swept, NEW j \in Jobs, Released(j) \/ WaitIsStale(j)
    PROVE  Tidy(World', Jobs, worker')
<1>1. /\ World.job[j].pc = "waiting" /\ worker' = worker
      /\ Becomes(OpenWanted(World, j)) \/ Becomes(NextAttempt(World, j)) \/ Becomes(Ended(World, j))
  BY WorldIs DEF Released, WaitIsStale, Resumes, Calm
<1>2. Tidy(World, Jobs \ {j}, worker)
  BY <1>1, IdlesTidy DEF Swept
<1>3. /\ Lands(OpenWanted(World, j), worker) /\ Lands(NextAttempt(World, j), worker)
      /\ Lands(Ended(World, j), worker)
  BY <1>2, SweptIs, OpenWantedTidy, NextAttemptTidy, EndedTidy
<1> QED
  BY <1>1, <1>3, LandsTidy DEF Swept

(* The backoff is over: the next attempt, or the end. *)
LEMMA BackoffOverTidy ==
    ASSUME Swept, NEW j \in Jobs, BackoffOver(j)
    PROVE  Tidy(World', Jobs, worker')
<1>1. /\ World.job[j].pc = "backoff" /\ worker' = worker
      /\ Becomes(OpenSession(World, j)) \/ Becomes(Ended(World, j))
  BY WorldIs DEF BackoffOver, Resumes, Calm
<1>2. Tidy(World, Jobs \ {j}, worker)
  BY <1>1, IdlesTidy DEF Swept
<1>3. Lands(OpenSession(World, j), worker) /\ Lands(Ended(World, j), worker)
  BY <1>2, SweptIs, OpenTidy, EndedTidy
<1> QED
  BY <1>1, <1>3, LandsTidy DEF Swept

(* The teardown that disconnect() awaited is done. *)
LEMMA TornDownTidy ==
    ASSUME Swept, NEW j \in Jobs, TornDown(j)
    PROVE  Tidy(World', Jobs, worker')
<1>1. /\ World.job[j].pc \in {"closing", "undoing"} /\ World.job[j].at = "teardown"
      /\ ~World.job[j].cancel /\ Becomes(JoinConnect(World, j)) /\ worker' = worker
  BY WorldIs DEF TornDown, Resumes, Calm
<1>2. Quits(World, j, worker)
  BY <1>1, LeavesTidy DEF Leaving
<1>3. World.job[j].joins = Nobody
  BY <1>1, SweptIs DEF JobOK, Places
<1>4. Lands(JoinConnect(World, j), worker)
  BY <1>2, <1>3, JoinConnectTidy
<1> QED
  BY <1>1, <1>4, LandsTidy DEF Swept

(* stop_notify() returned. *)
LEMMA NotifyStoppedTidy ==
    ASSUME Swept, NEW j \in Jobs, NotifyStopped(j)
    PROVE  Tidy(World', Jobs, worker')
<1>1. /\ World.job[j].pc \in {"closing", "undoing"} /\ ~World.job[j].cancel
      /\ Becomes(HangUp(World, j)) /\ worker' = worker
  BY WorldIs DEF NotifyStopped, Resumes, Calm
<1>2. Lands(HangUp(World, j), worker)
  BY <1>1, LeavesTidy, HangUpTidy DEF Leaving
<1> QED
  BY <1>1, <1>2, LandsTidy DEF Swept

(* Forgetting whom it joined changes nothing for the job's session. *)
LEMMA UnjoinedTidy ==
    ASSUME NEW w \in WorldType, NEW j \in Jobs, NEW r, NEW v, v = Unjoined(w, j)
    PROVE  /\ v.job[j].joins = Nobody
           /\ Quits(w, j, r) => Quits(v, j, r)
           /\ Enters(w, j, r) => Enters(v, j, r)
<1>1. /\ v \in WorldType /\ v.ctl = w.ctl /\ v.sess = w.sess
      /\ \A i \in Jobs \ {j} : v.job[i] = w.job[i]
      /\ v.job[j].pc = w.job[j].pc /\ v.job[j].on = w.job[j].on
      /\ v.job[j].cancel = w.job[j].cancel /\ v.job[j].joins = Nobody
  <2>1. IsUnjoined(w, v, j)
    BY UnjoinedIs
  <2> QED
    BY <2>1 DEF IsUnjoined
<1>2. OnlyNewest(w) => OnlyNewest(v)
  BY <1>1 DEF OnlyNewest
<1>3. (Down(w) => Down(v)) /\ (Refused(w, Jobs \ {j}) => Refused(v, Jobs \ {j}))
  BY <1>1 DEF Down, Refused, Hanging
<1>4. Attended(w, Jobs \ {j}) => Attended(v, Jobs \ {j})
  BY <1>1 DEF Attended, Attends, Leaving, Opening
<1>5. Tidy(w, Jobs \ {j}, r) => Tidy(v, Jobs \ {j}, r)
  BY <1>1, <1>3, <1>4 DEF Tidy
<1>6. Leaving(w, j) => Leaving(v, j)
  BY <1>1 DEF Leaving
<1> QED
  BY <1>1, <1>2, <1>3, <1>5, <1>6 DEF Quits, Enters

(* The connect() that disconnect() cancelled is done. *)
LEMMA JoinedTidy ==
    ASSUME Swept, NEW j \in Jobs, Joined(j)
    PROVE  Tidy(World', Jobs, worker')
<1>1. /\ World.job[j].pc \in {"closing", "undoing"} /\ ~World.job[j].cancel
      /\ Becomes(JoinConnect(Unjoined(World, j), j)) /\ worker' = worker
  BY WorldIs DEF Joined, Resumes, Calm, Unjoined
<1>2. PICK v : v = Unjoined(World, j)
  OBVIOUS
<1>3. Quits(v, j, worker) /\ v.job[j].joins = Nobody
  BY <1>1, <1>2, LeavesTidy, SweptIs, UnjoinedTidy DEF Leaving
<1>4. Lands(JoinConnect(v, j), worker)
  BY <1>3, JoinConnectTidy
<1> QED
  BY <1>1, <1>2, <1>4, LandsTidy DEF Swept

(* The recovery that a command cancelled is done. *)
LEMMA GatheredTidy ==
    ASSUME Swept, NEW j \in Jobs, Gathered(j)
    PROVE  Tidy(World', Jobs, worker')
<1>1. /\ ~World.job[j].cancel /\ worker' = worker
      /\ Becomes(AfterCancelReconnect(Unjoined(World, j), j))
  BY WorldIs DEF Gathered, Resumes, Calm, Unjoined
<1>2. PICK v : v = Unjoined(World, j)
  OBVIOUS
<1>3. Enters(World, j, worker)
  BY <1>1, SweptIs DEF Enters
<1>4. Enters(v, j, worker)
  BY <1>2, <1>3, SweptIs, UnjoinedTidy
<1>5. Lands(AfterCancelReconnect(v, j), worker)
  BY <1>4, AfterCancelReconnectTidy
<1> QED
  BY <1>1, <1>2, <1>5, LandsTidy DEF Swept

(* The native disconnect returned: the link is down, or it is stuck and the state says so. *)
LEMMA HungUpTidy ==
    ASSUME Swept, NEW j \in Jobs, HungUp(j)
    PROVE  Tidy(World', Jobs, worker')
<1>1. PICK state \in States : state = IF Connected(On(World, j)) THEN "error" ELSE "disconnected"
  BY DEF States
<1>2. PICK n : n = World.job[j].on
  OBVIOUS
<1>3. /\ World.job[j].at = "native" /\ World.sess[n].client # "closing" /\ worker' = worker
      /\ Becomes(IF World.job[j].cancel THEN Ended(WithState(World, n, state), j) ELSE Disconnected(World, j))
  BY <1>1, <1>2, WorldIs DEF HungUp, Calm, WithState, On
<1>4. /\ World \in WorldType /\ JobOK(World, j, worker) /\ OnlyNewest(World)
      /\ Opened1(World, Jobs) /\ Joins(World, Jobs)
      /\ Down(World) /\ Refused(World, Jobs) /\ Refused(World, Jobs \ {j})
  BY SweptIs
<1>5. Leaving(World, j) /\ n \in Sessions
  <2>1. Leaving(World, j) /\ n # Nobody
    BY <1>2, <1>3, <1>4 DEF JobOK, Places, Leaving
  <2>2. n \in Sessions \cup {Nobody}
    BY <1>2, <1>4 DEF WorldType, JobType
  <2> QED
    BY <2>1, <2>2
<1>6. World.sess[n].client \in {"none", "up"}
  <2>1. World.sess[n].client # "opening"
    <3> SUFFICES ASSUME World.sess[n].client = "opening" PROVE FALSE
      OBVIOUS
    <3>1. n = World.ctl.made
      BY <1>4, <1>5 DEF OnlyNewest
    <3>2. PICK k \in Jobs : World.job[k].at = "opening"
      BY <1>4, <1>5 DEF Opened1
    <3>3. Opening(World, k)
      BY <3>2, SweptIs DEF JobOK, Places
    <3> QED
      BY <1>2, <1>3, <1>4, <1>5, <3>1, <3>3 DEF Joins
  <2>2. World.sess[n] \in SessionType
    BY <1>4, <1>5 DEF WorldType
  <2> QED
    BY <1>3, <2>1, <2>2 DEF SessionType
<1>7. World.sess[n].client = "up" => World.sess[n].stuck
  BY <1>2, <1>3, <1>4, <1>5 DEF Refused, Hanging
<1>8. CASE ~World.job[j].cancel
  <2>1. Quits(World, j, worker)
    BY <1>5, <1>8, LeavesTidy
  <2>2. On(World, j).client = "none" \/ (On(World, j).client = "up" /\ On(World, j).stuck)
    BY <1>2, <1>6, <1>7 DEF On
  <2>3. Lands(Disconnected(World, j), worker)
    BY <2>1, <2>2, DisconnectedTidy
  <2> QED
    BY <1>3, <1>8, <2>3, LandsTidy DEF Swept
<1>9. CASE World.job[j].cancel
  <2>1. Tidy(World, Jobs \ {j}, worker)
    BY <1>9, IdlesTidy DEF Swept
  <2>2. Settles(World.sess[n], state)
    BY <1>1, <1>2, <1>6, <1>7 DEF Settles, Connected, On
  <2>3. PICK v : v = WithState(World, n, state)
    OBVIOUS
  <2>4. v \in WorldType /\ Tidy(v, Jobs \ {j}, worker)
    BY <1>4, <1>5, <2>1, <2>2, <2>3, SettledTidy
  <2>5. Lands(Ended(v, j), worker)
    BY <2>4, EndedTidy
  <2> QED
    BY <1>3, <1>9, <2>3, <2>5, LandsTidy DEF Swept
<1> QED
  BY <1>8, <1>9

(* The setup of a session is done. *)
LEMMA SetupDoneTidy ==
    ASSUME Swept, NEW j \in Jobs, SetupDone(j)
    PROVE  Tidy(World', Jobs, worker')
<1>1. /\ Opening(World, j) /\ ~World.job[j].cancel /\ worker' = worker
      /\ Becomes(ConnectReturned(World, j))
  BY WorldIs DEF SetupDone, Resumes, Calm, Opening
<1>2. Connects(World, j, worker)
  BY <1>1, SweptIs, OpeningIs DEF Swept
<1>3. Enters(World, j, worker)
  BY <1>1, SweptIs DEF Enters
<1>4. Lands(ConnectReturned(World, j), worker)
  BY <1>2, <1>3, ConnectReturnedTidy
<1> QED
  BY <1>1, <1>4, LandsTidy DEF Swept

(* The session that was being opened has no client: nothing is held any more. *)
LEMMA NoClientTidy ==
    ASSUME NEW w, NEW v, NEW K, NEW r, OnlyNewest(w), Down(w),
           \A m \in Sessions \ {w.ctl.made} : v.sess[m] = w.sess[m],
           w.ctl.made \in Sessions => v.sess[w.ctl.made].client = "none"
    PROVE  Tidy(v, K, r)
<1>1. \A m \in Sessions : v.sess[m].client = "none"
  BY DEF OnlyNewest
<1>2. Down(v)
  BY <1>1 DEF Down
<1> QED
  BY <1>1, <1>2, ReleasedTidy

(* connect() finds its link gone. *)
LEMMA LinkIsGoneTidy ==
    ASSUME Swept, NEW j \in Jobs, LinkIsGone(j)
    PROVE  Tidy(World', Jobs, worker')
<1>1. /\ Opening(World, j) /\ On(World, j).client = "none" /\ worker' = worker
      /\ Becomes(ConnectRaised(World, j))
  BY WorldIs DEF LinkIsGone, Resumes, Calm, Opening
<1>2. World.ctl.made \in Sessions /\ On(World, j) = Newest(World)
  BY <1>1, SweptIs, OpeningIs DEF Swept
<1>3. Tidy(World, Jobs \ {j}, worker)
  BY <1>1, <1>2, SweptIs, NoClientTidy DEF Newest
<1>4. Lands(ConnectRaised(World, j), worker)
  BY <1>3, SweptIs, ConnectRaisedTidy
<1> QED
  BY <1>1, <1>4, LandsTidy DEF Swept

(* The native open fails. *)
LEMMA OpenFailsTidy ==
    ASSUME Swept, NEW j \in Jobs, OpenFails(j)
    PROVE  Tidy(World', Jobs, worker')
<1>1. /\ World.job[j].at = "opening" /\ worker' = worker
      /\ Becomes(ConnectRaised(Failed(World, World.job[j].on), j))
  BY WorldIs DEF OpenFails, Failed
<1>2. Opening(World, j)
  BY <1>1, SweptIs DEF JobOK, Places
<1>3. World \in WorldType /\ World.ctl.made \in Sessions /\ World.job[j].on = World.ctl.made
  BY <1>2, SweptIs, OpeningIs DEF Swept
<1>4. PICK n \in Sessions : n = World.ctl.made
  BY <1>3
<1>5. PICK x : x = [World.sess[n] EXCEPT !.client = "none", !.state = "error"]
  OBVIOUS
<1>6. x \in SessionType /\ x.client = "none"
  BY <1>3, <1>4, <1>5 DEF WorldType, SessionType
<1>7. PICK v : v = Failed(World, n)
  OBVIOUS
<1>8. v = [World EXCEPT !.sess[n] = x]
  BY <1>3, <1>4, <1>5, <1>7 DEF Failed, WorldType
<1>9. /\ v \in WorldType /\ v.sess[n] = x
      /\ \A m \in Sessions \ {n} : v.sess[m] = World.sess[m]
  <2>1. World \in WorldType
    BY <1>3
  <2>2. Turned(World, v, n)
    BY <1>4, <1>7, <2>1, EndingsAre
  <2>3. v.sess = [World.sess EXCEPT ![n] = x] /\ World.sess \in [Sessions -> SessionType]
    BY <1>8, <2>1 DEF WorldType
  <2> QED
    BY <1>4, <2>2, <2>3 DEF Turned
<1>10. Tidy(v, Jobs \ {j}, worker)
  BY <1>4, <1>6, <1>9, SweptIs, NoClientTidy
<1>11. Lands(ConnectRaised(v, j), worker)
  BY <1>9, <1>10, ConnectRaisedTidy
<1> QED
  BY <1>1, <1>3, <1>4, <1>7, <1>11, LandsTidy DEF Swept

(* The cleanup of a failed or a cancelled connect() is done. *)
LEMMA CleanedTidy ==
    ASSUME Swept, NEW j \in Jobs, Cleaned(j)
    PROVE  Tidy(World', Jobs, worker')
<1>1. PICK n : n = World.job[j].on
  OBVIOUS
<1>2. PICK ended \in States : ended = IF Connected(On(World, j)) THEN "error" ELSE "disconnected"
  BY DEF States
<1>3. /\ World.job[j].at \in {"cleanup", "unwind"} /\ World.sess[n].client # "closing"
      /\ Becomes(IF World.job[j].cancel THEN ConnectCancelled(World, j)
                 ELSE IF World.job[j].at = "cleanup" THEN ConnectRaised(WithState(World, n, "error"), j)
                 ELSE ConnectCancelled(WithState(World, n, ended), j))
      /\ worker' = worker
  BY <1>1, <1>2, WorldIs DEF Cleaned, Calm, WithState, On
<1>4. /\ World \in WorldType /\ JobOK(World, j, worker) /\ OnlyNewest(World)
      /\ Down(World) /\ Refused(World, Jobs) /\ Refused(World, Jobs \ {j}) /\ troubles \in Nat
  BY SweptIs
<1>5. Opening(World, j)
  BY <1>3, <1>4 DEF JobOK, Places
<1>6. n \in Sessions /\ n = World.ctl.made
  BY <1>1, <1>4, <1>5, OpeningIs DEF Swept
<1>7. World.sess[n].client \in {"none", "up"}
  <2>1. World.sess[n].client # "opening"
    BY <1>3, <1>4, <1>5, <1>6 DEF JobOK, Opens, Newest
  <2>2. World.sess[n] \in SessionType
    BY <1>4, <1>6 DEF WorldType
  <2> QED
    BY <1>3, <2>1, <2>2 DEF SessionType
<1>8. World.sess[n].client = "up" => World.sess[n].stuck
  BY <1>1, <1>3, <1>4, <1>6 DEF Refused, Hanging
<1>9. CASE World.job[j].cancel
  <2>1. Tidy(World, Jobs \ {j}, worker)
    BY <1>9, IdlesTidy DEF Swept
  <2>2. Lands(ConnectCancelled(World, j), worker)
    BY <1>1, <1>4, <1>6, <2>1, ConnectCancelledTidy
  <2> QED
    BY <1>3, <1>9, <2>2, LandsTidy DEF Swept
<1>10. CASE ~World.job[j].cancel
  <2>1. PICK state \in States : state = IF World.job[j].at = "cleanup" THEN "error" ELSE ended
    BY <1>2 DEF States
  <2>2. Settles(World.sess[n], state)
    BY <1>1, <1>2, <1>7, <1>8, <2>1 DEF Settles, Connected, On
  <2>3. PICK v : v = WithState(World, n, state)
    OBVIOUS
  <2>8. /\ World \in WorldType /\ OnlyNewest(World) /\ Down(World) /\ Refused(World, Jobs \ {j})
        /\ n = World.ctl.made \/ Tidy(World, Jobs \ {j}, worker)
    BY <1>4, <1>6
  <2>9. n \in Sessions /\ state \in States
    BY <1>6, <2>1
  <2>4. v \in WorldType /\ Tidy(v, Jobs \ {j}, worker)
    BY <2>2, <2>3, <2>8, <2>9, SettledTidy
  <2>10. /\ v.job = World.job /\ v.ctl = World.ctl
         /\ \A m \in Sessions : v.sess[m].client = World.sess[m].client
    BY <2>3, <2>8, <2>9, StateIs
  <2>5. OnlyNewest(v)
    BY <1>4, <2>10 DEF OnlyNewest
  <2>6. Lands(ConnectRaised(v, j), worker) /\ Lands(ConnectCancelled(v, j), worker)
    BY <1>1, <1>6, <2>4, <2>5, <2>10, ConnectRaisedTidy, ConnectCancelledTidy
  <2>7. Becomes(ConnectRaised(v, j)) \/ Becomes(ConnectCancelled(v, j))
    BY <1>3, <1>10, <2>1, <2>3
  <2> QED
    BY <1>3, <2>6, <2>7, LandsTidy DEF Swept
<1> QED
  BY <1>9, <1>10

(* What the steps inside connect() leave as it was. *)
IsShifted(w, v, j, n, at, client) ==
    /\ v \in WorldType /\ v.ctl = w.ctl
    /\ \A k \in Jobs \ {j} : v.job[k] = w.job[k]
    /\ v.job[j].pc = "connecting" /\ v.job[j].at = at
    /\ v.job[j].on = w.job[j].on /\ v.job[j].cancel = w.job[j].cancel
    /\ \A m \in Sessions \ {n} : v.sess[m] = w.sess[m]
    /\ v.sess[n].client = client /\ v.sess[n].state = w.sess[n].state

(* The step has just these effects. *)
LEMMA ShiftedIs ==
    ASSUME NEW w \in WorldType, NEW j \in Jobs, NEW n \in Sessions, NEW at \in {"setup", "cleanup"},
           NEW client \in {"up", "closing"}, NEW v, v = Shifted(w, j, n, at, client)
    PROVE  IsShifted(w, v, j, n, at, client)
<1>1. w.sess \in [Sessions -> SessionType] /\ w.sess[n] \in SessionType
  BY DEF WorldType
<1>2. PICK u : u = At(w, j, "connecting", at)
  OBVIOUS
<1>3. /\ u \in WorldType /\ u.ctl = w.ctl /\ u.sess = w.sess
      /\ \A k \in Jobs \ {j} : u.job[k] = w.job[k]
      /\ u.job[j].pc = "connecting" /\ u.job[j].at = at
      /\ u.job[j].on = w.job[j].on /\ u.job[j].cancel = w.job[j].cancel
  BY <1>2, AtIs
<1>4. PICK x : x = [w.sess[n] EXCEPT !.client = client]
  OBVIOUS
<1>5. x \in SessionType /\ x.client = client /\ x.state = w.sess[n].state
  BY <1>1, <1>4 DEF SessionType
<1>6. v = [u EXCEPT !.sess[n] = x]
  BY <1>1, <1>2, <1>3, <1>4 DEF Shifted, WorldType
<1>7. v.sess = [w.sess EXCEPT ![n] = x] /\ v.job = u.job /\ v.ctl = w.ctl /\ v \in WorldType
  BY <1>1, <1>3, <1>5, <1>6 DEF WorldType
<1>8. v.sess[n] = x /\ \A m \in Sessions \ {n} : v.sess[m] = w.sess[m]
  BY <1>1, <1>7
<1> QED
  BY <1>3, <1>5, <1>7, <1>8 DEF IsShifted

(* What a cancelled connect() leaves as it was when it starts to close its client. *)
IsUnwinding(w, v, j, n) ==
    /\ v \in WorldType /\ v.ctl = w.ctl
    /\ \A k \in Jobs \ {j} : v.job[k] = w.job[k]
    /\ v.job[j].pc = "connecting" /\ v.job[j].on = w.job[j].on /\ ~v.job[j].cancel
    /\ \A m \in Sessions \ {n} : v.sess[m] = w.sess[m]
    /\ v.sess[n].client = "closing" /\ v.sess[n].state = w.sess[n].state

(* The cancellation has just these effects. *)
LEMMA UnwindingIs ==
    ASSUME NEW w \in WorldType, NEW j \in Jobs, NEW n \in Sessions, NEW v, v = Unwinding(w, j, n)
    PROVE  IsUnwinding(w, v, j, n)
<1>1. /\ w.sess \in [Sessions -> SessionType] /\ w.sess[n] \in SessionType
      /\ w.job \in [Jobs -> JobType] /\ w.job[j] \in JobType
  BY DEF WorldType
<1>2. PICK y : y = [w.job[j] EXCEPT !.pc = "connecting", !.at = "unwind", !.cancel = FALSE]
  OBVIOUS
<1>3. y \in JobType /\ y.pc = "connecting" /\ y.on = w.job[j].on /\ y.cancel = FALSE
  BY <1>1, <1>2 DEF JobType
<1>4. PICK x : x = [w.sess[n] EXCEPT !.client = "closing"]
  OBVIOUS
<1>5. x \in SessionType /\ x.client = "closing" /\ x.state = w.sess[n].state
  BY <1>1, <1>4 DEF SessionType
<1>6. v = [w EXCEPT !.job[j] = y, !.sess[n] = x]
  BY <1>1, <1>2, <1>4 DEF Unwinding, At, WorldType
<1>7. /\ v.sess = [w.sess EXCEPT ![n] = x] /\ v.job = [w.job EXCEPT ![j] = y]
      /\ v.ctl = w.ctl /\ v \in WorldType
  <2>1. v.sess = [w.sess EXCEPT ![n] = x] /\ v.ctl = w.ctl
    BY <1>6 DEF WorldType
  <2>2. v.job = [w.job EXCEPT ![j] = y]
    BY <1>6 DEF WorldType
  <2>3. /\ [w.sess EXCEPT ![n] = x] \in [Sessions -> SessionType]
        /\ [w.job EXCEPT ![j] = y] \in [Jobs -> JobType]
    BY <1>1, <1>3, <1>5
  <2>4. v \in WorldType
    BY <1>6, <2>3 DEF WorldType
  <2> QED
    BY <2>1, <2>2, <2>4
<1>8. /\ v.sess[n] = x /\ \A m \in Sessions \ {n} : v.sess[m] = w.sess[m]
      /\ v.job[j] = y /\ \A k \in Jobs \ {j} : v.job[k] = w.job[k]
  BY <1>1, <1>7
<1> QED
  BY <1>3, <1>5, <1>7, <1>8 DEF IsUnwinding

(* While a job connects, no other one hangs on the native client of its session. *)
LEMMA HangsAlone ==
    ASSUME Swept, NEW j \in Jobs, Opening(World, j), NEW k \in Jobs \ {j}
    PROVE  ~Hanging(World, k, World.ctl.made)
<1>1. ~Opening(World, k)
  BY SweptIs, OpeningIs DEF Swept
<1>2. JobOK(World, k, worker) /\ Joins(World, Jobs)
  BY SweptIs
<1> SUFFICES ASSUME Hanging(World, k, World.ctl.made) PROVE FALSE
  OBVIOUS
<1>3. World.job[k].at = "native" /\ Leaving(World, k) /\ World.job[k].on = World.ctl.made
  BY <1>1, <1>2 DEF Hanging, JobOK, Places
<1> QED
  BY <1>2, <1>3 DEF Joins

(* The native client is up, and the job goes on with the setup. *)
LEMMA OpenedTidy ==
    ASSUME Swept, NEW j \in Jobs, Opened(j)
    PROVE  Tidy(World', Jobs, worker')
<1>1. /\ Opening(World, j) /\ World.job[j].at = "opening" /\ ~World.job[j].cancel /\ worker' = worker
      /\ Becomes(Shifted(World, j, World.job[j].on, "setup", "up"))
  BY WorldIs DEF Opened, Resumes, Calm, Opening, Shifted
<1>2. PICK n \in Sessions : n = World.ctl.made /\ World.job[j].on = n
  BY <1>1, SweptIs, OpeningIs DEF Swept
<1>3. /\ World \in WorldType /\ JobOK(World, j, worker) /\ OnlyNewest(World) /\ Down(World)
  BY SweptIs
<1>4. PICK v : v = Shifted(World, j, n, "setup", "up")
  OBVIOUS
<1>5. /\ v \in WorldType /\ v.ctl = World.ctl
      /\ \A k \in Jobs \ {j} : v.job[k] = World.job[k]
      /\ v.job[j].pc = "connecting" /\ v.job[j].at = "setup"
      /\ v.job[j].on = World.job[j].on /\ v.job[j].cancel = World.job[j].cancel
      /\ \A m \in Sessions \ {n} : v.sess[m] = World.sess[m]
      /\ v.sess[n].client = "up" /\ v.sess[n].state = World.sess[n].state
  <2>1. World \in WorldType
    BY <1>3
  <2>2. IsShifted(World, v, j, n, "setup", "up")
    BY <1>4, <2>1, ShiftedIs
  <2> QED
    BY <2>2 DEF IsShifted
<1>6. World.sess[n].client = "opening"
  BY <1>1, <1>2, <1>3 DEF JobOK, Opens, Newest
<1>7. Down(v)
  BY <1>3, <1>5, <1>6 DEF Down
<1>8. \A m \in Sessions \ {n} : v.sess[m].client = "none"
  BY <1>2, <1>3, <1>5 DEF OnlyNewest
<1>9. Refused(v, Jobs)
  <2>1. \A k \in Jobs : ~Hanging(v, k, n)
    BY <1>1, <1>2, <1>5, HangsAlone DEF Hanging
  <2> QED
    BY <1>8, <2>1 DEF Refused
<1>10. Attends(v, j, n)
  BY <1>1, <1>2, <1>5 DEF Attends, Opening
<1>11. Attended(v, Jobs)
  BY <1>8, <1>10 DEF Attended, Held
<1>12. Lands(v, worker)
  BY <1>5, <1>7, <1>9, <1>11 DEF Lands, Tidy
<1> QED
  BY <1>1, <1>2, <1>4, <1>12, LandsTidy DEF Swept

(* The newest session has failed under its closing client: what is left of it is known. *)
LEMMA FailedTidy ==
    ASSUME NEW w, NEW v, NEW K, NEW r, OnlyNewest(w), Down(w),
           \A m \in Sessions \ {w.ctl.made} : v.sess[m] = w.sess[m],
           w.ctl.made \in Sessions => /\ v.sess[w.ctl.made].client = "closing"
                                      /\ v.sess[w.ctl.made].state = "error"
    PROVE  Tidy(v, K, r)
<1>1. /\ \A m \in Sessions \ {w.ctl.made} : v.sess[m].client = "none"
      /\ \A m \in Sessions : v.sess[m].client # "up"
  BY DEF OnlyNewest
<1>2. Down(v)
  BY <1>1 DEF Down
<1>3. Refused(v, K) /\ Attended(v, K)
  BY <1>1 DEF Refused, Attended, Held, GivenUp
<1> QED
  BY <1>2, <1>3 DEF Tidy

(* The setup fails: a torn down client under ERROR, or one that connect() closes. *)
LEMMA SetupFailsTidy ==
    ASSUME Swept, NEW j \in Jobs, SetupFails(j)
    PROVE  Tidy(World', Jobs, worker')
<1>1. /\ World.job[j].at = "setup" /\ ~World.job[j].cancel /\ On(World, j).client = "up"
      /\ \/ \E orphan \in BOOLEAN : Becomes(ConnectRaised(Broken(World, World.job[j].on, orphan), j))
         \/ Becomes(Shifted(World, j, World.job[j].on, "cleanup", "closing"))
      /\ worker' = worker
  <2>1. \A n, orphan : Poison(n, orphan) = Broken(World, n, orphan)
    BY DEF Poison, Broken
  <2> QED
    BY <2>1, WorldIs DEF SetupFails, Shifted
<1>2. /\ World \in WorldType /\ JobOK(World, j, worker) /\ OnlyNewest(World) /\ Down(World)
      /\ Refused(World, Jobs \ {j})
  BY SweptIs
<1>3. Opening(World, j)
  BY <1>1, <1>2 DEF JobOK, Places
<1>4. PICK n \in Sessions : n = World.ctl.made /\ World.job[j].on = n
  BY <1>3, SweptIs, OpeningIs DEF Swept
<1>5. World.sess \in [Sessions -> SessionType] /\ World.sess[n] \in SessionType
  BY <1>2 DEF WorldType
<1>6. ASSUME NEW orphan \in BOOLEAN, Becomes(ConnectRaised(Broken(World, n, orphan), j))
      PROVE  Tidy(World', Jobs, worker')
  <2>1. PICK v : v = Broken(World, n, orphan)
    OBVIOUS
  <2>2. PICK x : x = [World.sess[n] EXCEPT !.state = "error", !.poisoned = TRUE,
                                           !.client = "closing", !.orphan = orphan]
    OBVIOUS
  <2>3. x.client = "closing" /\ x.state = "error"
    BY <1>5, <2>2 DEF SessionType
  <2>4. v.sess = [World.sess EXCEPT ![n] = x]
    BY <1>2, <1>5, <2>1, <2>2 DEF Broken, WorldType
  <2>5. Turned(World, v, n)
    BY <1>2, <2>1, EndingsAre
  <2>6. Tidy(v, Jobs \ {j}, worker)
    BY <1>2, <1>4, <1>5, <2>3, <2>4, FailedTidy
  <2>7. Lands(ConnectRaised(v, j), worker)
    BY <2>5, <2>6, ConnectRaisedTidy DEF Turned
  <2> QED
    BY <1>1, <1>6, <2>1, <2>7, LandsTidy DEF Swept
<1>7. ASSUME Becomes(Shifted(World, j, n, "cleanup", "closing"))
      PROVE  Tidy(World', Jobs, worker')
  <2>1. PICK v : v = Shifted(World, j, n, "cleanup", "closing")
    OBVIOUS
  <2>2. /\ v \in WorldType /\ v.ctl = World.ctl
        /\ \A k \in Jobs \ {j} : v.job[k] = World.job[k]
        /\ v.job[j].pc = "connecting" /\ v.job[j].at = "cleanup"
        /\ v.job[j].on = World.job[j].on /\ v.job[j].cancel = World.job[j].cancel
        /\ \A m \in Sessions \ {n} : v.sess[m] = World.sess[m]
        /\ v.sess[n].client = "closing" /\ v.sess[n].state = World.sess[n].state
    <3>1. World \in WorldType
      BY <1>2
    <3>2. IsShifted(World, v, j, n, "cleanup", "closing")
      BY <2>1, <3>1, ShiftedIs
    <3> QED
      BY <3>2 DEF IsShifted
  <2>3. v.sess[n].state # "disconnected"
    BY <1>1, <1>2, <1>4, <2>2 DEF Down, On
  <2>4. \A m \in Sessions : Held(v.sess[m]) => Attends(v, j, m)
    BY <1>1, <1>2, <1>4, <2>2 DEF Held, Attends, Opening, OnlyNewest
  <2>5. \A m \in Sessions \ {n} : ~Hanging(v, j, m)
    BY <1>4, <2>2 DEF Hanging
  <2>6. Tidy(v, Jobs, worker)
    BY <1>2, <2>2, <2>3, <2>4, <2>5, TidyAttended
  <2>7. Lands(v, worker)
    BY <2>2, <2>6 DEF Lands
  <2> QED
    BY <1>1, <1>7, <2>1, <2>7, LandsTidy DEF Swept
<1> QED
  BY <1>1, <1>4, <1>6, <1>7

(* The job that was stopped unwinds its connect(): it closes the client that is there. *)
LEMMA UnwindsTidy ==
    ASSUME Swept, NEW j \in Jobs, Opening(World, j), NEW n \in Sessions, n = World.ctl.made,
           World.job[j].on = n, World.sess[n].client # "none",
           NEW v, v = Unwinding(World, j, n)
    PROVE  Lands(v, worker)
<1>1. /\ World \in WorldType /\ OnlyNewest(World) /\ Down(World) /\ Refused(World, Jobs \ {j})
  BY SweptIs
<1>2. IsUnwinding(World, v, j, n)
  BY <1>1, UnwindingIs
<1>3. /\ v \in WorldType /\ v.ctl = World.ctl
      /\ \A k \in Jobs \ {j} : v.job[k] = World.job[k]
      /\ v.job[j].pc = "connecting" /\ v.job[j].on = n /\ ~v.job[j].cancel
      /\ \A m \in Sessions \ {n} : v.sess[m] = World.sess[m]
      /\ v.sess[n].client = "closing" /\ v.sess[n].state = World.sess[n].state
  BY <1>2 DEF IsUnwinding
<1>4. v.sess[n].state # "disconnected"
  BY <1>1, <1>3 DEF Down
<1>5. \A m \in Sessions \ {n} : ~Hanging(v, j, m)
  BY <1>3 DEF Hanging
<1>6. \A m \in Sessions : Held(v.sess[m]) => Attends(v, j, m)
  BY <1>1, <1>3 DEF Held, OnlyNewest, Attends, Opening
<1>7. Tidy(v, Jobs, worker)
  BY <1>1, <1>3, <1>4, <1>5, <1>6, TidyAttended
<1> QED
  BY <1>3, <1>7 DEF Lands

(* The job that was stopped leaves its session as it stands, under its last state. *)
LEMMA LeftTidy ==
    ASSUME NEW w \in WorldType, NEW j \in Jobs, NEW r, Tidy(w, Jobs \ {j}, r), NEW n \in Sessions,
           w.sess[n].client # "opening", NEW state \in States,
           state = IF Connected(w.sess[n]) THEN "error" ELSE "disconnected",
           NEW v, v = WithState(w, n, state)
    PROVE  Lands(Ended(v, j), r)
<1>1. /\ v \in WorldType /\ v.job = w.job /\ v.ctl = w.ctl /\ v.sess[n].state = state
      /\ \A m \in Sessions \ {n} : v.sess[m] = w.sess[m]
      /\ \A m \in Sessions : v.sess[m].client = w.sess[m].client /\ v.sess[m].stuck = w.sess[m].stuck
  BY StateIs
<1>2. w.sess[n].client \in {"none", "up", "closing"}
  BY DEF WorldType, SessionType
<1>3. Down(v)
  BY <1>1, <1>2 DEF Tidy, Down, Connected
<1>4. Refused(v, Jobs \ {j})
  BY <1>1 DEF Tidy, Refused, Hanging
<1>5. \A m \in Sessions : GivenUp(w.sess[m]) /\ Held(w.sess[m]) => GivenUp(v.sess[m])
  BY <1>1 DEF GivenUp, Held, Connected
<1>6. \A k \in Jobs, m \in Sessions : Attends(w, k, m) => Attends(v, k, m)
  BY <1>1 DEF Attends, Leaving, Opening
<1>7. Attended(w, Jobs \ {j}) => Attended(v, Jobs \ {j})
  BY <1>1, <1>5, <1>6 DEF Attended, Held
<1>8. Tidy(v, Jobs \ {j}, r)
  BY <1>1, <1>3, <1>4, <1>7 DEF Tidy
<1> QED
  BY <1>1, <1>8, EndedTidy

(* The cancellation arrives at what the coroutine awaits. *)
LEMMA CancelArrivesTidy ==
    ASSUME Swept, NEW j \in Jobs, CancelArrives(j)
    PROVE  Tidy(World', Jobs, worker')
<1>1. PICK n : n = World.job[j].on
  OBVIOUS
<1>2. PICK ended \in States : ended = IF Connected(On(World, j)) THEN "error" ELSE "disconnected"
  BY DEF States
<1>3. /\ World.job[j].cancel /\ World.job[j].at \notin {"cleanup", "unwind", "native"}
      /\ worker' = worker
      /\ IF World.job[j].pc = "connecting"
         THEN IF TearingDown(On(World, j)) THEN Becomes(ConnectCancelled(WithState(World, n, "error"), j))
              ELSE \/ Becomes(ConnectCancelled(Quiet(World, n), j))
                   \/ On(World, j).client # "none" /\ Becomes(Unwinding(World, j, n))
                   \/ \E orphan \in BOOLEAN : Becomes(ConnectCancelled(Broken(World, n, orphan), j))
         ELSE IF World.job[j].at = "notify" THEN Becomes(Ended(WithState(World, n, ended), j))
         ELSE Becomes(Ended(World, j))
  <2>1. \A m, orphan : Poison(m, orphan) = Broken(World, m, orphan)
    BY DEF Poison, Broken
  <2> QED
    BY <1>1, <1>2, <2>1, WorldIs DEF CancelArrives, Calm, WithState, Quiet, Unwinding
<1>4. /\ World \in WorldType /\ JobOK(World, j, worker) /\ OnlyNewest(World) /\ Down(World)
      /\ Opened1(World, Jobs) /\ Joins(World, Jobs)
  BY SweptIs
<1>5. CASE Opening(World, j)
  <2>1. World.job[j].pc = "connecting" /\ ~TearingDown(On(World, j))
        /\ World.ctl.made \in Sessions /\ n = World.ctl.made
    BY <1>1, <1>5, OpeningIs DEF Swept, Opening, TearingDown
  <2>2. n \in Sessions
    BY <2>1
  <2>3. CASE Becomes(ConnectCancelled(Quiet(World, n), j))
    <3>1. PICK v : v = Quiet(World, n)
      OBVIOUS
    <3>2. Turned(World, v, n)
      BY <1>4, <2>2, <3>1, EndingsAre
    <3>3. /\ v \in WorldType /\ v.job = World.job /\ v.ctl = World.ctl
          /\ \A m \in Sessions \ {n} : v.sess[m] = World.sess[m]
      BY <3>2 DEF Turned
    <3>4. v.sess[n].client = "none"
      <4>1. PICK u : u = WithState(World, n, "disconnected")
        OBVIOUS
      <4>2. "disconnected" \in States
        BY DEF States
      <4>3. u \in WorldType
        BY <1>4, <2>2, <4>1, <4>2, StateIs
      <4>4. v = [u EXCEPT !.sess[n].client = "none"]
        BY <3>1, <4>1 DEF Quiet
      <4> QED
        BY <2>2, <4>3, <4>4 DEF WorldType, SessionType
    <3>5. Tidy(v, Jobs \ {j}, worker) /\ OnlyNewest(v)
      <4>1. Tidy(v, Jobs \ {j}, worker)
        BY <1>4, <2>1, <3>3, <3>4, NoClientTidy
      <4> QED
        BY <1>4, <2>1, <3>3, <4>1 DEF OnlyNewest
    <3>6. v.job[j].on \in Sessions /\ v.job[j].on = v.ctl.made
      BY <1>1, <2>1, <3>3
    <3>7. Lands(ConnectCancelled(v, j), worker)
      BY <3>3, <3>5, <3>6, ConnectCancelledTidy
    <3> QED
      BY <1>3, <2>3, <3>1, <3>7, LandsTidy DEF Swept
  <2>4. CASE On(World, j).client # "none" /\ Becomes(Unwinding(World, j, n))
    <3>1. World.sess[n].client # "none"
      BY <1>1, <2>4 DEF On
    <3>2. PICK v : v = Unwinding(World, j, n)
      OBVIOUS
    <3>3. Lands(v, worker)
      BY <1>1, <1>5, <2>1, <2>2, <3>1, <3>2, UnwindsTidy
    <3> QED
      BY <1>3, <2>4, <3>2, <3>3, LandsTidy DEF Swept
  <2>5. ASSUME NEW orphan \in BOOLEAN, Becomes(ConnectCancelled(Broken(World, n, orphan), j))
        PROVE  Tidy(World', Jobs, worker')
    <3>1. PICK v : v = Broken(World, n, orphan)
      OBVIOUS
    <3>2. Turned(World, v, n)
      BY <1>4, <2>2, <3>1, EndingsAre
    <3>3. /\ v \in WorldType /\ v.job = World.job /\ v.ctl = World.ctl
          /\ \A m \in Sessions \ {n} : v.sess[m] = World.sess[m]
      BY <3>2 DEF Turned
    <3>4. World.sess \in [Sessions -> SessionType] /\ World.sess[n] \in SessionType
      BY <1>4, <2>2 DEF WorldType
    <3>5. PICK x : x = [World.sess[n] EXCEPT !.state = "error", !.poisoned = TRUE,
                                             !.client = "closing", !.orphan = orphan]
      OBVIOUS
    <3>6. x.client = "closing" /\ x.state = "error"
      BY <3>4, <3>5 DEF SessionType
    <3>7. v.sess = [World.sess EXCEPT ![n] = x]
      BY <1>4, <3>1, <3>4, <3>5 DEF Broken, WorldType
    <3>8. Tidy(v, Jobs \ {j}, worker) /\ OnlyNewest(v)
      <4>1. Tidy(v, Jobs \ {j}, worker)
        BY <1>4, <2>1, <2>2, <3>3, <3>4, <3>6, <3>7, FailedTidy
      <4> QED
        BY <1>4, <2>1, <3>3, <4>1 DEF OnlyNewest
    <3>9. v.job[j].on \in Sessions /\ v.job[j].on = v.ctl.made
      BY <1>1, <2>1, <3>3
    <3>10. Lands(ConnectCancelled(v, j), worker)
      BY <3>3, <3>8, <3>9, ConnectCancelledTidy
    <3> QED
      BY <1>3, <2>5, <3>1, <3>10, LandsTidy DEF Swept
  <2> QED
    BY <1>3, <2>1, <2>3, <2>4, <2>5
<1>6. CASE ~Opening(World, j)
  <2>1. World.job[j].pc # "connecting"
    BY <1>6 DEF Opening
  <2>2. Tidy(World, Jobs \ {j}, worker)
    BY <1>3, IdlesTidy DEF Swept
  <2>3. CASE World.job[j].at = "notify"
    <3>1. Leaving(World, j) /\ n \in Sessions
      <4>1. Leaving(World, j) /\ n # Nobody
        BY <1>1, <1>4, <2>3 DEF JobOK, Places, Leaving
      <4>2. n \in Sessions \cup {Nobody}
        BY <1>1, <1>4 DEF WorldType, JobType
      <4> QED
        BY <4>1, <4>2
    <3>2. World.sess[n].client # "opening"
      <4> SUFFICES ASSUME World.sess[n].client = "opening" PROVE FALSE
        OBVIOUS
      <4>1. n = World.ctl.made
        BY <1>4, <3>1 DEF OnlyNewest
      <4>2. PICK k \in Jobs : World.job[k].at = "opening"
        BY <1>4, <3>1 DEF Opened1
      <4>3. Opening(World, k)
        BY <4>2, SweptIs DEF JobOK, Places
      <4> QED
        BY <1>1, <1>4, <2>3, <3>1, <4>1, <4>3 DEF Joins
    <3>3. PICK v : v = WithState(World, n, ended)
      OBVIOUS
    <3>4. ended = IF Connected(World.sess[n]) THEN "error" ELSE "disconnected"
      BY <1>1, <1>2 DEF On
    <3>5. Lands(Ended(v, j), worker)
      BY <1>4, <2>2, <3>1, <3>2, <3>3, <3>4, LeftTidy
    <3> QED
      BY <1>3, <2>1, <2>3, <3>3, <3>5, LandsTidy DEF Swept
  <2>4. CASE World.job[j].at # "notify"
    <3>1. Lands(Ended(World, j), worker)
      BY <1>4, <2>2, EndedTidy
    <3> QED
      BY <1>3, <2>1, <2>4, <3>1, LandsTidy DEF Swept
  <2> QED
    BY <2>3, <2>4
<1> QED
  BY <1>5, <1>6

(* A command starts: it attends whatever link there is, alone or after the recovery. *)
LEMMA StartTidy ==
    ASSUME Swept, NEW j \in Commands, Start(j)
    PROVE  Tidy(World', Jobs, worker')
<1>1. World.job[j].pc = "queued" /\ worker' = worker /\ j \in Jobs
  BY WorldIs, JobSets DEF Start, Pending, Calm
<1>2. /\ World \in WorldType /\ JobOK(World, j, worker) /\ Keeper(World)
      /\ OnlyNewest(World) /\ Down(World) /\ Refused(World, Jobs \ {j})
  BY <1>1, SweptIs DEF Swept, Sound, Steady
<1>3. World.job[j].kind \in {"connect", "disconnect"}
  BY <1>1, <1>2, JobSets DEF JobOK, Kinds, Idle
<1>4. Becomes(CancelReconnect(Intended(World, j), j))
  BY WorldIs DEF Start, Intended, Stamped
<1>5. PICK u : u = Begun(World, j)
  OBVIOUS
<1>6. IsBegun(World, u, j)
  BY <1>1, <1>2, <1>3, <1>5, BegunIs
<1>7. /\ u \in WorldType /\ u.sess = World.sess
      /\ \A k \in Jobs : /\ u.job[k].pc = World.job[k].pc /\ u.job[k].at = World.job[k].at
                         /\ u.job[k].on = World.job[k].on /\ u.job[k].cancel = World.job[k].cancel
      /\ u.ctl.made = World.ctl.made /\ u.ctl.session = World.ctl.session
  BY <1>6 DEF IsBegun
<1>8. worker = "running" => ~u.job[j].cancel
  BY <1>1, <1>2, <1>7 DEF JobOK, Uncancelled, Opening
<1>9. PICK v : v = Intended(World, j)
  OBVIOUS
<1>10. /\ v.ctl.keeper = World.ctl.keeper /\ \A k \in Jobs : Live(v, k) <=> Live(World, k)
       /\ u = [v EXCEPT !.ctl.keeper = Nobody]
  BY <1>1, <1>2, <1>3, <1>5, <1>9, IntendedIs DEF Begun
<1>11. CASE World.ctl.keeper = Nobody
  <2>1. Becomes(AfterCancelReconnect(u, j))
    BY <1>4, <1>9, <1>10, <1>11 DEF CancelReconnect
  <2>2. OnlyNewest(u)
    BY <1>2, <1>7 DEF OnlyNewest
  <2>3. Down(u) /\ Refused(u, Jobs \ {j})
    BY <1>2, <1>7 DEF Down, Refused, Hanging
  <2>4. Enters(u, j, worker)
    BY <1>7, <1>8, <2>2, <2>3 DEF Enters
  <2>5. Lands(AfterCancelReconnect(u, j), worker)
    BY <1>1, <2>4, AfterCancelReconnectTidy
  <2> QED
    BY <1>1, <2>1, <2>5, LandsTidy DEF Swept
<1>12. CASE World.ctl.keeper # Nobody
  <2>1. PICK s \in Supervisors : World.ctl.keeper = s /\ Live(World, s)
    BY <1>2, <1>12 DEF Keeper
  <2>2. s \in Jobs /\ Live(v, s) /\ Live(u, s)
    BY <1>7, <1>10, <2>1, JobSets DEF Live
  <2>3. PICK x : x = Awaiting(u, j, s)
    OBVIOUS
  <2>4. IsAwaiting(u, x, j, s)
    BY <1>7, <2>2, <2>3, AwaitingIs
  <2>5. Becomes(x)
    BY <1>4, <1>9, <1>10, <1>12, <2>1, <2>2, <2>3 DEF CancelReconnect, Awaiting
  <2>6. /\ x \in WorldType /\ x.sess = World.sess
        /\ x.job[j].pc = "cancelling" /\ x.job[j].at = "none" /\ x.job[j].cancel = u.job[j].cancel
        /\ \A k \in Jobs \ {j} : x.job[k].at = World.job[k].at /\ x.job[k].on = World.job[k].on
    BY <1>7, <2>4 DEF IsAwaiting
  <2>7. \A n \in Sessions : ~Hanging(x, j, n)
    BY <2>6 DEF Hanging
  <2>8. worker = "running" => \A n \in Sessions : Attends(x, j, n)
    BY <1>8, <2>6 DEF Attends
  <2>9. Tidy(x, Jobs, worker)
    BY <1>1, <1>2, <2>6, <2>7, <2>8, TidyAttended
  <2>10. Lands(x, worker)
    BY <2>6, <2>9 DEF Lands
  <2> QED
    BY <1>1, <2>5, <2>10, LandsTidy DEF Swept
<1> QED
  BY <1>11, <1>12

(* A command is only noted down. *)
LEMMA PressTidy ==
    ASSUME Swept, NEW j \in Commands, job[j].kind = "none", worker = "running",
           NEW kind \in {"connect", "disconnect"}, Press(j, kind), sess' = sess,
           ctl' = ctl \/ ctl' = [ctl EXCEPT !.closed = TRUE], worker' \in {"running", "closing"}
    PROVE  Tidy(World', Jobs, worker')
<1>1. World \in WorldType /\ JobOK(World, j, worker) /\ j \in Jobs
  BY SweptIs, JobSets
<1>2. World.job[j] = Idle /\ World.job[j].pc = "none"
  BY <1>1, WorldIs DEF JobOK, Kinds, Idle
<1>3. PICK v : v = World'
  OBVIOUS
<1>4. /\ v.ctl = ctl' /\ v.sess = World.sess
      /\ v.job = [World.job EXCEPT ![j].kind = kind, ![j].pc = "queued"]
  BY <1>3, WorldIs DEF World, Press
<1>5. World.job \in [Jobs -> JobType] /\ World.job[j].at = "none" /\ World.ctl \in CtlType
  BY <1>1, <1>2 DEF WorldType, Idle
<1>6. v.ctl.last = World.ctl.last
  BY <1>4, <1>5, WorldIs DEF CtlType
<1>7. v.job[j].at = "none" /\ \A k \in Jobs \ {j} : v.job[k] = World.job[k]
  BY <1>1, <1>4, <1>5 DEF JobType
<1>8. Tidy(World, Jobs \ {j}, worker)
  BY <1>1, <1>2, IdlesTidy DEF Swept
<1>9. Tidy(World, Jobs \ {j}, worker')
  BY <1>8 DEF Tidy
<1>10. Same(World, v, j)
  BY <1>6, <1>7 DEF Same
<1> QED
  BY <1>3, <1>4, <1>9, <1>10, TidyLeft

(* The buttons and shutdown() only note a command down. *)
LEMMA PressesTidy ==
    ASSUME Swept, \/ \E j \in Commands : PressConnect(j) \/ PressDisconnect(j)
                  \/ Shutdown
    PROVE  Tidy(World', Jobs, worker')
<1>1. "connect" \in {"connect", "disconnect"} /\ "disconnect" \in {"connect", "disconnect"}
  OBVIOUS
<1>2. ASSUME NEW j \in Commands, PressConnect(j) PROVE Tidy(World', Jobs, worker')
  <2>1. /\ job[j].kind = "none" /\ worker = "running" /\ Press(j, "connect") /\ sess' = sess
        /\ ctl' = ctl /\ worker' \in {"running", "closing"}
    BY <1>2 DEF PressConnect, IsNext
  <2> QED
    BY <1>1, <2>1, PressTidy
<1>3. ASSUME NEW j \in Commands, PressDisconnect(j) PROVE Tidy(World', Jobs, worker')
  <2>1. /\ job[j].kind = "none" /\ worker = "running" /\ Press(j, "disconnect") /\ sess' = sess
        /\ ctl' = ctl /\ worker' \in {"running", "closing"}
    BY <1>3 DEF PressDisconnect, IsNext
  <2> QED
    BY <1>1, <2>1, PressTidy
<1>4. ASSUME Shutdown PROVE Tidy(World', Jobs, worker')
  <2>1. /\ worker = "running" /\ Press(Quit, "disconnect") /\ sess' = sess
        /\ ctl' = [ctl EXCEPT !.closed = TRUE] /\ worker' \in {"running", "closing"}
    BY <1>4 DEF Shutdown
  <2>2. job[Quit].kind = "none" /\ Quit \in Commands
    BY <2>1, WorldIs, JobSets DEF Swept, Sound, Steady, Pressed
  <2> QED
    BY <1>1, <2>1, <2>2, PressTidy
<1> QED
  BY <1>2, <1>3, <1>4

(* The loop is stopped, then left. *)
LEMMA StopsTidy ==
    ASSUME Swept, StopLoop \/ Exit
    PROVE  Tidy(World', Jobs, worker')
<1>1. worker' # "running" /\ ctl' = ctl /\ sess' = sess
  BY DEF StopLoop, Exit
<1>2. World.job \in [Jobs -> JobType]
  BY JobSets DEF Swept, Sound, Steady, WorldType
<1>3. job' = job \/ job' = [j \in Jobs |-> IF Live(World, j) THEN [job[j] EXCEPT !.cancel = TRUE] ELSE job[j]]
  BY DEF StopLoop, Exit
<1>4. \A j \in Jobs : job'[j].at = World.job[j].at /\ job'[j].on = World.job[j].on
  <2> TAKE j \in Jobs
  <2>1. World.job[j] \in JobType /\ job[j] = World.job[j]
    BY <1>2, WorldIs
  <2> QED
    BY <1>3, <2>1 DEF JobType
<1>5. PICK v : v = World'
  OBVIOUS
<1>6. v.sess = World.sess /\ v.job = job'
  BY <1>1, <1>5, WorldIs DEF World
<1>7. Down(v) /\ Refused(v, Jobs)
  BY <1>4, <1>6 DEF Swept, Tidy, Down, Refused, Hanging
<1> QED
  BY <1>1, <1>5, <1>7 DEF Tidy

(* The recovery task that is started moves no session. *)
LEMMA RecoverKeeps ==
    ASSUME NEW w \in WorldType, NEW n, NEW recoverable, NEW x, x = Recover(w, n, recoverable)
    PROVE  x.sess = w.sess
BY DEF Recover, WorldType

(* A transaction times out: the session is in ERROR and its client closes. *)
LEMMA PoisonedTidy ==
    ASSUME Swept, NEW n \in Sessions, Poisoned(n)
    PROVE  Tidy(World', Jobs, worker')
<1>1. PICK orphan \in BOOLEAN, mutation \in BOOLEAN :
         Becomes(Recover(Poison(n, orphan), n, sess[n].state = "ready" /\ ~mutation))
  BY DEF Poisoned
<1>2. /\ World \in WorldType /\ OnlyNewest(World) /\ Down(World)
  BY SweptIs, JobSets DEF Swept, Sound, Steady, Tidy
<1>3. World.sess[n] \in SessionType /\ Connected(World.sess[n])
  BY <1>2, WorldIs DEF Poisoned, WorldType
<1>4. n = World.ctl.made
  BY <1>2, <1>3 DEF OnlyNewest, Connected
<1>5. PICK y : y = [World.sess[n] EXCEPT !.state = "error", !.poisoned = TRUE,
                                         !.client = "closing", !.orphan = orphan]
  OBVIOUS
<1>6. y \in SessionType /\ y.client = "closing" /\ y.state = "error"
  BY <1>3, <1>5 DEF SessionType
<1>7. PICK v : v = Poison(n, orphan)
  OBVIOUS
<1>8. v = [World EXCEPT !.sess[n] = y]
  BY <1>2, <1>3, <1>5, <1>7 DEF Poison, WorldType
<1>9. /\ v \in WorldType /\ v.job = World.job /\ v.ctl = World.ctl /\ v.sess[n] = y
      /\ \A m \in Sessions \ {n} : v.sess[m] = World.sess[m]
  <2>1. World \in WorldType /\ y \in SessionType
    BY <1>2, <1>6
  <2>2. World.sess \in [Sessions -> SessionType]
    BY <2>1 DEF WorldType
  <2>3. v.sess = [World.sess EXCEPT ![n] = y] /\ v.job = World.job /\ v.ctl = World.ctl
    BY <2>1, <2>2, <1>8 DEF WorldType
  <2>4. v \in WorldType
    BY <2>1, <2>2, <1>8 DEF WorldType
  <2> QED
    BY <2>2, <2>3, <2>4
<1>10. PICK x : x = Recover(v, n, sess[n].state = "ready" /\ ~mutation)
  OBVIOUS
<1>11. x.sess = v.sess
  <2>1. PICK recoverable : recoverable = (sess[n].state = "ready" /\ ~mutation)
    OBVIOUS
  <2> QED
    BY <1>9, <1>10, <2>1, RecoverKeeps
<1>12. PICK u : u = World'
  OBVIOUS
<1>13. u.sess = v.sess
  BY <1>1, <1>7, <1>10, <1>11, <1>12 DEF Becomes, World
<1>14. Tidy(u, Jobs, worker')
  BY <1>2, <1>4, <1>6, <1>9, <1>13, FailedTidy
<1> QED
  BY <1>12, <1>14

(* The link drops. *)
LEMMA LostTidy ==
    ASSUME Swept, NEW n \in Sessions, Lost(n)
    PROVE  Tidy(World', Jobs, worker')
<1>1. PICK state : state = IF sess[n].poisoned THEN sess[n].state
                           ELSE IF sess[n].state = "disconnecting" THEN "disconnected" ELSE "error"
  OBVIOUS
<1>2. /\ World \in WorldType /\ OnlyNewest(World) /\ Down(World)
  BY SweptIs, JobSets DEF Swept, Sound, Steady, Tidy
<1>3. World.sess[n] \in SessionType /\ World.sess[n].client = "up"
  BY <1>2, WorldIs DEF Lost, WorldType
<1>4. n = World.ctl.made
  BY <1>2, <1>3 DEF OnlyNewest
<1>5. PICK y : y = [World.sess[n] EXCEPT !.client = "none", !.state = state]
  OBVIOUS
<1>6. y \in SessionType /\ y.client = "none"
  BY <1>1, <1>3, <1>5, WorldIs DEF SessionType
<1>7. PICK v : v = [World EXCEPT !.sess[n] = y]
  OBVIOUS
<1>8. /\ v \in WorldType /\ v.job = World.job /\ v.ctl = World.ctl /\ v.sess[n] = y
      /\ \A m \in Sessions \ {n} : v.sess[m] = World.sess[m]
  <2>1. World \in WorldType /\ y \in SessionType
    BY <1>2, <1>6
  <2>2. World.sess \in [Sessions -> SessionType]
    BY <2>1 DEF WorldType
  <2>3. v.sess = [World.sess EXCEPT ![n] = y] /\ v.job = World.job /\ v.ctl = World.ctl
    BY <2>1, <2>2, <1>7 DEF WorldType
  <2>4. v \in WorldType
    BY <2>1, <2>2, <1>7 DEF WorldType
  <2> QED
    BY <2>2, <2>3, <2>4
<1>9. PICK mutation \in BOOLEAN :
         Becomes(Recover(v, n, sess[n].state = "ready" /\ ~mutation))
  <2>1. PICK mutation \in BOOLEAN :
          LET w == [World EXCEPT !.sess[n].client = "none",
                       !.sess[n].state = IF sess[n].poisoned THEN @
                                         ELSE IF @ = "disconnecting" THEN "disconnected" ELSE "error"]
          IN Becomes(Recover(w, n, sess[n].state = "ready" /\ ~mutation))
    BY DEF Lost
  <2>2. v = [World EXCEPT !.sess[n].client = "none",
                !.sess[n].state = IF sess[n].poisoned THEN @
                                  ELSE IF @ = "disconnecting" THEN "disconnected" ELSE "error"]
    BY <1>1, <1>2, <1>3, <1>5, <1>7, WorldIs DEF WorldType, SessionType
  <2> QED
    BY <2>1, <2>2
<1>10. PICK x : x = Recover(v, n, sess[n].state = "ready" /\ ~mutation)
  OBVIOUS
<1>11. x.sess = v.sess
  <2>1. PICK recoverable : recoverable = (sess[n].state = "ready" /\ ~mutation)
    OBVIOUS
  <2> QED
    BY <1>8, <1>10, <2>1, RecoverKeeps
<1>12. PICK u : u = World'
  OBVIOUS
<1>13. u.sess = v.sess
  BY <1>9, <1>10, <1>11, <1>12 DEF Becomes, World
<1>14. Tidy(u, Jobs, worker')
  BY <1>2, <1>4, <1>6, <1>8, <1>13, NoClientTidy
<1> QED
  BY <1>12, <1>14

(* The native client of a session answers its disconnect, or refuses it; a late write ends. *)
LEMMA NativeTidy ==
    ASSUME Swept, NEW n \in Sessions, NativeEnds(n) \/ NativeRefuses(n) \/ OrphanEnds(n)
    PROVE  Tidy(World', Jobs, worker')
<1>1. /\ World \in WorldType /\ Down(World) /\ Tidy(World, Jobs, worker)
      /\ ctl' = ctl /\ job' = job /\ worker' = worker
  BY DEF Swept, Sound, Steady, Tidy, NativeEnds, NativeRefuses, OrphanEnds
<1>2. World.sess \in [Sessions -> SessionType] /\ World.sess[n] \in SessionType
  BY <1>1 DEF WorldType
<1>3. PICK v : v = World'
  OBVIOUS
<1>4. v.ctl = World.ctl /\ v.job = World.job /\ v.sess = sess'
  BY <1>1, <1>3, WorldIs DEF World
<1>5. \A m \in Sessions \ {n} : v.sess[m] = World.sess[m]
  BY <1>2, <1>4, WorldIs DEF NativeEnds, NativeRefuses, OrphanEnds
<1>6. /\ v.sess[n].state = World.sess[n].state
      /\ \/ /\ v.sess[n].client = World.sess[n].client /\ v.sess[n].stuck = World.sess[n].stuck
         \/ World.sess[n].client = "closing" /\ v.sess[n].client = "none"
         \/ World.sess[n].client = "closing" /\ v.sess[n].client = "up" /\ v.sess[n].stuck
  <2>1. CASE NativeEnds(n)
    BY <1>2, <1>4, <2>1, WorldIs DEF NativeEnds, SessionType
  <2>2. CASE NativeRefuses(n)
    <3>1. PICK y : y = [sess[n] EXCEPT !.client = "up", !.stuck = TRUE]
      OBVIOUS
    <3>2. y.state = World.sess[n].state /\ y.client = "up" /\ y.stuck = TRUE
      BY <1>2, <3>1, WorldIs DEF SessionType
    <3>3. sess' = [sess EXCEPT ![n] = y] /\ World.sess[n].client = "closing"
      BY <1>2, <2>2, <3>1, WorldIs DEF NativeRefuses
    <3>4. v.sess[n] = y
      BY <1>2, <1>4, <3>3, WorldIs
    <3> QED
      BY <3>2, <3>3, <3>4
  <2>3. CASE OrphanEnds(n)
    BY <1>2, <1>4, <2>3, WorldIs DEF OrphanEnds, SessionType
  <2> QED
    BY <2>1, <2>2, <2>3
<1>7. Down(v)
  BY <1>1, <1>5, <1>6 DEF Down
<1>8. Refused(v, Jobs)
  BY <1>1, <1>4, <1>5, <1>6 DEF Tidy, Refused, Hanging
<1>9. \A m \in Sessions : Held(v.sess[m]) =>
         Held(World.sess[m]) /\ (GivenUp(World.sess[m]) => GivenUp(v.sess[m]))
  BY <1>5, <1>6 DEF Held, GivenUp
<1>10. Attended(World, Jobs) => Attended(v, Jobs)
  BY <1>4, <1>9 DEF Attended, Attends, Leaving, Opening
<1>11. Tidy(v, Jobs, worker')
  BY <1>1, <1>4, <1>7, <1>8, <1>10 DEF Tidy
<1> QED
  BY <1>3, <1>11

(* Every step of a coroutine. *)
LEMMA StepTidy ==
    ASSUME Swept, NEW j \in Jobs, Step(j)
    PROVE  Tidy(World', Jobs, worker')
<1>1. CASE Start(j)
  <2>1. World.job[j].pc = "queued" /\ JobOK(World, j, worker)
    BY <1>1, WorldIs, SweptIs DEF Start, Pending
  <2>2. j \in Commands
    BY <2>1 DEF JobOK, Places
  <2> QED
    BY <1>1, <2>2, StartTidy
<1>2. CASE Gathered(j) \/ RecoveryStarts(j) \/ TornDown(j) \/ Joined(j)
  BY <1>2, GatheredTidy, RecoveryStartsTidy, TornDownTidy, JoinedTidy
<1>3. CASE NotifyStopped(j) \/ HungUp(j) \/ Released(j) \/ WaitIsStale(j) \/ BackoffOver(j)
  BY <1>3, NotifyStoppedTidy, HungUpTidy, ReleasedLinkTidy, BackoffOverTidy
<1>4. CASE Opened(j) \/ SetupDone(j) \/ LinkIsGone(j) \/ Cleaned(j) \/ CancelArrives(j)
  BY <1>4, OpenedTidy, SetupDoneTidy, LinkIsGoneTidy, CleanedTidy, CancelArrivesTidy
<1> QED
  BY <1>1, <1>2, <1>3, <1>4 DEF Step

(* Every step at all. *)
LEMMA StepsTidy ==
    ASSUME CtlInv, Tidy(World, Jobs, worker), [CtlNext]_ctlVars
    PROVE  Tidy(World', Jobs, worker')
<1>1. Swept
  <2>1. Sound(World', worker', troubles')
    BY StepsOK
  <2> QED
    BY <2>1 DEF Swept, CtlInv, Sound, Steady
<1>2. CASE (\E j \in Commands : PressConnect(j) \/ PressDisconnect(j)) \/ Shutdown
  BY <1>1, <1>2, PressesTidy
<1>3. CASE StopLoop \/ Exit
  BY <1>1, <1>3, StopsTidy
<1>4. CASE \E n \in Sessions : \/ Poisoned(n) \/ Lost(n) \/ NativeEnds(n)
                               \/ NativeRefuses(n) \/ OrphanEnds(n)
  BY <1>1, <1>4, PoisonedTidy, LostTidy, NativeTidy
<1>5. CASE \E j \in Jobs : Step(j) \/ OpenFails(j) \/ SetupFails(j)
  BY <1>1, <1>5, StepTidy, OpenFailsTidy, SetupFailsTidy
<1>6. CASE UNCHANGED ctlVars
  BY <1>6 DEF ctlVars, World
<1> QED
  BY <1>2, <1>3, <1>4, <1>5, <1>6 DEF CtlNext, Gone

(* Before the first command there is no link. *)
LEMMA InitTidy == CtlInit => Tidy(World, Jobs, worker)
<1> SUFFICES ASSUME CtlInit PROVE Tidy(World, Jobs, worker)
  OBVIOUS
<1>1. PICK w : w = World
  OBVIOUS
<1>2. w.sess = [n \in Sessions |-> NewSession]
  BY <1>1, WorldIs DEF CtlInit
<1>3. \A n \in Sessions : w.sess[n].client = "none"
  BY <1>2 DEF NewSession
<1>4. Down(w)
  BY <1>3 DEF Down
<1>5. Tidy(w, Jobs, worker)
  BY <1>3, <1>4, ReleasedTidy
<1> QED
  BY <1>1, <1>5

(* Once everything rests after a Disconnect of the window (_disconnect() of
   qt_controller.py), a link that is still up was refused by the platform and its session is in
   ERROR; and after a quit no session passes for ready or disconnected over a link it leaves. *)
THEOREM DisconnectsStick == CtlSpec => []DisconnectSticks
<1>1. CtlInit => CtlInv /\ Tidy(World, Jobs, worker)
  BY InitOK, InitTidy
<1>2. CtlInv /\ Tidy(World, Jobs, worker) /\ [CtlNext]_ctlVars => Tidy(World, Jobs, worker)'
  <2> SUFFICES ASSUME CtlInv, Tidy(World, Jobs, worker), [CtlNext]_ctlVars
               PROVE  Tidy(World, Jobs, worker)'
    OBVIOUS
  <2>1. Tidy(World', Jobs, worker')
    BY StepsTidy
  <2> QED
    BY <2>1 DEF Tidy, Down, Refused, Attended, Hanging, Attends, Leaving, Opening, Jobs, Sessions
<1>3. CtlInv /\ Tidy(World, Jobs, worker) => DisconnectSticks
  <2> SUFFICES ASSUME CtlInv, Tidy(World, Jobs, worker), AtRest, ctl.last = "disconnect",
                      NEW n \in Sessions, sess[n].client = "up"
               PROVE  IF worker = "running" THEN sess[n].stuck /\ sess[n].state = "error"
                      ELSE sess[n].state \notin {"ready", "disconnected"}
    BY DEF DisconnectSticks
  <2>1. World.sess[n].client = "up" /\ World.ctl.last = "disconnect" /\ World.sess[n] = sess[n]
    BY WorldIs
  <2>2. \A j \in Jobs : World.job[j].pc \in {"none", "done"}
    BY WorldIs DEF AtRest, Live
  <2>3. CASE worker = "running"
    <3>1. Attended(World, Jobs)
      BY <2>1, <2>3 DEF Tidy
    <3>2. \A j \in Jobs : ~Attends(World, j, n)
      BY <2>2 DEF Attends, Leaving, Opening
    <3>3. GivenUp(World.sess[n])
      BY <2>1, <3>1, <3>2 DEF Attended, Held
    <3> QED
      BY <2>1, <2>3, <3>3 DEF GivenUp
  <2>4. CASE worker # "running"
    <3>1. World.sess[n].state # "disconnected"
      BY <2>1 DEF Tidy, Down
    <3>2. World.sess[n].state # "ready"
      BY <2>1 DEF CtlInv, Sound, Ready
    <3> QED
      BY <2>1, <2>4, <3>1, <3>2
  <2> QED
    BY <2>3, <2>4
<1> QED
  BY <1>1, <1>2, <1>3, ControllerInduction, PTL DEF CtlSpec

=============================================================================
