------------------------------ MODULE MCDesktop ------------------------------
(***************************************************************************)
(* The desktop's two state machines on small instances.  They touch only   *)
(* through the window, which refuses Connect during a scan and a scan over *)
(* a link, so a behaviour is one of the controller or one of the scan: the *)
(* initial state chooses, and the other part keeps its initial state.      *)
(***************************************************************************)
EXTENDS DesktopController, DeviceScan

CONSTANTS d1, d2
TwoDevices == {d1, d2}

VARIABLE part

Init == CtlInit /\ ScanInit /\ part \in {"controller", "scan"}

(* Everything submitted and delivered, no scan left to start. *)
Rest == ScanAtRest /\ scan.generation = MaxScans /\ UNCHANGED scanVars

Next ==
    \/ part = "controller" /\ CtlNext /\ UNCHANGED <<scanVars, part>>
    \/ part = "scan" /\ (ScanNext \/ Rest) /\ UNCHANGED <<ctlVars, part>>

Spec == Init /\ [][Next]_<<ctlVars, scanVars, part>> /\ CtlFairness /\ ScanFairness
=============================================================================
