------------------------------ MODULE MCLibrary ------------------------------
(***************************************************************************)
(* Four parts of the client library on small instances.  They share no     *)
(* state: the initial state chooses which one the behaviour is about, and  *)
(* the others keep their initial states.                                   *)
(***************************************************************************)
EXTENDS DiagnosticLog, FrameStream, BleakLink, DeviceReports

CONSTANTS h1, h2, s1, s2
TwoHolders == {h1, h2}
TwoSecrets == {s1, s2}

(* binary32 on a grid of 4: to the nearest, a tie to the even multiple. *)
NearestFour(v) ==
    LET low == (v \div 4) * 4 IN
    IF v % 4 < 2 \/ (v % 4 = 2 /\ low % 8 = 0) THEN low ELSE low + 4

SmallNumbers == 0 .. 24

(* Minima that round down, up and not at all, and a range of one number. *)
SmallRange(low, high) == [minimum |-> low, maximum |-> high]
SmallModels ==
    [Fields -> {SmallRange(4, 16), SmallRange(5, 13), SmallRange(7, 14), SmallRange(5, 5)}]

Characteristic(uuid, properties, size) ==
    [uuid |-> uuid, properties |-> properties, size |-> size]
SmallCharacteristics ==
    {Characteristic("FFE2", {"notify"}, 0), Characteristic("FFE2", {"read"}, 0),
     Characteristic("FFE3", {}, 0), Characteristic("FFE3", {"write"}, 0)} \cup
    {Characteristic("FFE3", {"write-without-response"}, size) : size \in {0, 1, 3}} \cup
    {Characteristic("FFE3", {"write", "write-without-response"}, 5)}

VARIABLE part

Init ==
    /\ part \in {"log", "stream", "link", "limits", "gatt"}
    /\ LogInit /\ (part = "log" \/ log.backups = 0)
    /\ StreamInit /\ LinkInit
    /\ ReportInit /\ (part = "limits" \/ \A f \in Fields : model[f] = SmallRange(4, 16))

Next ==
    \/ part = "log" /\ LogNext /\ UNCHANGED <<streamVars, linkVars, reportVars, part>>
    \/ part = "stream" /\ StreamNext /\ UNCHANGED <<logVars, linkVars, reportVars, part>>
    \/ part = "link" /\ LinkNext /\ UNCHANGED <<logVars, streamVars, reportVars, part>>
    \/ part = "limits" /\ ReadConfiguration
       /\ UNCHANGED <<logVars, streamVars, linkVars, part>>
    \/ part = "gatt" /\ DiscoverServices
       /\ UNCHANGED <<logVars, streamVars, linkVars, part>>

Spec == Init /\ [][Next]_<<logVars, streamVars, linkVars, reportVars, part>>
=============================================================================
