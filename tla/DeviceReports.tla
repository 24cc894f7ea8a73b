---------------------------- MODULE DeviceReports ----------------------------
(***************************************************************************)
(* What a charger says of itself, and how far it is believed: the maxima   *)
(* of its configuration (profile.py and the Kotlin and Swift ports) and    *)
(* its GATT table (gatt.py).                                               *)
(*                                                                         *)
(* A number of volts or amperes is a natural number.  The wire carries     *)
(* binary32: Wire(v) is the number v becomes there, 0 when it vanishes and *)
(* more than LargestWire when it does not fit.                             *)
(***************************************************************************)
EXTENDS Integers, SequencesExt

CONSTANTS
    Wire(_),            \* rounding to binary32
    LargestWire,        \* the largest finite one
    Numbers,            \* the values reported, asked for or in a model
    Models,             \* the model's range of each field
    Characteristics,    \* what a GATT table may list
    MaxListed,          \* bound: characteristics a GATT table lists
    WnrFallback,        \* 20 bytes
    WnrMaximum,         \* 512 bytes
    PacketSizes         \* lengths of the packets to write

Fields == {"voltage", "current"}
Fits(v) == 0 < Wire(v) /\ Wire(v) <= LargestWire

(* Rounding is monotone and leaves a binary32 number alone. *)
ASSUME WireAssumption ==
    /\ LargestWire \in Nat
    /\ 0 \in Numbers /\ Wire(0) = 0
    /\ \A v \in Numbers : v \in Nat /\ Wire(v) \in Numbers /\ Wire(Wire(v)) = Wire(v)
    /\ \A v, w \in Numbers : v <= w => Wire(v) <= Wire(w)

(* A model's ranges are positive, ordered and fit the wire, as HW178P's. *)
ASSUME ModelAssumption ==
    \A model \in Models, field \in Fields :
        /\ model[field].minimum \in Numbers /\ model[field].maximum \in Numbers
        /\ model[field].minimum <= model[field].maximum
        /\ Fits(model[field].minimum) /\ Fits(model[field].maximum)

ASSUME WnrAssumption ==
    WnrMaximum \in Nat /\ WnrFallback \in 1 .. WnrMaximum /\ PacketSizes \subseteq Nat \ {0}

VARIABLES
    model,      \* the profile in use
    reported,   \* the two maxima of the last configuration
    gatt        \* the services last discovered

reportVars == <<model, reported, gatt>>

(* A report is a value, and whether it is a finite number at all: it may   *)
(* be missing, a Boolean, infinite or not a number.                        *)
Reports == [real : BOOLEAN, value : Numbers]
Unread == [field \in Fields |-> [real |-> FALSE, value |-> 0]]

(* A table has two services at most, and lists MaxListed characteristics   *)
(* at most: all of them may stand in one service.                          *)
Services(n) == [uuid : {"FFE1", "other"}, characteristics : BoundedSeq(Characteristics, n)]
Tables == {<<>>} \cup {<<service>> : service \in Services(MaxListed)} \cup
          UNION {Services(n) \X Services(MaxListed - n) : n \in 0 .. MaxListed}

-----------------------------------------------------------------------------
(* One field's effective maximum in each port, or Refused. *)
Refused == 0
Lesser(v, w) == IF v <= w THEN v ELSE w

(* Slip: the rounded maximum is kept where it meets the minimum. *)
PythonMaximumRounded(range, report) ==
    LET narrowed == Lesser(Wire(report.value), Wire(range.maximum)) IN
    IF ~report.real \/ ~Fits(report.value) \/ narrowed < Wire(range.minimum) THEN Refused
    ELSE narrowed

(* effective_limits: the model's own minimum is kept where the maximum     *)
(* meets it on the wire.                                                   *)
PythonMaximum(range, report) ==
    LET narrowed == Lesser(Wire(report.value), Wire(range.maximum)) IN
    IF ~report.real \/ ~Fits(report.value) \/ narrowed < Wire(range.minimum) THEN Refused
    ELSE IF narrowed = Wire(range.minimum) THEN range.minimum
    ELSE narrowed

(* validatedEffectiveLimits, whose NumericRange compares on the wire. *)
SwiftMaximum(range, report) ==
    LET narrowed == Lesser(Wire(report.value), Wire(range.maximum))
        maximum == IF narrowed = Wire(range.minimum) THEN range.minimum ELSE narrowed IN
    IF ~report.real \/ ~Fits(report.value) \/ narrowed < Wire(range.minimum)
       \/ Wire(maximum) < Wire(range.minimum) THEN Refused
    ELSE maximum

(* validDeviceMaximum and effectiveLimits: every number is a Float. *)
ValidDeviceMaximum(minimum, report) ==
    /\ report.real
    /\ Wire(minimum) <= Wire(report.value) /\ Wire(report.value) <= LargestWire
KotlinMaximum(range, report) ==
    IF ValidDeviceMaximum(range.minimum, report)
    THEN Lesser(Wire(report.value), Wire(range.maximum)) ELSE Refused

Maximum(port, field) ==
    CASE port = "python" -> PythonMaximum(model[field], reported[field])
      [] port = "swift" -> SwiftMaximum(model[field], reported[field])
      [] port = "kotlin" -> KotlinMaximum(model[field], reported[field])

(* A refused maximum voids the limits of both fields. *)
Granted(port) == \A field \in Fields : Maximum(port, field) # Refused

(* NumericRange.contains and the ports' validation of a setpoint. *)
Admits(port, field, v) ==
    /\ Granted(port)
    /\ Fits(v)
    /\ Wire(model[field].minimum) <= Wire(v)
    /\ Wire(v) <= Wire(Maximum(port, field))

-----------------------------------------------------------------------------
(* resolve_wnr_chunk_size: 0 is also a size nobody advertised. *)
ResolveWnrChunkSize(advertised) ==
    IF advertised \in 1 .. WnrMaximum THEN advertised ELSE WnrFallback

NoTopology == [write_with_response |-> FALSE, wnr_chunk_size |-> 0]
Named(items, uuid) == SelectSeq(items, LAMBDA item : item.uuid = uuid)

(* Slip: the first of several FFE2 and FFE3 is taken. *)
SelectFirstPair(services) ==
    LET ffe1 == Named(services, "FFE1")
        rx == Named(ffe1[1].characteristics, "FFE2")
        tx == Named(ffe1[1].characteristics, "FFE3") IN
    IF \/ Len(ffe1) # 1 \/ Len(rx) = 0 \/ Len(tx) = 0
       \/ "notify" \notin rx[1].properties
       \/ tx[1].properties \cap {"write", "write-without-response"} = {}
    THEN NoTopology
    ELSE [write_with_response |-> "write-without-response" \notin tx[1].properties,
          wnr_chunk_size |-> ResolveWnrChunkSize(tx[1].size)]

(* select_hwcdq_topology: one FFE1, and in it one FFE2 that notifies and   *)
(* one FFE3 that can be written, without response where it may.            *)
SelectHwcdqTopology(services) ==
    LET ffe1 == Named(services, "FFE1")
        rx == Named(ffe1[1].characteristics, "FFE2")
        tx == Named(ffe1[1].characteristics, "FFE3") IN
    IF \/ Len(ffe1) # 1 \/ Len(rx) # 1 \/ Len(tx) # 1
       \/ "notify" \notin rx[1].properties
       \/ tx[1].properties \cap {"write", "write-without-response"} = {}
    THEN NoTopology
    ELSE [write_with_response |-> "write-without-response" \notin tx[1].properties,
          wnr_chunk_size |-> ResolveWnrChunkSize(tx[1].size)]

(* chunks_for_write: only a write without response is split. *)
ChunksForWrite(packet, topology) ==
    LET size == ResolveWnrChunkSize(topology.wnr_chunk_size) IN
    IF topology.write_with_response THEN <<packet>>
    ELSE [i \in 1 .. (Len(packet) + size - 1) \div size |->
            SubSeq(packet, (i - 1) * size + 1, Lesser(i * size, Len(packet)))]

-----------------------------------------------------------------------------
ReportInit == model \in Models /\ reported = Unread /\ gatt = <<>>

(* The configuration is read, and the services are discovered, once for    *)
(* each connection.                                                        *)
ReadConfiguration ==
    /\ reported = Unread
    /\ reported' \in [Fields -> Reports]
    /\ UNCHANGED <<model, gatt>>

DiscoverServices ==
    /\ gatt = <<>>
    /\ gatt' \in Tables
    /\ UNCHANGED <<model, reported>>

ReportNext == ReadConfiguration \/ DiscoverServices
ReportSpec == ReportInit /\ [][ReportNext]_reportVars

-----------------------------------------------------------------------------
Believable(field) ==
    /\ reported[field].real /\ Fits(reported[field].value)
    /\ Wire(model[field].minimum) <= Wire(reported[field].value)

(* A report narrows the model's range and never widens it: every port      *)
(* admits a setpoint exactly when both maxima can be believed and the      *)
(* number that goes on the wire is within the model and the report, and    *)
(* Python's limits, whose ends are compared unrounded when they are        *)
(* constructed, never end below where they begin.                          *)
LimitsFailClosed ==
    /\ \A port \in {"python", "swift", "kotlin"}, field \in Fields, v \in Numbers :
         Admits(port, field, v) <=>
           /\ \A f \in Fields : Believable(f)
           /\ Fits(v)
           /\ Wire(model[field].minimum) <= Wire(v)
           /\ Wire(v) <= Wire(model[field].maximum)
           /\ Wire(v) <= Wire(reported[field].value)
    /\ Granted("python") =>
         \A field \in Fields : model[field].minimum <= Maximum("python", field)

(* The places <<service, FFE2, FFE3>> where the table offers the protocol. *)
Offers ==
    {p \in {1, 2} \X (1 .. MaxListed) \X (1 .. MaxListed) :
       /\ p[1] \in DOMAIN gatt /\ gatt[p[1]].uuid = "FFE1"
       /\ {p[2], p[3]} \subseteq DOMAIN gatt[p[1]].characteristics
       /\ gatt[p[1]].characteristics[p[2]].uuid = "FFE2"
       /\ gatt[p[1]].characteristics[p[3]].uuid = "FFE3"}

Unambiguous(p) ==
    /\ Offers = {p} /\ \A i \in DOMAIN gatt : gatt[i].uuid = "FFE1" => i = p[1]
    /\ "notify" \in gatt[p[1]].characteristics[p[2]].properties
    /\ gatt[p[1]].characteristics[p[3]].properties
         \cap {"write", "write-without-response"} # {}

(* A table is used exactly where it is unambiguous, and then every packet  *)
(* is written whole and in order, in pieces of a mode and a size the       *)
(* characteristic itself accepts.                                          *)
TopologyFailClosed ==
    LET topology == SelectHwcdqTopology(gatt) IN
    /\ topology # NoTopology <=> \E p \in Offers : Unambiguous(p)
    /\ \A p \in Offers, n \in PacketSizes : topology # NoTopology =>
         LET tx == gatt[p[1]].characteristics[p[3]]
             packet == [b \in 1 .. n |-> b]
             chunks == ChunksForWrite(packet, topology) IN
         /\ FlattenSeq(chunks) = packet
         /\ IF "write-without-response" \notin tx.properties THEN chunks = <<packet>>
            ELSE \A i \in DOMAIN chunks :
                   Len(chunks[i]) \in 1 .. IF tx.size \in 1 .. WnrMaximum
                                           THEN tx.size ELSE WnrFallback
=============================================================================
