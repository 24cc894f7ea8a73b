------------------------- MODULE DeviceReportsProofs -------------------------
(***************************************************************************)
(* The limits fail closed in every port, for every rounding that is        *)
(* monotone and idempotent, every model range and every report.            *)
(***************************************************************************)
EXTENDS DeviceReports, TLAPS

ReportTypeOK == model \in Models /\ reported \in [Fields -> Reports]

(* A number of the wire above the rounded minimum is above the minimum     *)
(* itself: otherwise rounding would not be monotone.                       *)
LEMMA AboveRounded ==
    ASSUME NEW minimum \in Numbers, NEW g \in Numbers, Wire(g) = g, g > Wire(minimum)
    PROVE  minimum <= g
BY WireAssumption

(* What a port's maximum is worth for one believable or unbelievable field. *)
Believes(range, report) ==
    report.real /\ Fits(report.value) /\ Wire(range.minimum) <= Wire(report.value)

ModelRange(range) ==
    /\ range.minimum \in Numbers /\ range.maximum \in Numbers
    /\ range.minimum <= range.maximum
    /\ Fits(range.minimum) /\ Fits(range.maximum)

(* The three computations of a maximum refuse the same reports and agree   *)
(* on the wire with the lesser of the two maxima.                          *)
MaximumOf(range, report, maximum) ==
    /\ maximum # Refused <=> Believes(range, report)
    /\ Believes(range, report) =>
         Wire(maximum) = Lesser(Wire(report.value), Wire(range.maximum))

LEMMA PythonMaximumSound ==
    ASSUME NEW range, NEW report \in Reports, ModelRange(range)
    PROVE  /\ MaximumOf(range, report, PythonMaximum(range, report))
           /\ Believes(range, report) => range.minimum <= PythonMaximum(range, report)
<1> DEFINE r == Wire(report.value)  m == Wire(range.maximum)  low == Wire(range.minimum)
<1>1. /\ report.value \in Numbers /\ report.real \in BOOLEAN
      /\ r \in Numbers /\ m \in Numbers /\ low \in Numbers
      /\ Wire(r) = r /\ Wire(m) = m /\ Wire(low) = low
  BY WireAssumption DEF Reports, ModelRange
<1>2. /\ r \in Nat /\ m \in Nat /\ low \in Nat /\ LargestWire \in Nat
      /\ range.minimum \in Nat /\ 0 < low /\ low <= m /\ 0 < m /\ m <= LargestWire
  BY <1>1, WireAssumption DEF ModelRange, Fits
<1>3. range.minimum # 0
  BY <1>2, WireAssumption
<1>4. low < r => range.minimum <= r
  BY <1>1, <1>2, AboveRounded DEF ModelRange
<1>5. low < m => range.minimum <= m
  BY <1>1, <1>2, AboveRounded DEF ModelRange
<1> HIDE DEF r, m, low
<1>6. PythonMaximum(range, report) =
        IF ~report.real \/ ~(0 < r /\ r <= LargestWire) \/ Lesser(r, m) < low THEN 0
        ELSE IF Lesser(r, m) = low THEN range.minimum ELSE Lesser(r, m)
  BY DEF PythonMaximum, Fits, Refused, r, m, low
<1>7. Believes(range, report) <=> report.real /\ 0 < r /\ r <= LargestWire /\ low <= r
  BY DEF Believes, Fits, r, low
<1>8. Lesser(r, m) = (IF r <= m THEN r ELSE m) /\ Wire(range.minimum) = low
  BY DEF Lesser, low
<1> QED
  BY <1>1, <1>2, <1>3, <1>4, <1>5, <1>6, <1>7, <1>8 DEF MaximumOf, Refused, r, m

LEMMA SwiftMaximumSound ==
    ASSUME NEW range, NEW report \in Reports, ModelRange(range)
    PROVE  MaximumOf(range, report, SwiftMaximum(range, report))
<1> DEFINE python == PythonMaximum(range, report)
<1>1. MaximumOf(range, report, python)
  BY PythonMaximumSound
<1>2. SwiftMaximum(range, report) =
        IF python # Refused /\ Wire(python) < Wire(range.minimum) THEN Refused ELSE python
  BY WireAssumption DEF SwiftMaximum, PythonMaximum, Refused, ModelRange, Fits
<1>3. Believes(range, report) => Wire(range.minimum) <= Wire(python)
  BY <1>1, WireAssumption DEF MaximumOf, Believes, ModelRange, Lesser, Reports
<1> QED
  BY <1>1, <1>2, <1>3, WireAssumption DEF MaximumOf, ModelRange, Reports, Refused, Lesser

LEMMA KotlinMaximumSound ==
    ASSUME NEW range, NEW report \in Reports, ModelRange(range)
    PROVE  MaximumOf(range, report, KotlinMaximum(range, report))
BY WireAssumption
   DEF MaximumOf, KotlinMaximum, ValidDeviceMaximum, Believes, ModelRange, Fits, Lesser, Reports, Refused

LEMMA MaximumSound ==
    ASSUME ReportTypeOK, NEW port \in {"python", "swift", "kotlin"}, NEW field \in Fields
    PROVE  MaximumOf(model[field], reported[field], Maximum(port, field))
<1>1. ModelRange(model[field]) /\ reported[field] \in Reports
  BY ModelAssumption DEF ReportTypeOK, ModelRange
<1> QED
  BY <1>1, PythonMaximumSound, SwiftMaximumSound, KotlinMaximumSound DEF Maximum

LEMMA LimitsSound == ReportTypeOK => LimitsFailClosed
<1> SUFFICES ASSUME ReportTypeOK PROVE LimitsFailClosed
  OBVIOUS
<1>1. \A field \in Fields : ModelRange(model[field]) /\ reported[field] \in Reports
  BY ModelAssumption DEF ReportTypeOK, ModelRange
<1>2. \A field \in Fields : Believable(field) <=> Believes(model[field], reported[field])
  BY DEF Believable, Believes
<1>3. \A port \in {"python", "swift", "kotlin"} :
        Granted(port) <=> \A field \in Fields : Believable(field)
  BY <1>2, MaximumSound DEF Granted, MaximumOf
<1>4. ASSUME NEW port \in {"python", "swift", "kotlin"}, NEW field \in Fields, NEW v \in Numbers
      PROVE  Admits(port, field, v) <=>
               /\ \A f \in Fields : Believable(f)
               /\ Fits(v)
               /\ Wire(model[field].minimum) <= Wire(v)
               /\ Wire(v) <= Wire(model[field].maximum)
               /\ Wire(v) <= Wire(reported[field].value)
  <2>1. Believable(field) =>
          Wire(Maximum(port, field)) =
            Lesser(Wire(reported[field].value), Wire(model[field].maximum))
    BY <1>2, MaximumSound DEF MaximumOf
  <2>2. /\ Wire(v) \in Nat /\ Wire(reported[field].value) \in Nat
        /\ Wire(model[field].maximum) \in Nat
    BY <1>1, WireAssumption DEF ModelRange, Reports
  <2>3. Believable(field) =>
          (Wire(v) <= Wire(Maximum(port, field)) <=>
             /\ Wire(v) <= Wire(model[field].maximum)
             /\ Wire(v) <= Wire(reported[field].value))
    BY <2>1, <2>2 DEF Lesser
  <2> QED BY <1>3, <2>3 DEF Admits
<1>5. Granted("python") => \A field \in Fields : model[field].minimum <= Maximum("python", field)
  BY <1>1, <1>2, <1>3, PythonMaximumSound DEF Maximum
<1> QED BY <1>4, <1>5 DEF LimitsFailClosed

(* A setpoint is admitted, in every port, exactly when both of the         *)
(* charger's maxima can be believed and the number that goes on the wire   *)
(* lies within the model and the report; and the Python limits can always  *)
(* be constructed.                                                         *)
THEOREM LimitsFailClosedAlways == ReportSpec => []LimitsFailClosed
<1>1. ReportInit => ReportTypeOK
  BY WireAssumption DEF ReportInit, ReportTypeOK, Unread, Reports
<1>2. ReportTypeOK /\ [ReportNext]_reportVars => ReportTypeOK'
  BY DEF ReportTypeOK, ReportNext, ReadConfiguration, DiscoverServices, reportVars
<1> QED BY <1>1, <1>2, LimitsSound, PTL DEF ReportSpec
=============================================================================
