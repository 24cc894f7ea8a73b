------------------------- MODULE DiagnosticLogProofs -------------------------
(***************************************************************************)
(* The diagnostic log for any limits, any number of records, processes and *)
(* threads: what is held is redacted, no line holds bytes of two records,  *)
(* no file outgrows its limit, and only the oldest records are lost.       *)
(***************************************************************************)
EXTENDS DiagnosticLog, FiniteSetTheorems, TLAPS

USE LogAssumption

(* The logger's record, and the one fact both arguments need of it: an     *)
(* emit() in progress belongs to a live logger.                            *)
Loggers == [state : {"none", "active", "failed", "closed"},
            at : {"idle", "rotate", "shift", "open", "write"},
            shifted : Int, line : Seq(Nat), backups : Nat, made : Nat, starts : Nat]

LogInv == log \in Loggers /\ (log.at # "idle" => log.state = "active")

LEMMA RecordIsSeq ==
    ASSUME NEW n \in Nat, NEW size \in Nat
    PROVE  /\ Record(n, size) \in Seq(Nat) /\ Len(Record(n, size)) = size
           /\ \A i \in 1 .. size : Record(n, size)[i] = IF i < size THEN n ELSE Newline
BY DEF Record, Newline

LEMMA SettledLog ==
    ASSUME log \in Loggers, NEW state \in {"none", "active", "failed", "closed"}
    PROVE  /\ Settled(state) \in Loggers
           /\ Settled(state).state = state /\ Settled(state).at = "idle"
<1>1. <<>> \in Seq(Nat)
  OBVIOUS
<1> DEFINE one == [log EXCEPT !.state = state]
           two == [one EXCEPT !.at = "idle"]
<1>2. one \in Loggers /\ one.state = state
  BY DEF Loggers
<1> HIDE DEF one
<1>3. two \in Loggers /\ two.state = state /\ two.at = "idle"
  BY <1>2 DEF Loggers
<1>4. Settled(state) = [two EXCEPT !.line = <<>>]
  BY DEF Settled, one
<1> HIDE DEF two
<1> QED BY <1>1, <1>3, <1>4 DEF Loggers

LEMMA LogInvInit == LogInit => LogInv
BY DEF LogInit, LogInv, Loggers

LEMMA LogInvStep == LogInv /\ [LogNext]_logVars => LogInv'
<1> SUFFICES ASSUME LogInv, [LogNext]_logVars PROVE LogInv'
  OBVIOUS
<1> USE DEF LogInv
<1>1. CASE StartLogger
  <2>1. log' \in Loggers
    <3>1. PICK state \in {"active", "failed"} :
            log' = [log EXCEPT !.state = state, !.starts = @ + 1]
      BY <1>1 DEF StartLogger
    <3>2. log' = [state |-> state, at |-> log.at, shifted |-> log.shifted,
            line |-> log.line, backups |-> log.backups, made |-> log.made,
            starts |-> log.starts + 1]
      BY <3>1 DEF Loggers
    <3> QED BY <3>2 DEF Loggers
  <2>2. log'.at = log.at /\ log.at = "idle"
    BY <1>1 DEF StartLogger, Loggers
  <2> QED BY <2>1, <2>2
<1>2. CASE Emit
  <2>1. PICK size \in RecordSizes :
          log' = [log EXCEPT !.made = @ + 1, !.line = Record(log.made + 1, size),
                             !.at = IF Overflows(size) THEN "rotate" ELSE "write"]
    BY <1>2 DEF Emit
  <2>2. log.made + 1 \in Nat /\ size \in Nat
    BY DEF Loggers
  <2>3. Record(log.made + 1, size) \in Seq(Nat)
    BY <2>2, RecordIsSeq
  <2>4. log' = [state |-> log.state, at |-> IF Overflows(size) THEN "rotate" ELSE "write",
          shifted |-> log.shifted, line |-> Record(log.made + 1, size),
          backups |-> log.backups, made |-> log.made + 1, starts |-> log.starts]
    BY <2>1 DEF Loggers
  <2> QED BY <1>2, <2>2, <2>3, <2>4 DEF Emit, Loggers
<1>3. CASE DropOldest
  <2>1. log' = [state |-> log.state,
          at |-> IF log.backups = 0 THEN "open" ELSE "shift",
          shifted |-> log.backups - 1, line |-> log.line, backups |-> log.backups,
          made |-> log.made, starts |-> log.starts]
    BY <1>3 DEF DropOldest, Loggers
  <2>2. log.state = "active" /\ log.backups - 1 \in Int
    BY <1>3 DEF DropOldest, Loggers
  <2>3. CASE log.backups = 0
    BY <2>1, <2>2, <2>3 DEF Loggers
  <2>4. CASE log.backups # 0
    BY <2>1, <2>2, <2>4 DEF Loggers
  <2> QED BY <2>3, <2>4
<1>4. CASE ShiftBackup
  BY <1>4 DEF ShiftBackup, Loggers
<1>5. CASE RetireLog
  BY <1>5 DEF RetireLog, Loggers
<1>6. CASE ReopenLog
  BY <1>6 DEF ReopenLog, Loggers
<1>7. CASE WriteLine
  BY <1>7, SettledLog DEF WriteLine
<1>8. CASE TornWrite
  BY <1>8, SettledLog DEF TornWrite
<1>9. CASE Raise
  BY <1>9, SettledLog DEF Raise
<1>10. CASE \E h \in Holders, s \in Secrets : EnterSecret(h, s)
  BY <1>10 DEF EnterSecret
<1>11. CASE \E h \in Holders : LeaveSecret(h)
  BY <1>11 DEF LeaveSecret
<1>12. CASE CloseLogger
  BY <1>12 DEF CloseLogger, Free, Loggers
<1>13. CASE ProcessEnds
  BY <1>13, SettledLog DEF ProcessEnds
<1>14. CASE UNCHANGED logVars
  BY <1>14 DEF logVars
<1> QED
  BY <1>1, <1>2, <1>3, <1>4, <1>5, <1>6, <1>7, <1>8, <1>9, <1>10, <1>11, <1>12, <1>13,
     <1>14 DEF LogNext

-----------------------------------------------------------------------------
(* Lines.  Every file reads as separate lines, and a record is only ever   *)
(* added to a log whose last line is closed.                               *)
Separate(bytes) ==
    \A k \in 1 .. Len(bytes) - 1 :
        Newline \in {bytes[k], bytes[k + 1]} \/ bytes[k] = bytes[k + 1]

Closed(bytes) == bytes = <<>> \/ bytes[Len(bytes)] = Newline

LineInv ==
    /\ \A i \in DOMAIN disk : disk[i] \in Seq(Nat) /\ Separate(disk[i])
    /\ log.state = "active" /\ log.at # "open" => 0 \in DOMAIN disk
    /\ log.state = "active" /\ log.at \in {"idle", "write"} => Closed(disk[0])
    /\ log.at # "idle" => \E size \in RecordSizes : log.line = Record(log.made, size)

LEMMA ClosedThenLine ==
    ASSUME NEW bytes \in Seq(Nat), Separate(bytes), Closed(bytes),
           NEW line \in Seq(Nat), Separate(line)
    PROVE  bytes \o line \in Seq(Nat) /\ Separate(bytes \o line)
<1> DEFINE all == bytes \o line
<1>1. all \in Seq(Nat) /\ Len(all) = Len(bytes) + Len(line)
      /\ \A k \in 1 .. Len(all) :
           all[k] = IF k <= Len(bytes) THEN bytes[k] ELSE line[k - Len(bytes)]
  OBVIOUS
<1>2. ASSUME NEW k \in 1 .. Len(all) - 1
      PROVE  Newline \in {all[k], all[k + 1]} \/ all[k] = all[k + 1]
  <2>0. Len(bytes) \in Nat /\ Len(line) \in Nat /\ k \in Nat
        /\ k \in 1 .. Len(all) /\ k + 1 \in 1 .. Len(all)
    BY <1>1
  <2>1. CASE k < Len(bytes)
    BY <1>1, <2>0, <2>1 DEF Separate
  <2>2. CASE k = Len(bytes)
    BY <1>1, <2>0, <2>2 DEF Closed
  <2>3. CASE k > Len(bytes)
    <3> DEFINE l == k - Len(bytes)
    <3>1. l \in 1 .. Len(line) - 1 /\ (k + 1) - Len(bytes) = l + 1
      <4>1. Len(all) = Len(bytes) + Len(line)
        BY <1>1
      <4> HIDE DEF all
      <4>2. k + 1 <= Len(bytes) + Len(line)
        BY <2>0, <4>1
      <4>3. ASSUME NEW b \in Nat, NEW n \in Nat, k + 1 <= b + n, k > b
            PROVE  k - b \in 1 .. n - 1 /\ (k + 1) - b = (k - b) + 1
        BY <2>0, <4>3
      <4> QED BY <2>0, <2>3, <4>2, <4>3
    <3>2. all[k] = line[l] /\ all[k + 1] = line[l + 1]
      BY <1>1, <2>0, <2>3, <3>1
    <3> QED BY <3>1, <3>2 DEF Separate
  <2> QED BY <2>0, <2>1, <2>2, <2>3
<1> QED BY <1>1, <1>2 DEF Separate

LEMMA RecordIsLine ==
    ASSUME NEW n \in Nat, NEW size \in RecordSizes
    PROVE  LET line == Record(n, size) IN
             /\ line \in Seq(Nat) /\ Len(line) = size /\ Separate(line)
             /\ line # <<>> /\ line[Len(line)] = Newline
<1>1. size \in Nat /\ size > 1
  OBVIOUS
<1>2. /\ Record(n, size) \in Seq(Nat) /\ Len(Record(n, size)) = size
      /\ \A i \in 1 .. size : Record(n, size)[i] = IF i < size THEN n ELSE Newline
  BY <1>1, RecordIsSeq
<1> QED BY <1>1, <1>2 DEF Separate

LEMMA PartOfLine ==
    ASSUME NEW line \in Seq(Nat), Separate(line), NEW n \in 1 .. Len(line) - 1
    PROVE  SubSeq(line, 1, n) \in Seq(Nat) /\ Separate(SubSeq(line, 1, n))
<1>1. SubSeq(line, 1, n) \in Seq(Nat) /\ Len(SubSeq(line, 1, n)) = n
      /\ \A k \in 1 .. n : SubSeq(line, 1, n)[k] = line[k]
  OBVIOUS
<1> QED BY <1>1 DEF Separate

(* Opening the log leaves it closed, whatever an earlier process left.     *)
LEMMA OpeningCloses ==
    ASSUME \A i \in DOMAIN disk : disk[i] \in Seq(Nat) /\ Separate(disk[i])
    PROVE  /\ 0 \in DOMAIN OpenedAppend /\ Closed(OpenedAppend[0])
           /\ \A i \in DOMAIN OpenedAppend :
                OpenedAppend[i] \in Seq(Nat) /\ Separate(OpenedAppend[i])
<1>1. CASE 0 \notin DOMAIN disk
  <2>1. <<>> \in Seq(Nat) /\ Separate(<<>>) /\ Closed(<<>>)
    BY DEF Separate, Closed
  <2>2. OpenedAppend = Put(0, <<>>)
    BY <1>1 DEF OpenedAppend
  <2> QED BY <2>1, <2>2 DEF Put
<1>2. CASE 0 \in DOMAIN disk /\ disk[0] # <<>> /\ Last(disk[0]) # Newline
  <2> DEFINE bytes == disk[0]  all == Append(bytes, Newline)
  <2>1. bytes \in Seq(Nat) /\ Separate(bytes)
    BY <1>2
  <2>2. all \in Seq(Nat) /\ Len(all) = Len(bytes) + 1 /\ Len(bytes) \in Nat
        /\ \A k \in 1 .. Len(bytes) : all[k] = bytes[k]
        /\ all[Len(bytes) + 1] = Newline
    BY <2>1 DEF Newline
  <2>3. Separate(all) /\ Closed(all)
    BY <2>1, <2>2 DEF Separate, Closed
  <2>4. OpenedAppend = Put(0, all)
    BY <1>2 DEF OpenedAppend
  <2> HIDE DEF all
  <2> QED BY <2>2, <2>3, <2>4 DEF Put
<1>3. CASE 0 \in DOMAIN disk /\ (disk[0] = <<>> \/ Last(disk[0]) = Newline)
  BY <1>3 DEF OpenedAppend, Closed, Last
<1> QED BY <1>1, <1>2, <1>3

LEMMA LineInvInit == LogInit => LineInv
BY DEF LogInit, LineInv

LEMMA LineInvStep == LogInv /\ LineInv /\ [LogNext]_logVars => LineInv'
<1> SUFFICES ASSUME LogInv, LineInv, [LogNext]_logVars PROVE LineInv'
  OBVIOUS
<1>0. log \in Loggers /\ (log.at # "idle" => log.state = "active")
  BY DEF LogInv
<1>1. CASE StartLogger
  BY <1>0, <1>1, OpeningCloses DEF StartLogger, LineInv, Loggers
<1>2. CASE Emit
  <2>1. PICK size \in RecordSizes :
          log' = [log EXCEPT !.made = @ + 1, !.line = Record(log.made + 1, size),
                             !.at = IF Overflows(size) THEN "rotate" ELSE "write"]
    BY <1>2 DEF Emit
  <2>2. log'.state = "active" /\ log'.at \in {"rotate", "write"}
        /\ log'.line = Record(log'.made, size)
    BY <1>0, <1>2, <2>1 DEF Emit, Loggers
  <2> QED BY <1>2, <2>2 DEF Emit, Free, LineInv
<1>3. CASE DropOldest
  <2>1. log'.state = "active" /\ log'.line = log.line /\ log'.made = log.made
        /\ log'.at = IF log.backups = 0 THEN "open" ELSE "shift"
    BY <1>0, <1>3 DEF DropOldest, Loggers
  <2> QED BY <1>0, <1>3, <2>1 DEF DropOldest, LineInv, Unlink, Loggers
<1>4. CASE ShiftBackup
  <2>1. log'.state = "active" /\ log'.line = log.line /\ log'.made = log.made
        /\ log'.at = "shift" /\ log.shifted \in Int /\ log.shifted > 0
        /\ 0 \in DOMAIN disk
    BY <1>0, <1>4 DEF ShiftBackup, Loggers, LineInv
  <2>2. /\ 0 \in DOMAIN disk'
        /\ \A i \in DOMAIN disk' : disk'[i] \in Seq(Nat) /\ Separate(disk'[i])
    BY <1>4, <2>1 DEF ShiftBackup, LineInv, Move
  <2> QED BY <1>0, <1>4, <2>1, <2>2 DEF ShiftBackup, LineInv
<1>5. CASE RetireLog
  <2>1. log'.state = "active" /\ log'.line = log.line /\ log'.made = log.made
        /\ log'.at = "open" /\ 0 \in DOMAIN disk
    BY <1>0, <1>5 DEF RetireLog, Loggers, LineInv
  <2>2. \A i \in DOMAIN disk' : disk'[i] \in Seq(Nat) /\ Separate(disk'[i])
    BY <1>5, <2>1 DEF RetireLog, LineInv, Move
  <2> QED BY <1>0, <1>5, <2>1, <2>2 DEF RetireLog, LineInv
<1>6. CASE ReopenLog
  <2>1. log'.state = "active" /\ log'.line = log.line /\ log'.made = log.made
        /\ log'.at = "write"
    BY <1>0, <1>6 DEF ReopenLog, Loggers
  <2> QED BY <1>0, <1>6, <2>1, OpeningCloses DEF ReopenLog, LineInv
<1>7. CASE WriteLine
  <2>1. PICK size \in RecordSizes : log.line = Record(log.made, size)
    BY <1>0, <1>7 DEF WriteLine, LineInv
  <2>2. log.line \in Seq(Nat) /\ Separate(log.line) /\ log.line # <<>>
        /\ log.line[Len(log.line)] = Newline
    BY <1>0, <2>1, RecordIsLine DEF Loggers
  <2>3. 0 \in DOMAIN disk /\ disk[0] \in Seq(Nat) /\ Separate(disk[0]) /\ Closed(disk[0])
    <3>1. log.at = "write" /\ log.state = "active"
      BY <1>0, <1>7 DEF WriteLine
    <3>2. 0 \in DOMAIN disk /\ Closed(disk[0])
      BY <3>1 DEF LineInv
    <3> QED BY <3>2 DEF LineInv
  <2> DEFINE all == disk[0] \o log.line
  <2>4. all \in Seq(Nat) /\ Separate(all)
    BY <2>2, <2>3, ClosedThenLine
  <2>5. Closed(all)
    <3>1. Len(all) = Len(disk[0]) + Len(log.line) /\ Len(log.line) \in Nat \ {0}
          /\ Len(disk[0]) \in Nat
      BY <2>2, <2>3
    <3>2. all[Len(all)] = log.line[Len(log.line)]
      BY <2>2, <2>3, <3>1
    <3> QED BY <2>2, <3>2 DEF Closed
  <2>6. disk' = Put(0, all) /\ log'.at = "idle"
    BY <1>0, <1>7, SettledLog DEF WriteLine
  <2> HIDE DEF all
  <2> QED BY <2>3, <2>4, <2>5, <2>6 DEF LineInv, Put
<1>8. CASE TornWrite
  <2>1. PICK size \in RecordSizes : log.line = Record(log.made, size)
    BY <1>0, <1>8 DEF TornWrite, LineInv
  <2>2. log.line \in Seq(Nat) /\ Separate(log.line)
    BY <1>0, <2>1, RecordIsLine DEF Loggers
  <2>3. disk[0] \in Seq(Nat) /\ Separate(disk[0]) /\ Closed(disk[0])
    <3>1. log.at = "write" /\ log.state = "active"
      BY <1>0, <1>8 DEF TornWrite
    <3>2. 0 \in DOMAIN disk /\ Closed(disk[0])
      BY <3>1 DEF LineInv
    <3> QED BY <3>2 DEF LineInv
  <2>4. PICK n \in 1 .. Len(log.line) - 1 :
          disk' = Put(0, disk[0] \o SubSeq(log.line, 1, n))
    BY <1>8 DEF TornWrite
  <2> DEFINE part == SubSeq(log.line, 1, n)  all == disk[0] \o part
  <2>5. part \in Seq(Nat) /\ Separate(part)
    BY <2>2, PartOfLine
  <2>6. all \in Seq(Nat) /\ Separate(all)
    BY <2>3, <2>5, ClosedThenLine
  <2>7. disk' = Put(0, all) /\ log'.state = "failed" /\ log'.at = "idle"
    BY <1>0, <1>8, <2>4, SettledLog DEF TornWrite
  <2> HIDE DEF all
  <2> QED BY <2>6, <2>7 DEF LineInv, Put
<1>9. CASE Raise \/ ProcessEnds
  <2>1. log'.state # "active" /\ log'.at = "idle" /\ disk' = disk
    BY <1>0, <1>9, SettledLog DEF Raise, ProcessEnds
  <2> QED BY <2>1 DEF LineInv
<1>10. CASE CloseLogger
  <2>1. log'.state # "active" /\ log'.at = "idle" /\ disk' = disk
    BY <1>0, <1>10 DEF CloseLogger, Free, Loggers
  <2> QED BY <2>1 DEF LineInv
<1>11. CASE UNCHANGED <<disk, log>>
  BY <1>11 DEF LineInv
<1>12. CASE (\E h \in Holders, s \in Secrets : EnterSecret(h, s))
            \/ (\E h \in Holders : LeaveSecret(h)) \/ UNCHANGED logVars
  BY <1>11, <1>12 DEF EnterSecret, LeaveSecret, logVars
<1> QED
  BY <1>1, <1>2, <1>3, <1>4, <1>5, <1>6, <1>7, <1>8, <1>9, <1>10, <1>12 DEF LogNext

(* No line of any file holds bytes of two records, for any number of       *)
(* processes, whatever writes fail or are cut short.                       *)
THEOREM LinesStaySeparate == LogSpec => []OwnLine
<1>1. LineInv => OwnLine
  BY DEF LineInv, OwnLine, Separate
<1> QED
  BY <1>1, LogInvInit, LogInvStep, LineInvInit, LineInvStep, PTL DEF LogSpec

-----------------------------------------------------------------------------
(* Secrets.  While the logger lives, a count is the number of contexts     *)
(* that hold the secret.                                                   *)
HoldersOf(s) == {h \in Holders : held[h] = s}

SecretInv ==
    /\ held \in [Holders -> Secrets \cup {NoSecret}]
    /\ refs \in [Secrets -> Nat]
    /\ log.state = "none" =>
         held = [h \in Holders |-> NoSecret] /\ refs = [s \in Secrets |-> 0]
    /\ log.state \in {"active", "failed"} =>
         \A s \in Secrets : refs[s] = Cardinality(HoldersOf(s))

LEMMA NobodyHolds ==
    ASSUME held = [h \in Holders |-> NoSecret], NEW s \in Secrets
    PROVE  Cardinality(HoldersOf(s)) = 0
<1>1. HoldersOf(s) = {}
  BY DEF HoldersOf, NoSecret
<1> QED BY <1>1, FS_EmptySet

LEMMA HoldersFinite == \A s : IsFiniteSet(HoldersOf(s))
BY FS_Subset DEF HoldersOf

LEMMA SecretInvInit == LogInit => SecretInv
BY DEF LogInit, SecretInv

LEMMA EnterKeepsCount ==
    ASSUME LogInv, SecretInv, NEW h \in Holders, NEW s \in Secrets, EnterSecret(h, s)
    PROVE  SecretInv'
<1>1. held' = [held EXCEPT ![h] = s] /\ refs' = [refs EXCEPT ![s] = @ + 1] /\ log' = log
      /\ held[h] = NoSecret /\ log.state # "none"
  BY DEF EnterSecret
<1>2. held' \in [Holders -> Secrets \cup {NoSecret}] /\ refs' \in [Secrets -> Nat]
  BY <1>1 DEF SecretInv
<1>3. ASSUME log.state \in {"active", "failed"}, NEW t \in Secrets
      PROVE  refs'[t] = Cardinality(HoldersOf(t)')
  <2>1. refs[t] = Cardinality(HoldersOf(t)) /\ IsFiniteSet(HoldersOf(t)) /\ refs[t] \in Nat
    BY <1>3, HoldersFinite DEF SecretInv
  <2>2. CASE t = s
    <3>1. HoldersOf(t)' = HoldersOf(t) \cup {h} /\ h \notin HoldersOf(t)
      BY <1>1, <2>2 DEF HoldersOf, SecretInv, NoSecret
    <3>2. Cardinality(HoldersOf(t)') = Cardinality(HoldersOf(t)) + 1
      BY <2>1, <3>1, FS_AddElement
    <3> QED BY <1>1, <2>1, <2>2, <3>2 DEF SecretInv
  <2>3. CASE t # s
    <3>1. HoldersOf(t)' = HoldersOf(t)
      BY <1>1, <2>3 DEF HoldersOf, SecretInv, NoSecret
    <3> QED BY <1>1, <2>1, <2>3, <3>1 DEF SecretInv
  <2> QED BY <2>2, <2>3
<1> QED BY <1>1, <1>2, <1>3 DEF SecretInv

LEMMA LeaveKeepsCount ==
    ASSUME LogInv, SecretInv, NEW h \in Holders, LeaveSecret(h)
    PROVE  SecretInv'
<1> DEFINE s == held[h]
<1>1. /\ s \in Secrets /\ held' = [held EXCEPT ![h] = NoSecret] /\ log' = log
      /\ refs' = [refs EXCEPT ![s] = IF refs[s] - 1 > 0 THEN refs[s] - 1 ELSE 0]
  BY DEF LeaveSecret, SecretInv
<1>2. held' \in [Holders -> Secrets \cup {NoSecret}] /\ refs' \in [Secrets -> Nat]
  BY <1>1 DEF SecretInv
<1>3. log.state # "none"
  BY <1>1 DEF SecretInv, NoSecret
<1>4. ASSUME log.state \in {"active", "failed"}, NEW t \in Secrets
      PROVE  refs'[t] = Cardinality(HoldersOf(t)')
  <2>1. refs[t] = Cardinality(HoldersOf(t)) /\ IsFiniteSet(HoldersOf(t)) /\ refs[t] \in Nat
    BY <1>4, HoldersFinite DEF SecretInv
  <2>2. CASE t = s
    <3>1. HoldersOf(t)' = HoldersOf(t) \ {h} /\ h \in HoldersOf(t)
      BY <1>1, <2>2 DEF HoldersOf, SecretInv, NoSecret
    <3>2. Cardinality(HoldersOf(t)') = Cardinality(HoldersOf(t)) - 1
      BY <2>1, <3>1, FS_RemoveElement
    <3>3. Cardinality(HoldersOf(t)') \in Nat
      BY <2>1, <3>1, FS_RemoveElement, FS_CardinalityType
    <3> QED BY <1>1, <2>1, <2>2, <3>2, <3>3 DEF SecretInv
  <2>3. CASE t # s
    <3>1. HoldersOf(t)' = HoldersOf(t)
      BY <1>1, <2>3 DEF HoldersOf, SecretInv, NoSecret
    <3> QED BY <1>1, <2>1, <2>3, <3>1 DEF SecretInv
  <2> QED BY <2>2, <2>3
<1> QED BY <1>1, <1>2, <1>3, <1>4 DEF SecretInv

(* Every other step leaves the counts and the contexts alone, or clears    *)
(* them with the logger.                                                   *)
LEMMA SecretInvStep == LogInv /\ SecretInv /\ [LogNext]_logVars => SecretInv'
<1> SUFFICES ASSUME LogInv, SecretInv, [LogNext]_logVars PROVE SecretInv'
  OBVIOUS
<1>1. CASE StartLogger
  <2>1. log.state = "none" /\ held' = held /\ refs' = refs
        /\ log'.state \in {"active", "failed"}
    BY <1>1 DEF StartLogger, LogInv, Loggers
  <2>2. held = [h \in Holders |-> NoSecret] /\ refs = [s \in Secrets |-> 0]
    BY <2>1 DEF SecretInv
  <2>3. \A s \in Secrets : refs'[s] = Cardinality(HoldersOf(s)')
    BY <2>1, <2>2, NobodyHolds DEF HoldersOf
  <2> QED BY <2>1, <2>3 DEF SecretInv
<1>2. ASSUME log'.state = log.state, held' = held, refs' = refs
      PROVE  SecretInv'
  BY <1>2 DEF SecretInv, HoldersOf
<1>3. CASE Emit \/ DropOldest \/ ShiftBackup \/ RetireLog \/ ReopenLog
  BY <1>2, <1>3 DEF LogInv, Loggers, Emit, DropOldest, ShiftBackup, RetireLog, ReopenLog
<1>4. ASSUME log.state = "active", log'.state \in {"active", "failed"}, held' = held,
             refs' = refs
      PROVE  SecretInv'
  BY <1>4 DEF SecretInv, HoldersOf
<1>5. CASE WriteLine \/ TornWrite \/ Raise
  BY <1>4, <1>5, SettledLog DEF LogInv, WriteLine, TornWrite, Raise, Free
<1>6. CASE \E h \in Holders, s \in Secrets : EnterSecret(h, s)
  BY <1>6, EnterKeepsCount
<1>7. CASE \E h \in Holders : LeaveSecret(h)
  BY <1>7, LeaveKeepsCount
<1>8. CASE CloseLogger
  BY <1>8 DEF CloseLogger, LogInv, Loggers, SecretInv
<1>9. CASE ProcessEnds
  <2>1. log'.state = "none" /\ held' = [h \in Holders |-> NoSecret]
        /\ refs' = [s \in Secrets |-> 0]
    BY <1>9, SettledLog DEF ProcessEnds, LogInv
  <2> QED BY <2>1 DEF SecretInv
<1>10. CASE UNCHANGED logVars
  BY <1>2, <1>10 DEF logVars
<1> QED BY <1>1, <1>3, <1>5, <1>6, <1>7, <1>8, <1>9, <1>10 DEF LogNext

(* While the logger lives it redacts exactly what some context still       *)
(* holds, however many contexts hold the same secret and in whatever order *)
(* they leave.                                                             *)
THEOREM HeldIsRedacted == LogSpec => []RedactsWhatIsHeld
<1>1. SecretInv => RedactsWhatIsHeld
  <2> SUFFICES ASSUME SecretInv, log.state \in {"active", "failed"}
               PROVE  {s \in Secrets : refs[s] > 0}
                        = {held[h] : h \in Holders} \ {NoSecret}
    BY DEF RedactsWhatIsHeld
  <2>1. ASSUME NEW s \in Secrets
        PROVE  refs[s] > 0 <=> \E h \in Holders : held[h] = s
    <3>1. refs[s] = Cardinality(HoldersOf(s)) /\ refs[s] \in Nat
      BY DEF SecretInv
    <3>2. Cardinality(HoldersOf(s)) = 0 <=> HoldersOf(s) = {}
      BY HoldersFinite, FS_EmptySet
    <3> QED BY <3>1, <3>2 DEF HoldersOf
  <2> QED BY <2>1 DEF SecretInv, NoSecret
<1> QED
  BY <1>1, LogInvInit, LogInvStep, SecretInvInit, SecretInvStep, PTL DEF LogSpec

-----------------------------------------------------------------------------
(* Files.  What each step makes of the logger's record, as far as the      *)
(* arguments on the files need it.                                         *)
Keeps == log'.backups = log.backups /\ log'.made = log.made
Rests == log'.at = "idle" /\ Keeps

LEMMA StartKeeps ==
    ASSUME LogInv, StartLogger
    PROVE  Rests /\ log.at = "idle" /\ disk' \in {disk, OpenedAppend} /\ written' = written
BY DEF LogInv, Loggers, StartLogger, Rests, Keeps

LEMMA EmitPrepares ==
    ASSUME LogInv, Emit
    PROVE  \E size \in RecordSizes :
             /\ log.at = "idle" /\ log.state = "active"
             /\ log'.backups = log.backups /\ log'.made = log.made + 1
             /\ log'.line = Record(log.made + 1, size)
             /\ log'.at = IF Overflows(size) THEN "rotate" ELSE "write"
             /\ disk' = disk /\ written' = written
BY DEF LogInv, Loggers, Emit, Free

LEMMA DropKeeps ==
    ASSUME LogInv, DropOldest
    PROVE  /\ Keeps /\ log.state = "active" /\ log.at = "rotate"
           /\ log'.at = IF log.backups = 0 THEN "open" ELSE "shift"
           /\ log'.shifted = log.backups - 1 /\ log'.line = log.line
           /\ disk' = Unlink(log.backups) /\ written' = written
BY DEF LogInv, Loggers, DropOldest, Keeps

LEMMA ShiftKeeps ==
    ASSUME LogInv, ShiftBackup
    PROVE  /\ Keeps /\ log.state = "active" /\ log.at = "shift" /\ log'.at = "shift"
           /\ log.shifted > 0 /\ log'.shifted = log.shifted - 1 /\ log'.line = log.line
           /\ disk' = IF log.shifted \in DOMAIN disk
                      THEN Move(log.shifted, log.shifted + 1) ELSE disk
           /\ written' = written
BY DEF LogInv, Loggers, ShiftBackup, Keeps

LEMMA RetireKeeps ==
    ASSUME LogInv, RetireLog
    PROVE  /\ Keeps /\ log.state = "active" /\ log.at = "shift" /\ log.shifted = 0
           /\ log'.at = "open" /\ log'.line = log.line
           /\ disk' = Move(0, 1) /\ written' = written
BY DEF LogInv, Loggers, RetireLog, Keeps

LEMMA ReopenKeeps ==
    ASSUME LogInv, ReopenLog
    PROVE  /\ Keeps /\ log.at = "open" /\ log'.at = "write" /\ log'.line = log.line
           /\ disk' = OpenedAppend /\ written' = written
BY DEF LogInv, Loggers, ReopenLog, Keeps

LEMMA WriteRests ==
    ASSUME LogInv, WriteLine
    PROVE  /\ Rests /\ log.at = "write" /\ log.state = "active"
           /\ disk' = Put(0, disk[0] \o log.line) /\ written' = written \cup {log.made}
BY DEF LogInv, Loggers, WriteLine, Settled, Rests, Keeps

LEMMA TornRests ==
    ASSUME LogInv, TornWrite
    PROVE  \E n \in 1 .. Len(log.line) - 1 :
             /\ Rests /\ log.at = "write" /\ log.state = "active"
             /\ disk' = Put(0, disk[0] \o SubSeq(log.line, 1, n)) /\ written' = written
BY DEF LogInv, Loggers, TornWrite, Settled, Rests, Keeps

(* The other steps do not touch the files; those of the logger leave it    *)
(* outside emit().                                                         *)
OtherStep ==
    \/ Raise \/ CloseLogger \/ ProcessEnds \/ UNCHANGED logVars
    \/ \E h \in Holders, s \in Secrets : EnterSecret(h, s)
    \/ \E h \in Holders : LeaveSecret(h)

LEMMA OtherRests ==
    ASSUME LogInv, OtherStep
    PROVE  disk' = disk /\ written' = written /\ (Rests \/ log' = log)
<1>1. CASE Raise
  BY <1>1 DEF LogInv, Loggers, Raise, Settled, Rests, Keeps
<1>2. CASE CloseLogger
  BY <1>2 DEF LogInv, Loggers, CloseLogger, Free, Rests, Keeps
<1>3. CASE ProcessEnds
  BY <1>3 DEF LogInv, Loggers, ProcessEnds, Settled, Rests, Keeps
<1> QED BY <1>1, <1>2, <1>3 DEF OtherStep, EnterSecret, LeaveSecret, logVars

LEMMA LogSteps ==
    ASSUME [LogNext]_logVars
    PROVE  \/ StartLogger \/ Emit \/ DropOldest \/ ShiftBackup \/ RetireLog
           \/ ReopenLog \/ WriteLine \/ TornWrite \/ OtherStep
BY DEF LogNext, OtherStep

(* Which files there are.  A rotation leaves a gap in the numbering, which *)
(* the next file down moves into.                                          *)
FilesInv ==
    /\ DOMAIN disk \subseteq 0 .. log.backups
    /\ log.at = "shift" =>
         log.shifted \in 0 .. log.backups - 1 /\ log.shifted + 1 \notin DOMAIN disk
    /\ log.at = "open" => 0 \notin DOMAIN disk

LEMMA OpenedFiles == DOMAIN OpenedAppend = DOMAIN disk \cup {0}
BY DEF OpenedAppend, Put

LEMMA FilesInvInit == LogInit => FilesInv
BY DEF LogInit, FilesInv

LEMMA FilesInvStep == LogInv /\ LineInv /\ FilesInv /\ [LogNext]_logVars => FilesInv'
<1> SUFFICES ASSUME LogInv, LineInv, FilesInv, [LogNext]_logVars PROVE FilesInv'
  OBVIOUS
<1>0. log.backups \in Nat /\ log.shifted \in Int
  BY DEF LogInv, Loggers
<1>1. CASE StartLogger
  BY <1>0, <1>1, StartKeeps, OpenedFiles DEF FilesInv, Rests, Keeps
<1>2. CASE Emit
  BY <1>2, EmitPrepares DEF FilesInv
<1>3. CASE DropOldest
  <2>1. DOMAIN disk' = DOMAIN disk \ {log.backups}
    BY <1>3, DropKeeps DEF Unlink
  <2>2. CASE log.backups = 0
    BY <1>0, <1>3, <2>1, <2>2, DropKeeps DEF FilesInv, Keeps
  <2>3. CASE log.backups # 0
    BY <1>0, <1>3, <2>1, <2>3, DropKeeps DEF FilesInv, Keeps
  <2> QED BY <2>2, <2>3
<1>4. CASE ShiftBackup
  <2>1. log.shifted \in 0 .. log.backups - 1 /\ log.shifted + 1 \notin DOMAIN disk
        /\ log.shifted > 0 /\ DOMAIN disk \subseteq 0 .. log.backups
    BY <1>4, ShiftKeeps DEF FilesInv
  <2>2. DOMAIN disk' \subseteq 0 .. log.backups /\ log.shifted \notin DOMAIN disk'
    BY <1>0, <1>4, <2>1, ShiftKeeps DEF Move
  <2> QED BY <1>0, <1>4, <2>1, <2>2, ShiftKeeps DEF FilesInv, Keeps
<1>5. CASE RetireLog
  <2>1. 0 \in 0 .. log.backups - 1 /\ DOMAIN disk \subseteq 0 .. log.backups
    BY <1>5, RetireKeeps DEF FilesInv
  <2>2. DOMAIN disk' = (DOMAIN disk \ {0}) \cup {1}
    BY <1>5, RetireKeeps DEF Move
  <2> QED BY <1>0, <1>5, <2>1, <2>2, RetireKeeps DEF FilesInv, Keeps
<1>6. CASE ReopenLog
  BY <1>0, <1>6, ReopenKeeps, OpenedFiles DEF FilesInv, Keeps
<1>7. CASE WriteLine
  BY <1>0, <1>7, WriteRests DEF FilesInv, Rests, Keeps, Put
<1>8. CASE TornWrite
  BY <1>0, <1>8, TornRests DEF FilesInv, Rests, Keeps, Put
<1>9. CASE OtherStep
  BY <1>9, OtherRests DEF FilesInv, Rests, Keeps
<1> QED BY <1>1, <1>2, <1>3, <1>4, <1>5, <1>6, <1>7, <1>8, <1>9, LogSteps

(* Sizes.  What FilesBounded says of one file, and the room the log must   *)
(* have so that closing its last line leaves it within that.               *)
OneLine(bytes) == \A k \in 1 .. Len(bytes) - 1 : bytes[k] # Newline
Limited(bytes) == Len(bytes) <= MaxBytes \/ OneLine(bytes)
HasRoom(bytes) == Closed(bytes) \/ Len(bytes) < MaxBytes \/ OneLine(bytes)

SizeInv ==
    /\ \A i \in DOMAIN disk : Limited(disk[i])
    /\ 0 \in DOMAIN disk => HasRoom(disk[0])
    /\ log.at = "write" => disk[0] = <<>> \/ Len(disk[0]) + Len(log.line) <= MaxBytes
    /\ log.at # "idle" => log.made > 0

LEMMA EmptyIsLimited == Limited(<<>>) /\ HasRoom(<<>>)
BY DEF Limited, HasRoom, OneLine, Closed

(* What is put into the log: the close of an open line, a whole line or a  *)
(* part of one, after bytes that leave room for it or in an empty file.    *)
LEMMA ClosingIsLimited ==
    ASSUME NEW bytes \in Seq(Nat), bytes # <<>>, bytes[Len(bytes)] # Newline,
           HasRoom(bytes)
    PROVE  Limited(Append(bytes, Newline)) /\ HasRoom(Append(bytes, Newline))
<1> DEFINE all == Append(bytes, Newline)
<1>1. Len(all) = Len(bytes) + 1 /\ Len(bytes) \in Nat \ {0}
      /\ (\A k \in 1 .. Len(bytes) : all[k] = bytes[k]) /\ all[Len(bytes) + 1] = Newline
  BY DEF Newline
<1> HIDE DEF all
<1>2. Closed(all)
  BY <1>1 DEF Closed
<1>3. Len(bytes) < MaxBytes => Limited(all)
  BY <1>1 DEF Limited
<1>4. OneLine(bytes) => Limited(all)
  BY <1>1 DEF Limited, OneLine
<1> QED BY <1>2, <1>3, <1>4 DEF HasRoom, Closed, all

LEMMA LineIsLimited ==
    ASSUME NEW bytes \in Seq(Nat), NEW n \in Nat \ {0}, NEW size \in RecordSizes,
           bytes = <<>> \/ Len(bytes) + size <= MaxBytes
    PROVE  /\ Limited(bytes \o Record(n, size)) /\ HasRoom(bytes \o Record(n, size))
           /\ \A k \in 1 .. size - 1 :
                LET part == bytes \o SubSeq(Record(n, size), 1, k)
                IN  Limited(part) /\ HasRoom(part)
<1> DEFINE line == Record(n, size)
<1>1. size \in Nat /\ size > 1 /\ Len(bytes) \in Nat
  OBVIOUS
<1>2. line \in Seq(Nat) /\ Len(line) = size
      /\ \A i \in 1 .. size : line[i] = IF i < size THEN n ELSE Newline
  BY <1>1, RecordIsSeq
<1> HIDE DEF line
<1>3. Limited(bytes \o line) /\ HasRoom(bytes \o line)
  <2>1. CASE bytes = <<>>
    <3>1. bytes \o line = line
      BY <1>2, <2>1
    <3>2. OneLine(line)
      BY <1>1, <1>2 DEF OneLine, Newline
    <3> QED BY <3>1, <3>2 DEF Limited, HasRoom
  <2>2. CASE Len(bytes) + size <= MaxBytes
    <3> DEFINE all == bytes \o line
    <3>1. Len(all) = Len(bytes) + size /\ all[Len(all)] = line[size]
      BY <1>1, <1>2
    <3>2. Closed(all) /\ Len(all) <= MaxBytes
      BY <1>1, <1>2, <2>2, <3>1 DEF Closed
    <3> QED BY <3>2 DEF Limited, HasRoom
  <2> QED BY <2>1, <2>2
<1>4. ASSUME NEW k \in 1 .. size - 1
      PROVE  Limited(bytes \o SubSeq(line, 1, k)) /\ HasRoom(bytes \o SubSeq(line, 1, k))
  <2> DEFINE part == SubSeq(line, 1, k)
  <2>1. part \in Seq(Nat) /\ Len(part) = k /\ k \in Nat /\ k < size
        /\ \A i \in 1 .. k : part[i] = n
    BY <1>1, <1>2
  <2> HIDE DEF part
  <2>2. CASE bytes = <<>>
    <3>1. bytes \o part = part
      BY <2>1, <2>2
    <3>2. OneLine(part)
      BY <2>1 DEF OneLine, Newline
    <3> QED BY <3>1, <3>2 DEF Limited, HasRoom, part
  <2>3. CASE Len(bytes) + size <= MaxBytes
    <3>1. Len(bytes \o part) = Len(bytes) + k
      BY <2>1
    <3>2. Len(bytes \o part) < MaxBytes /\ Len(bytes \o part) <= MaxBytes
      BY <1>1, <2>1, <2>3, <3>1
    <3> QED BY <3>2 DEF Limited, HasRoom, part
  <2> QED BY <2>2, <2>3
<1> QED BY <1>3, <1>4 DEF line

LEMMA OpenedIsLimited ==
    ASSUME \A i \in DOMAIN disk : disk[i] \in Seq(Nat) /\ Limited(disk[i]),
           0 \in DOMAIN disk => HasRoom(disk[0])
    PROVE  /\ \A i \in DOMAIN OpenedAppend : Limited(OpenedAppend[i])
           /\ HasRoom(OpenedAppend[0])
<1>1. CASE 0 \notin DOMAIN disk
  BY <1>1, EmptyIsLimited DEF OpenedAppend, Put
<1>2. CASE 0 \in DOMAIN disk /\ disk[0] # <<>> /\ Last(disk[0]) # Newline
  <2>1. Limited(Append(disk[0], Newline)) /\ HasRoom(Append(disk[0], Newline))
    BY <1>2, ClosingIsLimited DEF Last
  <2>2. OpenedAppend = Put(0, Append(disk[0], Newline))
    BY <1>2 DEF OpenedAppend
  <2> QED BY <2>1, <2>2 DEF Put
<1>3. CASE 0 \in DOMAIN disk /\ (disk[0] = <<>> \/ Last(disk[0]) = Newline)
  BY <1>3 DEF OpenedAppend
<1> QED BY <1>1, <1>2, <1>3

LEMMA MoveIsLimited ==
    ASSUME NEW i \in DOMAIN disk, NEW j \in Nat \ {0},
           \A k \in DOMAIN disk : Limited(disk[k]), 0 \in DOMAIN disk => HasRoom(disk[0])
    PROVE  /\ \A k \in DOMAIN Move(i, j) : Limited(Move(i, j)[k])
           /\ 0 \in DOMAIN Move(i, j) => HasRoom(Move(i, j)[0])
BY DEF Move

LEMMA SizeInvInit == LogInit => SizeInv
BY DEF LogInit, SizeInv

LEMMA SizeInvStep ==
    LogInv /\ LineInv /\ FilesInv /\ SizeInv /\ [LogNext]_logVars => SizeInv'
<1> SUFFICES ASSUME LogInv, LineInv, FilesInv, SizeInv, [LogNext]_logVars PROVE SizeInv'
  OBVIOUS
<1>0. /\ log.backups \in Nat /\ log.shifted \in Int /\ log.made \in Nat
      /\ \A i \in DOMAIN disk : disk[i] \in Seq(Nat) /\ Limited(disk[i])
      /\ 0 \in DOMAIN disk => HasRoom(disk[0])
  BY DEF LogInv, Loggers, LineInv, SizeInv
<1>1. CASE StartLogger
  BY <1>0, <1>1, StartKeeps, OpenedIsLimited DEF SizeInv, Rests
<1>2. CASE Emit
  <2>1. PICK size \in RecordSizes :
             /\ log.at = "idle" /\ log.state = "active"
             /\ log'.line = Record(log.made + 1, size)
             /\ log'.at = IF Overflows(size) THEN "rotate" ELSE "write"
             /\ disk' = disk
    BY <1>2, EmitPrepares
  <2>2. Len(log'.line) = size /\ 0 \in DOMAIN disk /\ Len(disk[0]) \in Nat /\ size \in Nat
    <3>1. size \in Nat /\ log.made + 1 \in Nat
      BY <1>0
    <3>2. Len(log'.line) = size
      BY <2>1, <3>1, RecordIsSeq
    <3> QED BY <1>0, <2>1, <3>1, <3>2 DEF LineInv
  <2>3. log'.at = "write" => disk[0] = <<>> \/ Len(disk[0]) + size <= MaxBytes
    BY <2>1, <2>2 DEF Overflows
  <2>4. log'.made > 0
    BY <1>0, <1>2, EmitPrepares
  <2> QED BY <1>0, <2>1, <2>2, <2>3, <2>4 DEF SizeInv
<1>3. CASE DropOldest
  <2>1. log'.at # "write" /\ disk' = Unlink(log.backups)
    BY <1>3, DropKeeps
  <2>2. log'.made > 0
    BY <1>3, DropKeeps DEF SizeInv, Keeps
  <2> QED BY <1>0, <2>1, <2>2 DEF SizeInv, Unlink
<1>4. CASE ShiftBackup
  <2>1. log.shifted + 1 \in Nat \ {0}
    BY <1>0, <1>4, ShiftKeeps
  <2>2. /\ \A i \in DOMAIN disk' : Limited(disk'[i])
        /\ 0 \in DOMAIN disk' => HasRoom(disk'[0])
    <3>1. CASE log.shifted \in DOMAIN disk
      <4>1. disk' = Move(log.shifted, log.shifted + 1)
        BY <1>4, <3>1, ShiftKeeps
      <4> QED BY <1>0, <2>1, <3>1, <4>1, MoveIsLimited
    <3>2. CASE log.shifted \notin DOMAIN disk
      BY <1>0, <1>4, <3>2, ShiftKeeps
    <3> QED BY <3>1, <3>2
  <2> QED BY <1>4, <2>2, ShiftKeeps DEF SizeInv, Keeps
<1>5. CASE RetireLog
  <2>1. 0 \in DOMAIN disk
    BY <1>5, RetireKeeps DEF LineInv
  <2>2. /\ \A i \in DOMAIN disk' : Limited(disk'[i])
        /\ 0 \in DOMAIN disk' => HasRoom(disk'[0])
    <3>1. disk' = Move(0, 1) /\ 1 \in Nat \ {0}
      BY <1>5, RetireKeeps
    <3> QED BY <1>0, <2>1, <3>1, MoveIsLimited
  <2> QED BY <1>5, <2>2, RetireKeeps DEF SizeInv, Keeps
<1>6. CASE ReopenLog
  <2>1. disk' = Put(0, <<>>)
    BY <1>6, ReopenKeeps DEF FilesInv, OpenedAppend
  <2>2. log'.made > 0 /\ log'.at = "write"
    BY <1>6, ReopenKeeps DEF SizeInv, Keeps
  <2> QED BY <1>0, <2>1, <2>2, EmptyIsLimited DEF SizeInv, Put
<1>7. ASSUME log.at = "write", log.state = "active", log'.at = "idle",
             NEW more, disk' = Put(0, disk[0] \o more),
             Limited(disk[0] \o more), HasRoom(disk[0] \o more)
      PROVE  SizeInv'
  BY <1>0, <1>7 DEF SizeInv, Put
<1>8. ASSUME log.at = "write", log.state = "active"
      PROVE  \E size \in RecordSizes :
               /\ log.line = Record(log.made, size) /\ Len(log.line) = size
               /\ Limited(disk[0] \o log.line) /\ HasRoom(disk[0] \o log.line)
               /\ \A k \in 1 .. size - 1 :
                    /\ Limited(disk[0] \o SubSeq(log.line, 1, k))
                    /\ HasRoom(disk[0] \o SubSeq(log.line, 1, k))
  <2>1. PICK size \in RecordSizes : log.line = Record(log.made, size)
    BY <1>8 DEF LineInv
  <2>2. disk[0] \in Seq(Nat) /\ Len(log.line) = size
    BY <1>0, <1>8, <2>1, RecordIsSeq DEF LineInv
  <2>3. disk[0] = <<>> \/ Len(disk[0]) + size <= MaxBytes
    BY <1>8, <2>2 DEF SizeInv
  <2>4. log.made \in Nat \ {0}
    BY <1>0, <1>8 DEF SizeInv
  <2> QED BY <2>1, <2>2, <2>3, <2>4, LineIsLimited
<1>9. CASE WriteLine
  BY <1>7, <1>8, <1>9, WriteRests DEF Rests
<1>10. CASE TornWrite
  <2>1. PICK n \in 1 .. Len(log.line) - 1 :
             /\ Rests /\ log.at = "write" /\ log.state = "active"
             /\ disk' = Put(0, disk[0] \o SubSeq(log.line, 1, n))
    BY <1>10, TornRests
  <2>2. Limited(disk[0] \o SubSeq(log.line, 1, n)) /\ HasRoom(disk[0] \o SubSeq(log.line, 1, n))
    BY <1>8, <2>1
  <2> QED BY <1>7, <2>1, <2>2 DEF Rests
<1>11. CASE OtherStep
  BY <1>11, OtherRests DEF SizeInv, Rests
<1> QED
  BY <1>1, <1>2, <1>3, <1>4, <1>5, <1>6, <1>9, <1>10, <1>11, LogSteps

(* No file of the log outgrows its limit unless it holds a single record,  *)
(* and there are never more files than backups and the log.                *)
THEOREM FilesStayBounded == LogSpec => []FilesBounded
<1>1. FilesInv /\ SizeInv => FilesBounded
  BY DEF FilesInv, SizeInv, FilesBounded, Limited, OneLine
<1> QED
  BY <1>1, LogInvInit, LogInvStep, LineInvInit, LineInvStep, FilesInvInit, FilesInvStep,
     SizeInvInit, SizeInvStep, PTL DEF LogSpec

-----------------------------------------------------------------------------
(* History: what OnlyOldestLost says of the files d and the records w, and *)
(* that every byte belongs to a record made before n.                      *)
Holds(d, n) == \E i \in DOMAIN d : \E k \in DOMAIN d[i] : d[i][k] = n
InOrder(d) ==
    \A i, j \in DOMAIN d : \A k \in DOMAIN d[i], l \in DOMAIN d[j] :
        /\ Newline \notin {d[i][k], d[j][l]}
        /\ i > j \/ (i = j /\ k < l)
        => d[i][k] <= d[j][l]
SuffixKept(d, w) == \A m, n \in w : m < n /\ Holds(d, m) => Holds(d, n)
Before(d, n) == \A i \in DOMAIN d : \A k \in DOMAIN d[i] : d[i][k] < n

(* The files keep their records, in order, when d becomes e. *)
KeepsText(d, e) ==
    /\ InOrder(d) => InOrder(e)
    /\ \A n \in Nat \ {0} : Holds(d, n) <=> Holds(e, n)
    /\ \A n \in Nat \ {0} : Before(d, n) => Before(e, n)

LEMMA EmptyKeepsText ==
    ASSUME 0 \notin DOMAIN disk
    PROVE  KeepsText(disk, Put(0, <<>>))
<1> DEFINE e == Put(0, <<>>)
<1>1. /\ DOMAIN e = DOMAIN disk \cup {0} /\ DOMAIN e[0] = {}
      /\ \A i \in DOMAIN disk : e[i] = disk[i] /\ i # 0
  BY DEF Put
<1> HIDE DEF e
<1>2. \A i \in DOMAIN e : \A k \in DOMAIN e[i] :
        i \in DOMAIN disk /\ k \in DOMAIN disk[i] /\ e[i][k] = disk[i][k]
  BY <1>1
<1>3. InOrder(disk) => InOrder(e)
  BY <1>2 DEF InOrder
<1>4. \A n : Holds(disk, n) <=> Holds(e, n)
  BY <1>1, <1>2 DEF Holds
<1>5. \A n : Before(disk, n) => Before(e, n)
  BY <1>2 DEF Before
<1> QED BY <1>3, <1>4, <1>5 DEF KeepsText, e

LEMMA ClosingKeepsText ==
    ASSUME 0 \in DOMAIN disk, disk[0] \in Seq(Nat)
    PROVE  KeepsText(disk, Put(0, Append(disk[0], Newline)))
<1> DEFINE e == Put(0, Append(disk[0], Newline))
<1>1. /\ DOMAIN e = DOMAIN disk
      /\ \A i \in DOMAIN disk : i # 0 => e[i] = disk[i]
      /\ DOMAIN e[0] = DOMAIN disk[0] \cup {Len(disk[0]) + 1}
      /\ \A k \in DOMAIN disk[0] : e[0][k] = disk[0][k]
      /\ e[0][Len(disk[0]) + 1] = Newline
  <2> DEFINE all == Append(disk[0], Newline)
  <2>1. /\ DOMAIN all = DOMAIN disk[0] \cup {Len(disk[0]) + 1}
        /\ \A k \in DOMAIN disk[0] : all[k] = disk[0][k]
        /\ all[Len(disk[0]) + 1] = Newline
    BY DEF Newline
  <2> HIDE DEF all
  <2>2. e = [j \in DOMAIN disk \cup {0} |-> IF j = 0 THEN all ELSE disk[j]]
    BY DEF Put, all
  <2>3. DOMAIN e = DOMAIN disk /\ e[0] = all /\ \A i \in DOMAIN disk : i # 0 => e[i] = disk[i]
    BY <2>2
  <2> HIDE DEF e
  <2> QED BY <2>1, <2>3
<1> HIDE DEF e
<1>2. /\ \A i \in DOMAIN e : \A k \in DOMAIN e[i] : e[i][k] # Newline =>
           i \in DOMAIN disk /\ k \in DOMAIN disk[i] /\ e[i][k] = disk[i][k]
      /\ \A i \in DOMAIN disk : \A k \in DOMAIN disk[i] :
           i \in DOMAIN e /\ k \in DOMAIN e[i] /\ e[i][k] = disk[i][k]
  BY <1>1
<1>3. InOrder(disk) => InOrder(e)
  BY <1>2 DEF InOrder
<1>4. \A n \in Nat \ {0} : Holds(disk, n) <=> Holds(e, n)
  BY <1>2 DEF Holds, Newline
<1>5. \A n \in Nat \ {0} : Before(disk, n) => Before(e, n)
  <2>1. \A n \in Nat \ {0} : Newline < n
    BY DEF Newline
  <2> QED BY <1>2, <2>1 DEF Before
<1> QED BY <1>3, <1>4, <1>5 DEF KeepsText, e

LEMMA OpeningKeepsText ==
    ASSUME \A i \in DOMAIN disk : disk[i] \in Seq(Nat)
    PROVE  KeepsText(disk, OpenedAppend)
<1>1. KeepsText(disk, disk)
  BY DEF KeepsText
<1> QED BY <1>1, EmptyKeepsText, ClosingKeepsText DEF OpenedAppend

(* A file that moves up into a gap keeps its place among the others. *)
LEMMA MovingKeepsText ==
    ASSUME NEW i \in DOMAIN disk, i + 1 \notin DOMAIN disk, DOMAIN disk \subseteq Nat
    PROVE  KeepsText(disk, Move(i, i + 1))
<1> DEFINE e == Move(i, i + 1)
           old(a) == IF a = i + 1 THEN i ELSE a
<1>1. DOMAIN e = (DOMAIN disk \ {i}) \cup {i + 1} /\ i \in Nat /\ i # i + 1
  BY DEF Move
<1>2. \A a \in DOMAIN e : old(a) \in DOMAIN disk /\ e[a] = disk[old(a)]
  BY <1>1 DEF Move
<1>3. \A a, b \in DOMAIN e : (a > b => old(a) > old(b)) /\ (a = b => old(a) = old(b))
  BY <1>1
<1>4. \A a \in DOMAIN disk : \E b \in DOMAIN e : old(b) = a
  BY <1>1
<1> HIDE DEF e, old
<1>5. InOrder(disk) => InOrder(e)
  BY <1>2, <1>3 DEF InOrder
<1>6. \A n : Holds(disk, n) <=> Holds(e, n)
  BY <1>2, <1>4 DEF Holds
<1>7. \A n : Before(disk, n) => Before(e, n)
  BY <1>2 DEF Before
<1> QED BY <1>5, <1>6, <1>7 DEF KeepsText, e

(* The file with the highest number holds the oldest records: whatever is  *)
(* lost with it is older than all that remain.                             *)
LEMMA DroppingLosesOldest ==
    ASSUME NEW b \in Nat, DOMAIN disk \subseteq 0 .. b, InOrder(disk),
           NEW w \in SUBSET (Nat \ {0}), SuffixKept(disk, w)
    PROVE  /\ InOrder(Unlink(b)) /\ SuffixKept(Unlink(b), w)
           /\ \A n : Before(disk, n) => Before(Unlink(b), n)
<1> DEFINE e == Unlink(b)
<1>1. DOMAIN e = DOMAIN disk \ {b} /\ \A i \in DOMAIN e : e[i] = disk[i]
  BY DEF Unlink
<1> HIDE DEF e
<1>2. InOrder(e)
  BY <1>1 DEF InOrder
<1>3. \A n : Before(disk, n) => Before(e, n)
  BY <1>1 DEF Before
<1>4. ASSUME NEW m \in w, NEW n \in w, m < n, Holds(e, m)
      PROVE  Holds(e, n)
  <2>1. PICK j \in DOMAIN e : \E l \in DOMAIN e[j] : e[j][l] = m
    BY <1>4 DEF Holds
  <2>2. PICK l \in DOMAIN e[j] : e[j][l] = m
    BY <2>1
  <2>3. Holds(disk, m)
    BY <1>1, <2>2 DEF Holds
  <2>4. Holds(disk, n)
    BY <1>4, <2>3 DEF SuffixKept
  <2>5. PICK i \in DOMAIN disk : \E k \in DOMAIN disk[i] : disk[i][k] = n
    BY <2>4 DEF Holds
  <2>6. PICK k \in DOMAIN disk[i] : disk[i][k] = n
    BY <2>5
  <2>7. i # b
    <3> SUFFICES ASSUME i = b PROVE FALSE
      OBVIOUS
    <3>1. i > j /\ j \in DOMAIN disk /\ disk[j][l] = m /\ l \in DOMAIN disk[j]
      BY <1>1, <2>2
    <3>2. Newline \notin {n, m} /\ n \in Nat /\ m \in Nat
      BY DEF Newline
    <3>3. n <= m
      BY <2>6, <3>1, <3>2 DEF InOrder
    <3> QED BY <1>4, <3>2, <3>3
  <2> QED BY <1>1, <2>6, <2>7 DEF Holds
<1> QED BY <1>2, <1>3, <1>4 DEF SuffixKept, e

(* Bytes of the newest record go to the end of the log. *)
LEMMA AppendingKeepsOrder ==
    ASSUME 0 \in DOMAIN disk, DOMAIN disk \subseteq Nat, NEW n \in Nat \ {0},
           \A i \in DOMAIN disk : disk[i] \in Seq(Nat),
           InOrder(disk), Before(disk, n),
           NEW more \in Seq(Nat), \A k \in DOMAIN more : more[k] \in {n, Newline}
    PROVE  LET e == Put(0, disk[0] \o more) IN
             /\ InOrder(e) /\ Before(e, n + 1)
             /\ \A m \in Nat \ {0, n} : Holds(disk, m) <=> Holds(e, m)
             /\ (\E k \in DOMAIN more : more[k] = n) => Holds(e, n)
<1> DEFINE all == disk[0] \o more
           e == Put(0, all)
<1>0. disk[0] \in Seq(Nat)
  OBVIOUS
<1>1. /\ all \in Seq(Nat) /\ Len(all) = Len(disk[0]) + Len(more)
      /\ Len(disk[0]) \in Nat /\ Len(more) \in Nat
      /\ DOMAIN disk[0] = 1 .. Len(disk[0]) /\ DOMAIN more = 1 .. Len(more)
      /\ DOMAIN all = 1 .. Len(all)
      /\ \A k \in 1 .. Len(disk[0]) : all[k] = disk[0][k]
      /\ \A k \in 1 .. Len(all) : k > Len(disk[0]) => all[k] = more[k - Len(disk[0])]
  BY <1>0
<1> HIDE DEF all
<1>2. \A k \in DOMAIN all : k \notin DOMAIN disk[0] =>
        all[k] \in {n, Newline} /\ \A l \in DOMAIN disk[0] : l < k
  <2> SUFFICES ASSUME NEW k \in DOMAIN all, k \notin DOMAIN disk[0]
               PROVE  all[k] \in {n, Newline} /\ \A l \in DOMAIN disk[0] : l < k
    OBVIOUS
  <2>1. k \in Nat /\ k > Len(disk[0]) /\ k - Len(disk[0]) \in DOMAIN more
    BY <1>1
  <2> QED BY <1>1, <2>1
<1>3. /\ DOMAIN e = DOMAIN disk /\ e[0] = all
      /\ \A i \in DOMAIN disk : i # 0 => e[i] = disk[i]
  BY DEF Put
<1> HIDE DEF e
<1>4. ASSUME NEW i \in DOMAIN e, NEW k \in DOMAIN e[i]
      PROVE  \/ k \in DOMAIN disk[i] /\ e[i][k] = disk[i][k]
             \/ /\ i = 0 /\ e[i][k] \in {n, Newline}
                /\ \A l \in DOMAIN disk[0] : l < k
  BY <1>1, <1>2, <1>3, <1>4
<1>5. \A i \in DOMAIN disk : \A k \in DOMAIN disk[i] :
        /\ k \in DOMAIN e[i] /\ e[i][k] = disk[i][k] /\ e[i][k] < n /\ e[i][k] \in Nat
  <2>1. ASSUME NEW i \in DOMAIN disk, NEW k \in DOMAIN disk[i]
        PROVE  disk[i][k] < n /\ disk[i][k] \in Nat
    BY <2>1 DEF Before
  <2>2. DOMAIN disk[0] \subseteq DOMAIN all
    BY <1>1
  <2> QED BY <1>1, <1>3, <2>1, <2>2
<1>6. Before(e, n + 1)
  <2>1. ASSUME NEW i \in DOMAIN e, NEW k \in DOMAIN e[i] PROVE e[i][k] < n + 1
    <3>1. CASE k \in DOMAIN disk[i] /\ e[i][k] = disk[i][k]
      BY <1>3, <1>5, <3>1
    <3>2. CASE e[i][k] \in {n, Newline}
      BY <3>2 DEF Newline
    <3> QED BY <1>4, <3>1, <3>2
  <2> QED BY <2>1 DEF Before
<1>7. \A m \in Nat \ {0, n} : Holds(disk, m) <=> Holds(e, m)
  BY <1>3, <1>4, <1>5 DEF Holds, Newline
<1>8. ASSUME NEW k \in DOMAIN more, more[k] = n PROVE Holds(e, n)
  <2>1. k + Len(disk[0]) \in DOMAIN all /\ all[k + Len(disk[0])] = n
    <3>1. k + Len(disk[0]) \in 1 .. Len(all) /\ k + Len(disk[0]) > Len(disk[0])
          /\ (k + Len(disk[0])) - Len(disk[0]) = k
      BY <1>1
    <3> QED BY <1>1, <1>8, <3>1
  <2> QED BY <1>3, <2>1 DEF Holds
<1>9. InOrder(e)
  <2> SUFFICES ASSUME NEW i \in DOMAIN e, NEW j \in DOMAIN e,
                      NEW k \in DOMAIN e[i], NEW l \in DOMAIN e[j],
                      Newline \notin {e[i][k], e[j][l]}, i > j \/ (i = j /\ k < l)
               PROVE  e[i][k] <= e[j][l]
    BY DEF InOrder
  <2>1. e[i][k] \in Nat /\ e[i][k] <= n /\ i \in Nat /\ j \in Nat
    <3>1. CASE k \in DOMAIN disk[i] /\ e[i][k] = disk[i][k]
      BY <1>3, <1>5, <3>1
    <3>2. CASE e[i][k] \in {n, Newline}
      BY <3>2
    <3> QED BY <1>3, <1>4, <3>1, <3>2
  <2>2. CASE l \in DOMAIN disk[j] /\ e[j][l] = disk[j][l]
    <3>1. CASE k \in DOMAIN disk[i] /\ e[i][k] = disk[i][k]
      BY <1>3, <2>2, <3>1 DEF InOrder
    <3>2. CASE i = 0 /\ \A a \in DOMAIN disk[0] : a < k
      <4>1. j = 0 /\ k < l
        BY <2>1, <3>2
      <4>2. l < k
        BY <2>2, <3>2, <4>1
      <4>3. k \in Nat /\ l \in Nat
        BY <1>1, <1>3, <3>2, <4>1
      <4> QED BY <4>1, <4>2, <4>3
    <3> QED BY <1>4, <3>1, <3>2
  <2>3. CASE e[j][l] \in {n, Newline}
    BY <2>1, <2>3
  <2> QED BY <1>4, <2>2, <2>3
<1> QED BY <1>6, <1>7, <1>8, <1>9 DEF e, all

HistoryInv ==
    /\ Before(disk, log.made + 1) /\ (log.at # "idle" => Before(disk, log.made))
    /\ written \subseteq 1 .. log.made /\ (log.at # "idle" => log.made \notin written)
    /\ InOrder(disk) /\ SuffixKept(disk, written)

LEMMA HistoryInvInit == LogInit => HistoryInv
BY DEF LogInit, HistoryInv, Before, InOrder, SuffixKept

(* While emit() works on its files the records on disk stay those before   *)
(* the one it carries.                                                     *)
LEMMA TextKeptIsHistory ==
    ASSUME HistoryInv, log.made \in Nat, log'.made = log.made, written' = written,
           log'.at # "idle" => log.at # "idle", log'.at # "idle" => log.made > 0,
           KeepsText(disk, disk')
    PROVE  HistoryInv'
<1>1. InOrder(disk') /\ Before(disk', log.made + 1)
  BY DEF HistoryInv, KeepsText
<1>2. log'.at # "idle" => Before(disk', log.made)
  BY DEF HistoryInv, KeepsText
<1>3. SuffixKept(disk', written)
  <2>1. written \subseteq Nat \ {0}
    BY DEF HistoryInv
  <2> QED BY <2>1 DEF HistoryInv, KeepsText, SuffixKept
<1> QED BY <1>1, <1>2, <1>3 DEF HistoryInv

LEMMA HistoryInvStep ==
    /\ LogInv /\ LineInv /\ FilesInv /\ SizeInv /\ HistoryInv /\ [LogNext]_logVars
    => HistoryInv'
<1> SUFFICES ASSUME LogInv, LineInv, FilesInv, SizeInv, HistoryInv, [LogNext]_logVars
             PROVE  HistoryInv'
  OBVIOUS
<1>0. /\ log.backups \in Nat /\ log.shifted \in Int /\ log.made \in Nat
      /\ \A i \in DOMAIN disk : disk[i] \in Seq(Nat)
      /\ DOMAIN disk \subseteq 0 .. log.backups /\ DOMAIN disk \subseteq Nat
      /\ log.at # "idle" => log.made > 0
  BY DEF LogInv, Loggers, LineInv, FilesInv, SizeInv
<1>1. KeepsText(disk, disk) /\ KeepsText(disk, OpenedAppend)
  BY <1>0, OpeningKeepsText DEF KeepsText
<1>2. CASE StartLogger
  BY <1>0, <1>1, <1>2, StartKeeps, TextKeptIsHistory DEF Rests, Keeps
<1>3. CASE Emit
  <2>1. log'.made = log.made + 1 /\ disk' = disk /\ written' = written /\ log.at = "idle"
    BY <1>3, EmitPrepares
  <2>2. Before(disk, (log.made + 1) + 1)
    BY <1>0 DEF HistoryInv, Before
  <2>3. written \subseteq 1 .. log.made + 1 /\ log.made + 1 \notin written
    BY <1>0 DEF HistoryInv
  <2> QED BY <2>1, <2>2, <2>3 DEF HistoryInv
<1>4. CASE DropOldest
  <2>1. log'.made = log.made /\ log.at # "idle" /\ disk' = Unlink(log.backups)
        /\ written' = written
    BY <1>4, DropKeeps DEF Keeps
  <2>2. written \in SUBSET (Nat \ {0})
    BY DEF HistoryInv
  <2>3. /\ InOrder(disk') /\ SuffixKept(disk', written)
        /\ \A n : Before(disk, n) => Before(disk', n)
    BY <1>0, <2>1, <2>2, DroppingLosesOldest DEF HistoryInv
  <2> QED BY <2>1, <2>3 DEF HistoryInv
<1>5. CASE ShiftBackup
  <2>1. KeepsText(disk, disk')
    <3>1. log.shifted + 1 \notin DOMAIN disk
      BY <1>5, ShiftKeeps DEF FilesInv
    <3> QED BY <1>0, <1>1, <1>5, <3>1, ShiftKeeps, MovingKeepsText
  <2> QED BY <1>0, <1>5, <2>1, ShiftKeeps, TextKeptIsHistory DEF Keeps
<1>6. CASE RetireLog
  <2>1. KeepsText(disk, disk')
    <3>1. 0 \in DOMAIN disk /\ 0 + 1 \notin DOMAIN disk /\ disk' = Move(0, 0 + 1)
      BY <1>6, RetireKeeps DEF FilesInv, LineInv
    <3> QED BY <1>0, <3>1, MovingKeepsText
  <2> QED BY <1>0, <1>6, <2>1, RetireKeeps, TextKeptIsHistory DEF Keeps
<1>7. CASE ReopenLog
  BY <1>0, <1>1, <1>7, ReopenKeeps, TextKeptIsHistory DEF Keeps
<1>8. ASSUME log.at = "write", log.state = "active"
      PROVE  /\ 0 \in DOMAIN disk /\ log.made \in Nat \ {0} /\ Before(disk, log.made)
             /\ \E size \in RecordSizes : log.line = Record(log.made, size)
  BY <1>0, <1>8 DEF LineInv, HistoryInv
<1>9. CASE WriteLine
  <2>1. /\ log'.made = log.made /\ log'.at = "idle" /\ log.at = "write"
        /\ log.state = "active" /\ disk' = Put(0, disk[0] \o log.line)
        /\ written' = written \cup {log.made}
    BY <1>9, WriteRests DEF Rests, Keeps
  <2>2. PICK size \in RecordSizes : log.line = Record(log.made, size)
    BY <1>8, <2>1
  <2>3. size \in Nat /\ size > 1 /\ log.made \in Nat
    BY <1>0
  <2>4. /\ log.line \in Seq(Nat) /\ Len(log.line) = size
        /\ \A i \in 1 .. size : log.line[i] = IF i < size THEN log.made ELSE Newline
    <3>1. \A n \in Nat :
             /\ Record(n, size) \in Seq(Nat) /\ Len(Record(n, size)) = size
             /\ \A i \in 1 .. size : Record(n, size)[i] = IF i < size THEN n ELSE Newline
      BY <2>3, RecordIsSeq
    <3>2. PICK line : line = log.line
      OBVIOUS
    <3>3. PICK n \in Nat : n = log.made
      BY <2>3
    <3>4. line = Record(n, size)
      BY <2>2, <3>2, <3>3
    <3>5. line \in Seq(Nat) /\ Len(line) = size
          /\ \A i \in 1 .. size : line[i] = IF i < size THEN n ELSE Newline
      BY <3>1, <3>4
    <3> QED BY <3>2, <3>3, <3>5
  <2>5. /\ \A k \in DOMAIN log.line : log.line[k] \in {log.made, Newline}
        /\ 1 \in DOMAIN log.line /\ log.line[1] = log.made
    BY <2>3, <2>4
  <2>6. /\ InOrder(disk') /\ Before(disk', log.made + 1) /\ Holds(disk', log.made)
        /\ \A m \in Nat \ {0, log.made} : Holds(disk, m) <=> Holds(disk', m)
    <3>1. InOrder(disk)
      BY DEF HistoryInv
    <3> QED BY <1>0, <1>8, <2>1, <2>4, <2>5, <3>1, AppendingKeepsOrder
  <2>7. SuffixKept(disk', written')
    <3> SUFFICES ASSUME NEW m \in written', NEW n \in written', m < n, Holds(disk', m)
                 PROVE  Holds(disk', n)
      BY DEF SuffixKept
    <3>1. written \subseteq 1 .. log.made /\ SuffixKept(disk, written)
      BY DEF HistoryInv
    <3>2. CASE n = log.made
      BY <2>6, <3>2
    <3>3. CASE n # log.made
      <4>1. n \in written /\ m \in written /\ m # log.made /\ m \in Nat \ {0, log.made}
            /\ n \in Nat \ {0, log.made}
        BY <1>0, <2>1, <3>1, <3>3
      <4> QED BY <2>6, <3>1, <4>1 DEF SuffixKept
    <3> QED BY <3>2, <3>3
  <2>8. written' \subseteq 1 .. log.made
    <3>1. log.made \in Nat \ {0} /\ written \subseteq 1 .. log.made
      BY <1>8, <2>1 DEF HistoryInv
    <3>2. PICK n \in Nat \ {0} : n = log.made
      BY <3>1
    <3>3. written \cup {n} \subseteq 1 .. n
      <4>1. written \subseteq 1 .. n
        BY <3>1, <3>2
      <4>2. n \in 1 .. n
        BY <3>2
      <4> QED BY <4>1, <4>2, Zenon
    <3> QED BY <2>1, <3>2, <3>3
  <2> QED BY <2>1, <2>6, <2>7, <2>8 DEF HistoryInv
<1>10. CASE TornWrite
  <2>1. PICK last \in 1 .. Len(log.line) - 1 :
             /\ Rests /\ log.at = "write" /\ log.state = "active"
             /\ disk' = Put(0, disk[0] \o SubSeq(log.line, 1, last)) /\ written' = written
    BY <1>10, TornRests
  <2>2. PICK size \in RecordSizes : log.line = Record(log.made, size)
    BY <1>8, <2>1
  <2>3. size \in Nat /\ size > 1 /\ log.made \in Nat
    BY <1>0
  <2>4. /\ log.line \in Seq(Nat) /\ Len(log.line) = size
        /\ \A i \in 1 .. size : log.line[i] = IF i < size THEN log.made ELSE Newline
    <3>1. \A n \in Nat :
             /\ Record(n, size) \in Seq(Nat) /\ Len(Record(n, size)) = size
             /\ \A i \in 1 .. size : Record(n, size)[i] = IF i < size THEN n ELSE Newline
      BY <2>3, RecordIsSeq
    <3>2. PICK line : line = log.line
      OBVIOUS
    <3>3. PICK n \in Nat : n = log.made
      BY <2>3
    <3>4. line = Record(n, size)
      BY <2>2, <3>2, <3>3
    <3>5. line \in Seq(Nat) /\ Len(line) = size
          /\ \A i \in 1 .. size : line[i] = IF i < size THEN n ELSE Newline
      BY <3>1, <3>4
    <3> QED BY <3>2, <3>3, <3>5
  <2> DEFINE part == SubSeq(log.line, 1, last)
  <2>5. part \in Seq(Nat) /\ \A k \in DOMAIN part : part[k] \in {log.made, Newline}
    BY <2>3, <2>4
  <2> HIDE DEF part
  <2>6. /\ InOrder(disk') /\ Before(disk', log.made + 1)
        /\ \A m \in Nat \ {0, log.made} : Holds(disk, m) <=> Holds(disk', m)
    <3>1. InOrder(disk) /\ disk' = Put(0, disk[0] \o part)
      BY <2>1 DEF HistoryInv, part
    <3>2. 0 \in DOMAIN disk /\ log.made \in Nat \ {0} /\ Before(disk, log.made)
      BY <1>8, <2>1
    <3>3. LET e == Put(0, disk[0] \o part) IN
             /\ InOrder(e) /\ Before(e, log.made + 1)
             /\ \A m \in Nat \ {0, log.made} : Holds(disk, m) <=> Holds(e, m)
      BY <1>0, <2>5, <3>1, <3>2, AppendingKeepsOrder
    <3> QED BY <3>1, <3>3
  <2>7. written \subseteq Nat \ {0, log.made}
    BY <2>1 DEF HistoryInv
  <2>8. SuffixKept(disk', written)
    BY <2>6, <2>7 DEF HistoryInv, SuffixKept
  <2> QED BY <2>1, <2>6, <2>8 DEF HistoryInv, Rests, Keeps
<1>11. CASE OtherStep
  BY <1>0, <1>1, <1>11, OtherRests, TextKeptIsHistory DEF Rests, Keeps
<1> QED
  BY <1>2, <1>3, <1>4, <1>5, <1>6, <1>7, <1>9, <1>10, <1>11, LogSteps

(* The log loses records only from its old end, and its files stay in the  *)
(* order of emission, wherever a rotation is interrupted and by however    *)
(* many processes it is finished.                                          *)
THEOREM OnlyOldestRecordsLost == LogSpec => []OnlyOldestLost
<1>1. HistoryInv => OnlyOldestLost
  BY DEF HistoryInv, SuffixKept, InOrder, Holds, OnlyOldestLost, OnDisk
<1> QED
  BY <1>1, LogInvInit, LogInvStep, LineInvInit, LineInvStep, FilesInvInit, FilesInvStep,
     SizeInvInit, SizeInvStep, HistoryInvInit, HistoryInvStep, PTL DEF LogSpec
=============================================================================
