---------------------------- MODULE DiagnosticLog ----------------------------
(***************************************************************************)
(* DiagnosticLogger of diagnostics.py: a JSON Lines file with numbered     *)
(* backups, shared by the threads of one process under one lock.           *)
(*                                                                         *)
(* A file is the sequence of its bytes, of which only two kinds matter: 0  *)
(* is a newline and n > 0 is a byte of the text of record n.  disk maps    *)
(* the number of each file that exists (0 the log, i its i-th backup) to   *)
(* its bytes.  The file operations of one emit() are steps of their own,   *)
(* since each may raise and the process may be killed between any two.     *)
(***************************************************************************)
EXTENDS Integers, SequencesExt

CONSTANTS
    MaxBytes,       \* max_bytes
    MaxBackups,     \* backup_count is any number up to this
    RecordSizes,    \* lengths of encoded records, their newline counted
    MaxRecords,     \* bound: records emitted
    MaxStarts,      \* bound: processes that open the log
    Holders,        \* register_secret contexts that may be open together
    Secrets         \* distinct groups of renderings

ASSUME LogAssumption ==
    /\ MaxBytes \in Nat \ {0} /\ MaxBackups \in Nat
    /\ RecordSizes \subseteq Nat \ {0, 1}
    /\ MaxRecords \in Nat /\ MaxStarts \in Nat
    /\ IsFiniteSet(Holders) /\ "none" \notin Secrets

VARIABLES
    disk,       \* the files
    log,        \* the logger of the running process
    held,       \* the secret each open context registered
    refs,       \* _secret_refcounts
    written     \* records whose write() was reported complete

logVars == <<disk, log, held, refs, written>>

NoSecret == "none"
Newline == 0

(* The logger's life, the step its emit() has reached, and the line it     *)
(* carries; backups, made and starts outlive the process.                  *)
Settled(state) == [log EXCEPT !.state = state, !.at = "idle", !.line = <<>>]
Record(n, size) == [i \in 1 .. size |-> IF i < size THEN n ELSE Newline]
Unlink(i) == [j \in DOMAIN disk \ {i} |-> disk[j]]
Move(i, j) ==
    [k \in (DOMAIN disk \ {i}) \cup {j} |-> IF k = j THEN disk[i] ELSE disk[k]]
Put(i, bytes) ==
    [j \in DOMAIN disk \cup {i} |-> IF j = i THEN bytes ELSE disk[j]]

LogInit ==
    /\ disk = <<>>
    /\ \E backups \in 0 .. MaxBackups :
         log = [state |-> "none", at |-> "idle", shifted |-> 0, line |-> <<>>,
                backups |-> backups, made |-> 0, starts |-> 0]
    /\ held = [h \in Holders |-> NoSecret]
    /\ refs = [s \in Secrets |-> 0]
    /\ written = {}

(* Slip: the end of the file is not looked at. *)
OpenedAppendAsItIs == IF 0 \notin DOMAIN disk THEN Put(0, <<>>) ELSE disk

(* Slip: the file is opened for writing from its start. *)
OpenedTruncated == Put(0, <<>>)

(* _open_append_stream: a missing file is created, and a line that an      *)
(* earlier process left without its newline is closed.                     *)
OpenedAppend ==
    IF 0 \notin DOMAIN disk THEN Put(0, <<>>)
    ELSE IF disk[0] # <<>> /\ Last(disk[0]) # Newline
         THEN Put(0, Append(disk[0], Newline)) ELSE disk

Free == log.at = "idle"     \* nobody is inside emit()'s critical section

(* A process starts its logger; opening the file may fail. *)
StartLogger ==
    /\ log.state = "none" /\ log.starts < MaxStarts
    /\ \E opened \in BOOLEAN :
         /\ disk' = IF opened THEN OpenedAppend ELSE disk
         /\ log' = [log EXCEPT !.state = IF opened THEN "active" ELSE "failed",
                               !.starts = @ + 1]
    /\ UNCHANGED <<held, refs, written>>

(* Slip: only a file that is full already is rotated. *)
OverflowsOnceFull(size) == disk[0] # <<>> /\ Len(disk[0]) >= MaxBytes

(* The condition under which _write_line_locked() rotates first. *)
Overflows(size) == disk[0] # <<>> /\ Len(disk[0]) + size > MaxBytes

Emit ==
    /\ Free /\ log.state = "active" /\ log.made < MaxRecords
    /\ \E size \in RecordSizes :
         log' = [log EXCEPT !.made = @ + 1, !.line = Record(log.made + 1, size),
                            !.at = IF Overflows(size) THEN "rotate" ELSE "write"]
    /\ UNCHANGED <<disk, held, refs, written>>

(* _rotate_locked: the stream is closed and the oldest file unlinked,     *)
(* which is the log itself when no backup is kept.                         *)
DropOldest ==
    /\ log.at = "rotate"
    /\ disk' = Unlink(log.backups)
    /\ log' = [log EXCEPT !.at = IF log.backups = 0 THEN "open" ELSE "shift",
                          !.shifted = log.backups - 1]
    /\ UNCHANGED <<held, refs, written>>

(* The backups move up by one, highest first; a missing one is skipped. *)
ShiftBackup ==
    /\ log.at = "shift" /\ log.shifted > 0
    /\ disk' = IF log.shifted \in DOMAIN disk
               THEN Move(log.shifted, log.shifted + 1) ELSE disk
    /\ log' = [log EXCEPT !.shifted = @ - 1]
    /\ UNCHANGED <<held, refs, written>>

(* The log becomes the first backup. *)
RetireLog ==
    /\ log.at = "shift" /\ log.shifted = 0
    /\ disk' = Move(0, 1)
    /\ log' = [log EXCEPT !.at = "open"]
    /\ UNCHANGED <<held, refs, written>>

ReopenLog ==
    /\ log.at = "open"
    /\ disk' = OpenedAppend
    /\ log' = [log EXCEPT !.at = "write"]
    /\ UNCHANGED <<held, refs, written>>

WriteLine ==
    /\ log.at = "write"
    /\ disk' = Put(0, disk[0] \o log.line)
    /\ log' = Settled("active")
    /\ written' = written \cup {log.made}
    /\ UNCHANGED <<held, refs>>

(* write() took only a part of the line, which _write_line_locked() turns *)
(* into a failure; a process killed in mid-write leaves the same part.     *)
TornWrite ==
    /\ log.at = "write"
    /\ \E n \in 1 .. Len(log.line) - 1 :
         disk' = Put(0, disk[0] \o SubSeq(log.line, 1, n))
    /\ log' = Settled("failed")
    /\ UNCHANGED <<held, refs, written>>

(* Any file operation of an emit may raise: _fail_locked() stops the       *)
(* logger for good.                                                        *)
Raise ==
    /\ ~Free
    /\ log' = Settled("failed")
    /\ UNCHANGED <<disk, held, refs, written>>

(* register_secret: entered and left under the lock, whatever the logger's *)
(* state; close() forgets the counts of contexts that are still open.      *)
EnterSecret(h, s) ==
    /\ Free /\ log.state # "none" /\ held[h] = NoSecret
    /\ held' = [held EXCEPT ![h] = s]
    /\ refs' = [refs EXCEPT ![s] = @ + 1]
    /\ UNCHANGED <<disk, log, written>>

(* Slip: the renderings are forgotten without counting. *)
LeaveSecretOutright(h) ==
    /\ Free /\ held[h] # NoSecret
    /\ refs' = [refs EXCEPT ![held[h]] = 0]
    /\ held' = [held EXCEPT ![h] = NoSecret]
    /\ UNCHANGED <<disk, log, written>>

LeaveSecret(h) ==
    /\ Free /\ held[h] # NoSecret
    /\ LET remaining == refs[held[h]] - 1 IN
         refs' = [refs EXCEPT ![held[h]] = IF remaining > 0 THEN remaining ELSE 0]
    /\ held' = [held EXCEPT ![h] = NoSecret]
    /\ UNCHANGED <<disk, log, written>>

CloseLogger ==
    /\ Free /\ log.state \in {"active", "failed"}
    /\ log' = [log EXCEPT !.state = "closed"]
    /\ refs' = [s \in Secrets |-> 0]
    /\ UNCHANGED <<disk, held, written>>

(* The process ends: killed at any point, or after close(). *)
ProcessEnds ==
    /\ log.state # "none"
    /\ log' = Settled("none")
    /\ held' = [h \in Holders |-> NoSecret]
    /\ refs' = [s \in Secrets |-> 0]
    /\ UNCHANGED <<disk, written>>

LogNext ==
    \/ StartLogger
    \/ Emit
    \/ DropOldest
    \/ ShiftBackup
    \/ RetireLog
    \/ ReopenLog
    \/ WriteLine
    \/ TornWrite
    \/ Raise
    \/ \E h \in Holders, s \in Secrets : EnterSecret(h, s)
    \/ \E h \in Holders : LeaveSecret(h)
    \/ CloseLogger
    \/ ProcessEnds

LogSpec == LogInit /\ [][LogNext]_logVars

-----------------------------------------------------------------------------
OnDisk(n) == \E i \in DOMAIN disk : \E k \in DOMAIN disk[i] : disk[i][k] = n

(* No line holds bytes of two records, even after a torn write, a crash in *)
(* mid-line and the next process's first record: a reader that splits the  *)
(* log at newlines meets every record whole or visibly cut.                *)
OwnLine ==
    \A i \in DOMAIN disk : \A k \in 1 .. Len(disk[i]) - 1 :
        Newline \in {disk[i][k], disk[i][k + 1]} \/ disk[i][k] = disk[i][k + 1]

(* Rotation loses history only from its old end, wherever it is            *)
(* interrupted and in however many processes: of the records reported as   *)
(* written, one that is gone is older than all that remain, and the files, *)
(* read from the oldest backup to the log, are in the order of emission.   *)
OnlyOldestLost ==
    /\ \A m, n \in written : m < n /\ OnDisk(m) => OnDisk(n)
    /\ \A i, j \in DOMAIN disk : \A k \in DOMAIN disk[i], l \in DOMAIN disk[j] :
         /\ Newline \notin {disk[i][k], disk[j][l]}
         /\ i > j \/ (i = j /\ k < l)
         => disk[i][k] <= disk[j][l]

(* No file outgrows max_bytes, the closing of a torn line included, unless *)
(* it is one record that is itself larger.                                 *)
FilesBounded ==
    /\ DOMAIN disk \subseteq 0 .. log.backups
    /\ \A i \in DOMAIN disk :
         \/ Len(disk[i]) <= MaxBytes
         \/ Newline \notin {disk[i][k] : k \in 1 .. Len(disk[i]) - 1}

(* Until it is closed the logger redacts exactly the secrets some context  *)
(* still holds: of several holders of one secret the first to leave must   *)
(* not uncover it for the others, and the last one must not leave it       *)
(* behind.                                                                 *)
RedactsWhatIsHeld ==
    log.state \in {"active", "failed"} =>
        {s \in Secrets : refs[s] > 0} = {held[h] : h \in Holders} \ {NoSecret}
=============================================================================
