------------------------- MODULE ChargerViewProofs -------------------------
(***************************************************************************)
(* Theorems about a session and the charger behind it, for any callers,    *)
(* polls, setpoints and bounds: what the charger handled right before a    *)
(* Start are the two re-reads of that Start; the charger starts with the   *)
(* targets that were confirmed; and what the session shows without doubt   *)
(* is what the charger has, unless a change of it is under way.            *)
(*                                                                         *)
(* RInv follows the requests from the transaction through the native stack *)
(* and the air to the charger, abandoned writes included: the numbers of   *)
(* the clients tell those of an older link apart from the present one's.   *)
(*                                                                         *)
(* VInv does the same for the values: what is still on its way to the      *)
(* charger, what the answers in flight will show, and what the session     *)
(* will have been told of a change when they arrive.                       *)
(***************************************************************************)
EXTENDS ChargerSetupProofs

-----------------------------------------------------------------------------
(* What the charger hears before a Start. *)

(* The requests the charger has heard or will hear, in order. *)
Heard == Len(heard.last)
End == Heard + Len(toDev)
Said(k) == IF k <= Heard THEN heard.last[k] ELSE toDev[k - Heard].op

(* The k-th of them is a re-read of the configuration, or of the telemetry right after one
   of the configuration. *)
Asked(k) == k >= 1 /\ Said(k) = "get_config"
Reread(k) == k >= 2 /\ Said(k) = "get_telemetry" /\ Said(k - 1) = "get_config"

(* The request of t is still in the native stack, or has left it. *)
Sending(t) == task[t].pc = "writing" /\ native[t].at = "busy"
Out(t) == task[t].pc = "replying" \/ (task[t].pc = "writing" /\ native[t].at \in {"landed", "done"})

(* How far the re-reads of a Start have come, while the link they went out on is in use. *)
Rereads(t) ==
    task[t].op = "start" =>
        /\ task[t].pc = "queued" => task[t].step = 1
        /\ task[t].pc \in Transacting => task[t].chunk = 1
        /\ task[t].pc \in Transacting /\ s.state = "ready" /\ link.up =>
              /\ task[t].step = 1 /\ Out(t) => Asked(End)
              /\ task[t].step = 2 /\ Sending(t) => Asked(End)
              /\ task[t].step = 2 /\ Out(t) => Reread(End)
        /\ task[t].step = 3 /\ Sending(t) /\ Alive(native[t].on) => Reread(End)

(* Every Start in the air is preceded by both re-reads, and so is one in an orphan. *)
StartsReread ==
    \A i \in 1 .. Len(toDev) : toDev[i].op = "output_on" => Reread(Heard + i - 1)
OrphansReread ==
    \A o \in orphans : o.final /\ o.frame.op = "output_on" /\ Alive(o.frame.on) => Reread(End)

(* A write was issued to the present link or an older one, and so was an orphan; a setup
   that links will make a newer one. *)
LinksOld ==
    /\ link.id <= s.generation
    /\ \A t \in Tasks : /\ task[t].pc = "linking" => link.id < task[t].gen
                        /\ native[t].on <= link.id
    /\ \A o \in orphans : o.frame.on <= link.id

RInv == /\ Heard <= 2
        /\ \A t \in Tasks : Rereads(t)
        /\ StartsReread /\ OrphansReread /\ LinksOld

-----------------------------------------------------------------------------
(* The steps of a task. *)

(* t begins the transaction of a Start, goes on with its next request, or stays. *)
Opens(t) == task'[t].pc = "writing" /\ task'[t].chunk = 1 /\ native'[t].at = "busy"
Follows(t) ==
    /\ task[t].op = "start" /\ task[t].pc = "replying" /\ task'[t].step = task[t].step + 1
    /\ s'.state = s.state
    /\ task[t].step = 2 => s.state = "ready" /\ link.up
Holds(t) ==
    /\ task[t].op = "start" /\ task[t].pc \in Transacting /\ s'.state = s.state
    /\ task'[t].step = task[t].step /\ task'[t].chunk = task[t].chunk
    /\ \/ task'[t].pc = task[t].pc /\ native'[t] = native[t]
       \/ task'[t].pc = "replying" /\ task[t].pc = "writing" /\ native[t].at = "done"

Enters(t) ==
    /\ task'[t].pc = "linking" =>
          \/ task[t].pc = "linking" /\ task'[t].gen = task[t].gen
          \/ task'[t].gen > s.generation
    /\ task'[t].op = "start" =>
          /\ task'[t].pc = "queued" =>
                task'[t].step = 1 \/ (task[t].op = "start" /\ task[t].pc = "queued"
                                      /\ task'[t].step = task[t].step)
          /\ task'[t].pc \in Transacting =>
                \/ Opens(t) /\ (task'[t].step = 1 \/ Follows(t))
                \/ Holds(t)

(* Only t's write and what is left of it change. *)
Writes(t) ==
    /\ \A u \in Tasks \ {t} : native'[u] = native[u]
    /\ t \in Tasks => native'[t] \in {native[t], NoWrite, [at |-> "busy", on |-> link.id]}
    /\ orphans' \subseteq orphans \cup {o \in {OrphanOf(t)} : t \in Tasks /\ task[t].pc = "writing"}

(* The link stays, or goes down with what was in the air. *)
Hangs ==
    /\ heard' = heard /\ link'.id = link.id /\ (link'.up => link.up)
    /\ toDev' = toDev \/ (toDev' = <<>> /\ ~link'.up)

Goes(t) ==
    /\ Apart(t, task') /\ s'.generation >= s.generation
    /\ s'.state = "ready" => s.state = "ready" \/ (t \in Tasks /\ task[t].pc \in Transacting)

(* The requests of a Start. *)
LEMMA StartProgram ==
    /\ Len(Program("start")) = 4
    /\ Program("start")[1] = "get_config" /\ Program("start")[2] = "get_telemetry"
    /\ Program("start")[3] = "output_on" /\ Program("start")[4] = "get_telemetry"
  BY DataAssumption DEF DataAssumption, Program

LEMMA OnlyStartSwitchesOn ==
    ASSUME NEW op \in AllOperations, NEW k \in 1 .. Len(Program(op)), Program(op)[k] = "output_on"
    PROVE  op = "start" /\ k = 3
<1>1. CASE op \in Setters
  BY <1>1, DataAssumption DEF DataAssumption, Program
<1>2. CASE op = "start"
  BY <1>2, DataAssumption DEF DataAssumption, Program
<1>3. CASE op \notin Setters \cup {"start"}
  BY <1>3, DataAssumption DEF DataAssumption, Program, AllOperations
<1> QED
  BY <1>1, <1>2, <1>3

(* Types that the leaves below need. *)
LEMMA HeardTypesOf ==
    IInv => /\ heard.last \in Seq(Requests) /\ toDev \in Seq(AirFrame)
            /\ Heard \in Nat /\ Len(toDev) \in Nat /\ End \in Nat
            /\ link.id \in Nat /\ link.up \in BOOLEAN /\ s.generation \in Nat
            /\ native \in [Tasks -> NativeWrite] /\ orphans \subseteq Orphan
            /\ task \in [Tasks -> TaskState]
            /\ \A t \in Tasks : native[t].on \in Nat /\ task[t].gen \in Nat
            /\ \A o \in orphans : o.frame.on \in Nat
  BY DEF IInv, TypeOK, Heard, End, Session, TaskState, NativeWrite, Orphan, AirFrame

LEMMA SaidStays ==
    ASSUME UNCHANGED <<heard, toDev>>
    PROVE  /\ Heard' = Heard /\ End' = End
           /\ \A k : (Asked(k)' <=> Asked(k)) /\ (Reread(k)' <=> Reread(k))
  BY DEF Heard, End, Asked, Reread, Said

(* A task's step keeps the account. *)
LEMMA GoesKeeps ==
    ASSUME IInv, SInv, RInv, s' \in Session, NEW t, Goes(t), t \in Tasks => Enters(t),
           Writes(t), Hangs
    PROVE  RInv'
<1>1. /\ Heard' = Heard
      /\ link'.up => /\ End' = End /\ link.up /\ toDev' = toDev
                     /\ \A k : (Asked(k)' <=> Asked(k)) /\ (Reread(k)' <=> Reread(k))
      /\ \A id : Alive(id)' => Alive(id)
  BY SaidStays DEF Hangs, Heard, Alive
<1>2. ASSUME NEW u \in Tasks \ {t}
      PROVE  Rereads(u)'
  <2>1. /\ task'[u].op = task[u].op /\ task'[u].pc = task[u].pc
        /\ task'[u].step = task[u].step /\ task'[u].chunk = task[u].chunk
        /\ native'[u] = native[u] /\ Rereads(u)
    BY DEF Goes, Apart, Writes, RInv
  <2>2. (Sending(u)' <=> Sending(u)) /\ (Out(u)' <=> Out(u))
    BY <2>1 DEF Sending, Out
  <2>3. task[u].pc \in Transacting /\ s'.state = "ready" => s.state = "ready"
    <3>1. task[u].pc \in Transacting /\ t \in Tasks => task[t].pc \notin Transacting
      BY TransactingOwns
    <3> QED
      BY <3>1 DEF Goes
  <2>4. /\ s'.state = "ready" /\ link'.up /\ task[u].pc \in Transacting =>
              s.state = "ready" /\ link.up
        /\ link'.up => (Asked(End)' <=> Asked(End)) /\ (Reread(End)' <=> Reread(End))
        /\ Alive(native[u].on)' => Alive(native[u].on) /\ link'.up
    BY <1>1, <2>1, <2>3 DEF Alive
  <2> QED
    BY <2>1, <2>2, <2>4 DEF Rereads, Alive
<1>3. ASSUME t \in Tasks
      PROVE  Rereads(t)'
  <2> SUFFICES ASSUME task'[t].op = "start"
               PROVE  Rereads(t)'
    BY DEF Rereads
  <2>1. CASE task'[t].pc \in Transacting /\ Holds(t)
    <3>1. Rereads(t) /\ task'[t].pc # "queued"
      BY <1>3, <2>1 DEF RInv, Transacting
    <3>2. (Out(t)' => Out(t)) /\ (Sending(t)' => Sending(t) /\ native'[t] = native[t])
      BY <2>1 DEF Sending, Out, Holds
    <3>3. /\ task[t].op = "start" /\ task[t].pc \in Transacting
          /\ task'[t].step = task[t].step /\ task'[t].chunk = task[t].chunk
          /\ s'.state = s.state
      BY <2>1 DEF Holds
    <3>4. /\ s'.state = "ready" /\ link'.up => s.state = "ready" /\ link.up
          /\ link'.up => (Asked(End)' <=> Asked(End)) /\ (Reread(End)' <=> Reread(End))
      BY <1>1, <3>3
    <3>5. Sending(t)' /\ Alive(native[t].on)' => Alive(native[t].on) /\ link'.up
      BY <1>1, <3>2 DEF Alive
    <3> QED
      BY <3>1, <3>2, <3>3, <3>4, <3>5 DEF Rereads
  <2>2. CASE task'[t].pc \in Transacting /\ Opens(t) /\ task'[t].step = 1
    <3>1. ~Out(t)' /\ task'[t].chunk = 1 /\ task'[t].pc # "queued"
      BY <2>2 DEF Opens, Out
    <3> QED
      BY <2>2, <3>1 DEF Rereads
  <2>3. CASE task'[t].pc \in Transacting /\ Opens(t) /\ Follows(t)
    <3>1. ~Out(t)' /\ task'[t].chunk = 1 /\ task'[t].pc # "queued" /\ Out(t)
      BY <2>3 DEF Opens, Out, Follows
    <3>2. Rereads(t) /\ task[t].pc \in Transacting
      BY <1>3, <2>3 DEF RInv, Follows, Transacting
    <3>3. task[t].step \in 1 .. 4 /\ task'[t].step = task[t].step + 1
      BY <1>3, <2>3, StartProgram DEF Follows, IInv, StepsInProgram, Transacting
    <3>4. task'[t].step # 1 /\ (task'[t].step = 2 => task[t].step = 1)
          /\ (task'[t].step = 3 => task[t].step = 2)
      BY <3>3
    <3>5. task'[t].step = 2 /\ s'.state = "ready" /\ link'.up => Asked(End)'
      BY <1>1, <2>3, <3>1, <3>2, <3>4 DEF Rereads, Follows
    <3>6. task'[t].step = 3 /\ Alive(native[t].on)' => Reread(End)'
      BY <1>1, <2>3, <3>1, <3>2, <3>4 DEF Rereads, Follows, Alive
    <3> QED
      BY <2>3, <3>1, <3>4, <3>5, <3>6 DEF Rereads, Alive
  <2>4. CASE task'[t].pc \notin Transacting
    BY <1>3, <2>4 DEF Rereads, Enters, Sending, Transacting, RInv
  <2> QED
    BY <1>3, <2>1, <2>2, <2>3, <2>4 DEF Enters
<1>4. StartsReread'
  <2>1. CASE toDev' = toDev
    <3>1. \A k : Reread(k)' <=> Reread(k)
      BY <2>1, SaidStays DEF Hangs
    <3> QED
      BY <1>1, <2>1, <3>1 DEF StartsReread, RInv
  <2>2. CASE toDev' = <<>>
    BY <2>2 DEF StartsReread
  <2> QED
    BY <2>1, <2>2 DEF Hangs
<1>5. OrphansReread'
  <2> SUFFICES ASSUME NEW o \in orphans', o.final, o.frame.op = "output_on", Alive(o.frame.on)'
               PROVE  Reread(End)'
    BY DEF OrphansReread
  <2>1. Alive(o.frame.on) /\ link'.up
    BY <1>1 DEF Alive
  <2>2. CASE o \in orphans
    BY <1>1, <2>1, <2>2 DEF RInv, OrphansReread
  <2>3. CASE o = OrphanOf(t) /\ t \in Tasks /\ task[t].pc = "writing"
    <3>1. /\ Request(t) = "output_on" /\ Sending(t) /\ Alive(native[t].on)
          /\ task[t].pc \in Transacting
      BY <2>1, <2>3 DEF OrphanOf, OnAir, Sending, Transacting
    <3>2. task[t].op = "start" /\ task[t].step = 3
      BY <2>3, <3>1, OperationOf, OnlyStartSwitchesOn DEF Request
    <3> QED
      BY <1>1, <2>1, <2>3, <3>1, <3>2 DEF RInv, Rereads
  <2> QED
    BY <2>2, <2>3 DEF Writes
<1>6. LinksOld'
  <2>1. /\ link'.id = link.id /\ link.id \in Nat /\ s.generation \in Nat
        /\ s'.generation \in Nat /\ link.id <= s.generation /\ s'.generation >= s.generation
    BY HeardTypesOf DEF Hangs, Goes, RInv, LinksOld, Session
  <2>2. ASSUME NEW u \in Tasks
        PROVE  /\ task'[u].pc = "linking" => link.id < task'[u].gen
               /\ native'[u].on <= link.id
    <3>1. /\ task[u].pc = "linking" => link.id < task[u].gen
          /\ native[u].on <= link.id
      BY DEF RInv, LinksOld
    <3>2. CASE u # t
      BY <3>1, <3>2 DEF Goes, Apart, Writes
    <3>3. CASE u = t
      <4>1. task'[u].pc = "linking" => link.id < task'[u].gen
        <5>1. task'[u].gen \in Nat
          BY DEF Goes, Apart, TaskState
        <5> QED
          BY <2>1, <3>1, <3>3, <5>1 DEF Enters
      <4>2. native'[u].on \in {native[u].on, 0, link.id}
        BY <3>3 DEF Writes, NoWrite
      <4> QED
        BY <2>1, <3>1, <4>1, <4>2
    <3> QED
      BY <3>2, <3>3
  <2>3. \A o \in orphans' : o.frame.on <= link.id
    <3>1. \A o \in orphans : o.frame.on <= link.id
      BY DEF RInv, LinksOld
    <3>2. t \in Tasks => OrphanOf(t).frame.on <= link.id
      BY DEF RInv, LinksOld, OrphanOf, OnAir
    <3> QED
      BY <3>1, <3>2 DEF Writes
  <2> QED
    BY <2>1, <2>2, <2>3 DEF LinksOld
<1> QED
  BY <1>1, <1>2, <1>3, <1>4, <1>5, <1>6 DEF RInv

-----------------------------------------------------------------------------
(* The native stack, the radio and the charger. *)

(* A request that goes on the air is the last of those heard. *)
LEMMA SaidAppended ==
    ASSUME IInv, NEW f \in AirFrame, toDev' = Append(toDev, f), heard' = heard
    PROVE  /\ Heard' = Heard /\ End' = End + 1 /\ Len(toDev') = Len(toDev) + 1
           /\ toDev'[Len(toDev) + 1] = f
           /\ \A i \in 1 .. Len(toDev) : toDev'[i] = toDev[i]
           /\ \A k \in Nat : k <= End => (Reread(k)' <=> Reread(k))
           /\ f.op = "get_config" => Asked(End)'
           /\ f.op = "get_telemetry" /\ Asked(End) => Reread(End)'
<1>1. /\ Heard \in Nat /\ Len(toDev) \in Nat /\ toDev \in Seq(AirFrame)
      /\ End = Heard + Len(toDev) /\ Heard' = Heard
  BY HeardTypesOf DEF Heard, End
<1>2. /\ Len(toDev') = Len(toDev) + 1 /\ toDev'[Len(toDev) + 1] = f
      /\ \A i \in 1 .. Len(toDev) : toDev'[i] = toDev[i]
  BY <1>1
<1>3. End' = End + 1
  BY <1>1, <1>2 DEF End
<1>4. \A k \in Nat : k >= 1 /\ k <= End => Said(k)' = Said(k)
  <2> SUFFICES ASSUME NEW k \in Nat, k >= 1, k <= End
               PROVE  Said(k)' = Said(k)
    OBVIOUS
  <2>1. CASE k <= Heard
    BY <1>1, <2>1 DEF Said
  <2>2. CASE ~(k <= Heard)
    <3>1. k - Heard \in 1 .. Len(toDev)
      BY <1>1, <2>2
    <3> QED
      BY <1>1, <1>2, <2>2, <3>1 DEF Said
  <2> QED
    BY <2>1, <2>2
<1>5. ASSUME NEW k, k = End + 1
      PROVE  Said(k)' = f.op
  <2>1. ~(k <= Heard) /\ k - Heard = Len(toDev) + 1
    BY <1>1, <1>5
  <2> QED
    BY <1>1, <1>2, <2>1 DEF Said
<1>6. \A k \in Nat : k <= End => (Reread(k)' <=> Reread(k))
  <2> SUFFICES ASSUME NEW k \in Nat, k <= End, k >= 2
               PROVE  Reread(k)' <=> Reread(k)
    BY DEF Reread
  <2>1. k - 1 \in Nat /\ k - 1 >= 1 /\ k - 1 <= End
    BY <1>1
  <2> QED
    BY <1>4, <2>1 DEF Reread
<1>7. f.op = "get_config" => Asked(End)'
  <2>1. End + 1 >= 1
    BY <1>1
  <2> QED
    BY <1>3, <1>5, <2>1 DEF Asked
<1>8. f.op = "get_telemetry" /\ Asked(End) => Reread(End)'
  <2> SUFFICES ASSUME f.op = "get_telemetry", Asked(End), NEW k, k = End + 1
               PROVE  Reread(k)'
    BY <1>3 DEF Reread
  <2>1. k - 1 = End /\ k - 1 \in Nat /\ k - 1 >= 1 /\ k - 1 <= End /\ k >= 2
    BY <1>1 DEF Asked
  <2>2. Said(k)' = "get_telemetry"
    BY <1>5
  <2>3. Said(k - 1)' = "get_config"
    BY <1>4, <2>1 DEF Asked
  <2> QED
    BY <2>1, <2>2, <2>3 DEF Reread
<1> QED
  BY <1>1, <1>2, <1>3, <1>6, <1>7, <1>8

(* When the charger takes a request, those it heard or will hear stay in order. *)
LEMMA SaidHandled ==
    ASSUME IInv, Heard <= 2, toDev # <<>>, toDev' = Tail(toDev), Hears(Head(toDev))
    PROVE  /\ Heard' <= 2 /\ Len(toDev') = Len(toDev) - 1
           /\ \A i \in 1 .. Len(toDev') : /\ toDev'[i] = toDev[i + 1]
                                          /\ Reread(Heard + i) => Reread(Heard + i - 1)'
           /\ Asked(End) => Asked(End)'
           /\ Reread(End) => Reread(End)'
<1> DEFINE op == toDev[1].op
           c == IF Heard = 2 THEN 1 ELSE 0
<1>1. /\ Heard \in 0 .. 2 /\ Len(toDev) \in Nat /\ Len(toDev) >= 1 /\ toDev \in Seq(AirFrame)
      /\ heard.last \in Seq(Requests) /\ op = Head(toDev).op
  BY HeardTypesOf
<1>2. /\ toDev' \in Seq(AirFrame) /\ Len(toDev') = Len(toDev) - 1
      /\ \A i \in 1 .. Len(toDev') : toDev'[i] = toDev[i + 1]
  BY <1>1
<1>3. heard'.last = IF heard.last = <<>> THEN <<op>> ELSE <<heard.last[Heard], op>>
  BY <1>1 DEF Hears, Heard
<1>4. heard.last = <<>> <=> Heard = 0
  BY <1>1 DEF Heard
<1> HIDE DEF op
<1>5. /\ Heard' = Heard + 1 - c
      /\ Heard' = 1 => heard'.last[1] = op
      /\ Heard' = 2 => heard'.last[1] = heard.last[Heard] /\ heard'.last[2] = op
  <2>1. CASE Heard = 0
    <3>1. heard'.last = <<op>>
      BY <1>3, <1>4, <2>1
    <3>2. Len(heard'.last) = 1 /\ heard'.last[1] = op
      BY <3>1
    <3> QED
      BY <2>1, <3>2 DEF Heard
  <2>2. CASE Heard # 0
    <3>1. heard'.last = <<heard.last[Heard], op>>
      BY <1>3, <1>4, <2>2
    <3>2. Len(heard'.last) = 2 /\ heard'.last[1] = heard.last[Heard] /\ heard'.last[2] = op
      BY <3>1
    <3>3. Heard' = 2 /\ Heard + 1 - c = 2
      BY <1>1, <2>2, <3>2 DEF Heard
    <3> QED
      BY <3>2, <3>3
  <2> QED
    BY <2>1, <2>2
<1>6. Heard = 0 => Heard' = 1
  BY <1>5
<1>7. ASSUME NEW k \in Nat, NEW j \in Nat, j = k - c, j >= 1, k <= Heard + Len(toDev)
      PROVE  Said(j)' = Said(k)
  <2>1. CASE k <= Heard
    <3>1. k = Heard /\ j = 1 /\ Heard' = 2
      BY <1>1, <1>5, <1>7, <2>1
    <3> QED
      BY <1>5, <3>1, <2>1 DEF Said
  <2>2. CASE k = Heard + 1
    <3>1. j = Heard' /\ ~(k <= Heard) /\ k - Heard = 1 /\ j <= Heard' /\ j \in {1, 2}
      BY <1>1, <1>5, <1>7, <2>2
    <3>2. Said(k) = op
      BY <3>1 DEF Said, op
    <3>3. Said(j)' = heard'.last[j]
      BY <3>1 DEF Said
    <3> QED
      BY <1>5, <3>1, <3>2, <3>3
  <2>3. CASE k > Heard + 1
    <3>1. /\ ~(j <= Heard') /\ ~(k <= Heard) /\ j - Heard' \in 1 .. Len(toDev')
          /\ j - Heard' + 1 = k - Heard
      BY <1>1, <1>2, <1>5, <1>7, <2>3
    <3>2. toDev'[j - Heard'] = toDev[k - Heard]
      BY <1>2, <3>1
    <3> QED
      BY <3>1, <3>2 DEF Said
  <2> QED
    BY <1>1, <1>7, <2>1, <2>2, <2>3
<1> HIDE DEF c
<1>8. c \in {0, 1} /\ (c = 1 <=> Heard = 2)
  BY DEF c
<1>9. End = Heard + Len(toDev) /\ End' = Heard' + Len(toDev')
  BY DEF End
<1>10. ASSUME NEW k \in Nat, NEW j \in Nat, j = k - c, j >= 2, k <= Heard + Len(toDev), Reread(k)
       PROVE  Reread(j)'
  <2>1. /\ j - 1 \in Nat /\ k - 1 \in Nat /\ j - 1 = k - 1 - c /\ j - 1 >= 1
        /\ k - 1 <= Heard + Len(toDev) /\ j >= 1
    BY <1>1, <1>8, <1>10
  <2>2. Said(j)' = Said(k) /\ Said(j - 1)' = Said(k - 1)
    BY <1>7, <1>10, <2>1
  <2> QED
    BY <1>10, <2>1, <2>2 DEF Reread
<1>11. Asked(End) => Asked(End)'
  <2> SUFFICES ASSUME Asked(End), NEW k, k = End, NEW j, j = End'
               PROVE  Asked(j)'
    BY DEF Asked
  <2>1. k \in Nat /\ j \in Nat /\ j = k - c /\ j >= 1 /\ k <= Heard + Len(toDev)
    BY <1>1, <1>2, <1>5, <1>8, <1>9 DEF c
  <2>2. Said(j)' = Said(k)
    BY <1>7, <2>1
  <2> QED
    BY <2>1, <2>2 DEF Asked
<1>12. Reread(End) => Reread(End)'
  <2> SUFFICES ASSUME Reread(End), NEW k, k = End, NEW j, j = End'
               PROVE  Reread(j)'
    BY DEF Reread
  <2>1. k \in Nat /\ j \in Nat /\ j = k - c /\ j >= 2 /\ k <= Heard + Len(toDev)
    <3>1. k >= 2
      BY DEF Reread
    <3> QED
      BY <1>1, <1>2, <1>5, <1>8, <1>9, <3>1 DEF c
  <2> QED
    BY <1>10, <2>1
<1>13. \A i \in 1 .. Len(toDev') : Reread(Heard + i) => Reread(Heard + i - 1)'
  <2> SUFFICES ASSUME NEW i \in 1 .. Len(toDev'), NEW k, k = Heard + i, Reread(k),
                      NEW j, j = Heard' + i - 1
               PROVE  Reread(j)'
    BY DEF Reread
  <2>1. k \in Nat /\ j \in Nat /\ j = k - c /\ j >= 2 /\ k <= Heard + Len(toDev)
    <3>1. k >= 2
      BY DEF Reread
    <3> QED
      BY <1>1, <1>2, <1>5, <1>8, <3>1 DEF c
  <2> QED
    BY <1>10, <2>1
<1> QED
  BY <1>1, <1>2, <1>5, <1>8, <1>11, <1>12, <1>13

(* The requests of Start are sent in one write. *)
LEMMA StartInOneChunk ==
    ASSUME NEW k \in 1 .. 4
    PROVE  Chunks(Program("start")[k]) = 1
  BY StartProgram DEF Chunks

(* A write lands. *)
LEMMA LandsKeeps ==
    ASSUME IInv, SInv, RInv, NEW t \in Tasks, NativeLands(t)
    PROVE  RInv'
<1> DEFINE f == OnAir(Request(t), task[t].want, link.id)
<1>1. /\ task[t].pc = "writing" /\ task[t].pc \in Transacting /\ Sending(t)
      /\ Alive(native[t].on) /\ native' = [native EXCEPT ![t].at = "landed"]
      /\ native'[t].at = "landed" /\ native'[t].on = native[t].on
      /\ \A u \in Tasks \ {t} : native'[u] = native[u]
      /\ UNCHANGED <<s, task, orphans, link, heard>>
  BY HeardTypesOf DEF NativeLands, IInv, SlotInv, WriterWrites, Transacting, Sending, NativeWrite
<1>2. /\ task[t].op \in AllOperations /\ task[t].step \in 1 .. Len(Program(task[t].op))
      /\ Request(t) \in Requests /\ task[t].want \in Targets
  BY <1>1, OperationOf, ProgramTypes DEF Request
<1>3. f \in AirFrame /\ f.op = Request(t)
  <2>1. (IF Request(t) \in Mutations THEN task[t].want ELSE NoTarget) \in Targets
    BY <1>2, BlankTypes
  <2> QED
    BY <1>2, <2>1, HeardTypesOf DEF OnAir, AirFrame
<1> HIDE DEF f
<1>4. orphans = {} /\ orphans' = {}
  BY <1>1 DEF IInv, SlotInv, OrphansHeld
<1>5. \A u \in Tasks \ {t} : task[u].pc \notin Transacting
  BY <1>1, TransactingOwns
<1>6. ASSUME NEW u \in Tasks \ {t}
      PROVE  Rereads(u)'
  BY <1>1, <1>5 DEF RInv, Rereads, Sending, Transacting
<1>7. LinksOld'
  BY <1>1, <1>4 DEF RInv, LinksOld
<1>8. CASE toDev' = toDev /\ task[t].chunk # Chunks(Request(t))
  <2>1. task[t].op # "start"
    BY <1>1, <1>2, <1>8, StartProgram, StartInOneChunk DEF RInv, Rereads, Request
  <2>2. Rereads(t)'
    BY <1>1, <2>1 DEF Rereads
  <2>3. Heard' = Heard /\ \A k : Reread(k)' <=> Reread(k)
    BY <1>1, <1>8, SaidStays
  <2>4. StartsReread'
    BY <1>1, <1>8, <2>3 DEF RInv, StartsReread
  <2> QED
    BY <1>4, <1>6, <1>7, <2>2, <2>3, <2>4 DEF RInv, OrphansReread
<1>9. CASE toDev' = Append(toDev, f)
  <2>1. /\ Heard' = Heard /\ End' = End + 1 /\ Len(toDev') = Len(toDev) + 1
        /\ toDev'[Len(toDev) + 1] = f
        /\ \A i \in 1 .. Len(toDev) : toDev'[i] = toDev[i]
        /\ \A k \in Nat : k <= End => (Reread(k)' <=> Reread(k))
        /\ f.op = "get_config" => Asked(End)'
        /\ f.op = "get_telemetry" /\ Asked(End) => Reread(End)'
    BY <1>1, <1>3, <1>9, SaidAppended
  <2>2. ASSUME f.op = "output_on"
        PROVE  Reread(End)
    BY <1>1, <1>2, <1>3, <2>2, OnlyStartSwitchesOn DEF Request, RInv, Rereads
  <2>3. Rereads(t)'
    <3>1. ~Sending(t)'
      BY <1>1 DEF Sending
    <3>2. task[t].op = "start" => /\ task[t].step = 1 => f.op = "get_config"
                                  /\ task[t].step = 2 => f.op = "get_telemetry"
      BY <1>3, StartProgram DEF Request
    <3> QED
      BY <1>1, <2>1, <3>1, <3>2 DEF RInv, Rereads
  <2>4. StartsReread'
    <3> SUFFICES ASSUME NEW i \in 1 .. Len(toDev'), toDev'[i].op = "output_on",
                        NEW k, k = Heard' + i - 1
                 PROVE  Reread(k)'
      BY DEF StartsReread, Reread
    <3>1. Heard \in Nat /\ Len(toDev) \in Nat /\ End = Heard + Len(toDev)
      BY HeardTypesOf DEF End
    <3>2. k \in Nat /\ k <= End
      BY <2>1, <3>1
    <3>3. CASE i \in 1 .. Len(toDev)
      BY <2>1, <3>2, <3>3 DEF RInv, StartsReread
    <3>4. CASE i = Len(toDev) + 1
      <4>1. k = End
        BY <2>1, <3>1, <3>4
      <4> QED
        BY <2>1, <2>2, <3>2, <3>4, <4>1
    <3> QED
      BY <2>1, <3>1, <3>3, <3>4
  <2> QED
    BY <1>4, <1>6, <1>7, <2>1, <2>3, <2>4 DEF RInv, OrphansReread
<1> QED
  BY <1>8, <1>9 DEF NativeLands, f

(* A write completes or fails in the native stack. *)
LEMMA NativeEndsKeep ==
    ASSUME IInv, SInv, RInv, NEW t \in Tasks, NativeCompletes(t) \/ NativeFails(t)
    PROVE  RInv'
<1>1. /\ UNCHANGED <<s, task, orphans, link, heard, toDev>>
      /\ native'[t].at \in {"done", "failed"} /\ native'[t].on = native[t].on
      /\ \A u \in Tasks \ {t} : native'[u] = native[u]
      /\ native'[t].at = "done" => native[t].at = "landed"
  BY HeardTypesOf DEF NativeCompletes, NativeFails, NativeWrite, world
<1>2. /\ Heard' = Heard /\ End' = End
      /\ \A k : (Asked(k)' <=> Asked(k)) /\ (Reread(k)' <=> Reread(k))
  BY <1>1, SaidStays
<1>3. ASSUME NEW u \in Tasks
      PROVE  Rereads(u)'
  <2>1. (Out(u)' => Out(u)) /\ (Sending(u)' => Sending(u)) /\ native'[u].on = native[u].on
    BY <1>1 DEF Out, Sending
  <2> QED
    BY <1>1, <1>2, <2>1 DEF RInv, Rereads, Alive
<1>4. LinksOld' /\ StartsReread' /\ OrphansReread'
  BY <1>1, <1>2 DEF RInv, LinksOld, StartsReread, OrphansReread, Alive
<1> QED
  BY <1>2, <1>3, <1>4 DEF RInv

(* A write left behind ends. *)
LEMMA OrphanEndsKeepsStart ==
    ASSUME IInv, SInv, RInv, OrphanEnds
    PROVE  RInv'
<1>1. PICK o \in orphans :
         /\ orphans' = orphans \ {o}
         /\ \/ UNCHANGED toDev
            \/ o.final /\ Alive(o.frame.on) /\ toDev' = Append(toDev, o.frame)
  BY DEF OrphanEnds
<1>2. /\ UNCHANGED <<s, task, native, link, heard>>
      /\ orphans' = {} /\ s.poisoned /\ \A t \in Tasks : task[t].pc # "writing"
  BY <1>1 DEF OrphanEnds, IInv, SlotInv, OrphansHeld
<1>3. s.state # "ready"
  BY <1>2 DEF IInv, PoisonedUnusable
<1>4. \A t \in Tasks : Rereads(t)'
  BY <1>2, <1>3 DEF RInv, Rereads, Sending
<1>5. LinksOld' /\ OrphansReread'
  BY <1>2 DEF RInv, LinksOld, OrphansReread
<1>6. CASE toDev' = toDev
  <2>1. Heard' = Heard /\ \A k : Reread(k)' <=> Reread(k)
    BY <1>2, <1>6, SaidStays
  <2> QED
    BY <1>4, <1>5, <1>6, <2>1 DEF RInv, StartsReread
<1>7. CASE o.final /\ Alive(o.frame.on) /\ toDev' = Append(toDev, o.frame)
  <2> DEFINE f == o.frame
  <2>1. f \in AirFrame
    BY HeardTypesOf DEF Orphan
  <2>2. f.op = "output_on" => Reread(End)
    BY <1>7 DEF RInv, OrphansReread
  <2>3. toDev' = Append(toDev, f)
    BY <1>7
  <2> HIDE DEF f
  <2>4. /\ Heard' = Heard /\ Len(toDev') = Len(toDev) + 1 /\ toDev'[Len(toDev) + 1] = f
        /\ \A i \in 1 .. Len(toDev) : toDev'[i] = toDev[i]
        /\ \A k \in Nat : k <= End => (Reread(k)' <=> Reread(k))
    BY <1>2, <2>1, <2>3, SaidAppended
  <2>5. StartsReread'
    <3> SUFFICES ASSUME NEW i \in 1 .. Len(toDev'), toDev'[i].op = "output_on",
                        NEW k, k = Heard' + i - 1
                 PROVE  Reread(k)'
      BY DEF StartsReread, Reread
    <3>1. Heard \in Nat /\ Len(toDev) \in Nat /\ End = Heard + Len(toDev)
      BY HeardTypesOf DEF End
    <3>2. k \in Nat /\ k <= End
      BY <2>4, <3>1
    <3>3. CASE i \in 1 .. Len(toDev)
      BY <2>4, <3>2, <3>3 DEF RInv, StartsReread
    <3>4. CASE i = Len(toDev) + 1
      <4>1. k = End
        BY <2>4, <3>1, <3>4
      <4> QED
        BY <2>2, <2>4, <3>2, <3>4, <4>1
    <3> QED
      BY <2>4, <3>1, <3>3, <3>4
  <2> QED
    BY <1>4, <1>5, <2>4, <2>5 DEF RInv
<1> QED
  BY <1>1, <1>6, <1>7

(* The charger takes the next request, whatever it does with it. *)
LEMMA ChargerTakesKeeps ==
    ASSUME IInv, SInv, RInv, ChargerHandles \/ ChargerMisbehaves
    PROVE  RInv'
<1>1. /\ toDev # <<>> /\ toDev' = Tail(toDev) /\ Hears(Head(toDev))
      /\ UNCHANGED <<s, task, native, orphans, link>>
  BY DEF ChargerHandles, ChargerMisbehaves
<1>2. /\ Heard' <= 2 /\ Len(toDev') = Len(toDev) - 1
      /\ \A i \in 1 .. Len(toDev') : /\ toDev'[i] = toDev[i + 1]
                                     /\ Reread(Heard + i) => Reread(Heard + i - 1)'
      /\ Asked(End) => Asked(End)'
      /\ Reread(End) => Reread(End)'
  BY <1>1, SaidHandled DEF RInv
<1>3. \A t \in Tasks : (Out(t)' <=> Out(t)) /\ (Sending(t)' <=> Sending(t))
  BY <1>1 DEF Out, Sending
<1>4. ASSUME NEW t \in Tasks
      PROVE  Rereads(t)'
  BY <1>1, <1>2, <1>3 DEF RInv, Rereads, Alive
<1>5. LinksOld' /\ OrphansReread'
  BY <1>1, <1>2 DEF RInv, LinksOld, OrphansReread, Alive
<1>6. StartsReread'
  <2> SUFFICES ASSUME NEW i \in 1 .. Len(toDev'), toDev'[i].op = "output_on"
               PROVE  Reread(Heard + i - 1)'
    BY DEF StartsReread
  <2>1. /\ Heard \in Nat /\ Len(toDev) \in Nat /\ i + 1 \in 1 .. Len(toDev)
        /\ Heard + (i + 1) - 1 = Heard + i
    BY <1>2, HeardTypesOf
  <2>2. Reread(Heard + (i + 1) - 1)
    BY <1>2, <2>1 DEF RInv, StartsReread
  <2> QED
    BY <1>2, <2>1, <2>2
<1> QED
  BY <1>2, <1>4, <1>5, <1>6 DEF RInv

(* Steps of nobody in particular. *)
LEMMA CalmKeepsStart ==
    ASSUME IInv, SInv, RInv,
           \/ HandBack \/ TeardownStarts \/ TeardownEnds
           \/ Panel \/ Unsolicited \/ NoiseArrives \/ Expire \/ LinkLoss
    PROVE  RInv'
<1>1. s' \in Session
  <2>1. [Next]_vars
    BY DEF Next, Environment
  <2> QED
    BY <2>1, NextPreserves DEF IInv, TypeOK
<1>2. s'.generation = s.generation /\ s'.state = s.state
  BY LinkTypes DEF HandBack, TeardownStarts, TeardownEnds, Panel, Unsolicited, NoiseArrives,
         Expire, LinkLoss, Session
<1>3. task' = task /\ native' = native /\ orphans' = orphans
  BY DEF HandBack, TeardownStarts, TeardownEnds, Panel, Unsolicited, NoiseArrives,
         Expire, LinkLoss
<1>4. None \notin Tasks /\ Apart(None, task)
  BY LinkTypes, TaskApart
<1>5. Goes(None) /\ Writes(None)
  BY <1>2, <1>3, <1>4, LinkTypes DEF Goes, Writes
<1>6. Hangs
  BY HeardTypesOf, LinkTypes
     DEF HandBack, TeardownStarts, TeardownEnds, Panel, Unsolicited, NoiseArrives, Expire,
         LinkLoss, HangUpOrStick, HangUp, world, air, Hangs, IInv, TypeOK
<1> QED
  BY <1>1, <1>4, <1>5, <1>6, GoesKeeps

(* Whatever its kind, a step goes onward, and a setup ends or stays one. *)
LEMMA ClassifiedGoes ==
    ASSUME IInv, SInv, s' \in Session, NEW t, Classified(t)
    PROVE  /\ Goes(t)
           /\ t \in Tasks /\ task[t].op = "connect" => task'[t].op \in {"connect", "none"}
<1>1. PICK w \in {t, None} : Kind(w)
  BY DEF Classified
<1>2. /\ None \notin Tasks /\ s.generation \in Nat /\ s'.generation \in Nat
      /\ Apart(w, task')
  BY <1>1, LinkTypes DEF Kind, Session
<1>3. Apart(t, task')
  BY <1>1, <1>2 DEF Apart
<1>4. /\ s'.generation >= s.generation
      /\ s'.state = "ready" => s.state = "ready" \/ (w \in Tasks /\ task[w].pc \in Transacting)
  <2>1. CASE Works(w)
    BY <1>2, <2>1 DEF Works, Steady
  <2>2. CASE Breaks(w)
    BY <1>2, <2>2 DEF Breaks
  <2>3. CASE Connects(w)
    BY <1>2, <2>3 DEF Connects
  <2>4. CASE SetsUp(w)
    BY <1>2, <2>4 DEF SetsUp
  <2>5. CASE Leaves(w)
    BY <1>2, <2>5 DEF Leaves
  <2>6. CASE SetupOver(w)
    BY <1>2, <2>6 DEF SetupOver
  <2> QED
    BY <1>1, <2>1, <2>2, <2>3, <2>4, <2>5, <2>6 DEF Kind
<1>5. t \in Tasks /\ task[t].op = "connect" => task'[t].op \in {"connect", "none"}
  <2>1. CASE w = None /\ t \in Tasks
    BY <1>2, <2>1 DEF Apart
  <2>2. CASE w = t
    BY <1>1, <2>2 DEF Kind, Works, Breaks, Leaves, Connects, SetsUp, SetupOver
  <2> QED
    BY <2>1, <2>2
<1> QED
  BY <1>2, <1>3, <1>4, <1>5 DEF Goes

(* A notification, and the notice that the link is lost. *)
LEMMA CallbacksKeepStart ==
    ASSUME IInv, SInv, RInv, Notified \/ Disconnected
    PROVE  RInv'
<1>1. s' \in Session
  <2>1. [Next]_vars
    BY DEF Next
  <2> QED
    BY <2>1, NextPreserves DEF IInv, TypeOK
<1>2. /\ UNCHANGED <<native, orphans, link, toDev, heard>> /\ None \notin Tasks
      /\ s \in Session /\ s.generation \in Nat /\ Apart(None, task)
  BY LinkTypes, TaskApart DEF Notified, Disconnected
<1>3. Writes(None) /\ Hangs
  BY <1>2 DEF Writes, Hangs
<1>4. CASE Disconnected
  BY <1>1, <1>2, <1>3, <1>4, DisconnectedKind, ClassifiedGoes, GoesKeeps
<1>5. CASE Notified
  <2> DEFINE f == Head(fromDev)
  <2>1. Apart(None, task')
    BY <1>2, <1>5, CancelPollApart DEF Notified
  <2>2. f \in Frame
    BY <1>5 DEF Notified, IInv, TypeOK
  <2>3. s'.generation >= s.generation /\ (s'.state = "ready" => s.state = "ready")
    <3>1. CASE s' = s
      BY <1>2, <3>1
    <3>2. CASE s' = PoisonCurrentClient(FailPending(s))
      <4> DEFINE d == FailPending(s)
      <4>1. d \in Session /\ Tied(s, d)
        BY <1>2, HelpersTie DEF Tied
      <4> HIDE DEF d
      <4>2. CASE d.poisoned
        BY <1>2, <3>2, <4>1, <4>2 DEF PoisonCurrentClient, Tied, d
      <4>3. CASE ~d.poisoned
        BY <1>2, <3>2, <4>1, <4>3, PoisonBears DEF Tied, d
      <4> QED
        BY <4>2, <4>3
    <3>3. CASE s' = MatchPending(ApplyDecoded(s, f), f)
      <4> DEFINE d == ApplyDecoded(s, f)
      <4>1. Tied(s, d)
        BY <1>2, <2>2, DecodedTies
      <4>2. d \in Session
        BY <4>1 DEF Tied
      <4> HIDE DEF d
      <4>3. Tied(d, MatchPending(d, f))
        BY <2>2, <4>2, DecodedTies
      <4> QED
        BY <1>2, <3>3, <4>1, <4>3 DEF Tied, d
    <3> QED
      BY <1>5, <3>1, <3>2, <3>3 DEF Notified
  <2>4. Goes(None)
    BY <2>1, <2>3 DEF Goes
  <2> QED
    BY <1>1, <1>2, <1>3, <2>4, GoesKeeps
<1> QED
  BY <1>4, <1>5

-----------------------------------------------------------------------------
(* What the tasks do. *)

(* A task that gives up enters nothing. *)
LEMMA GiveUpEnters ==
    ASSUME NEW t \in Tasks, NEW d, NEW ts \in [Tasks -> TaskState], NEW cancelled,
           \/ GiveUp(t, d, ts, cancelled)
           \/ \E up : ConnectUnwind(t, d, ts, up, cancelled)
    PROVE  task'[t].pc \in {"idle", "cleaning"} /\ Enters(t)
<1>1. task'[t].pc \in {"idle", "cleaning"}
  <2>1. CASE task' = [ts EXCEPT ![t] = Idle]
    BY <2>1 DEF Idle
  <2>2. CASE task' = [ts EXCEPT ![t].pc = "cleaning", ![t].cancel = FALSE,
                                ![t].failing = ~cancelled]
    BY <2>2 DEF TaskState
  <2> QED
    BY <2>1, <2>2 DEF GiveUp, ConnectUnwind
<1> QED
  BY <1>1 DEF Enters, Transacting

(* A task that sends a request opens a transaction, or goes on with one. *)
LEMMA SendOpens ==
    ASSUME IInv, NEW t \in Tasks, NEW d, NEW ts \in [Tasks -> TaskState], NEW op, NEW want, NEW k,
           Send(t, d, ts, op, want, k)
    PROVE  /\ Opens(t) /\ task'[t].op = op /\ task'[t].step = k
           /\ native' = [native EXCEPT ![t] = [at |-> "busy", on |-> link.id]]
<1>1. task'[t] = [ts[t] EXCEPT !.pc = "writing", !.op = op, !.want = want,
                               !.step = k, !.chunk = 1]
  BY DEF Send
<1>2. /\ task'[t].pc = "writing" /\ task'[t].op = op /\ task'[t].step = k
      /\ task'[t].chunk = 1
  BY <1>1 DEF TaskState
<1>3. native'[t].at = "busy"
  BY HeardTypesOf DEF Send
<1> QED
  BY <1>2, <1>3 DEF Opens, Send

(* A write of t starts, or is over; the world is as it was. *)
LEMMA PlainWrites ==
    ASSUME IInv, NEW t \in Tasks, orphans' = orphans,
           \/ native' = native
           \/ native' = [native EXCEPT ![t] = NoWrite]
           \/ native' = [native EXCEPT ![t] = [at |-> "busy", on |-> link.id]]
    PROVE  Writes(t)
  BY HeardTypesOf DEF Writes

LEMMA WorldHangs ==
    ASSUME UNCHANGED world
    PROVE  Hangs
  BY DEF Hangs, world

(* A request that fails enters nothing. *)
LEMMA FailedEnters ==
    ASSUME IInv, NEW t \in Tasks, NEW d, NEW cancelled, Failed(t, d, cancelled)
    PROVE  Enters(t)
<1> DEFINE marked == IF Request(t) \in Mutations
                     THEN MarkAmbiguous(d, OutcomeOf(Request(t), task[t].want)) ELSE d
           ts == IF d.poisoned /\ ~s.poisoned THEN CancelPoll(task, t) ELSE task
<1>1. GiveUp(t, [marked EXCEPT !.pending = NoPending], ts, cancelled)
  BY DEF Failed
<1>2. ts \in [Tasks -> TaskState]
  BY LinkTypes, CancelPollKeeps
<1> HIDE DEF marked, ts
<1> QED
  BY <1>1, <1>2, GiveUpEnters

LEMMA FailuresKeepStart ==
    ASSUME IInv, SInv, RInv, s' \in Session, NEW t \in Tasks,
           \/ WriteFailed(t) \/ WriteTimeout(t) \/ ReplyTimeout(t) \/ ReplyFailed(t)
           \/ UnwindWrite(t) \/ UnwindReply(t)
    PROVE  RInv'
<1>1. /\ UNCHANGED world
      /\ orphans' \subseteq orphans \cup {o \in {OrphanOf(t)} : task[t].pc = "writing"}
      /\ \E d, cancelled : Failed(t, d, cancelled)
  BY DEF WriteFailed, WriteTimeout, ReplyTimeout, ReplyFailed, UnwindWrite, UnwindReply
<1>2. PICK d, cancelled : Failed(t, d, cancelled)
  BY <1>1
<1>3. Writes(t)
  BY <1>1, <1>2, HeardTypesOf DEF Failed, Writes
<1>4. Enters(t)
  BY <1>2, FailedEnters
<1>5. Goes(t)
  BY FailuresKind, ClassifiedGoes
<1> QED
  BY <1>1, <1>3, <1>4, <1>5, WorldHangs, GoesKeeps

(* A task that was granted the slot. *)
LEMMA GrantedKeepsStart ==
    ASSUME IInv, SInv, RInv, s' \in Session, NEW t \in Tasks, Granted(t)
    PROVE  RInv'
<1>1. Goes(t) /\ Hangs /\ orphans' = orphans /\ task \in [Tasks -> TaskState]
  BY GrantedKind, ClassifiedGoes, WorldHangs, LinkTypes DEF Granted
<1>2. CASE Send(t, s, task, task[t].op, task[t].want, task[t].step)
  <2>1. /\ Opens(t) /\ task'[t].op = task[t].op /\ task'[t].step = task[t].step
        /\ native' = [native EXCEPT ![t] = [at |-> "busy", on |-> link.id]]
    BY <1>1, <1>2, SendOpens
  <2>2. task[t].op = "start" => task[t].step = 1
    BY DEF Granted, RInv, Rereads
  <2>3. Enters(t)
    BY <2>1, <2>2 DEF Enters, Opens
  <2> QED
    BY <1>1, <2>1, <2>3, PlainWrites, GoesKeeps
<1>3. CASE GiveUp(t, s, task, FALSE) /\ native' = native
  BY <1>1, <1>3, GiveUpEnters, PlainWrites, GoesKeeps
<1> QED
  BY <1>2, <1>3 DEF Granted

(* A chunk of a write is done. *)
LEMMA WriteDoneKeepsStart ==
    ASSUME IInv, SInv, RInv, s' \in Session, NEW t \in Tasks, WriteDone(t)
    PROVE  RInv'
<1>1. /\ Goes(t) /\ Hangs /\ orphans' = orphans /\ task \in [Tasks -> TaskState]
      /\ task[t].pc = "writing" /\ task[t].pc \in Transacting /\ native[t].at = "done"
  BY WriteDoneKind, ClassifiedGoes, WorldHangs, LinkTypes DEF WriteDone, Transacting
<1>2. CASE Failed(t, PoisonCurrentClient(s), FALSE)
  <2>1. Enters(t) /\ native' = [native EXCEPT ![t] = NoWrite]
    BY <1>2, FailedEnters DEF Failed
  <2> QED
    BY <1>1, <2>1, PlainWrites, GoesKeeps
<1>3. CASE /\ task[t].chunk < Chunks(Request(t))
           /\ task' = [task EXCEPT ![t].chunk = @ + 1]
           /\ native' = [native EXCEPT ![t] = [at |-> "busy", on |-> link.id]]
  <2>1. task[t].op # "start"
    <3>1. task[t].step \in 1 .. Len(Program(task[t].op))
      BY <1>1, OperationOf
    <3> QED
      BY <1>1, <1>3, <3>1, StartProgram, StartInOneChunk DEF RInv, Rereads, Request
  <2>2. task'[t].op = task[t].op /\ task'[t].pc = task[t].pc
    BY <1>1, <1>3 DEF TaskState
  <2>3. Enters(t)
    BY <1>1, <2>1, <2>2 DEF Enters
  <2> QED
    BY <1>1, <1>3, <2>3, PlainWrites, GoesKeeps
<1>4. CASE /\ task' = [task EXCEPT ![t].pc = "replying"]
           /\ native' = [native EXCEPT ![t] = NoWrite] /\ s' = s
  <2>1. /\ task'[t].pc = "replying" /\ task'[t].op = task[t].op
        /\ task'[t].step = task[t].step /\ task'[t].chunk = task[t].chunk
    BY <1>1, <1>4 DEF TaskState
  <2>2. Enters(t)
    BY <1>1, <1>4, <2>1 DEF Enters, Holds
  <2> QED
    BY <1>1, <1>4, <2>2, PlainWrites, GoesKeeps
<1> QED
  BY <1>2, <1>3, <1>4 DEF WriteDone

(* A task that is elsewhere, or still where it was, enters nothing. *)
LEMMA RestsEnter ==
    ASSUME NEW t \in Tasks, task'[t].pc \notin {"linking", "queued", "writing", "replying"}
    PROVE  Enters(t)
  BY DEF Enters, Transacting

LEMMA StaysEnter ==
    ASSUME NEW t \in Tasks, native'[t] = native[t], s'.state = s.state,
           task'[t].op = task[t].op, task'[t].pc = task[t].pc, task'[t].step = task[t].step,
           task'[t].chunk = task[t].chunk, task'[t].gen = task[t].gen
    PROVE  Enters(t)
  BY DEF Enters, Holds

(* A method that enters the serializer starts at its first request. *)
LEMMA BeginEnters ==
    ASSUME IInv, NEW t \in Tasks, NEW d, NEW ts \in [Tasks -> TaskState], NEW op, NEW want,
           NEW k, op = "start" => k = 1, Begin(t, d, ts, op, want, k), orphans' = orphans
    PROVE  Enters(t) /\ Writes(t)
<1>1. CASE Send(t, d, ts, op, want, k)
  <2>1. /\ Opens(t) /\ task'[t].op = op /\ task'[t].step = k
        /\ native' = [native EXCEPT ![t] = [at |-> "busy", on |-> link.id]]
    BY <1>1, SendOpens
  <2>2. Writes(t)
    BY <2>1, PlainWrites
  <2> QED
    BY <2>1, <2>2 DEF Enters, Opens
<1>2. CASE GiveUp(t, d, ts, FALSE) /\ native' = native
  BY <1>2, GiveUpEnters, PlainWrites
<1>3. CASE /\ task' = [ts EXCEPT ![t].pc = "queued", ![t].op = op, ![t].want = want,
                                 ![t].step = k]
           /\ native' = native
  <2>1. task'[t] = [ts[t] EXCEPT !.pc = "queued", !.op = op, !.want = want, !.step = k]
    BY <1>3
  <2>2. task'[t].pc = "queued" /\ task'[t].op = op /\ task'[t].step = k
    BY <2>1 DEF TaskState
  <2>3. Writes(t)
    BY <1>3, PlainWrites
  <2> QED
    BY <2>2, <2>3 DEF Enters, Transacting
<1> QED
  BY <1>1, <1>2, <1>3 DEF Begin

(* The next request of a transaction that is not the one of a Start, or follows. *)
LEMMA ContinueEnters ==
    ASSUME IInv, NEW t \in Tasks, NEW d, NEW ts \in [Tasks -> TaskState], NEW k,
           Continue(t, d, ts, k), orphans' = orphans,
           task[t].op = "start" /\ s' = [d EXCEPT !.pending = [owner |-> t,
                  op |-> Opcode(Program(task[t].op)[k]), reply |-> NoFrame]] =>
              /\ task[t].pc = "replying" /\ k = task[t].step + 1 /\ s'.state = s.state
              /\ task[t].step = 2 => s.state = "ready" /\ link.up
    PROVE  Enters(t) /\ Writes(t)
<1>1. CASE Send(t, d, ts, task[t].op, task[t].want, k)
  <2>1. /\ Opens(t) /\ task'[t].op = task[t].op /\ task'[t].step = k
        /\ native' = [native EXCEPT ![t] = [at |-> "busy", on |-> link.id]]
    BY <1>1, SendOpens
  <2>2. Writes(t)
    BY <2>1, PlainWrites
  <2>3. task[t].op = "start" => Follows(t)
    BY <1>1, <2>1 DEF Send, Follows
  <2> QED
    BY <2>1, <2>2, <2>3 DEF Enters, Opens
<1>2. CASE GiveUp(t, d, ts, FALSE) /\ native' = native
  BY <1>2, GiveUpEnters, PlainWrites
<1> QED
  BY <1>1, <1>2 DEF Continue

LEMMA LeaveEnters ==
    ASSUME NEW t \in Tasks, NEW d, NEW ts \in [Tasks -> TaskState], Leave(t, d, ts)
    PROVE  Enters(t)
<1>1. task'[t] \in {Idle, Sleeping}
  BY DEF Leave
<1>2. task'[t].pc \in {"idle", "sleeping"}
  BY <1>1 DEF Idle, Sleeping
<1> QED
  BY <1>2, RestsEnter

(* An answer to a request of connect(). *)
LEMMA SetupReplyKeepsStart ==
    ASSUME IInv, SInv, RInv, s' \in Session, NEW t \in Tasks, SetupReply(t)
    PROVE  RInv'
<1> DEFINE d == IF task[t].step = 1
                THEN [Taken EXCEPT !.authenticated = TRUE, !.state = "loading"] ELSE Taken
<1>1. /\ Goes(t) /\ Hangs /\ orphans' = orphans /\ task \in [Tasks -> TaskState]
      /\ task[t].op = "connect"
  BY SetupReplyKind, ClassifiedGoes, WorldHangs, LinkTypes DEF SetupReply
<1>2. \/ \E c : (GiveUp(t, Taken, task, c) \/ GiveUp(t, d, task, c)) /\ native' = native
      \/ Leave(t, [d EXCEPT !.state = "ready", !.connector = None], task) /\ native' = native
      \/ NextTransaction(t, d, task, task[t].step + 1)
  BY DEF SetupReply
<1> HIDE DEF d
<1>3. CASE \E c : (GiveUp(t, Taken, task, c) \/ GiveUp(t, d, task, c)) /\ native' = native
  BY <1>1, <1>3, GiveUpEnters, PlainWrites, GoesKeeps
<1>4. CASE Leave(t, [d EXCEPT !.state = "ready", !.connector = None], task) /\ native' = native
  BY <1>1, <1>4, LeaveEnters, PlainWrites, GoesKeeps
<1>5. CASE NextTransaction(t, d, task, task[t].step + 1)
  <2>1. CASE Continue(t, d, task, task[t].step + 1)
    BY <1>1, <2>1, ContinueEnters, GoesKeeps
  <2>2. CASE /\ task' = [task EXCEPT ![t].pc = "queued", ![t].step = task[t].step + 1]
             /\ native' = native
    <3>1. task'[t].pc = "queued" /\ task'[t].op = "connect"
      BY <1>1, <2>2 DEF TaskState
    <3>2. Enters(t)
      BY <3>1 DEF Enters
    <3> QED
      BY <1>1, <2>2, <3>2, PlainWrites, GoesKeeps
  <2> QED
    BY <1>5, <2>1, <2>2 DEF NextTransaction
<1> QED
  BY <1>2, <1>3, <1>4, <1>5

(* An answer to a request of another operation: the requests of a Start follow each
   other in a READY session with its link up. *)
LEMMA OperationReplyKeepsStart ==
    ASSUME IInv, SInv, RInv, s' \in Session, NEW t \in Tasks, OperationReply(t)
    PROVE  RInv'
<1> DEFINE r == s.pending.reply
           k == task[t].step
           acked == [task EXCEPT ![t].ack = r.ack]
           outcome == OutcomeOf(Request(t), task[t].want)
<1>1. /\ Goes(t) /\ Hangs /\ orphans' = orphans /\ task \in [Tasks -> TaskState]
      /\ task[t].pc = "replying" /\ task[t].pc \in Transacting /\ s \in Session
  BY OperationReplyKind, ClassifiedGoes, WorldHangs, LinkTypes
     DEF OperationReply, Answered, Transacting
<1>2. task[t].op \in AllOperations /\ task[t].want \in Targets
  BY <1>1, OperationOf
<1>3. Taken.state = s.state /\ Taken \in Session
  BY TakenBears DEF Tied
<1>4. task[t].op = "start" /\ k = 2 => Request(t) \notin Mutations
  BY StartProgram, DataAssumption DEF Request, Mutations, DataAssumption
<1>5. CASE Request(t) \in Mutations /\ Continue(t, MarkAmbiguous(Taken, outcome), acked, k + 1)
  <2>1. Tied(Taken, MarkAmbiguous(Taken, outcome))
    BY <1>2, <1>3, <1>5, OutcomeTypes, HelpersTie
  <2>2. MarkAmbiguous(Taken, outcome).state = s.state /\ MarkAmbiguous(Taken, outcome) \in Session
    BY <1>3, <2>1 DEF Tied
  <2>3. acked \in [Tasks -> TaskState]
    <3>1. r.ack \in {OFF, ON, Unknown}
      BY <1>1 DEF Session, Pending, Frame
    <3>2. [task[t] EXCEPT !.ack = r.ack] \in TaskState
      BY <1>1, <3>1 DEF TaskState
    <3> QED
      BY <1>1, <3>2
  <2>4. \A p : [MarkAmbiguous(Taken, outcome) EXCEPT !.pending = p].state = s.state
    BY <2>2 DEF Session
  <2> HIDE DEF acked, outcome
  <2>5. Enters(t) /\ Writes(t)
    BY <1>1, <1>4, <1>5, <2>3, <2>4, ContinueEnters
  <2> QED
    BY <1>1, <2>5, GoesKeeps
<1>6. CASE GiveUp(t, Taken, task, FALSE) /\ native' = native
  BY <1>1, <1>6, GiveUpEnters, PlainWrites, GoesKeeps
<1>7. CASE Leave(t, Confirm(t, r), task) /\ native' = native
  BY <1>1, <1>7, LeaveEnters, PlainWrites, GoesKeeps
<1>8. CASE /\ k = 2 => AtomicStartContext(Taken, link.up, task[t].want)
           /\ Continue(t, Taken, task, k + 1)
  <2>1. k = 2 => s.state = "ready" /\ link.up
    BY <1>3, <1>8 DEF AtomicStartContext, PrecheckStartContext, Readable
  <2>2. \A p : [Taken EXCEPT !.pending = p].state = s.state
    BY <1>3 DEF Session
  <2>3. Enters(t) /\ Writes(t)
    BY <1>1, <1>8, <2>1, <2>2, ContinueEnters
  <2> QED
    BY <1>1, <2>3, GoesKeeps
<1> QED
  BY <1>5, <1>6, <1>7, <1>8 DEF OperationReply

(* Cancellations. *)
LEMMA CancellationsKeepStart ==
    ASSUME IInv, SInv, RInv, s' \in Session, NEW t \in Tasks,
           CancelCall(t) \/ UnwindQueued(t) \/ UnwindSleep(t) \/ UnwindSetup(t)
    PROVE  RInv'
<1>1. Goes(t) /\ task \in [Tasks -> TaskState] /\ task[t] \in TaskState
  BY CancellationsKind, ClassifiedGoes, LinkTypes
<1>2. native' = native /\ orphans' = orphans /\ Writes(t)
  BY PlainWrites DEF CancelCall, UnwindQueued, UnwindSleep, UnwindSetup
<1>3. Hangs
  <2>1. CASE UNCHANGED world
    BY <2>1, WorldHangs
  <2>2. CASE UnwindSetup(t)
    BY <2>2 DEF UnwindSetup, Hangs, air, IInv, TypeOK
  <2> QED
    BY <2>1, <2>2 DEF CancelCall, UnwindQueued, UnwindSleep
<1>4. Enters(t)
  <2>1. CASE CancelCall(t)
    <3>1. task'[t] = [task[t] EXCEPT !.cancel = TRUE] /\ s' = s
      BY <1>1, <2>1 DEF CancelCall, CancelTask
    <3>2. /\ task'[t].op = task[t].op /\ task'[t].pc = task[t].pc
          /\ task'[t].step = task[t].step /\ task'[t].chunk = task[t].chunk
          /\ task'[t].gen = task[t].gen
      BY <1>1, <3>1 DEF TaskState
    <3> QED
      BY <1>2, <3>1, <3>2, StaysEnter
  <2>2. CASE UnwindQueued(t) \/ UnwindSetup(t)
    BY <1>1, <2>2, GiveUpEnters DEF UnwindQueued, UnwindSetup
  <2>3. CASE UnwindSleep(t)
    <3>1. task'[t].pc = "idle"
      BY <1>1, <2>3 DEF UnwindSleep, Idle
    <3> QED
      BY <3>1, RestsEnter
  <2> QED
    BY <2>1, <2>2, <2>3
<1> QED
  BY <1>1, <1>2, <1>3, <1>4, GoesKeeps

(* The calls that make requests. *)
LEMMA CallRequestKeepsStart ==
    ASSUME IInv, SInv, RInv, s' \in Session, NEW t \in Tasks,
           \/ \E op \in {"refresh_config", "refresh_telemetry"} : CallRead(t, op)
           \/ \E op \in Setters, v \in Levels : CallSetter(t, op, v)
           \/ \E confirmed \in Confirmed : CallStart(t, confirmed)
    PROVE  RInv'
<1>1. PICK op, want : Requested(t, op, want)
  BY RequestCalled
<1>2. Goes(t) /\ Hangs /\ orphans' = orphans /\ task \in [Tasks -> TaskState]
  BY <1>1, CallRequestKind, ClassifiedGoes, WorldHangs, LinkTypes DEF Requested
<1>3. Enters(t) /\ Writes(t)
  BY <1>1, <1>2, BeginEnters DEF Requested
<1> QED
  BY <1>2, <1>3, GoesKeeps

LEMMA CallStopKeepsStart ==
    ASSUME IInv, SInv, RInv, s' \in Session, NEW t \in Tasks, CallStop(t) \/ CallStopPolling(t)
    PROVE  RInv'
<1>1. /\ Goes(t) /\ Hangs /\ orphans' = orphans /\ task \in [Tasks -> TaskState]
      /\ t \notin Pollers
  BY CallStopKind, ClassifiedGoes, WorldHangs, LinkTypes, CallerIdle DEF CallStop, CallStopPolling
<1>2. CASE \E op \in {"stop", "stop_polling"} : Quieting(t, op, PollingOff, None)
  <2>1. task'[t].pc = "quieting" /\ native' = native
    BY <1>1, <1>2, QuietingQuiets DEF Quieting
  <2> QED
    BY <1>1, <2>1, RestsEnter, PlainWrites, GoesKeeps
<1>3. CASE Begin(t, PollingOff, task, "stop", NoTarget, 1)
  <2>1. Enters(t) /\ Writes(t)
    BY <1>1, <1>3, BeginEnters
  <2> QED
    BY <1>1, <2>1, GoesKeeps
<1> QED
  BY <1>2, <1>3 DEF CallStop, CallStopPolling

LEMMA CallStartPollingKeepsStart ==
    ASSUME IInv, SInv, RInv, s' \in Session, NEW t \in Tasks, CallStartPolling(t)
    PROVE  RInv'
<1>1. /\ UNCHANGED <<native, orphans>> /\ Hangs /\ Apart(None, task) /\ None \notin Tasks
      /\ s \in Session /\ task \in [Tasks -> TaskState]
  BY TaskApart, LinkTypes, WorldHangs DEF CallStartPolling
<1>2. s'.generation >= s.generation /\ s'.state = s.state
  <2>1. s'.generation = s.generation /\ s'.state = s.state
    BY <1>1 DEF CallStartPolling, Session
  <2> QED
    BY <2>1, LinkTypes
<1>3. CASE UNCHANGED task
  <2>1. Goes(None) /\ Writes(None)
    BY <1>1, <1>2, <1>3 DEF Goes, Writes
  <2> QED
    BY <1>1, <2>1, GoesKeeps
<1>4. ASSUME NEW p \in Pollers, task' = [task EXCEPT ![p] = Sleeping]
      PROVE  RInv'
  <2>1. p \in Tasks
    BY SessionAssumption DEF SessionAssumption
  <2>2. Apart(p, task') /\ task'[p].pc = "sleeping"
    BY <1>1, <1>4, <2>1, IdleTypes DEF Apart, Sleeping, Idle
  <2>3. Goes(p) /\ Enters(p) /\ Writes(p)
    BY <1>1, <1>2, <2>1, <2>2, RestsEnter, PlainWrites DEF Goes
  <2> QED
    BY <1>1, <2>3, GoesKeeps
<1> QED
  BY <1>3, <1>4 DEF CallStartPolling

LEMMA PollWakeKeepsStart ==
    ASSUME IInv, SInv, RInv, s' \in Session, NEW t \in Tasks, PollWake(t)
    PROVE  RInv'
<1>1. Goes(t) /\ Hangs /\ orphans' = orphans /\ task \in [Tasks -> TaskState]
  BY PollWakeKind, ClassifiedGoes, WorldHangs, LinkTypes DEF PollWake
<1>2. CASE task' = [task EXCEPT ![t] = Idle] /\ native' = native
  <2>1. task'[t].pc = "idle"
    BY <1>1, <1>2 DEF Idle
  <2> QED
    BY <1>1, <1>2, <2>1, RestsEnter, PlainWrites, GoesKeeps
<1>3. ASSUME NEW op \in {"refresh_config", "refresh_telemetry"}, Begin(t, s, task, op, NoTarget, 1)
      PROVE  RInv'
  <2>1. Enters(t) /\ Writes(t)
    BY <1>1, <1>3, BeginEnters
  <2> QED
    BY <1>1, <2>1, GoesKeeps
<1> QED
  BY <1>2, <1>3 DEF PollWake

-----------------------------------------------------------------------------
(* connect() and disconnect(). *)

(* A setup starts: it will link a newer client than any before. *)
LEMMA CallConnectKeepsStart ==
    ASSUME IInv, SInv, RInv, s' \in Session, NEW t \in Tasks, CallConnect(t)
    PROVE  RInv'
<1> DEFINE n == [s EXCEPT !.generation = @ + 1]
           d == ForgetConnection(n)
           started == [d EXCEPT !.poisoned = FALSE, !.connector = t, !.state = "connecting"]
           i == Idle
           q == [i EXCEPT !.op = "connect", !.pc = "linking", !.gen = d.generation]
           ts == [task EXCEPT ![t] = q]
<1>1. /\ Goes(t) /\ task \in [Tasks -> TaskState] /\ s \in Session /\ s.generation \in Nat
      /\ task[t].pc = "idle"
  BY CallConnectKind, ClassifiedGoes, LinkTypes DEF CallConnect, Calling
<1>2. Writes(t) /\ Hangs
  BY PlainWrites DEF CallConnect, Hangs, air, IInv, TypeOK
<1>3. CASE UNCHANGED task
  BY <1>1, <1>2, <1>3, RestsEnter, GoesKeeps
<1>4. d.generation \in Nat /\ d.generation > s.generation
  <2>1. n \in Session /\ n.generation = s.generation + 1
    BY <1>1, NextGeneration DEF Session
  <2> HIDE DEF n
  <2>2. d \in Session /\ d.generation = n.generation
    BY <2>1, HelpersTie DEF Tied
  <2> QED
    BY <1>1, <2>1, <2>2 DEF Session
<1> HIDE DEF d
<1>5. i \in TaskState
  BY IdleTypes
<1> HIDE DEF i
<1>6. q \in TaskState /\ q.pc = "linking" /\ q.op = "connect" /\ q.gen = d.generation
  BY <1>4, <1>5 DEF TaskState, Places, AllOperations
<1> HIDE DEF q
<1>7. ts \in [Tasks -> TaskState] /\ ts[t] = q
  BY <1>1, <1>6
<1>8. CASE ConnectUnwind(t, started, ts, TRUE, FALSE)
  <2> HIDE DEF ts, started
  <2> QED
    BY <1>1, <1>2, <1>7, <1>8, GiveUpEnters, GoesKeeps
<1>9. CASE task' = ts
  BY <1>1, <1>2, <1>4, <1>6, <1>7, <1>9, GoesKeeps DEF Enters
<1> QED
  BY <1>3, <1>8, <1>9 DEF CallConnect, n, d, started, i, q, ts

(* The steps of a setup before its first request. *)
LEMMA SetupStepsKeepStart ==
    ASSUME IInv, SInv, RInv, s' \in Session, NEW t \in Tasks,
           LinkFails(t) \/ Discovered(t) \/ Subscribed(t) \/ Settled(t)
    PROVE  RInv'
<1>1. Goes(t) /\ task \in [Tasks -> TaskState] /\ orphans' = orphans
  <2>1. Classified(t)
    BY LinkFailsKind, DiscoveredKind, SettledKind
  <2> QED
    BY <2>1, ClassifiedGoes, LinkTypes DEF LinkFails, Discovered, Subscribed, Settled
<1>2. Hangs
  <2>1. CASE LinkFails(t) \/ Subscribed(t)
    BY <2>1 DEF LinkFails, Subscribed, Hangs, air, IInv, TypeOK
  <2>2. CASE UNCHANGED world
    BY <2>2, WorldHangs
  <2> QED
    BY <2>1, <2>2 DEF Discovered, Settled
<1>3. CASE Settled(t) /\ Current(t)
  <2>1. Enters(t) /\ Writes(t)
    BY <1>1, <1>3, BeginEnters DEF Settled
  <2> QED
    BY <1>1, <1>2, <2>1, GoesKeeps
<1>4. CASE /\ native' = native
           /\ \/ \E up, cancelled : ConnectUnwind(t, s, task, up, cancelled)
              \/ \E x \in {"subscribing", "settling"} : task' = [task EXCEPT ![t].pc = x]
  <2>1. CASE \E up, cancelled : ConnectUnwind(t, s, task, up, cancelled)
    BY <1>1, <2>1, <1>2, <1>4, GiveUpEnters, PlainWrites, GoesKeeps
  <2>2. ASSUME NEW x \in {"subscribing", "settling"}, task' = [task EXCEPT ![t].pc = x]
        PROVE  RInv'
    <3>1. task'[t].pc = x
      BY <1>1, <2>2 DEF TaskState
    <3> QED
      BY <1>1, <1>2, <1>4, <3>1, RestsEnter, PlainWrites, GoesKeeps
  <2> QED
    BY <1>4, <2>1, <2>2
<1> QED
  BY <1>3, <1>4 DEF LinkFails, Discovered, Subscribed, Settled

(* The new client is newer than every write that is left: none goes out on it. *)
LEMMA LinkedKeepsStart ==
    ASSUME IInv, SInv, RInv, s' \in Session, NEW t \in Tasks, Linked(t)
    PROVE  RInv'
<1> DEFINE ts == [task EXCEPT ![t].cancel = FALSE]
<1>1. /\ task[t].op = "connect" /\ task[t].pc = "linking" /\ s.connector = t
      /\ s \in Session /\ task \in [Tasks -> TaskState] /\ task[t].gen \in Nat
      /\ Goes(t) /\ s.state # "ready" /\ t # None
      /\ task[t].gen <= s.generation /\ link.id < task[t].gen
  <2>1. task[t].op = "connect" /\ task[t].pc = "linking" /\ s.connector = t
    BY SettingUp DEF Linked
  <2>2. task[t].gen <= s.generation /\ link.id < task[t].gen
    BY <2>1 DEF IInv, SetupIsCurrent, RInv, LinksOld
  <2>3. Goes(t)
    BY LinkedKind, ClassifiedGoes
  <2> QED
    BY <2>1, <2>2, <2>3, LinkTypes, HeardTypesOf, DataAssumption
       DEF SInv, OneSetup, DataAssumption
<1>2. s'.state # "ready"
  BY <1>1 DEF Goes, Transacting
<1>3. /\ native' = native /\ orphans' = orphans /\ heard' = heard /\ toDev' = <<>>
      /\ link'.id = task[t].gen /\ task[t].op # "start" /\ task'[t].op # "start"
  <2>1. task'[t].op # "start"
    BY <1>1, LinkedKind, ClassifiedGoes
  <2> QED
    BY <1>1, <2>1 DEF Linked
<1>4. task'[t].pc # "linking"
  <2>1. ts \in [Tasks -> TaskState] /\ ts[t] = [task[t] EXCEPT !.cancel = FALSE]
    <3>1. [task[t] EXCEPT !.cancel = FALSE] \in TaskState
      BY <1>1 DEF TaskState
    <3> QED
      BY <1>1, <3>1
  <2>2. CASE task' = [ts EXCEPT ![t].pc = "discovering"]
    <3>1. ts[t] \in TaskState
      BY <2>1
    <3> HIDE DEF ts
    <3> QED
      BY <2>1, <2>2, <3>1 DEF TaskState
  <2>3. CASE ConnectUnwind(t, s, ts, TRUE, TRUE)
    <3> HIDE DEF ts
    <3>1. task'[t].pc \in {"idle", "cleaning"}
      BY <2>1, <2>3, GiveUpEnters
    <3> QED
      BY <3>1
  <2> QED
    BY <2>2, <2>3 DEF Linked
<1>5. ASSUME NEW u \in Tasks
      PROVE  /\ Rereads(u)'
             /\ task'[u].pc # "linking" /\ native[u].on <= task[t].gen
  <2>1. native[u].on \in Nat /\ native[u].on <= link.id /\ link.id \in Nat
    BY HeardTypesOf DEF RInv, LinksOld
  <2>2. native[u].on < task[t].gen
    BY <1>1, <2>1
  <2>3. ~Alive(native[u].on)'
    BY <1>1, <1>3, <2>1, <2>2 DEF Alive
  <2>4. CASE u = t
    BY <1>3, <1>4, <2>1, <2>2, <1>1, <2>4 DEF Rereads
  <2>5. CASE u # t
    <3>1. /\ task'[u].op = task[u].op /\ task'[u].pc = task[u].pc
          /\ task'[u].step = task[u].step /\ task'[u].chunk = task[u].chunk
      BY <1>1, <2>5 DEF Goes, Apart
    <3>2. task[u].pc # "linking"
      BY <1>1, <2>5 DEF IInv, SetupPlaces, SInv, OneSetup
    <3>3. Rereads(u)
      BY DEF RInv
    <3> QED
      BY <1>1, <1>2, <1>3, <2>1, <2>2, <2>3, <3>1, <3>2, <3>3 DEF Rereads
  <2> QED
    BY <2>4, <2>5
<1>6. \A o \in orphans : o.frame.on <= task[t].gen /\ ~Alive(o.frame.on)'
  <2> SUFFICES ASSUME NEW o \in orphans
               PROVE  o.frame.on <= task[t].gen /\ ~Alive(o.frame.on)'
    OBVIOUS
  <2>1. o.frame.on \in Nat /\ o.frame.on <= link.id /\ link.id \in Nat
    BY HeardTypesOf DEF RInv, LinksOld
  <2> QED
    BY <1>1, <1>3, <2>1 DEF Alive
<1>7. StartsReread' /\ OrphansReread'
  BY <1>3, <1>6 DEF StartsReread, OrphansReread
<1>8. LinksOld'
  <2>1. s'.generation >= s.generation /\ s'.generation \in Nat
    BY <1>1 DEF Goes, Session
  <2>2. link'.id <= s'.generation
    BY <1>1, <1>3, <2>1, HeardTypesOf
  <2> QED
    BY <1>3, <1>5, <1>6, <2>2 DEF LinksOld
<1>9. Heard' <= 2
  BY <1>3 DEF RInv, Heard
<1> QED
  BY <1>5, <1>7, <1>8, <1>9 DEF RInv

(* A cleanup is over. *)
LEMMA CleanedKeepsStart ==
    ASSUME IInv, SInv, RInv, s' \in Session, NEW t \in Tasks, Cleaned(t)
    PROVE  RInv'
<1>1. Goes(t) /\ task \in [Tasks -> TaskState] /\ native' = native /\ orphans' = orphans
  BY CleanedKind, ClassifiedGoes, LinkTypes DEF Cleaned
<1>2. Hangs
  BY HeardTypesOf DEF Cleaned, HangUpOrStick, HangUp, Hangs, IInv, TypeOK
<1>3. task'[t].pc = "idle"
  BY <1>1 DEF Cleaned, Idle
<1> QED
  BY <1>1, <1>2, <1>3, RestsEnter, PlainWrites, GoesKeeps

(* A task whose disconnect() goes on is at none of the places of a request. *)
LEMMA AfterJoinEnters ==
    ASSUME NEW t \in Tasks, NEW d, NEW ts \in [Tasks -> TaskState], AfterJoin(t, d, ts)
    PROVE  task'[t].pc \in {"idle", "tearing", "unsubscribing", "hanging_up"}
<1>1. CASE task' = [ts EXCEPT ![t].pc = "tearing"]
  BY <1>1 DEF TaskState
<1>2. CASE task' = [ts EXCEPT ![t] = Idle]
  BY <1>2 DEF Idle
<1>3. CASE \E x \in {"unsubscribing", "hanging_up"} :
               task' = [ts EXCEPT ![t].gen = link.id, ![t].pc = x]
  <2>1. PICK x \in {"unsubscribing", "hanging_up"} :
               task' = [ts EXCEPT ![t].gen = link.id, ![t].pc = x]
    BY <1>3
  <2>2. task'[t] = [ts[t] EXCEPT !.gen = link.id, !.pc = x]
    BY <2>1
  <2>3. task'[t].pc = x
    BY <2>2 DEF TaskState
  <2> QED
    BY <2>3
<1> QED
  BY <1>1, <1>2, <1>3 DEF AfterJoin, HangingUp

LEMMA AfterQuietEnters ==
    ASSUME NEW t \in Tasks, task[t].op # "connect", NEW d, NEW ts \in [Tasks -> TaskState],
           AfterQuiet(t, d, ts)
    PROVE  task'[t].pc \in {"idle", "tearing", "joining", "unsubscribing", "hanging_up"}
<1> DEFINE c == ts[t].joins
           js == [ts EXCEPT ![t].pc = "joining"]
           ns == [ts EXCEPT ![t].joins = None]
<1>1. ts[t] \in TaskState
  OBVIOUS
<1>2. CASE task' = [ts EXCEPT ![t].pc = "tearing"]
  BY <1>2 DEF TaskState
<1>3. CASE task[c].op = "connect" /\ CancelTask(js, c)
  <2>1. js[t].pc = "joining" /\ js \in [Tasks -> TaskState]
    <3>1. [ts[t] EXCEPT !.pc = "joining"] \in TaskState
      BY <1>1 DEF TaskState, Places
    <3> QED
      BY <3>1 DEF TaskState
  <2>2. c # t /\ task' = [js EXCEPT ![c].cancel = TRUE]
    BY <1>3 DEF CancelTask
  <2> HIDE DEF js, c
  <2>3. task'[t] = js[t]
    BY <2>1, <2>2
  <2> QED
    BY <2>1, <2>3
<1>4. CASE AfterJoin(t, d, ns)
  <2>1. ns \in [Tasks -> TaskState]
    <3>1. [ts[t] EXCEPT !.joins = None] \in TaskState
      BY <1>1 DEF TaskState
    <3> QED
      BY <3>1
  <2> HIDE DEF ns
  <2> QED
    BY <1>4, <2>1, AfterJoinEnters
<1> QED
  BY <1>2, <1>3, <1>4 DEF AfterQuiet

LEMMA CallDisconnectKeepsStart ==
    ASSUME IInv, SInv, RInv, s' \in Session, NEW t \in Tasks, CallDisconnect(t)
    PROVE  RInv'
<1> DEFINE left == [s EXCEPT !.generation = @ + 1]
           d == [left EXCEPT !.state = "disconnecting", !.polling = FALSE, !.poller = None]
           i == Idle
           r == [i EXCEPT !.op = "disconnect", !.joins = s.connector]
           ts == [task EXCEPT ![t] = r]
<1>1. /\ Goes(t) /\ Hangs /\ native' = native /\ orphans' = orphans
      /\ task \in [Tasks -> TaskState] /\ s.connector \in Tasks \cup {None}
      /\ task[t].op = "none" /\ task[t].pc = "idle" /\ t \notin Pollers
  BY CallDisconnectKind, ClassifiedGoes, WorldHangs, LinkTypes, CallerIdle
     DEF CallDisconnect, Calling, Quieting, Session
<1>2. CASE UNCHANGED task
  BY <1>1, <1>2, RestsEnter, PlainWrites, GoesKeeps
<1>3. CASE Quieting(t, "disconnect", d, s.connector)
  <2>1. task'[t].pc = "quieting"
    BY <1>1, <1>3, QuietingQuiets
  <2> QED
    BY <1>1, <2>1, RestsEnter, PlainWrites, GoesKeeps
<1>4. CASE AfterQuiet(t, d, ts)
  <2>1. i \in TaskState
    BY IdleTypes
  <2> HIDE DEF i
  <2>2. r \in TaskState
    BY <1>1, <2>1 DEF TaskState, AllOperations
  <2> HIDE DEF r
  <2>3. ts \in [Tasks -> TaskState]
    BY <1>1, <2>2
  <2> HIDE DEF ts, d
  <2>4. task'[t].pc \in {"idle", "tearing", "joining", "unsubscribing", "hanging_up"}
    BY <1>1, <1>4, <2>3, AfterQuietEnters
  <2> QED
    BY <1>1, <2>4, RestsEnter, PlainWrites, GoesKeeps
<1> QED
  BY <1>2, <1>3, <1>4 DEF CallDisconnect, left, d, i, r, ts

LEMMA DisconnectStepsKeepStart ==
    ASSUME IInv, SInv, RInv, s' \in Session, NEW t \in Tasks,
           Quieted(t) \/ TornDown(t) \/ Joined(t) \/ Unsubscribed(t) \/ HungUp(t)
    PROVE  RInv'
<1>1. /\ Goes(t) /\ orphans' = orphans /\ task \in [Tasks -> TaskState]
      /\ task[t] \in TaskState /\ task[t].op # "connect"
  <2>1. Classified(t)
    BY QuietedKind, DisconnectStepsKind
  <2>2. task[t].op # "connect"
    BY DEF Quieted, TornDown, Joined, Unsubscribed, HungUp, SInv, Stations, Stationed
  <2> QED
    BY <2>1, <2>2, ClassifiedGoes, LinkTypes DEF Quieted, TornDown, Joined, Unsubscribed, HungUp
<1>2. Hangs
  <2>1. CASE HungUp(t)
    BY <2>1, HeardTypesOf DEF HungUp, HangUpOrStick, HangUp, Hangs, IInv, TypeOK
  <2>2. CASE UNCHANGED world
    BY <2>2, WorldHangs
  <2> QED
    BY <2>1, <2>2 DEF Quieted, TornDown, Joined, Unsubscribed
<1>3. /\ [task EXCEPT ![t].awaits = None] \in [Tasks -> TaskState]
      /\ [task EXCEPT ![t].joins = None] \in [Tasks -> TaskState]
  <2>1. /\ [task[t] EXCEPT !.awaits = None] \in TaskState
        /\ [task[t] EXCEPT !.joins = None] \in TaskState
    BY <1>1 DEF TaskState
  <2> QED
    BY <1>1, <2>1
<1>4. CASE Quieted(t) /\ task[t].op = "stop"
  <2>1. Begin(t, s, [task EXCEPT ![t].awaits = None], "stop", NoTarget, 1)
    BY <1>4 DEF Quieted
  <2>2. Enters(t) /\ Writes(t)
    BY <1>1, <1>3, <2>1, BeginEnters
  <2> QED
    BY <1>1, <1>2, <2>2, GoesKeeps
<1>5. CASE /\ native' = native
           /\ \/ \E ts \in [Tasks -> TaskState] :
                    \/ AfterQuiet(t, s, ts) \/ AfterJoin(t, s, ts) \/ task' = [ts EXCEPT ![t] = Idle]
              \/ task' = [task EXCEPT ![t].pc = "hanging_up", ![t].gen = link.id]
  <2>1. task'[t].pc \in {"idle", "tearing", "joining", "unsubscribing", "hanging_up"}
    <3>1. ASSUME NEW ts \in [Tasks -> TaskState], task' = [ts EXCEPT ![t] = Idle]
          PROVE  task'[t].pc = "idle"
      BY <3>1 DEF Idle
    <3>2. CASE task' = [task EXCEPT ![t].pc = "hanging_up", ![t].gen = link.id]
      <4>1. task'[t] = [task[t] EXCEPT !.pc = "hanging_up", !.gen = link.id]
        BY <1>1, <3>2
      <4> QED
        BY <1>1, <4>1 DEF TaskState
    <3> QED
      BY <1>1, <1>5, <3>1, <3>2, AfterQuietEnters, AfterJoinEnters
  <2> QED
    BY <1>1, <1>2, <1>5, <2>1, RestsEnter, PlainWrites, GoesKeeps
<1>6. CASE Quieted(t) /\ task[t].op # "stop"
  BY <1>3, <1>5, <1>6 DEF Quieted
<1>7. CASE TornDown(t) \/ Joined(t) \/ Unsubscribed(t) \/ HungUp(t)
  BY <1>1, <1>3, <1>5, <1>7 DEF TornDown, Joined, Unsubscribed, HungUp
<1> QED
  BY <1>4, <1>6, <1>7

-----------------------------------------------------------------------------
(* The invariant. *)
LEMMA NextKeepsStart == IInv /\ SInv /\ RInv /\ [Next]_vars => RInv'
<1> SUFFICES ASSUME IInv, SInv, RInv, [Next]_vars PROVE RInv'
  OBVIOUS
<1>1. s' \in Session
  BY NextPreserves DEF IInv, TypeOK
<1>2. CASE UNCHANGED vars
  <2>1. UNCHANGED <<s, task, native, orphans, link, toDev, heard>>
    BY <1>2 DEF vars, world, air
  <2>2. Apart(None, task) /\ None \notin Tasks /\ s.generation \in Nat
    BY TaskApart, LinkTypes
  <2>3. Goes(None) /\ Writes(None) /\ Hangs
    BY <2>1, <2>2 DEF Goes, Writes, Hangs
  <2> QED
    BY <1>1, <2>2, <2>3, GoesKeeps
<1>3. ASSUME NEW t \in Tasks, Call(t)
      PROVE  RInv'
  BY <1>1, <1>3, CallRequestKeepsStart, CallStopKeepsStart, CallStartPollingKeepsStart,
     CallConnectKeepsStart, CallDisconnectKeepsStart DEF Call
<1>4. ASSUME NEW t \in Tasks, Resume(t)
      PROVE  RInv'
  <2>1. CASE \/ Granted(t) \/ WriteDone(t) \/ WriteFailed(t) \/ ReplyFailed(t)
             \/ SetupReply(t) \/ OperationReply(t) \/ UnwindWrite(t) \/ UnwindReply(t)
    BY <1>1, <2>1, GrantedKeepsStart, WriteDoneKeepsStart, FailuresKeepStart,
       SetupReplyKeepsStart, OperationReplyKeepsStart
  <2>2. CASE \/ UnwindQueued(t) \/ UnwindSleep(t) \/ UnwindSetup(t)
             \/ Discovered(t) \/ Subscribed(t) \/ Settled(t) \/ Cleaned(t)
    BY <1>1, <2>2, CancellationsKeepStart, SetupStepsKeepStart, CleanedKeepsStart
  <2>3. CASE Quieted(t) \/ TornDown(t) \/ Joined(t) \/ Unsubscribed(t) \/ HungUp(t)
    BY <1>1, <2>3, DisconnectStepsKeepStart
  <2> QED
    BY <1>4, <2>1, <2>2, <2>3 DEF Resume
<1>5. ASSUME NEW t \in Tasks,
             CancelCall(t) \/ Deadline(t) \/ Linked(t) \/ LinkFails(t) \/ PollWake(t)
      PROVE  RInv'
  BY <1>1, <1>5, CancellationsKeepStart, FailuresKeepStart, LinkedKeepsStart,
     SetupStepsKeepStart, PollWakeKeepsStart DEF Deadline
<1>6. CASE HandBack \/ TeardownStarts \/ TeardownEnds
  BY <1>6, CalmKeepsStart
<1>7. CASE Environment
  BY <1>7, LandsKeeps, NativeEndsKeep, OrphanEndsKeepsStart, ChargerTakesKeeps,
     CalmKeepsStart DEF Environment
<1>8. CASE Notified \/ Disconnected
  BY <1>8, CallbacksKeepStart
<1> QED
  BY <1>2, <1>3, <1>4, <1>5, <1>6, <1>7, <1>8 DEF Next

(* Nothing has been asked of a charger yet. *)
LEMMA InitStart == Init => RInv
  BY DataAssumption
     DEF Init, NewSession, Idle, NoWrite, RInv, Heard, Rereads, StartsReread, OrphansReread,
         LinksOld, Transacting, Sending, Out

THEOREM StartInvariance == Spec => [](IInv /\ SInv /\ RInv)
<1>1. Init => IInv /\ SInv /\ RInv
  BY InitEstablishes, InitSetup, InitStart
<1>2. IInv /\ SInv /\ RInv /\ [Next]_vars => (IInv /\ SInv /\ RInv)'
  BY NextPreserves, NextKeepsSetup, NextKeepsStart
<1> QED
  BY <1>1, <1>2, PTL DEF Spec

(* _set_output: whenever it is the charger's turn to handle a Start, the last two requests it
   handled are the re-reads of configuration and telemetry that belong to it, for any
   faults, callers and polls: nothing of another caller, of an abandoned write or of an
   older connection slips between. *)
THEOREM StartRereads == Spec => []StartReadsFirst
<1>1. IInv /\ SInv /\ RInv => StartReadsFirst
  <2> SUFFICES ASSUME IInv, RInv, toDev # <<>>, Head(toDev).op = "output_on"
               PROVE  heard.last = <<"get_config", "get_telemetry">>
    BY DEF StartReadsFirst
  <2>1. /\ heard.last \in Seq(Requests) /\ toDev \in Seq(AirFrame) /\ Heard \in Nat
        /\ Heard <= 2
    BY HeardTypesOf DEF RInv
  <2>2. 1 \in 1 .. Len(toDev) /\ toDev[1].op = "output_on" /\ Heard + 1 - 1 = Heard
    BY <2>1
  <2>3. Reread(Heard)
    BY <2>2 DEF RInv, StartsReread
  <2>4. /\ Heard = 2 /\ Len(heard.last) = 2
        /\ heard.last[2] = "get_telemetry" /\ heard.last[1] = "get_config"
    <3>1. Heard = 2 /\ Said(2) = "get_telemetry" /\ Said(1) = "get_config"
      BY <2>1, <2>3 DEF Reread
    <3>2. 1 <= Heard /\ 2 <= Heard
      BY <3>1
    <3> QED
      BY <3>1, <3>2 DEF Said, Heard
  <2> QED
    BY <2>1, <2>4
<1> QED
  BY <1>1, StartInvariance, PTL

-----------------------------------------------------------------------------
(* Start as it was confirmed, and a view that agrees with the charger: an inductive
   invariant about everything that is still on its way to the charger or back, for a
   session none of whose calls is cancelled and a charger whose front panel nobody
   touches. *)

(* The session shows two things a mutation changes: the targets and the output.  Each has
   its mutations, the operations ambiguities name, and the opcodes of its acknowledgements. *)
Aspects == {"target", "output"}
Of(a) == IF a = "target" THEN Setters ELSE {"output_on", "output_off"}
Named(a) == IF a = "target" THEN Setters ELSE {"output"}
Acks(a) == IF a = "target" THEN Setters ELSE {"output_control"}

(* A frame that will be taken for a reading of it, and whether it is a right one. *)
Shows(a, f) ==
    f.kind = "frame" /\ f.layout /\ f.op = IF a = "target" THEN "get_config" ELSE "get_telemetry"
Right(a, f) == IF a = "target" THEN f.target = dev.target ELSE f.output \in {dev.output, Unknown}

(* What the session shows is right, or it says that it does not know. *)
Viewed(a) == IF a = "target" THEN s.config.known => s.config.target = dev.target
             ELSE s.telemetry.known => s.telemetry.output \in {dev.output, Unknown}
Doubts(d, a) == \E o \in d.ambiguities : o.operation \in Named(a)

(* The session is one of a link that is up, as far as it knows. *)
IsOpen(d) == d.state \in {"discovering", "authenticating", "loading", "ready"}

(* t owns a request that changes it, and waits for the answer. *)
Changing(a, t) == task[t].pc \in Transacting /\ Request(t) \in Of(a)
Awaits(a, t) == Changing(a, t) /\ ~Sending(t) /\ s.pending.reply.kind = "none"

(* No mutation is on its way; none is acknowledged after the first n frames, and every
   reading among them is right. *)
Silent(a) == \A i \in 1 .. Len(toDev) : toDev[i].op \notin Of(a)
Fair(a, f) == f.kind = "frame" => f.op \notin Acks(a) /\ (Shows(a, f) => Right(a, f))
Calm(a, n) == \A i \in n + 1 .. Len(fromDev) : Fair(a, fromDev[i])
Peaceful(a) == Silent(a) /\ Calm(a, 0)

(* One mutation is on its way, and nothing is wrong yet; or it is through, and what follows
   its acknowledgement is right. *)
Coming(a) ==
    (\E k \in 1 .. Len(toDev) : \A i \in 1 .. Len(toDev) : toDev[i].op \in Of(a) => i = k)
    /\ Calm(a, 0)
Through(a) ==
    Silent(a) /\ \A j \in 1 .. Len(fromDev) :
                    fromDev[j].kind = "frame" /\ fromDev[j].op \in Acks(a) => Calm(a, j)

AirKnown == \A a \in Aspects :
    IsOpen(s) => \/ Peaceful(a)
                 \/ (Coming(a) \/ Through(a)) /\ \E t \in Tasks : Awaits(a, t)
SendsUnanswered == \A a \in Aspects, t \in Tasks :
    IsOpen(s) /\ Changing(a, t) /\ Sending(t) /\ native[t].on = link.id =>
        s.pending.reply.kind = "none"

(* The session shows what is right, or it knows that it may not. *)
AnswerShown == \A a \in Aspects, t \in Tasks :
    IsOpen(s) /\ task[t].pc \in Transacting /\ Shows(a, s.pending.reply) => Viewed(a)
StartShown == \A t \in Tasks :
    IsOpen(s) /\ task[t].op = "start" /\ task[t].pc \in Transacting /\ task[t].step = 2 =>
        Viewed("target")
ViewKnown == \A a \in Aspects :
    IsOpen(s) => Viewed(a) \/ Doubts(s, a) \/ \E t \in Tasks : Changing(a, t)

(* A Start that may still reach the charger is for the targets it has, and no setter will
   get there before. *)
Sound(want, n) == want = dev.target /\ \A i \in 1 .. n : toDev[i].op \notin Setters
AirSound ==
    \A i \in 1 .. Len(toDev) : toDev[i].op = "output_on" => Sound(toDev[i].want, i - 1)
OrphansSound ==
    \A o \in orphans : o.final /\ o.frame.op = "output_on" /\ Alive(o.frame.on) =>
        Sound(o.frame.want, Len(toDev))
WritesSound ==
    \A t \in Tasks : task[t].op = "start" /\ task[t].step = 3
                     /\ Sending(t) /\ Alive(native[t].on) => Sound(task[t].want, Len(toDev))
StartsSound == AirSound /\ OrphansSound /\ WritesSound

(* Only polls and setups that were overtaken are cancelled. *)
Cancelled == \A t \in Tasks :
    task[t].cancel => t \in Pollers \/ (task[t].op = "connect" /\ task[t].gen < s.generation)
(* An open session is that of the native client, and of the setup under way. *)
OpenCurrent ==
    IsOpen(s) => /\ link.id = s.generation
                 /\ \A t \in Tasks : task[t].op = "connect" => task[t].gen = s.generation
SetupOpens == \A t \in Tasks : Live(t) =>
    /\ task[t].pc = "linking" => s.state = "connecting"
    /\ task[t].pc \notin {"linking", "cleaning"} => IsOpen(s)
ConnectingFresh ==
    s.state = "connecting" => s.generation > link.id /\ ~s.config.known /\ ~s.telemetry.known
FramesOld ==
    /\ \A i \in 1 .. Len(fromDev) : /\ fromDev[i].on <= link.id
                                    /\ fromDev[i].kind \in {"frame", "corrupt"}
    /\ \A i \in 1 .. Len(toDev) : toDev[i].on <= link.id
(* A request under way has come to its first chunk. *)
ChunksBegun == \A t \in Tasks : task[t].pc \in Transacting => task[t].chunk >= 1

VInv == /\ AirKnown /\ SendsUnanswered
        /\ AnswerShown /\ StartShown /\ ViewKnown /\ StartsSound
        /\ Cancelled /\ OpenCurrent /\ SetupOpens /\ ConnectingFresh /\ FramesOld
        /\ ChunksBegun

-----------------------------------------------------------------------------
(* The steps of a task. *)

(* The session d goes on with what s showed: it is not open, or it is open as s was. *)
Onwards(d) ==
    /\ d.generation = s.generation
    /\ d.config.known => s.config.known /\ d.config.target = s.config.target
    /\ d.telemetry.known => s.telemetry.known /\ d.telemetry.output = s.telemetry.output
Mild(d) ==
    /\ d.generation >= s.generation
    /\ IsOpen(d) => /\ IsOpen(s) /\ Onwards(d)
                    /\ d.pending.reply \in {s.pending.reply, NoFrame}
                    /\ \A a \in Aspects : Doubts(s, a) => Doubts(d, a) \/ Viewed(a)
    /\ d.state = "connecting" =>
          \/ s.state = "connecting" /\ Onwards(d)
          \/ d.generation > s.generation /\ ~d.config.known /\ ~d.telemetry.known

(* t changes nothing any more: its answer came, and d doubts what it may have done. *)
Quits(t, d) == IsOpen(d) => \A a \in Aspects :
    Changing(a, t) => Doubts(d, a) /\ s.pending.reply.kind # "none"

(* t rests, keeps its request, or opens one: that of a Start after the re-read of the
   targets, and Start itself after they were compared. *)
Rests(t) == task'[t].pc \notin Transacting /\ Quits(t, s')
Keeps(t) ==
    /\ task[t].pc \in Transacting /\ task'[t].pc \in Transacting
    /\ task'[t].op = task[t].op /\ task'[t].step = task[t].step /\ task'[t].want = task[t].want
    /\ task'[t].chunk >= task[t].chunk
    /\ Sending(t)' => native'[t] = native[t] \/ Request(t) \notin Mutations
    /\ IsOpen(s') => s'.pending.reply = s.pending.reply
Asks(t) ==
    /\ Opens(t) /\ s'.pending.reply = NoFrame /\ holder \in {t, "free"}
    /\ Quits(t, s')
    /\ task'[t].op = "start" /\ task'[t].step = 2 =>
          task[t].pc \in Transacting /\ Shows("target", s.pending.reply)
    /\ task'[t].op = "start" /\ task'[t].step = 3 =>
          /\ IsOpen(s) /\ s.config.known /\ s.config.target = task'[t].want
          /\ task[t].op = "start" /\ task[t].step = 2 /\ task[t].pc \in Transacting

(* Where a setup of the current generation may be. *)
Placement(t) ==
    task'[t].op = "connect" /\ task'[t].gen = s'.generation =>
        /\ task'[t].pc = "linking" => s'.state = "connecting"
        /\ task'[t].pc \notin {"linking", "cleaning"} => IsOpen(s')
Hushed(t) == \A u \in Tasks : task'[u].cancel =>
    \/ u \in Pollers \/ (u # t /\ task[u].cancel)
    \/ (task'[u].op = "connect" /\ task'[u].gen < s'.generation)

Carries(t) == t \in Tasks => (Rests(t) \/ Keeps(t) \/ Asks(t)) /\ Placement(t)
(* A notification at most is dropped. *)
Drops == fromDev' = fromDev \/ (fromDev # <<>> /\ fromDev' = Tail(fromDev))
Carried(t) ==
    /\ Apart(t, task') /\ Mild(s') /\ Hushed(t) /\ Carries(t)
    /\ Writes(t) /\ Hangs /\ Drops /\ dev' = dev

(* The mutations of an aspect, their acknowledgements and the outcomes they leave. *)
LEMMA AspectFacts ==
    ASSUME NEW a \in Aspects
    PROVE  /\ Of(a) \subseteq Mutations
           /\ \A x \in Of(a) : /\ Opcode(x) \in Acks(a)
                               /\ x \notin Reads
                               /\ \A want : OutcomeOf(x, want).operation \in Named(a)
           /\ \A x \in Requests \ Of(a) : Opcode(x) \notin Acks(a)
           /\ "get_config" \notin Acks(a) /\ "get_telemetry" \notin Acks(a)
<1>1. CASE a = "target"
  BY <1>1, DataAssumption
     DEF DataAssumption, Of, Named, Acks, Mutations, Opcode, Reads, OutcomeOf, Requests
<1>2. CASE a = "output"
  BY <1>2, DataAssumption
     DEF DataAssumption, Of, Named, Acks, Mutations, Opcode, Reads, OutcomeOf, Requests
<1> QED
  BY <1>1, <1>2 DEF Aspects

(* Only the owner of the slot transacts, and who writes to the stack is writing. *)
LEMMA OneTransacts ==
    ASSUME IInv, NEW t \in Tasks, NEW u \in Tasks, task[t].pc \in Transacting,
           task[u].pc \in Transacting
    PROVE  t = u
  BY TransactingOwns

LEMMA ChangingTransacts ==
    ASSUME NEW a \in Aspects, NEW t, Changing(a, t)
    PROVE  task[t].pc \in Transacting /\ Request(t) \in Mutations
  BY AspectFacts DEF Changing

(* What a step of t leaves to another task u. *)
LEMMA OthersCarried ==
    ASSUME IInv, NEW t, Carried(t), NEW u \in Tasks \ {t}
    PROVE  /\ task'[u].pc = task[u].pc /\ task'[u].op = task[u].op
           /\ task'[u].step = task[u].step /\ task'[u].want = task[u].want
           /\ native'[u] = native[u] /\ (Sending(u)' <=> Sending(u))
           /\ \A a : Changing(a, u)' <=> Changing(a, u)
<1>1. /\ task'[u].pc = task[u].pc /\ task'[u].op = task[u].op
      /\ task'[u].step = task[u].step /\ task'[u].want = task[u].want
      /\ native'[u] = native[u]
  BY DEF Carried, Apart, Writes
<1> QED
  BY <1>1 DEF Sending, Changing, Request

(* A task that keeps its request changes what it changed, and sends only what it sent. *)
LEMMA KeepsChanging ==
    ASSUME IInv, NEW t \in Tasks, Keeps(t), NEW a \in Aspects
    PROVE  /\ Changing(a, t)' <=> Changing(a, t)
           /\ Changing(a, t) /\ Sending(t)' => Sending(t) /\ native'[t] = native[t]
<1>1. Changing(a, t)' <=> Changing(a, t)
  BY DEF Keeps, Changing, Request
<1>2. ASSUME Changing(a, t), Sending(t)'
      PROVE  Sending(t) /\ native'[t] = native[t]
  <2>1. native'[t] = native[t]
    BY <1>2, ChangingTransacts DEF Keeps
  <2>2. native[t].at = "busy" /\ task[t].pc = "writing"
    BY <1>2, <2>1 DEF Sending, IInv, SlotInv, WriterWrites
  <2> QED
    BY <2>1, <2>2 DEF Sending
<1> QED
  BY <1>1, <1>2

(* Whoever rests or asks leaves the air in peace, in an open session. *)
LEMMA QuitsInPeace ==
    ASSUME IInv, VInv, NEW t \in Tasks, Mild(s'), IsOpen(s'), Quits(t, s'),
           \A u \in Tasks \ {t} : task[u].pc \notin Transacting
    PROVE  \A a \in Aspects : Peaceful(a)
<1> TAKE a \in Aspects
<1>1. IsOpen(s)
  BY DEF Mild
<1>2. ~ \E u \in Tasks : Awaits(a, u)
  BY DEF Awaits, Changing, Quits
<1> QED
  BY <1>1, <1>2 DEF VInv, AirKnown

(* Dropping a notification makes nothing wrong. *)
LEMMA DropKeeps ==
    ASSUME IInv, Drops, dev' = dev, NEW a
    PROVE  /\ Calm(a, 0) => Calm(a, 0)'
           /\ Calm(a, 1) /\ fromDev' = Tail(fromDev) /\ fromDev # <<>> => Calm(a, 0)'
           /\ Through(a) /\ Silent(a)' => Through(a)'
<1>1. fromDev \in Seq(Frame)
  BY DEF IInv, TypeOK
<1>2. \A g : Fair(a, g)' <=> Fair(a, g)
  BY DEF Fair, Shows, Right
<1>3. CASE fromDev' = fromDev
  BY <1>1, <1>2, <1>3 DEF Calm, Through
<1>4. CASE fromDev # <<>> /\ fromDev' = Tail(fromDev)
  <2>1. /\ Len(fromDev) \in Nat /\ Len(fromDev') = Len(fromDev) - 1
        /\ \A i \in 1 .. Len(fromDev') : fromDev'[i] = fromDev[i + 1]
    BY <1>1, <1>4
  <2>2. ASSUME NEW n \in Nat, Calm(a, n + 1)
        PROVE  Calm(a, n)'
    <3> SUFFICES ASSUME NEW i \in n + 1 .. Len(fromDev')
                 PROVE  Fair(a, fromDev'[i])
      BY <1>2 DEF Calm
    <3>1. i + 1 \in (n + 1) + 1 .. Len(fromDev) /\ i \in 1 .. Len(fromDev')
      BY <2>1
    <3>2. Fair(a, fromDev[i + 1])
      BY <2>2, <3>1 DEF Calm
    <3> QED
      BY <2>1, <3>1, <3>2
  <2>3. Calm(a, 0) => Calm(a, 1)
    BY <2>1 DEF Calm
  <2>4. Calm(a, 0 + 1) => Calm(a, 0)'
    BY <2>2
  <2>5. 0 + 1 = 1
    OBVIOUS
  <2>6. Calm(a, 1) => Calm(a, 0)'
    BY <2>4, <2>5
  <2>7. ASSUME Through(a), NEW j \in 1 .. Len(fromDev'), fromDev'[j].kind = "frame",
               fromDev'[j].op \in Acks(a)
        PROVE  Calm(a, j)'
    <3>1. j + 1 \in 1 .. Len(fromDev) /\ fromDev'[j] = fromDev[j + 1] /\ j \in Nat
      BY <2>1
    <3>2. Calm(a, j + 1)
      BY <2>7, <3>1 DEF Through
    <3> QED
      BY <2>2, <3>1, <3>2
  <2> QED
    BY <2>3, <2>6, <2>7 DEF Through
<1> QED
  BY <1>3, <1>4 DEF Drops

LEMMA DroppedWas ==
    ASSUME IInv, Drops
    PROVE  \A i \in 1 .. Len(fromDev') : \E j \in 1 .. Len(fromDev) : fromDev'[i] = fromDev[j]
<1>1. fromDev \in Seq(Frame)
  BY DEF IInv, TypeOK
<1>2. CASE fromDev # <<>> /\ fromDev' = Tail(fromDev)
  <2> SUFFICES ASSUME NEW i \in 1 .. Len(fromDev')
               PROVE  \E j \in 1 .. Len(fromDev) : fromDev'[i] = fromDev[j]
    OBVIOUS
  <2>1. i + 1 \in 1 .. Len(fromDev) /\ fromDev'[i] = fromDev[i + 1]
    BY <1>1, <1>2
  <2> QED
    BY <2>1
<1> QED
  BY <1>2 DEF Drops

(* The air stays as it was, or what was in it to the charger is gone. *)
LEMMA AirKept ==
    ASSUME IInv, Hangs, Drops, dev' = dev, NEW a
    PROVE  /\ Peaceful(a) => Peaceful(a)'
           /\ Coming(a) \/ Through(a) => (Peaceful(a) \/ Coming(a) \/ Through(a))'
<1>1. /\ Calm(a, 0) => Calm(a, 0)'
      /\ Through(a) /\ Silent(a)' => Through(a)'
  BY DropKeeps
<1>2. CASE toDev' = toDev
  BY <1>1, <1>2 DEF Peaceful, Coming, Through, Silent
<1>3. CASE toDev' = <<>>
  <2>1. Silent(a)'
    BY <1>3 DEF Silent
  <2> QED
    BY <1>1, <2>1 DEF Peaceful, Coming, Through
<1> QED
  BY <1>2, <1>3 DEF Hangs

(* The air: what was said of it stays true. *)
LEMMA CarriedAir ==
    ASSUME IInv, VInv, NEW t, Carried(t)
    PROVE  AirKnown' /\ SendsUnanswered'
<1> SUFFICES ASSUME NEW a \in Aspects, IsOpen(s')
             PROVE  /\ (Peaceful(a) \/ ((Coming(a) \/ Through(a)) /\ \E u \in Tasks : Awaits(a, u)))'
                    /\ \A u \in Tasks : Changing(a, u)' /\ Sending(u)' /\ native'[u].on = link'.id
                          => s'.pending.reply.kind = "none"
  BY DEF AirKnown, SendsUnanswered
<1>1. /\ IsOpen(s) /\ s'.pending.reply \in {s.pending.reply, NoFrame} /\ NoFrame.kind = "none"
      /\ link'.id = link.id
  BY DEF Carried, Mild, Hangs, NoFrame
<1>2. Peaceful(a) => Peaceful(a)'
  BY AirKept DEF Carried
<1>3. \/ Peaceful(a)
      \/ (Coming(a) \/ Through(a)) /\ \E u \in Tasks : Awaits(a, u)
  BY <1>1 DEF VInv, AirKnown
<1>4. ASSUME t \in Tasks, Rests(t) \/ Asks(t),
             \A u \in Tasks \ {t} : task[u].pc \notin Transacting
      PROVE  Peaceful(a)
  BY <1>4, QuitsInPeace DEF Rests, Asks, Carried
<1>5. ASSUME NEW u \in Tasks, Awaits(a, u)
      PROVE  Awaits(a, u)' \/ Peaceful(a)
  <2>1. Changing(a, u) /\ ~Sending(u) /\ s.pending.reply.kind = "none"
    BY <1>5 DEF Awaits
  <2>2. CASE u # t
    <3>1. Changing(a, u)' /\ ~Sending(u)'
      BY <2>1, <2>2, OthersCarried
    <3> QED
      BY <1>1, <2>1, <3>1 DEF Awaits
  <2>3. CASE u = t /\ Keeps(t)
    <3>1. Changing(a, u)' /\ ~Sending(u)'
      BY <2>1, <2>3, KeepsChanging
    <3> QED
      BY <1>1, <2>1, <3>1 DEF Awaits
  <2>4. CASE u = t /\ (Rests(t) \/ Asks(t))
    <3>1. \A v \in Tasks \ {t} : task[v].pc \notin Transacting
      BY <2>1, <2>4, OneTransacts, ChangingTransacts
    <3> QED
      BY <1>4, <2>4, <3>1
  <2> QED
    BY <2>2, <2>3, <2>4 DEF Carried, Carries
<1>6. (Peaceful(a) \/ ((Coming(a) \/ Through(a)) /\ \E u \in Tasks : Awaits(a, u)))'
  <2>1. CASE Peaceful(a)
    BY <1>2, <2>1
  <2>2. CASE (Coming(a) \/ Through(a)) /\ \E u \in Tasks : Awaits(a, u)
    <3>1. (Peaceful(a) \/ Coming(a) \/ Through(a))'
      BY <2>2, AirKept DEF Carried
    <3> QED
      BY <1>2, <1>5, <2>2, <3>1
  <2> QED
    BY <1>3, <2>1, <2>2
<1>7. ASSUME NEW u \in Tasks, Changing(a, u)', Sending(u)', native'[u].on = link'.id
      PROVE  s'.pending.reply.kind = "none"
  <2>1. CASE u # t
    <3>1. Changing(a, u) /\ Sending(u) /\ native[u].on = link.id
      BY <1>1, <1>7, <2>1, OthersCarried
    <3> QED
      BY <1>1, <3>1 DEF VInv, SendsUnanswered
  <2>2. CASE u = t /\ Keeps(t)
    <3>1. Changing(a, u) /\ Sending(u) /\ native[u].on = link.id
      BY <1>1, <1>7, <2>2, KeepsChanging
    <3> QED
      BY <1>1, <3>1 DEF VInv, SendsUnanswered
  <2>3. CASE u = t /\ Asks(t)
    BY <1>1, <2>3 DEF Asks
  <2>4. CASE u = t /\ Rests(t)
    BY <1>7, <2>4 DEF Rests, Changing
  <2> QED
    BY <2>1, <2>2, <2>3, <2>4 DEF Carried, Carries
<1> QED
  BY <1>6, <1>7

(* What is shown stays right, or doubted. *)
LEMMA CarriedViews ==
    ASSUME IInv, VInv, NEW t, Carried(t)
    PROVE  AnswerShown' /\ StartShown' /\ ViewKnown'
<1> SUFFICES ASSUME IsOpen(s')
             PROVE  AnswerShown' /\ StartShown' /\ ViewKnown'
  BY DEF AnswerShown, StartShown, ViewKnown
<1>1. IsOpen(s) /\ s'.pending.reply \in {s.pending.reply, NoFrame} /\ NoFrame.kind = "none"
  BY DEF Carried, Mild, NoFrame
<1>2. \A a \in Aspects : Viewed(a) => Viewed(a)'
  BY DEF Carried, Mild, Onwards, Viewed
<1>3. ASSUME NEW a \in Aspects, NEW u \in Tasks, task'[u].pc \in Transacting,
             Shows(a, s'.pending.reply)
      PROVE  Viewed(a)'
  <2>1. s'.pending.reply = s.pending.reply /\ s'.pending.reply # NoFrame
    BY <1>1, <1>3 DEF Shows
  <2>2. task[u].pc \in Transacting
    <3>1. CASE u # t
      BY <1>3, <3>1, OthersCarried
    <3>2. CASE u = t
      BY <1>3, <2>1, <3>2 DEF Carried, Carries, Rests, Keeps, Asks
    <3> QED
      BY <3>1, <3>2
  <2> QED
    BY <1>1, <1>2, <1>3, <2>1, <2>2 DEF VInv, AnswerShown
<1>4. ASSUME NEW u \in Tasks, task'[u].op = "start", task'[u].pc \in Transacting,
             task'[u].step = 2
      PROVE  Viewed("target")'
  <2>1. "target" \in Aspects
    BY DEF Aspects
  <2>2. CASE task[u].op = "start" /\ task[u].pc \in Transacting /\ task[u].step = 2
    BY <1>1, <1>2, <2>1, <2>2 DEF VInv, StartShown
  <2>3. CASE u = t /\ Asks(t)
    <3>1. task[u].pc \in Transacting /\ Shows("target", s.pending.reply)
      BY <1>4, <2>3 DEF Asks
    <3> QED
      BY <1>1, <1>2, <2>1, <3>1 DEF VInv, AnswerShown
  <2>4. CASE u # t
    BY <1>4, <2>2, <2>4, OthersCarried
  <2> QED
    BY <1>4, <2>2, <2>3, <2>4 DEF Carried, Carries, Rests, Keeps
<1>5. ASSUME NEW a \in Aspects
      PROVE  (Viewed(a) \/ Doubts(s, a) \/ \E u \in Tasks : Changing(a, u))'
  <2>1. CASE Viewed(a)
    BY <1>2, <2>1
  <2>2. CASE Doubts(s, a)
    BY <1>2, <2>2 DEF Carried, Mild, Doubts
  <2>3. ASSUME NEW u \in Tasks, Changing(a, u)
        PROVE  (Doubts(s, a) \/ \E v \in Tasks : Changing(a, v))'
    <3>1. CASE u # t
      BY <2>3, <3>1, OthersCarried
    <3>2. CASE u = t /\ Keeps(t)
      BY <2>3, <3>2, KeepsChanging
    <3>3. CASE u = t /\ (Rests(t) \/ Asks(t))
      BY <2>3, <3>3 DEF Rests, Asks, Quits, Doubts
    <3> QED
      BY <3>1, <3>2, <3>3 DEF Carried, Carries
  <2> QED
    BY <1>1, <2>1, <2>2, <2>3 DEF VInv, ViewKnown
<1> QED
  BY <1>3, <1>4, <1>5 DEF AnswerShown, StartShown, ViewKnown

(* A Start that is opened is sound: the air is in peace, and the targets were compared. *)
LEMMA CarriedStarts ==
    ASSUME IInv, VInv, s' \in Session, NEW t, Carried(t)
    PROVE  StartsSound'
<1>1. /\ \A id : Alive(id)' => Alive(id) /\ toDev' = toDev
      /\ dev' = dev /\ (toDev' = toDev \/ toDev' = <<>>)
  BY DEF Carried, Hangs, Alive
<1>2. \A want, n : Sound(want, n) /\ toDev' = toDev => Sound(want, n)'
  BY <1>1 DEF Sound
<1>3. ASSUME NEW i \in 1 .. Len(toDev'), toDev'[i].op = "output_on"
      PROVE  Sound(toDev[i].want, i - 1)'
  <2>1. toDev' = toDev
    BY <1>1, <1>3
  <2> QED
    BY <1>2, <1>3, <2>1 DEF VInv, StartsSound, AirSound
<1>4. ASSUME NEW u \in Tasks, task'[u].op = "start", task'[u].step = 3, Sending(u)',
             Alive(native[u].on)'
      PROVE  Sound(task[u].want, Len(toDev))'
  <2>1. toDev' = toDev
    BY <1>1, <1>4 DEF Alive
  <2>2. ASSUME /\ task[u].op = "start" /\ task[u].step = 3 /\ Sending(u)
               /\ native'[u] = native[u] /\ task'[u].want = task[u].want
        PROVE  Sound(task[u].want, Len(toDev))'
    BY <1>1, <1>2, <1>4, <2>1, <2>2 DEF VInv, StartsSound, WritesSound, Alive
  <2>3. CASE u # t
    BY <1>4, <2>2, <2>3, OthersCarried
  <2>4. CASE u = t /\ Keeps(t)
    <3>1. task[u].op = "start" /\ task[u].step = 3 /\ task[u].pc \in Transacting
          /\ task'[u].want = task[u].want
      BY <1>4, <2>4 DEF Keeps
    <3>2. Changing("output", u) /\ "output" \in Aspects
      BY <3>1, StartProgram DEF Changing, Of, Request, Aspects
    <3>3. Sending(u) /\ native'[u] = native[u]
      BY <1>4, <2>4, <3>2, KeepsChanging
    <3> QED
      BY <2>2, <3>1, <3>3
  <2>5. CASE u = t /\ Asks(t)
    <3>1. /\ IsOpen(s) /\ s.config.known /\ s.config.target = task'[u].want
          /\ task[u].op = "start" /\ task[u].step = 2 /\ task[u].pc \in Transacting
      BY <1>4, <2>5 DEF Asks
    <3>2. task'[u].want = dev.target
      BY <3>1 DEF VInv, StartShown, Viewed
    <3>3. Silent("target")
      <4>1. "target" \in Aspects /\ ~Changing("target", u)
        BY <3>1, StartProgram, DataAssumption DEF Changing, Of, Request, Aspects, DataAssumption
      <4>2. ~ \E v \in Tasks : Awaits("target", v)
        BY <3>1, <4>1, OneTransacts, ChangingTransacts DEF Awaits
      <4> QED
        BY <3>1, <4>1, <4>2 DEF VInv, AirKnown, Peaceful
    <3> QED
      BY <1>1, <2>1, <3>2, <3>3 DEF Sound, Silent, Of
  <2>6. CASE u = t /\ Rests(t)
    BY <1>4, <2>6 DEF Rests, Sending, Transacting
  <2> QED
    BY <2>3, <2>4, <2>5, <2>6 DEF Carried, Carries
<1>5. ASSUME NEW o \in orphans', o.final, o.frame.op = "output_on", Alive(o.frame.on)'
      PROVE  Sound(o.frame.want, Len(toDev))'
  <2>1. Alive(o.frame.on) /\ toDev' = toDev
    BY <1>1, <1>5
  <2>2. CASE o \in orphans
    BY <1>2, <1>5, <2>1, <2>2 DEF VInv, StartsSound, OrphansSound
  <2>3. CASE o = OrphanOf(t) /\ t \in Tasks /\ task[t].pc = "writing"
    <3>1. /\ Request(t) = "output_on" /\ Sending(t) /\ Alive(native[t].on)
          /\ task[t].pc \in Transacting /\ o.frame.want = task[t].want
      BY <1>5, <2>1, <2>3 DEF OrphanOf, OnAir, Sending, Transacting, Mutations
    <3>2. task[t].op = "start" /\ task[t].step = 3
      BY <2>3, <3>1, OperationOf, OnlyStartSwitchesOn DEF Request
    <3> QED
      BY <1>2, <2>1, <2>3, <3>1, <3>2 DEF VInv, StartsSound, WritesSound
  <2> QED
    BY <2>2, <2>3 DEF Carried, Writes
<1>6. AirSound'
  BY <1>3 DEF AirSound
<1>7. WritesSound'
  BY <1>4 DEF WritesSound
<1>8. OrphansSound'
  BY <1>5 DEF OrphansSound
<1> QED
  BY <1>6, <1>7, <1>8 DEF StartsSound

(* A setup keeps its generation, or is of a newer one; a step of another task leaves the
   state of a session whose setup is current. *)
LEMMA ClassifiedSetups ==
    ASSUME IInv, SInv, s' \in Session, NEW t, Classified(t), Apart(t, task'), NEW u \in Tasks,
           task'[u].op = "connect"
    PROVE  /\ \/ task[u].op = "connect" /\ task'[u].gen = task[u].gen
              \/ u = t /\ s'.generation > s.generation
           /\ u # t /\ task[u].gen = s'.generation => s'.state = s.state
<1>1. PICK w \in {t, None} : Kind(w)
  BY DEF Classified
<1>2. /\ None \notin Tasks /\ s.generation \in Nat /\ s'.generation \in Nat
      /\ Apart(w, task') /\ task[u].gen \in Nat
  BY <1>1, LinkTypes, HeardTypesOf DEF Kind, Session
<1>3. u # w => task[u].op = "connect" /\ task'[u].gen = task[u].gen
  BY <1>2 DEF Apart
<1>5. task[u].op = "connect" => task[u].gen <= s.generation /\ s.connector = u
  BY DEF IInv, SetupIsCurrent, SInv, OneSetup
<1>6. CASE Works(w)
  <2>1. s'.state = s.state
    BY <1>6 DEF Works, Steady
  <2> QED
    BY <1>2, <1>3, <1>6, <2>1 DEF Works
<1>7. CASE Breaks(w)
  <2>1. s'.generation > s.generation /\ (u = w => task'[u].op # "connect")
    BY <1>7 DEF Breaks
  <2> QED
    BY <1>2, <1>3, <1>5, <2>1
<1>8. CASE Leaves(w)
  <2>1. /\ s'.generation = s.generation /\ (u = w => task'[u].op # "connect")
        /\ task[u].op = "connect" => task[u].gen < s.generation
    BY <1>8 DEF Leaves, SInv, Overtaken, Leaving
  <2> QED
    BY <1>2, <1>3, <2>1
<1>9. CASE Connects(w)
  <2>1. /\ s'.generation > s.generation /\ s.connector = None /\ w \in Tasks
    BY <1>9 DEF Connects
  <2> QED
    BY <1>1, <1>2, <1>3, <1>5, <2>1
<1>10. CASE SetsUp(w)
  <2>1. /\ task[w].op = "connect" /\ task'[w].gen = task[w].gen /\ w \in Tasks
        /\ s.connector = w
    BY <1>10 DEF SetsUp, SInv, OneSetup
  <2> QED
    BY <1>1, <1>2, <1>3, <1>5, <2>1
<1>11. CASE SetupOver(w)
  <2>1. /\ task[w].op = "connect" /\ task'[w].op = "none" /\ w \in Tasks
        /\ s.connector = w
    BY <1>11 DEF SetupOver, SInv, OneSetup
  <2> QED
    BY <1>1, <1>2, <1>3, <1>5, <2>1
<1> QED
  BY <1>1, <1>6, <1>7, <1>8, <1>9, <1>10, <1>11 DEF Kind

LEMMA CarriedSetups ==
    ASSUME IInv, SInv, RInv, VInv, s' \in Session, NEW t, Classified(t), Carried(t)
    PROVE  (Cancelled /\ OpenCurrent /\ SetupOpens /\ ConnectingFresh /\ FramesOld)'
<1>1. /\ s.generation \in Nat /\ s'.generation \in Nat /\ link.id \in Nat /\ link'.id = link.id
      /\ s'.generation >= s.generation /\ link.id <= s.generation
      /\ task \in [Tasks -> TaskState] /\ task' \in [Tasks -> TaskState]
  BY HeardTypesOf, LinkTypes DEF Carried, Mild, Hangs, RInv, LinksOld, Session, Apart
<1>2. IsOpen(s') => IsOpen(s) /\ s'.generation = s.generation
  BY DEF Carried, Mild, Onwards
<1>3. Cancelled'
  <2> SUFFICES ASSUME NEW u \in Tasks, task'[u].cancel, u \notin Pollers
               PROVE  task'[u].op = "connect" /\ task'[u].gen < s'.generation
    BY DEF Cancelled
  <2>1. CASE u # t /\ task[u].cancel
    <3>1. task[u].op = "connect" /\ task[u].gen < s.generation
      BY <2>1 DEF VInv, Cancelled
    <3>2. task'[u].op = task[u].op /\ task'[u].gen = task[u].gen /\ task[u].gen \in Nat
      BY <2>1, HeardTypesOf DEF Carried, Apart
    <3> QED
      BY <1>1, <3>1, <3>2
  <2> QED
    BY <2>1 DEF Carried, Hushed
<1>4. OpenCurrent'
  <2> SUFFICES ASSUME IsOpen(s')
               PROVE  /\ link'.id = s'.generation
                      /\ \A u \in Tasks : task'[u].op = "connect" => task'[u].gen = s'.generation
    BY DEF OpenCurrent
  <2>1. /\ link.id = s.generation
        /\ \A u \in Tasks : task[u].op = "connect" => task[u].gen = s.generation
    BY <1>2 DEF VInv, OpenCurrent
  <2>2. ASSUME NEW u \in Tasks, task'[u].op = "connect"
        PROVE  task'[u].gen = s'.generation
    <3>1. task[u].op = "connect" /\ task'[u].gen = task[u].gen
      BY <1>1, <1>2, <2>2, ClassifiedSetups DEF Carried
    <3> QED
      BY <1>2, <2>1, <3>1
  <2> QED
    BY <1>1, <1>2, <2>1, <2>2
<1>5. SetupOpens'
  <2> SUFFICES ASSUME NEW u \in Tasks, task'[u].op = "connect", task'[u].gen = s'.generation
               PROVE  /\ task'[u].pc = "linking" => s'.state = "connecting"
                      /\ task'[u].pc \notin {"linking", "cleaning"} => IsOpen(s')
    BY DEF SetupOpens, Live
  <2>1. CASE u = t
    BY <2>1 DEF Carried, Carries, Placement
  <2>2. CASE u # t
    <3>1. task'[u].gen = task[u].gen /\ task'[u].pc = task[u].pc /\ task'[u].op = task[u].op
      BY <2>2 DEF Carried, Apart
    <3>2. s'.state = s.state /\ task[u].gen \in Nat
      BY <2>2, <3>1, ClassifiedSetups, HeardTypesOf DEF Carried
    <3>3. task[u].gen <= s.generation
      BY <3>1 DEF IInv, SetupIsCurrent
    <3>4. Live(u)
      BY <1>1, <3>1, <3>2, <3>3 DEF Live
    <3> QED
      BY <3>1, <3>2, <3>4 DEF VInv, SetupOpens, IsOpen
  <2> QED
    BY <2>1, <2>2
<1>6. ConnectingFresh'
  <2> SUFFICES ASSUME s'.state = "connecting"
               PROVE  s'.generation > link'.id /\ ~s'.config.known /\ ~s'.telemetry.known
    BY DEF ConnectingFresh
  <2>1. CASE s.state = "connecting" /\ Onwards(s')
    BY <1>1, <2>1 DEF VInv, ConnectingFresh, Onwards
  <2>2. CASE s'.generation > s.generation /\ ~s'.config.known /\ ~s'.telemetry.known
    BY <1>1, <2>2
  <2> QED
    BY <2>1, <2>2 DEF Carried, Mild
<1>7. FramesOld'
  <2>1. /\ \A i \in 1 .. Len(fromDev') : \E j \in 1 .. Len(fromDev) : fromDev'[i] = fromDev[j]
        /\ toDev' = toDev \/ toDev' = <<>>
    BY DroppedWas DEF Carried, Hangs
  <2> QED
    BY <1>1, <2>1 DEF VInv, FramesOld
<1> QED
  BY <1>3, <1>4, <1>5, <1>6, <1>7

(* A request starts with its first chunk. *)
LEMMA CarriedChunks ==
    ASSUME IInv, VInv, NEW t, Carried(t)
    PROVE  ChunksBegun'
<1> SUFFICES ASSUME NEW u \in Tasks, task'[u].pc \in Transacting
             PROVE  task'[u].chunk >= 1
  BY DEF ChunksBegun
<1>1. task[u].chunk \in Nat /\ task'[u].chunk \in Nat
  BY LinkTypes DEF Carried, Apart, TaskState
<1>2. CASE u # t
  BY <1>1, <1>2 DEF Carried, Apart, VInv, ChunksBegun
<1>3. CASE u = t /\ Keeps(t)
  BY <1>1, <1>3 DEF Keeps, VInv, ChunksBegun
<1>4. CASE u = t /\ Asks(t)
  BY <1>4 DEF Asks, Opens
<1> QED
  BY <1>2, <1>3, <1>4 DEF Carried, Carries, Rests

(* A step of the session keeps the invariant. *)
LEMMA ViewCarried ==
    ASSUME IInv, SInv, RInv, VInv, s' \in Session, NEW t, Classified(t), Carried(t)
    PROVE  VInv'
  BY CarriedAir, CarriedViews, CarriedStarts, CarriedSetups, CarriedChunks DEF VInv

-----------------------------------------------------------------------------
(* Sessions and tasks a step arrives at. *)

(* What the step of t has to show of the session and of the tasks. *)
Tends(t) == Mild(s') /\ Hushed(t) /\ Carries(t)

(* No task but t is cancelled anew, polls aside. *)
Hush(t, ts) == \A u \in Tasks \ {t} : ts[u].cancel => u \in Pollers \/ task[u].cancel

(* e differs from d in nothing the session shows. *)
Alike(d, e) ==
    /\ e.state = d.state /\ e.generation = d.generation
    /\ e.config = d.config /\ e.telemetry = d.telemetry /\ e.ambiguities = d.ambiguities
    /\ e.pending.reply \in {d.pending.reply, NoFrame}

LEMMA MildAlike ==
    ASSUME NEW t, NEW d, NEW e, Alike(d, e), Mild(d)
    PROVE  Mild(e) /\ (IsOpen(e) <=> IsOpen(d)) /\ (Quits(t, d) => Quits(t, e))
<1>1. IsOpen(e) <=> IsOpen(d)
  BY DEF Alike, IsOpen
<1>2. \A a : Doubts(e, a) <=> Doubts(d, a)
  BY DEF Alike, Doubts
<1>3. Onwards(d) => Onwards(e)
  BY DEF Alike, Onwards
<1> QED
  BY <1>1, <1>2, <1>3 DEF Alike, Mild, Quits

LEMMA MildSelf ==
    ASSUME IInv
    PROVE  Mild(s)
  BY LinkTypes DEF Mild, Onwards

Shut(d) == d.generation >= s.generation /\ d.state \in {"error", "disconnected", "disconnecting"}

LEMMA MildShut ==
    ASSUME NEW t, NEW d, Shut(d)
    PROVE  Mild(d) /\ ~IsOpen(d) /\ Quits(t, d)
  BY DEF Shut, Mild, IsOpen, Quits

(* A poisoned client's session is shut. *)
LEMMA PoisonShut ==
    ASSUME IInv
    PROVE  Shut(PoisonCurrentClient(s)) /\ PoisonCurrentClient(s) \in Session
<1>1. s \in Session /\ s.generation \in Nat /\ (s.poisoned => s.state \in {"error", "disconnecting", "disconnected"})
  BY LinkTypes DEF IInv, PoisonedUnusable
<1> QED
  BY <1>1, PoisonLeaves DEF Shut

(* Whoever is not transacting, changes nothing. *)
LEMMA AsideQuits ==
    ASSUME NEW t, task[t].pc \notin Transacting, NEW d
    PROVE  Quits(t, d)
  BY DEF Quits, Changing

(* A task that gives up. *)
LEMMA GiveUpTends ==
    ASSUME IInv, NEW t \in Tasks, NEW d \in Session, Mild(d), Quits(t, d),
           NEW ts \in [Tasks -> TaskState], Hush(t, ts), NEW cancelled \in BOOLEAN,
           \/ GiveUp(t, d, ts, cancelled)
           \/ \E up : ConnectUnwind(t, d, ts, up, cancelled)
    PROVE  Tends(t)
<1>1. \/ s' = d
      \/ \E up : s' = ConnectEnded(d, up, cancelled)
      \/ s' = [d EXCEPT !.expected = TRUE, !.polling = FALSE, !.poller = None]
  BY DEF GiveUp, ConnectUnwind
<1>2. Mild(s') /\ Quits(t, s')
  <2>1. CASE s' = d
    BY <2>1
  <2>2. ASSUME NEW up, s' = ConnectEnded(d, up, cancelled)
        PROVE  Shut(s')
    BY <2>2, ConnectEndedLeaves DEF Shut, Mild
  <2>3. CASE s' = [d EXCEPT !.expected = TRUE, !.polling = FALSE, !.poller = None]
    <3>1. Alike(d, s')
      BY <2>3 DEF Alike, Session
    <3> QED
      BY <3>1, MildAlike
  <2> QED
    BY <1>1, <2>1, <2>2, <2>3, MildShut
<1>3. /\ task'[t].pc \in {"idle", "cleaning"} /\ ~task'[t].cancel
      /\ task'[t].pc = "idle" => task'[t].op = "none"
      /\ \A u \in Tasks \ {t} : task'[u] = ts[u]
  <2>1. CASE task' = [ts EXCEPT ![t] = Idle]
    BY <2>1 DEF Idle
  <2>2. CASE task' = [ts EXCEPT ![t].pc = "cleaning", ![t].cancel = FALSE,
                                ![t].failing = ~cancelled]
    <3>1. task'[t] = [ts[t] EXCEPT !.pc = "cleaning", !.cancel = FALSE, !.failing = ~cancelled]
      BY <2>2
    <3>2. ts[t] \in TaskState
      OBVIOUS
    <3>3. task'[t].pc = "cleaning" /\ task'[t].cancel = FALSE
      BY <3>1, <3>2 DEF TaskState
    <3> QED
      BY <2>2, <3>3
  <2> QED
    BY <2>1, <2>2 DEF GiveUp, ConnectUnwind
<1>4. Hushed(t)
  BY <1>3 DEF Hushed, Hush
<1>5. Rests(t) /\ Placement(t)
  BY <1>2, <1>3 DEF Rests, Placement, Transacting
<1> QED
  BY <1>2, <1>4, <1>5 DEF Tends, Carries

(* A task that sends. *)
Ready(t, d, ts, op, want, k) ==
    /\ d \in Session /\ Mild(d) /\ Quits(t, d)
    /\ ts \in [Tasks -> TaskState] /\ Hush(t, ts) /\ (ts[t].cancel => t \in Pollers)
    /\ op = "connect" /\ ts[t].gen = d.generation => IsOpen(d)
    /\ op = "start" /\ k = 2 => task[t].pc \in Transacting /\ Shows("target", s.pending.reply)
    /\ op = "start" /\ k = 3 =>
          /\ IsOpen(s) /\ s.config.known /\ s.config.target = want
          /\ task[t].op = "start" /\ task[t].step = 2 /\ task[t].pc \in Transacting

LEMMA SendTends ==
    ASSUME IInv, NEW t \in Tasks, holder \in {t, "free"}, NEW d, NEW ts, NEW op, NEW want, NEW k,
           Ready(t, d, ts, op, want, k), Send(t, d, ts, op, want, k)
    PROVE  Tends(t)
<1>1. ts \in [Tasks -> TaskState] /\ d \in Session /\ Mild(d) /\ Quits(t, d)
  BY DEF Ready
<1>2. /\ Opens(t) /\ task'[t].op = op /\ task'[t].step = k
  BY <1>1, SendOpens
<1>3. /\ task'[t].want = want /\ task'[t].gen = ts[t].gen /\ task'[t].cancel = ts[t].cancel
      /\ task'[t].pc = "writing"
      /\ \A u \in Tasks \ {t} : task'[u] = ts[u]
  <2>1. task'[t] = [ts[t] EXCEPT !.pc = "writing", !.op = op, !.want = want,
                                 !.step = k, !.chunk = 1]
    BY <1>1 DEF Send
  <2>2. ts[t] \in TaskState
    BY <1>1
  <2> QED
    BY <1>1, <2>1, <2>2 DEF TaskState, Send
<1>4. Alike(d, s') /\ s'.pending.reply = NoFrame /\ s'.generation = d.generation
  BY <1>1 DEF Send, Alike, Session
<1>5. Mild(s') /\ Quits(t, s') /\ (IsOpen(s') <=> IsOpen(d))
  BY <1>1, <1>4, MildAlike
<1>6. Hushed(t)
  BY <1>3 DEF Hushed, Hush, Ready
<1>7. Asks(t)
  BY <1>2, <1>3, <1>4, <1>5 DEF Asks, Ready
<1>8. Placement(t)
  BY <1>2, <1>3, <1>4, <1>5 DEF Placement, Ready
<1> QED
  BY <1>5, <1>6, <1>7, <1>8 DEF Tends, Carries

(* A task that waits for its turn. *)
LEMMA QueuedTends ==
    ASSUME IInv, NEW t \in Tasks, NEW d, NEW ts, NEW op, NEW want, NEW k,
           Ready(t, d, ts, op, want, k), s' = d,
           task' = [ts EXCEPT ![t].pc = "queued", ![t].op = op, ![t].want = want, ![t].step = k]
    PROVE  Tends(t)
<1>1. ts \in [Tasks -> TaskState] /\ d \in Session /\ Mild(d) /\ Quits(t, d)
  BY DEF Ready
<1>2. /\ task'[t].gen = ts[t].gen /\ task'[t].cancel = ts[t].cancel /\ task'[t].op = op
      /\ task'[t].pc = "queued"
      /\ \A u \in Tasks \ {t} : task'[u] = ts[u]
  <2>1. task'[t] = [ts[t] EXCEPT !.pc = "queued", !.op = op, !.want = want, !.step = k]
    BY <1>1
  <2>2. ts[t] \in TaskState
    BY <1>1
  <2> QED
    BY <1>1, <2>1, <2>2 DEF TaskState
<1>3. Hushed(t)
  BY <1>2 DEF Hushed, Hush, Ready
<1>4. Rests(t) /\ Placement(t)
  BY <1>1, <1>2 DEF Rests, Placement, Ready, Transacting
<1> QED
  BY <1>1, <1>3, <1>4 DEF Tends, Carries

LEMMA BeginTends ==
    ASSUME IInv, NEW t \in Tasks, NEW d, NEW ts, NEW op, NEW want, NEW k,
           Ready(t, d, ts, op, want, k), Begin(t, d, ts, op, want, k)
    PROVE  Tends(t)
<1>1. CASE holder = "free" /\ Send(t, d, ts, op, want, k)
  BY <1>1, SendTends
<1>2. CASE GiveUp(t, d, ts, FALSE)
  BY <1>2, GiveUpTends DEF Ready
<1>3. CASE s' = d /\ task' = [ts EXCEPT ![t].pc = "queued", ![t].op = op, ![t].want = want,
                                        ![t].step = k]
  BY <1>3, QueuedTends
<1> QED
  BY <1>1, <1>2, <1>3 DEF Begin

LEMMA ContinueTends ==
    ASSUME IInv, NEW t \in Tasks, task[t].pc \in Transacting, NEW d, NEW ts, NEW k,
           Ready(t, d, ts, task[t].op, task[t].want, k), Continue(t, d, ts, k)
    PROVE  Tends(t)
<1>1. CASE Send(t, d, ts, task[t].op, task[t].want, k)
  <2>1. holder = t
    BY TransactingOwns
  <2> QED
    BY <1>1, <2>1, SendTends
<1>2. CASE GiveUp(t, d, ts, FALSE)
  BY <1>2, GiveUpTends DEF Ready
<1> QED
  BY <1>1, <1>2 DEF Continue

(* A step of the session that tends to what it must keeps the invariant. *)
LEMMA TendedKeeps ==
    ASSUME IInv, SInv, RInv, VInv, s' \in Session, NEW t, Classified(t), Tends(t),
           Writes(t), Hangs, dev' = dev,
           fromDev' = fromDev \/ (fromDev # <<>> /\ fromDev' = Tail(fromDev))
    PROVE  VInv'
<1>1. Apart(t, task')
  BY ClassifiedGoes DEF Goes
<1> QED
  BY <1>1, ViewCarried DEF Carried, Tends, Drops

(* Cancelling the poll cancels nothing but polls. *)
LEMMA CancelPollHushes ==
    ASSUME IInv, NEW x
    PROVE  \A u \in Tasks : CancelPoll(task, x)[u].cancel => u \in Pollers \/ task[u].cancel
<1> TAKE u \in Tasks
<1>1. s.poller \in Pollers \cup {None} /\ None \notin Tasks /\ task \in [Tasks -> TaskState]
  BY LinkTypes DEF Session
<1>2. CASE s.poller \in Tasks \ {x} /\ u = s.poller
  BY <1>1, <1>2
<1>3. CASE ~(s.poller \in Tasks \ {x} /\ u = s.poller)
  BY <1>1, <1>3 DEF CancelPoll
<1> QED
  BY <1>2, <1>3

(* Only reads are cancelled. *)
LEMMA CancelledReads ==
    ASSUME IInv, SInv, VInv, NEW t \in Tasks, task[t].pc \in Transacting, task[t].cancel
    PROVE  Request(t) \notin Mutations
<1>1. task[t].op \in {"none", "refresh_config", "refresh_telemetry", "connect"}
  BY DEF VInv, Cancelled, SInv, Stations, Stationed
<1>2. task[t].step \in 1 .. Len(Program(task[t].op))
  BY OperationOf
<1> QED
  BY <1>1, <1>2, DataAssumption DEF DataAssumption, Request, Program, Mutations

(* A request that failed: the client is poisoned, or nothing was changed for certain. *)
LEMMA FailedTends ==
    ASSUME IInv, SInv, NEW t \in Tasks, task[t].pc \in Transacting,
           NEW d, NEW cancelled \in BOOLEAN, Failed(t, d, cancelled),
           \/ d = PoisonCurrentClient(s)
           \/ d = s /\ (s.pending.reply.kind = "failed" \/ Request(t) \notin Mutations)
    PROVE  Tends(t)
<1> DEFINE o == OutcomeOf(Request(t), task[t].want)
           marked == IF Request(t) \in Mutations THEN MarkAmbiguous(d, o) ELSE d
           e == [marked EXCEPT !.pending = NoPending]
           ts == IF d.poisoned /\ ~s.poisoned THEN CancelPoll(task, t) ELSE task
<1>1. GiveUp(t, e, ts, cancelled)
  BY DEF Failed
<1>2. d \in Session /\ s \in Session
  BY LinkTypes, PoisonShut
<1>3. Request(t) \in Mutations => o \in Outcome
  BY OperationOf, OutcomeTypes
<1>4. marked \in Session /\ (Request(t) \in Mutations => o \in marked.ambiguities)
      /\ marked = [d EXCEPT !.ambiguities = marked.ambiguities]
      /\ d.ambiguities \subseteq marked.ambiguities
  BY <1>2, <1>3 DEF MarkAmbiguous, Session
<1>5. /\ e \in Session /\ e.state = d.state /\ e.generation = d.generation
      /\ e.config = d.config /\ e.telemetry = d.telemetry
      /\ d.ambiguities \subseteq e.ambiguities /\ e.pending.reply = NoFrame
      /\ (Request(t) \in Mutations => o \in e.ambiguities)
  <2> HIDE DEF marked, o
  <2>1. e \in Session
    BY <1>4, BlankTypes DEF Session
  <2>2. /\ e.state = marked.state /\ e.generation = marked.generation
        /\ e.config = marked.config /\ e.telemetry = marked.telemetry
        /\ e.ambiguities = marked.ambiguities /\ e.pending = NoPending
    BY <1>4 DEF Session
  <2>3. /\ marked.state = d.state /\ marked.generation = d.generation
        /\ marked.config = d.config /\ marked.telemetry = d.telemetry
    BY <1>2, <1>4 DEF Session
  <2> QED
    BY <1>4, <2>1, <2>2, <2>3 DEF NoPending
<1>6. ts \in [Tasks -> TaskState] /\ Hush(t, ts)
  BY LinkTypes, CancelPollKeeps, CancelPollHushes DEF Hush
<1> HIDE DEF e, ts, marked
<1>7. Mild(e) /\ Quits(t, e)
  <2>1. CASE d = PoisonCurrentClient(s)
    <3>1. Shut(e)
      BY <1>5, <2>1, PoisonShut DEF Shut
    <3> QED
      BY <3>1, MildShut
  <2>2. CASE d = s /\ (s.pending.reply.kind = "failed" \/ Request(t) \notin Mutations)
    <3>1. IsOpen(e) <=> IsOpen(s)
      BY <1>5, <2>2 DEF IsOpen
    <3>2. \A a : Doubts(s, a) => Doubts(e, a)
      BY <1>5, <2>2 DEF Doubts
    <3>3. Onwards(e) /\ e.generation >= s.generation
      BY <1>5, <2>2, LinkTypes DEF Onwards
    <3>4. Mild(e)
      BY <1>5, <2>2, <3>1, <3>2, <3>3 DEF Mild
    <3>5. ASSUME NEW a \in Aspects, Changing(a, t)
          PROVE  Doubts(e, a) /\ s.pending.reply.kind # "none"
      <4>1. Request(t) \in Of(a) /\ Request(t) \in Mutations
        BY <3>5, ChangingTransacts DEF Changing
      <4>2. o.operation \in Named(a)
        BY <4>1, AspectFacts
      <4> QED
        BY <1>5, <2>2, <4>1, <4>2 DEF Doubts
    <3> QED
      BY <3>4, <3>5 DEF Quits
  <2> QED
    BY <2>1, <2>2
<1> QED
  BY <1>1, <1>5, <1>6, <1>7, GiveUpTends

LEMMA FailuresKeepView ==
    ASSUME IInv, SInv, RInv, VInv, s' \in Session, NEW t \in Tasks,
           \/ WriteFailed(t) \/ WriteTimeout(t) \/ ReplyTimeout(t) \/ ReplyFailed(t)
           \/ UnwindWrite(t) \/ UnwindReply(t)
    PROVE  VInv'
<1>1. /\ UNCHANGED world /\ task[t].pc \in Transacting
      /\ orphans' \subseteq orphans \cup {o \in {OrphanOf(t)} : task[t].pc = "writing"}
  BY DEF WriteFailed, WriteTimeout, ReplyTimeout, ReplyFailed, UnwindWrite, UnwindReply,
         Transacting, Answered
<1>2. \E d : \E cancelled \in BOOLEAN :
         /\ Failed(t, d, cancelled)
         /\ \/ d = PoisonCurrentClient(s)
            \/ d = s /\ (s.pending.reply.kind = "failed" \/ Request(t) \notin Mutations)
  <2>1. CASE UnwindReply(t)
    BY <1>1, <2>1, CancelledReads DEF UnwindReply
  <2>2. CASE ReplyFailed(t)
    BY <2>2 DEF ReplyFailed
  <2>3. CASE WriteFailed(t) \/ WriteTimeout(t) \/ ReplyTimeout(t) \/ UnwindWrite(t)
    BY <2>3 DEF WriteFailed, WriteTimeout, ReplyTimeout, UnwindWrite
  <2> QED
    BY <2>1, <2>2, <2>3
<1>3. Tends(t)
  BY <1>1, <1>2, FailedTends
<1>4. Writes(t)
  BY <1>1, <1>2, HeardTypesOf DEF Failed, Writes
<1>5. fromDev' = fromDev /\ dev' = dev /\ Hangs
  BY <1>1, WorldHangs DEF world
<1> QED
  BY <1>3, <1>4, <1>5, FailuresKind, TendedKeeps

(* A task that was granted the slot. *)
LEMMA GrantedKeepsView ==
    ASSUME IInv, SInv, RInv, VInv, s' \in Session, NEW t \in Tasks, Granted(t)
    PROVE  VInv'
<1>1. /\ UNCHANGED <<orphans, world>> /\ task \in [Tasks -> TaskState] /\ s \in Session
      /\ task[t].pc = "queued" /\ holder = t /\ ~task[t].cancel /\ task[t].pc \notin Transacting
  BY LinkTypes DEF Granted, Transacting
<1>2. Mild(s) /\ Quits(t, s) /\ Hush(t, task)
  BY <1>1, MildSelf, AsideQuits DEF Hush
<1>3. Ready(t, s, task, task[t].op, task[t].want, task[t].step)
  <2>1. task[t].op = "connect" /\ task[t].gen = s.generation => IsOpen(s)
    BY <1>1 DEF VInv, SetupOpens, Live
  <2>2. task[t].op = "start" => task[t].step = 1
    BY <1>1 DEF RInv, Rereads
  <2> QED
    BY <1>1, <1>2, <2>1, <2>2 DEF Ready
<1>4. Tends(t) /\ Writes(t)
  <2>1. CASE Send(t, s, task, task[t].op, task[t].want, task[t].step)
    BY <1>1, <1>3, <2>1, SendTends, PlainWrites DEF Send
  <2>2. CASE GiveUp(t, s, task, FALSE) /\ native' = native
    BY <1>1, <1>2, <2>2, GiveUpTends, PlainWrites
  <2> QED
    BY <2>1, <2>2 DEF Granted
<1>5. fromDev' = fromDev /\ dev' = dev /\ Hangs
  BY <1>1, WorldHangs DEF world
<1> QED
  BY <1>4, <1>5, GrantedKind, TendedKeeps

(* A chunk of a write is done. *)
LEMMA WriteDoneKeepsView ==
    ASSUME IInv, SInv, RInv, VInv, s' \in Session, NEW t \in Tasks, WriteDone(t)
    PROVE  VInv'
<1>1. /\ UNCHANGED <<orphans, world>> /\ task \in [Tasks -> TaskState] /\ task[t] \in TaskState
      /\ task[t].pc = "writing" /\ task[t].pc \in Transacting /\ ~task[t].cancel
      /\ native[t].at = "done" /\ native \in [Tasks -> NativeWrite]
  BY LinkTypes, HeardTypesOf DEF WriteDone, Transacting
<1>2. fromDev' = fromDev /\ dev' = dev /\ Hangs
  BY <1>1, WorldHangs DEF world
<1>3. CASE Failed(t, PoisonCurrentClient(s), FALSE)
  <2>1. Tends(t)
    BY <1>1, <1>3, FailedTends
  <2>2. Writes(t)
    BY <1>1, <1>3, PlainWrites DEF Failed
  <2> QED
    BY <1>2, <2>1, <2>2, WriteDoneKind, TendedKeeps
<1>4. ASSUME s' = s, task'[t].pc \in Transacting, \A u \in Tasks \ {t} : task'[u] = task[u],
             task'[t].op = task[t].op, task'[t].step = task[t].step,
             task'[t].want = task[t].want, task'[t].gen = task[t].gen, ~task'[t].cancel,
             task'[t].chunk >= task[t].chunk,
             Sending(t)' => Request(t) \notin Mutations
      PROVE  Tends(t)
  <2>1. Keeps(t)
    BY <1>1, <1>4 DEF Keeps
  <2>2. Placement(t)
    BY <1>1, <1>4 DEF Placement, VInv, SetupOpens, Live, Transacting
  <2>3. Hushed(t)
    BY <1>4 DEF Hushed
  <2> QED
    BY <1>4, <2>1, <2>2, <2>3, MildSelf DEF Tends, Carries
<1>5. CASE /\ task[t].chunk < Chunks(Request(t)) /\ s' = s
           /\ task' = [task EXCEPT ![t].chunk = @ + 1]
           /\ native' = [native EXCEPT ![t] = [at |-> "busy", on |-> link.id]]
  <2>1. Request(t) \notin Mutations
    <3>1. task[t].chunk \in Nat /\ task[t].chunk >= 1
      BY <1>1 DEF TaskState, VInv, ChunksBegun
    <3> QED
      BY <1>5, <3>1, DataAssumption DEF DataAssumption, Chunks, Mutations
  <2>2. /\ task'[t].pc = task[t].pc /\ task'[t].op = task[t].op /\ task'[t].step = task[t].step
        /\ task'[t].want = task[t].want /\ task'[t].gen = task[t].gen
        /\ task'[t].cancel = task[t].cancel /\ \A u \in Tasks \ {t} : task'[u] = task[u]
        /\ task'[t].chunk >= task[t].chunk
    BY <1>1, <1>5 DEF TaskState
  <2>3. Tends(t)
    BY <1>1, <1>4, <1>5, <2>1, <2>2
  <2> QED
    BY <1>1, <1>2, <1>5, <2>3, PlainWrites, WriteDoneKind, TendedKeeps
<1>6. CASE /\ task' = [task EXCEPT ![t].pc = "replying"]
           /\ native' = [native EXCEPT ![t] = NoWrite] /\ s' = s
  <2>1. /\ task'[t].pc = "replying" /\ task'[t].op = task[t].op /\ task'[t].step = task[t].step
        /\ task'[t].want = task[t].want /\ task'[t].gen = task[t].gen
        /\ task'[t].cancel = task[t].cancel /\ \A u \in Tasks \ {t} : task'[u] = task[u]
        /\ task'[t].chunk >= task[t].chunk
    BY <1>1, <1>6 DEF TaskState
  <2>2. ~Sending(t)'
    BY <2>1 DEF Sending
  <2>3. Tends(t)
    BY <1>1, <1>4, <1>6, <2>1, <2>2 DEF Transacting
  <2> QED
    BY <1>1, <1>2, <1>6, <2>3, PlainWrites, WriteDoneKind, TendedKeeps
<1> QED
  BY <1>3, <1>5, <1>6 DEF WriteDone

(* A task that leaves its transaction. *)
LEMMA LeaveTends ==
    ASSUME IInv, NEW t \in Tasks, NEW d \in Session, Mild(d), Quits(t, d), Leave(t, d, task)
    PROVE  Tends(t)
<1>1. task'[t] \in {Idle, Sleeping} /\ s' = d /\ \A u \in Tasks \ {t} : task'[u] = task[u]
  BY LinkTypes DEF Leave
<1>2. task'[t].pc \notin Transacting /\ task'[t].op = "none" /\ ~task'[t].cancel
  BY <1>1 DEF Idle, Sleeping, Transacting
<1> QED
  BY <1>1, <1>2 DEF Tends, Carries, Rests, Placement, Hushed

(* What was answered is taken. *)
LEMMA TakenMild ==
    ASSUME IInv
    PROVE  /\ Taken \in Session /\ Mild(Taken) /\ Taken.state = s.state
           /\ Taken.generation = s.generation /\ Taken.ambiguities = s.ambiguities
           /\ Taken.config = s.config /\ Taken.telemetry = s.telemetry
           /\ Taken.pending.reply = NoFrame /\ (IsOpen(Taken) <=> IsOpen(s))
<1>1. /\ Taken \in Session /\ Taken.state = s.state
      /\ Taken.generation = s.generation /\ Taken.ambiguities = s.ambiguities
      /\ Taken.config = s.config /\ Taken.telemetry = s.telemetry
      /\ Taken.pending.reply = NoFrame
  BY LinkTypes, BlankTypes DEF Taken, NoPending, Session
<1>2. Alike(s, Taken)
  BY <1>1 DEF Alike
<1> QED
  BY <1>1, <1>2, MildSelf, MildAlike

(* A session that stays open and goes on showing what it showed. *)
LEMMA MildOpen ==
    ASSUME IInv, IsOpen(s), NEW d, d.generation = s.generation, d.state # "connecting",
           d.config = s.config, d.telemetry = s.telemetry, s.ambiguities \subseteq d.ambiguities,
           d.pending.reply \in {s.pending.reply, NoFrame}
    PROVE  Mild(d)
<1>1. Onwards(d) /\ d.generation >= s.generation
  BY LinkTypes DEF Onwards
<1>2. \A a : Doubts(s, a) => Doubts(d, a)
  BY DEF Doubts
<1> QED
  BY <1>1, <1>2 DEF Mild

(* Whoever only reads may stop at any time. *)
LEMMA ReadsQuit ==
    ASSUME NEW t, Request(t) \notin Mutations, NEW d
    PROVE  Quits(t, d)
  BY ChangingTransacts DEF Quits

(* The requests of connect() are reads. *)
LEMMA ConnectReads ==
    ASSUME IInv, NEW t \in Tasks, task[t].op = "connect", task[t].pc \in Transacting
    PROVE  Request(t) \notin Mutations
<1>1. task[t].step \in 1 .. Len(Program(task[t].op))
  BY OperationOf
<1> QED
  BY <1>1, DataAssumption DEF DataAssumption, Request, Program, Mutations

(* An answer to a request of connect(). *)
LEMMA SetupReplyKeepsView ==
    ASSUME IInv, SInv, RInv, VInv, s' \in Session, NEW t \in Tasks, SetupReply(t)
    PROVE  VInv'
<1> DEFINE d == IF task[t].step = 1
                THEN [Taken EXCEPT !.authenticated = TRUE, !.state = "loading"] ELSE Taken
           k == task[t].step + 1
<1>1. /\ UNCHANGED <<orphans, world>> /\ task \in [Tasks -> TaskState] /\ task[t] \in TaskState
      /\ task[t].pc = "replying" /\ task[t].pc \in Transacting /\ ~task[t].cancel
      /\ task[t].op = "connect" /\ holder = t
  BY LinkTypes, TransactingOwns DEF SetupReply, Answered, Transacting
<1>2. fromDev' = fromDev /\ dev' = dev /\ Hangs
  BY <1>1, WorldHangs DEF world
<1>3. \A e : Quits(t, e)
  BY <1>1, ReadsQuit, ConnectReads
<1>4. \/ (\E c \in BOOLEAN : GiveUp(t, Taken, task, c)) /\ native' = native
      \/ /\ Current(t)
         /\ \/ GiveUp(t, d, task, FALSE) /\ native' = native
            \/ Leave(t, [d EXCEPT !.state = "ready", !.connector = None], task) /\ native' = native
            \/ NextTransaction(t, d, task, k)
  BY DEF SetupReply
<1>5. Hush(t, task)
  BY DEF Hush
<1>6. CASE (\E c \in BOOLEAN : GiveUp(t, Taken, task, c)) /\ native' = native
  <2>1. Tends(t)
    BY <1>1, <1>3, <1>5, <1>6, TakenMild, GiveUpTends
  <2> QED
    BY <1>1, <1>2, <1>6, <2>1, PlainWrites, SetupReplyKind, TendedKeeps
<1>7. ASSUME Current(t)
      PROVE  /\ d \in Session /\ Mild(d) /\ IsOpen(d) /\ d.generation = s.generation
             /\ [d EXCEPT !.state = "ready", !.connector = None] \in Session
             /\ Mild([d EXCEPT !.state = "ready", !.connector = None])
  <2>1. IsOpen(s)
    BY <1>1, <1>7 DEF Current, VInv, SetupOpens, Live
  <2>2. /\ d \in Session /\ d.state \in {s.state, "loading"} /\ d.generation = s.generation
        /\ d.config = s.config /\ d.telemetry = s.telemetry /\ d.ambiguities = s.ambiguities
        /\ d.pending.reply = NoFrame
    BY TakenMild DEF Session, States
  <2> DEFINE e == [d EXCEPT !.state = "ready", !.connector = None]
  <2> HIDE DEF d
  <2>3. /\ e \in Session /\ e.state = "ready" /\ e.generation = s.generation
        /\ e.config = s.config /\ e.telemetry = s.telemetry /\ e.ambiguities = s.ambiguities
        /\ e.pending.reply = NoFrame
    BY <2>2 DEF Session, States
  <2> HIDE DEF e
  <2>4. Mild(d) /\ Mild(e)
    BY <2>1, <2>2, <2>3, MildOpen DEF IsOpen
  <2> QED
    BY <2>1, <2>2, <2>3, <2>4 DEF IsOpen, e
<1> HIDE DEF d
<1>8. CASE Current(t) /\ GiveUp(t, d, task, FALSE) /\ native' = native
  <2>1. Tends(t)
    BY <1>1, <1>3, <1>5, <1>7, <1>8, GiveUpTends
  <2> QED
    BY <1>1, <1>2, <1>8, <2>1, PlainWrites, SetupReplyKind, TendedKeeps
<1>9. CASE /\ Current(t) /\ native' = native
           /\ Leave(t, [d EXCEPT !.state = "ready", !.connector = None], task)
  <2>1. Tends(t)
    BY <1>1, <1>3, <1>7, <1>9, LeaveTends
  <2> QED
    BY <1>1, <1>2, <1>9, <2>1, PlainWrites, SetupReplyKind, TendedKeeps
<1>10. CASE Current(t) /\ NextTransaction(t, d, task, k)
  <2>1. Ready(t, d, task, task[t].op, task[t].want, k)
    BY <1>1, <1>3, <1>5, <1>7, <1>10 DEF Ready
  <2>2. CASE Continue(t, d, task, k)
    <3>1. Tends(t)
      BY <1>1, <2>1, <2>2, ContinueTends
    <3>2. Writes(t)
      BY <1>1, <2>2, PlainWrites DEF Continue, Send
    <3> QED
      BY <1>2, <3>1, <3>2, SetupReplyKind, TendedKeeps
  <2>3. CASE /\ s' = d /\ task' = [task EXCEPT ![t].pc = "queued", ![t].step = k]
             /\ native' = native
    <3>1. /\ task'[t].pc = "queued" /\ task'[t].gen = task[t].gen
          /\ task'[t].cancel = task[t].cancel /\ \A u \in Tasks \ {t} : task'[u] = task[u]
      BY <1>1, <2>3 DEF TaskState
    <3>2. Rests(t) /\ Placement(t) /\ Hushed(t)
      BY <1>1, <1>3, <1>7, <1>10, <2>3, <3>1 DEF Rests, Placement, Hushed, Transacting
    <3>3. Tends(t)
      BY <1>7, <1>10, <2>3, <3>2 DEF Tends, Carries
    <3> QED
      BY <1>1, <1>2, <2>3, <3>3, PlainWrites, SetupReplyKind, TendedKeeps
  <2> QED
    BY <1>10, <2>2, <2>3 DEF NextTransaction
<1> QED
  BY <1>4, <1>6, <1>8, <1>9, <1>10

(* The answer to a read of a known layout shows what was read. *)
LEMMA ReadShows ==
    ASSUME IInv, SInv, NEW t \in Tasks, task[t].pc \in Transacting,
           s.pending.reply.kind = "frame", s.pending.reply.layout
    PROVE  /\ Request(t) = "get_config" => Shows("target", s.pending.reply)
           /\ Request(t) = "get_telemetry" => Shows("output", s.pending.reply)
<1>1. s.pending.reply.op = Opcode(Request(t))
  BY DEF SInv, Answers, Matched
<1> QED
  BY <1>1 DEF Shows, Opcode

(* A confirmation dispels doubts only about what the session has just seen. *)
LEMMA ConfirmTends ==
    ASSUME IInv, SInv, VInv, NEW t \in Tasks, task[t].pc \in Transacting,
           s.pending.reply.kind = "frame", s.pending.reply.layout,
           task[t].step = Len(Program(task[t].op)), Request(t) \notin Mutations
    PROVE  Confirm(t, s.pending.reply) \in Session /\ Mild(Confirm(t, s.pending.reply))
<1> DEFINE d == Confirm(t, s.pending.reply)
<1> SUFFICES d \in Session /\ Mild(d)
  OBVIOUS
<1>1. /\ Taken \in Session /\ Mild(Taken) /\ Taken.state = s.state
      /\ Taken.generation = s.generation /\ Taken.ambiguities = s.ambiguities
      /\ Taken.config = s.config /\ Taken.telemetry = s.telemetry
      /\ Taken.pending.reply = NoFrame
  BY TakenMild
<1>2. \/ d = Taken
      \/ task[t].op \in Setters /\ d = ResolveAmbiguity(Taken, task[t].op, Nat)
      \/ task[t].op \in {"start", "stop"} /\ \E vs : d = ResolveAmbiguity(Taken, "output", vs)
  BY DEF Confirm
<1> HIDE DEF d
<1>3. ASSUME NEW operation, NEW vs, d = ResolveAmbiguity(Taken, operation, vs),
             \A a \in Aspects : IsOpen(s) /\ operation \in Named(a) => Viewed(a)
      PROVE  d \in Session /\ Mild(d)
  <2>1. /\ d \in Session /\ d.state = s.state /\ d.generation = s.generation
        /\ d.config = s.config /\ d.telemetry = s.telemetry /\ d.pending.reply = NoFrame
        /\ \A o \in s.ambiguities : o.operation # operation => o \in d.ambiguities
    BY <1>1, <1>3 DEF ResolveAmbiguity, Session
  <2>2. ASSUME NEW a \in Aspects, IsOpen(s), Doubts(s, a)
        PROVE  Doubts(d, a) \/ Viewed(a)
    BY <1>3, <2>1, <2>2 DEF Doubts
  <2>3. Onwards(d) /\ d.generation >= s.generation
    BY <2>1, LinkTypes DEF Onwards
  <2>4. IsOpen(d) <=> IsOpen(s)
    BY <2>1 DEF IsOpen
  <2> QED
    BY <2>1, <2>2, <2>3, <2>4 DEF Mild
<1>4. "output" \notin Setters
  BY DataAssumption DEF DataAssumption
<1>5. CASE task[t].op \in Setters /\ d = ResolveAmbiguity(Taken, task[t].op, Nat)
  <2>1. Request(t) = "get_config"
    BY <1>5, DataAssumption DEF DataAssumption, Request, Program
  <2>2. "target" \in Aspects /\ (IsOpen(s) => Viewed("target"))
    BY <2>1, ReadShows DEF Aspects, VInv, AnswerShown
  <2>3. \A a \in Aspects : task[t].op \in Named(a) => a = "target"
    BY <1>4, <1>5 DEF Aspects, Named
  <2>4. \A a \in Aspects : IsOpen(s) /\ task[t].op \in Named(a) => Viewed(a)
    BY <2>2, <2>3
  <2> QED
    BY <1>3, <1>5, <2>4
<1>6. CASE task[t].op \in {"start", "stop"} /\ \E vs : d = ResolveAmbiguity(Taken, "output", vs)
  <2>1. Request(t) = "get_telemetry"
    BY <1>6, DataAssumption DEF DataAssumption, Request, Program
  <2>2. "output" \in Aspects /\ (IsOpen(s) => Viewed("output"))
    BY <2>1, ReadShows DEF Aspects, VInv, AnswerShown
  <2>3. \A a \in Aspects : "output" \in Named(a) => a = "output"
    BY <1>4 DEF Aspects, Named
  <2>4. \A a \in Aspects : IsOpen(s) /\ "output" \in Named(a) => Viewed(a)
    BY <2>2, <2>3
  <2> QED
    BY <1>3, <1>6, <2>4
<1> QED
  BY <1>1, <1>2, <1>5, <1>6 DEF d

(* An answer to a request of another operation. *)
LEMMA OperationReplyKeepsView ==
    ASSUME IInv, SInv, RInv, VInv, s' \in Session, NEW t \in Tasks, OperationReply(t)
    PROVE  VInv'
<1> DEFINE r == s.pending.reply
           k == task[t].step
           acked == [task EXCEPT ![t].ack = r.ack]
           o == OutcomeOf(Request(t), task[t].want)
<1>1. /\ UNCHANGED <<orphans, world>> /\ task \in [Tasks -> TaskState] /\ task[t] \in TaskState
      /\ task[t].pc = "replying" /\ task[t].pc \in Transacting /\ ~task[t].cancel
      /\ task[t].op # "connect" /\ s \in Session /\ r.kind = "frame"
      /\ k \in 1 .. Len(Program(task[t].op))
  BY LinkTypes, OperationOf DEF OperationReply, Answered, Transacting
<1>2. fromDev' = fromDev /\ dev' = dev /\ Hangs
  BY <1>1, WorldHangs DEF world
<1>3. Hush(t, task) /\ (Request(t) \notin Mutations => \A e : Quits(t, e))
  BY ReadsQuit DEF Hush
<1>4. CASE Request(t) \in Mutations /\ Continue(t, MarkAmbiguous(Taken, o), acked, k + 1)
  <2> DEFINE d == MarkAmbiguous(Taken, o)
  <2>1. o \in Outcome
    BY <1>1, <1>4, OperationOf, OutcomeTypes
  <2>2. /\ d \in Session /\ d.generation = s.generation /\ d.config = s.config
        /\ d.telemetry = s.telemetry /\ d.state = s.state /\ d.pending.reply = NoFrame
        /\ s.ambiguities \subseteq d.ambiguities /\ o \in d.ambiguities
    BY <2>1, TakenMild DEF MarkAmbiguous, Session
  <2> HIDE DEF d
  <2>3. Mild(d)
    <3>1. CASE IsOpen(s)
      BY <2>2, <3>1, MildOpen DEF IsOpen
    <3>2. CASE ~IsOpen(s)
      BY <2>2, <3>2, LinkTypes DEF Mild, IsOpen, Onwards
    <3> QED
      BY <3>1, <3>2
  <2>4. Quits(t, d)
    <3> SUFFICES ASSUME NEW a \in Aspects, Changing(a, t)
                 PROVE  Doubts(d, a) /\ r.kind # "none"
      BY DEF Quits
    <3>1. o.operation \in Named(a)
      BY AspectFacts DEF Changing
    <3> QED
      BY <1>1, <2>2, <3>1 DEF Doubts
  <2>5. acked \in [Tasks -> TaskState] /\ Hush(t, acked) /\ ~acked[t].cancel
    <3>1. r.ack \in {OFF, ON, Unknown}
      BY <1>1 DEF Session, Pending, Frame
    <3>2. [task[t] EXCEPT !.ack = r.ack] \in TaskState
          /\ [task[t] EXCEPT !.ack = r.ack].cancel = task[t].cancel
      BY <1>1, <3>1 DEF TaskState
    <3> QED
      BY <1>1, <3>2 DEF Hush
  <2>6. ~(task[t].op = "start" /\ k + 1 \in {2, 3})
    BY <1>1, <1>4, StartProgram, DataAssumption DEF Request, Mutations, DataAssumption
  <2> HIDE DEF acked, o
  <2>7. Ready(t, d, acked, task[t].op, task[t].want, k + 1)
    BY <1>1, <2>2, <2>3, <2>4, <2>5, <2>6 DEF Ready
  <2>8. Tends(t) /\ Writes(t)
    BY <1>1, <1>4, <2>7, ContinueTends, PlainWrites DEF d, Continue, Send
  <2> QED
    BY <1>2, <2>8, OperationReplyKind, TendedKeeps
<1>5. CASE Request(t) \notin Mutations /\ GiveUp(t, Taken, task, FALSE) /\ native' = native
  <2>1. Tends(t)
    BY <1>1, <1>3, <1>5, TakenMild, GiveUpTends
  <2> QED
    BY <1>1, <1>2, <1>5, <2>1, PlainWrites, OperationReplyKind, TendedKeeps
<1>6. CASE /\ Request(t) \notin Mutations /\ r.layout /\ k = Len(Program(task[t].op))
           /\ Leave(t, Confirm(t, r), task) /\ native' = native
  <2>1. Confirm(t, r) \in Session /\ Mild(Confirm(t, r))
    BY <1>1, <1>6, ConfirmTends
  <2>2. Tends(t)
    BY <1>3, <1>6, <2>1, LeaveTends
  <2> QED
    BY <1>1, <1>2, <1>6, <2>2, PlainWrites, OperationReplyKind, TendedKeeps
<1>7. CASE /\ Request(t) \notin Mutations /\ r.layout
           /\ k = 2 => AtomicStartContext(Taken, link.up, task[t].want)
           /\ Continue(t, Taken, task, k + 1)
  <2>1. task[t].op = "start" /\ k + 1 = 2 => Shows("target", r)
    BY <1>1, <1>7, ReadShows, StartProgram DEF Request
  <2>2. k + 1 = 3 => IsOpen(s) /\ s.config.known /\ s.config.target = task[t].want
    BY <1>1, <1>7, TakenMild
       DEF AtomicStartContext, PrecheckStartContext, Readable, SafetyContext, IsOpen
  <2>3. Ready(t, Taken, task, task[t].op, task[t].want, k + 1)
    BY <1>1, <1>3, <1>7, <2>1, <2>2, TakenMild DEF Ready
  <2>4. Tends(t) /\ Writes(t)
    BY <1>1, <1>7, <2>3, ContinueTends, PlainWrites DEF Continue, Send
  <2> QED
    BY <1>2, <2>4, OperationReplyKind, TendedKeeps
<1> QED
  BY <1>4, <1>5, <1>6, <1>7 DEF OperationReply

(* Cancellations of polls and of setups that were overtaken. *)
LEMMA UnwindingsKeepView ==
    ASSUME IInv, SInv, RInv, VInv, s' \in Session, NEW t \in Tasks,
           UnwindQueued(t) \/ UnwindSleep(t) \/ UnwindSetup(t)
    PROVE  VInv'
<1>1. /\ task \in [Tasks -> TaskState] /\ s \in Session /\ Hush(t, task) /\ Mild(s)
      /\ task[t].pc \notin Transacting /\ Quits(t, s)
  BY LinkTypes, MildSelf, AsideQuits DEF Hush, UnwindQueued, UnwindSleep, UnwindSetup, Transacting
<1>2. /\ fromDev' = fromDev /\ dev' = dev /\ Writes(t)
  BY PlainWrites DEF UnwindQueued, UnwindSleep, UnwindSetup, world, air
<1>3. Hangs
  <2>1. CASE UNCHANGED world
    BY <2>1, WorldHangs
  <2>2. CASE UnwindSetup(t)
    BY <2>2 DEF UnwindSetup, Hangs, air, IInv, TypeOK
  <2> QED
    BY <2>1, <2>2 DEF UnwindQueued, UnwindSleep
<1>4. Tends(t)
  <2>1. CASE UnwindQueued(t) \/ UnwindSetup(t)
    BY <1>1, <2>1, GiveUpTends DEF UnwindQueued, UnwindSetup
  <2>2. CASE UnwindSleep(t)
    <3>1. s' = s /\ task'[t] = Idle /\ \A u \in Tasks \ {t} : task'[u] = task[u]
      BY <1>1, <2>2 DEF UnwindSleep
    <3>2. task'[t].pc \notin Transacting /\ task'[t].op = "none" /\ ~task'[t].cancel
      BY <3>1 DEF Idle, Transacting
    <3> QED
      BY <1>1, <3>1, <3>2 DEF Tends, Carries, Rests, Placement, Hushed
  <2> QED
    BY <2>1, <2>2
<1> QED
  BY <1>2, <1>3, <1>4, CancellationsKind, TendedKeeps

(* A method or a poll that enters the serializer. *)
LEMMA EntersTends ==
    ASSUME IInv, NEW t \in Tasks, task[t].pc \notin Transacting,
           NEW d \in Session, Alike(s, d), NEW ts \in [Tasks -> TaskState],
           \A u \in Tasks : ts[u].cancel => task[u].cancel,
           task[t].cancel => t \in Pollers,
           NEW op, op # "connect", NEW want, Begin(t, d, ts, op, want, 1)
    PROVE  Tends(t)
<1>1. Mild(d) /\ Quits(t, d)
  BY MildSelf, MildAlike, AsideQuits
<1>2. Ready(t, d, ts, op, want, 1)
  BY <1>1 DEF Ready, Hush
<1> QED
  BY <1>2, BeginTends

LEMMA BeginWrites ==
    ASSUME IInv, NEW t \in Tasks, NEW d, NEW ts, NEW op, NEW want, NEW k,
           Begin(t, d, ts, op, want, k), orphans' = orphans
    PROVE  Writes(t)
<1>1. native' \in {native, [native EXCEPT ![t] = [at |-> "busy", on |-> link.id]]}
  BY DEF Begin, Send
<1> QED
  BY <1>1, PlainWrites

(* A caller that calls is not cancelled. *)
LEMMA CallerWanted ==
    ASSUME IInv, SInv, VInv, NEW t \in Tasks, NEW op, Calling(t, op)
    PROVE  /\ task[t].pc \notin Transacting /\ ~task[t].cancel /\ t \notin Pollers
           /\ task[t].op = "none" /\ task \in [Tasks -> TaskState] /\ s \in Session
<1>1. task[t].op = "none" /\ task[t].pc \notin Transacting /\ t \notin Pollers
  BY CallerIdle
<1> QED
  BY <1>1, LinkTypes DEF VInv, Cancelled

LEMMA CallRequestKeepsView ==
    ASSUME IInv, SInv, RInv, VInv, s' \in Session, NEW t \in Tasks,
           \/ \E op \in {"refresh_config", "refresh_telemetry"} : CallRead(t, op)
           \/ \E op \in Setters, v \in Levels : CallSetter(t, op, v)
           \/ \E confirmed \in Confirmed : CallStart(t, confirmed)
    PROVE  VInv'
<1>1. PICK op \in Setters \cup {"start", "refresh_config", "refresh_telemetry"},
           want \in Targets : Requested(t, op, want)
  BY RequestCalled
<1>2. /\ task[t].pc \notin Transacting /\ ~task[t].cancel /\ op # "connect"
      /\ task \in [Tasks -> TaskState] /\ s \in Session
  BY <1>1, CallerWanted, DataAssumption DEF Requested, DataAssumption
<1>3. Alike(s, s)
  BY DEF Alike
<1>4. Tends(t) /\ Writes(t)
  BY <1>1, <1>2, <1>3, EntersTends, BeginWrites DEF Requested
<1>5. fromDev' = fromDev /\ dev' = dev /\ Hangs
  BY <1>1, WorldHangs DEF Requested, world
<1> QED
  BY <1>4, <1>5, CallRequestKind, TendedKeeps

(* The poll is cancelled, and its end awaited. *)
LEMMA QuietingTends ==
    ASSUME IInv, NEW t \in Tasks, task[t].pc \notin Transacting,
           NEW op, op # "connect", NEW d, Mild(d), NEW joins, Quieting(t, op, d, joins)
    PROVE  Tends(t)
<1>1. CancelPoll(task, t) \in [Tasks -> TaskState]
  BY LinkTypes, CancelPollKeeps
<1>2. /\ s' = d /\ task'[t] = [Idle EXCEPT !.op = op, !.pc = "quieting",
                                          !.awaits = s.poller, !.joins = joins]
      /\ \A u \in Tasks \ {t} : task'[u] = CancelPoll(task, t)[u]
  BY <1>1 DEF Quieting
<1>3. task'[t].op = op /\ task'[t].pc \notin Transacting /\ ~task'[t].cancel
  BY <1>2 DEF Idle, Transacting
<1>4. Hushed(t)
  BY <1>2, <1>3, CancelPollHushes DEF Hushed
<1>5. Rests(t) /\ Placement(t)
  BY <1>3, AsideQuits DEF Rests, Placement
<1> QED
  BY <1>2, <1>4, <1>5 DEF Tends, Carries

LEMMA CallStopKeepsView ==
    ASSUME IInv, SInv, RInv, VInv, s' \in Session, NEW t \in Tasks,
           CallStop(t) \/ CallStopPolling(t)
    PROVE  VInv'
<1>1. /\ task[t].pc \notin Transacting /\ ~task[t].cancel /\ task \in [Tasks -> TaskState]
      /\ s \in Session /\ UNCHANGED <<orphans, world>>
  BY CallerWanted DEF CallStop, CallStopPolling
<1>2. PollingOff \in Session /\ Alike(s, PollingOff) /\ Mild(PollingOff)
  <2>1. PollingOff \in Session /\ Alike(s, PollingOff)
    BY <1>1 DEF PollingOff, Alike, Session
  <2> QED
    BY <2>1, MildSelf, MildAlike
<1>3. CASE \E op \in {"stop", "stop_polling"} : Quieting(t, op, PollingOff, None)
  <2>1. Tends(t)
    BY <1>1, <1>2, <1>3, QuietingTends
  <2>2. native' = native
    BY <1>3 DEF Quieting
  <2> QED
    BY <1>1, <2>1, <2>2, WorldHangs, PlainWrites, CallStopKind, TendedKeeps DEF world
<1>4. CASE Begin(t, PollingOff, task, "stop", NoTarget, 1)
  <2>1. Tends(t) /\ Writes(t)
    BY <1>1, <1>2, <1>4, EntersTends, BeginWrites
  <2> QED
    BY <1>1, <2>1, WorldHangs, CallStopKind, TendedKeeps DEF world
<1> QED
  BY <1>3, <1>4 DEF CallStop, CallStopPolling

LEMMA CallStartPollingKeepsView ==
    ASSUME IInv, SInv, RInv, VInv, s' \in Session, NEW t \in Tasks, CallStartPolling(t)
    PROVE  VInv'
<1>1. /\ s \in Session /\ task \in [Tasks -> TaskState] /\ None \notin Tasks
      /\ UNCHANGED <<native, orphans, world>>
  BY LinkTypes DEF CallStartPolling
<1>2. PICK p \in Tasks \cup {None} : Classified(p) /\ (p \in Tasks => task'[p].op = "none")
  BY CallStartPollingKind DEF PollMoves
<1>3. Mild(s')
  <2>1. Alike(s, s')
    BY <1>1 DEF CallStartPolling, Alike, Session
  <2> QED
    BY <2>1, MildSelf, MildAlike
<1>4. \A u \in Tasks : \/ task'[u] = task[u]
                       \/ task'[u] = Sleeping /\ task[u].pc = "idle"
  BY <1>1 DEF CallStartPolling
<1>5. Hushed(p)
  BY <1>2, <1>4 DEF Hushed, Sleeping, Idle, VInv, Cancelled
<1>6. p \in Tasks => Rests(p) /\ Placement(p)
  <2> SUFFICES ASSUME p \in Tasks
               PROVE  Rests(p) /\ Placement(p)
    OBVIOUS
  <2>1. task[p].pc \notin Transacting /\ task'[p].pc \notin Transacting
    <3>1. CASE task'[p] = Sleeping /\ task[p].pc = "idle"
      BY <3>1 DEF Sleeping, Idle, Transacting
    <3>2. CASE task'[p] = task[p]
      <4>1. task[p].op = "none"
        BY <1>2, <3>2
      <4>2. Len(Program("none")) = 0
        BY DataAssumption DEF DataAssumption, Program
      <4> QED
        BY <3>2, <4>1, <4>2, OperationOf
    <3> QED
      BY <1>4, <3>1, <3>2
  <2> QED
    BY <1>2, <2>1, AsideQuits DEF Rests, Placement
<1>7. Writes(p) /\ Hangs
  BY <1>1, WorldHangs DEF Writes
<1> QED
  BY <1>1, <1>2, <1>3, <1>5, <1>6, <1>7, TendedKeeps DEF Tends, Carries, world

LEMMA PollWakeKeepsView ==
    ASSUME IInv, SInv, RInv, VInv, s' \in Session, NEW t \in Tasks, PollWake(t)
    PROVE  VInv'
<1>1. /\ s \in Session /\ task \in [Tasks -> TaskState] /\ ~task[t].cancel
      /\ task[t].pc \notin Transacting /\ UNCHANGED <<orphans, world>>
  BY LinkTypes DEF PollWake, Transacting
<1>2. CASE s' = s /\ task' = [task EXCEPT ![t] = Idle] /\ native' = native
  <2>1. task'[t] = Idle /\ \A u \in Tasks \ {t} : task'[u] = task[u]
    BY <1>1, <1>2
  <2>2. task'[t].pc \notin Transacting /\ task'[t].op = "none" /\ ~task'[t].cancel
    BY <2>1 DEF Idle, Transacting
  <2>3. Tends(t)
    BY <1>1, <1>2, <2>1, <2>2, MildSelf, AsideQuits
       DEF Tends, Carries, Rests, Placement, Hushed
  <2> QED
    BY <1>1, <1>2, <2>3, WorldHangs, PlainWrites, PollWakeKind, TendedKeeps DEF world
<1>3. ASSUME NEW op \in {"refresh_config", "refresh_telemetry"}, Begin(t, s, task, op, NoTarget, 1)
      PROVE  VInv'
  <2>1. Alike(s, s)
    BY DEF Alike
  <2>2. Tends(t) /\ Writes(t)
    BY <1>1, <1>3, <2>1, EntersTends, BeginWrites
  <2> QED
    BY <1>1, <2>2, WorldHangs, PollWakeKind, TendedKeeps DEF world
<1> QED
  BY <1>2, <1>3 DEF PollWake

-----------------------------------------------------------------------------
(* connect() and disconnect(). *)

(* A task that is at none of the places of a request, before or after. *)
LEMMA RestingTends ==
    ASSUME NEW t, Mild(s'), Quits(t, s'), task'[t].pc \notin Transacting, Placement(t), Hushed(t)
    PROVE  Tends(t)
  BY DEF Tends, Carries, Rests

(* A setup starts: it is of a newer generation than any session before. *)
LEMMA CallConnectKeepsView ==
    ASSUME IInv, SInv, RInv, VInv, s' \in Session, NEW t \in Tasks, CallConnect(t)
    PROVE  VInv'
<1> DEFINE n == [s EXCEPT !.generation = @ + 1]
           d == ForgetConnection(n)
           started == [d EXCEPT !.poisoned = FALSE, !.connector = t, !.state = "connecting"]
           i == Idle
           q == [i EXCEPT !.op = "connect", !.pc = "linking", !.gen = d.generation]
           ts == [task EXCEPT ![t] = q]
<1>1. /\ task \in [Tasks -> TaskState] /\ s \in Session /\ s.generation \in Nat
      /\ ~task[t].cancel /\ task[t].pc \notin Transacting /\ task[t].op = "none"
      /\ s.state \in {"disconnected", "error"}
  BY CallerWanted, LinkTypes DEF CallConnect
<1>2. Writes(t) /\ Hangs /\ fromDev' = fromDev /\ dev' = dev
  BY PlainWrites DEF CallConnect, Hangs, air, IInv, TypeOK
<1>3. /\ d \in Session /\ d.generation > s.generation /\ d.generation \in Nat
      /\ d.state = s.state /\ ~d.config.known /\ ~d.telemetry.known
  <2>1. n \in Session /\ n.generation > s.generation /\ n.state = s.state
    BY NextGeneration
  <2> HIDE DEF n
  <2>2. d \in Session /\ d.generation = n.generation /\ d.state = n.state
    BY <2>1, ForgetLeaves
  <2>3. ~d.config.known /\ ~d.telemetry.known
    BY <2>1 DEF ForgetConnection, ResetConnectionData, NoConfig, NoTelemetry, Session
  <2> QED
    BY <2>1, <2>2, <2>3 DEF Session
<1> HIDE DEF d
<1>4. i \in TaskState /\ i.cancel = FALSE
  BY IdleTypes DEF Idle
<1> HIDE DEF i
<1>5. q \in TaskState /\ q.pc = "linking" /\ q.op = "connect" /\ q.gen = d.generation
      /\ q.cancel = FALSE
  BY <1>3, <1>4 DEF TaskState, Places, AllOperations
<1> HIDE DEF q
<1>6. ts \in [Tasks -> TaskState] /\ ts[t] = q /\ \A u \in Tasks \ {t} : ts[u] = task[u]
  BY <1>1, <1>5
<1>7. /\ started \in Session /\ started.state = "connecting"
      /\ started.generation = d.generation
      /\ ~started.config.known /\ ~started.telemetry.known
  <2>1. t \in Tasks /\ "connecting" \in States
    BY DEF States
  <2> QED
    BY <1>3, <2>1 DEF Session
<1> HIDE DEF ts, started
<1>8. Mild(started) /\ \A e : Quits(t, e)
  BY <1>1, <1>3, <1>7, AsideQuits DEF Mild, IsOpen
<1>9. CASE s' = d /\ UNCHANGED task
  <2>1. Shut(s')
    BY <1>1, <1>3, <1>9 DEF Shut
  <2>2. Placement(t) /\ Hushed(t)
    BY <1>1, <1>9 DEF Placement, Hushed
  <2>3. Tends(t)
    BY <1>1, <1>9, <2>1, <2>2, MildShut, RestingTends
  <2> QED
    BY <1>2, <2>3, CallConnectKind, TendedKeeps
<1>10. CASE ConnectUnwind(t, started, ts, TRUE, FALSE)
  <2>1. Hush(t, ts)
    BY <1>6 DEF Hush
  <2>2. Tends(t)
    BY <1>6, <1>7, <1>8, <1>10, <2>1, GiveUpTends
  <2> QED
    BY <1>2, <2>2, CallConnectKind, TendedKeeps
<1>11. CASE s' = started /\ task' = ts
  <2>1. task'[t].pc \notin Transacting /\ Placement(t) /\ Hushed(t)
    BY <1>5, <1>6, <1>7, <1>11 DEF Placement, Hushed, Transacting
  <2>2. Tends(t)
    BY <1>8, <1>11, <2>1, RestingTends
  <2> QED
    BY <1>2, <2>2, CallConnectKind, TendedKeeps
<1> QED
  BY <1>9, <1>10, <1>11 DEF CallConnect, n, d, started, i, q, ts

(* The steps of a setup before its first request. *)
LEMMA SetupStepsKeepView ==
    ASSUME IInv, SInv, RInv, VInv, s' \in Session, NEW t \in Tasks,
           LinkFails(t) \/ Discovered(t) \/ Subscribed(t) \/ Settled(t)
    PROVE  VInv'
<1>1. /\ Classified(t) /\ task[t].op = "connect" /\ task[t].pc \notin Transacting
      /\ s \in Session /\ task \in [Tasks -> TaskState] /\ task[t] \in TaskState
      /\ ~task[t].cancel
  BY LinkFailsKind, DiscoveredKind, SettledKind, SettingUp
     DEF LinkFails, Discovered, Subscribed, Settled
<1>2. /\ orphans' = orphans /\ fromDev' = fromDev /\ dev' = dev /\ Hangs
  <2>1. CASE LinkFails(t) \/ Subscribed(t)
    BY <2>1 DEF LinkFails, Subscribed, Hangs, air, IInv, TypeOK
  <2>2. CASE Discovered(t) \/ Settled(t)
    BY <2>2, WorldHangs DEF Discovered, Settled, world
  <2> QED
    BY <2>1, <2>2
<1>3. Mild(s) /\ Hush(t, task) /\ \A e : Quits(t, e)
  BY <1>1, MildSelf, AsideQuits DEF Hush
<1>4. CASE Settled(t) /\ Current(t)
  <2> DEFINE d == [s EXCEPT !.state = "authenticating"]
  <2>1. Begin(t, d, task, "connect", NoTarget, 1)
    BY <1>4 DEF Settled
  <2>2. /\ d \in Session /\ d.state = "authenticating" /\ d.generation = s.generation
        /\ d.config = s.config /\ d.telemetry = s.telemetry /\ d.ambiguities = s.ambiguities
        /\ d.pending = s.pending
    BY <1>1 DEF Session, States
  <2>3. IsOpen(s)
    BY <1>1, <1>4 DEF Settled, Current, VInv, SetupOpens, Live
  <2> HIDE DEF d
  <2>4. Mild(d) /\ IsOpen(d)
    BY <2>2, <2>3, MildOpen DEF IsOpen
  <2>5. Ready(t, d, task, "connect", NoTarget, 1)
    BY <1>1, <1>3, <2>2, <2>4 DEF Ready
  <2>6. Tends(t) /\ Writes(t)
    BY <1>2, <2>1, <2>5, BeginTends, BeginWrites
  <2> QED
    BY <1>1, <1>2, <2>6, TendedKeeps
<1>5. CASE \E up : \E cancelled \in BOOLEAN :
               ConnectUnwind(t, s, task, up, cancelled) /\ native' = native
  <2>1. Tends(t)
    BY <1>1, <1>3, <1>5, GiveUpTends
  <2> QED
    BY <1>1, <1>2, <1>5, <2>1, PlainWrites, TendedKeeps
<1>6. ASSUME Current(t), NEW x \in {"subscribing", "settling"}, Alike(s, s'),
             task[t].pc \in {"discovering", "subscribing"},
             task' = [task EXCEPT ![t].pc = x], native' = native
      PROVE  VInv'
  <2>1. /\ task'[t].pc = x /\ task'[t].gen = task[t].gen /\ ~task'[t].cancel
        /\ \A u \in Tasks \ {t} : task'[u] = task[u]
    BY <1>1, <1>6 DEF TaskState
  <2>2. Mild(s') /\ IsOpen(s')
    <3>1. IsOpen(s)
      BY <1>1, <1>6 DEF Current, VInv, SetupOpens, Live
    <3> QED
      BY <1>3, <1>6, <3>1, MildAlike
  <2>3. Placement(t) /\ Hushed(t) /\ task'[t].pc \notin Transacting
    BY <1>6, <2>1, <2>2 DEF Placement, Hushed, Transacting
  <2>4. Tends(t)
    BY <1>3, <2>2, <2>3, RestingTends
  <2> QED
    BY <1>1, <1>2, <1>6, <2>4, PlainWrites, TendedKeeps
<1>7. CASE Discovered(t)
  <2>1. s' = [s EXCEPT !.topology = TRUE] => Alike(s, s')
    BY <1>1 DEF Alike, Session
  <2> QED
    BY <1>5, <1>6, <1>7, <2>1, LinkTypes DEF Discovered
<1>8. CASE Subscribed(t)
  <2>1. s' = s => Alike(s, s')
    BY DEF Alike
  <2> QED
    BY <1>5, <1>6, <1>8, <2>1, LinkTypes DEF Subscribed
<1> QED
  BY <1>4, <1>5, <1>7, <1>8 DEF LinkFails, Settled

(* A cleanup is over. *)
LEMMA CleanedKeepsView ==
    ASSUME IInv, SInv, RInv, VInv, s' \in Session, NEW t \in Tasks, Cleaned(t)
    PROVE  VInv'
<1> DEFINE d == [s EXCEPT !.expected = FALSE]
<1>1. /\ Classified(t) /\ task \in [Tasks -> TaskState] /\ s \in Session
      /\ task[t].pc \notin Transacting /\ task[t].op = "connect" /\ t \notin Pollers
  BY CleanedKind, SettingUp DEF Cleaned
<1>2. /\ orphans' = orphans /\ native' = native /\ fromDev' = fromDev /\ dev' = dev /\ Hangs
  BY HeardTypesOf DEF Cleaned, HangUpOrStick, HangUp, Hangs, IInv, TypeOK
<1>3. task'[t].pc = "idle" /\ task'[t].op = "none" /\ ~task'[t].cancel
      /\ \A u \in Tasks \ {t} : task'[u] = task[u]
  BY <1>1 DEF Cleaned, Idle
<1>4. /\ d \in Session /\ d.generation = s.generation /\ d.state = s.state /\ d.config = s.config
  BY <1>1 DEF Session
<1> HIDE DEF d
<1>5. Mild(s')
  <2>1. CASE task[t].cancel /\ s' = [ForgetConnection(FailPending(d)) EXCEPT !.connector = None]
    <3> DEFINE p == FailPending(d)
    <3>1. p \in Session /\ p.generation = d.generation /\ p.state = d.state
      BY <1>4, FailPendingLeaves
    <3> HIDE DEF p
    <3>2. /\ s'.generation = s.generation /\ s'.state = s.state
          /\ ~s'.config.known /\ ~s'.telemetry.known
      BY <1>4, <2>1, <3>1
         DEF p, ForgetConnection, ResetConnectionData, NoConfig, NoTelemetry, Session
    <3>3. ~IsOpen(s)
      <4>1. task[t].gen < s.generation /\ task[t].gen \in Nat /\ s.generation \in Nat
        BY <1>1, <2>1, HeardTypesOf DEF VInv, Cancelled
      <4> QED
        BY <1>1, <4>1 DEF VInv, OpenCurrent
    <3> QED
      BY <3>2, <3>3, HeardTypesOf DEF Mild, IsOpen, Onwards
  <2>2. ASSUME NEW up, NEW cancelled \in BOOLEAN, s' = ConnectEnded(d, up, cancelled)
        PROVE  Shut(s')
    BY <1>1, <1>4, <2>2, ConnectEndedLeaves, LinkTypes DEF Shut
  <2> QED
    BY <2>1, <2>2, MildShut DEF Cleaned, d
<1>6. Tends(t)
  BY <1>1, <1>3, <1>5, AsideQuits, RestingTends DEF Placement, Hushed, Transacting
<1> QED
  BY <1>1, <1>2, <1>6, PlainWrites, TendedKeeps

(* A disconnect() that goes on: its session is shut, and only setups that were overtaken
   are cancelled. *)
LEMMA AfterJoinTends ==
    ASSUME IInv, NEW t \in Tasks, NEW d \in Session, Mild(d), Quits(t, d),
           NEW ts \in [Tasks -> TaskState], Hush(t, ts),
           ts[t].op = "disconnect", ~ts[t].cancel, AfterJoin(t, d, ts)
    PROVE  Tends(t)
<1>1. ts[t] \in TaskState
  OBVIOUS
<1>2. task'[t].op # "connect" /\ ~task'[t].cancel /\ \A u \in Tasks \ {t} : task'[u] = ts[u]
  <2>1. CASE task' = [ts EXCEPT ![t].pc = "tearing"]
    BY <1>1, <2>1 DEF TaskState
  <2>2. CASE task' = [ts EXCEPT ![t] = Idle]
    BY <2>2 DEF Idle
  <2>3. ASSUME NEW x \in Places, task' = [ts EXCEPT ![t].gen = link.id, ![t].pc = x]
        PROVE  task'[t].op # "connect" /\ ~task'[t].cancel /\ \A u \in Tasks \ {t} : task'[u] = ts[u]
    <3>1. task'[t] = [ts[t] EXCEPT !.gen = link.id, !.pc = x]
      BY <2>3
    <3>2. task'[t].op = ts[t].op /\ task'[t].cancel = ts[t].cancel
      BY <1>1, <3>1 DEF TaskState
    <3> QED
      BY <2>3, <3>2
  <2> QED
    BY <2>1, <2>2, <2>3 DEF AfterJoin, HangingUp, Places
<1>3. task'[t].pc \notin Transacting
  BY AfterJoinEnters DEF Transacting
<1>4. Mild(s') /\ Quits(t, s')
  <2>1. CASE s' = d
    BY <2>1
  <2>2. CASE s' = [d EXCEPT !.expected = TRUE]
    <3>1. Alike(d, s')
      BY <2>2 DEF Alike, Session
    <3> QED
      BY <3>1, MildAlike
  <2>3. CASE s' = DisconnectEnded(d, FALSE)
    <3>1. Shut(s')
      BY <2>3, DisconnectEndedLeaves DEF Shut, Mild
    <3> QED
      BY <3>1, MildShut
  <2> QED
    BY <2>1, <2>2, <2>3 DEF AfterJoin, HangingUp
<1> QED
  BY <1>2, <1>3, <1>4, RestingTends DEF Placement, Hushed, Hush

LEMMA AfterQuietTends ==
    ASSUME IInv, NEW t \in Tasks, task[t].op # "connect",
           NEW d \in Session, Mild(d), Quits(t, d),
           \A u \in Tasks : task[u].op = "connect" => task[u].gen < d.generation,
           NEW ts, Apart(t, ts), Hush(t, ts),
           ts[t].op = "disconnect", ~ts[t].cancel, AfterQuiet(t, d, ts)
    PROVE  Tends(t)
<1> DEFINE c == ts[t].joins
           js == [ts EXCEPT ![t].pc = "joining"]
           ns == [ts EXCEPT ![t].joins = None]
<1>1. ts \in [Tasks -> TaskState] /\ ts[t] \in TaskState
  BY DEF Apart
<1>2. CASE s' = d /\ task' = [ts EXCEPT ![t].pc = "tearing"]
  <2>1. /\ task'[t].pc = "tearing" /\ task'[t].op = ts[t].op /\ task'[t].cancel = ts[t].cancel
        /\ \A u \in Tasks \ {t} : task'[u] = ts[u]
    BY <1>1, <1>2 DEF TaskState
  <2> QED
    BY <1>2, <2>1, RestingTends DEF Placement, Hushed, Hush, Transacting
<1>3. CASE c # None /\ task[c].op = "connect" /\ s' = d /\ CancelTask(js, c)
  <2>1. /\ js[t].pc = "joining" /\ js[t].op = ts[t].op /\ js[t].cancel = ts[t].cancel
        /\ js \in [Tasks -> TaskState] /\ \A u \in Tasks \ {t} : js[u] = ts[u]
    <3>1. /\ [ts[t] EXCEPT !.pc = "joining"] \in TaskState
          /\ [ts[t] EXCEPT !.pc = "joining"].pc = "joining"
          /\ [ts[t] EXCEPT !.pc = "joining"].op = ts[t].op
          /\ [ts[t] EXCEPT !.pc = "joining"].cancel = ts[t].cancel
      BY <1>1 DEF TaskState, Places
    <3> QED
      BY <1>1, <3>1
  <2>2. c \in Tasks \ {t} /\ ts[c].op = "connect" /\ ts[c].gen = task[c].gen /\ task[c].gen < d.generation
    BY <1>1, <1>3 DEF TaskState, Apart
  <2>3. task' = [js EXCEPT ![c].cancel = TRUE]
    BY <1>3 DEF CancelTask
  <2> HIDE DEF js, c
  <2>4. /\ \A u \in Tasks \ {c} : task'[u] = js[u]
        /\ task'[c].op = js[c].op /\ task'[c].gen = js[c].gen
    <3>1. task'[c] = [js[c] EXCEPT !.cancel = TRUE] /\ js[c] \in TaskState
      BY <2>1, <2>2, <2>3
    <3> QED
      BY <2>1, <2>3, <3>1 DEF TaskState
  <2>5. Hushed(t)
    BY <1>3, <2>1, <2>2, <2>4 DEF Hushed, Hush
  <2> QED
    BY <1>3, <2>1, <2>2, <2>4, <2>5, RestingTends DEF Placement, Transacting
<1>4. CASE AfterJoin(t, d, ns)
  <2>1. ns \in [Tasks -> TaskState] /\ ns[t].op = ts[t].op /\ ns[t].cancel = ts[t].cancel
        /\ \A u \in Tasks \ {t} : ns[u] = ts[u]
    <3>1. /\ [ts[t] EXCEPT !.joins = None] \in TaskState
          /\ [ts[t] EXCEPT !.joins = None].op = ts[t].op
          /\ [ts[t] EXCEPT !.joins = None].cancel = ts[t].cancel
      BY <1>1 DEF TaskState
    <3> QED
      BY <1>1, <3>1
  <2> HIDE DEF ns
  <2>2. Hush(t, ns)
    BY <2>1 DEF Hush
  <2> QED
    BY <1>4, <2>1, <2>2, AfterJoinTends
<1> QED
  BY <1>2, <1>3, <1>4 DEF AfterQuiet

LEMMA CallDisconnectKeepsView ==
    ASSUME IInv, SInv, RInv, VInv, s' \in Session, NEW t \in Tasks, CallDisconnect(t)
    PROVE  VInv'
<1> DEFINE left == [s EXCEPT !.generation = @ + 1]
           d == [left EXCEPT !.state = "disconnecting", !.polling = FALSE, !.poller = None]
           i == Idle
           r == [i EXCEPT !.op = "disconnect", !.joins = s.connector]
           ts == [task EXCEPT ![t] = r]
<1>1. /\ Classified(t) /\ native' = native /\ orphans' = orphans
      /\ fromDev' = fromDev /\ dev' = dev /\ Hangs
      /\ task \in [Tasks -> TaskState] /\ s.connector \in Tasks \cup {None}
      /\ task[t].op = "none" /\ task[t].pc \notin Transacting /\ ~task[t].cancel
  BY CallDisconnectKind, WorldHangs, LinkTypes, CallerWanted
     DEF CallDisconnect, Quieting, world, Session
<1>2. left \in Session /\ left.generation = s.generation + 1 /\ left.state = s.state
      /\ s.generation \in Nat
  BY NextGeneration, LinkTypes
<1>3. CASE s.state = "disconnected" /\ s' = ForgetConnection(left) /\ UNCHANGED task
  <2> HIDE DEF left
  <2>1. Shut(s')
    BY <1>2, <1>3, ForgetLeaves DEF Shut
  <2>2. Tends(t)
    BY <1>1, <1>3, <2>1, MildShut, RestingTends DEF Placement, Hushed
  <2> QED
    BY <1>1, <2>2, PlainWrites, TendedKeeps
<1>4. d \in Session /\ d.generation = s.generation + 1 /\ d.state = "disconnecting"
  <2> HIDE DEF left
  <2> QED
    BY <1>2 DEF Session, States
<1> HIDE DEF d
<1>5. Mild(d) /\ Quits(t, d)
  <2>1. Shut(d)
    BY <1>2, <1>4 DEF Shut
  <2> QED
    BY <2>1, MildShut
<1>6. CASE Quieting(t, "disconnect", d, s.connector)
  <2>1. Tends(t)
    BY <1>1, <1>5, <1>6, QuietingTends
  <2> QED
    BY <1>1, <2>1, PlainWrites, TendedKeeps
<1>7. CASE AfterQuiet(t, d, ts)
  <2>1. i \in TaskState /\ i.cancel = FALSE
    BY IdleTypes DEF Idle
  <2> HIDE DEF i
  <2>2. r \in TaskState /\ r.op = "disconnect" /\ ~r.cancel
    BY <1>1, <2>1 DEF TaskState, AllOperations
  <2> HIDE DEF r
  <2>3. /\ ts \in [Tasks -> TaskState] /\ ts[t] = r /\ \A u \in Tasks \ {t} : ts[u] = task[u]
    BY <1>1, <2>2
  <2> HIDE DEF ts
  <2>4. Apart(t, ts) /\ Hush(t, ts)
    BY <2>3 DEF Apart, Hush
  <2>5. \A u \in Tasks : task[u].op = "connect" => task[u].gen < d.generation
    BY <1>2, <1>4, HeardTypesOf DEF IInv, SetupIsCurrent
  <2>6. Tends(t)
    BY <1>1, <1>4, <1>5, <1>7, <2>2, <2>3, <2>4, <2>5, AfterQuietTends
  <2> QED
    BY <1>1, <2>6, PlainWrites, TendedKeeps
<1> QED
  BY <1>3, <1>6, <1>7 DEF CallDisconnect, left, d, i, r, ts

LEMMA DisconnectStepsKeepView ==
    ASSUME IInv, SInv, RInv, VInv, s' \in Session, NEW t \in Tasks,
           Quieted(t) \/ TornDown(t) \/ Joined(t) \/ Unsubscribed(t) \/ HungUp(t)
    PROVE  VInv'
<1>1. /\ Classified(t) /\ orphans' = orphans /\ task \in [Tasks -> TaskState]
      /\ task[t] \in TaskState /\ task[t].op # "connect" /\ task[t].pc \notin Transacting
      /\ s \in Session /\ (~Quieted(t) => task[t].op = "disconnect")
  <2>1. Classified(t)
    BY QuietedKind, DisconnectStepsKind
  <2>2. task[t].op # "connect" /\ (~Quieted(t) => task[t].op = "disconnect")
    BY DEF Quieted, TornDown, Joined, Unsubscribed, HungUp, SInv, Stations, Stationed
  <2>3. task[t].pc \notin Transacting
    BY DEF Quieted, TornDown, Joined, Unsubscribed, HungUp, Transacting
  <2> QED
    BY <2>1, <2>2, <2>3, LinkTypes DEF Quieted, TornDown, Joined, Unsubscribed, HungUp
<1>2. ~task[t].cancel
  <2>1. t \notin Pollers
    BY <1>1 DEF Quieted, SInv, Stations, Stationed
  <2> QED
    BY <1>1, <2>1 DEF VInv, Cancelled
<1>3. fromDev' = fromDev /\ dev' = dev /\ Hangs
  <2>1. CASE HungUp(t)
    BY <2>1, HeardTypesOf DEF HungUp, HangUpOrStick, HangUp, Hangs, IInv, TypeOK
  <2>2. CASE UNCHANGED world
    BY <2>2, WorldHangs DEF world
  <2> QED
    BY <2>1, <2>2 DEF Quieted, TornDown, Joined, Unsubscribed
<1>4. ASSUME NEW x \in {"awaits", "joins"}, NEW ts,
             ts = IF x = "awaits" THEN [task EXCEPT ![t].awaits = None]
                  ELSE [task EXCEPT ![t].joins = None]
      PROVE  /\ ts \in [Tasks -> TaskState] /\ ts[t].op = task[t].op /\ ~ts[t].cancel
             /\ \A u \in Tasks \ {t} : ts[u] = task[u]
             /\ Hush(t, ts) /\ Apart(t, ts)
             /\ \A u \in Tasks : ts[u].cancel => task[u].cancel
  <2>1. /\ [task[t] EXCEPT !.awaits = None] \in TaskState
        /\ [task[t] EXCEPT !.joins = None] \in TaskState
        /\ [task[t] EXCEPT !.awaits = None].op = task[t].op
        /\ [task[t] EXCEPT !.awaits = None].cancel = task[t].cancel
        /\ [task[t] EXCEPT !.joins = None].op = task[t].op
        /\ [task[t] EXCEPT !.joins = None].cancel = task[t].cancel
    BY <1>1 DEF TaskState
  <2>2. /\ ts \in [Tasks -> TaskState] /\ ts[t].op = task[t].op /\ ts[t].cancel = task[t].cancel
        /\ \A u \in Tasks \ {t} : ts[u] = task[u]
    BY <1>1, <1>4, <2>1
  <2> QED
    BY <1>2, <2>2 DEF Hush, Apart
<1>5. Mild(s) /\ (\A e : Quits(t, e)) /\ Hush(t, task) /\ Apart(t, task) /\ Alike(s, s)
  BY <1>1, MildSelf, AsideQuits, TaskApart DEF Hush, Alike
<1>6. task[t].op = "disconnect" => \A u \in Tasks : task[u].op = "connect" => task[u].gen < s.generation
  BY DEF SInv, Overtaken, Leaving
<1>7. ASSUME NEW ts \in [Tasks -> TaskState], Hush(t, ts), Mild(s'), task' = [ts EXCEPT ![t] = Idle]
      PROVE  Tends(t)
  <2>1. /\ task'[t].pc \notin Transacting /\ task'[t].op = "none" /\ ~task'[t].cancel
        /\ \A u \in Tasks \ {t} : task'[u] = ts[u]
    BY <1>7 DEF Idle, Transacting
  <2> QED
    BY <1>5, <1>7, <2>1, RestingTends DEF Placement, Hushed, Hush
<1>8. CASE Quieted(t)
  <2> DEFINE ts == [task EXCEPT ![t].awaits = None]
  <2>1. /\ ts \in [Tasks -> TaskState] /\ ts[t].op = task[t].op /\ ~ts[t].cancel
        /\ Hush(t, ts) /\ Apart(t, ts) /\ \A u \in Tasks : ts[u].cancel => task[u].cancel
    BY <1>4
  <2> HIDE DEF ts
  <2>2. CASE Begin(t, s, ts, "stop", NoTarget, 1)
    <3>1. Tends(t) /\ Writes(t)
      BY <1>1, <1>2, <1>5, <2>1, <2>2, EntersTends, BeginWrites
    <3> QED
      BY <1>1, <1>3, <3>1, TendedKeeps
  <2>3. CASE task[t].op = "disconnect" /\ AfterQuiet(t, s, ts) /\ native' = native
    <3>1. Tends(t)
      BY <1>1, <1>5, <1>6, <2>1, <2>3, AfterQuietTends
    <3> QED
      BY <1>1, <1>3, <2>3, <3>1, PlainWrites, TendedKeeps
  <2>4. CASE task' = [ts EXCEPT ![t] = Idle] /\ s' = s /\ native' = native
    <3>1. Tends(t)
      BY <1>5, <1>7, <2>1, <2>4
    <3> QED
      BY <1>1, <1>3, <2>4, <3>1, PlainWrites, TendedKeeps
  <2> QED
    BY <1>8, <2>2, <2>3, <2>4 DEF Quieted, ts
<1>9. CASE TornDown(t)
  <2>1. task[t].op = "disconnect"
    BY <1>9 DEF TornDown, SInv, Stations, Stationed
  <2>2. Tends(t)
    BY <1>1, <1>2, <1>5, <1>6, <1>9, <2>1, AfterQuietTends DEF TornDown
  <2> QED
    BY <1>1, <1>3, <1>9, <2>2, PlainWrites, TendedKeeps DEF TornDown
<1>10. CASE Joined(t)
  <2> DEFINE ts == [task EXCEPT ![t].joins = None]
  <2>1. task[t].op = "disconnect"
    BY <1>10 DEF Joined, SInv, Stations, Stationed
  <2>2. ts \in [Tasks -> TaskState] /\ ts[t].op = task[t].op /\ ~ts[t].cancel /\ Hush(t, ts)
    BY <1>4
  <2> HIDE DEF ts
  <2>3. AfterJoin(t, s, ts) /\ native' = native
    BY <1>10 DEF Joined, ts
  <2>4. Tends(t)
    BY <1>1, <1>5, <2>1, <2>2, <2>3, AfterJoinTends
  <2> QED
    BY <1>1, <1>3, <2>3, <2>4, PlainWrites, TendedKeeps
<1>11. CASE /\ native' = native /\ task' = [task EXCEPT ![t] = Idle]
            /\ \E up : s' = DisconnectEnded(s, up)
  <2>1. Shut(s')
    BY <1>1, <1>11, DisconnectEndedLeaves, HeardTypesOf DEF Shut
  <2>2. Tends(t)
    BY <1>1, <1>5, <1>7, <1>11, <2>1, MildShut
  <2> QED
    BY <1>1, <1>3, <1>11, <2>2, PlainWrites, TendedKeeps
<1>12. CASE /\ native' = native /\ s' = s
            /\ task' = [task EXCEPT ![t].pc = "hanging_up", ![t].gen = link.id]
  <2>1. /\ task'[t].pc = "hanging_up" /\ task'[t].op = task[t].op
        /\ task'[t].cancel = task[t].cancel /\ \A u \in Tasks \ {t} : task'[u] = task[u]
    <3>1. task'[t] = [task[t] EXCEPT !.pc = "hanging_up", !.gen = link.id]
      BY <1>1, <1>12
    <3> QED
      BY <1>1, <1>12, <3>1 DEF TaskState
  <2>2. Tends(t)
    BY <1>1, <1>2, <1>5, <1>12, <2>1, RestingTends DEF Placement, Hushed, Transacting
  <2> QED
    BY <1>1, <1>3, <1>12, <2>2, PlainWrites, TendedKeeps
<1> QED
  BY <1>8, <1>9, <1>10, <1>11, <1>12 DEF Unsubscribed, HungUp

-----------------------------------------------------------------------------
(* The client's callbacks and what nobody called for. *)

(* A step of no task, which at most cancels polls. *)
LEMMA QuietKeepsView ==
    ASSUME IInv, SInv, RInv, VInv, s' \in Session, Classified(None), Mild(s'),
           task' \in {task, CancelPoll(task, None)}, UNCHANGED <<native, orphans, dev>>, Hangs,
           fromDev' = fromDev \/ (fromDev # <<>> /\ fromDev' = Tail(fromDev))
    PROVE  VInv'
<1>1. None \notin Tasks
  BY LinkTypes
<1>2. Hushed(None)
  BY <1>1, CancelPollHushes DEF Hushed
<1>3. Tends(None) /\ Writes(None)
  BY <1>1, <1>2 DEF Tends, Carries, Writes
<1> QED
  BY <1>3, TendedKeeps

LEMMA CalmKeepsView ==
    ASSUME IInv, SInv, RInv, VInv, s' \in Session,
           HandBack \/ TeardownStarts \/ TeardownEnds \/ Expire \/ LinkLoss
    PROVE  VInv'
<1>1. Classified(None) /\ task' = task /\ UNCHANGED <<native, orphans, fromDev, dev>>
      /\ s \in Session
  BY WorldKind, LinkTypes
     DEF HandBack, TeardownStarts, TeardownEnds, Expire, LinkLoss, Environment, world, air
<1>2. Hangs
  <2>1. CASE HandBack \/ TeardownStarts \/ Expire
    BY <2>1, WorldHangs DEF HandBack, TeardownStarts, Expire
  <2>2. CASE TeardownEnds
    BY <2>2, HeardTypesOf DEF TeardownEnds, HangUpOrStick, HangUp, Hangs, IInv, TypeOK
  <2>3. CASE LinkLoss
    BY <2>3 DEF LinkLoss, Hangs, IInv, TypeOK
  <2> QED
    BY <2>1, <2>2, <2>3
<1>3. Mild(s')
  <2>1. CASE s' = s
    BY <2>1, MildSelf
  <2>2. CASE TeardownStarts \/ TeardownEnds
    <3>1. Alike(s, s')
      BY <1>1, <2>2 DEF TeardownStarts, TeardownEnds, Alike, Session
    <3> QED
      BY <3>1, MildSelf, MildAlike
  <2>3. CASE Expire
    <3>1. /\ s'.state = s.state /\ s'.generation = s.generation /\ s'.pending = s.pending
          /\ s'.ambiguities = s.ambiguities
          /\ s'.config.known = s.config.known /\ s'.config.target = s.config.target
          /\ s'.telemetry.known = s.telemetry.known /\ s'.telemetry.output = s.telemetry.output
      <4>1. /\ [s.config EXCEPT !.fresh = FALSE].known = s.config.known
            /\ [s.config EXCEPT !.fresh = FALSE].target = s.config.target
            /\ [s.telemetry EXCEPT !.fresh = FALSE].known = s.telemetry.known
            /\ [s.telemetry EXCEPT !.fresh = FALSE].output = s.telemetry.output
        BY <1>1 DEF Session, Readback, OutputReading
      <4> QED
        BY <1>1, <2>3, <4>1 DEF Expire, Session
    <3>2. Onwards(s') /\ s'.generation >= s.generation
      BY <3>1, HeardTypesOf DEF Onwards
    <3> QED
      BY <3>1, <3>2 DEF Mild, IsOpen, Doubts
  <2> QED
    BY <2>1, <2>2, <2>3 DEF HandBack, LinkLoss
<1> QED
  BY <1>1, <1>2, <1>3, QuietKeepsView

LEMMA DisconnectedKeepsView ==
    ASSUME IInv, SInv, RInv, VInv, s' \in Session, Disconnected
    PROVE  VInv'
<1>1. Classified(None) /\ UNCHANGED <<native, orphans, fromDev, dev>> /\ s \in Session
  BY DisconnectedKind, LinkTypes DEF Disconnected
<1>2. Hangs
  BY DEF Disconnected, Hangs, IInv, TypeOK
<1>3. task' \in {task, CancelPoll(task, None)}
  BY DEF Disconnected
<1>4. Mild(s')
  <2>1. CASE s' = s
    BY <2>1, MildSelf
  <2> DEFINE n == [s EXCEPT !.generation = @ + 1, !.polling = FALSE, !.poller = None]
             d == FailPending(ResetConnectionData(n))
  <2>2. ASSUME NEW x \in {"disconnected", "error"}, s' = [d EXCEPT !.state = x]
        PROVE  Shut(s')
    <3>1. n \in Session /\ n.generation > s.generation /\ s.generation \in Nat
      <4>1. s.generation \in Nat /\ s.generation + 1 \in Nat /\ s.generation + 1 > s.generation
        BY HeardTypesOf
      <4>2. n = [s EXCEPT !.generation = s.generation + 1, !.polling = FALSE, !.poller = None]
        OBVIOUS
      <4>3. n.generation = s.generation + 1
        BY <1>1, <4>2 DEF Session
      <4> HIDE DEF n
      <4>4. n \in Session
        BY <1>1, <4>1, <4>2 DEF Session
      <4> QED
        BY <4>1, <4>3, <4>4
    <3> HIDE DEF n
    <3>2. ResetConnectionData(n) \in Session /\ ResetConnectionData(n).generation = n.generation
      BY <3>1, ForgetLeaves
    <3>3. d \in Session /\ d.generation = n.generation
      BY <3>2, FailPendingLeaves
    <3> HIDE DEF d
    <3>4. s'.state = x /\ s'.generation = d.generation
      BY <2>2, <3>3 DEF Session
    <3>5. d.generation \in Nat /\ n.generation \in Nat
      BY <3>1, <3>3 DEF Session
    <3> QED
      BY <3>1, <3>3, <3>4, <3>5 DEF Shut
  <2> QED
    BY <2>1, <2>2, MildShut DEF Disconnected
<1> QED
  BY <1>1, <1>2, <1>3, <1>4, QuietKeepsView

LEMMA StutterKeepsView ==
    ASSUME IInv, SInv, RInv, VInv, UNCHANGED vars
    PROVE  VInv'
<1>1. s' = s /\ s' \in Session /\ task' = task /\ UNCHANGED <<native, orphans, fromDev, dev, world>>
  BY LinkTypes DEF vars, world, air
<1>2. Classified(None)
  <2>1. Apart(None, task') /\ Steady(s') /\ Stays(s.pending, s'.pending)
    BY <1>1, TaskApart DEF Steady, Stays, Shown, Measured
  <2> QED
    BY <1>1, <2>1, StillKind
<1> QED
  BY <1>1, <1>2, MildSelf, WorldHangs, QuietKeepsView

-----------------------------------------------------------------------------
(* The native stack, the radio and the charger. *)

(* What the session and the link alone decide stays as it was. *)
LEMMA SessionSame ==
    ASSUME VInv, UNCHANGED <<s, task, link>>
    PROVE  (Cancelled /\ OpenCurrent /\ SetupOpens /\ ConnectingFresh /\ ChunksBegun)'
<1>1. (Cancelled /\ OpenCurrent)'
  BY DEF VInv, Cancelled, OpenCurrent, IsOpen
<1>2. SetupOpens'
  BY DEF VInv, SetupOpens, IsOpen, Live
<1>3. (ConnectingFresh /\ ChunksBegun)'
  BY DEF VInv, ConnectingFresh, ChunksBegun
<1> QED
  BY <1>1, <1>2, <1>3

LEMMA TasksSame ==
    ASSUME UNCHANGED <<s, task>>
    PROVE  /\ IsOpen(s') <=> IsOpen(s)
           /\ \A a : \A t : Changing(a, t)' <=> Changing(a, t)
           /\ \A a : Doubts(s', a) <=> Doubts(s, a)
  BY DEF IsOpen, Changing, Request, Doubts

(* What is shown stays as right as it was while the charger changes nothing. *)
LEMMA ViewsSame ==
    ASSUME VInv, UNCHANGED <<s, task, dev>>
    PROVE  (AnswerShown /\ StartShown /\ ViewKnown)'
<1>1. \A a : Viewed(a)' <=> Viewed(a)
  BY DEF Viewed
<1>2. \A a : \A f : Shows(a, f)' <=> Shows(a, f)
  BY DEF Shows
<1>3. AnswerShown'
  BY <1>1, <1>2, TasksSame DEF VInv, AnswerShown, Shows
<1>4. StartShown'
  BY <1>1, TasksSame DEF VInv, StartShown
<1>5. ViewKnown'
  BY <1>1, TasksSame DEF VInv, ViewKnown, Doubts
<1> QED
  BY <1>3, <1>4, <1>5

(* A native write comes to an end. *)
LEMMA NativeEndsKeepsView ==
    ASSUME IInv, VInv, NEW t \in Tasks, NativeCompletes(t) \/ NativeFails(t)
    PROVE  VInv'
<1>1. /\ UNCHANGED <<s, task, orphans, link, toDev, fromDev, dev>>
      /\ native'[t].at # "busy" /\ \A u \in Tasks \ {t} : native'[u] = native[u]
  BY HeardTypesOf DEF NativeCompletes, NativeFails, world, NativeWrite
<1>2. \A u \in Tasks : Sending(u)' => Sending(u) /\ native'[u] = native[u]
  BY <1>1 DEF Sending
<1>3. \A a : \A u \in Tasks : Awaits(a, u) => Awaits(a, u)'
  BY <1>1, <1>2, TasksSame DEF Awaits
<1>4. \A a : /\ Peaceful(a)' <=> Peaceful(a)
             /\ (Coming(a) \/ Through(a))' <=> (Coming(a) \/ Through(a))
  BY <1>1 DEF Peaceful, Coming, Through, Silent, Calm, Fair, Shows, Right
<1>5. AirKnown'
  BY <1>1, <1>3, <1>4, TasksSame DEF VInv, AirKnown
<1>6. SendsUnanswered'
  BY <1>1, <1>2, TasksSame DEF VInv, SendsUnanswered
<1>7. StartsSound'
  <2>1. \A want, n : Sound(want, n)' <=> Sound(want, n)
    BY <1>1 DEF Sound
  <2>2. \A id : Alive(id)' <=> Alive(id)
    BY <1>1 DEF Alive
  <2>3. AirSound' /\ OrphansSound'
    BY <1>1, <2>1, <2>2 DEF VInv, StartsSound, AirSound, OrphansSound
  <2>4. WritesSound'
    BY <1>1, <1>2, <2>1, <2>2 DEF VInv, StartsSound, WritesSound
  <2> QED
    BY <2>3, <2>4 DEF StartsSound
<1>8. FramesOld'
  BY <1>1 DEF VInv, FramesOld
<1> QED
  BY <1>1, <1>5, <1>6, <1>7, <1>8, SessionSame, ViewsSame DEF VInv

(* A request that goes on the air: one that does not change the aspect leaves its air as it
   was, and one that does is on its way if nothing else was. *)
LEMMA AirAppended ==
    ASSUME IInv, UNCHANGED <<fromDev, dev>>, NEW f \in AirFrame, toDev' = Append(toDev, f), NEW a
    PROVE  /\ Peaceful(a) => Coming(a)'
           /\ f.op \notin Of(a) => /\ Peaceful(a) => Peaceful(a)'
                                   /\ Coming(a) => Coming(a)'
                                   /\ Through(a) => Through(a)'
<1>1. toDev \in Seq(AirFrame) /\ Len(toDev) \in Nat
  BY HeardTypesOf
<1>2. /\ Len(toDev') = Len(toDev) + 1 /\ toDev'[Len(toDev) + 1] = f
      /\ \A i \in 1 .. Len(toDev) : toDev'[i] = toDev[i]
  BY <1>1
<1>3. \A i \in 1 .. Len(toDev') : i \in 1 .. Len(toDev) \/ i = Len(toDev) + 1
  BY <1>1, <1>2
<1>4. /\ \A n : Calm(a, n)' <=> Calm(a, n)
  BY DEF Calm, Fair, Shows, Right
<1>5. f.op \notin Of(a) /\ Silent(a) => Silent(a)'
  BY <1>2, <1>3 DEF Silent
<1>6. ASSUME Peaceful(a)
      PROVE  Coming(a)'
  <2>1. \A i \in 1 .. Len(toDev') : toDev'[i].op \in Of(a) => i = Len(toDev) + 1
    BY <1>2, <1>3, <1>6 DEF Peaceful, Silent
  <2>2. Len(toDev) + 1 \in 1 .. Len(toDev')
    BY <1>1, <1>2
  <2> QED
    BY <1>4, <1>6, <2>1, <2>2 DEF Coming, Peaceful
<1>7. ASSUME f.op \notin Of(a), Coming(a)
      PROVE  Coming(a)'
  <2>1. PICK k \in 1 .. Len(toDev) : \A i \in 1 .. Len(toDev) : toDev[i].op \in Of(a) => i = k
    BY <1>7 DEF Coming
  <2>2. k \in 1 .. Len(toDev') /\ \A i \in 1 .. Len(toDev') : toDev'[i].op \in Of(a) => i = k
    BY <1>1, <1>2, <1>3, <1>7, <2>1
  <2> QED
    BY <1>4, <1>7, <2>2 DEF Coming
<1>8. ASSUME f.op \notin Of(a), Through(a)
      PROVE  Through(a)'
  BY <1>4, <1>5, <1>8 DEF Through
<1> QED
  BY <1>4, <1>5, <1>6, <1>7, <1>8 DEF Peaceful

(* A Start that goes on the air is for the targets the charger has. *)
LEMMA SoundAppended ==
    ASSUME IInv, VInv, dev' = dev, NEW f \in AirFrame, toDev' = Append(toDev, f),
           f.op = "output_on" => Sound(f.want, Len(toDev)), f.on <= link.id,
           UNCHANGED <<link, fromDev>>
    PROVE  AirSound' /\ FramesOld'
<1>1. toDev \in Seq(AirFrame) /\ Len(toDev) \in Nat
  BY HeardTypesOf
<1>2. /\ Len(toDev') = Len(toDev) + 1 /\ toDev'[Len(toDev) + 1] = f
      /\ \A i \in 1 .. Len(toDev) : toDev'[i] = toDev[i]
  BY <1>1
<1>3. \A i \in 1 .. Len(toDev') : i \in 1 .. Len(toDev) \/ i = Len(toDev) + 1
  BY <1>1, <1>2
<1>4. ASSUME NEW n \in 0 .. Len(toDev), NEW want, Sound(want, n)
      PROVE  Sound(want, n)'
  <2>1. \A i \in 1 .. n : i \in 1 .. Len(toDev)
    BY <1>1
  <2> QED
    BY <1>2, <1>4, <2>1 DEF Sound
<1>5. AirSound'
  <2> SUFFICES ASSUME NEW i \in 1 .. Len(toDev'), toDev'[i].op = "output_on",
                      NEW n, n = i - 1, NEW want, want = toDev'[i].want
               PROVE  Sound(want, n)'
    BY DEF AirSound, Sound
  <2>1. n \in 0 .. Len(toDev)
    BY <1>1, <1>2
  <2>2. CASE i \in 1 .. Len(toDev)
    <3>1. Sound(toDev[i].want, n)
      BY <1>2, <2>2 DEF VInv, StartsSound, AirSound
    <3> QED
      BY <1>2, <1>4, <2>1, <2>2, <3>1
  <2>3. CASE i = Len(toDev) + 1
    <3>1. n = Len(toDev) /\ toDev'[i] = f
      BY <1>1, <1>2, <2>3
    <3> QED
      BY <1>4, <2>1, <3>1
  <2> QED
    BY <1>3, <2>2, <2>3
<1>6. FramesOld'
  BY <1>2, <1>3 DEF VInv, FramesOld
<1> QED
  BY <1>5, <1>6

(* A write lands. *)
LEMMA NativeLandsKeepsView ==
    ASSUME IInv, RInv, VInv, NEW t \in Tasks, NativeLands(t)
    PROVE  VInv'
<1> DEFINE f == OnAir(Request(t), task[t].want, link.id)
<1>1. /\ task[t].pc \in Transacting /\ Sending(t) /\ Alive(native[t].on) /\ native[t].on = link.id
      /\ native'[t].at = "landed" /\ \A u \in Tasks \ {t} : native'[u] = native[u]
      /\ UNCHANGED <<s, task, orphans, link, fromDev, dev>>
  BY HeardTypesOf
     DEF NativeLands, IInv, SlotInv, WriterWrites, Transacting, Sending, NativeWrite, Alive
<1>2. /\ task[t].op \in AllOperations /\ task[t].step \in 1 .. Len(Program(task[t].op))
      /\ Request(t) \in Requests /\ task[t].want \in Targets
  BY <1>1, OperationOf, ProgramTypes DEF Request
<1>3. f \in AirFrame /\ f.op = Request(t) /\ f.on = link.id
      /\ (Request(t) \in Mutations => f.want = task[t].want)
  <2>1. (IF Request(t) \in Mutations THEN task[t].want ELSE NoTarget) \in Targets
    BY <1>2, BlankTypes
  <2> QED
    BY <1>2, <2>1, HeardTypesOf DEF OnAir, AirFrame
<1>4. toDev' = IF task[t].chunk = Chunks(Request(t)) THEN Append(toDev, f) ELSE toDev
  BY DEF NativeLands
<1> HIDE DEF f
<1>5. orphans' = {}
  BY <1>1 DEF IInv, SlotInv, OrphansHeld, Sending
<1>6. \A u \in Tasks : task[u].pc \in Transacting => u = t
  BY <1>1, OneTransacts
<1>7. \A u \in Tasks : ~Sending(u)'
  BY <1>1, <1>6 DEF Sending, Transacting
<1>8. \A a : \A u \in Tasks : Awaits(a, u) => Awaits(a, u)'
  BY <1>1, <1>7, TasksSame DEF Awaits
<1>9. AirKnown'
  <2> SUFFICES ASSUME NEW a \in Aspects, IsOpen(s)
               PROVE  (Peaceful(a) \/ ((Coming(a) \/ Through(a)) /\ \E u \in Tasks : Awaits(a, u)))'
    BY <1>1, TasksSame DEF AirKnown
  <2>1. toDev' = toDev => /\ Peaceful(a)' <=> Peaceful(a)
                          /\ (Coming(a) \/ Through(a))' <=> (Coming(a) \/ Through(a))
    BY <1>1 DEF Peaceful, Coming, Through, Silent, Calm, Fair, Shows, Right
  <2>2. CASE Changing(a, t)
    <3>1. Peaceful(a)
      BY <1>1, <1>6 DEF VInv, AirKnown, Awaits, Changing
    <3>2. Awaits(a, t)'
      BY <1>1, <1>7, <2>2, TasksSame DEF VInv, SendsUnanswered, Awaits
    <3>3. toDev' = Append(toDev, f) => Coming(a)'
      BY <1>1, <1>3, <3>1, AirAppended
    <3> QED
      BY <1>4, <2>1, <3>1, <3>2, <3>3
  <2>3. CASE ~Changing(a, t)
    <3>1. f.op \notin Of(a)
      BY <1>1, <1>3, <2>3 DEF Changing
    <3>2. toDev' = Append(toDev, f) => /\ Peaceful(a) => Peaceful(a)'
                                       /\ Coming(a) => Coming(a)'
                                       /\ Through(a) => Through(a)'
      BY <1>1, <1>3, <3>1, AirAppended
    <3> QED
      BY <1>4, <1>8, <2>1, <3>2 DEF VInv, AirKnown
  <2> QED
    BY <2>2, <2>3
<1>10. SendsUnanswered'
  BY <1>7 DEF SendsUnanswered
<1>11. AirSound' /\ FramesOld'
  <2>1. toDev' = toDev => AirSound' /\ FramesOld'
    BY <1>1 DEF VInv, StartsSound, AirSound, Sound, FramesOld
  <2>2. f.op = "output_on" => Sound(f.want, Len(toDev))
    <3> SUFFICES ASSUME f.op = "output_on"
                 PROVE  Sound(f.want, Len(toDev))
      OBVIOUS
    <3>1. task[t].op = "start" /\ task[t].step = 3
      BY <1>2, <1>3, OnlyStartSwitchesOn DEF Request
    <3>2. f.want = task[t].want
      BY <1>3 DEF Mutations
    <3> QED
      BY <1>1, <3>1, <3>2 DEF VInv, StartsSound, WritesSound
  <2>3. f.on <= link.id
    BY <1>3, HeardTypesOf
  <2>4. toDev' = Append(toDev, f) => AirSound' /\ FramesOld'
    BY <1>1, <1>3, <2>2, <2>3, SoundAppended
  <2> QED
    BY <1>4, <2>1, <2>4
<1>12. StartsSound'
  BY <1>5, <1>7, <1>11 DEF StartsSound, OrphansSound, WritesSound
<1> QED
  BY <1>1, <1>9, <1>10, <1>11, <1>12, SessionSame, ViewsSame DEF VInv

(* A write left behind ends: the session it belonged to is closed. *)
LEMMA OrphanEndsKeepsView ==
    ASSUME IInv, RInv, VInv, OrphanEnds
    PROVE  VInv'
<1>1. PICK o \in orphans :
         /\ orphans' = orphans \ {o}
         /\ \/ UNCHANGED toDev
            \/ o.final /\ Alive(o.frame.on) /\ toDev' = Append(toDev, o.frame)
  BY DEF OrphanEnds
<1>2. /\ UNCHANGED <<s, task, native, link, fromDev, dev>>
      /\ orphans' = {} /\ s.poisoned /\ \A t \in Tasks : task[t].pc # "writing"
  BY <1>1 DEF OrphanEnds, IInv, SlotInv, OrphansHeld
<1>3. ~IsOpen(s')
  BY <1>2 DEF IInv, PoisonedUnusable, IsOpen
<1>4. AirKnown' /\ SendsUnanswered'
  BY <1>3 DEF AirKnown, SendsUnanswered
<1>5. AirSound' /\ FramesOld'
  <2>1. CASE toDev' = toDev
    BY <1>2, <2>1 DEF VInv, StartsSound, AirSound, Sound, FramesOld
  <2>2. CASE o.final /\ Alive(o.frame.on) /\ toDev' = Append(toDev, o.frame)
    <3> DEFINE f == o.frame
    <3>1. f \in AirFrame /\ f.on <= link.id /\ toDev' = Append(toDev, f)
      BY <2>2, HeardTypesOf DEF Orphan, RInv, LinksOld
    <3>2. f.op = "output_on" => Sound(f.want, Len(toDev))
      BY <2>2 DEF VInv, StartsSound, OrphansSound
    <3> HIDE DEF f
    <3> QED
      BY <1>2, <3>1, <3>2, SoundAppended
  <2> QED
    BY <1>1, <2>1, <2>2
<1>6. StartsSound'
  BY <1>2, <1>5 DEF StartsSound, OrphansSound, WritesSound, Sending
<1> QED
  BY <1>2, <1>4, <1>5, <1>6, SessionSame, ViewsSame DEF VInv

-----------------------------------------------------------------------------
(* Nothing is said, or an answer to op, or something unreadable; what it shows is right. *)
WillBeRight(a, f) ==
    IF a = "target" THEN f.target = dev'.target ELSE f.output \in {dev'.output, Unknown}
Speaks(op) ==
    \/ fromDev' = fromDev
    \/ \E r \in Frame :
          /\ fromDev' = Append(fromDev, r)
          /\ r.on <= link.id /\ r.kind \in {"frame", "corrupt"}
          /\ r.kind = "frame" => r.op = Opcode(op)
          /\ \A a \in Aspects : Shows(a, r) => WillBeRight(a, r)
(* An aspect stays as it is. *)
Same(a) == IF a = "target" THEN dev'.target = dev.target ELSE dev'.output = dev.output

(* What a request does to the charger, and what it answers. *)
LEMMA EffectOf ==
    ASSUME IInv, NEW f \in AirFrame, dev' \in {dev, Effect(f)}
    PROVE  /\ \A a \in Aspects : f.op \notin Of(a) => Same(a)
           /\ f.op \in Reads => dev' = dev
<1>1. dev \in [output : {OFF, ON}, target : Targets, ceiling : Levels]
  BY DEF IInv, TypeOK
<1>2. Setters \subseteq {"set_voltage", "set_current"}
  BY DataAssumption DEF DataAssumption
<1>3. CASE f.op \in Setters
  <2>1. Effect(f) = [dev EXCEPT !.target[f.op] = f.want[f.op]]
    BY <1>2, <1>3 DEF Effect
  <2>2. dev'.output = dev.output
    BY <1>1, <2>1
  <2>3. f.op \notin Reads
    BY <1>2, <1>3 DEF Reads
  <2> QED
    BY <1>3, <2>2, <2>3 DEF Aspects, Of, Same
<1>4. CASE f.op \in {"output_on", "output_off"}
  <2>1. Effect(f) \in {[dev EXCEPT !.output = ON], [dev EXCEPT !.output = OFF]}
    BY <1>2, <1>4 DEF Effect
  <2>2. dev'.target = dev.target
    BY <1>1, <2>1
  <2>3. f.op \notin Reads
    BY <1>4 DEF Reads
  <2> QED
    BY <1>4, <2>2, <2>3 DEF Aspects, Of, Same
<1>5. CASE f.op \notin Setters \cup {"output_on", "output_off"}
  <2>1. Effect(f) = dev
    BY <1>5 DEF Effect
  <2> QED
    BY <2>1 DEF Same
<1> QED
  BY <1>3, <1>4, <1>5

LEMMA ReplyOf ==
    ASSUME IInv, NEW f, f.op \in Requests, f.on \in Nat, NEW ack \in {OFF, ON, Unknown}
    PROVE  /\ Reply(f, ack) \in Frame /\ Reply(f, ack).kind = "frame" /\ Reply(f, ack).on = f.on
           /\ Reply(f, ack).op = Opcode(f.op)
           /\ \A a \in Aspects : Shows(a, Reply(f, ack)) => f.op \in Reads /\ Right(a, Reply(f, ack))
<1>1. dev \in [output : {OFF, ON}, target : Targets, ceiling : Levels]
  BY DEF IInv, TypeOK
<1>2. Opcode(f.op) \in Opcodes /\ NoTarget \in Targets
  BY BlankTypes DEF Opcodes
<1> DEFINE r == Reply(f, ack)
<1>3. /\ r.kind = "frame" /\ r.op = Opcode(f.op) /\ r.on = f.on
      /\ r.layout = (f.op \in {"get_config", "get_telemetry"})
      /\ r.target = IF f.op = "get_config" THEN dev.target ELSE NoTarget
      /\ r.output = IF f.op = "get_telemetry" THEN dev.output ELSE Unknown
  BY DEF Reply
<1>4. r \in Frame
  BY <1>1, <1>2 DEF Reply, Frame, Unknown, OFF, ON
<1> HIDE DEF r
<1>5. ASSUME NEW a \in Aspects, Shows(a, r)
      PROVE  f.op \in Reads /\ Right(a, r)
  <2>1. f.op \in {"get_config", "get_telemetry"}
    BY <1>3, <1>5 DEF Shows
  <2>2. Opcode(f.op) = f.op
    BY <2>1 DEF Opcode
  <2> QED
    BY <1>3, <1>5, <2>1, <2>2 DEF Shows, Right, Reads, Aspects
<1> QED
  BY <1>3, <1>4, <1>5 DEF r

(* What is said in Speaks joins the end of the notifications. *)
LEMMA SpokenFacts ==
    ASSUME IInv, VInv, NEW op, Speaks(op), link' = link
    PROVE  /\ Len(fromDev') >= Len(fromDev)
           /\ \A i \in 1 .. Len(fromDev) : fromDev'[i] = fromDev[i]
           /\ \A i \in 1 .. Len(fromDev') : i \notin 1 .. Len(fromDev) =>
                 /\ i = Len(fromDev')
                 /\ fromDev'[i].on <= link.id /\ fromDev'[i].kind \in {"frame", "corrupt"}
                 /\ fromDev'[i].kind = "frame" => fromDev'[i].op = Opcode(op)
                 /\ \A a \in Aspects : Shows(a, fromDev'[i]) => WillBeRight(a, fromDev'[i])
<1>1. fromDev \in Seq(Frame) /\ Len(fromDev) \in Nat
  BY DEF IInv, TypeOK
<1>2. CASE fromDev' = fromDev
  BY <1>1, <1>2
<1>3. ASSUME NEW r \in Frame, fromDev' = Append(fromDev, r),
             r.on <= link.id, r.kind \in {"frame", "corrupt"},
             r.kind = "frame" => r.op = Opcode(op),
             \A a \in Aspects : Shows(a, r) => WillBeRight(a, r)
      PROVE  /\ Len(fromDev') >= Len(fromDev)
             /\ \A i \in 1 .. Len(fromDev) : fromDev'[i] = fromDev[i]
             /\ \A i \in 1 .. Len(fromDev') : i \notin 1 .. Len(fromDev) =>
                   /\ i = Len(fromDev')
                   /\ fromDev'[i].on <= link.id /\ fromDev'[i].kind \in {"frame", "corrupt"}
                   /\ fromDev'[i].kind = "frame" => fromDev'[i].op = Opcode(op)
                   /\ \A a \in Aspects : Shows(a, fromDev'[i]) => WillBeRight(a, fromDev'[i])
  <2>1. /\ Len(fromDev') = Len(fromDev) + 1 /\ fromDev'[Len(fromDev) + 1] = r
        /\ \A i \in 1 .. Len(fromDev) : fromDev'[i] = fromDev[i]
    BY <1>1, <1>3
  <2>2. \A i \in 1 .. Len(fromDev') : i \notin 1 .. Len(fromDev) => i = Len(fromDev) + 1
    BY <1>1, <2>1
  <2>3. Len(fromDev') >= Len(fromDev)
    BY <1>1, <2>1
  <2> QED
    BY <1>3, <2>1, <2>2, <2>3
<1> QED
  BY <1>2, <1>3 DEF Speaks

LEMMA SpokenOld ==
    ASSUME IInv, VInv, NEW op, Speaks(op), link' = link,
           toDev' = toDev \/ (toDev # <<>> /\ toDev' = Tail(toDev))
    PROVE  FramesOld'
<1>1. toDev \in Seq(AirFrame) /\ Len(toDev) \in Nat
  BY HeardTypesOf
<1>2. \A i \in 1 .. Len(toDev') : \E j \in 1 .. Len(toDev) : toDev'[i] = toDev[j]
  <2> SUFFICES ASSUME NEW i \in 1 .. Len(toDev')
               PROVE  \E j \in 1 .. Len(toDev) : toDev'[i] = toDev[j]
    OBVIOUS
  <2>1. CASE toDev # <<>> /\ toDev' = Tail(toDev)
    <3>1. i + 1 \in 1 .. Len(toDev) /\ toDev'[i] = toDev[i + 1]
      BY <1>1, <2>1
    <3> QED
      BY <3>1
  <2> QED
    BY <2>1
<1>3. \A i \in 1 .. Len(fromDev') : /\ fromDev'[i].on <= link.id
                                    /\ fromDev'[i].kind \in {"frame", "corrupt"}
  BY SpokenFacts DEF VInv, FramesOld
<1> QED
  BY <1>2, <1>3 DEF VInv, FramesOld

(* The air of an aspect the charger did not change. *)
LEMMA SpokenAside ==
    ASSUME IInv, VInv, NEW op \in Requests, Speaks(op), link' = link,
           NEW a \in Aspects, op \notin Of(a), Same(a),
           toDev' = toDev \/ (toDev # <<>> /\ toDev' = Tail(toDev))
    PROVE  /\ Peaceful(a) => Peaceful(a)'
           /\ Coming(a) \/ Through(a) => (Peaceful(a) \/ Coming(a) \/ Through(a))'
<1>1. /\ toDev \in Seq(AirFrame) /\ Len(toDev) \in Nat
      /\ Len(fromDev) \in Nat /\ Len(fromDev') >= Len(fromDev)
      /\ \A i \in 1 .. Len(fromDev) : fromDev'[i] = fromDev[i]
      /\ \A i \in 1 .. Len(fromDev') : i \notin 1 .. Len(fromDev) =>
            /\ i = Len(fromDev')
            /\ fromDev'[i].kind = "frame" => fromDev'[i].op = Opcode(op)
            /\ Shows(a, fromDev'[i]) => WillBeRight(a, fromDev'[i])
  BY HeardTypesOf, SpokenFacts DEF IInv, TypeOK
<1>2. \A g : (WillBeRight(a, g) <=> Right(a, g)) /\ (Shows(a, g)' <=> Shows(a, g))
  BY DEF Right, WillBeRight, Shows, Same
<1>3. \A g : Fair(a, g)' <=> Fair(a, g)
  BY <1>2 DEF Fair, Right, WillBeRight
<1>4. \A i \in 1 .. Len(fromDev') : i \notin 1 .. Len(fromDev) =>
         Fair(a, fromDev'[i]) /\ ~(fromDev'[i].kind = "frame" /\ fromDev'[i].op \in Acks(a))
  BY <1>1, <1>2, AspectFacts DEF Fair
<1>5. ASSUME NEW n \in Nat, Calm(a, n)
      PROVE  Calm(a, n)'
  <2> SUFFICES ASSUME NEW i \in n + 1 .. Len(fromDev')
               PROVE  Fair(a, fromDev'[i])
    BY <1>3 DEF Calm
  <2>1. i \in 1 .. Len(fromDev')
    OBVIOUS
  <2>2. CASE i \in 1 .. Len(fromDev)
    <3>1. i \in n + 1 .. Len(fromDev)
      BY <2>2
    <3> QED
      BY <1>1, <1>5, <2>2, <3>1 DEF Calm
  <2> QED
    BY <1>4, <2>1, <2>2
<1>6. Calm(a, 0) => Calm(a, 0)'
  BY <1>5
<1>7. CASE toDev' = toDev
  <2>1. Through(a) => Through(a)'
    BY <1>1, <1>4, <1>5, <1>7 DEF Through, Silent
  <2> QED
    BY <1>6, <1>7, <2>1 DEF Peaceful, Coming, Silent
<1>8. CASE toDev # <<>> /\ toDev' = Tail(toDev)
  <2>1. /\ Len(toDev') = Len(toDev) - 1
        /\ \A i \in 1 .. Len(toDev') : i + 1 \in 1 .. Len(toDev) /\ toDev'[i] = toDev[i + 1]
    BY <1>1, <1>8
  <2>2. Silent(a) => Silent(a)'
    BY <2>1 DEF Silent
  <2>3. Through(a) => Through(a)'
    BY <1>1, <1>4, <1>5, <2>2 DEF Through
  <2>4. ASSUME Coming(a)
        PROVE  (Peaceful(a) \/ Coming(a))'
    <3>1. PICK k \in 1 .. Len(toDev) : \A i \in 1 .. Len(toDev) : toDev[i].op \in Of(a) => i = k
      BY <2>4 DEF Coming
    <3>2. CASE k = 1
      <4>1. \A i \in 1 .. Len(toDev') : i + 1 # 1
        OBVIOUS
      <4>2. Silent(a)'
        BY <2>1, <3>1, <3>2, <4>1 DEF Silent
      <4> QED
        BY <1>6, <2>4, <4>2 DEF Peaceful, Coming
    <3>3. CASE k # 1
      <4>1. k - 1 \in 1 .. Len(toDev')
        BY <1>1, <2>1, <3>3
      <4>2. ASSUME NEW i \in 1 .. Len(toDev'), toDev'[i].op \in Of(a)
            PROVE  i = k - 1
        <5>1. i + 1 = k
          BY <2>1, <3>1, <4>2
        <5> QED
          BY <5>1
      <4>3. Coming(a)'
        BY <1>6, <2>4, <4>1, <4>2 DEF Coming
      <4> QED
        BY <4>3
    <3> QED
      BY <3>2, <3>3
  <2> QED
    BY <1>6, <2>2, <2>3, <2>4 DEF Peaceful
<1> QED
  BY <1>7, <1>8

(* The air of an aspect whose mutation the charger took: it is through. *)
LEMMA SpokenThrough ==
    ASSUME IInv, VInv, toDev # <<>>, toDev' = Tail(toDev), link' = link,
           Speaks(Head(toDev).op), NEW a \in Aspects, Head(toDev).op \in Of(a), IsOpen(s)
    PROVE  Through(a)' /\ \E t \in Tasks : Awaits(a, t)
<1>1. /\ toDev \in Seq(AirFrame) /\ Len(toDev) \in Nat /\ Len(toDev) >= 1
      /\ toDev[1].op \in Of(a) /\ 1 \in 1 .. Len(toDev)
      /\ Len(toDev') = Len(toDev) - 1
      /\ \A i \in 1 .. Len(toDev') : i + 1 \in 1 .. Len(toDev) /\ toDev'[i] = toDev[i + 1]
  BY HeardTypesOf
<1>2. ~Silent(a)
  BY <1>1 DEF Silent
<1>3. Coming(a) /\ \E t \in Tasks : Awaits(a, t)
  BY <1>2 DEF VInv, AirKnown, Peaceful, Through
<1>4. \A i \in 1 .. Len(toDev) : toDev[i].op \in Of(a) => i = 1
  BY <1>1, <1>3 DEF Coming
<1>5. \A i \in 1 .. Len(toDev') : i + 1 # 1
  OBVIOUS
<1>6. Silent(a)'
  BY <1>1, <1>4, <1>5 DEF Silent
<1>7. \A i \in 1 .. Len(fromDev) : i \in 0 + 1 .. Len(fromDev)
  OBVIOUS
<1>8. \A i \in 1 .. Len(fromDev) : Fair(a, fromDev[i])
  BY <1>3, <1>7 DEF Coming, Calm
<1>9. ASSUME NEW j \in 1 .. Len(fromDev'), fromDev'[j].kind = "frame", fromDev'[j].op \in Acks(a)
      PROVE  Calm(a, j)'
  <2>1. j \notin 1 .. Len(fromDev)
    BY <1>8, <1>9, SpokenFacts DEF Fair
  <2>2. j = Len(fromDev')
    BY <2>1, SpokenFacts
  <2>3. ~ \E i \in j + 1 .. Len(fromDev') : TRUE
    BY <2>2
  <2> QED
    BY <2>3 DEF Calm
<1> QED
  BY <1>3, <1>6, <1>9 DEF Through

(* The charger took a request, or something came from it unasked. *)
LEMMA SpokenKeepsView ==
    ASSUME IInv, VInv, NEW op \in Requests, Speaks(op),
           UNCHANGED <<s, task, native, orphans, link>>,
           \/ toDev' = toDev /\ dev' = dev /\ op \in Reads
           \/ toDev # <<>> /\ toDev' = Tail(toDev) /\ op = Head(toDev).op,
           \A a \in Aspects : op \notin Of(a) => Same(a)
    PROVE  VInv'
<1>1. /\ toDev \in Seq(AirFrame) /\ Len(toDev) \in Nat
      /\ toDev' = toDev \/ (toDev # <<>> /\ toDev' = Tail(toDev))
  BY HeardTypesOf
<1>2. \A a \in Aspects : op \in Of(a) =>
         toDev # <<>> /\ toDev' = Tail(toDev) /\ op = Head(toDev).op
  BY AspectFacts
<1>3. FramesOld'
  BY <1>1, SpokenOld, HeardTypesOf
<1>4. \A a : \A u \in Tasks : Awaits(a, u)' <=> Awaits(a, u)
  BY TasksSame DEF Awaits, Sending
<1>5. ASSUME NEW a \in Aspects, op \notin Of(a)
      PROVE  /\ Peaceful(a) => Peaceful(a)'
             /\ Coming(a) \/ Through(a) => (Peaceful(a) \/ Coming(a) \/ Through(a))'
             /\ Viewed(a)' <=> Viewed(a)
  <2>1. Same(a)
    BY <1>5
  <2>3. /\ Peaceful(a) => Peaceful(a)'
        /\ Coming(a) \/ Through(a) => (Peaceful(a) \/ Coming(a) \/ Through(a))'
    BY <1>1, <1>5, <2>1, SpokenAside
  <2> QED
    BY <2>1, <2>3 DEF Same, Viewed
<1>6. ASSUME NEW a \in Aspects, op \in Of(a), IsOpen(s)
      PROVE  Through(a)' /\ \E t \in Tasks : Awaits(a, t)
  <2>1. toDev # <<>> /\ toDev' = Tail(toDev) /\ op = Head(toDev).op
    BY <1>2, <1>6
  <2> QED
    BY <1>6, <2>1, SpokenThrough
<1>7. AirKnown'
  <2> SUFFICES ASSUME NEW a \in Aspects, IsOpen(s)
               PROVE  (Peaceful(a) \/ ((Coming(a) \/ Through(a)) /\ \E u \in Tasks : Awaits(a, u)))'
    BY TasksSame DEF AirKnown
  <2>1. CASE op \in Of(a)
    BY <1>4, <1>6, <2>1
  <2>2. CASE op \notin Of(a)
    BY <1>4, <1>5, <2>2 DEF VInv, AirKnown
  <2> QED
    BY <2>1, <2>2
<1>8. SendsUnanswered'
  BY TasksSame DEF VInv, SendsUnanswered, Sending
<1>9. AnswerShown'
  <2> SUFFICES ASSUME NEW a \in Aspects, NEW t \in Tasks, IsOpen(s), task[t].pc \in Transacting,
                      Shows(a, s.pending.reply)
               PROVE  Viewed(a)'
    BY TasksSame DEF AnswerShown, Shows
  <2>1. Viewed(a)
    BY DEF VInv, AnswerShown
  <2>2. CASE op \in Of(a)
    <3>1. PICK u \in Tasks : Awaits(a, u)
      BY <1>6, <2>2
    <3> QED
      BY <3>1 DEF Awaits, Shows
  <2> QED
    BY <1>5, <2>1, <2>2
<1>10. StartShown'
  <2> SUFFICES ASSUME NEW t \in Tasks, IsOpen(s), task[t].op = "start",
                      task[t].pc \in Transacting, task[t].step = 2
               PROVE  Viewed("target")'
    BY TasksSame DEF StartShown
  <2>1. Viewed("target") /\ "target" \in Aspects
    BY DEF VInv, StartShown, Aspects
  <2>2. CASE op \in Of("target")
    <3>1. PICK u \in Tasks : Awaits("target", u)
      BY <1>6, <2>1, <2>2
    <3>2. u = t
      BY <3>1, OneTransacts DEF Awaits, Changing
    <3>3. Request(t) = "get_telemetry"
      BY StartProgram DEF Request
    <3> QED
      BY <2>1, <3>1, <3>2, <3>3, AspectFacts DEF Awaits, Changing, Reads
  <2> QED
    BY <1>5, <2>1, <2>2
<1>11. ViewKnown'
  <2> SUFFICES ASSUME NEW a \in Aspects, IsOpen(s)
               PROVE  (Viewed(a) \/ Doubts(s, a) \/ \E t \in Tasks : Changing(a, t))'
    BY TasksSame DEF ViewKnown
  <2>1. CASE op \in Of(a)
    BY <1>6, <2>1, TasksSame DEF Awaits
  <2>2. CASE op \notin Of(a)
    BY <1>5, <2>2, TasksSame DEF VInv, ViewKnown
  <2> QED
    BY <2>1, <2>2
<1>12. StartsSound'
  <2>1. \A id : Alive(id)' <=> Alive(id)
    BY DEF Alive
  <2>2. CASE toDev' = toDev /\ dev' = dev
    <3>1. \A want, n : Sound(want, n)' <=> Sound(want, n)
      BY <2>2 DEF Sound
    <3> QED
      BY <2>1, <2>2, <3>1
         DEF VInv, StartsSound, AirSound, OrphansSound, WritesSound, Sending
  <2>3. CASE toDev # <<>> /\ toDev' = Tail(toDev) /\ op = Head(toDev).op
    <3>1. /\ Len(toDev) >= 1 /\ Len(toDev') = Len(toDev) - 1 /\ op = toDev[1].op
          /\ \A i \in 1 .. Len(toDev') : i + 1 \in 1 .. Len(toDev) /\ toDev'[i] = toDev[i + 1]
      BY <1>1, <2>3
    <3>2. ASSUME NEW n \in Nat, NEW m \in Nat, n = m + 1, n <= Len(toDev), NEW want, Sound(want, n)
          PROVE  Sound(want, m)'
      <4>1. 1 \in 1 .. n /\ \A i \in 1 .. m : i \in 1 .. Len(toDev') /\ i + 1 \in 1 .. n
        BY <3>1, <3>2
      <4>2. op \notin Setters
        BY <3>1, <3>2, <4>1 DEF Sound
      <4>3. dev'.target = dev.target
        BY <4>2 DEF Aspects, Of, Same
      <4> QED
        BY <3>1, <3>2, <4>1, <4>3 DEF Sound
    <3>3. Len(toDev') \in Nat /\ Len(toDev) = Len(toDev') + 1
      BY <1>1, <3>1
    <3>4. \A want : Sound(want, Len(toDev)) => Sound(want, Len(toDev))'
      BY <1>1, <3>2, <3>3 DEF Sound
    <3>5. AirSound'
      <4> SUFFICES ASSUME NEW i \in 1 .. Len(toDev'), toDev'[i].op = "output_on",
                          NEW m, m = i - 1, NEW want, want = toDev'[i].want
                   PROVE  Sound(want, m)'
        BY DEF AirSound, Sound
      <4>1. /\ m \in Nat /\ i \in Nat /\ i = m + 1 /\ i <= Len(toDev)
            /\ i + 1 \in 1 .. Len(toDev) /\ (i + 1) - 1 = i
        BY <3>1
      <4>2. Sound(want, i)
        BY <3>1, <4>1 DEF VInv, StartsSound, AirSound
      <4> QED
        BY <3>2, <4>1, <4>2
    <3> QED
      BY <2>1, <3>4, <3>5 DEF VInv, StartsSound, OrphansSound, WritesSound, Sending
  <2> QED
    BY <2>2, <2>3
<1> QED
  BY <1>3, <1>7, <1>8, <1>9, <1>10, <1>11, <1>12, SessionSame DEF VInv

(* The charger takes a request, and does with it what it does. *)
LEMMA ChargerTakesKeepsView ==
    ASSUME IInv, RInv, VInv, ChargerHandles \/ ChargerMisbehaves
    PROVE  VInv'
<1> DEFINE f == Head(toDev)
<1>1. /\ toDev # <<>> /\ toDev' = Tail(toDev)
      /\ UNCHANGED <<s, task, native, orphans, link>>
  BY DEF ChargerHandles, ChargerMisbehaves
<1>2. /\ toDev \in Seq(AirFrame) /\ f \in AirFrame /\ f = toDev[1] /\ 1 \in 1 .. Len(toDev)
  BY <1>1, HeardTypesOf
<1>3. f.op \in Requests /\ f.on \in Nat /\ f.on <= link.id
  BY <1>2 DEF VInv, FramesOld, AirFrame
<1>4. \/ /\ dev' \in {dev, Effect(f)}
         /\ \E ack \in {OFF, ON, Unknown} : Answer(Reply(f, ack))
      \/ dev' = Effect(f) /\ (fromDev' = fromDev \/ Answer([Reply(f, ON) EXCEPT !.kind = "corrupt"]))
      \/ /\ f.op \in {"get_config", "get_telemetry"} /\ dev' = dev
         /\ \/ Answer([Reply(f, ON) EXCEPT !.layout = FALSE])
            \/ Answer([Reply(f, ON) EXCEPT !.output = Unknown, !.ceiling = 0])
  BY DEF ChargerHandles, ChargerMisbehaves
<1> HIDE DEF f
<1>5. dev' \in {dev, Effect(f)}
  BY <1>4
<1>6. /\ \A a \in Aspects : f.op \notin Of(a) => Same(a)
      /\ f.op \in Reads => dev' = dev
  BY <1>2, <1>5, EffectOf
<1>7. ASSUME NEW ack \in {OFF, ON, Unknown}
      PROVE  /\ Reply(f, ack) \in Frame /\ Reply(f, ack).kind = "frame" /\ Reply(f, ack).on = f.on
             /\ Reply(f, ack).op = Opcode(f.op)
             /\ \A a \in Aspects : Shows(a, Reply(f, ack)) =>
                                      f.op \in Reads /\ Right(a, Reply(f, ack))
  BY <1>3, ReplyOf
<1>8. \A g : \A a : f.op \in Reads /\ Right(a, g) => WillBeRight(a, g)
  BY <1>6 DEF Right, WillBeRight
<1>9. ASSUME NEW r \in Frame, Answer(r), r.on = f.on, r.kind \in {"frame", "corrupt"},
             r.kind = "frame" => r.op = Opcode(f.op),
             \A a \in Aspects : Shows(a, r) => WillBeRight(a, r)
      PROVE  Speaks(f.op)
  BY <1>3, <1>9 DEF Answer, Speaks
<1>10. Speaks(f.op)
  <2>1. CASE \E ack \in {OFF, ON, Unknown} : Answer(Reply(f, ack))
    BY <1>7, <1>8, <1>9, <2>1
  <2>2. CASE fromDev' = fromDev
    BY <2>2 DEF Speaks
  <2> DEFINE p == Reply(f, ON)
  <2>3. /\ p \in Frame /\ p.kind = "frame" /\ p.on = f.on /\ p.op = Opcode(f.op)
        /\ \A a \in Aspects : Shows(a, p) => f.op \in Reads /\ Right(a, p)
    BY <1>7
  <2> HIDE DEF p
  <2>4. CASE Answer([p EXCEPT !.kind = "corrupt"])
    <3> DEFINE r == [p EXCEPT !.kind = "corrupt"]
    <3>1. r \in Frame /\ r.on = f.on /\ r.kind = "corrupt"
      BY <2>3 DEF Frame
    <3> HIDE DEF r
    <3>2. \A a : ~Shows(a, r)
      BY <3>1 DEF Shows
    <3> QED
      BY <1>9, <2>4, <3>1, <3>2 DEF r
  <2>5. CASE Answer([p EXCEPT !.layout = FALSE])
    <3> DEFINE r == [p EXCEPT !.layout = FALSE]
    <3>1. r \in Frame /\ r.on = f.on /\ r.kind = "frame" /\ r.op = Opcode(f.op) /\ ~r.layout
      BY <2>3 DEF Frame
    <3> HIDE DEF r
    <3>2. \A a : ~Shows(a, r)
      BY <3>1 DEF Shows
    <3> QED
      BY <1>9, <2>5, <3>1, <3>2 DEF r
  <2>6. CASE Answer([p EXCEPT !.output = Unknown, !.ceiling = 0])
    <3> DEFINE r == [p EXCEPT !.output = Unknown, !.ceiling = 0]
    <3>1. /\ r \in Frame /\ r.on = f.on /\ r.kind = "frame" /\ r.op = Opcode(f.op)
          /\ r.layout = p.layout /\ r.target = p.target /\ r.output = Unknown
      BY <2>3 DEF Frame, Unknown
    <3> HIDE DEF r
    <3>2. ASSUME NEW a \in Aspects, Shows(a, r)
          PROVE  WillBeRight(a, r)
      <4>1. Shows(a, p)
        BY <2>3, <3>1, <3>2 DEF Shows
      <4>2. f.op \in Reads /\ Right(a, r)
        BY <2>3, <3>1, <4>1 DEF Right
      <4> QED
        BY <1>8, <4>2
    <3> QED
      BY <1>9, <2>6, <3>1, <3>2 DEF r
  <2> QED
    BY <1>4, <2>1, <2>2, <2>4, <2>5, <2>6 DEF p
<1>11. f.op = Head(toDev).op
  BY DEF f
<1> QED
  BY <1>1, <1>3, <1>6, <1>10, <1>11, SpokenKeepsView

(* A spontaneous report, and noise. *)
LEMMA UnaskedKeepsView ==
    ASSUME IInv, RInv, VInv, Unsolicited \/ NoiseArrives
    PROVE  VInv'
<1>1. UNCHANGED <<s, task, native, orphans, link, toDev, dev>>
  BY DEF Unsolicited, NoiseArrives
<1>2. link.id \in Nat /\ "get_telemetry" \in Requests /\ "get_telemetry" \in Reads
  BY HeardTypesOf DEF Requests, Reads
<1>3. \A g : \A a : Right(a, g) => WillBeRight(a, g)
  BY <1>1 DEF Right, WillBeRight
<1>4. \A a : Same(a)
  BY <1>1 DEF Same
<1>5. Speaks("get_telemetry")
  <2>1. CASE Unsolicited
    <3> DEFINE f == [op |-> "get_telemetry", on |-> link.id]
               r == Reply(f, ON)
    <3>1. f.op \in Requests /\ f.on \in Nat /\ f.on = link.id /\ f.op = "get_telemetry"
      BY <1>2
    <3>2. Answer(r)
      BY <2>1 DEF Unsolicited
    <3> HIDE DEF f
    <3>3. ON \in {OFF, ON, Unknown}
      OBVIOUS
    <3>4. /\ r \in Frame /\ r.kind = "frame" /\ r.on = f.on /\ r.op = Opcode(f.op)
          /\ \A a \in Aspects : Shows(a, r) => f.op \in Reads /\ Right(a, r)
      BY <3>1, <3>3, ReplyOf
    <3> HIDE DEF r
    <3>5. r.on <= link.id
      BY <1>2, <3>1, <3>4
    <3> QED
      BY <1>3, <3>1, <3>2, <3>4, <3>5 DEF Answer, Speaks
  <2>2. CASE NoiseArrives
    <3> DEFINE r == [NoFrame EXCEPT !.kind = "corrupt", !.on = link.id]
    <3>1. fromDev' = Append(fromDev, r)
      BY <2>2 DEF NoiseArrives
    <3>2. r \in Frame /\ r.on = link.id /\ r.kind = "corrupt"
      BY <1>2, BlankTypes DEF Frame
    <3> HIDE DEF r
    <3>3. r.on <= link.id
      BY <1>2, <3>2
    <3>4. \A a : ~Shows(a, r)
      BY <3>2 DEF Shows
    <3> QED
      BY <3>1, <3>2, <3>3, <3>4 DEF Speaks
  <2> QED
    BY <2>1, <2>2
<1> QED
  BY <1>1, <1>2, <1>4, <1>5, SpokenKeepsView

-----------------------------------------------------------------------------
(* Callbacks of the native client. *)

(* What a frame shows is taken over, and only that; the doubts about the rest remain. *)
Clears(d, operations) ==
    /\ d.ambiguities \subseteq s.ambiguities
    /\ \A o \in s.ambiguities : o.operation \notin operations => o \in d.ambiguities

LEMMA AppliedTakes ==
    ASSUME IInv, NEW f \in Frame, NEW d, d = ApplyDecoded(s, f)
    PROVE  /\ d \in Session
           /\ d.state = s.state /\ d.generation = s.generation /\ d.pending = s.pending
           /\ f.layout /\ f.op = "get_config" =>
                 /\ d.config.known /\ d.config.target = f.target
                 /\ d.telemetry = s.telemetry /\ Clears(d, Setters)
           /\ f.layout /\ f.op = "get_telemetry" =>
                 /\ d.telemetry.known /\ d.telemetry.output = f.output
                 /\ d.config = s.config /\ Clears(d, {"output"})
           /\ ~(f.layout /\ f.op \in {"get_config", "get_telemetry"}) => d = s
<1> DEFINE b == [known |-> TRUE, fresh |-> TRUE, target |-> f.target,
                 ceiling |-> f.ceiling, origin |-> f.on]
           m == [known |-> TRUE, fresh |-> TRUE, output |-> f.output, origin |-> f.on]
<1>1. s \in Session /\ d \in Session
  BY ApplyKeeps DEF IInv, TypeOK, Kept
<1>2. CASE f.layout /\ f.op = "get_config"
  <2> DEFINE kept == {o \in s.ambiguities : o.operation \notin {x \in Setters : f.target[x] # 0}}
             c == [s EXCEPT !.config = b]
  <2>1. d = ResolveFromConfig(c)
    BY <1>2 DEF ApplyDecoded
  <2>2. c.config = b /\ c.ambiguities = s.ambiguities /\ b.target = f.target /\ b.known
    BY <1>1 DEF Session
  <2>3. d = [c EXCEPT !.ambiguities = kept]
    <3> HIDE DEF c, b
    <3> QED
      BY <2>1, <2>2 DEF ResolveFromConfig
  <2>4. /\ d.state = s.state /\ d.generation = s.generation /\ d.pending = s.pending
        /\ d.config = b /\ d.telemetry = s.telemetry /\ d.ambiguities = kept
    <3> HIDE DEF b, kept
    <3> QED
      BY <1>1, <2>3 DEF Session
  <2>5. kept \subseteq s.ambiguities
        /\ \A o \in s.ambiguities : o.operation \notin Setters => o \in kept
    OBVIOUS
  <2> HIDE DEF b, kept
  <2> QED
    BY <1>1, <1>2, <2>2, <2>4, <2>5 DEF Clears
<1>3. CASE f.layout /\ f.op = "get_telemetry"
  <2> DEFINE kept == {o \in s.ambiguities : o.operation # "output"}
             c == [s EXCEPT !.telemetry = m]
  <2>1. d = ResolveFromTelemetry(c)
    BY <1>3 DEF ApplyDecoded
  <2>2. /\ c.ambiguities = s.ambiguities /\ m.output = f.output /\ m.known
        /\ c.state = s.state /\ c.generation = s.generation /\ c.pending = s.pending
        /\ c.config = s.config /\ c.telemetry = m /\ c \in Session
    BY <1>1 DEF Session, OutputReading, Frame
  <2> HIDE DEF c, m
  <2>3. d = c \/ d = [c EXCEPT !.ambiguities = kept]
    BY <2>1, <2>2 DEF ResolveFromTelemetry
  <2>4. kept \subseteq s.ambiguities
        /\ \A o \in s.ambiguities : o.operation \notin {"output"} => o \in kept
    OBVIOUS
  <2> HIDE DEF kept
  <2>5. /\ d.state = s.state /\ d.generation = s.generation /\ d.pending = s.pending
        /\ d.config = s.config /\ d.telemetry = m /\ d.ambiguities \in {s.ambiguities, kept}
    BY <2>2, <2>3 DEF Session
  <2> QED
    BY <1>1, <1>3, <2>2, <2>4, <2>5 DEF Clears
<1>4. CASE ~(f.layout /\ f.op \in {"get_config", "get_telemetry"})
  BY <1>1, <1>4 DEF ApplyDecoded
<1> QED
  BY <1>2, <1>3, <1>4

LEMMA AppliedViews ==
    ASSUME IInv, NEW f \in Frame, f.kind = "frame", dev' = dev,
           s' = MatchPending(ApplyDecoded(s, f), f)
    PROVE  /\ s'.state = s.state /\ s'.generation = s.generation
           /\ \/ s'.pending = s.pending
              \/ /\ s'.pending.reply = f /\ s.pending.op = f.op
                 /\ s.pending.reply.kind = "none"
           /\ \A a \in Aspects :
                 /\ ~Shows(a, f) => (Viewed(a)' <=> Viewed(a)) /\ (Doubts(s', a) <=> Doubts(s, a))
                 /\ Shows(a, f) /\ Right(a, f) => Viewed(a)'
<1>1. PICK d : d = ApplyDecoded(s, f)
  OBVIOUS
<1>2. /\ d \in Session
      /\ d.state = s.state /\ d.generation = s.generation /\ d.pending = s.pending
      /\ f.layout /\ f.op = "get_config" =>
            /\ d.config.known /\ d.config.target = f.target
            /\ d.telemetry = s.telemetry /\ Clears(d, Setters)
      /\ f.layout /\ f.op = "get_telemetry" =>
            /\ d.telemetry.known /\ d.telemetry.output = f.output
            /\ d.config = s.config /\ Clears(d, {"output"})
      /\ ~(f.layout /\ f.op \in {"get_config", "get_telemetry"}) => d = s
  BY <1>1, AppliedTakes
<1>3. \/ s' = d
      \/ /\ s' = [d EXCEPT !.pending = [d.pending EXCEPT !.reply = f]]
         /\ d.pending.op = f.op /\ d.pending.reply.kind = "none"
  BY <1>1 DEF MatchPending
<1>4. /\ s'.state = d.state /\ s'.generation = d.generation /\ s'.config = d.config
      /\ s'.telemetry = d.telemetry /\ s'.ambiguities = d.ambiguities
      /\ s'.pending = d.pending \/ s'.pending = [d.pending EXCEPT !.reply = f]
  BY <1>2, <1>3 DEF Session
<1>5. \/ s'.pending = s.pending
      \/ /\ s'.pending.reply = f /\ s.pending.op = f.op
         /\ s.pending.reply.kind = "none"
  BY <1>2, <1>3 DEF Session, Pending
<1>6. ASSUME NEW a \in Aspects
      PROVE  /\ ~Shows(a, f) => (Viewed(a)' <=> Viewed(a)) /\ (Doubts(s', a) <=> Doubts(s, a))
             /\ Shows(a, f) /\ Right(a, f) => Viewed(a)'
  <2>1. CASE a = "target"
    <3>1. Shows(a, f) <=> f.layout /\ f.op = "get_config"
      BY <2>1 DEF Shows
    <3>2. ~Shows(a, f) => /\ s'.config = s.config
                          /\ \A o \in s.ambiguities : o.operation \in Setters => o \in s'.ambiguities
                          /\ s'.ambiguities \subseteq s.ambiguities
      BY <1>2, <1>4, <3>1, DataAssumption DEF DataAssumption, Clears
    <3> QED
      BY <1>2, <1>4, <2>1, <3>1, <3>2 DEF Viewed, Doubts, Named, Right
  <2>2. CASE a = "output"
    <3>1. Shows(a, f) <=> f.layout /\ f.op = "get_telemetry"
      BY <2>2 DEF Shows
    <3>2. ~Shows(a, f) => /\ s'.telemetry = s.telemetry
                          /\ \A o \in s.ambiguities : o.operation = "output" => o \in s'.ambiguities
                          /\ s'.ambiguities \subseteq s.ambiguities
      BY <1>2, <1>4, <3>1, DataAssumption DEF DataAssumption, Clears
    <3> QED
      BY <1>2, <1>4, <2>2, <3>1, <3>2 DEF Viewed, Doubts, Named, Right
  <2> QED
    BY <2>1, <2>2 DEF Aspects
<1> QED
  BY <1>2, <1>4, <1>5, <1>6

(* A frame of the present link that shows an aspect shows it rightly, or the answer to a
   mutation of it is still awaited. *)
LEMMA HeadRight ==
    ASSUME IInv, VInv, IsOpen(s), fromDev # <<>>, NEW a \in Aspects, Shows(a, Head(fromDev))
    PROVE  Right(a, Head(fromDev)) \/ \E t \in Tasks : Awaits(a, t)
<1>1. /\ fromDev \in Seq(Frame) /\ Head(fromDev) = fromDev[1] /\ 1 \in 0 + 1 .. Len(fromDev)
  BY DEF IInv, TypeOK
<1>2. Peaceful(a) => Fair(a, Head(fromDev))
  BY <1>1 DEF Peaceful, Calm
<1> QED
  BY <1>2 DEF VInv, AirKnown, Fair, Shows

(* An answer: the readbacks are taken over before the request gets it. *)
LEMMA DecodedKeepsView ==
    ASSUME IInv, SInv, VInv, fromDev # <<>>, fromDev' = Tail(fromDev), NEW f, f = Head(fromDev),
           f.kind = "frame", f.on = s.generation, s' = MatchPending(ApplyDecoded(s, f), f),
           UNCHANGED <<task, native, orphans, link, toDev, dev, heard>>
    PROVE  VInv'
<1>1. /\ fromDev \in Seq(Frame) /\ f \in Frame /\ f = fromDev[1] /\ 1 \in 1 .. Len(fromDev)
  BY DEF IInv, TypeOK
<1>2. /\ s'.state = s.state /\ s'.generation = s.generation
      /\ \/ s'.pending = s.pending
         \/ /\ s'.pending.reply = f /\ s.pending.op = f.op
            /\ s.pending.reply.kind = "none"
      /\ \A a \in Aspects :
            /\ ~Shows(a, f) => (Viewed(a)' <=> Viewed(a)) /\ (Doubts(s', a) <=> Doubts(s, a))
            /\ Shows(a, f) /\ Right(a, f) => Viewed(a)'
  BY <1>1, AppliedViews
<1>3. /\ IsOpen(s') <=> IsOpen(s)
      /\ \A a : \A t : (Changing(a, t)' <=> Changing(a, t))
      /\ \A t : (Sending(t)' <=> Sending(t)) /\ Request(t)' = Request(t)
  BY <1>2 DEF IsOpen, Changing, Request, Sending
<1>4. Hangs /\ Drops
  BY DEF Hangs, Drops, IInv, TypeOK
<1>5. \A a \in Aspects : IsOpen(s) /\ Shows(a, f) => Right(a, f) \/ \E t \in Tasks : Awaits(a, t)
  BY HeadRight
<1>6. \A t \in Tasks : task[t].pc \in Transacting => s.pending.op = Opcode(Request(t))
  BY DEF SInv, Answers, Matched
<1>7. \A a \in Aspects : \A t \in Tasks : Changing(a, t) => s.pending.op \in Acks(a)
  BY <1>6, AspectFacts DEF Changing
<1>8. \A a \in Aspects : f.op \in Acks(a) /\ IsOpen(s) => Through(a) /\ \E t \in Tasks : Awaits(a, t)
  <2> SUFFICES ASSUME NEW a \in Aspects, f.op \in Acks(a), IsOpen(s)
               PROVE  Through(a) /\ \E t \in Tasks : Awaits(a, t)
    OBVIOUS
  <2>1. ~Fair(a, f)
    BY DEF Fair
  <2>2. 1 \in 0 + 1 .. Len(fromDev)
    BY <1>1
  <2>3. ~Calm(a, 0)
    BY <1>1, <2>1, <2>2 DEF Calm
  <2> QED
    BY <2>3 DEF VInv, AirKnown, Peaceful, Coming
<1>9. AirKnown'
  <2> SUFFICES ASSUME NEW a \in Aspects, IsOpen(s)
               PROVE  (Peaceful(a) \/ ((Coming(a) \/ Through(a)) /\ \E u \in Tasks : Awaits(a, u)))'
    BY <1>3 DEF AirKnown
  <2>1. CASE f.op \in Acks(a)
    <3>1. Through(a)
      BY <1>8, <2>1
    <3>2. Calm(a, 1)
      BY <1>1, <2>1, <3>1 DEF Through
    <3>3. Calm(a, 0)'
      BY <1>4, <3>2, DropKeeps
    <3>4. Silent(a)'
      BY <3>1 DEF Through, Silent
    <3> QED
      BY <3>3, <3>4 DEF Peaceful
  <2>2. CASE f.op \notin Acks(a)
    <3>1. ASSUME NEW t \in Tasks, Awaits(a, t)
          PROVE  Awaits(a, t)'
      BY <1>2, <1>3, <1>7, <2>2, <3>1 DEF Awaits
    <3>2. /\ Peaceful(a) => Peaceful(a)'
          /\ Coming(a) \/ Through(a) => (Peaceful(a) \/ Coming(a) \/ Through(a))'
      BY <1>4, AirKept
    <3> QED
      BY <3>1, <3>2 DEF VInv, AirKnown
  <2> QED
    BY <2>1, <2>2
<1>10. SendsUnanswered'
  <2> SUFFICES ASSUME NEW a \in Aspects, NEW t \in Tasks, IsOpen(s), Changing(a, t), Sending(t),
                      native[t].on = link.id
               PROVE  s'.pending.reply.kind = "none"
    BY <1>3 DEF SendsUnanswered
  <2>1. s.pending.reply.kind = "none"
    BY DEF VInv, SendsUnanswered
  <2>2. f.op \notin Acks(a)
    <3> SUFFICES ASSUME f.op \in Acks(a)
                 PROVE  FALSE
      OBVIOUS
    <3>1. PICK u \in Tasks : Awaits(a, u)
      BY <1>8
    <3> QED
      BY <3>1, OneTransacts DEF Awaits, Changing
  <2> QED
    BY <1>2, <1>7, <2>1, <2>2
<1>11. AnswerShown'
  <2> SUFFICES ASSUME NEW a \in Aspects, NEW t \in Tasks, IsOpen(s), task[t].pc \in Transacting,
                      Shows(a, s'.pending.reply)
               PROVE  Viewed(a)'
    BY <1>3 DEF AnswerShown, Shows
  <2>1. ASSUME NEW u \in Tasks, Awaits(a, u)
        PROVE  u = t /\ s.pending.reply.kind = "none" /\ s.pending.op \in Acks(a)
    BY <1>7, <2>1, OneTransacts DEF Awaits, Changing
  <2>2. CASE s'.pending = s.pending
    <3>1. Viewed(a) /\ s.pending.reply.kind = "frame"
      BY <2>2 DEF VInv, AnswerShown, Shows
    <3> QED
      BY <1>2, <1>5, <2>1, <3>1
  <2>3. CASE s'.pending.reply = f /\ s.pending.op = f.op
    <3>1. f.op \in {"get_config", "get_telemetry"}
      BY <2>3 DEF Shows
    <3>2. f.op \notin Acks(a)
      BY <3>1, AspectFacts
    <3> QED
      BY <1>2, <1>5, <2>1, <2>3, <3>2
  <2> QED
    BY <1>2, <2>2, <2>3
<1>12. StartShown'
  <2> SUFFICES ASSUME NEW t \in Tasks, IsOpen(s), task[t].op = "start",
                      task[t].pc \in Transacting, task[t].step = 2
               PROVE  Viewed("target")'
    BY <1>3 DEF StartShown
  <2>1. Viewed("target") /\ "target" \in Aspects
    BY DEF VInv, StartShown, Aspects
  <2>2. Request(t) = "get_telemetry"
    BY StartProgram DEF Request
  <2>3. ~ \E u \in Tasks : Awaits("target", u)
    BY <2>1, <2>2, OneTransacts, AspectFacts DEF Awaits, Changing, Reads
  <2> QED
    BY <1>2, <1>5, <2>1, <2>3
<1>13. ViewKnown'
  <2> SUFFICES ASSUME NEW a \in Aspects, IsOpen(s)
               PROVE  (Viewed(a) \/ Doubts(s, a) \/ \E t \in Tasks : Changing(a, t))'
    BY <1>3 DEF ViewKnown
  <2>1. CASE Shows(a, f)
    BY <1>2, <1>3, <1>5, <2>1 DEF Awaits
  <2>2. CASE ~Shows(a, f)
    BY <1>2, <1>3, <2>2 DEF VInv, ViewKnown, Doubts
  <2> QED
    BY <2>1, <2>2
<1>14. StartsSound'
  BY DEF VInv, StartsSound, AirSound, OrphansSound, WritesSound, Sound, Alive, Sending
<1>15. (Cancelled /\ OpenCurrent /\ ChunksBegun)'
  BY <1>2, <1>3 DEF VInv, Cancelled, OpenCurrent, ChunksBegun
<1>16. SetupOpens'
  BY <1>2, <1>3 DEF VInv, SetupOpens, Live
<1>17. ConnectingFresh'
  <2>1. f.on <= link.id /\ link.id \in Nat /\ s.generation \in Nat
    BY <1>1, HeardTypesOf DEF VInv, FramesOld
  <2>2. s.state # "connecting"
    BY <2>1 DEF VInv, ConnectingFresh
  <2> QED
    BY <1>2, <2>2 DEF ConnectingFresh
<1>18. FramesOld'
  BY <1>4, DroppedWas DEF VInv, FramesOld
<1> QED
  BY <1>9, <1>10, <1>11, <1>12, <1>13, <1>14, <1>15, <1>16, <1>17, <1>18 DEF VInv

(* A notification. *)
LEMMA NotifiedKeepsView ==
    ASSUME IInv, SInv, RInv, VInv, s' \in Session, Notified
    PROVE  VInv'
<1> DEFINE f == Head(fromDev)
           p == FailPending(s)
<1>1. /\ fromDev # <<>> /\ fromDev' = Tail(fromDev)
      /\ UNCHANGED <<native, orphans, link, toDev, dev, heard>>
  BY DEF Notified
<1>2. /\ s \in Session /\ s.generation \in Nat /\ f \in Frame
      /\ f = fromDev[1] /\ 1 \in 1 .. Len(fromDev) /\ Apart(None, task)
  BY <1>1, TaskApart DEF IInv, TypeOK, Session
<1>3. Hangs
  BY <1>1 DEF Hangs, IInv, TypeOK
<1>4. CASE UNCHANGED <<s, task>>
  <2>1. Classified(None)
    BY <1>2, <1>4, StillKind DEF Steady, Stays
  <2> QED
    BY <1>1, <1>3, <1>4, <2>1, MildSelf, QuietKeepsView
<1>5. CASE ~s.poisoned /\ s' = PoisonCurrentClient(p) /\ task' = CancelPoll(task, None)
  <2>1. /\ p \in Session /\ Stays(s.pending, p.pending) /\ p.generation = s.generation
        /\ p.connector = s.connector /\ ~p.poisoned
    BY <1>2, <1>5, FailPendingLeaves
  <2> HIDE DEF p
  <2>2. /\ s'.pending = p.pending /\ s'.connector = p.connector
        /\ s'.state = "error" /\ s'.generation = p.generation + 1
    BY <1>5, <2>1, PoisonLeaves
  <2>3. s'.generation > s.generation
    BY <1>2, <2>1, <2>2
  <2>4. Apart(None, task') /\ PollsOver'
    BY <1>5, CancelPollApart, DataAssumption, SessionAssumption
       DEF DataAssumption, SessionAssumption, SInv, PollsOver
  <2>5. Classified(None)
    BY <1>2, <2>1, <2>2, <2>3, <2>4, BreakStill DEF Classified
  <2>6. Shut(s')
    BY <1>2, <2>1, <2>2 DEF Shut
  <2> QED
    BY <1>1, <1>3, <1>5, <2>5, <2>6, MildShut, QuietKeepsView
<1>6. CASE /\ f.on = s.generation /\ f.kind # "corrupt"
           /\ s' = MatchPending(ApplyDecoded(s, f), f) /\ task' = task
  <2>1. f.kind = "frame"
    BY <1>2, <1>6 DEF VInv, FramesOld
  <2> HIDE DEF f
  <2>2. f = Head(fromDev)
    BY DEF f
  <2> QED
    BY <1>1, <1>6, <2>1, <2>2, DecodedKeepsView
<1> QED
  BY <1>4, <1>5, <1>6 DEF Notified

(* The native connect returns: nothing is in the air of a new link, and nothing is shown. *)
LEMMA LinkedKeepsView ==
    ASSUME IInv, SInv, RInv, VInv, s' \in Session, NEW t \in Tasks, Linked(t)
    PROVE  VInv'
<1> DEFINE ts == [task EXCEPT ![t].cancel = FALSE]
<1>1. /\ task[t].op = "connect" /\ task[t].pc = "linking" /\ s.connector = t
      /\ s \in Session /\ task \in [Tasks -> TaskState] /\ task[t].gen \in Nat
      /\ task[t].gen <= s.generation /\ link.id < task[t].gen
      /\ s.generation \in Nat /\ link.id \in Nat
      /\ \A u \in Tasks : task[u].op = "connect" => u = t
  <2>1. task[t].op = "connect" /\ task[t].pc = "linking" /\ s.connector = t
    BY SettingUp DEF Linked
  <2>2. task[t].gen <= s.generation /\ link.id < task[t].gen
    BY <2>1 DEF IInv, SetupIsCurrent, RInv, LinksOld
  <2> QED
    BY <2>1, <2>2, LinkTypes, HeardTypesOf, DataAssumption
       DEF SInv, OneSetup, DataAssumption
<1>2. /\ UNCHANGED <<native, orphans, dev>> /\ toDev' = <<>> /\ fromDev' = <<>>
      /\ link'.id = task[t].gen
  BY DEF Linked
<1>3. /\ ts \in [Tasks -> TaskState] /\ ts[t] = [task[t] EXCEPT !.cancel = FALSE]
      /\ ts[t] \in TaskState /\ ts[t].op = "connect" /\ ts[t].gen = task[t].gen /\ ~ts[t].cancel
      /\ \A u \in Tasks \ {t} : ts[u] = task[u]
  <2>1. [task[t] EXCEPT !.cancel = FALSE] \in TaskState
    BY <1>1 DEF TaskState
  <2> QED
    BY <1>1, <2>1 DEF TaskState
<1> HIDE DEF ts
(* The setup goes on, was overtaken and disconnects, or has ended. *)
<1>4. \/ /\ task[t].gen = s.generation
         /\ s' = [s EXCEPT !.state = "discovering"] /\ task' = [ts EXCEPT ![t].pc = "discovering"]
      \/ /\ task[t].gen # s.generation
         /\ ConnectUnwind(t, s, ts, TRUE, TRUE)
  BY DEF Linked, Current, ts
<1>5. /\ \A u \in Tasks \ {t} : task'[u] = task[u]
      /\ ~task'[t].cancel /\ task'[t].pc \in {"idle", "cleaning", "discovering"}
      /\ task'[t].op = "connect" => task'[t].gen = task[t].gen
      /\ \/ /\ task[t].gen = s.generation /\ task'[t].pc = "discovering"
            /\ s' = [s EXCEPT !.state = "discovering"]
         \/ /\ task[t].gen # s.generation
            /\ \/ s' = ConnectEnded(s, TRUE, TRUE)
               \/ s' = [s EXCEPT !.expected = TRUE, !.polling = FALSE, !.poller = None]
  <2>1. CASE task' = [ts EXCEPT ![t].pc = "discovering"]
    <3>1. task'[t] = [ts[t] EXCEPT !.pc = "discovering"] /\ \A u \in Tasks \ {t} : task'[u] = ts[u]
      BY <1>3, <2>1
    <3>2. /\ task'[t].pc = "discovering" /\ task'[t].gen = ts[t].gen
          /\ task'[t].cancel = ts[t].cancel
      BY <1>3, <3>1 DEF TaskState
    <3>3. task[t].gen = s.generation => s' = [s EXCEPT !.state = "discovering"]
      BY <1>4
    <3>4. task[t].gen # s.generation => \/ s' = ConnectEnded(s, TRUE, TRUE)
                                        \/ s' = [s EXCEPT !.expected = TRUE, !.polling = FALSE,
                                                          !.poller = None]
      BY <1>4 DEF ConnectUnwind
    <3> QED
      BY <1>3, <3>1, <3>2, <3>3, <3>4
  <2>2. CASE task[t].gen # s.generation /\ ConnectUnwind(t, s, ts, TRUE, TRUE)
    <3>1. CASE s' = ConnectEnded(s, TRUE, TRUE) /\ task' = [ts EXCEPT ![t] = Idle]
      <4>1. task'[t] = Idle /\ \A u \in Tasks \ {t} : task'[u] = ts[u]
        BY <1>3, <3>1
      <4> QED
        BY <1>3, <2>2, <3>1, <4>1 DEF Idle
    <3>2. CASE /\ s' = [s EXCEPT !.expected = TRUE, !.polling = FALSE, !.poller = None]
               /\ task' = [ts EXCEPT ![t].pc = "cleaning", ![t].cancel = FALSE,
                                     ![t].failing = FALSE]
      <4>1. /\ task'[t] = [ts[t] EXCEPT !.pc = "cleaning", !.cancel = FALSE, !.failing = FALSE]
            /\ \A u \in Tasks \ {t} : task'[u] = ts[u]
        BY <1>3, <3>2
      <4>2. task'[t].pc = "cleaning" /\ ~task'[t].cancel /\ task'[t].gen = ts[t].gen
        BY <1>3, <4>1 DEF TaskState
      <4> QED
        BY <1>3, <2>2, <3>2, <4>1, <4>2
    <3>3. [ts EXCEPT ![t].pc = "cleaning", ![t].cancel = FALSE, ![t].failing = ~TRUE]
            = [ts EXCEPT ![t].pc = "cleaning", ![t].cancel = FALSE, ![t].failing = FALSE]
      OBVIOUS
    <3> QED
      BY <2>2, <3>1, <3>2, <3>3 DEF ConnectUnwind
  <2> QED
    BY <1>4, <2>1, <2>2
<1>6. /\ s'.generation = s.generation
      /\ IsOpen(s') => /\ s.state = "connecting" /\ task[t].gen = s.generation
                       /\ ~s'.config.known /\ ~s'.telemetry.known
      /\ task[t].gen = s.generation => s'.state = "discovering"
      /\ s'.state = "connecting" => /\ s.state = "connecting" /\ task[t].gen # s.generation
                                    /\ s'.config = s.config /\ s'.telemetry = s.telemetry
  <2>1. CASE task[t].gen = s.generation /\ s' = [s EXCEPT !.state = "discovering"]
    <3>1. s.state = "connecting"
      BY <1>1, <2>1 DEF VInv, SetupOpens, Live
    <3>2. ~s.config.known /\ ~s.telemetry.known
      BY <3>1 DEF VInv, ConnectingFresh
    <3> QED
      BY <1>1, <2>1, <3>1, <3>2 DEF Session
  <2>2. CASE task[t].gen # s.generation /\ s' = ConnectEnded(s, TRUE, TRUE)
    <3> DEFINE e == ConnectEnded(s, TRUE, TRUE)
    <3>1. e.state \in {"error", "disconnected"} /\ e.generation = s.generation
      BY <1>1, ConnectEndedLeaves
    <3> HIDE DEF e
    <3>2. s' = e
      BY <2>2 DEF e
    <3> QED
      BY <2>2, <3>1, <3>2 DEF IsOpen
  <2>3. CASE /\ task[t].gen # s.generation
             /\ s' = [s EXCEPT !.expected = TRUE, !.polling = FALSE, !.poller = None]
    <3>1. /\ s'.generation = s.generation /\ s'.state = s.state
          /\ s'.config = s.config /\ s'.telemetry = s.telemetry
      BY <1>1, <2>3 DEF Session
    <3>2. ~IsOpen(s)
      BY <1>1, <2>3 DEF VInv, OpenCurrent
    <3> QED
      BY <2>3, <3>1, <3>2 DEF IsOpen
  <2> QED
    BY <1>5, <2>1, <2>2, <2>3
<1>7. /\ \A u \in Tasks : native[u].on # task[t].gen
      /\ \A o \in orphans : o.frame.on # task[t].gen
  <2>1. /\ \A u \in Tasks : native[u].on <= link.id /\ native[u].on \in Nat
        /\ \A o \in orphans : o.frame.on <= link.id /\ o.frame.on \in Nat
    BY HeardTypesOf DEF RInv, LinksOld
  <2> QED
    BY <1>1, <2>1
<1>8. \A a : Peaceful(a)'
  BY <1>2 DEF Peaceful, Silent, Calm
<1>9. AirKnown' /\ SendsUnanswered'
  BY <1>2, <1>7, <1>8 DEF AirKnown, SendsUnanswered
<1>10. \A a \in Aspects : IsOpen(s') => Viewed(a)'
  BY <1>6 DEF Viewed
<1>11. (AnswerShown /\ StartShown /\ ViewKnown)'
  BY <1>10 DEF AnswerShown, StartShown, ViewKnown, Aspects
<1>12. StartsSound'
  BY <1>2, <1>7 DEF StartsSound, AirSound, OrphansSound, WritesSound, Alive
<1>13. Cancelled'
  BY <1>5, <1>6 DEF VInv, Cancelled
<1>14. \A u \in Tasks : task'[u].op = "connect" => u = t
  BY <1>1, <1>5
<1>15. OpenCurrent'
  BY <1>2, <1>5, <1>6, <1>14 DEF OpenCurrent
<1>16. SetupOpens'
  <2> SUFFICES ASSUME NEW u \in Tasks, Live(u)'
               PROVE  /\ task'[u].pc = "linking" => s'.state = "connecting"
                      /\ task'[u].pc \notin {"linking", "cleaning"} => IsOpen(s')
    BY DEF SetupOpens
  <2>1. u = t /\ task[t].gen = s.generation
    BY <1>5, <1>6, <1>14 DEF Live
  <2> QED
    BY <1>5, <1>6, <2>1 DEF IsOpen
<1>17. ConnectingFresh'
  <2>1. s'.state = "connecting" => s.generation > task[t].gen
    BY <1>1, <1>6
  <2> QED
    BY <1>2, <1>6, <2>1 DEF VInv, ConnectingFresh
<1>18. FramesOld'
  BY <1>2 DEF FramesOld
<1>19. ChunksBegun'
  BY <1>5 DEF VInv, ChunksBegun, Transacting
<1> QED
  BY <1>9, <1>11, <1>12, <1>13, <1>15, <1>16, <1>17, <1>18, <1>19 DEF VInv

-----------------------------------------------------------------------------
(* Every step keeps the invariant, when no call is cancelled and nobody is at the panel. *)
LEMMA NextKeepsView ==
    ASSUME {"cancel", "panel"} \cap Faults = {}, IInv, SInv, RInv, VInv, [Next]_vars
    PROVE  VInv'
<1>1. s' \in Session
  BY NextPreserves DEF IInv, TypeOK
<1>2. ASSUME NEW t \in Tasks, Call(t)
      PROVE  VInv'
  BY <1>1, <1>2, CallRequestKeepsView, CallStopKeepsView, CallStartPollingKeepsView,
     CallConnectKeepsView, CallDisconnectKeepsView DEF Call
<1>3. ASSUME NEW t \in Tasks, Resume(t)
      PROVE  VInv'
  <2>1. CASE \/ Granted(t) \/ WriteDone(t) \/ WriteFailed(t) \/ ReplyFailed(t)
             \/ SetupReply(t) \/ OperationReply(t) \/ UnwindWrite(t) \/ UnwindReply(t)
    BY <1>1, <2>1, GrantedKeepsView, WriteDoneKeepsView, FailuresKeepView,
       SetupReplyKeepsView, OperationReplyKeepsView
  <2>2. CASE \/ UnwindQueued(t) \/ UnwindSleep(t) \/ UnwindSetup(t)
             \/ Discovered(t) \/ Subscribed(t) \/ Settled(t) \/ Cleaned(t)
    BY <1>1, <2>2, UnwindingsKeepView, SetupStepsKeepView, CleanedKeepsView
  <2>3. CASE Quieted(t) \/ TornDown(t) \/ Joined(t) \/ Unsubscribed(t) \/ HungUp(t)
    BY <1>1, <2>3, DisconnectStepsKeepView
  <2> QED
    BY <1>3, <2>1, <2>2, <2>3 DEF Resume
<1>4. ASSUME NEW t \in Tasks, Deadline(t) \/ Linked(t) \/ LinkFails(t) \/ PollWake(t)
      PROVE  VInv'
  BY <1>1, <1>4, FailuresKeepView, LinkedKeepsView, SetupStepsKeepView, PollWakeKeepsView
     DEF Deadline
<1>5. ~Panel /\ \A t \in Tasks : ~CancelCall(t)
  BY DEF Panel, CancelCall, Inject
<1>6. CASE HandBack \/ TeardownStarts \/ TeardownEnds
  BY <1>1, <1>6, CalmKeepsView
<1>7. CASE Environment
  BY <1>1, <1>5, <1>7, NativeLandsKeepsView, NativeEndsKeepsView, OrphanEndsKeepsView,
     ChargerTakesKeepsView, UnaskedKeepsView, CalmKeepsView DEF Environment
<1>8. CASE Notified \/ Disconnected
  BY <1>1, <1>8, NotifiedKeepsView, DisconnectedKeepsView
<1> QED
  BY <1>2, <1>3, <1>4, <1>5, <1>6, <1>7, <1>8, StutterKeepsView DEF Next

(* Nothing is shown of a charger yet, and nothing is on its way to it. *)
LEMMA InitView == Init => VInv
<1> SUFFICES ASSUME Init PROVE VInv
  OBVIOUS
<1>1. /\ s.state = "disconnected" /\ toDev = <<>> /\ fromDev = <<>> /\ orphans = {}
      /\ \A t \in Tasks : /\ task[t].op = "none" /\ task[t].pc = "idle" /\ ~task[t].cancel
  BY DEF Init, NewSession, Idle
<1>2. ~IsOpen(s) /\ Len(toDev) = 0 /\ Len(fromDev) = 0
  BY <1>1 DEF IsOpen
<1>3. AirKnown /\ SendsUnanswered /\ AnswerShown /\ StartShown /\ ViewKnown
  BY <1>2 DEF AirKnown, SendsUnanswered, AnswerShown, StartShown, ViewKnown
<1>4. StartsSound
  BY <1>1, <1>2 DEF StartsSound, AirSound, OrphansSound, WritesSound
<1>5. Cancelled /\ OpenCurrent /\ SetupOpens /\ ConnectingFresh /\ FramesOld /\ ChunksBegun
  BY <1>1, <1>2 DEF Cancelled, OpenCurrent, SetupOpens, ConnectingFresh, FramesOld, ChunksBegun,
                    Live, Transacting
<1> QED
  BY <1>3, <1>4, <1>5 DEF VInv

(* As long as no call is cancelled and nobody uses the front panel: of each thing a mutation
   changes, either nothing about it is on its way, or one request is and its caller waits
   for the answer; and a READY session shows it rightly, or reports it as ambiguous. *)
THEOREM ViewInvariance ==
    {"cancel", "panel"} \cap Faults = {} => (Spec => [](IInv /\ SInv /\ RInv /\ VInv))
<1> SUFFICES ASSUME {"cancel", "panel"} \cap Faults = {}
             PROVE  Spec => [](IInv /\ SInv /\ RInv /\ VInv)
  OBVIOUS
<1>1. Init => IInv /\ SInv /\ RInv /\ VInv
  BY InitEstablishes, InitSetup, InitStart, InitView
<1>2. IInv /\ SInv /\ RInv /\ VInv /\ [Next]_vars => (IInv /\ SInv /\ RInv /\ VInv)'
  BY NextPreserves, NextKeepsSetup, NextKeepsStart, NextKeepsView
<1> QED
  BY <1>1, <1>2, PTL DEF Spec

(* _request_locked, _on_notification and the ambiguities: while nobody owns the slot, a READY
   session that reports no ambiguity shows what the charger does, whatever was refused, lost,
   corrupted, late, interrupted by a lost link or abandoned in a poisoned client. *)
THEOREM ViewIsRight == {"cancel", "panel"} \cap Faults = {} => (Spec => []ViewAgrees)
<1> SUFFICES ASSUME {"cancel", "panel"} \cap Faults = {}
             PROVE  Spec => []ViewAgrees
  OBVIOUS
<1>1. IInv /\ SInv /\ RInv /\ VInv => ViewAgrees
  <2> SUFFICES ASSUME IInv, SInv, VInv, s.state = "ready", holder = "free", s.ambiguities = {}
               PROVE  /\ s.config.target = dev.target
                      /\ s.telemetry.output \in {dev.output, Unknown}
    BY DEF ViewAgrees
  <2>1. IsOpen(s) /\ s.config.known /\ s.telemetry.known
    BY DEF IsOpen, SInv, ReadyIsWhole
  <2>2. \A t \in Tasks : task[t].pc \notin Transacting
    BY TransactingOwns, SessionAssumption DEF SessionAssumption
  <2>3. \A a \in Aspects : Viewed(a)
    BY <2>1, <2>2 DEF VInv, ViewKnown, Doubts, Changing
  <2> QED
    BY <2>1, <2>3 DEF Viewed, Aspects
<1> QED
  BY <1>1, ViewInvariance, PTL

(* _set_output: a Start switches the output on only while the targets of the charger are the
   pair the operator confirmed, for any setters, other Starts, Stops, reconnections and
   abandoned writes. *)
THEOREM StartIsConfirmed == {"cancel", "panel"} \cap Faults = {} => (Spec => StartAsConfirmed)
<1> SUFFICES ASSUME {"cancel", "panel"} \cap Faults = {}
             PROVE  Spec => StartAsConfirmed
  OBVIOUS
<1>1. IInv /\ SInv /\ RInv /\ VInv /\ [Next]_vars =>
         [toDev # <<>> /\ Head(toDev).op = "output_on" /\ dev.output = OFF /\ dev'.output = ON
             => dev.target = Head(toDev).want]_vars
  <2> SUFFICES ASSUME IInv, VInv, toDev # <<>>, Head(toDev).op = "output_on"
               PROVE  dev.target = Head(toDev).want
    OBVIOUS
  <2>1. 1 \in 1 .. Len(toDev) /\ toDev[1] = Head(toDev)
    BY HeardTypesOf
  <2> QED
    BY <2>1 DEF VInv, StartsSound, AirSound, Sound
<1> QED
  BY <1>1, ViewInvariance, PTL DEF Spec, StartAsConfirmed
=============================================================================
