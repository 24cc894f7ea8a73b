------------------------- MODULE ChargerSetupProofs -------------------------
(***************************************************************************)
(* Theorems about the session, its setup and its native link, on top of    *)
(* the invariant IInv of ChargerSessionProofs: a READY session is whole, a *)
(* poll nobody has cancelled is the one the session remembers, and a       *)
(* session that reports DISCONNECTED has no link.                          *)
(*                                                                         *)
(* The first two come from one account of connect(), SInv: there is at     *)
(* most one setup, the one the session calls its connector; a disconnect() *)
(* overtakes it; and what a setup that is still current has established    *)
(* stays so until the generation changes.                                  *)
(*                                                                         *)
(* DInv says who may still end the link and whose callback its loss will   *)
(* reach, so that whoever publishes DISCONNECTED has seen the link down.   *)
(***************************************************************************)
EXTENDS ChargerSessionProofs

(* The places each operation passes through. *)
Stationed(t) ==
    /\ task[t].pc \in {"idle", "sleeping"} => task[t].op = "none"
    /\ task[t].pc = "cleaning" => task[t].op = "connect"
    /\ task[t].pc \in {"tearing", "joining", "unsubscribing", "hanging_up"} =>
          task[t].op = "disconnect"
    /\ task[t].pc = "quieting" => task[t].op \in {"stop", "stop_polling", "disconnect"}
    /\ t \in Pollers => task[t].op \in {"none", "refresh_config", "refresh_telemetry"}

Stations == \A t \in Tasks : Stationed(t)

(* The only setup in flight is the session's connector, and none is while READY. *)
OneSetup ==
    /\ \A t \in Tasks : task[t].op = "connect" <=> s.connector = t
    /\ s.connector # None => s.state # "ready"

(* disconnect() is under way. *)
Leaving == \E t \in Tasks : task[t].op = "disconnect"

(* disconnect() ends the generation of every setup, and READY with it. *)
Overtaken ==
    Leaving => /\ s.state # "ready"
               /\ \A t \in Tasks : task[t].op = "connect" => task[t].gen < s.generation

(* A setup that nothing has overtaken. *)
Live(t) == task[t].op = "connect" /\ task[t].gen = s.generation

(* The session shows readbacks of the present link. *)
Shown(d) == d.config.known /\ d.config.origin = d.generation
Measured(d) == d.telemetry.known /\ d.telemetry.origin = d.generation

Engaged == {"queued"} \cup Transacting

(* What a live setup has established by the place and the request it has reached. *)
Advanced(t) ==
    Live(t) =>
        /\ task[t].pc \in {"subscribing", "settling"} \cup Engaged => s.topology
        /\ task[t].pc \in Engaged => /\ task[t].step >= 2 => s.authenticated
                                     /\ task[t].step >= 5 => Shown(s)
Progress == \A t \in Tasks : Advanced(t)

(* The pending response is that of its owner's request, and so is the answer in it. *)
Matched(t) ==
    task[t].pc \in Transacting =>
        /\ s.pending.op = Opcode(Request(t))
        /\ s.pending.reply.kind = "frame" => s.pending.reply.op = s.pending.op

(* An answer of a known layout has been applied to the readbacks. *)
Applies(t) ==
    /\ Live(t) /\ task[t].pc \in Transacting
    /\ s.pending.reply.kind = "frame" /\ s.pending.reply.layout
    => /\ task[t].step = 4 => Shown(s)
       /\ task[t].step = 5 => Measured(s)

Answers == \A t \in Tasks : Matched(t) /\ Applies(t)

SInv == /\ Stations /\ OneSetup /\ Overtaken /\ PollReachable
        /\ Progress /\ Answers /\ ReadyIsWhole

-----------------------------------------------------------------------------
(* Kinds of steps.  t is the task that acts, or None. *)

(* Apart from t, tasks stay where they are, and a cancellation is never taken back. *)
Apart(t, ts) ==
    /\ ts \in [Tasks -> TaskState]
    /\ \A u \in Tasks \ {t} :
          /\ ts[u].pc = task[u].pc /\ ts[u].op = task[u].op
          /\ ts[u].gen = task[u].gen /\ ts[u].step = task[u].step
          /\ ts[u].chunk = task[u].chunk /\ ts[u].want = task[u].want
          /\ ts[u].joins = task[u].joins
          /\ task[u].cancel => ts[u].cancel

(* d is the session as it was, as far as the setup is concerned. *)
Steady(d) ==
    /\ d.state = s.state /\ d.generation = s.generation /\ d.connector = s.connector
    /\ d.topology = s.topology /\ d.authenticated = s.authenticated
    /\ d.poisoned = s.poisoned
    /\ Shown(s) => Shown(d)
    /\ Measured(s) => Measured(d)

(* No poll is left that somebody would still have to cancel. *)
PollsOver == \A p \in Pollers : task[p].pc = "idle" \/ task[p].cancel

(* t works on something else than a setup. *)
Works(t) ==
    /\ Steady(s') /\ PollReachable'
    /\ t \in Tasks => /\ task[t].op # "connect" /\ task'[t].op # "connect"
                      /\ task'[t].op = "disconnect" => task[t].op = "disconnect"

(* The generation ends: poisoning, the loss of the link, a disconnect(). *)
Breaks(t) ==
    /\ s'.generation > s.generation /\ s'.state # "ready" /\ s'.connector = s.connector
    /\ PollsOver'
    /\ t \in Tasks => task[t].op # "connect" /\ task'[t].op # "connect"

(* A setup starts, goes on, or ends. *)
Connects(t) ==
    /\ t \in Tasks /\ task[t].op = "none" /\ task'[t].op = "connect"
    /\ task'[t].pc \in {"linking", "cleaning"}
    /\ s.connector = None /\ s'.connector = t /\ ~Leaving
    /\ s'.generation > s.generation
    /\ s.state # "ready" /\ s'.state # "ready"
SetsUp(t) ==
    /\ t \in Tasks /\ task[t].op = "connect" /\ task'[t].op = "connect"
    /\ task'[t].gen = task[t].gen
    /\ s'.connector = s.connector /\ s'.generation >= s.generation
    /\ s'.state # "ready" /\ Advanced(t)'
SetupOver(t) ==
    /\ t \in Tasks /\ task[t].op = "connect" /\ task'[t].op = "none"
    /\ s'.connector = None /\ s'.generation >= s.generation
    /\ s'.state = "ready" => Live(t) /\ ReadyIsWhole' /\ task[t].pc \in Transacting

(* disconnect() ends. *)
Leaves(t) ==
    /\ t \in Tasks /\ task[t].op = "disconnect" /\ task'[t].op = "none"
    /\ s'.state # "ready" /\ s'.generation = s.generation /\ s'.connector = s.connector

Kind(t) == /\ Apart(t, task') /\ (t \in Tasks => Stationed(t)')
           /\ \/ Works(t) \/ Breaks(t) \/ Leaves(t)
              \/ Connects(t) \/ SetsUp(t) \/ SetupOver(t)

(* The pending response stays, or fails. *)
Stays(p, q) == q.op = p.op /\ (q.reply.kind = "frame" => q.reply = p.reply)

(* The present use of the client ends: with its generation, its setup or a disconnect(). *)
Ending(t) == \/ s'.generation > s.generation
             \/ SetupOver(t) /\ s'.state # "ready"
             \/ Leaves(t)

(* No answer fails that had not failed in d, unless the use of the client ends. *)
Spared(t, d) == s'.pending.reply.kind = "failed" =>
                    d.pending.reply.kind = "failed" \/ Ending(t)

(* Only t meets another answer than before, and at first it meets none. *)
Unanswered(t) ==
    /\ Spared(t, s)
    /\ \/ Stays(s.pending, s'.pending)
       \/ \A u \in Tasks \ {t} : task[u].pc \notin Transacting
    /\ t \in Tasks /\ task'[t].pc \in Transacting =>
          \/ s'.pending.op = Opcode(Request(t))' /\ s'.pending.reply.kind = "none"
          \/ /\ s' = s /\ task[t].pc \in Transacting
             /\ task'[t].op = task[t].op /\ task'[t].gen = task[t].gen
             /\ task'[t].step = task[t].step

-----------------------------------------------------------------------------
(* Each kind of step keeps the invariant. *)

(* Stations do not depend on anything else. *)
LEMMA StationsKept ==
    ASSUME Stations, NEW t, Apart(t, task'), t \in Tasks => Stationed(t)'
    PROVE  Stations'
  BY DEF Stations, Stationed, Apart

(* Work beside the setup. *)
LEMMA WorksKeep ==
    ASSUME SInv, NEW t, Apart(t, task'), Works(t)
    PROVE  (OneSetup /\ Overtaken /\ PollReachable /\ Progress /\ ReadyIsWhole)'
<1>1. OneSetup'
  BY DEF SInv, OneSetup, Works, Apart, Steady
<1>2. Overtaken'
  BY DEF SInv, Overtaken, Works, Apart, Steady, Leaving
<1>3. Progress'
  BY DEF SInv, Progress, Advanced, Live, Works, Apart, Steady, Engaged
<1>4. ReadyIsWhole'
  BY DEF SInv, ReadyIsWhole, Works, Steady, Shown, Measured
<1> QED
  BY <1>1, <1>2, <1>3, <1>4 DEF Works

(* A new generation leaves no setup live. *)
LEMMA BreaksKeep ==
    ASSUME IInv, SInv, s' \in Session, NEW t, Apart(t, task'), Breaks(t)
    PROVE  (OneSetup /\ Overtaken /\ PollReachable /\ Progress /\ ReadyIsWhole)'
<1>1. /\ s.generation \in Nat /\ s'.generation \in Nat
      /\ \A u \in Tasks : task[u].gen \in Nat
  BY DEF IInv, TypeOK, Session, TaskState
<1>2. \A u \in Tasks : task'[u].op = "connect" =>
          task[u].op = "connect" /\ task'[u].gen = task[u].gen /\ task'[u].gen < s'.generation
  BY <1>1 DEF IInv, SetupIsCurrent, Breaks, Apart
<1>3. OneSetup'
  BY DEF SInv, OneSetup, Breaks, Apart
<1>4. Overtaken'
  BY <1>2 DEF Overtaken, Breaks
<1>5. Progress'
  BY <1>1, <1>2 DEF Progress, Advanced, Live
<1>6. PollReachable' /\ ReadyIsWhole'
  BY DEF Breaks, PollsOver, PollReachable, ReadyIsWhole
<1> QED
  BY <1>3, <1>4, <1>5, <1>6

(* While a setup is in flight, or none and not READY, every poll is over. *)
LEMMA NoPollsUnlessReady ==
    ASSUME PollReachable, s.state # "ready"
    PROVE  PollsOver
  BY DEF PollReachable, PollsOver

(* Polls that are over stay over. *)
LEMMA PollsStayOver ==
    ASSUME PollsOver, NEW t, Apart(t, task'), t \in Pollers => task'[t].pc = "idle" \/ task'[t].cancel
    PROVE  PollsOver' /\ PollReachable'
  BY SessionAssumption DEF SessionAssumption, PollsOver, PollReachable, Apart

(* The setup's own steps. *)
LEMMA SetupStepsKeep ==
    ASSUME IInv, SInv, s' \in Session, NEW t, Apart(t, task'),
           Stationed(t)', Connects(t) \/ SetsUp(t) \/ SetupOver(t)
    PROVE  (OneSetup /\ Overtaken /\ PollReachable /\ Progress /\ ReadyIsWhole)'
<1>1. /\ t \in Tasks /\ s.generation \in Nat /\ s'.generation \in Nat
      /\ \A u \in Tasks : task[u].gen \in Nat
      /\ None \notin Tasks
  BY DataAssumption DEF DataAssumption, IInv, TypeOK, Session, TaskState, Connects, SetsUp, SetupOver
<1>2. \A u \in Tasks \ {t} : task'[u].op # "connect"
  BY <1>1 DEF SInv, OneSetup, Apart, Connects, SetsUp, SetupOver
<1>3. s.state # "ready"
  BY <1>1 DEF SInv, OneSetup, Connects, SetsUp, SetupOver
<1>4. t \in Pollers => FALSE
  BY <1>1 DEF SInv, Stations, Stationed, Connects, SetsUp, SetupOver
<1>5. PollReachable'
  BY <1>3, <1>4, NoPollsUnlessReady, PollsStayOver DEF SInv
<1>6. OneSetup'
  BY <1>1, <1>2 DEF SInv, OneSetup, Connects, SetsUp, SetupOver
<1>7. Leaving' => Leaving
  BY DEF Leaving, Apart, Connects, SetsUp, SetupOver
<1>8. Overtaken'
  <2> SUFFICES ASSUME Leaving'
               PROVE  /\ s'.state # "ready"
                      /\ \A u \in Tasks : task'[u].op = "connect" => task'[u].gen < s'.generation
    BY DEF Overtaken
  <2>1. task[t].op = "connect" => task[t].gen < s.generation
    BY <1>1, <1>7 DEF SInv, Overtaken
  <2>2. ~Connects(t)
    BY <1>7 DEF Connects
  <2>3. CASE SetsUp(t)
    BY <1>1, <1>2, <2>1, <2>3 DEF SetsUp
  <2>4. CASE SetupOver(t)
    BY <1>1, <1>2, <2>1, <2>4 DEF SetupOver, Live
  <2> QED
    BY <2>2, <2>3, <2>4
<1>9. Progress'
  BY <1>1, <1>2 DEF Progress, Advanced, Live, Engaged, Transacting, Connects, SetsUp, SetupOver
<1>10. ReadyIsWhole'
  BY DEF ReadyIsWhole, Connects, SetsUp, SetupOver
<1> QED
  BY <1>5, <1>6, <1>8, <1>9, <1>10

(* The end of a disconnect(). *)
LEMMA LeavesKeep ==
    ASSUME IInv, SInv, s' \in Session, NEW t, Apart(t, task'), Stationed(t)', Leaves(t)
    PROVE  (OneSetup /\ Overtaken /\ PollReachable /\ Progress /\ ReadyIsWhole)'
<1>1. /\ t \in Tasks /\ Leaving /\ s.state # "ready"
      /\ \A u \in Tasks : task[u].gen \in Nat /\ s.generation \in Nat
  BY DEF SInv, Overtaken, Leaving, Leaves, IInv, TypeOK, Session, TaskState
<1>2. \A u \in Tasks : task'[u].op = "connect" => task'[u].gen < s'.generation
  BY <1>1 DEF SInv, Overtaken, Leaves, Apart
<1>3. t \notin Pollers
  BY <1>1 DEF SInv, Stations, Stationed, Leaves
<1>4. PollReachable'
  BY <1>1, <1>3, NoPollsUnlessReady, PollsStayOver DEF SInv
<1>5. OneSetup'
  BY <1>1 DEF SInv, OneSetup, Leaves, Apart
<1>6. Overtaken'
  BY <1>2 DEF Overtaken, Leaves
<1>7. Progress'
  BY <1>1, <1>2 DEF Progress, Advanced, Live, Leaves
<1>8. ReadyIsWhole'
  BY DEF ReadyIsWhole, Leaves
<1> QED
  BY <1>4, <1>5, <1>6, <1>7, <1>8

(* Whatever the kind, a setup that is live afterwards is the same and has what it had. *)
LEMMA AnswersKept ==
    ASSUME IInv, SInv, s' \in Session, NEW t, Kind(t), Unanswered(t)
    PROVE  Answers'
<1>1. /\ s.generation \in Nat /\ s'.generation \in Nat
      /\ \A u \in Tasks : task[u].gen \in Nat
  BY DEF IInv, TypeOK, Session, TaskState
<1>2. ASSUME NEW u \in Tasks \ {t}, task'[u].pc \in Transacting
      PROVE  (Matched(u) /\ Applies(u))'
  <2>1. /\ task[u].pc \in Transacting /\ task'[u].op = task[u].op
        /\ task'[u].gen = task[u].gen /\ task'[u].step = task[u].step
        /\ Stays(s.pending, s'.pending) /\ Request(u)' = Request(u)
    BY <1>2 DEF Kind, Apart, Unanswered, Spared, Request
  <2>2. Matched(u)'
    BY <2>1 DEF SInv, Answers, Matched, Stays
  <2>3. ASSUME Live(u)'
        PROVE  Works(t)
    <3>1. task[u].op = "connect" /\ s.connector = u /\ u # None /\ task[u].gen <= s.generation
      BY <2>1, <2>3, DataAssumption
         DEF DataAssumption, Live, SInv, OneSetup, IInv, SetupIsCurrent
    <3>2. ~Connects(t) /\ ~SetsUp(t) /\ ~SetupOver(t)
      BY <1>2, <3>1 DEF Connects, SetsUp, SetupOver, SInv, OneSetup
    <3>3. ~Breaks(t)
      BY <1>1, <2>1, <2>3, <3>1 DEF Breaks, Live
    <3>4. ~Leaves(t)
      <4> SUFFICES ASSUME Leaves(t) PROVE FALSE
        OBVIOUS
      <4>1. task[u].gen < s.generation
        BY <3>1 DEF Leaves, SInv, Overtaken, Leaving
      <4>2. task[u].gen = s.generation
        BY <2>1, <2>3 DEF Leaves, Live
      <4> QED
        BY <1>1, <4>1, <4>2
    <3> QED
      BY <3>2, <3>3, <3>4 DEF Kind
  <2>4. Applies(u)'
    BY <1>2, <2>1, <2>3 DEF SInv, Answers, Applies, Live, Stays, Works, Steady
  <2> QED
    BY <2>2, <2>4
<1>3. ASSUME t \in Tasks, task'[t].pc \in Transacting
      PROVE  (Matched(t) /\ Applies(t))'
  <2>1. CASE s'.pending.op = Opcode(Request(t))' /\ s'.pending.reply.kind = "none"
    BY <2>1 DEF Matched, Applies
  <2>2. CASE /\ s' = s /\ task[t].pc \in Transacting
             /\ task'[t].op = task[t].op /\ task'[t].gen = task[t].gen
             /\ task'[t].step = task[t].step
    BY <1>3, <2>2 DEF SInv, Answers, Matched, Applies, Live, Request, Shown, Measured
  <2> QED
    BY <1>3, <2>1, <2>2 DEF Unanswered, Spared
<1>4. \A u \in Tasks : task'[u].pc \notin Transacting => (Matched(u) /\ Applies(u))'
  BY DEF Matched, Applies
<1> QED
  BY <1>2, <1>3, <1>4 DEF Answers

(* A step of any kind keeps everything but the answers. *)
LEMMA KindKeeps ==
    ASSUME IInv, SInv, s' \in Session, NEW t, Kind(t)
    PROVE  (Stations /\ OneSetup /\ Overtaken /\ PollReachable /\ Progress /\ ReadyIsWhole)'
<1>1. Stations'
  BY StationsKept DEF Kind, SInv
<1>2. Connects(t) \/ SetsUp(t) \/ SetupOver(t) \/ Leaves(t) => t \in Tasks
  BY DEF Connects, SetsUp, SetupOver, Leaves
<1> QED
  BY <1>1, <1>2, WorksKeep, BreaksKeep, SetupStepsKeep, LeavesKeep DEF Kind

LEMMA StepKeeps ==
    ASSUME IInv, SInv, s' \in Session, NEW t, Kind(t), Unanswered(t)
    PROVE  SInv'
  BY AnswersKept, KindKeeps DEF SInv

-----------------------------------------------------------------------------
(* What the session's helpers leave alone. *)

(* Failing the pending response touches nothing else. *)
LEMMA FailPendingLeaves ==
    ASSUME NEW d \in Session
    PROVE  LET e == FailPending(d)
           IN /\ e \in Session /\ Stays(d.pending, e.pending)
              /\ e.state = d.state /\ e.generation = d.generation
              /\ e.connector = d.connector /\ e.poller = d.poller
              /\ e.poisoned = d.poisoned /\ e.topology = d.topology
              /\ e.authenticated = d.authenticated
              /\ e.config = d.config /\ e.telemetry = d.telemetry
<1>1. [d.pending EXCEPT !.reply.kind = "failed"] \in Pending
  BY DEF Session, Pending, Frame
<1>2. CASE FailPending(d) = d
  BY <1>2 DEF Stays
<1>3. CASE FailPending(d) = [d EXCEPT !.pending = [d.pending EXCEPT !.reply.kind = "failed"]]
  <2>1. Stays(d.pending, [d.pending EXCEPT !.reply.kind = "failed"])
    BY DEF Stays, Session, Pending, Frame
  <2> QED
    BY <1>1, <1>3, <2>1 DEF Session
<1> QED
  BY <1>2, <1>3 DEF FailPending, Session

(* Forgetting a connection touches what was learnt on it. *)
LEMMA ForgetLeaves ==
    ASSUME NEW d \in Session
    PROVE  \A e \in {ResetConnectionData(d), ForgetConnection(d)} :
              /\ e \in Session /\ e.pending = d.pending
              /\ e.state = d.state /\ e.generation = d.generation
              /\ e.connector = d.connector /\ e.poller = d.poller
              /\ e.poisoned = d.poisoned
<1>1. ResetConnectionData(d) \in Session /\ ForgetConnection(d) \in Session
  BY ResetKeeps, ForgetKeeps DEF Kept
<1> QED
  BY <1>1 DEF ForgetConnection, ResetConnectionData, Session

(* The end of a connect() that failed. *)
LEMMA ConnectEndedLeaves ==
    ASSUME NEW d \in Session, NEW up, NEW cancelled
    PROVE  LET e == ConnectEnded(d, up, cancelled)
           IN /\ Stays(d.pending, e.pending) /\ e.connector = None
              /\ e.state \in {"error", "disconnected"} /\ e.generation = d.generation
<1> DEFINE f == FailPending(d)
           g == ForgetConnection(f)
<1>1. f \in Session /\ Stays(d.pending, f.pending) /\ f.generation = d.generation
  BY FailPendingLeaves
<1> HIDE DEF f
<1>2. g \in Session /\ g.pending = f.pending /\ g.generation = f.generation
  BY <1>1, ForgetLeaves
<1>3. PICK x \in {"error", "disconnected"} : ConnectEnded(d, up, cancelled) =
         [g EXCEPT !.polling = FALSE, !.poller = None, !.connector = None, !.state = x]
  <2>1. (IF cancelled /\ ~up THEN "disconnected" ELSE "error") \in {"error", "disconnected"}
    OBVIOUS
  <2> QED
    BY <2>1 DEF ConnectEnded, f
<1> HIDE DEF g
<1> QED
  BY <1>1, <1>2, <1>3 DEF Session

(* The end of a disconnect(). *)
LEMMA DisconnectEndedLeaves ==
    ASSUME NEW d \in Session, NEW up
    PROVE  LET e == DisconnectEnded(d, up)
           IN /\ Stays(d.pending, e.pending) /\ e.connector = d.connector
              /\ e.poller = d.poller
              /\ e.state \in {"error", "disconnected"} /\ e.generation = d.generation
<1> DEFINE f == FailPending(d)
           g == ForgetConnection(f)
<1>1. /\ f \in Session /\ Stays(d.pending, f.pending) /\ f.generation = d.generation
      /\ f.connector = d.connector /\ f.poller = d.poller
  BY FailPendingLeaves
<1> HIDE DEF f
<1>2. /\ g \in Session /\ g.pending = f.pending /\ g.generation = f.generation
      /\ g.connector = f.connector /\ g.poller = f.poller
  BY <1>1, ForgetLeaves
<1>3. PICK x \in {"error", "disconnected"} : DisconnectEnded(d, up) =
         [g EXCEPT !.expected = FALSE, !.state = x]
  <2>1. (IF up THEN "error" ELSE "disconnected") \in {"error", "disconnected"}
    OBVIOUS
  <2> QED
    BY <2>1 DEF DisconnectEnded, f
<1> HIDE DEF g
<1> QED
  BY <1>1, <1>2, <1>3 DEF Session

(* Poisoning ends the generation and remembers no poll. *)
LEMMA PoisonLeaves ==
    ASSUME NEW d \in Session
    PROVE  LET e == PoisonCurrentClient(d)
           IN /\ e \in Session /\ e.pending = d.pending /\ e.connector = d.connector
              /\ IF d.poisoned THEN e = d
                 ELSE e.state = "error" /\ e.generation = d.generation + 1
<1>1. PoisonCurrentClient(d) \in Session
  BY PoisonPoisons
<1>2. CASE d.poisoned
  BY <1>1, <1>2 DEF PoisonCurrentClient
<1>3. CASE ~d.poisoned
  <2> DEFINE c == ResetConnectionData(d)
  <2>1. /\ c \in Session /\ c.pending = d.pending /\ c.connector = d.connector
        /\ c.generation = d.generation
    BY ForgetLeaves
  <2>2. PICK down : PoisonCurrentClient(d) =
                [c EXCEPT !.poisoned = TRUE, !.generation = c.generation + 1,
                          !.polling = FALSE, !.poller = None, !.state = "error",
                          !.teardown = down]
    BY <1>3, <2>1 DEF PoisonCurrentClient, Session
  <2> HIDE DEF c
  <2> QED
    BY <1>1, <1>3, <2>1, <2>2 DEF Session
<1> QED
  BY <1>2, <1>3

-----------------------------------------------------------------------------
(* The kinds of the steps built from the shared operators. *)

(* Nobody else is in a transaction. *)
LEMMA TransactsAlone ==
    ASSUME IInv, NEW t \in Tasks, holder = t
    PROVE  \A u \in Tasks \ {t} : task[u].pc \notin Transacting
  BY TransactingOwns

(* Tasks on their own are apart from anybody. *)
LEMMA TaskApart == IInv => \A t : Apart(t, task)
  BY DEF IInv, TypeOK, Apart

(* Cancelling the poll leaves the other tasks apart. *)
LEMMA CancelPollApart ==
    ASSUME IInv, NEW t
    PROVE  /\ Apart(t, CancelPoll(task, t)) /\ Apart(None, CancelPoll(task, t))
           /\ CancelPoll(task, t)[t] = task[t]
           /\ \A p \in Pollers \ {t} :
                PollReachable => CancelPoll(task, t)[p].pc = "idle" \/ CancelPoll(task, t)[p].cancel
<1>1. task \in [Tasks -> TaskState] /\ \A p \in Pollers : p \in Tasks
  BY SessionAssumption DEF SessionAssumption, IInv, TypeOK
<1>2. /\ CancelPoll(task, t) \in [Tasks -> TaskState]
      /\ \A u \in Tasks : /\ CancelPoll(task, t)[u].pc = task[u].pc
                          /\ CancelPoll(task, t)[u].op = task[u].op
                          /\ CancelPoll(task, t)[u].gen = task[u].gen
                          /\ CancelPoll(task, t)[u].step = task[u].step
  BY <1>1, CancelPollKeeps
<1>3. CASE s.poller \in Tasks \ {t} /\ task[s.poller].pc # "idle"
  <2>1. CancelPoll(task, t) = [task EXCEPT ![s.poller] = [task[s.poller] EXCEPT !.cancel = TRUE]]
    BY <1>3 DEF CancelPoll
  <2>2. [task[s.poller] EXCEPT !.cancel = TRUE].cancel
    BY <1>1, <1>3 DEF TaskState
  <2> QED
    BY <1>1, <1>2, <1>3, <2>1, <2>2 DEF Apart, PollReachable
<1>4. CASE ~(s.poller \in Tasks \ {t} /\ task[s.poller].pc # "idle")
  <2>1. CancelPoll(task, t) = task
    BY <1>4 DEF CancelPoll
  <2> QED
    BY <1>1, <1>4, <2>1 DEF Apart, PollReachable
<1> QED
  BY <1>3, <1>4

(* Ordinary work: the session is steady and t does not wake up as a poll. *)
LEMMA WorkKind ==
    ASSUME IInv, SInv, NEW t, Apart(t, task'), Steady(s'), s'.poller = s.poller,
           t \in Tasks => /\ Stationed(t)'
                          /\ task[t].op # "connect" /\ task'[t].op # "connect"
                          /\ task'[t].op = "disconnect" => task[t].op = "disconnect",
           t \in Pollers /\ task'[t].pc # "idle" /\ ~task'[t].cancel =>
                task[t].pc # "idle" /\ ~task[t].cancel
    PROVE  Kind(t)
<1>1. PollReachable'
  BY SessionAssumption DEF SessionAssumption, SInv, PollReachable, Apart, Steady
<1> QED
  BY <1>1 DEF Kind, Works

(* A setup that fails ends, or stays to clean up; d is the session it leaves. *)
LEMMA AbandonKind ==
    ASSUME IInv, SInv, NEW t \in Tasks, task[t].op = "connect",
           NEW d \in Session, d.connector = s.connector, d.generation >= s.generation,
           d.state # "ready", NEW ts, Apart(t, ts),
           ts[t].op = "connect", ts[t].gen = task[t].gen,
           NEW up, NEW cancelled \in BOOLEAN, ConnectUnwind(t, d, ts, up, cancelled)
    PROVE  /\ Kind(t) /\ Stays(d.pending, s'.pending) /\ Spared(t, d)
           /\ task'[t].pc \notin Transacting
<1>1. t \notin Pollers /\ ts \in [Tasks -> TaskState] /\ ts[t] \in TaskState
  BY DEF SInv, Stations, Stationed, Apart
<1>2. CASE s' = ConnectEnded(d, up, cancelled) /\ task' = [ts EXCEPT ![t] = Idle]
  <2>1. /\ Stays(d.pending, s'.pending) /\ s'.connector = None /\ s'.state # "ready"
        /\ s'.generation = d.generation
    BY <1>2, ConnectEndedLeaves
  <2>2. /\ Apart(t, task') /\ task'[t].pc = "idle" /\ task'[t].op = "none"
    BY <1>1, <1>2, IdleTypes DEF Apart, Idle
  <2>3. Stationed(t)' /\ SetupOver(t)
    BY <1>1, <2>1, <2>2 DEF Stationed, SetupOver
  <2> QED
    BY <2>1, <2>2, <2>3 DEF Ending, Spared, Kind, Transacting
<1>3. CASE /\ s' = [d EXCEPT !.expected = TRUE, !.polling = FALSE, !.poller = None]
           /\ task' = [ts EXCEPT ![t].pc = "cleaning", ![t].cancel = FALSE,
                                 ![t].failing = ~cancelled]
  <2>1. /\ s'.pending = d.pending /\ s'.connector = d.connector
        /\ s'.generation = d.generation /\ s'.state = d.state
    BY <1>3 DEF Session
  <2>2. task' = [ts EXCEPT ![t] = [ts[t] EXCEPT !.pc = "cleaning", !.cancel = FALSE,
                                                !.failing = ~cancelled]]
    BY <1>3
  <2>3. [ts[t] EXCEPT !.pc = "cleaning", !.cancel = FALSE, !.failing = ~cancelled] \in TaskState
    BY <1>1 DEF TaskState, Places
  <2>4. /\ Apart(t, task') /\ task'[t].pc = "cleaning" /\ task'[t].op = "connect"
        /\ task'[t].gen = task[t].gen
    BY <1>1, <2>2, <2>3 DEF Apart, TaskState
  <2>5. Stationed(t)' /\ SetsUp(t)
    BY <1>1, <2>1, <2>4 DEF Stationed, SetsUp, Advanced, Engaged, Transacting
  <2> QED
    BY <2>1, <2>4, <2>5 DEF Ending, Spared, Kind, Transacting, Stays
<1> QED
  BY <1>2, <1>3 DEF ConnectUnwind

(* A task gives up, leaving d: a setup abandons it, another operation just ends. *)
LEMMA GiveUpKind ==
    ASSUME IInv, SInv, NEW t \in Tasks, NEW d \in Session, Steady(d),
           \/ d.poller = s.poller
           \/ PollsOver /\ t \notin Pollers,
           NEW ts, Apart(t, ts), ts[t].op = "connect" <=> task[t].op = "connect",
           ts[t].gen = task[t].gen,
           NEW cancelled \in BOOLEAN, GiveUp(t, d, ts, cancelled)
    PROVE  /\ Kind(t) /\ Stays(d.pending, s'.pending) /\ Spared(t, d)
           /\ task'[t].pc \notin Transacting
<1>1. CASE task[t].op = "connect"
  <2>1. /\ d.connector = s.connector /\ d.generation >= s.generation /\ d.state # "ready"
        /\ ConnectUnwind(t, d, ts, link.up, cancelled)
    BY <1>1, DataAssumption
       DEF DataAssumption, SInv, OneSetup, Steady, GiveUp, IInv, TypeOK, Session
  <2> QED
    BY <1>1, <2>1, AbandonKind
<1>2. CASE task[t].op # "connect"
  <2>1. s' = d /\ task' = [ts EXCEPT ![t] = Idle]
    BY <1>2 DEF GiveUp
  <2>2. /\ Apart(t, task') /\ task'[t].pc = "idle" /\ task'[t].op = "none"
    BY <2>1, IdleTypes DEF Apart, Idle
  <2>3. Stationed(t)'
    BY <2>2 DEF Stationed
  <2>4. Kind(t)
    <3>1. CASE d.poller = s.poller
      BY <1>2, <2>1, <2>2, <2>3, <3>1, WorkKind
    <3>2. CASE PollsOver /\ t \notin Pollers
      <4>1. PollReachable'
        BY <2>2, <3>2, PollsStayOver
      <4> QED
        BY <1>2, <2>1, <2>2, <2>3, <4>1 DEF Kind, Works
    <3> QED
      BY <3>1, <3>2
  <2> QED
    BY <2>1, <2>2, <2>4 DEF Spared, Stays, Transacting
<1> QED
  BY <1>1, <1>2

(* What t may make a request with: d is the session it leaves, ts the tasks, op its
   method and k the request. *)
Ordinary(t, d, ts, op) ==
    /\ task[t].op # "connect" /\ ts[t].op # "connect"
    /\ op \notin {"connect", "disconnect", "none"}
    /\ Steady(d) /\ (d.poller = s.poller \/ (PollsOver /\ t \notin Pollers))
    /\ t \in Pollers => /\ op \in {"refresh_config", "refresh_telemetry"}
                        /\ task[t].pc # "idle" /\ (task[t].cancel => ts[t].cancel)
Setup(t, d, ts, op, k) ==
    /\ task[t].op = "connect" /\ ts[t].op = "connect" /\ op = "connect"
    /\ d.connector = s.connector /\ d.generation = s.generation /\ d.state # "ready"
    /\ Live(t) => /\ d.topology
                  /\ k >= 2 => d.authenticated
                  /\ k >= 5 => Shown(d)
Prepared(t, d, ts, op, k) ==
    /\ d \in Session /\ Apart(t, ts) /\ ts[t].gen = task[t].gen
    /\ Ordinary(t, d, ts, op) \/ Setup(t, d, ts, op, k)

(* t is queued for its request, or sends it. *)
LEMMA EngageKind ==
    ASSUME IInv, SInv, NEW t \in Tasks, NEW d, NEW ts, NEW op, NEW k,
           Prepared(t, d, ts, op, k), s' \in Session,
           s'.state = d.state, s'.generation = d.generation, s'.connector = d.connector,
           s'.poller = d.poller, s'.poisoned = d.poisoned, s'.topology = d.topology,
           s'.authenticated = d.authenticated, s'.config = d.config,
           s'.telemetry = d.telemetry,
           task' \in [Tasks -> TaskState], \A u \in Tasks \ {t} : task'[u] = ts[u],
           task'[t].pc \in Engaged, task'[t].op = op, task'[t].step = k,
           task'[t].gen = ts[t].gen, task'[t].cancel = ts[t].cancel
    PROVE  Kind(t)
<1>1. Apart(t, task')
  BY DEF Prepared, Apart
<1>2. CASE Ordinary(t, d, ts, op)
  <2>1. Steady(s') /\ Stationed(t)'
    BY <1>2 DEF Ordinary, Steady, Shown, Measured, Stationed, Engaged, Transacting
  <2>2. CASE d.poller = s.poller
    BY <1>1, <1>2, <2>1, <2>2, WorkKind DEF Ordinary
  <2>3. CASE PollsOver /\ t \notin Pollers
    <3>1. PollReachable'
      BY <1>1, <2>3, PollsStayOver
    <3> QED
      BY <1>1, <1>2, <2>1, <3>1 DEF Kind, Works, Ordinary
  <2> QED
    BY <1>2, <2>2, <2>3 DEF Ordinary
<1>3. CASE Setup(t, d, ts, op, k)
  <2>1. t \notin Pollers
    BY <1>3 DEF Setup, SInv, Stations, Stationed
  <2>2. Stationed(t)'
    BY <1>3, <2>1 DEF Setup, Stationed, Engaged, Transacting
  <2>3. Live(t)' => Live(t)
    BY <1>3 DEF Setup, Prepared, Live
  <2>4. Advanced(t)'
    BY <1>3, <2>3 DEF Setup, Advanced, Shown
  <2>5. SetsUp(t)
    BY <1>3, <2>4 DEF Setup, Prepared, SetsUp, IInv, TypeOK, Session
  <2> QED
    BY <1>1, <2>2, <2>5 DEF Kind
<1> QED
  BY <1>2, <1>3 DEF Prepared

(* t sends, as the slot's owner or finding the slot free. *)
LEMMA SendKind ==
    ASSUME IInv, SInv, NEW t \in Tasks, holder \in {t, "free"},
           NEW d, NEW ts, NEW op \in AllOperations, NEW want \in Targets,
           NEW k \in 1 .. Len(Program(op)),
           Prepared(t, d, ts, op, k), Send(t, d, ts, op, want, k)
    PROVE  Kind(t) /\ Unanswered(t)
<1>1. d \in Session /\ ts \in [Tasks -> TaskState] /\ ts[t] \in TaskState /\ k \in Nat
  BY DEF Prepared, Apart
<1> DEFINE q == [owner |-> t, op |-> Opcode(Program(op)[k]), reply |-> NoFrame]
           r == [ts[t] EXCEPT !.pc = "writing", !.op = op, !.want = want,
                              !.step = k, !.chunk = 1]
<1>2. q \in Pending /\ q.op = Opcode(Program(op)[k]) /\ q.reply.kind = "none"
  BY BlankTypes, ProgramTypes DEF Pending, NoFrame
<1>3. s' = [d EXCEPT !.pending = q] /\ task' = [ts EXCEPT ![t] = r]
  BY DEF Send
<1>4. /\ r \in TaskState /\ r.pc = "writing" /\ r.op = op /\ r.step = k
      /\ r.gen = ts[t].gen /\ r.cancel = ts[t].cancel
  BY <1>1 DEF TaskState, Places
<1> HIDE DEF q, r
<1>5. /\ s' \in Session /\ s'.pending = q
      /\ s'.state = d.state /\ s'.generation = d.generation /\ s'.connector = d.connector
      /\ s'.poller = d.poller /\ s'.poisoned = d.poisoned /\ s'.topology = d.topology
      /\ s'.authenticated = d.authenticated /\ s'.config = d.config
      /\ s'.telemetry = d.telemetry
  BY <1>1, <1>2, <1>3 DEF Session
<1>6. /\ task' \in [Tasks -> TaskState] /\ task'[t] = r
      /\ \A u \in Tasks \ {t} : task'[u] = ts[u]
  BY <1>1, <1>3, <1>4
<1>7. Kind(t)
  BY <1>4, <1>5, <1>6, EngageKind DEF Engaged, Transacting
<1>8. \A u \in Tasks \ {t} : task[u].pc \notin Transacting
  BY TransactingOwns, SessionAssumption DEF SessionAssumption
<1>9. Request(t)' = Program(op)[k]
  BY <1>4, <1>6 DEF Request
<1>10. Unanswered(t)
  BY <1>2, <1>5, <1>8, <1>9 DEF Unanswered, Spared
<1> QED
  BY <1>7, <1>10

(* t gives up instead. *)
LEMMA PreparedGivesUp ==
    ASSUME IInv, SInv, NEW t \in Tasks, NEW d, NEW ts, NEW op, NEW k,
           Prepared(t, d, ts, op, k), NEW cancelled \in BOOLEAN, GiveUp(t, d, ts, cancelled)
    PROVE  /\ Kind(t) /\ Stays(d.pending, s'.pending) /\ Spared(t, d)
           /\ task'[t].pc \notin Transacting
<1>1. CASE Ordinary(t, d, ts, op)
  BY <1>1, GiveUpKind DEF Prepared, Ordinary
<1>2. CASE Setup(t, d, ts, op, k)
  <2>1. d.generation >= s.generation /\ ConnectUnwind(t, d, ts, link.up, cancelled)
    BY <1>2 DEF Setup, GiveUp, IInv, TypeOK, Session
  <2> QED
    BY <1>2, <2>1, AbandonKind DEF Prepared, Setup
<1> QED
  BY <1>1, <1>2 DEF Prepared

(* A task that enters the slot, or is refused, or queued. *)
LEMMA BeginKind ==
    ASSUME IInv, SInv, NEW t \in Tasks, task[t].pc \notin Transacting,
           NEW d, NEW ts, NEW op \in AllOperations, NEW want \in Targets,
           NEW k \in 1 .. Len(Program(op)), d.pending = s.pending,
           Prepared(t, d, ts, op, k), Begin(t, d, ts, op, want, k)
    PROVE  Kind(t) /\ Unanswered(t)
<1>1. CASE holder = "free" /\ Send(t, d, ts, op, want, k)
  BY <1>1, SendKind
<1>2. CASE GiveUp(t, d, ts, FALSE)
  BY <1>2, PreparedGivesUp DEF Unanswered, Spared
<1>3. CASE /\ s' = d
           /\ task' = [ts EXCEPT ![t].pc = "queued", ![t].op = op, ![t].want = want,
                                 ![t].step = k]
  <2> DEFINE r == [ts[t] EXCEPT !.pc = "queued", !.op = op, !.want = want, !.step = k]
  <2>1. ts \in [Tasks -> TaskState] /\ ts[t] \in TaskState /\ d \in Session /\ k \in Nat
    BY DEF Prepared, Apart
  <2>2. task' = [ts EXCEPT ![t] = r]
    BY <1>3
  <2>3. /\ r \in TaskState /\ r.pc = "queued" /\ r.op = op /\ r.step = k
        /\ r.gen = ts[t].gen /\ r.cancel = ts[t].cancel
    BY <2>1 DEF TaskState, Places
  <2> HIDE DEF r
  <2>4. /\ task' \in [Tasks -> TaskState] /\ task'[t] = r
        /\ \A u \in Tasks \ {t} : task'[u] = ts[u]
    BY <2>1, <2>2, <2>3
  <2>5. Kind(t)
    BY <1>3, <2>1, <2>3, <2>4, EngageKind DEF Engaged
  <2>6. Unanswered(t)
    BY <1>3, <2>3, <2>4 DEF Unanswered, Spared, Stays, Transacting
  <2> QED
    BY <2>5, <2>6
<1> QED
  BY <1>1, <1>2, <1>3 DEF Begin

(* The next request of the same transaction. *)
LEMMA SparedAtOnce ==
    ASSUME NEW t, NEW d, \/ s'.pending.reply.kind # "failed"
                         \/ Spared(t, d) /\ d.pending.reply.kind # "failed"
    PROVE  Spared(t, s)
  BY DEF Spared

LEMMA ContinueKind ==
    ASSUME IInv, SInv, NEW t \in Tasks, task[t].pc \in Transacting,
           NEW d, NEW ts, NEW k \in 1 .. Len(Program(task[t].op)),
           Prepared(t, d, ts, task[t].op, k), d.pending.reply.kind # "failed",
           Continue(t, d, ts, k)
    PROVE  Kind(t) /\ Unanswered(t)
<1>1. holder = t /\ task[t].op \in AllOperations /\ task[t].want \in Targets
  BY TransactingOwns, OperationOf
<1>2. CASE Send(t, d, ts, task[t].op, task[t].want, k)
  BY <1>1, <1>2, SendKind
<1>3. CASE GiveUp(t, d, ts, FALSE)
  <2>1. Kind(t) /\ task'[t].pc \notin Transacting /\ Spared(t, s)
    BY <1>1, <1>3, PreparedGivesUp, SparedAtOnce
  <2> QED
    BY <1>1, <2>1, TransactsAlone DEF Unanswered
<1> QED
  BY <1>2, <1>3 DEF Continue

(* A request that failed, with the client poisoned or not. *)
LEMMA FailedKind ==
    ASSUME IInv, SInv, NEW t \in Tasks, task[t].pc \in Transacting,
           NEW d \in {s, PoisonCurrentClient(s)}, NEW cancelled \in BOOLEAN,
           Failed(t, d, cancelled)
    PROVE  Kind(t) /\ Unanswered(t)
<1> DEFINE marked == IF Request(t) \in Mutations
                     THEN MarkAmbiguous(d, OutcomeOf(Request(t), task[t].want)) ELSE d
           e == [marked EXCEPT !.pending = NoPending]
           poisoning == d.poisoned /\ ~s.poisoned
           ts == IF poisoning THEN CancelPoll(task, t) ELSE task
<1>1. GiveUp(t, e, ts, cancelled)
  BY DEF Failed
<1>2. /\ d \in Session /\ s \in Session /\ s.generation \in Nat /\ d.connector = s.connector
      /\ IF ~poisoning THEN d = s ELSE d.state = "error" /\ d.generation = s.generation + 1
  <2>1. s \in Session /\ s.generation \in Nat
    BY DEF IInv, TypeOK, Session
  <2>2. PoisonCurrentClient(s).poisoned
    BY <2>1, PoisonPoisons
  <2> QED
    BY <2>1, <2>2, PoisonLeaves
<1>3. /\ marked \in Session
      /\ marked.state = d.state /\ marked.generation = d.generation
      /\ marked.connector = d.connector
      /\ marked.poller = d.poller /\ marked.poisoned = d.poisoned
      /\ marked.topology = d.topology /\ marked.authenticated = d.authenticated
      /\ marked.config = d.config /\ marked.telemetry = d.telemetry
  <2>1. Request(t) \in Mutations => OutcomeOf(Request(t), task[t].want) \in Outcome
    BY OperationOf, OutcomeTypes
  <2>2. Request(t) \in Mutations => MarkAmbiguous(d, OutcomeOf(Request(t), task[t].want)) \in Session
    BY <1>2, <2>1, MarkKeeps DEF Kept
  <2> QED
    BY <1>2, <2>2 DEF MarkAmbiguous, Session
<1> HIDE DEF marked
<1>4. /\ e \in Session
      /\ e.state = d.state /\ e.generation = d.generation /\ e.connector = d.connector
      /\ e.poller = d.poller /\ e.poisoned = d.poisoned
      /\ e.topology = d.topology /\ e.authenticated = d.authenticated
      /\ e.config = d.config /\ e.telemetry = d.telemetry
      /\ e.pending.reply.kind = "none"
  BY <1>3, BlankTypes DEF Session, NoPending, NoFrame
<1> HIDE DEF e
<1>5. /\ Apart(t, ts) /\ ts[t] = task[t]
      /\ poisoning => \A p \in Pollers \ {t} : ts[p].pc = "idle" \/ ts[p].cancel
  BY TaskApart, CancelPollApart DEF SInv
<1> HIDE DEF ts
<1>6. Kind(t) /\ task'[t].pc \notin Transacting /\ Spared(t, s)
  <2>1. CASE ~poisoning
    <3>1. Steady(e) /\ e.poller = s.poller
      BY <1>2, <1>4, <2>1 DEF Steady, Shown, Measured
    <3> QED
      BY <1>1, <1>4, <1>5, <3>1, GiveUpKind DEF Spared
  <2>2. CASE poisoning /\ task[t].op = "connect"
    <3>1. /\ e.connector = s.connector /\ e.generation >= s.generation /\ e.state # "ready"
          /\ ConnectUnwind(t, e, ts, link.up, cancelled)
      BY <1>1, <1>2, <1>4, <2>2 DEF GiveUp
    <3> QED
      BY <1>4, <1>5, <2>2, <3>1, AbandonKind DEF Spared
  <2>3. CASE poisoning /\ task[t].op # "connect"
    <3>1. s' = e /\ task' = [ts EXCEPT ![t] = Idle]
      BY <1>1, <2>3 DEF GiveUp
    <3>2. /\ Apart(t, task') /\ task'[t].pc = "idle" /\ task'[t].op = "none"
          /\ \A u \in Tasks \ {t} : task'[u] = ts[u]
      BY <1>5, <3>1, IdleTypes DEF Apart, Idle
    <3>3. Stationed(t)'
      BY <3>2 DEF Stationed
    <3>4. PollsOver'
      BY <1>5, <2>3, <3>2, SessionAssumption DEF SessionAssumption, PollsOver
    <3>5. Breaks(t)
      BY <1>2, <1>4, <2>3, <3>1, <3>2, <3>4 DEF Breaks
    <3> QED
      BY <1>4, <3>1, <3>2, <3>3, <3>5 DEF Kind, Spared, Transacting
  <2> QED
    BY <2>1, <2>2, <2>3
<1>7. Unanswered(t)
  BY <1>6, TransactingOwns, TransactsAlone DEF Unanswered
<1> QED
  BY <1>6, <1>7

-----------------------------------------------------------------------------
(* Every action of a task is of one of the kinds. *)

Classified(t) == \E w \in {t, None} : Kind(w) /\ Unanswered(w)

(* A task at a request of its program may go on with it. *)
LEMMA EngagedPrepared ==
    ASSUME IInv, SInv, NEW t \in Tasks, task[t].pc \in Engaged
    PROVE  Prepared(t, s, task, task[t].op, task[t].step)
<1>1. /\ s \in Session /\ Apart(t, task) /\ task[t].step \in 1 .. Len(Program(task[t].op))
      /\ task[t].op \in AllOperations
  BY TaskApart, OperationOf DEF IInv, TypeOK, Engaged
<1>2. task[t].op \notin {"disconnect", "none"}
  <2>1. Program("disconnect") = <<>> /\ Program("none") = <<>>
    BY DataAssumption DEF DataAssumption, Program
  <2> QED
    BY <1>1, <2>1
<1>3. CASE task[t].op = "connect"
  <2>1. s.state # "ready"
    BY <1>3, DataAssumption DEF DataAssumption, SInv, OneSetup
  <2>2. Live(t) => /\ s.topology
                   /\ task[t].step >= 2 => s.authenticated
                   /\ task[t].step >= 5 => Shown(s)
    BY DEF SInv, Progress, Advanced
  <2>3. Setup(t, s, task, task[t].op, task[t].step)
    BY <1>3, <2>1, <2>2 DEF Setup
  <2> QED
    BY <1>1, <2>3 DEF Prepared
<1>4. CASE task[t].op # "connect"
  <2>1. Steady(s)
    BY DEF Steady
  <2>2. t \in Pollers => task[t].op \in {"refresh_config", "refresh_telemetry"} /\ task[t].pc # "idle"
    BY <1>2 DEF SInv, Stations, Stationed, Engaged, Transacting
  <2> QED
    <3>1. Ordinary(t, s, task, task[t].op)
      BY <1>2, <1>4, <2>1, <2>2 DEF Ordinary
    <3> QED
      BY <1>1, <3>1 DEF Prepared
<1> QED
  BY <1>3, <1>4

(* A waiter that was granted the slot. *)
LEMMA GrantedKind ==
    ASSUME IInv, SInv, NEW t \in Tasks, Granted(t)
    PROVE  Classified(t)
<1>1. /\ task[t].pc \in Engaged /\ holder = t
      /\ Prepared(t, s, task, task[t].op, task[t].step)
  BY EngagedPrepared DEF Granted, Engaged
<1>2. CASE Send(t, s, task, task[t].op, task[t].want, task[t].step)
  BY <1>1, <1>2, SendKind, OperationOf DEF Engaged, Classified
<1>3. CASE GiveUp(t, s, task, FALSE)
  BY <1>1, <1>3, PreparedGivesUp DEF Unanswered, Spared, Classified
<1> QED
  BY <1>2, <1>3 DEF Granted

(* A write that has landed. *)
LEMMA WriteDoneKind ==
    ASSUME IInv, SInv, NEW t \in Tasks, WriteDone(t)
    PROVE  Classified(t)
<1>1. /\ task[t].pc = "writing" /\ task[t].pc \in Transacting /\ task[t].pc \in Engaged
      /\ Prepared(t, s, task, task[t].op, task[t].step)
      /\ task \in [Tasks -> TaskState] /\ task[t] \in TaskState /\ s \in Session
  BY EngagedPrepared DEF WriteDone, Engaged, Transacting, IInv, TypeOK
<1>2. CASE Failed(t, PoisonCurrentClient(s), FALSE)
  BY <1>1, <1>2, FailedKind DEF Classified
<1>3. CASE /\ \/ task' = [task EXCEPT ![t].chunk = @ + 1]
              \/ task' = [task EXCEPT ![t].pc = "replying"]
           /\ s' = s
  <2>1. PICK r \in TaskState : /\ task' = [task EXCEPT ![t] = r]
                               /\ r.pc \in Transacting /\ r.op = task[t].op
                               /\ r.gen = task[t].gen /\ r.step = task[t].step
                               /\ r.cancel = task[t].cancel
    <3>1. /\ [task[t] EXCEPT !.chunk = @ + 1] \in TaskState
          /\ [task[t] EXCEPT !.pc = "replying"] \in TaskState
      BY <1>1 DEF TaskState, Places
    <3>2. task' \in {[task EXCEPT ![t] = [task[t] EXCEPT !.chunk = @ + 1]],
                     [task EXCEPT ![t] = [task[t] EXCEPT !.pc = "replying"]]}
      BY <1>1, <1>3
    <3> QED
      BY <1>1, <3>1, <3>2 DEF TaskState, Transacting
  <2>2. Kind(t)
    BY <1>1, <1>3, <2>1, EngageKind DEF Engaged
  <2>3. Unanswered(t)
    BY <1>1, <1>3, <2>1 DEF Unanswered, Spared, Stays
  <2> QED
    BY <2>2, <2>3 DEF Classified
<1> QED
  BY <1>2, <1>3 DEF WriteDone

(* Requests that fail. *)
LEMMA FailuresKind ==
    ASSUME IInv, SInv, NEW t \in Tasks,
           \/ WriteFailed(t) \/ WriteTimeout(t) \/ ReplyTimeout(t) \/ ReplyFailed(t)
           \/ UnwindWrite(t) \/ UnwindReply(t)
    PROVE  Classified(t)
<1>1. task[t].pc \in Transacting
  BY DEF WriteFailed, WriteTimeout, ReplyTimeout, ReplyFailed, Answered, UnwindWrite,
         UnwindReply, Transacting
<1>2. \E d \in {s, PoisonCurrentClient(s)}, cancelled \in BOOLEAN : Failed(t, d, cancelled)
  BY DEF WriteFailed, WriteTimeout, ReplyTimeout, ReplyFailed, UnwindWrite, UnwindReply
<1> QED
  BY <1>1, <1>2, FailedKind DEF Classified

(* The answer is taken and the session is otherwise as it was. *)
LEMMA TakenSteady ==
    IInv => /\ Taken \in Session /\ Steady(Taken) /\ Taken.poller = s.poller
            /\ Taken.config = s.config /\ Taken.telemetry = s.telemetry
            /\ Taken.pending.reply.kind = "none"
<1> SUFFICES ASSUME IInv
             PROVE  /\ Taken \in Session /\ Steady(Taken) /\ Taken.poller = s.poller
                    /\ Taken.config = s.config /\ Taken.telemetry = s.telemetry
                    /\ Taken.pending.reply.kind = "none"
  OBVIOUS
<1>1. Taken \in Session /\ s \in Session
  BY TakenForward DEF Forward, IInv, TypeOK
<1> QED
  BY <1>1 DEF Taken, NoPending, NoFrame, Session, Steady, Shown, Measured

(* A transaction that ends with the slot released disturbs nobody's answer. *)
LEMMA EndUnanswered ==
    ASSUME IInv, NEW t \in Tasks, task[t].pc \in Transacting, task'[t].pc \notin Transacting,
           Spared(t, s)
    PROVE  Unanswered(t)
  BY TransactingOwns, TransactsAlone DEF Unanswered

(* An answer to a request of connect(). *)
LEMMA SetupReplyKind ==
    ASSUME IInv, SInv, NEW t \in Tasks, SetupReply(t)
    PROVE  Classified(t)
<1> DEFINE d == IF task[t].step = 1
                THEN [Taken EXCEPT !.authenticated = TRUE, !.state = "loading"] ELSE Taken
           e == [d EXCEPT !.state = "ready", !.connector = None]
           k == task[t].step
           r == s.pending.reply
<1>1. /\ task[t].pc = "replying" /\ task[t].pc \in Transacting /\ task[t].pc \in Engaged
      /\ task[t].op = "connect" /\ r.kind = "frame"
      /\ task \in [Tasks -> TaskState] /\ task[t] \in TaskState
      /\ s \in Session /\ s.generation \in Nat /\ Apart(t, task)
      /\ t \notin Pollers /\ s.state # "ready" /\ s.connector = t
      /\ k \in 1 .. 5
  <2>1. /\ task[t].pc = "replying" /\ task[t].op = "connect" /\ r.kind = "frame"
    BY DEF SetupReply, Answered
  <2>2. k \in 1 .. 5
    <3>1. k \in 1 .. Len(Program("connect"))
      BY <2>1, OperationOf DEF Transacting
    <3> QED
      BY <3>1, DataAssumption DEF DataAssumption, Program
  <2>3. /\ task \in [Tasks -> TaskState] /\ task[t] \in TaskState
        /\ s \in Session /\ s.generation \in Nat /\ Apart(t, task)
    BY TaskApart DEF IInv, TypeOK, Session
  <2>4. t \notin Pollers
    BY <2>1 DEF SInv, Stations, Stationed
  <2>5. s.connector = t /\ s.state # "ready"
    BY <2>1, DataAssumption DEF DataAssumption, SInv, OneSetup
  <2> QED
    BY <2>1, <2>2, <2>3, <2>4, <2>5 DEF Transacting, Engaged
<1>2. /\ Taken \in Session /\ Steady(Taken)
      /\ Taken.config = s.config /\ Taken.telemetry = s.telemetry
      /\ Taken.pending.reply.kind = "none"
  BY TakenSteady
<1>3. /\ d \in Session /\ d.generation = s.generation /\ d.connector = s.connector
      /\ d.state # "ready" /\ d.topology = s.topology /\ d.poisoned = s.poisoned
      /\ k = 1 => d.authenticated
      /\ s.authenticated => d.authenticated
      /\ d.config = s.config /\ d.telemetry = s.telemetry
      /\ d.pending.reply.kind = "none"
  <2>1. CASE k = 1
    <3>1. /\ Taken.generation = s.generation /\ Taken.connector = s.connector
          /\ Taken.topology = s.topology /\ Taken.poisoned = s.poisoned
      BY <1>2 DEF Steady
    <3>2. d = [Taken EXCEPT !.authenticated = TRUE, !.state = "loading"]
      BY <2>1
    <3> HIDE DEF d
    <3> QED
      BY <1>2, <3>1, <3>2 DEF Session, States
  <2>2. CASE k # 1
    BY <1>1, <1>2, <2>2 DEF Steady
  <2> QED
    BY <2>1, <2>2
<1> HIDE DEF d
<1>4. ASSUME NEW f \in {Taken, d}, NEW cancelled \in BOOLEAN, GiveUp(t, f, task, cancelled)
      PROVE  Classified(t)
  <2>1. f \in Session /\ f.connector = s.connector /\ f.generation = s.generation /\ f.state # "ready"
    BY <1>1, <1>2, <1>3 DEF Steady
  <2>2. ConnectUnwind(t, f, task, link.up, cancelled)
    BY <1>1, <1>4 DEF GiveUp
  <2>3. Kind(t) /\ task'[t].pc \notin Transacting /\ Spared(t, s)
    <3>1. f.generation >= s.generation
      BY <1>1, <2>1
    <3>2. f.pending.reply.kind = "none"
      BY <1>2, <1>3
    <3>3. Kind(t) /\ task'[t].pc \notin Transacting /\ Spared(t, f)
      BY <1>1, <2>1, <2>2, <3>1, AbandonKind
    <3> QED
      BY <3>2, <3>3, SparedAtOnce
  <2> QED
    BY <1>1, <2>3, EndUnanswered DEF Classified
<1>5. CASE ~Current(t)
  BY <1>4, <1>5 DEF SetupReply
<1>6. CASE Current(t)
  <2>1. /\ Live(t) /\ ~s.poisoned /\ s.topology
        /\ k >= 2 => s.authenticated
        /\ k >= 5 => Shown(s)
    BY <1>1, <1>6, CurrentUnpoisoned DEF Live, Current, SInv, Progress, Advanced
  <2>2. CASE \E f \in {Taken, d} : GiveUp(t, f, task, FALSE)
    BY <1>4, <2>2
  <2>3. /\ k = 4 /\ r.op = "get_config" /\ r.layout => Shown(s)
        /\ k = 5 /\ r.op = "get_telemetry" /\ r.layout => Measured(s)
    BY <1>1, <2>1 DEF SInv, Answers, Applies
  <2>4. k \in {4, 5} => r.op = IF k = 4 THEN "get_config" ELSE "get_telemetry"
    <3>1. r.op = Opcode(Program("connect")[k])
      BY <1>1 DEF SInv, Answers, Matched, Request
    <3> QED
      BY <3>1, DataAssumption DEF DataAssumption, Program, Opcode
  <2>5. CASE /\ Leave(t, e, task) /\ k = 5
             /\ ~(r.op \in {"get_config", "get_telemetry"} /\ ~r.layout)
    <3>1. Measured(s) /\ Shown(s) /\ s.authenticated
      BY <2>1, <2>3, <2>4, <2>5
    <3>2. /\ s' = e /\ task' \in [Tasks -> TaskState]
          /\ \A u \in Tasks \ {t} : task'[u] = task[u]
          /\ task'[t].pc = "idle" /\ task'[t].op = "none"
      BY <1>1, <2>5, IdleTypes DEF Leave, Idle
    <3>3. /\ s'.state = "ready" /\ s'.connector = None /\ s'.generation = s.generation
          /\ s'.authenticated /\ s'.topology /\ ~s'.poisoned
          /\ s'.config = s.config /\ s'.telemetry = s.telemetry
          /\ s'.pending.reply.kind = "none"
      BY <1>3, <2>1, <3>1, <3>2 DEF Session, e
    <3>4. ReadyIsWhole'
      BY <3>1, <3>3 DEF ReadyIsWhole, Shown, Measured
    <3>5. Kind(t)
      BY <1>1, <2>1, <3>2, <3>3, <3>4 DEF Kind, Apart, Stationed, SetupOver
    <3> QED
      BY <1>1, <3>2, <3>3, <3>5, EndUnanswered, SparedAtOnce DEF Classified, Transacting
  <2>6. CASE /\ NextTransaction(t, d, task, k + 1)
             /\ k # Len(Program("connect"))
             /\ ~(r.op \in {"get_config", "get_telemetry"} /\ ~r.layout)
    <3>1. k + 1 \in 1 .. Len(Program(task[t].op))
      BY <1>1, <2>6, OperationOf DEF Program
    <3>2. /\ k + 1 >= 2 => d.authenticated
          /\ k + 1 >= 5 => Shown(d)
      BY <1>1, <1>3, <2>1, <2>3, <2>4, <2>6 DEF Shown
    <3>3. Prepared(t, d, task, "connect", k + 1)
      BY <1>1, <1>3, <2>1, <3>2 DEF Prepared, Setup
    <3>4. CASE Continue(t, d, task, k + 1)
      BY <1>1, <1>3, <3>1, <3>3, <3>4, ContinueKind DEF Classified
    <3>5. CASE s' = d /\ task' = [task EXCEPT ![t].pc = "queued", ![t].step = k + 1]
      <4> DEFINE q == [task[t] EXCEPT !.pc = "queued", !.step = k + 1]
      <4>1. /\ q \in TaskState /\ q.pc = "queued" /\ q.op = "connect" /\ q.step = k + 1
            /\ q.gen = task[t].gen /\ q.cancel = task[t].cancel
        <5>1. k + 1 \in Nat
          BY <1>1
        <5> QED
          BY <1>1, <5>1 DEF TaskState, Places
      <4>2. task' = [task EXCEPT ![t] = q]
        BY <3>5
      <4> HIDE DEF q
      <4>3. /\ task' \in [Tasks -> TaskState] /\ task'[t] = q
            /\ \A u \in Tasks \ {t} : task'[u] = task[u]
        BY <1>1, <4>1, <4>2
      <4>4. s' \in Session /\ task'[t].pc \in Engaged
        BY <1>3, <3>5, <4>1, <4>3 DEF Engaged
      <4>5. Kind(t)
        BY <3>3, <3>5, <4>1, <4>3, <4>4, EngageKind
      <4> QED
        BY <1>1, <1>3, <3>5, <4>1, <4>3, <4>5, EndUnanswered, SparedAtOnce
           DEF Classified, Transacting
    <3> QED
      BY <2>6, <3>4, <3>5 DEF NextTransaction
  <2>7. Len(Program("connect")) = 5
    BY DataAssumption DEF DataAssumption, Program
  <2> QED
    BY <1>6, <2>2, <2>5, <2>6, <2>7 DEF SetupReply, d
<1> QED
  BY <1>5, <1>6

(* Ambiguities are not part of what the setup is about. *)
LEMMA AmbiguitiesAside ==
    ASSUME NEW d \in Session, Steady(d), d.poller = s.poller,
           NEW a, NEW e \in Session, e = [d EXCEPT !.ambiguities = a]
    PROVE  Steady(e) /\ e.poller = s.poller
<1>1. /\ e.state = d.state /\ e.generation = d.generation /\ e.connector = d.connector
      /\ e.topology = d.topology /\ e.authenticated = d.authenticated
      /\ e.poisoned = d.poisoned /\ e.poller = d.poller
      /\ e.config = d.config /\ e.telemetry = d.telemetry
  BY DEF Session
<1> QED
  BY <1>1 DEF Steady, Shown, Measured

(* An answer to a request of a reader, a setter, Start or Stop. *)
LEMMA OperationReplyKind ==
    ASSUME IInv, SInv, NEW t \in Tasks, OperationReply(t)
    PROVE  Classified(t)
<1> DEFINE r == s.pending.reply
           k == task[t].step
           acked == [task EXCEPT ![t].ack = r.ack]
           outcome == OutcomeOf(Request(t), task[t].want)
           marked == MarkAmbiguous(Taken, outcome)
<1>1. /\ task[t].pc = "replying" /\ task[t].pc \in Transacting /\ task[t].pc \in Engaged
      /\ task[t].op # "connect" /\ ~task[t].cancel
      /\ task \in [Tasks -> TaskState] /\ task[t] \in TaskState /\ s \in Session
      /\ Apart(t, task)
  BY TaskApart DEF OperationReply, Answered, Transacting, Engaged, IInv, TypeOK
<1>2. /\ Taken \in Session /\ Steady(Taken) /\ Taken.poller = s.poller
      /\ Taken.pending.reply.kind = "none"
  BY TakenSteady
<1>3. /\ task[t].op \in AllOperations /\ task[t].want \in Targets
      /\ k \in 1 .. Len(Program(task[t].op))
  BY <1>1, OperationOf
<1>4. Ordinary(t, s, task, task[t].op)
  BY <1>1, EngagedPrepared DEF Prepared, Setup
<1>5. ASSUME NEW d \in Session, Steady(d), d.poller = s.poller,
             NEW ts, Apart(t, ts), ts[t].op = task[t].op, ts[t].gen = task[t].gen,
             ts[t].cancel = task[t].cancel, NEW j
      PROVE  Prepared(t, d, ts, task[t].op, j)
  BY <1>4, <1>5 DEF Prepared, Ordinary
<1>6. CASE Request(t) \in Mutations /\ Continue(t, marked, acked, k + 1)
  <2>1. outcome \in Outcome
    BY <1>3, <1>6, OutcomeTypes
  <2>2. marked \in Session
    BY <1>2, <2>1, MarkKeeps DEF Kept
  <2>3. Steady(marked) /\ marked.poller = s.poller
    BY <1>2, <2>2, AmbiguitiesAside DEF MarkAmbiguous
  <2>4. k + 1 \in 1 .. Len(Program(task[t].op))
    BY <1>3, <1>6, ProgramTypes DEF Request
  <2>5. r.ack \in {OFF, ON, Unknown}
    BY <1>1 DEF Session, Pending, Frame
  <2>6. [task[t] EXCEPT !.ack = r.ack] \in TaskState
    BY <1>1, <2>5 DEF TaskState
  <2>7. /\ Apart(t, acked) /\ acked[t].op = task[t].op /\ acked[t].gen = task[t].gen
        /\ acked[t].cancel = task[t].cancel
    BY <1>1, <2>6 DEF Apart, TaskState
  <2>9. marked.pending.reply.kind # "failed"
    BY <1>2 DEF MarkAmbiguous, Session
  <2> HIDE DEF marked, acked, k
  <2>8. Prepared(t, marked, acked, task[t].op, k + 1)
    BY <1>5, <2>2, <2>3, <2>7
  <2> QED
    BY <1>1, <1>6, <2>4, <2>8, <2>9, ContinueKind DEF Classified
<1>7. CASE GiveUp(t, Taken, task, FALSE)
  <2>1. Kind(t) /\ task'[t].pc \notin Transacting /\ Spared(t, Taken)
    BY <1>1, <1>2, <1>7, GiveUpKind
  <2>2. Spared(t, s)
    BY <1>2, <2>1, SparedAtOnce
  <2> QED
    BY <1>1, <2>1, <2>2, EndUnanswered DEF Classified
<1>8. CASE Leave(t, Confirm(t, r), task)
  <2>1. Confirm(t, r) \in Session
    BY ConfirmForward DEF Forward
  <2>2. Steady(Confirm(t, r)) /\ Confirm(t, r).poller = s.poller
    <3>1. \/ Confirm(t, r) = Taken
          \/ \E operation, values : Confirm(t, r) = ResolveAmbiguity(Taken, operation, values)
      BY DEF Confirm
    <3> QED
      BY <1>2, <2>1, <3>1, AmbiguitiesAside DEF ResolveAmbiguity
  <2>6. Confirm(t, r).pending.reply.kind = "none"
    BY <1>2 DEF Confirm, ResolveAmbiguity, Session
  <2>3. /\ s' = Confirm(t, r) /\ task' \in [Tasks -> TaskState]
        /\ \A u \in Tasks \ {t} : task'[u] = task[u]
        /\ task'[t].pc \in {"idle", "sleeping"} /\ task'[t].op = "none"
    BY <1>1, <1>8, IdleTypes DEF Leave, Idle, Sleeping
  <2>4. Apart(t, task') /\ Stationed(t)'
    BY <2>3 DEF Apart, Stationed
  <2>5. Kind(t)
    BY <1>1, <2>2, <2>3, <2>4, WorkKind
  <2> QED
    BY <1>1, <2>3, <2>5, <2>6, EndUnanswered, SparedAtOnce DEF Classified, Transacting
<1>9. CASE k # Len(Program(task[t].op)) /\ Continue(t, Taken, task, k + 1)
  <2>1. k + 1 \in 1 .. Len(Program(task[t].op))
    <3>1. Len(Program(task[t].op)) \in Nat
      BY <1>3, DataAssumption DEF DataAssumption, Program, AllOperations
    <3> QED
      BY <1>3, <1>9, <3>1
  <2>2. Prepared(t, Taken, task, task[t].op, k + 1)
    BY <1>1, <1>2, <1>5
  <2> QED
    BY <1>1, <1>2, <1>9, <2>1, <2>2, ContinueKind DEF Classified
<1> QED
  BY <1>6, <1>7, <1>8, <1>9 DEF OperationReply

(* A step on which no task moves and that leaves the setup's part of the session. *)
LEMMA StillKind ==
    ASSUME IInv, SInv, Apart(None, task'), Steady(s'), s'.poller = s.poller,
           Stays(s.pending, s'.pending), s'.pending.reply.kind = s.pending.reply.kind
    PROVE  Classified(None)
<1>1. None \notin Tasks /\ None \notin Pollers
  BY DataAssumption, SessionAssumption DEF DataAssumption, SessionAssumption
<1>2. Kind(None)
  BY <1>1, WorkKind
<1>3. Unanswered(None)
  BY <1>1 DEF Unanswered, Spared
<1> QED
  BY <1>2, <1>3 DEF Classified

(* The native stack, the radio, the charger and the detached release() do not touch the
   session; a teardown touches its own fields, time only what is fresh. *)
LEMMA WorldKind ==
    ASSUME IInv, SInv, HandBack \/ TeardownStarts \/ TeardownEnds \/ Environment
    PROVE  Classified(None)
<1>1. Apart(None, task) /\ s \in Session
  BY TaskApart DEF IInv, TypeOK
<1>2. CASE UNCHANGED <<s, task>>
  BY <1>1, <1>2, StillKind DEF Steady, Stays
<1>3. CASE /\ UNCHANGED task
           /\ \/ \E d, x : s' = [s EXCEPT !.teardown = d, !.expected = x]
              \/ s' = [s EXCEPT !.config.fresh = FALSE]
              \/ s' = [s EXCEPT !.telemetry.fresh = FALSE]
  <2>1. /\ s'.state = s.state /\ s'.generation = s.generation /\ s'.connector = s.connector
        /\ s'.topology = s.topology /\ s'.authenticated = s.authenticated
        /\ s'.poisoned = s.poisoned /\ s'.poller = s.poller /\ s'.pending = s.pending
        /\ s'.config.known = s.config.known /\ s'.config.origin = s.config.origin
        /\ s'.telemetry.known = s.telemetry.known /\ s'.telemetry.origin = s.telemetry.origin
    <3>1. CASE s' = [s EXCEPT !.config.fresh = FALSE]
      <4>1. s' = [s EXCEPT !.config = [s.config EXCEPT !.fresh = FALSE]]
        BY <3>1
      <4>2. /\ [s.config EXCEPT !.fresh = FALSE].known = s.config.known
            /\ [s.config EXCEPT !.fresh = FALSE].origin = s.config.origin
        BY <1>1 DEF Session, Readback
      <4> QED
        BY <1>1, <4>1, <4>2 DEF Session
    <3>2. CASE s' = [s EXCEPT !.telemetry.fresh = FALSE]
      <4>1. s' = [s EXCEPT !.telemetry = [s.telemetry EXCEPT !.fresh = FALSE]]
        BY <3>2
      <4>2. /\ [s.telemetry EXCEPT !.fresh = FALSE].known = s.telemetry.known
            /\ [s.telemetry EXCEPT !.fresh = FALSE].origin = s.telemetry.origin
        BY <1>1 DEF Session, OutputReading
      <4> QED
        BY <1>1, <4>1, <4>2 DEF Session
    <3>3. CASE \E d, x : s' = [s EXCEPT !.teardown = d, !.expected = x]
      BY <1>1, <3>3 DEF Session
    <3> QED
      BY <1>3, <3>1, <3>2, <3>3
  <2> QED
    BY <1>1, <1>3, <2>1, StillKind DEF Steady, Stays, Shown, Measured
<1>4. HandBack => UNCHANGED <<s, task>>
  BY DEF HandBack
<1>5. TeardownStarts \/ TeardownEnds =>
         UNCHANGED task /\ \E d, x : s' = [s EXCEPT !.teardown = d, !.expected = x]
  BY DEF TeardownStarts, TeardownEnds
<1>6. Expire => /\ UNCHANGED task
                /\ \/ s' = [s EXCEPT !.config.fresh = FALSE]
                   \/ s' = [s EXCEPT !.telemetry.fresh = FALSE]
  BY DEF Expire
<1>7. Environment => Expire \/ UNCHANGED <<s, task>>
  BY DEF Environment, NativeLands, NativeCompletes, NativeFails, OrphanEnds, ChargerHandles,
         ChargerMisbehaves, Panel, Unsolicited, NoiseArrives, LinkLoss
<1> QED
  BY <1>2, <1>3, <1>4, <1>5, <1>6, <1>7

(* cancel() of a task, a cancelled waiter or sleeper, and a setup that is unwound. *)
LEMMA CancelKind ==
    ASSUME IInv, SInv, NEW t \in Tasks, NEW ts, Apart(None, ts), CancelTask(ts, t)
    PROVE  Apart(None, task')
<1>1. ts \in [Tasks -> TaskState] /\ ts[t] \in TaskState /\ None \notin Tasks
  BY DataAssumption DEF DataAssumption, Apart
<1>2. task' = [ts EXCEPT ![t] = [ts[t] EXCEPT !.cancel = TRUE]]
  BY DEF CancelTask
<1>3. [ts[t] EXCEPT !.cancel = TRUE] \in TaskState
  BY <1>1 DEF TaskState
<1> QED
  BY <1>1, <1>2, <1>3 DEF Apart, TaskState

LEMMA AbandonClassified ==
    ASSUME IInv, SInv, NEW t \in Tasks, task[t].op = "connect",
           task[t].pc \notin Transacting, NEW ts, Apart(t, ts), ts[t].op = "connect",
           ts[t].gen = task[t].gen, NEW up, NEW cancelled \in BOOLEAN,
           ConnectUnwind(t, s, ts, up, cancelled)
    PROVE  Classified(t)
<1>1. s \in Session /\ s.generation >= s.generation /\ s.state # "ready"
  BY DataAssumption DEF DataAssumption, IInv, TypeOK, Session, SInv, OneSetup
<1>2. /\ Kind(t) /\ Stays(s.pending, s'.pending) /\ Spared(t, s)
      /\ task'[t].pc \notin Transacting
  BY <1>1, AbandonKind
<1> QED
  BY <1>2 DEF Classified, Unanswered

LEMMA CancellationsKind ==
    ASSUME IInv, SInv, NEW t \in Tasks,
           CancelCall(t) \/ UnwindQueued(t) \/ UnwindSleep(t) \/ UnwindSetup(t)
    PROVE  Classified(t)
<1>1. /\ Apart(None, task) /\ Apart(t, task) /\ s \in Session
      /\ task \in [Tasks -> TaskState] /\ Steady(s)
  BY TaskApart DEF IInv, TypeOK, Steady
<1>2. CASE CancelCall(t)
  <2>1. Apart(None, task') /\ s' = s
    BY <1>1, <1>2, CancelKind DEF CancelCall
  <2> QED
    BY <1>1, <2>1, StillKind DEF Stays, Steady, Classified
<1>3. CASE UnwindQueued(t)
  <2>1. GiveUp(t, s, task, TRUE)
    BY <1>3 DEF UnwindQueued
  <2>2. /\ Kind(t) /\ Stays(s.pending, s'.pending) /\ Spared(t, s)
        /\ task'[t].pc \notin Transacting
    BY <1>1, <2>1, GiveUpKind
  <2> QED
    BY <2>2 DEF Classified, Unanswered
<1>4. CASE UnwindSleep(t)
  <2>1. task[t].op = "none" /\ s' = s /\ task' = [task EXCEPT ![t] = Idle]
    BY <1>4 DEF UnwindSleep, SInv, Stations, Stationed
  <2>2. Apart(t, task') /\ task'[t].pc = "idle" /\ task'[t].op = "none"
    BY <1>1, <2>1, IdleTypes DEF Apart, Idle
  <2>3. Stationed(t)' /\ Steady(s')
    BY <1>1, <2>1, <2>2 DEF Stationed, Steady
  <2>4. Kind(t)
    BY <2>1, <2>2, <2>3, WorkKind
  <2> QED
    BY <2>1, <2>2, <2>4 DEF Classified, Unanswered, Spared, Stays, Transacting
<1>5. CASE UnwindSetup(t)
  <2>1. task[t].op = "connect" /\ task[t].pc \notin Transacting
    BY <1>5 DEF UnwindSetup, IInv, SetupPlaces, Transacting
  <2> QED
    BY <1>1, <1>5, <2>1, AbandonClassified DEF UnwindSetup
<1> QED
  BY <1>2, <1>3, <1>4, <1>5

-----------------------------------------------------------------------------
(* The calls. *)

(* A caller that is idle executes nothing. *)
LEMMA CallerIdle ==
    ASSUME IInv, SInv, NEW t \in Tasks, NEW op, Calling(t, op)
    PROVE  /\ task[t].op = "none" /\ task[t].pc = "idle" /\ task[t].pc \notin Transacting
           /\ t \notin Pollers /\ t # None
  BY DataAssumption, SessionAssumption
     DEF DataAssumption, SessionAssumption, Calling, SInv, Stations, Stationed, Transacting

(* A method that makes requests enters the slot. *)
LEMMA EnterKind ==
    ASSUME IInv, SInv, NEW t \in Tasks, task[t].pc \notin Transacting,
           NEW op \in Setters \cup {"start", "stop", "refresh_config", "refresh_telemetry"},
           NEW want \in Targets, NEW d \in Session, Steady(d), d.pending = s.pending,
           d.poller = s.poller \/ (PollsOver /\ t \notin Pollers),
           t \in Pollers => /\ op \in {"refresh_config", "refresh_telemetry"}
                            /\ task[t].pc # "idle",
           NEW ts, Apart(t, ts), ts[t].gen = task[t].gen, ts[t].cancel = task[t].cancel,
           task[t].op # "connect", ts[t].op # "connect", Begin(t, d, ts, op, want, 1)
    PROVE  Classified(t)
<1>1. op \in AllOperations /\ 1 \in 1 .. Len(Program(op))
  BY ProgramNonempty
<1>2. op \notin {"connect", "disconnect", "none"}
  BY DataAssumption DEF DataAssumption
<1>3. Ordinary(t, d, ts, op)
  BY <1>2 DEF Ordinary
<1>4. Prepared(t, d, ts, op, 1)
  BY <1>3 DEF Prepared
<1> QED
  BY <1>1, <1>4, BeginKind DEF Classified

(* Readers, setters and Start enter the slot of a READY session. *)
Requested(t, op, want) ==
    /\ Calling(t, op) /\ Readable(s, link.up, FALSE)
    /\ Begin(t, s, task, op, want, 1)
    /\ UNCHANGED <<orphans, world, faults>>

LEMMA RequestCalled ==
    ASSUME NEW t \in Tasks,
           \/ \E op \in {"refresh_config", "refresh_telemetry"} : CallRead(t, op)
           \/ \E op \in Setters, v \in Levels : CallSetter(t, op, v)
           \/ \E confirmed \in Confirmed : CallStart(t, confirmed)
    PROVE  \E op \in Setters \cup {"start", "refresh_config", "refresh_telemetry"},
              want \in Targets : Requested(t, op, want)
<1>1. CASE \E op \in {"refresh_config", "refresh_telemetry"} : CallRead(t, op)
  BY <1>1, BlankTypes DEF CallRead, Requested
<1>2. ASSUME NEW op \in Setters, NEW v \in Levels, CallSetter(t, op, v)
      PROVE  \E want \in Targets : Requested(t, op, want)
  <2>1. [NoTarget EXCEPT ![op] = v] \in Targets
    BY BlankTypes DEF Targets
  <2> QED
    BY <1>2, <2>1 DEF CallSetter, ControlContext, Requested
<1>3. ASSUME NEW confirmed \in Confirmed, CallStart(t, confirmed)
      PROVE  \E want \in Targets : Requested(t, "start", want)
  <2>1. confirmed \in Targets
    BY SessionAssumption DEF SessionAssumption, Targets
  <2> QED
    BY <1>3, <2>1 DEF CallStart, PrecheckStartContext, Requested
<1> QED
  BY <1>1, <1>2, <1>3

(* Readers, setters and Start. *)
LEMMA CallRequestKind ==
    ASSUME IInv, SInv, NEW t \in Tasks,
           \/ \E op \in {"refresh_config", "refresh_telemetry"} : CallRead(t, op)
           \/ \E op \in Setters, v \in Levels : CallSetter(t, op, v)
           \/ \E confirmed \in Confirmed : CallStart(t, confirmed)
    PROVE  Classified(t)
<1>1. s \in Session /\ Steady(s) /\ Apart(t, task)
  BY TaskApart DEF IInv, TypeOK, Steady
<1>2. PICK op \in Setters \cup {"start", "refresh_config", "refresh_telemetry"}, want \in Targets :
         Calling(t, op) /\ Begin(t, s, task, op, want, 1)
  BY RequestCalled DEF Requested
<1>3. task[t].op = "none" /\ task[t].pc \notin Transacting /\ t \notin Pollers
  BY <1>2, CallerIdle
<1> QED
  BY <1>1, <1>2, <1>3, EnterKind

(* Waiting for the poll to end: it has been cancelled. *)
LEMMA QuietingQuiets ==
    ASSUME IInv, SInv, NEW t \in Tasks, t \notin Pollers,
           NEW op \in {"stop", "stop_polling", "disconnect"},
           NEW d, NEW joins \in Tasks \cup {None}, Quieting(t, op, d, joins)
    PROVE  /\ s' = d /\ Apart(t, task') /\ Stationed(t)' /\ PollsOver'
           /\ task'[t].op = op /\ task'[t].pc = "quieting" /\ task'[t].joins = joins
<1> DEFINE i == Idle
           r == [i EXCEPT !.op = op, !.pc = "quieting", !.awaits = s.poller, !.joins = joins]
           ts == CancelPoll(task, t)
<1>1. s' = d /\ task' = [ts EXCEPT ![t] = r]
  BY DEF Quieting
<1>2. s.poller \in Tasks \cup {None}
  BY DataAssumption DEF DataAssumption, IInv, TypeOK, Session
<1>3. i \in TaskState /\ op \in AllOperations
  BY IdleTypes DEF AllOperations
<1> HIDE DEF i
<1>4. r \in TaskState /\ r.pc = "quieting" /\ r.op = op /\ r.joins = joins
  BY <1>2, <1>3 DEF TaskState, Places
<1> HIDE DEF r
<1>5. Apart(t, ts) /\ \A p \in Pollers \ {t} : ts[p].pc = "idle" \/ ts[p].cancel
  BY CancelPollApart DEF SInv
<1> HIDE DEF ts
<1>6. /\ task' \in [Tasks -> TaskState] /\ task'[t] = r
      /\ \A u \in Tasks \ {t} : task'[u] = ts[u]
  BY <1>1, <1>4, <1>5 DEF Apart
<1>7. Apart(t, task') /\ PollsOver'
  BY <1>5, <1>6, SessionAssumption DEF SessionAssumption, Apart, PollsOver
<1>8. Stationed(t)'
  BY <1>4, <1>6 DEF Stationed
<1> QED
  BY <1>1, <1>4, <1>6, <1>7, <1>8

(* The session once the polling is off. *)
LEMMA PollingOffSteady ==
    IInv => PollingOff \in Session /\ Steady(PollingOff) /\ PollingOff.pending = s.pending
<1> SUFFICES ASSUME IInv
             PROVE  PollingOff \in Session /\ Steady(PollingOff) /\ PollingOff.pending = s.pending
  OBVIOUS
<1>1. s \in Session
  BY DEF IInv, TypeOK
<1>2. /\ PollingOff \in Session
      /\ PollingOff.state = s.state /\ PollingOff.generation = s.generation
      /\ PollingOff.connector = s.connector /\ PollingOff.topology = s.topology
      /\ PollingOff.authenticated = s.authenticated /\ PollingOff.poisoned = s.poisoned
      /\ PollingOff.config = s.config /\ PollingOff.telemetry = s.telemetry
      /\ PollingOff.pending = s.pending
  BY <1>1 DEF PollingOff, Session
<1> QED
  BY <1>2 DEF Steady, Shown, Measured

(* If the session remembers no live poll, there is none to cancel. *)
LEMMA NoLivePoll ==
    ASSUME SInv, ~PollLive
    PROVE  PollsOver
  BY SessionAssumption DEF SessionAssumption, SInv, PollReachable, PollsOver, PollLive

(* Stop, and the end of polling. *)
LEMMA CallStopKind ==
    ASSUME IInv, SInv, NEW t \in Tasks, CallStop(t) \/ CallStopPolling(t)
    PROVE  Classified(t)
<1>1. /\ task[t].op = "none" /\ task[t].pc \notin Transacting /\ t \notin Pollers
      /\ Apart(t, task)
  BY CallerIdle, TaskApart DEF CallStop, CallStopPolling
<1>2. PollingOff \in Session /\ Steady(PollingOff) /\ PollingOff.pending = s.pending
  BY PollingOffSteady
<1>3. ASSUME NEW op \in {"stop", "stop_polling"}, Quieting(t, op, PollingOff, None)
      PROVE  Classified(t)
  <2>1. /\ s' = PollingOff /\ Apart(t, task') /\ Stationed(t)' /\ PollsOver'
        /\ task'[t].op = op /\ task'[t].pc = "quieting"
    BY <1>1, <1>3, QuietingQuiets
  <2>2. PollReachable'
    BY <2>1 DEF PollsOver, PollReachable
  <2>3. Kind(t)
    BY <1>1, <1>2, <2>1, <2>2 DEF Kind, Works
  <2> QED
    BY <1>2, <2>1, <2>3 DEF Classified, Unanswered, Spared, Stays, Transacting
<1>4. CASE ~PollLive /\ Begin(t, PollingOff, task, "stop", NoTarget, 1)
  BY <1>1, <1>2, <1>4, NoLivePoll, EnterKind, BlankTypes
<1> QED
  BY <1>3, <1>4 DEF CallStop, CallStopPolling

(* It is the new poll that such a call moves, if anybody. *)
PollMoves ==
    \E p \in Tasks \cup {None} :
        /\ Classified(p)
        /\ p \in Tasks => task'[p].op = "none"

(* A poll starts only when no other is left to cancel, and the session remembers it. *)
LEMMA CallStartPollingKind ==
    ASSUME IInv, SInv, NEW t \in Tasks, CallStartPolling(t)
    PROVE  PollMoves
<1>1. /\ s \in Session /\ task \in [Tasks -> TaskState] /\ s.state = "ready"
      /\ Apart(None, task)
  BY TaskApart DEF CallStartPolling, Readable, IInv, TypeOK
<1>2. ASSUME s' = [s EXCEPT !.polling = TRUE], UNCHANGED task
      PROVE  Classified(None)
  <2>1. /\ s'.state = s.state /\ s'.generation = s.generation /\ s'.connector = s.connector
        /\ s'.topology = s.topology /\ s'.authenticated = s.authenticated
        /\ s'.poisoned = s.poisoned /\ s'.poller = s.poller /\ s'.pending = s.pending
        /\ s'.config = s.config /\ s'.telemetry = s.telemetry
    BY <1>1, <1>2 DEF Session
  <2> QED
    BY <1>1, <1>2, <2>1, StillKind DEF Steady, Stays, Shown, Measured
<1>3. ASSUME ~PollLive, NEW p \in Pollers, task[p].pc = "idle",
             s' = [s EXCEPT !.polling = TRUE, !.poller = p],
             task' = [task EXCEPT ![p] = Sleeping]
      PROVE  Classified(p) /\ p \in Tasks /\ task'[p].op = "none"
  <2>1. p \in Tasks /\ \A q \in Pollers : q \in Tasks
    BY SessionAssumption DEF SessionAssumption
  <2>2. /\ s'.state = s.state /\ s'.generation = s.generation /\ s'.connector = s.connector
        /\ s'.topology = s.topology /\ s'.authenticated = s.authenticated
        /\ s'.poisoned = s.poisoned /\ s'.poller = p /\ s'.pending = s.pending
        /\ s'.config = s.config /\ s'.telemetry = s.telemetry
    BY <1>1, <1>3 DEF Session
  <2>3. /\ task' \in [Tasks -> TaskState] /\ \A u \in Tasks \ {p} : task'[u] = task[u]
        /\ task'[p].pc = "sleeping" /\ task'[p].op = "none"
    BY <1>1, <1>3, <2>1, IdleTypes DEF Sleeping, Idle
  <2>4. Apart(p, task') /\ Stationed(p)' /\ Steady(s')
    BY <2>2, <2>3 DEF Apart, Stationed, Steady, Shown, Measured
  <2>5. PollReachable'
    BY <1>1, <1>3, <2>1, <2>2, <2>3, NoLivePoll DEF PollsOver, PollReachable
  <2>6. task[p].op = "none"
    BY <1>3, <2>1 DEF SInv, Stations, Stationed
  <2>7. Kind(p)
    BY <2>3, <2>4, <2>5, <2>6 DEF Kind, Works
  <2> QED
    BY <2>1, <2>2, <2>3, <2>7 DEF Classified, Unanswered, Spared, Stays, Transacting
<1>4. ASSUME NEW p \in Tasks \cup {None}, Classified(p), p \in Tasks => task'[p].op = "none"
      PROVE  PollMoves
  BY <1>4 DEF PollMoves
<1>5. CASE s' = [s EXCEPT !.polling = TRUE] /\ UNCHANGED task
  BY <1>2, <1>4, <1>5, DataAssumption DEF DataAssumption
<1>6. CASE \E p \in Pollers : /\ ~PollLive /\ task[p].pc = "idle"
                             /\ s' = [s EXCEPT !.polling = TRUE, !.poller = p]
                             /\ task' = [task EXCEPT ![p] = Sleeping]
  BY <1>3, <1>4, <1>6
<1> QED
  BY <1>5, <1>6 DEF CallStartPolling

(* A poll cycle starts, or the poll finds that it is no longer wanted. *)
LEMMA PollWakeKind ==
    ASSUME IInv, SInv, NEW t \in Tasks, PollWake(t)
    PROVE  Classified(t)
<1>1. /\ s \in Session /\ task \in [Tasks -> TaskState] /\ Steady(s) /\ Apart(t, task)
      /\ task[t].pc = "sleeping" /\ task[t].pc \notin Transacting /\ task[t].op = "none"
  BY TaskApart DEF PollWake, IInv, TypeOK, Steady, Transacting, SInv, Stations, Stationed
<1>2. CASE s' = s /\ task' = [task EXCEPT ![t] = Idle]
  <2>1. Apart(t, task') /\ task'[t].pc = "idle" /\ task'[t].op = "none"
    BY <1>1, <1>2, IdleTypes DEF Apart, Idle
  <2>2. Stationed(t)' /\ Steady(s')
    BY <1>2, <2>1 DEF Stationed, Steady
  <2>3. Kind(t)
    BY <1>1, <1>2, <2>1, <2>2, WorkKind
  <2> QED
    BY <1>2, <2>1, <2>3 DEF Classified, Unanswered, Spared, Stays, Transacting
<1>3. CASE \E op \in {"refresh_config", "refresh_telemetry"} : Begin(t, s, task, op, NoTarget, 1)
  BY <1>1, <1>3, EnterKind, BlankTypes
<1> QED
  BY <1>2, <1>3 DEF PollWake

-----------------------------------------------------------------------------
(* connect(). *)

(* A generation that ends without any task moving. *)
LEMMA BreakStill ==
    ASSUME IInv, SInv, Apart(None, task'), s'.generation > s.generation,
           s'.state # "ready", s'.connector = s.connector, PollsOver',
           Stays(s.pending, s'.pending)
    PROVE  Classified(None)
<1>1. None \notin Tasks
  BY DataAssumption DEF DataAssumption
<1>2. Kind(None)
  BY <1>1 DEF Kind, Breaks
<1> QED
  BY <1>1, <1>2 DEF Classified, Unanswered, Spared, Ending

(* The next generation of the session, which forgets what it knew. *)
LEMMA NextGeneration ==
    ASSUME IInv
    PROVE  LET d == [s EXCEPT !.generation = @ + 1]
           IN /\ d \in Session /\ d.generation = s.generation + 1
              /\ d.generation > s.generation /\ d.pending = s.pending
              /\ d.connector = s.connector /\ d.state = s.state
<1>1. s \in Session /\ s.generation \in Nat
  BY DEF IInv, TypeOK, Session
<1> QED
  BY <1>1 DEF Session

(* connect() is called: refused by the gate, it still ends the generation. *)
LEMMA CallConnectKind ==
    ASSUME IInv, SInv, NEW t \in Tasks, CallConnect(t)
    PROVE  Classified(t)
<1> DEFINE n == [s EXCEPT !.generation = @ + 1]
           d == ForgetConnection(n)
           started == [d EXCEPT !.poisoned = FALSE, !.connector = t, !.state = "connecting"]
           i == Idle
           q == [i EXCEPT !.op = "connect", !.pc = "linking", !.gen = d.generation]
           ts == [task EXCEPT ![t] = q]
<1>1. /\ task[t].op = "none" /\ task[t].pc \notin Transacting /\ t \notin Pollers
      /\ s.connector = None /\ s.state # "ready" /\ ~Leaving
      /\ task \in [Tasks -> TaskState] /\ Apart(None, task)
  BY CallerIdle, TaskApart DEF CallConnect, MayConnect, Leaving, IInv, TypeOK
<1>2. /\ n \in Session /\ n.generation > s.generation /\ n.pending = s.pending
      /\ n.connector = s.connector /\ n.state = s.state
  BY NextGeneration
<1> HIDE DEF n
<1>3. /\ d \in Session /\ d.generation > s.generation /\ d.pending = s.pending
      /\ d.connector = s.connector /\ d.state = s.state
  BY <1>2, ForgetLeaves
<1>4. d.generation \in Nat
  BY <1>3 DEF Session
<1> HIDE DEF d
<1>5. CASE s' = d /\ UNCHANGED task
  <2>1. PollsOver'
    BY <1>1, <1>5, NoPollsUnlessReady DEF PollsOver, SInv
  <2> QED
    BY <1>1, <1>3, <1>5, <2>1, BreakStill DEF Stays, Classified
<1>6. /\ started.connector = t /\ started.state = "connecting" /\ started.pending = s.pending
      /\ started.generation > s.generation /\ ~started.poisoned /\ started \in Session
  BY <1>3 DEF Session, States
<1> HIDE DEF started
<1>7. i \in TaskState /\ i.pc = "idle"
  BY IdleTypes DEF Idle
<1> HIDE DEF i
<1>8. q \in TaskState /\ q.pc = "linking" /\ q.op = "connect"
  BY <1>4, <1>7 DEF TaskState, Places, AllOperations
<1>9. ASSUME NEW r \in TaskState, r.op = "connect", r.pc \in {"linking", "cleaning"},
             task' = [task EXCEPT ![t] = r],
             s'.connector = t, s'.state = "connecting", s'.pending = s.pending,
             s'.generation > s.generation
      PROVE  Classified(t)
  <2>1. /\ Apart(t, task') /\ task'[t] = r
    BY <1>1, <1>9 DEF Apart
  <2>2. Stationed(t)' /\ Connects(t)
    BY <1>1, <1>9, <2>1 DEF Stationed, Connects
  <2> QED
    BY <1>9, <2>1, <2>2 DEF Classified, Kind, Unanswered, Spared, Stays, Transacting
<1>10. CASE ConnectUnwind(t, started, ts, TRUE, FALSE)
  <2> DEFINE c == [q EXCEPT !.pc = "cleaning", !.cancel = FALSE, !.failing = TRUE]
  <2>1. /\ s' = [started EXCEPT !.expected = TRUE, !.polling = FALSE, !.poller = None]
        /\ task' = [ts EXCEPT ![t].pc = "cleaning", ![t].cancel = FALSE, ![t].failing = TRUE]
    BY <1>6, <1>10 DEF ConnectUnwind
  <2>2. c \in TaskState /\ c.op = "connect" /\ c.pc = "cleaning"
    BY <1>8 DEF TaskState, Places
  <2>3. task' = [task EXCEPT ![t] = c]
    <3> HIDE DEF q
    <3> QED
      BY <1>1, <2>1
  <2>4. /\ s'.connector = t /\ s'.state = "connecting" /\ s'.pending = s.pending
        /\ s'.generation > s.generation
    BY <1>6, <2>1 DEF Session
  <2> HIDE DEF c
  <2> QED
    BY <1>9, <2>2, <2>3, <2>4
<1>11. CASE s' = started /\ task' = ts
  <2> HIDE DEF q
  <2> QED
    BY <1>6, <1>8, <1>9, <1>11
<1> QED
  BY <1>5, <1>10, <1>11 DEF CallConnect, n, d, started, i

(* A setup that goes on to its next place. *)
LEMMA AdvanceKind ==
    ASSUME IInv, SInv, NEW t \in Tasks, task[t].op = "connect",
           s'.connector = s.connector, s'.generation = s.generation, s'.state # "ready",
           s'.pending = s.pending,
           NEW r \in TaskState, task' = [task EXCEPT ![t] = r],
           r.op = "connect", r.gen = task[t].gen,
           r.pc \in {"discovering", "subscribing", "settling"},
           r.pc # "discovering" => s'.topology
    PROVE  Classified(t)
<1>1. /\ task \in [Tasks -> TaskState] /\ t \notin Pollers /\ s.generation \in Nat
  BY DEF IInv, TypeOK, Session, SInv, Stations, Stationed
<1>2. Apart(t, task') /\ task'[t] = r
  BY <1>1 DEF Apart
<1>3. Stationed(t)' /\ SetsUp(t)
  BY <1>1, <1>2 DEF Stationed, SetsUp, Advanced, Engaged, Transacting
<1> QED
  BY <1>2, <1>3 DEF Classified, Kind, Unanswered, Spared, Stays, Transacting

(* A setup executes connect(), is the session's connector and not yet READY. *)
LEMMA SettingUp ==
    ASSUME IInv, SInv, NEW t \in Tasks,
           task[t].pc \in {"linking", "discovering", "subscribing", "settling", "cleaning"}
    PROVE  /\ task[t].op = "connect" /\ task[t].pc \notin Transacting
           /\ s.connector = t /\ s.state # "ready" /\ t \notin Pollers
           /\ s \in Session /\ task \in [Tasks -> TaskState] /\ task[t] \in TaskState
           /\ Apart(t, task) /\ link.up \in BOOLEAN
<1>1. task[t].op = "connect"
  BY DEF IInv, SetupPlaces, SInv, Stations, Stationed
<1>2. s.connector = t /\ s.state # "ready"
  BY <1>1, DataAssumption DEF DataAssumption, SInv, OneSetup
<1>3. t \notin Pollers
  BY <1>1 DEF SInv, Stations, Stationed
<1> QED
  BY <1>1, <1>2, <1>3, TaskApart DEF IInv, TypeOK, Transacting

(* The native client is connected. *)
LEMMA LinkedKind ==
    ASSUME IInv, SInv, NEW t \in Tasks, Linked(t)
    PROVE  Classified(t)
<1> DEFINE q == [task[t] EXCEPT !.cancel = FALSE]
           ts == [task EXCEPT ![t].cancel = FALSE]
<1>1. /\ task[t].op = "connect" /\ task[t].pc \notin Transacting
      /\ s.connector = t /\ s.state # "ready" /\ t \notin Pollers
      /\ s \in Session /\ task \in [Tasks -> TaskState] /\ task[t] \in TaskState
      /\ Apart(t, task)
  BY SettingUp DEF Linked
<1>2. q \in TaskState /\ q.op = "connect" /\ q.gen = task[t].gen
  BY <1>1 DEF TaskState
<1>3. ts = [task EXCEPT ![t] = q]
  BY <1>1
<1>4. CASE /\ s' = [s EXCEPT !.state = "discovering"]
           /\ task' = [ts EXCEPT ![t].pc = "discovering"]
  <2> DEFINE r == [q EXCEPT !.pc = "discovering"]
  <2>1. r \in TaskState /\ r.op = "connect" /\ r.gen = task[t].gen /\ r.pc = "discovering"
    BY <1>2 DEF TaskState, Places
  <2>2. task' = [task EXCEPT ![t] = r]
    <3> HIDE DEF q
    <3> QED
      BY <1>1, <1>3, <1>4
  <2>3. /\ s'.connector = s.connector /\ s'.generation = s.generation
        /\ s'.state = "discovering" /\ s'.pending = s.pending
    BY <1>1, <1>4 DEF Session
  <2> HIDE DEF r
  <2> QED
    BY <1>1, <2>1, <2>2, <2>3, AdvanceKind
<1>5. CASE ConnectUnwind(t, s, ts, TRUE, TRUE)
  <2> HIDE DEF q
  <2>1. /\ Apart(t, ts) /\ ts[t] = q
    BY <1>1, <1>2, <1>3 DEF Apart
  <2> HIDE DEF ts
  <2> QED
    BY <1>1, <1>2, <1>5, <2>1, AbandonClassified
<1> QED
  BY <1>4, <1>5 DEF Linked

(* The native connect, discovery or subscription fails, or the setup is overtaken. *)
LEMMA SetupFailsKind ==
    ASSUME IInv, SInv, NEW t \in Tasks,
           task[t].pc \in {"linking", "discovering", "subscribing", "settling"},
           NEW up, NEW cancelled \in BOOLEAN, ConnectUnwind(t, s, task, up, cancelled)
    PROVE  Classified(t)
  BY SettingUp, AbandonClassified

(* Discovery and the subscription. *)
LEMMA DiscoveredKind ==
    ASSUME IInv, SInv, NEW t \in Tasks, Discovered(t) \/ Subscribed(t)
    PROVE  Classified(t)
<1>1. /\ task[t].pc \in {"discovering", "subscribing"}
      /\ task[t].op = "connect" /\ s.connector = t /\ s.state # "ready"
      /\ s \in Session /\ task \in [Tasks -> TaskState] /\ task[t] \in TaskState
      /\ link.up \in BOOLEAN
  BY SettingUp DEF Discovered, Subscribed
<1>2. CASE \E up, cancelled \in BOOLEAN : ConnectUnwind(t, s, task, up, cancelled)
  BY <1>1, <1>2, SetupFailsKind
<1>3. CASE \E x \in {"subscribing", "settling"} :
              /\ task' = [task EXCEPT ![t].pc = x]
              /\ \/ s' = [s EXCEPT !.topology = TRUE]
                 \/ s' = s /\ s.topology
  <2>1. PICK x \in {"subscribing", "settling"} : task' = [task EXCEPT ![t].pc = x]
    BY <1>3
  <2> DEFINE r == [task[t] EXCEPT !.pc = x]
  <2>2. r \in TaskState /\ r.op = "connect" /\ r.gen = task[t].gen /\ r.pc = x
    BY <1>1 DEF TaskState, Places
  <2>3. task' = [task EXCEPT ![t] = r]
    BY <2>1
  <2>4. /\ s'.connector = s.connector /\ s'.generation = s.generation
        /\ s'.state # "ready" /\ s'.pending = s.pending /\ s'.topology
    BY <1>1, <1>3 DEF Session
  <2> HIDE DEF r
  <2> QED
    BY <1>1, <2>2, <2>3, <2>4, AdvanceKind
<1>4. CASE Discovered(t)
  BY <1>1, <1>2, <1>3, <1>4 DEF Discovered
<1>5. CASE Subscribed(t)
  <2>1. Current(t) /\ task[t].pc = "subscribing" => s.topology
    BY <1>1 DEF Current, SInv, Progress, Advanced, Live
  <2> QED
    BY <1>1, <1>2, <1>3, <1>5, <2>1 DEF Subscribed
<1> QED
  BY <1>4, <1>5

(* The link has settled: authentication begins. *)
LEMMA SettledKind ==
    ASSUME IInv, SInv, NEW t \in Tasks, Settled(t)
    PROVE  Classified(t)
<1> DEFINE d == [s EXCEPT !.state = "authenticating"]
<1>1. /\ task[t].pc = "settling" /\ task[t].op = "connect" /\ task[t].pc \notin Transacting
      /\ s.connector = t /\ s.state # "ready" /\ t \notin Pollers
      /\ s \in Session /\ Apart(t, task)
  BY SettingUp DEF Settled
<1>2. CASE Begin(t, d, task, "connect", NoTarget, 1)
  <2>1. /\ d \in Session /\ d.connector = s.connector /\ d.generation = s.generation
        /\ d.state = "authenticating" /\ d.pending = s.pending /\ d.topology = s.topology
    BY <1>1 DEF Session, States
  <2> HIDE DEF d
  <2>2. Live(t) => d.topology
    BY <1>1, <2>1 DEF SInv, Progress, Advanced
  <2>3. Setup(t, d, task, "connect", 1)
    BY <1>1, <2>1, <2>2 DEF Setup
  <2>4. Prepared(t, d, task, "connect", 1)
    BY <1>1, <2>1, <2>3 DEF Prepared
  <2>5. "connect" \in AllOperations /\ 1 \in 1 .. Len(Program("connect")) /\ NoTarget \in Targets
    BY ProgramNonempty, BlankTypes
  <2> QED
    BY <1>1, <1>2, <2>1, <2>4, <2>5, BeginKind DEF Classified
<1>3. CASE ConnectUnwind(t, s, task, link.up, TRUE)
  BY <1>1, <1>3, SetupFailsKind
<1> QED
  BY <1>2, <1>3 DEF Settled

LEMMA LinkFailsKind ==
    ASSUME IInv, SInv, NEW t \in Tasks, LinkFails(t)
    PROVE  Classified(t)
  BY SetupFailsKind DEF LinkFails

(* The cleanup of a failed connect() is over. *)
LEMMA CleanedKind ==
    ASSUME IInv, SInv, NEW t \in Tasks, Cleaned(t)
    PROVE  Classified(t)
<1> DEFINE d == [s EXCEPT !.expected = FALSE]
           f == FailPending(d)
           g == ForgetConnection(f)
<1>1. /\ task[t].op = "connect" /\ s.state # "ready"
      /\ s \in Session /\ task \in [Tasks -> TaskState]
  BY SettingUp DEF Cleaned
<1>2. /\ d \in Session /\ d.state = s.state /\ d.pending = s.pending
      /\ d.generation = s.generation /\ s.generation \in Nat
  BY <1>1 DEF Session
<1>3. /\ task' = [task EXCEPT ![t] = Idle]
      /\ \/ s' = [g EXCEPT !.connector = None]
         \/ \E up, cancelled : s' = ConnectEnded(d, up, cancelled)
  BY DEF Cleaned
<1> HIDE DEF d
<1>4. /\ f \in Session /\ f.state = d.state /\ Stays(d.pending, f.pending)
      /\ f.generation = d.generation
  BY <1>2, FailPendingLeaves
<1> HIDE DEF f
<1>5. /\ g \in Session /\ g.state = f.state /\ g.pending = f.pending
      /\ g.generation = f.generation
  BY <1>4, ForgetLeaves
<1> HIDE DEF g
<1>6. /\ s'.connector = None /\ s'.state # "ready" /\ Stays(s.pending, s'.pending)
      /\ s'.generation = s.generation
  <2>1. CASE s' = [g EXCEPT !.connector = None]
    BY <1>1, <1>2, <1>4, <1>5, <2>1 DEF Session
  <2>2. CASE \E up, cancelled : s' = ConnectEnded(d, up, cancelled)
    BY <1>2, <2>2, ConnectEndedLeaves
  <2> QED
    BY <1>3, <2>1, <2>2
<1>7. Apart(t, task') /\ task'[t].pc = "idle" /\ task'[t].op = "none"
  BY <1>1, <1>3, IdleTypes DEF Apart, Idle
<1>8. Stationed(t)' /\ SetupOver(t)
  BY <1>1, <1>2, <1>6, <1>7 DEF Stationed, SetupOver
<1> QED
  BY <1>6, <1>7, <1>8 DEF Classified, Kind, Unanswered, Spared, Ending, Transacting

-----------------------------------------------------------------------------
(* disconnect(). *)

(* Where a disconnect() that leaves d behind may stand: it waits for something, or hangs
   up, or is over. *)
LeftBehind(t, d) ==
    /\ Apart(t, task') /\ Stationed(t)' /\ task'[t].pc \notin Transacting
    /\ Stays(d.pending, s'.pending)
    /\ s'.connector = d.connector /\ s'.generation = d.generation /\ s'.poller = d.poller
    /\ \/ task'[t].op = "disconnect" /\ (s' = d \/ s' = [d EXCEPT !.expected = TRUE])
       \/ task'[t].op = "none" /\ s'.state \in {"error", "disconnected"}

(* It stays at one of its places. *)
LEMMA Stayed ==
    ASSUME NEW t \in Tasks, t \notin Pollers, NEW d \in Session,
           NEW ts, Apart(t, ts), NEW r \in TaskState, task' = [ts EXCEPT ![t] = r],
           r.op = "disconnect", r.pc \in {"tearing", "unsubscribing", "hanging_up"},
           s' = d \/ s' = [d EXCEPT !.expected = TRUE]
    PROVE  LeftBehind(t, d)
<1>1. Apart(t, task') /\ task'[t] = r
  BY DEF Apart
<1>2. /\ s'.pending = d.pending /\ s'.connector = d.connector
      /\ s'.generation = d.generation /\ s'.poller = d.poller
  BY DEF Session
<1>3. Stationed(t)'
  BY <1>1 DEF Stationed
<1> QED
  BY <1>1, <1>2, <1>3 DEF LeftBehind, Stays, Transacting

(* It is over. *)
LEMMA Left ==
    ASSUME NEW t \in Tasks, NEW d \in Session, NEW ts, Apart(t, ts),
           NEW up, s' = DisconnectEnded(d, up), task' = [ts EXCEPT ![t] = Idle]
    PROVE  LeftBehind(t, d)
<1>1. Apart(t, task') /\ task'[t].pc = "idle" /\ task'[t].op = "none"
  BY IdleTypes DEF Apart, Idle
<1>2. Stationed(t)'
  BY <1>1 DEF Stationed
<1>3. /\ Stays(d.pending, s'.pending) /\ s'.connector = d.connector /\ s'.poller = d.poller
      /\ s'.state \in {"error", "disconnected"} /\ s'.generation = d.generation
  BY DisconnectEndedLeaves
<1> QED
  BY <1>1, <1>2, <1>3 DEF LeftBehind, Transacting

(* disconnect() once the setup it cancelled has ended. *)
LEMMA AfterJoinLeaves ==
    ASSUME IInv, NEW t \in Tasks, t \notin Pollers, NEW d \in Session,
           NEW ts, Apart(t, ts), ts[t].op = "disconnect", AfterJoin(t, d, ts)
    PROVE  LeftBehind(t, d)
<1>1. ts \in [Tasks -> TaskState] /\ ts[t] \in TaskState /\ link.id \in Nat
  BY DEF Apart, IInv, TypeOK
<1>2. CASE s' = d /\ task' = [ts EXCEPT ![t].pc = "tearing"]
  <2> DEFINE r == [ts[t] EXCEPT !.pc = "tearing"]
  <2>1. r \in TaskState /\ r.op = "disconnect" /\ r.pc = "tearing"
    BY <1>1 DEF TaskState, Places
  <2>2. task' = [ts EXCEPT ![t] = r]
    BY <1>2
  <2> HIDE DEF r
  <2> QED
    BY <1>2, <2>1, <2>2, Stayed
<1>3. CASE /\ s' = [d EXCEPT !.expected = TRUE]
           /\ \E x \in {"unsubscribing", "hanging_up"} :
                task' = [ts EXCEPT ![t].gen = link.id, ![t].pc = x]
  <2>1. PICK x \in {"unsubscribing", "hanging_up"} :
                task' = [ts EXCEPT ![t].gen = link.id, ![t].pc = x]
    BY <1>3
  <2> DEFINE r == [ts[t] EXCEPT !.gen = link.id, !.pc = x]
  <2>2. r \in TaskState /\ r.op = "disconnect" /\ r.pc = x
    BY <1>1 DEF TaskState, Places
  <2>3. task' = [ts EXCEPT ![t] = r]
    BY <1>1, <2>1
  <2> HIDE DEF r
  <2> QED
    BY <1>3, <2>2, <2>3, Stayed
<1>4. CASE s' = DisconnectEnded(d, FALSE) /\ task' = [ts EXCEPT ![t] = Idle]
  BY <1>4, Left
<1> QED
  BY <1>2, <1>3, <1>4 DEF AfterJoin, HangingUp

(* disconnect() once the poll has ended: a setup in flight is cancelled and awaited. *)
LEMMA AfterQuietLeaves ==
    ASSUME IInv, NEW t \in Tasks, t \notin Pollers, task[t].op # "connect",
           NEW d \in Session, NEW ts, Apart(t, ts), ts[t].op = "disconnect",
           AfterQuiet(t, d, ts)
    PROVE  LeftBehind(t, d)
<1> DEFINE c == ts[t].joins
           js == [ts EXCEPT ![t].pc = "joining"]
           ns == [ts EXCEPT ![t].joins = None]
<1>1. ts \in [Tasks -> TaskState] /\ ts[t] \in TaskState /\ c \in Tasks \cup {None}
  BY DEF Apart, TaskState
<1>2. CASE s' = d /\ task' = [ts EXCEPT ![t].pc = "tearing"]
  <2> DEFINE r == [ts[t] EXCEPT !.pc = "tearing"]
  <2>1. r \in TaskState /\ r.op = "disconnect" /\ r.pc = "tearing"
    BY <1>1 DEF TaskState, Places
  <2>2. task' = [ts EXCEPT ![t] = r]
    BY <1>2
  <2> HIDE DEF r
  <2> QED
    BY <1>2, <2>1, <2>2, Stayed
<1>3. CASE c # None /\ task[c].op = "connect" /\ s' = d /\ CancelTask(js, c)
  <2> DEFINE r == [ts[t] EXCEPT !.pc = "joining"]
  <2>1. r \in TaskState /\ r.op = "disconnect" /\ r.pc = "joining"
    BY <1>1 DEF TaskState, Places
  <2>2. c \in Tasks \ {t}
    BY <1>1, <1>3
  <2>3. js = [ts EXCEPT ![t] = r]
    BY <1>1
  <2> HIDE DEF r, c
  <2>4. js \in [Tasks -> TaskState] /\ js[t] = r /\ js[c] = ts[c] /\ ts[c] \in TaskState
    BY <1>1, <2>1, <2>2, <2>3
  <2>5. \A u \in Tasks \ {t} : js[u] = ts[u]
    BY <1>1, <2>3
  <2> HIDE DEF js
  <2>6. task' = [js EXCEPT ![c] = [js[c] EXCEPT !.cancel = TRUE]]
    BY <1>3 DEF CancelTask
  <2>7. /\ [js[c] EXCEPT !.cancel = TRUE] \in TaskState
        /\ [js[c] EXCEPT !.cancel = TRUE].pc = ts[c].pc
        /\ [js[c] EXCEPT !.cancel = TRUE].op = ts[c].op
        /\ [js[c] EXCEPT !.cancel = TRUE].gen = ts[c].gen
        /\ [js[c] EXCEPT !.cancel = TRUE].step = ts[c].step
        /\ [js[c] EXCEPT !.cancel = TRUE].chunk = ts[c].chunk
        /\ [js[c] EXCEPT !.cancel = TRUE].want = ts[c].want
        /\ [js[c] EXCEPT !.cancel = TRUE].joins = ts[c].joins
        /\ [js[c] EXCEPT !.cancel = TRUE].cancel
    BY <2>4 DEF TaskState
  <2>8. /\ task' \in [Tasks -> TaskState] /\ task'[t] = r
        /\ \A u \in Tasks \ {t, c} : task'[u] = ts[u]
        /\ task'[c] = [js[c] EXCEPT !.cancel = TRUE]
    BY <2>2, <2>4, <2>5, <2>6, <2>7
  <2>9. Apart(t, task')
    <3>1. task'[c] = [js[c] EXCEPT !.cancel = TRUE]
      BY <2>8
    <3>2. \A u \in Tasks \ {t} : u = c \/ task'[u] = ts[u]
      BY <2>8
    <3>3. ASSUME NEW u \in Tasks \ {t}
          PROVE  /\ task'[u].pc = ts[u].pc /\ task'[u].op = ts[u].op
                 /\ task'[u].gen = ts[u].gen /\ task'[u].step = ts[u].step
                 /\ task'[u].chunk = ts[u].chunk
                 /\ task'[u].want = ts[u].want /\ task'[u].joins = ts[u].joins
                 /\ ts[u].cancel => task'[u].cancel
      <4>1. CASE u = c
        BY <2>7, <3>1, <4>1
      <4>2. CASE task'[u] = ts[u]
        BY <4>2
      <4> QED
        BY <3>2, <4>1, <4>2
    <3> QED
      BY <2>8, <3>3 DEF Apart
  <2>10. Stationed(t)'
    BY <2>1, <2>8 DEF Stationed
  <2> QED
    BY <1>3, <2>1, <2>8, <2>9, <2>10 DEF LeftBehind, Stays, Transacting
<1>4. CASE AfterJoin(t, d, ns)
  <2> DEFINE r == [ts[t] EXCEPT !.joins = None]
  <2>1. r \in TaskState /\ r.op = "disconnect"
    BY <1>1 DEF TaskState
  <2>2. ns = [ts EXCEPT ![t] = r]
    BY <1>1
  <2> HIDE DEF r
  <2>3. Apart(t, ns) /\ ns[t] = r
    BY <1>1, <2>1, <2>2 DEF Apart
  <2> HIDE DEF ns
  <2> QED
    BY <1>4, <2>1, <2>3, AfterJoinLeaves
<1> QED
  BY <1>2, <1>3, <1>4 DEF AfterQuiet

(* disconnect() is called: the generation ends there and then. *)
LEMMA CallDisconnectKind ==
    ASSUME IInv, SInv, NEW t \in Tasks, CallDisconnect(t)
    PROVE  Classified(t)
<1> DEFINE left == [s EXCEPT !.generation = @ + 1]
           d == [left EXCEPT !.state = "disconnecting", !.polling = FALSE, !.poller = None]
           i == Idle
           r == [i EXCEPT !.op = "disconnect", !.joins = s.connector]
           ts == [task EXCEPT ![t] = r]
<1>1. /\ task[t].op = "none" /\ task[t].pc \notin Transacting /\ t \notin Pollers
      /\ task \in [Tasks -> TaskState] /\ Apart(None, task)
      /\ s.connector \in Tasks \cup {None}
  BY CallerIdle, TaskApart DEF CallDisconnect, IInv, TypeOK, Session
<1>2. /\ left \in Session /\ left.generation > s.generation /\ left.pending = s.pending
      /\ left.connector = s.connector /\ left.state = s.state
  BY NextGeneration
<1> HIDE DEF left
<1>3. CASE s.state = "disconnected" /\ s' = ForgetConnection(left) /\ UNCHANGED task
  <2>1. /\ s'.pending = s.pending /\ s'.connector = s.connector /\ s'.state = s.state
        /\ s'.generation > s.generation
    BY <1>2, <1>3, ForgetLeaves
  <2>2. PollsOver'
    BY <1>3, NoPollsUnlessReady DEF PollsOver, SInv
  <2> QED
    BY <1>1, <1>3, <2>1, <2>2, BreakStill DEF Stays, Classified
<1>4. /\ d \in Session /\ d.generation > s.generation /\ d.pending = s.pending
      /\ d.connector = s.connector /\ d.state = "disconnecting"
  BY <1>2 DEF Session, States
<1> HIDE DEF d
<1>5. CASE Quieting(t, "disconnect", d, s.connector)
  <2>1. /\ s' = d /\ Apart(t, task') /\ Stationed(t)' /\ PollsOver'
        /\ task'[t].op = "disconnect" /\ task'[t].pc = "quieting"
    BY <1>1, <1>5, QuietingQuiets
  <2>2. Breaks(t)
    BY <1>1, <1>4, <2>1 DEF Breaks
  <2> QED
    BY <1>4, <2>1, <2>2 DEF Classified, Kind, Unanswered, Spared, Stays, Transacting
<1>6. CASE ~PollLive /\ AfterQuiet(t, d, ts)
  <2>1. i \in TaskState
    BY IdleTypes
  <2> HIDE DEF i
  <2>2. r \in TaskState /\ r.op = "disconnect"
    BY <1>1, <2>1 DEF TaskState, AllOperations
  <2> HIDE DEF r
  <2>3. Apart(t, ts) /\ ts[t].op = "disconnect"
    BY <1>1, <2>2 DEF Apart
  <2> HIDE DEF ts
  <2>4. LeftBehind(t, d)
    BY <1>1, <1>4, <1>6, <2>3, AfterQuietLeaves
  <2>5. s'.state # "ready"
    BY <1>4, <2>4 DEF LeftBehind, Session
  <2>6. PollsOver'
    BY <1>1, <1>6, <2>4, NoLivePoll, PollsStayOver DEF LeftBehind
  <2>7. Breaks(t)
    BY <1>1, <1>4, <2>4, <2>5, <2>6 DEF Breaks, LeftBehind
  <2> QED
    BY <1>4, <2>4, <2>7 DEF Classified, Kind, Unanswered, Spared, Ending, LeftBehind
<1> QED
  BY <1>3, <1>5, <1>6 DEF CallDisconnect, left, d, i, r, ts

(* A disconnect() in progress goes on, or is over. *)
LEMMA LeavingKind ==
    ASSUME IInv, SInv, NEW t \in Tasks, task[t].op = "disconnect", LeftBehind(t, s)
    PROVE  Classified(t)
<1>1. s \in Session /\ t \notin Pollers
  BY DEF IInv, TypeOK, SInv, Stations, Stationed
<1>2. CASE task'[t].op = "disconnect" /\ (s' = s \/ s' = [s EXCEPT !.expected = TRUE])
  <2>1. /\ s'.state = s.state /\ s'.generation = s.generation /\ s'.connector = s.connector
        /\ s'.topology = s.topology /\ s'.authenticated = s.authenticated
        /\ s'.poisoned = s.poisoned /\ s'.poller = s.poller
        /\ s'.config = s.config /\ s'.telemetry = s.telemetry /\ s'.pending = s.pending
    BY <1>1, <1>2 DEF Session
  <2>2. Steady(s')
    BY <2>1 DEF Steady, Shown, Measured
  <2>3. Kind(t)
    BY <1>1, <1>2, <2>1, <2>2, WorkKind DEF LeftBehind
  <2> QED
    BY <2>1, <2>3 DEF Classified, Unanswered, Spared, LeftBehind
<1>3. CASE task'[t].op = "none" /\ s'.state \in {"error", "disconnected"}
  <2>1. Leaves(t)
    BY <1>3 DEF Leaves, LeftBehind
  <2> QED
    BY <2>1 DEF Classified, Kind, Unanswered, Spared, Ending, LeftBehind
<1> QED
  BY <1>2, <1>3 DEF LeftBehind

(* The cancelled poll has ended: Stop, the end of polling and disconnect() go on. *)
LEMMA QuietedKind ==
    ASSUME IInv, SInv, NEW t \in Tasks, Quieted(t)
    PROVE  Classified(t)
<1> DEFINE r == [task[t] EXCEPT !.awaits = None]
           ts == [task EXCEPT ![t].awaits = None]
<1>1. /\ task[t].pc = "quieting" /\ task[t].pc \notin Transacting /\ t \notin Pollers
      /\ task[t].op \in {"stop", "stop_polling", "disconnect"}
  BY DEF Quieted, Transacting, SInv, Stations, Stationed
<1>2. /\ s \in Session /\ Steady(s) /\ task \in [Tasks -> TaskState] /\ task[t] \in TaskState
  BY DEF IInv, TypeOK, Steady
<1>3. /\ r \in TaskState /\ r.op = task[t].op /\ r.gen = task[t].gen
      /\ r.cancel = task[t].cancel
  BY <1>2 DEF TaskState
<1>4. ts = [task EXCEPT ![t] = r]
  BY <1>2
<1> HIDE DEF r
<1>5. Apart(t, ts) /\ ts[t] = r
  BY <1>2, <1>3, <1>4 DEF Apart
<1> HIDE DEF ts
<1>6. CASE task[t].op = "stop" /\ Begin(t, s, ts, "stop", NoTarget, 1)
  BY <1>1, <1>2, <1>3, <1>5, <1>6, EnterKind, BlankTypes
<1>7. CASE task[t].op = "disconnect" /\ AfterQuiet(t, s, ts)
  BY <1>1, <1>2, <1>3, <1>5, <1>7, AfterQuietLeaves, LeavingKind
<1>8. CASE task[t].op = "stop_polling" /\ s' = s /\ task' = [ts EXCEPT ![t] = Idle]
  <2>1. Apart(t, task') /\ task'[t].pc = "idle" /\ task'[t].op = "none"
    BY <1>5, <1>8, IdleTypes DEF Apart, Idle
  <2>2. Stationed(t)'
    BY <2>1 DEF Stationed
  <2>3. Kind(t)
    BY <1>1, <1>2, <1>8, <2>1, <2>2, WorkKind
  <2> QED
    BY <1>8, <2>1, <2>3 DEF Classified, Unanswered, Spared, Stays, Transacting
<1> QED
  BY <1>1, <1>6, <1>7, <1>8 DEF Quieted, ts

(* The waits and the native steps of disconnect(). *)
LEMMA DisconnectStepsKind ==
    ASSUME IInv, SInv, NEW t \in Tasks,
           TornDown(t) \/ Joined(t) \/ Unsubscribed(t) \/ HungUp(t)
    PROVE  Classified(t)
<1>1. /\ task[t].pc \in {"tearing", "joining", "unsubscribing", "hanging_up"}
      /\ task[t].op = "disconnect" /\ t \notin Pollers
  BY DEF TornDown, Joined, Unsubscribed, HungUp, SInv, Stations, Stationed
<1>2. /\ s \in Session /\ task \in [Tasks -> TaskState] /\ task[t] \in TaskState
      /\ Apart(t, task) /\ link.id \in Nat
  BY TaskApart DEF IInv, TypeOK
<1>3. CASE TornDown(t)
  BY <1>1, <1>2, <1>3, AfterQuietLeaves, LeavingKind DEF TornDown
<1>4. CASE Joined(t)
  <2> DEFINE r == [task[t] EXCEPT !.joins = None]
             ts == [task EXCEPT ![t].joins = None]
  <2>1. r \in TaskState /\ r.op = "disconnect"
    BY <1>1, <1>2 DEF TaskState
  <2>2. ts = [task EXCEPT ![t] = r]
    BY <1>2
  <2> HIDE DEF r
  <2>3. Apart(t, ts) /\ ts[t] = r /\ AfterJoin(t, s, ts)
    BY <1>2, <1>4, <2>1, <2>2 DEF Apart, Joined
  <2> HIDE DEF ts
  <2> QED
    BY <1>1, <1>2, <2>1, <2>3, AfterJoinLeaves, LeavingKind
<1>5. CASE /\ s' = s
           /\ task' = [task EXCEPT ![t].pc = "hanging_up", ![t].gen = link.id]
  <2> DEFINE r == [task[t] EXCEPT !.pc = "hanging_up", !.gen = link.id]
  <2>1. r \in TaskState /\ r.op = "disconnect" /\ r.pc = "hanging_up"
    BY <1>1, <1>2 DEF TaskState, Places
  <2>2. task' = [task EXCEPT ![t] = r]
    BY <1>2, <1>5
  <2> HIDE DEF r
  <2>3. s' = s /\ t \notin Pollers /\ s \in Session /\ Apart(t, task)
    BY <1>1, <1>2, <1>5
  <2>4. LeftBehind(t, s)
    BY <2>1, <2>2, <2>3, Stayed
  <2> QED
    BY <1>1, <2>4, LeavingKind
<1>6. CASE (\E up : s' = DisconnectEnded(s, up)) /\ task' = [task EXCEPT ![t] = Idle]
  <2>1. LeftBehind(t, s)
    BY <1>2, <1>6, Left
  <2> QED
    BY <1>1, <2>1, LeavingKind
<1>7. Unsubscribed(t) \/ HungUp(t) =>
         \/ s' = s /\ task' = [task EXCEPT ![t].pc = "hanging_up", ![t].gen = link.id]
         \/ (\E up : s' = DisconnectEnded(s, up)) /\ task' = [task EXCEPT ![t] = Idle]
  BY DEF Unsubscribed, HungUp
<1> QED
  BY <1>3, <1>4, <1>5, <1>6, <1>7

-----------------------------------------------------------------------------
(* Callbacks of the native client. *)

(* The loss of the link, if the notice is that of the present generation. *)
LEMMA DisconnectedKind ==
    ASSUME IInv, SInv, Disconnected
    PROVE  Classified(None)
<1> DEFINE n == [s EXCEPT !.generation = @ + 1]
           l == [s EXCEPT !.generation = @ + 1, !.polling = FALSE, !.poller = None]
           c == ResetConnectionData(l)
           f == FailPending(c)
           ts == CancelPoll(task, None)
<1>1. Apart(None, task) /\ s \in Session /\ s.generation \in Nat
  BY TaskApart DEF IInv, TypeOK, Session
<1>2. CASE UNCHANGED <<s, task>>
  BY <1>1, <1>2, StillKind DEF Steady, Stays
<1>3. CASE /\ \E x \in {"disconnected", "error"} : s' = [f EXCEPT !.state = x]
           /\ task' = ts
  <2>1. /\ l \in Session /\ l.generation = s.generation + 1 /\ l.pending = s.pending
        /\ l.connector = s.connector
    <3>1. s.generation + 1 \in Nat /\ None \in Tasks \cup {None}
      BY <1>1
    <3> QED
      BY <1>1, <3>1 DEF Session
  <2> HIDE DEF l
  <2>2. /\ c \in Session /\ c.generation = l.generation /\ c.pending = l.pending
        /\ c.connector = l.connector
    BY <2>1, ForgetLeaves
  <2> HIDE DEF c
  <2>3. /\ f \in Session /\ f.generation = c.generation /\ Stays(c.pending, f.pending)
        /\ f.connector = c.connector
    BY <2>2, FailPendingLeaves
  <2> HIDE DEF f
  <2>4. /\ s'.generation > s.generation /\ s'.state # "ready"
        /\ s'.connector = s.connector /\ Stays(s.pending, s'.pending)
    BY <1>1, <1>3, <2>1, <2>2, <2>3 DEF Session
  <2>5. Apart(None, task') /\ PollsOver'
    BY <1>3, CancelPollApart, DataAssumption, SessionAssumption
       DEF DataAssumption, SessionAssumption, SInv, PollsOver
  <2> QED
    BY <2>4, <2>5, BreakStill
<1> QED
  BY <1>2, <1>3 DEF Disconnected

(* A readback of the present link that is applied. *)
LEMMA AppliedShown ==
    ASSUME IInv, NEW f \in Frame, f.on = s.generation
    PROVE  LET d == ApplyDecoded(s, f)
           IN /\ d \in Session /\ Steady(d) /\ d.poller = s.poller /\ d.pending = s.pending
              /\ f.layout /\ f.op = "get_config" => Shown(d)
              /\ f.layout /\ f.op = "get_telemetry" => Measured(d)
<1> DEFINE d == ApplyDecoded(s, f)
           b == [known |-> TRUE, fresh |-> TRUE, target |-> f.target,
                 ceiling |-> f.ceiling, origin |-> f.on]
           m == [known |-> TRUE, fresh |-> TRUE, output |-> f.output, origin |-> f.on]
<1>1. s \in Session
  BY DEF IInv, TypeOK
<1>2. d \in Session
  BY <1>1, ApplyKeeps DEF Kept
<1>3. ASSUME d = s
      PROVE  Steady(d) /\ d.poller = s.poller /\ d.pending = s.pending
  BY <1>3 DEF Steady
<1>4. ASSUME f.layout, f.op = "get_config"
      PROVE  Steady(d) /\ d.poller = s.poller /\ d.pending = s.pending /\ Shown(d)
  <2>1. PICK a : d = [s EXCEPT !.config = b, !.ambiguities = a]
    <3>1. d = ResolveFromConfig([s EXCEPT !.config = b])
      BY <1>4 DEF ApplyDecoded
    <3>2. \E a : d = [[s EXCEPT !.config = b] EXCEPT !.ambiguities = a]
      BY <3>1 DEF ResolveFromConfig
    <3> QED
      BY <1>1, <3>2 DEF Session
  <2>2. /\ d.state = s.state /\ d.generation = s.generation /\ d.connector = s.connector
        /\ d.topology = s.topology /\ d.authenticated = s.authenticated
        /\ d.poisoned = s.poisoned /\ d.poller = s.poller /\ d.pending = s.pending
        /\ d.config = b /\ d.telemetry = s.telemetry
    <3> HIDE DEF d, b
    <3> QED
      BY <1>1, <2>1 DEF Session
  <2> HIDE DEF d
  <2> QED
    BY <2>2 DEF Steady, Shown, Measured
<1>5. ASSUME f.layout, f.op = "get_telemetry"
      PROVE  Steady(d) /\ d.poller = s.poller /\ d.pending = s.pending /\ Measured(d)
  <2>1. PICK a : d = [s EXCEPT !.telemetry = m, !.ambiguities = a]
    <3>1. d = ResolveFromTelemetry([s EXCEPT !.telemetry = m])
      BY <1>5 DEF ApplyDecoded
    <3>2. \/ d = [s EXCEPT !.telemetry = m]
          \/ \E a : d = [[s EXCEPT !.telemetry = m] EXCEPT !.ambiguities = a]
      BY <3>1 DEF ResolveFromTelemetry
    <3>3. [s EXCEPT !.telemetry = m] = [s EXCEPT !.telemetry = m, !.ambiguities = s.ambiguities]
      BY <1>1 DEF Session
    <3> QED
      BY <1>1, <3>2, <3>3 DEF Session
  <2>2. /\ d.state = s.state /\ d.generation = s.generation /\ d.connector = s.connector
        /\ d.topology = s.topology /\ d.authenticated = s.authenticated
        /\ d.poisoned = s.poisoned /\ d.poller = s.poller /\ d.pending = s.pending
        /\ d.config = s.config /\ d.telemetry = m
    <3> HIDE DEF d, m
    <3> QED
      BY <1>1, <2>1 DEF Session
  <2> HIDE DEF d
  <2> QED
    BY <2>2 DEF Steady, Shown, Measured
<1>6. \/ f.layout /\ f.op = "get_config"
      \/ f.layout /\ f.op = "get_telemetry"
      \/ d = s /\ ~(f.layout /\ f.op \in {"get_config", "get_telemetry"})
  BY DEF ApplyDecoded
<1> HIDE DEF d
<1> QED
  BY <1>2, <1>3, <1>4, <1>5, <1>6 DEF d

(* A frame that was decoded: the readbacks are applied before the answer is given. *)
LEMMA DecodedKeeps ==
    ASSUME IInv, SInv, s' \in Session, NEW f \in Frame, f.on = s.generation,
           s' = MatchPending(ApplyDecoded(s, f), f), task' = task
    PROVE  SInv'
<1> DEFINE d == ApplyDecoded(s, f)
<1>1. /\ d \in Session /\ Steady(d) /\ d.poller = s.poller /\ d.pending = s.pending
      /\ f.layout /\ f.op = "get_config" => Shown(d)
      /\ f.layout /\ f.op = "get_telemetry" => Measured(d)
  BY AppliedShown
<1> HIDE DEF d
<1>2. \/ s' = d
      \/ /\ s' = [d EXCEPT !.pending = [d.pending EXCEPT !.reply = f]]
         /\ d.pending.op = f.op /\ d.pending.reply.kind = "none"
  BY DEF MatchPending, d
<1>3. /\ s'.state = d.state /\ s'.generation = d.generation /\ s'.connector = d.connector
      /\ s'.poller = d.poller /\ s'.poisoned = d.poisoned /\ s'.topology = d.topology
      /\ s'.authenticated = d.authenticated /\ s'.config = d.config
      /\ s'.telemetry = d.telemetry
  BY <1>1, <1>2 DEF Session
<1>4. Steady(s') /\ s'.poller = s.poller /\ (Shown(d) => Shown(s')) /\ (Measured(d) => Measured(s'))
  BY <1>1, <1>3 DEF Steady, Shown, Measured
<1>5. None \notin Tasks /\ None \notin Pollers /\ Apart(None, task')
  BY TaskApart, DataAssumption, SessionAssumption DEF DataAssumption, SessionAssumption
<1>6. Kind(None)
  BY <1>4, <1>5, WorkKind
<1>7. ASSUME NEW u \in Tasks, task[u].pc \in Transacting
      PROVE  (Matched(u) /\ Applies(u))'
  <2>1. /\ Request(u)' = Request(u) /\ (Live(u)' <=> Live(u))
        /\ s.pending.op = Opcode(Request(u))
    BY <1>4, <1>7 DEF Request, Live, Steady, SInv, Answers, Matched
  <2>2. CASE s' = d
    <3>1. s'.pending = s.pending
      BY <1>1, <2>2
    <3> QED
      BY <1>4, <1>7, <2>1, <3>1 DEF SInv, Answers, Matched, Applies, Steady
  <2>3. CASE /\ s' = [d EXCEPT !.pending = [d.pending EXCEPT !.reply = f]]
             /\ d.pending.op = f.op /\ d.pending.reply.kind = "none"
    <3>1. s'.pending.op = s.pending.op /\ s'.pending.reply = f /\ f.op = s.pending.op
      BY <1>1, <2>3 DEF Session, Pending
    <3>2. Matched(u)'
      BY <2>1, <3>1 DEF Matched
    <3>3. ASSUME Live(u), task[u].step \in {4, 5}, f.layout
          PROVE  IF task[u].step = 4 THEN Shown(s') ELSE Measured(s')
      <4>1. task[u].op = "connect"
        BY <3>3 DEF Live
      <4>2. f.op = IF task[u].step = 4 THEN "get_config" ELSE "get_telemetry"
        BY <2>1, <3>1, <3>3, <4>1, DataAssumption DEF DataAssumption, Request, Program, Opcode
      <4> QED
        BY <1>1, <1>4, <3>3, <4>2
    <3>4. Applies(u)'
      BY <2>1, <3>1, <3>3 DEF Applies, Shown, Measured
    <3> QED
      BY <3>2, <3>4
  <2> QED
    BY <1>2, <2>2, <2>3
<1>8. Answers'
  BY <1>7 DEF Answers, Matched, Applies
<1> QED
  BY <1>6, <1>8, KindKeeps DEF SInv

(* A notification. *)
LEMMA NotifiedKeepsSetup ==
    ASSUME IInv, SInv, IInv', Notified
    PROVE  SInv'
<1> DEFINE f == Head(fromDev)
           p == FailPending(s)
<1>1. /\ Apart(None, task) /\ s \in Session /\ s' \in Session /\ s.generation \in Nat
      /\ f \in Frame
  BY TaskApart DEF IInv, TypeOK, Session, Notified
<1>2. CASE UNCHANGED <<s, task>>
  BY <1>1, <1>2, StillKind, StepKeeps DEF Steady, Stays, Classified
<1>3. CASE ~s.poisoned /\ s' = PoisonCurrentClient(p) /\ task' = CancelPoll(task, None)
  <2>1. /\ p \in Session /\ Stays(s.pending, p.pending) /\ p.generation = s.generation
        /\ p.connector = s.connector /\ ~p.poisoned
    BY <1>1, <1>3, FailPendingLeaves
  <2> HIDE DEF p
  <2>2. /\ s'.pending = p.pending /\ s'.connector = p.connector
        /\ s'.state = "error" /\ s'.generation = p.generation + 1
    BY <1>3, <2>1, PoisonLeaves
  <2>3. s'.generation > s.generation
    BY <1>1, <2>1, <2>2
  <2>4. Apart(None, task') /\ PollsOver'
    BY <1>3, CancelPollApart, DataAssumption, SessionAssumption
       DEF DataAssumption, SessionAssumption, SInv, PollsOver
  <2> QED
    BY <1>1, <2>1, <2>2, <2>3, <2>4, BreakStill, StepKeeps DEF Classified
<1>4. CASE f.on = s.generation /\ s' = MatchPending(ApplyDecoded(s, f), f) /\ task' = task
  BY <1>1, <1>4, DecodedKeeps
<1> QED
  BY <1>2, <1>3, <1>4 DEF Notified

-----------------------------------------------------------------------------
(* The theorems. *)

(* Every step of the specification keeps the invariant. *)
LEMMA NextKeepsSetup == IInv /\ SInv /\ [Next]_vars => SInv'
<1> SUFFICES ASSUME IInv, SInv, [Next]_vars PROVE SInv'
  OBVIOUS
<1>1. IInv' /\ s' \in Session
  <2>1. IInv'
    BY NextPreserves
  <2> QED
    BY <2>1 DEF IInv, TypeOK
<1>2. \A t : Classified(t) => SInv'
  BY <1>1, StepKeeps DEF Classified
<1>3. CASE UNCHANGED vars
  BY <1>2, <1>3, StillKind, TaskApart DEF vars, Steady, Stays
<1>4. ASSUME NEW t \in Tasks, Call(t)
      PROVE  SInv'
  <2>1. CASE CallStartPolling(t)
    <3>1. PollMoves
      BY <2>1, CallStartPollingKind
    <3> QED
      BY <1>2, <3>1 DEF PollMoves
  <2>2. CASE ~CallStartPolling(t)
    BY <1>2, <1>4, <2>2, CallRequestKind, CallStopKind, CallConnectKind, CallDisconnectKind
       DEF Call
  <2> QED
    BY <2>1, <2>2
<1>5. ASSUME NEW t \in Tasks, Resume(t)
      PROVE  SInv'
  <2>1. CASE \/ Granted(t) \/ WriteDone(t) \/ WriteFailed(t) \/ ReplyFailed(t)
             \/ SetupReply(t) \/ OperationReply(t) \/ UnwindWrite(t) \/ UnwindReply(t)
    BY <1>2, <2>1, GrantedKind, WriteDoneKind, FailuresKind, SetupReplyKind, OperationReplyKind
  <2>2. CASE \/ UnwindQueued(t) \/ UnwindSleep(t) \/ UnwindSetup(t)
             \/ Discovered(t) \/ Subscribed(t) \/ Settled(t) \/ Cleaned(t)
    BY <1>2, <2>2, CancellationsKind, DiscoveredKind, SettledKind, CleanedKind
  <2>3. CASE Quieted(t) \/ TornDown(t) \/ Joined(t) \/ Unsubscribed(t) \/ HungUp(t)
    BY <1>2, <2>3, QuietedKind, DisconnectStepsKind
  <2> QED
    BY <1>5, <2>1, <2>2, <2>3 DEF Resume
<1>6. ASSUME NEW t \in Tasks,
             CancelCall(t) \/ Deadline(t) \/ Linked(t) \/ LinkFails(t) \/ PollWake(t)
      PROVE  SInv'
  BY <1>2, <1>6, CancellationsKind, FailuresKind, LinkedKind, LinkFailsKind, PollWakeKind
     DEF Deadline
<1>7. CASE HandBack \/ TeardownStarts \/ TeardownEnds \/ Environment
  BY <1>2, <1>7, WorldKind
<1>8. CASE Notified \/ Disconnected
  BY <1>1, <1>2, <1>8, NotifiedKeepsSetup, DisconnectedKind
<1> QED
  BY <1>3, <1>4, <1>5, <1>6, <1>7, <1>8 DEF Next

(* A new session has no setup, no poll and no answer. *)
LEMMA InitSetup == Init => SInv
  BY SessionAssumption, DataAssumption
     DEF SessionAssumption, DataAssumption, Init, NewSession, Idle, SInv, Stations, Stationed,
         OneSetup, Overtaken, Leaving, PollReachable, Progress, Advanced, Live, Answers,
         Matched, Applies, Transacting, ReadyIsWhole

(* There is at most one setup, the session's connector; what it has established by the
   place it has reached stays so until the generation changes, whatever notifications,
   losses of the link, timeouts, cancellations and other calls come between. *)
THEOREM SetupInvariance == Spec => [](IInv /\ SInv)
<1>1. Init => IInv /\ SInv
  BY InitEstablishes, InitSetup
<1>2. IInv /\ SInv /\ [Next]_vars => (IInv /\ SInv)'
  BY NextPreserves, NextKeepsSetup
<1> QED
  BY <1>1, <1>2, PTL DEF Spec

(* session.connect: a session that says READY is authenticated on an intact client whose
   topology was checked, and shows a configuration and a telemetry reading of this very
   connection; it stays so for as long as it says READY. *)
THEOREM ReadySessionWhole == Spec => []ReadyIsWhole
<1>1. IInv /\ SInv => ReadyIsWhole
  BY DEF SInv
<1> QED
  BY <1>1, SetupInvariance, PTL

(* session._poll_maintenance: a poll that nobody has cancelled is the one the session
   remembers, and its session is READY. *)
THEOREM PollsAreReachable == Spec => []PollReachable
<1>1. IInv /\ SInv => PollReachable
  BY DEF SInv
<1> QED
  BY <1>1, SetupInvariance, PTL

-----------------------------------------------------------------------------
(* The end of a link. *)

(* The disconnect callback of the native client is that of the present generation at the
   latest, and of an older one while a disconnect() or a teardown is under way. *)
Handled ==
    /\ link.handler <= s.generation
    /\ Leaving \/ s.teardown # "none" => link.handler < s.generation

(* Only a poisoned client is torn down, and only disconnect() says DISCONNECTING. *)
Torn == s.teardown # "none" => s.poisoned
Disconnecting == s.state = "disconnecting" => Leaving

(* A disconnect is expected only while somebody is about to end the link. *)
Expecting ==
    s.expected => \/ Leaving \/ s.teardown # "none"
                  \/ \E t \in Tasks : task[t].pc = "cleaning"

(* The native client is connected by a setup that found it down. *)
LinkingDown == \A t \in Tasks : task[t].pc = "linking" => ~link.up

(* disconnect() waits for the setup in flight before it hangs up. *)
JoinsSetup ==
    \A t \in Tasks : task[t].op = "disconnect" =>
        /\ task[t].pc \in {"quieting", "tearing", "joining"} =>
              s.connector \in {None, task[t].joins}
        /\ task[t].pc \in {"unsubscribing", "hanging_up"} => s.connector = None

(* While no link is lost, a setup in flight never finds the session DISCONNECTED. *)
Lossless ==
    "link_loss" \notin Faults =>
        lost = 0 /\ (s.connector # None => s.state # "disconnected")

Down == ~({"link_loss", "stuck_link"} \subseteq Faults) => DisconnectedMeansDown

DInv == /\ Handled /\ Torn /\ Disconnecting /\ Expecting
        /\ LinkingDown /\ JoinsSetup /\ Lossless /\ Down

-----------------------------------------------------------------------------
(* Steps that have nothing to do with the end of a link. *)

(* e is d apart from readbacks, ambiguities, the poll and the pending response. *)
Tied(d, e) ==
    /\ e \in Session
    /\ e.state = d.state /\ e.generation = d.generation /\ e.connector = d.connector
    /\ e.poisoned = d.poisoned /\ e.teardown = d.teardown /\ e.expected = d.expected

(* d is the session as it was, or poisoned, or further on in its setup. *)
Bears(d) ==
    /\ d \in Session
    /\ d.generation >= s.generation /\ d.expected = s.expected
    /\ s.poisoned => d.poisoned
    /\ d.teardown # s.teardown =>
          d.poisoned /\ s.teardown = "none" /\ d.generation > s.generation
    /\ d.state = s.state \/ d.state \notin {"disconnected", "disconnecting"}
    /\ \/ d.connector = s.connector
       \/ d.connector = None /\ d.state # "disconnected"

(* No disconnect(), cleanup or native connect starts or ends. *)
Remains(t) ==
    /\ Apart(t, task')
    /\ t \in Tasks => /\ task[t].op # "disconnect" /\ task'[t].op # "disconnect"
                      /\ task[t].pc # "cleaning"
                      /\ task'[t].pc = "linking" => task[t].pc = "linking"

LinkCalm ==
    /\ link'.handler \in {link.handler, 0} /\ (link'.up => link.up)
    /\ lost' # lost => "link_loss" \in Faults

(* Types that the leaves below need. *)
LEMMA LinkTypes ==
    IInv => /\ s \in Session /\ s.generation \in Nat /\ s.expected \in BOOLEAN
            /\ task \in [Tasks -> TaskState] /\ None \notin Tasks
            /\ link.handler \in Nat /\ link.id \in Nat /\ link.up \in BOOLEAN
  BY DataAssumption DEF DataAssumption, IInv, TypeOK, Session

LEMMA CalmKeeps ==
    ASSUME IInv, SInv, DInv, Bears(s'), LinkCalm, NEW t, Remains(t)
    PROVE  DInv'
<1>1. /\ s.generation \in Nat /\ s'.generation \in Nat /\ link.handler \in Nat
      /\ s'.generation >= s.generation
  BY LinkTypes DEF Bears, Session
<1>2. \A u \in Tasks : /\ task'[u].op = "disconnect" <=> task[u].op = "disconnect"
                       /\ task[u].pc = "cleaning" => task'[u].pc = "cleaning"
                       /\ task'[u].pc = "linking" => task[u].pc = "linking"
                       /\ task'[u].op = "disconnect" =>
                             task'[u].pc = task[u].pc /\ task'[u].joins = task[u].joins
  BY DEF Remains, Apart
<1>3. Leaving' <=> Leaving
  BY <1>2 DEF Leaving
<1>4. Handled'
  <2>1. link'.handler \in {link.handler, 0}
    BY DEF LinkCalm
  <2>2. s'.teardown # "none" => s.teardown # "none" \/ s'.generation > s.generation
    BY DEF Bears
  <2> QED
    BY <1>1, <1>3, <2>1, <2>2 DEF DInv, Handled
<1>5. Torn' /\ Disconnecting'
  BY <1>3 DEF Bears, DInv, Torn, Disconnecting
<1>6. Expecting'
  BY <1>2, <1>3 DEF Bears, DInv, Expecting
<1>7. LinkingDown'
  BY <1>2 DEF LinkCalm, DInv, LinkingDown
<1>8. JoinsSetup'
  BY <1>2 DEF Bears, DInv, JoinsSetup
<1>9. Lossless' /\ Down'
  BY DEF Bears, LinkCalm, DInv, Lossless, Down, DisconnectedMeansDown
<1> QED
  BY <1>4, <1>5, <1>6, <1>7, <1>8, <1>9 DEF DInv

(* What the helpers of the session leave alone. *)
LEMMA HelpersTie ==
    ASSUME NEW d \in Session
    PROVE  /\ Tied(d, d) /\ Tied(d, ResetConnectionData(d)) /\ Tied(d, ForgetConnection(d))
           /\ Tied(d, FailPending(d))
           /\ \A operation, values : Tied(d, ResolveAmbiguity(d, operation, values))
           /\ \A o \in Outcome : Tied(d, MarkAmbiguous(d, o))
           /\ \A p \in Pending : Tied(d, [d EXCEPT !.pending = p])
<1>1. Tied(d, d)
  BY DEF Tied
<1>2. Tied(d, ResetConnectionData(d))
  BY ResetKeeps DEF Kept, Tied, ResetConnectionData, Session
<1>3. Tied(d, ForgetConnection(d))
  BY ForgetKeeps DEF Kept, Tied, ForgetConnection, ResetConnectionData, Session
<1>4. \A p \in Pending : Tied(d, [d EXCEPT !.pending = p])
  BY DEF Tied, Session
<1>5. Tied(d, FailPending(d))
  <2>1. [d.pending EXCEPT !.reply.kind = "failed"] \in Pending
    BY DEF Session, Pending, Frame
  <2>2. FailPending(d) \in {d, [d EXCEPT !.pending = [d.pending EXCEPT !.reply.kind = "failed"]]}
    BY DEF FailPending, Session
  <2> QED
    BY <1>1, <1>4, <2>1, <2>2
<1>6. \A operation, values : Tied(d, ResolveAmbiguity(d, operation, values))
  BY ResolveKeeps DEF Kept, Tied, ResolveAmbiguity, Session
<1>7. \A o \in Outcome : Tied(d, MarkAmbiguous(d, o))
  BY MarkKeeps DEF Kept, Tied, MarkAmbiguous, Session
<1> QED
  BY <1>1, <1>2, <1>3, <1>4, <1>5, <1>6, <1>7

(* A frame that is decoded changes readbacks and the answer. *)
LEMMA DecodedTies ==
    ASSUME NEW d \in Session, NEW f \in Frame
    PROVE  Tied(d, ApplyDecoded(d, f)) /\ Tied(d, MatchPending(d, f))
<1> DEFINE c == [d EXCEPT !.config = [known |-> TRUE, fresh |-> TRUE,
                    target |-> f.target, ceiling |-> f.ceiling, origin |-> f.on]]
           e == [d EXCEPT !.telemetry = [known |-> TRUE, fresh |-> TRUE,
                    output |-> f.output, origin |-> f.on]]
<1>1. Tied(d, d) /\ \A p \in Pending : Tied(d, [d EXCEPT !.pending = p])
  BY HelpersTie
<1>2. Tied(d, c) /\ Tied(d, e)
  BY DEF Tied, Session, Readback, OutputReading, Frame
<1>3. ApplyDecoded(d, f) \in {d, ResolveFromConfig(c), ResolveFromTelemetry(e)}
  BY DEF ApplyDecoded
<1> HIDE DEF c, e
<1>4. \A x \in Session : Tied(x, ResolveFromConfig(x)) /\ Tied(x, ResolveFromTelemetry(x))
  <2> TAKE x \in Session
  <2>1. Kept(x, ResolveFromConfig(x)) /\ Kept(x, ResolveFromTelemetry(x))
    BY ResolveFromReadbackKeeps
  <2> QED
    BY <2>1 DEF Kept, Tied, ResolveFromConfig, ResolveFromTelemetry, Session
<1>5. Tied(c, ResolveFromConfig(c)) /\ Tied(e, ResolveFromTelemetry(e))
  BY <1>2, <1>4 DEF Tied
<1>6. [d.pending EXCEPT !.reply = f] \in Pending
  BY DEF Session, Pending
<1>7. MatchPending(d, f) \in {d, [d EXCEPT !.pending = [d.pending EXCEPT !.reply = f]]}
  BY DEF MatchPending, Session
<1> QED
  BY <1>1, <1>2, <1>3, <1>5, <1>6, <1>7 DEF Tied

(* Poisoning schedules the teardown and ends the generation. *)
LEMMA PoisonBears ==
    ASSUME NEW d \in Session, ~d.poisoned
    PROVE  LET e == PoisonCurrentClient(d)
           IN /\ e \in Session /\ e.poisoned /\ e.state = "error"
              /\ e.generation = d.generation + 1 /\ e.connector = d.connector
              /\ e.expected = d.expected
              /\ e.teardown # d.teardown => d.teardown = "none"
<1> DEFINE c == ResetConnectionData(d)
           e == PoisonCurrentClient(d)
<1>1. e \in Session
  BY PoisonPoisons
<1>2. Tied(d, c)
  BY HelpersTie
<1>3. e = [c EXCEPT !.poisoned = TRUE, !.generation = c.generation + 1,
                    !.polling = FALSE, !.poller = None, !.state = "error",
                    !.teardown = IF c.teardown = "none" THEN "scheduled" ELSE c.teardown]
  BY <1>2 DEF PoisonCurrentClient, Tied, Session
<1> HIDE DEF c, e
<1>4. /\ e.poisoned /\ e.state = "error" /\ e.generation = c.generation + 1
      /\ e.connector = c.connector /\ e.expected = c.expected
      /\ e.teardown = IF c.teardown = "none" THEN "scheduled" ELSE c.teardown
  BY <1>2, <1>3 DEF Tied, Session
<1> QED
  BY <1>1, <1>2, <1>4 DEF e, Tied

(* Both kinds of session are ones a step may leave behind. *)
LEMMA TiedBears ==
    ASSUME IInv, NEW d, Tied(s, d)
    PROVE  Bears(d)
  BY LinkTypes DEF Tied, Bears

LEMMA PoisonedBears ==
    ASSUME IInv, NEW d, Tied(s, d)
    PROVE  Bears(PoisonCurrentClient(d))
<1>1. CASE d.poisoned
  BY <1>1, TiedBears DEF PoisonCurrentClient
<1>2. CASE ~d.poisoned
  BY <1>2, PoisonBears, LinkTypes DEF Tied, Bears
<1> QED
  BY <1>1, <1>2

-----------------------------------------------------------------------------
(* A setup that is unwound ends, or stays to clean up. *)
LEMMA UnwoundKeeps ==
    ASSUME IInv, SInv, DInv, NEW t \in Tasks, task[t].op = "connect", task[t].pc # "cleaning",
           NEW d, Bears(d), d.connector = s.connector,
           NEW ts, Apart(t, ts), ts[t].op = "connect",
           NEW up, NEW cancelled \in BOOLEAN, ConnectUnwind(t, d, ts, up, cancelled),
           link'.up => up, lost' = lost, link'.handler <= d.generation,
           Leaving \/ d.teardown # "none" => link'.handler < d.generation
    PROVE  DInv'
<1>1. /\ d \in Session /\ s.generation \in Nat /\ d.connector = t /\ t # None
      /\ ts \in [Tasks -> TaskState]
  BY LinkTypes DEF Bears, SInv, OneSetup, Apart
<1>2. ASSUME NEW r \in TaskState, task' = [ts EXCEPT ![t] = r], r.op # "disconnect",
             r.pc \in {"idle", "cleaning"}, s'.generation = d.generation,
             s'.teardown = d.teardown, s'.poisoned = d.poisoned,
             \/ r.pc = "cleaning" /\ s'.state = d.state /\ s'.connector = d.connector
             \/ /\ s'.expected = d.expected /\ s'.connector = None
                /\ s'.state = "error" \/ (s'.state = "disconnected" /\ ~up)
      PROVE  DInv'
  <2>1. /\ task'[t] = r
        /\ \A u \in Tasks \ {t} :
              /\ task'[u].pc = task[u].pc /\ task'[u].op = task[u].op
              /\ task'[u].joins = task[u].joins
    BY <1>1, <1>2 DEF Apart
  <2>2. Leaving' <=> Leaving
    BY <1>2, <2>1 DEF Leaving
  <2>3. Handled' /\ Torn' /\ Disconnecting'
    BY <1>2, <2>2 DEF DInv, Handled, Torn, Disconnecting, Bears
  <2>4. Expecting'
    BY <1>2, <2>1, <2>2 DEF DInv, Expecting, Bears
  <2>5. LinkingDown'
    <3>1. \A u \in Tasks \ {t} : task[u].pc # "linking"
      BY <1>1 DEF IInv, SetupPlaces, SInv, OneSetup
    <3> QED
      BY <1>2, <2>1, <3>1 DEF LinkingDown
  <2>6. JoinsSetup'
    BY <1>1, <1>2, <2>1 DEF DInv, JoinsSetup
  <2>7. Lossless' /\ Down'
    BY <1>1, <1>2 DEF DInv, Lossless, Down, DisconnectedMeansDown, Bears
  <2> QED
    BY <2>3, <2>4, <2>5, <2>6, <2>7 DEF DInv
<1>3. CASE s' = ConnectEnded(d, up, cancelled) /\ task' = [ts EXCEPT ![t] = Idle]
  <2> DEFINE f == FailPending(d)
             e == ForgetConnection(f)
  <2>1. f \in Session /\ Tied(d, f)
    BY <1>1, HelpersTie DEF Tied
  <2> HIDE DEF f
  <2>2. e \in Session /\ Tied(f, e)
    BY <2>1, HelpersTie DEF Tied
  <2>3. PICK x : /\ s' = [e EXCEPT !.polling = FALSE, !.poller = None, !.connector = None,
                                   !.state = x]
                 /\ x = "error" \/ (x = "disconnected" /\ ~up)
    BY <1>3 DEF ConnectEnded, f
  <2> HIDE DEF e
  <2>4. /\ s'.generation = d.generation /\ s'.teardown = d.teardown
        /\ s'.poisoned = d.poisoned /\ s'.expected = d.expected
        /\ s'.connector = None /\ s'.state = x
    BY <2>1, <2>2, <2>3 DEF Tied, Session
  <2>5. Idle \in TaskState /\ Idle.op = "none" /\ Idle.pc = "idle"
    BY IdleTypes DEF Idle
  <2> QED
    BY <1>2, <1>3, <2>3, <2>4, <2>5
<1>4. CASE /\ s' = [d EXCEPT !.expected = TRUE, !.polling = FALSE, !.poller = None]
           /\ task' = [ts EXCEPT ![t].pc = "cleaning", ![t].cancel = FALSE,
                                 ![t].failing = ~cancelled]
  <2> DEFINE r == [ts[t] EXCEPT !.pc = "cleaning", !.cancel = FALSE, !.failing = ~cancelled]
  <2>1. r \in TaskState /\ r.op = "connect" /\ r.pc = "cleaning"
    BY <1>1 DEF TaskState, Places
  <2>2. task' = [ts EXCEPT ![t] = r]
    BY <1>1, <1>4
  <2>3. /\ s'.generation = d.generation /\ s'.teardown = d.teardown
        /\ s'.poisoned = d.poisoned /\ s'.state = d.state /\ s'.connector = d.connector
    BY <1>1, <1>4 DEF Session
  <2> HIDE DEF r
  <2> QED
    BY <1>2, <2>1, <2>2, <2>3
<1> QED
  BY <1>3, <1>4 DEF ConnectUnwind

(* A task at work: no disconnect(), cleanup or native connect. *)
AtWork(t) == task[t].op # "disconnect" /\ task[t].pc # "cleaning"

(* It moves to r, the session to one it may leave behind. *)
LEMMA MovesKeep ==
    ASSUME IInv, SInv, DInv, NEW t \in Tasks, AtWork(t), Bears(s'), UNCHANGED <<link, lost>>,
           Apart(t, task'), task'[t].op # "disconnect", task'[t].pc # "linking"
    PROVE  DInv'
<1>1. LinkCalm /\ Remains(t)
  BY DEF LinkCalm, Remains, AtWork
<1> QED
  BY <1>1, CalmKeeps

(* Apart from t, ts has the tasks where they are, and so has what differs from it at t. *)
LEMMA ApartAgain ==
    ASSUME NEW t \in Tasks, NEW ts, Apart(t, ts), task' \in [Tasks -> TaskState],
           \A u \in Tasks \ {t} : task'[u] = ts[u]
    PROVE  Apart(t, task')
  BY DEF Apart

(* A task that gives up. *)
LEMMA GivenUpKeeps ==
    ASSUME IInv, SInv, DInv, NEW t \in Tasks, AtWork(t), NEW d, Bears(d),
           task[t].op = "connect" => d.connector = s.connector,
           NEW ts, Apart(t, ts), ts[t].op = task[t].op, NEW cancelled \in BOOLEAN,
           GiveUp(t, d, ts, cancelled), UNCHANGED <<link, lost>>
    PROVE  DInv'
<1>1. CASE task[t].op = "connect"
  <2>1. /\ link.handler <= d.generation
        /\ Leaving \/ d.teardown # "none" => link.handler < d.generation
    BY LinkTypes DEF DInv, Handled, Bears, Session
  <2> QED
    BY <1>1, <2>1, UnwoundKeeps DEF GiveUp, AtWork
<1>2. CASE task[t].op # "connect"
  <2>1. s' = d /\ task' = [ts EXCEPT ![t] = Idle]
    BY <1>2 DEF GiveUp
  <2>2. Apart(t, task') /\ task'[t].op = "none" /\ task'[t].pc = "idle"
    BY <2>1, IdleTypes DEF Apart, Idle
  <2> QED
    BY <2>1, <2>2, MovesKeep
<1> QED
  BY <1>1, <1>2

(* A request that is sent. *)
LEMMA SendKeepsLink ==
    ASSUME IInv, SInv, DInv, NEW t \in Tasks, AtWork(t), NEW d, Bears(d),
           NEW ts, Apart(t, ts), NEW op \in AllOperations, op # "disconnect",
           NEW want \in Targets, NEW k \in 1 .. Len(Program(op)),
           Send(t, d, ts, op, want, k), UNCHANGED <<link, lost>>
    PROVE  DInv'
<1>1. TypeOK /\ d \in Session /\ ts \in [Tasks -> TaskState]
  BY DEF IInv, Bears, Apart
<1>2. Sent(t, d, ts, op, k)
  BY <1>1, SendSends
<1>3. s' = [d EXCEPT !.pending = [owner |-> t, op |-> Opcode(Program(op)[k]), reply |-> NoFrame]]
  BY DEF Send
<1>4. /\ s'.expected = d.expected /\ s'.teardown = d.teardown /\ s'.connector = d.connector
  BY <1>1, <1>3 DEF Session
<1>5. Bears(s')
  BY <1>2, <1>4 DEF Sent, Bears
<1>6. Apart(t, task') /\ task'[t].op = op /\ task'[t].pc = "writing"
  BY <1>2, ApartAgain DEF Sent
<1> QED
  BY <1>5, <1>6, MovesKeep

(* A task that waits for the slot. *)
LEMMA QueuedKeepsLink ==
    ASSUME IInv, SInv, DInv, NEW t \in Tasks, AtWork(t), NEW d, Bears(d), s' = d,
           NEW ts, Apart(t, ts), NEW op \in AllOperations, op # "disconnect",
           NEW want \in Targets, NEW k \in Nat,
           task' = [ts EXCEPT ![t].pc = "queued", ![t].op = op, ![t].want = want,
                              ![t].step = k],
           UNCHANGED <<link, lost>>
    PROVE  DInv'
<1> DEFINE r == [ts[t] EXCEPT !.pc = "queued", !.op = op, !.want = want, !.step = k]
<1>1. ts \in [Tasks -> TaskState] /\ ts[t] \in TaskState
  BY DEF Apart
<1>2. r \in TaskState /\ r.op = op /\ r.pc = "queued"
  BY <1>1 DEF TaskState, Places
<1>3. task' = [ts EXCEPT ![t] = r]
  BY <1>1
<1> HIDE DEF r
<1>4. task' \in [Tasks -> TaskState] /\ task'[t] = r
  BY ONLY t \in Tasks, <1>1, <1>2, <1>3
<1>5. \A u \in Tasks \ {t} : task'[u] = ts[u]
  BY <1>1, <1>3
<1> QED
  BY <1>2, <1>4, <1>5, ApartAgain, MovesKeep

(* Entering the slot, going on in it, and leaving it. *)
LEMMA BeginKeepsLink ==
    ASSUME IInv, SInv, DInv, NEW t \in Tasks, AtWork(t), NEW d, Bears(d),
           task[t].op = "connect" => d.connector = s.connector,
           NEW ts, Apart(t, ts), ts[t].op = task[t].op,
           NEW op \in AllOperations, op # "disconnect",
           NEW want \in Targets, NEW k \in 1 .. Len(Program(op)),
           Begin(t, d, ts, op, want, k), UNCHANGED <<link, lost>>
    PROVE  DInv'
<1>1. CASE Send(t, d, ts, op, want, k)
  BY <1>1, SendKeepsLink
<1>2. CASE GiveUp(t, d, ts, FALSE)
  BY <1>2, GivenUpKeeps
<1>3. CASE /\ s' = d
           /\ task' = [ts EXCEPT ![t].pc = "queued", ![t].op = op, ![t].want = want,
                                 ![t].step = k]
  <2>1. k \in Nat
    OBVIOUS
  <2> QED
    BY <1>3, <2>1, QueuedKeepsLink
<1> QED
  BY <1>1, <1>2, <1>3 DEF Begin

LEMMA ContinueKeepsLink ==
    ASSUME IInv, SInv, DInv, NEW t \in Tasks, task[t].pc \in Transacting,
           task[t].op # "disconnect", NEW d, Bears(d),
           task[t].op = "connect" => d.connector = s.connector,
           NEW ts, Apart(t, ts), ts[t].op = task[t].op,
           NEW k \in 1 .. Len(Program(task[t].op)),
           Continue(t, d, ts, k), UNCHANGED <<link, lost>>
    PROVE  DInv'
<1>1. task[t].op \in AllOperations /\ task[t].want \in Targets /\ AtWork(t)
  BY OperationOf DEF AtWork, Transacting
<1>2. CASE Send(t, d, ts, task[t].op, task[t].want, k)
  BY <1>1, <1>2, SendKeepsLink
<1>3. CASE GiveUp(t, d, ts, FALSE)
  BY <1>1, <1>3, GivenUpKeeps
<1> QED
  BY <1>2, <1>3 DEF Continue

-----------------------------------------------------------------------------
(* The steps of a request. *)

LEMMA TransactsAtWork ==
    ASSUME IInv, SInv, NEW t \in Tasks, task[t].pc \in Engaged
    PROVE  /\ AtWork(t) /\ task[t].op \in AllOperations /\ task[t].want \in Targets
           /\ task[t].step \in 1 .. Len(Program(task[t].op))
<1>1. /\ task[t].op \in AllOperations /\ task[t].want \in Targets
      /\ task[t].step \in 1 .. Len(Program(task[t].op))
  BY OperationOf DEF Engaged
<1>2. Len(Program("disconnect")) = 0
  BY DataAssumption DEF DataAssumption, Program
<1>3. task[t].op # "disconnect"
  BY <1>1, <1>2
<1> QED
  BY <1>1, <1>3 DEF AtWork, Engaged, Transacting

LEMMA GrantedKeepsLink ==
    ASSUME IInv, SInv, DInv, NEW t \in Tasks, Granted(t)
    PROVE  DInv'
<1>1. Bears(s) /\ Apart(t, task)
  BY TaskApart, HelpersTie, TiedBears, LinkTypes
<1>2. /\ AtWork(t) /\ task[t].op \in AllOperations /\ task[t].want \in Targets
      /\ task[t].step \in 1 .. Len(Program(task[t].op))
  BY TransactsAtWork DEF Granted, Engaged
<1>3. UNCHANGED <<link, lost>>
  BY DEF Granted, world
<1>4. CASE Send(t, s, task, task[t].op, task[t].want, task[t].step)
  BY <1>1, <1>2, <1>3, <1>4, SendKeepsLink DEF AtWork
<1>5. CASE GiveUp(t, s, task, FALSE)
  BY <1>1, <1>2, <1>3, <1>5, GivenUpKeeps
<1> QED
  BY <1>4, <1>5 DEF Granted

(* A request that failed, with the client poisoned or not. *)
LEMMA FailedKeepsLink ==
    ASSUME IInv, SInv, DInv, NEW t \in Tasks, task[t].pc \in Transacting,
           NEW d \in {s, PoisonCurrentClient(s)}, NEW cancelled \in BOOLEAN,
           Failed(t, d, cancelled), UNCHANGED <<link, lost>>
    PROVE  DInv'
<1> DEFINE marked == IF Request(t) \in Mutations
                     THEN MarkAmbiguous(d, OutcomeOf(Request(t), task[t].want)) ELSE d
           e == [marked EXCEPT !.pending = NoPending]
           ts == IF d.poisoned /\ ~s.poisoned THEN CancelPoll(task, t) ELSE task
<1>1. GiveUp(t, e, ts, cancelled)
  BY DEF Failed
<1>2. Bears(d) /\ d.connector = s.connector
  BY HelpersTie, TiedBears, PoisonedBears, PoisonLeaves, LinkTypes
<1>3. Tied(d, marked)
  <2>1. Request(t) \in Mutations => OutcomeOf(Request(t), task[t].want) \in Outcome
    BY OperationOf, OutcomeTypes
  <2> QED
    BY <1>2, <2>1, HelpersTie DEF Bears
<1> HIDE DEF marked
<1>4. Tied(marked, e)
  BY <1>3, BlankTypes, HelpersTie DEF Tied
<1>5. Bears(e) /\ e.connector = s.connector
  BY <1>2, <1>3, <1>4 DEF Tied, Bears
<1> HIDE DEF e
<1>6. Apart(t, ts) /\ ts[t] = task[t]
  BY TaskApart, CancelPollApart
<1> HIDE DEF ts
<1>7. AtWork(t)
  BY TransactsAtWork DEF Engaged
<1> QED
  BY <1>1, <1>5, <1>6, <1>7, GivenUpKeeps

LEMMA FailuresKeepLink ==
    ASSUME IInv, SInv, DInv, NEW t \in Tasks,
           \/ WriteFailed(t) \/ WriteTimeout(t) \/ ReplyTimeout(t) \/ ReplyFailed(t)
           \/ UnwindWrite(t) \/ UnwindReply(t)
    PROVE  DInv'
<1>1. /\ task[t].pc \in Transacting /\ UNCHANGED <<link, lost>>
      /\ \E d \in {s, PoisonCurrentClient(s)}, cancelled \in BOOLEAN : Failed(t, d, cancelled)
  BY DEF WriteFailed, WriteTimeout, ReplyTimeout, ReplyFailed, Answered, UnwindWrite,
         UnwindReply, Transacting, world
<1> QED
  BY <1>1, FailedKeepsLink

LEMMA WriteDoneKeepsLink ==
    ASSUME IInv, SInv, DInv, NEW t \in Tasks, WriteDone(t)
    PROVE  DInv'
<1>1. /\ task[t].pc \in Transacting /\ task[t].pc \in Engaged /\ UNCHANGED <<link, lost>>
      /\ task \in [Tasks -> TaskState] /\ task[t] \in TaskState
  BY LinkTypes DEF WriteDone, Transacting, Engaged, world
<1>2. AtWork(t)
  BY <1>1, TransactsAtWork
<1>3. CASE Failed(t, PoisonCurrentClient(s), FALSE)
  BY <1>1, <1>3, FailedKeepsLink
<1>4. CASE s' = s /\ \/ task' = [task EXCEPT ![t].chunk = @ + 1]
                     \/ task' = [task EXCEPT ![t].pc = "replying"]
  <2>1. PICK r \in TaskState : /\ task' = [task EXCEPT ![t] = r]
                               /\ r.op = task[t].op /\ r.pc \in Transacting
    <3> DEFINE p == [task[t] EXCEPT !.chunk = @ + 1]
               q == [task[t] EXCEPT !.pc = "replying"]
    <3>1. p \in TaskState /\ p.op = task[t].op /\ p.pc \in Transacting
      BY <1>1 DEF TaskState
    <3>2. q \in TaskState /\ q.op = task[t].op /\ q.pc \in Transacting
      BY <1>1 DEF TaskState, Places, Transacting
    <3>3. task' = [task EXCEPT ![t] = p] \/ task' = [task EXCEPT ![t] = q]
      BY <1>1, <1>4
    <3> QED
      BY <3>1, <3>2, <3>3
  <2>2. Apart(t, task') /\ task'[t] = r
    BY <1>1, <2>1 DEF Apart
  <2>3. Bears(s')
    BY <1>4, HelpersTie, TiedBears, LinkTypes
  <2> QED
    BY <1>1, <1>2, <2>1, <2>2, <2>3, MovesKeep DEF AtWork, Transacting
<1> QED
  BY <1>3, <1>4 DEF WriteDone

LEMMA TakenBears == IInv => Tied(s, Taken) /\ Bears(Taken) /\ Taken.connector = s.connector
<1> SUFFICES ASSUME IInv PROVE Tied(s, Taken)
  BY TiedBears DEF Tied
<1> QED
  BY LinkTypes, BlankTypes, HelpersTie DEF Taken

(* An answer to a request of connect(). *)
LEMMA SetupReplyKeepsLink ==
    ASSUME IInv, SInv, DInv, NEW t \in Tasks, SetupReply(t)
    PROVE  DInv'
<1> DEFINE d == IF task[t].step = 1
                THEN [Taken EXCEPT !.authenticated = TRUE, !.state = "loading"] ELSE Taken
           e == [d EXCEPT !.state = "ready", !.connector = None]
           k == task[t].step
<1>1. /\ task[t].pc \in Transacting /\ task[t].pc \in Engaged /\ task[t].op = "connect"
      /\ UNCHANGED <<link, lost>> /\ Apart(t, task)
      /\ task \in [Tasks -> TaskState] /\ task[t] \in TaskState
  BY TaskApart, LinkTypes DEF SetupReply, Answered, Transacting, Engaged, world
<1>2. AtWork(t) /\ k \in 1 .. Len(Program("connect")) /\ Len(Program("connect")) = 5
  BY <1>1, TransactsAtWork, DataAssumption DEF DataAssumption, Program
<1>3. /\ Bears(Taken) /\ Taken.connector = s.connector
      /\ Bears(d) /\ d.connector = s.connector
  <2>1. Bears(Taken) /\ Taken.connector = s.connector
    BY TakenBears
  <2>2. CASE k = 1
    <3>1. d = [Taken EXCEPT !.authenticated = TRUE, !.state = "loading"]
      BY <2>2
    <3> HIDE DEF d
    <3>2. /\ d \in Session /\ d.state = "loading" /\ d.generation = Taken.generation
          /\ d.connector = Taken.connector /\ d.poisoned = Taken.poisoned
          /\ d.teardown = Taken.teardown /\ d.expected = Taken.expected
      BY <2>1, <3>1 DEF Bears, Session, States
    <3> QED
      BY <2>1, <3>2 DEF Bears
  <2> QED
    BY <2>1, <2>2
<1> HIDE DEF d
<1>4. CASE \E f \in {Taken, d}, cancelled \in BOOLEAN : GiveUp(t, f, task, cancelled)
  BY <1>1, <1>2, <1>3, <1>4, GivenUpKeeps
<1>5. CASE Leave(t, e, task)
  <2>1. /\ s' \in Session /\ s'.state = "ready" /\ s'.connector = None
        /\ s'.generation = d.generation /\ s'.poisoned = d.poisoned
        /\ s'.teardown = d.teardown /\ s'.expected = d.expected
    BY <1>3, <1>5 DEF Leave, Bears, Session, States
  <2>2. Bears(s')
    BY <1>3, <2>1 DEF Bears
  <2>3. /\ task' \in [Tasks -> TaskState] /\ task'[t].pc \in {"idle", "sleeping"}
        /\ task'[t].op = "none" /\ \A u \in Tasks \ {t} : task'[u] = task[u]
    BY <1>1, <1>5, IdleTypes DEF Leave, Idle, Sleeping
  <2> QED
    BY <1>1, <1>2, <2>2, <2>3, ApartAgain, MovesKeep
<1>6. CASE NextTransaction(t, d, task, k + 1) /\ k # Len(Program("connect"))
  <2>1. k + 1 \in 1 .. Len(Program(task[t].op)) /\ k + 1 \in Nat
    BY <1>1, <1>2, <1>6
  <2>2. CASE Continue(t, d, task, k + 1)
    BY <1>1, <1>2, <1>3, <2>1, <2>2, ContinueKeepsLink DEF AtWork
  <2>3. CASE s' = d /\ task' = [task EXCEPT ![t].pc = "queued", ![t].step = k + 1]
    <3> DEFINE q == [task[t] EXCEPT !.pc = "queued", !.step = k + 1]
    <3>1. q \in TaskState /\ q.pc = "queued" /\ q.op = "connect"
      BY <1>1, <2>1 DEF TaskState, Places
    <3>2. task' = [task EXCEPT ![t] = q]
      BY <1>1, <2>3
    <3> HIDE DEF q
    <3>3. task' \in [Tasks -> TaskState] /\ task'[t] = q /\ \A u \in Tasks \ {t} : task'[u] = task[u]
      BY <1>1, <3>1, <3>2
    <3> QED
      BY <1>1, <1>2, <1>3, <2>3, <3>1, <3>3, ApartAgain, MovesKeep
  <2> QED
    BY <1>6, <2>2, <2>3 DEF NextTransaction
<1> QED
  BY <1>4, <1>5, <1>6 DEF SetupReply, d

(* An answer to a request of a reader, a setter, Start or Stop. *)
LEMMA OperationReplyKeepsLink ==
    ASSUME IInv, SInv, DInv, NEW t \in Tasks, OperationReply(t)
    PROVE  DInv'
<1> DEFINE r == s.pending.reply
           k == task[t].step
           acked == [task EXCEPT ![t].ack = r.ack]
           outcome == OutcomeOf(Request(t), task[t].want)
<1>1. /\ task[t].pc \in Transacting /\ task[t].pc \in Engaged /\ task[t].op # "connect"
      /\ UNCHANGED <<link, lost>> /\ Apart(t, task)
      /\ task \in [Tasks -> TaskState] /\ task[t] \in TaskState /\ s \in Session
  BY TaskApart, LinkTypes DEF OperationReply, Answered, Transacting, Engaged, world
<1>2. /\ AtWork(t) /\ task[t].op \in AllOperations /\ task[t].want \in Targets
      /\ k \in 1 .. Len(Program(task[t].op))
  BY <1>1, TransactsAtWork
<1>3. Tied(s, Taken) /\ Bears(Taken) /\ Taken \in Session
  BY TakenBears DEF Tied
<1>4. CASE Request(t) \in Mutations /\ Continue(t, MarkAmbiguous(Taken, outcome), acked, k + 1)
  <2>1. Tied(Taken, MarkAmbiguous(Taken, outcome))
    BY <1>2, <1>3, <1>4, OutcomeTypes, HelpersTie
  <2>2. Bears(MarkAmbiguous(Taken, outcome))
    BY <1>3, <2>1, TiedBears DEF Tied
  <2>3. k + 1 \in 1 .. Len(Program(task[t].op))
    BY <1>2, <1>4, ProgramTypes DEF Request
  <2>4. r.ack \in {OFF, ON, Unknown}
    BY <1>1 DEF Session, Pending, Frame
  <2>5. Apart(t, acked) /\ acked[t].op = task[t].op
    <3>1. [task[t] EXCEPT !.ack = r.ack] \in TaskState
      BY <1>1, <2>4 DEF TaskState
    <3> QED
      BY <1>1, <3>1 DEF Apart, TaskState
  <2> HIDE DEF acked, outcome, k
  <2> QED
    BY <1>1, <1>2, <1>4, <2>2, <2>3, <2>5, ContinueKeepsLink DEF AtWork
<1>5. CASE GiveUp(t, Taken, task, FALSE)
  BY <1>1, <1>2, <1>3, <1>5, GivenUpKeeps
<1>6. CASE Leave(t, Confirm(t, r), task)
  <2>1. \/ Confirm(t, r) = Taken
        \/ \E operation, values : Confirm(t, r) = ResolveAmbiguity(Taken, operation, values)
    BY DEF Confirm
  <2>2. Tied(Taken, Confirm(t, r))
    BY <1>3, <2>1, HelpersTie
  <2>3. Bears(Confirm(t, r))
    BY <1>3, <2>2, TiedBears DEF Tied
  <2>4. /\ s' = Confirm(t, r) /\ task' \in [Tasks -> TaskState]
        /\ \A u \in Tasks \ {t} : task'[u] = task[u]
        /\ task'[t].pc \in {"idle", "sleeping"} /\ task'[t].op = "none"
    BY <1>1, <1>6, IdleTypes DEF Leave, Idle, Sleeping
  <2> QED
    BY <1>1, <1>2, <2>3, <2>4, ApartAgain, MovesKeep
<1>7. CASE k # Len(Program(task[t].op)) /\ Continue(t, Taken, task, k + 1)
  <2>1. k + 1 \in 1 .. Len(Program(task[t].op))
    <3>1. Len(Program(task[t].op)) \in Nat
      BY <1>2, DataAssumption DEF DataAssumption, Program, AllOperations
    <3> QED
      BY <1>2, <1>7, <3>1
  <2> QED
    BY <1>1, <1>2, <1>3, <1>7, <2>1, ContinueKeepsLink DEF AtWork
<1> QED
  BY <1>4, <1>5, <1>6, <1>7 DEF OperationReply

(* Cancellations. *)
LEMMA CancellationsKeepLink ==
    ASSUME IInv, SInv, DInv, NEW t \in Tasks,
           CancelCall(t) \/ UnwindQueued(t) \/ UnwindSleep(t) \/ UnwindSetup(t)
    PROVE  DInv'
<1>1. /\ Apart(None, task) /\ Apart(t, task) /\ s \in Session /\ None \notin Tasks
      /\ task \in [Tasks -> TaskState] /\ Bears(s) /\ link.handler \in Nat
  BY TaskApart, LinkTypes, HelpersTie, TiedBears
<1>2. CASE CancelCall(t)
  <2>1. Apart(None, task') /\ s' = s /\ UNCHANGED <<link, lost>>
    BY <1>1, <1>2, CancelKind DEF CancelCall, world
  <2>2. Remains(None) /\ LinkCalm
    BY <1>1, <2>1 DEF Remains, LinkCalm
  <2> QED
    BY <1>1, <2>1, <2>2, CalmKeeps
<1>3. CASE UnwindQueued(t)
  <2>1. AtWork(t) /\ GiveUp(t, s, task, TRUE) /\ UNCHANGED <<link, lost>>
    BY <1>3, TransactsAtWork DEF UnwindQueued, Engaged, world
  <2> QED
    BY <1>1, <2>1, GivenUpKeeps
<1>4. CASE UnwindSleep(t)
  <2>1. /\ task[t].op = "none" /\ task[t].pc = "sleeping" /\ s' = s
        /\ task' = [task EXCEPT ![t] = Idle] /\ UNCHANGED <<link, lost>>
    BY <1>4 DEF UnwindSleep, SInv, Stations, Stationed, world
  <2>2. Apart(t, task') /\ task'[t].pc = "idle" /\ task'[t].op = "none"
    BY <1>1, <2>1, IdleTypes DEF Apart, Idle
  <2> QED
    BY <1>1, <2>1, <2>2, MovesKeep DEF AtWork
<1>5. CASE UnwindSetup(t)
  <2>1. /\ task[t].op = "connect" /\ task[t].pc # "cleaning"
        /\ ConnectUnwind(t, s, task, link.up, TRUE) /\ lost' = lost
    BY <1>5 DEF UnwindSetup, IInv, SetupPlaces
  <2>2. link'.up = link.up /\ link'.handler \in {link.handler, 0}
    BY <1>5 DEF UnwindSetup, IInv, TypeOK
  <2>3. /\ link'.handler <= s.generation
        /\ Leaving \/ s.teardown # "none" => link'.handler < s.generation
    BY <1>1, <2>2, LinkTypes DEF DInv, Handled
  <2> QED
    BY <1>1, <2>1, <2>2, <2>3, UnwoundKeeps
<1> QED
  BY <1>2, <1>3, <1>4, <1>5

-----------------------------------------------------------------------------
(* The calls that make requests, and the poll. *)
LEMMA CallerAtWork ==
    ASSUME IInv, SInv, NEW t \in Tasks, NEW op, Calling(t, op)
    PROVE  AtWork(t) /\ task[t].op = "none" /\ t \notin Pollers
  BY CallerIdle DEF AtWork

LEMMA CallRequestKeepsLink ==
    ASSUME IInv, SInv, DInv, NEW t \in Tasks,
           \/ \E op \in {"refresh_config", "refresh_telemetry"} : CallRead(t, op)
           \/ \E op \in Setters, v \in Levels : CallSetter(t, op, v)
           \/ \E confirmed \in Confirmed : CallStart(t, confirmed)
    PROVE  DInv'
<1>1. Bears(s) /\ Apart(t, task)
  BY TaskApart, HelpersTie, TiedBears, LinkTypes
<1>2. PICK op \in Setters \cup {"start", "refresh_config", "refresh_telemetry"}, want \in Targets :
         Requested(t, op, want)
  BY RequestCalled
<1>3. op \in AllOperations /\ op # "disconnect" /\ 1 \in 1 .. Len(Program(op))
  BY ProgramNonempty, DataAssumption DEF DataAssumption
<1> QED
  BY <1>1, <1>2, <1>3, CallerAtWork, BeginKeepsLink DEF Requested, world

LEMMA CallStopKeepsLink ==
    ASSUME IInv, SInv, DInv, NEW t \in Tasks, CallStop(t) \/ CallStopPolling(t)
    PROVE  DInv'
<1>1. /\ AtWork(t) /\ task[t].op = "none" /\ t \notin Pollers /\ Apart(t, task)
      /\ UNCHANGED <<link, lost>>
  BY CallerAtWork, TaskApart DEF CallStop, CallStopPolling, world
<1>2. Bears(PollingOff)
  <2>1. Tied(s, PollingOff)
    BY LinkTypes DEF PollingOff, Tied, Session
  <2> QED
    BY <2>1, TiedBears
<1>3. ASSUME NEW op \in {"stop", "stop_polling"}, Quieting(t, op, PollingOff, None)
      PROVE  DInv'
  <2>1. s' = PollingOff /\ Apart(t, task') /\ task'[t].op = op /\ task'[t].pc = "quieting"
    BY <1>1, <1>3, QuietingQuiets
  <2> QED
    BY <1>1, <1>2, <2>1, MovesKeep
<1>4. CASE Begin(t, PollingOff, task, "stop", NoTarget, 1)
  <2>1. "stop" \in AllOperations /\ 1 \in 1 .. Len(Program("stop")) /\ NoTarget \in Targets
    BY ProgramNonempty, BlankTypes
  <2> QED
    BY <1>1, <1>2, <1>4, <2>1, BeginKeepsLink
<1> QED
  BY <1>3, <1>4 DEF CallStop, CallStopPolling

LEMMA CallStartPollingKeepsLink ==
    ASSUME IInv, SInv, DInv, NEW t \in Tasks, CallStartPolling(t)
    PROVE  DInv'
<1>1. /\ UNCHANGED <<link, lost>> /\ Apart(None, task) /\ None \notin Tasks /\ s \in Session
      /\ task \in [Tasks -> TaskState]
  BY TaskApart, LinkTypes DEF CallStartPolling, world
<1>2. \A p \in Pollers : Tied(s, [s EXCEPT !.polling = TRUE, !.poller = p])
  BY <1>1 DEF Tied, Session
<1>3. Tied(s, [s EXCEPT !.polling = TRUE])
  BY <1>1 DEF Tied, Session
<1>4. CASE s' = [s EXCEPT !.polling = TRUE] /\ UNCHANGED task
  <2>1. Bears(s') /\ LinkCalm /\ Remains(None)
    BY <1>1, <1>3, <1>4, TiedBears DEF LinkCalm, Remains
  <2> QED
    BY <2>1, CalmKeeps
<1>5. ASSUME NEW p \in Pollers, task[p].pc = "idle",
             s' = [s EXCEPT !.polling = TRUE, !.poller = p],
             task' = [task EXCEPT ![p] = Sleeping]
      PROVE  DInv'
  <2>1. p \in Tasks /\ task[p].op = "none"
    BY <1>5, SessionAssumption DEF SessionAssumption, SInv, Stations, Stationed
  <2>2. Bears(s')
    BY <1>2, <1>5, TiedBears
  <2>3. Apart(p, task') /\ task'[p].op = "none" /\ task'[p].pc = "sleeping"
    BY <1>1, <1>5, <2>1, IdleTypes DEF Apart, Sleeping, Idle
  <2> QED
    BY <1>1, <1>5, <2>1, <2>2, <2>3, MovesKeep DEF AtWork
<1> QED
  BY <1>4, <1>5 DEF CallStartPolling

LEMMA PollWakeKeepsLink ==
    ASSUME IInv, SInv, DInv, NEW t \in Tasks, PollWake(t)
    PROVE  DInv'
<1>1. /\ UNCHANGED <<link, lost>> /\ Apart(t, task) /\ Bears(s)
      /\ task \in [Tasks -> TaskState] /\ task[t].op = "none" /\ AtWork(t)
  BY TaskApart, LinkTypes, HelpersTie, TiedBears
     DEF PollWake, world, SInv, Stations, Stationed, AtWork
<1>2. CASE s' = s /\ task' = [task EXCEPT ![t] = Idle]
  <2>1. Apart(t, task') /\ task'[t].op = "none" /\ task'[t].pc = "idle"
    BY <1>1, <1>2, IdleTypes DEF Apart, Idle
  <2> QED
    BY <1>1, <1>2, <2>1, MovesKeep
<1>3. ASSUME NEW op \in {"refresh_config", "refresh_telemetry"}, Begin(t, s, task, op, NoTarget, 1)
      PROVE  DInv'
  <2>1. op \in AllOperations /\ op # "disconnect" /\ 1 \in 1 .. Len(Program(op))
        /\ NoTarget \in Targets
    BY ProgramNonempty, BlankTypes
  <2> QED
    BY <1>1, <1>3, <2>1, BeginKeepsLink
<1> QED
  BY <1>2, <1>3 DEF PollWake

-----------------------------------------------------------------------------
(* connect(). *)

(* A setup starts: it has a native client connected, or finds one to clean up. *)
LEMMA CallConnectKeepsLink ==
    ASSUME IInv, SInv, DInv, NEW t \in Tasks, CallConnect(t)
    PROVE  DInv'
<1> DEFINE n == [s EXCEPT !.generation = @ + 1]
           d == ForgetConnection(n)
           started == [d EXCEPT !.poisoned = FALSE, !.connector = t, !.state = "connecting"]
           i == Idle
           q == [i EXCEPT !.op = "connect", !.pc = "linking", !.gen = d.generation]
           ts == [task EXCEPT ![t] = q]
<1>1. /\ task[t].op = "none" /\ s.connector = None /\ ~Leaving /\ lost' = lost
      /\ task \in [Tasks -> TaskState] /\ Apart(None, task) /\ None \notin Tasks
      /\ s \in Session /\ s.generation \in Nat /\ link.up \in BOOLEAN
  BY CallerIdle, TaskApart, LinkTypes DEF CallConnect, MayConnect, Leaving
<1>2. n \in Session /\ n.generation = s.generation + 1
  BY <1>1, NextGeneration DEF Session
<1>3. /\ n.state = s.state /\ n.connector = s.connector /\ n.poisoned = s.poisoned
      /\ n.teardown = s.teardown /\ n.expected = s.expected
  BY <1>1 DEF Session
<1> HIDE DEF n
<1>4. d \in Session /\ Tied(n, d)
  BY <1>2, HelpersTie DEF Tied
<1> HIDE DEF d
<1>5. CASE s' = d /\ UNCHANGED <<task, link>>
  <2>1. Bears(s') /\ LinkCalm /\ Remains(None)
    BY <1>1, <1>2, <1>3, <1>4, <1>5 DEF Tied, Bears, LinkCalm, Remains
  <2> QED
    BY <2>1, CalmKeeps
<1>6. ~PoisonGateShut => s.teardown = "none"
  BY DEF PoisonGateShut, DInv, Torn
<1>7. \A u \in Tasks : task[u].op # "connect" /\ task[u].pc \notin {"linking", "cleaning"}
  BY <1>1 DEF IInv, SetupPlaces, SInv, OneSetup, Stations, Stationed
<1>8. s.teardown = "none" => ~s.expected
  BY <1>1, <1>7 DEF DInv, Expecting
<1>9. ASSUME s.teardown = "none", NEW r \in TaskState, r.op = "connect",
             task' = [task EXCEPT ![t] = r],
             s'.generation = d.generation, s'.teardown = d.teardown, s'.connector = t,
             s'.state = "connecting", link'.up = link.up, link'.handler <= d.generation,
             \/ r.pc = "linking" /\ ~link.up /\ s'.expected = d.expected
             \/ r.pc = "cleaning"
      PROVE  DInv'
  <2>1. task'[t] = r /\ \A u \in Tasks \ {t} : task'[u] = task[u]
    BY <1>1, <1>9
  <2>2. ~Leaving'
    BY <1>1, <1>9, <2>1 DEF Leaving
  <2>3. s'.teardown = "none" /\ (s'.expected => r.pc = "cleaning")
    BY <1>3, <1>4, <1>8, <1>9, LinkTypes DEF Tied
  <2>4. Handled' /\ Torn' /\ Disconnecting' /\ Expecting'
    BY <1>9, <2>1, <2>2, <2>3 DEF Handled, Torn, Disconnecting, Expecting
  <2>5. LinkingDown'
    BY <1>7, <1>9, <2>1 DEF LinkingDown
  <2>6. JoinsSetup'
    BY <2>2 DEF JoinsSetup, Leaving
  <2>7. Lossless' /\ Down'
    BY <1>1, <1>9 DEF DInv, Lossless, Down, DisconnectedMeansDown
  <2> QED
    BY <2>4, <2>5, <2>6, <2>7 DEF DInv
<1>10. /\ started \in Session /\ started.connector = t /\ started.state = "connecting"
       /\ started.generation = d.generation /\ ~started.poisoned
       /\ started.teardown = d.teardown /\ started.expected = d.expected
  BY <1>4 DEF Session, States
<1> HIDE DEF started
<1>11. i \in TaskState
  BY IdleTypes
<1> HIDE DEF i
<1>12. q \in TaskState /\ q.pc = "linking" /\ q.op = "connect" /\ d.generation \in Nat
  BY <1>4, <1>11 DEF TaskState, Places, AllOperations, Session
<1> HIDE DEF q
<1>13. CASE ~PoisonGateShut /\ link.up /\ ConnectUnwind(t, started, ts, TRUE, FALSE) /\ UNCHANGED link
  <2> DEFINE c == [q EXCEPT !.pc = "cleaning", !.cancel = FALSE, !.failing = TRUE]
  <2>1. /\ s' = [started EXCEPT !.expected = TRUE, !.polling = FALSE, !.poller = None]
        /\ task' = [ts EXCEPT ![t].pc = "cleaning", ![t].cancel = FALSE, ![t].failing = TRUE]
    BY <1>10, <1>13 DEF ConnectUnwind
  <2>2. c \in TaskState /\ c.op = "connect" /\ c.pc = "cleaning"
    BY <1>12 DEF TaskState, Places
  <2>3. task' = [task EXCEPT ![t] = c]
    BY <1>1, <2>1
  <2>4. /\ s'.connector = t /\ s'.state = "connecting" /\ s'.generation = d.generation
        /\ s'.teardown = d.teardown
    BY <1>10, <2>1 DEF Session
  <2> HIDE DEF c
  <2>5. link'.up = link.up /\ link'.handler <= d.generation
    <3>1. link' = link /\ d.generation = n.generation
      BY <1>4, <1>13 DEF Tied
    <3>2. link.handler <= s.generation /\ link.handler \in Nat
      BY LinkTypes DEF DInv, Handled
    <3> QED
      BY <1>1, <1>2, <3>1, <3>2
  <2> QED
    BY <1>6, <1>9, <1>13, <2>2, <2>3, <2>4, <2>5
<1>14. CASE /\ ~PoisonGateShut /\ ~link.up /\ s' = started /\ task' = ts
            /\ link' = [link EXCEPT !.handler = d.generation]
  <2>1. link'.up = link.up /\ link'.handler <= d.generation
    BY <1>12, <1>14 DEF IInv, TypeOK
  <2> QED
    BY <1>6, <1>9, <1>10, <1>12, <1>14, <2>1
<1> QED
  BY <1>1, <1>5, <1>13, <1>14 DEF CallConnect, n, d, started, i, q

(* A setup that goes on to its next place. *)
LEMMA AdvanceKeepsLink ==
    ASSUME IInv, SInv, DInv, NEW t \in Tasks, AtWork(t), Bears(s'),
           link'.handler = link.handler, link'.up = link.up, lost' = lost,
           NEW x \in {"subscribing", "settling"}, task' = [task EXCEPT ![t].pc = x]
    PROVE  DInv'
<1> DEFINE r == [task[t] EXCEPT !.pc = x]
<1>1. task \in [Tasks -> TaskState] /\ task[t] \in TaskState
  BY LinkTypes
<1>2. r \in TaskState /\ r.op = task[t].op /\ r.pc = x
  BY <1>1 DEF TaskState, Places
<1>3. task' = [task EXCEPT ![t] = r]
  BY <1>1
<1> HIDE DEF r
<1>4. Apart(t, task') /\ task'[t] = r
  BY <1>1, <1>2, <1>3 DEF Apart
<1>5. LinkCalm /\ Remains(t)
  BY <1>2, <1>4 DEF LinkCalm, Remains, AtWork
<1> QED
  BY <1>5, CalmKeeps

(* The native client is connected. *)
LEMMA LinkedKeepsLink ==
    ASSUME IInv, SInv, DInv, NEW t \in Tasks, Linked(t)
    PROVE  DInv'
<1> DEFINE q == [task[t] EXCEPT !.cancel = FALSE]
           ts == [task EXCEPT ![t].cancel = FALSE]
<1>1. /\ task[t].op = "connect" /\ task[t].pc = "linking" /\ s.connector = t
      /\ s \in Session /\ task \in [Tasks -> TaskState] /\ task[t] \in TaskState
      /\ Apart(t, task)
  BY SettingUp DEF Linked
<1>2. q \in TaskState /\ q.op = "connect" /\ q.gen = task[t].gen
  BY <1>1 DEF TaskState
<1>3. ts = [task EXCEPT ![t] = q]
  BY <1>1
<1>4. /\ link'.up /\ link'.handler = task[t].gen /\ lost' = lost
      /\ task[t].gen \in Nat /\ s.generation \in Nat /\ task[t].gen <= s.generation
  BY <1>1, LinkTypes DEF Linked, IInv, SetupIsCurrent, TaskState
<1>5. CASE /\ Current(t) /\ s' = [s EXCEPT !.state = "discovering"]
           /\ task' = [ts EXCEPT ![t].pc = "discovering"]
  <2> DEFINE r == [q EXCEPT !.pc = "discovering"]
  <2>1. r \in TaskState /\ r.op = "connect" /\ r.pc = "discovering"
    BY <1>2 DEF TaskState, Places
  <2>2. task' = [task EXCEPT ![t] = r]
    <3> HIDE DEF q
    <3> QED
      BY <1>1, <1>3, <1>5
  <2> HIDE DEF r
  <2>3. task'[t] = r /\ \A u \in Tasks \ {t} : task'[u] = task[u]
    BY <1>1, <2>2
  <2>4. /\ s'.state = "discovering" /\ s'.generation = s.generation /\ s'.connector = t
        /\ s'.teardown = s.teardown /\ s'.poisoned = s.poisoned /\ s'.expected = s.expected
    BY <1>1, <1>5 DEF Session
  <2>5. ~Leaving /\ s.teardown = "none"
    BY <1>1, <1>4, <1>5 DEF Current, SInv, Overtaken, IInv, SetupIsCurrent, DInv, Torn
  <2>6. ~Leaving'
    BY <2>1, <2>3, <2>5 DEF Leaving
  <2>7. Handled' /\ Torn' /\ Disconnecting'
    BY <1>4, <1>5, <2>4, <2>5, <2>6 DEF Current, Handled, Torn, Disconnecting
  <2>8. Expecting'
    BY <1>1, <2>3, <2>4, <2>5 DEF DInv, Expecting
  <2>9. LinkingDown'
    <3>1. \A u \in Tasks \ {t} : task[u].pc # "linking"
      BY <1>1 DEF IInv, SetupPlaces, SInv, OneSetup
    <3> QED
      BY <2>1, <2>3, <3>1 DEF LinkingDown
  <2>10. JoinsSetup'
    BY <2>6 DEF JoinsSetup, Leaving
  <2>11. Lossless' /\ Down'
    BY <1>4, <2>4 DEF DInv, Lossless, Down, DisconnectedMeansDown
  <2> QED
    BY <2>7, <2>8, <2>9, <2>10, <2>11 DEF DInv
<1>6. CASE ~Current(t) /\ ConnectUnwind(t, s, ts, TRUE, TRUE)
  <2> HIDE DEF q
  <2>1. Apart(t, ts) /\ ts[t] = q
    BY <1>1, <1>2, <1>3 DEF Apart
  <2> HIDE DEF ts
  <2>2. Bears(s)
    BY HelpersTie, TiedBears, LinkTypes
  <2>3. /\ link'.handler <= s.generation
        /\ Leaving \/ s.teardown # "none" => link'.handler < s.generation
    BY <1>4, <1>6 DEF Current
  <2> QED
    BY <1>1, <1>2, <1>4, <1>6, <2>1, <2>2, <2>3, UnwoundKeeps
<1> QED
  BY <1>5, <1>6 DEF Linked

(* A setup that fails before it has authenticated, and one that goes on. *)
LEMMA SetupStepsKeepLink ==
    ASSUME IInv, SInv, DInv, NEW t \in Tasks,
           LinkFails(t) \/ Discovered(t) \/ Subscribed(t) \/ Settled(t)
    PROVE  DInv'
<1>1. /\ task[t].op = "connect" /\ AtWork(t) /\ s.connector = t /\ lost' = lost
      /\ Apart(t, task) /\ s \in Session /\ link.up \in BOOLEAN
  <2>1. task[t].pc \in {"linking", "discovering", "subscribing", "settling"}
    BY DEF LinkFails, Discovered, Subscribed, Settled
  <2>2. lost' = lost
    BY DEF LinkFails, Discovered, Subscribed, Settled, world
  <2> QED
    BY <2>1, <2>2, SettingUp DEF AtWork
<1>2. Bears(s) /\ link.handler \in Nat /\ s.generation \in Nat
  BY HelpersTie, TiedBears, LinkTypes
<1>3. ASSUME NEW up, NEW cancelled \in BOOLEAN, ConnectUnwind(t, s, task, up, cancelled),
             link'.up => up, link'.handler \in {link.handler, 0}
      PROVE  DInv'
  <2>1. /\ link'.handler <= s.generation
        /\ Leaving \/ s.teardown # "none" => link'.handler < s.generation
    BY <1>2, <1>3 DEF DInv, Handled
  <2> QED
    BY <1>1, <1>2, <1>3, <2>1, UnwoundKeeps DEF AtWork
<1>4. CASE LinkFails(t)
  <2>1. ~link'.up /\ link'.handler = 0
    BY <1>4 DEF LinkFails, DInv, LinkingDown, IInv, TypeOK
  <2> QED
    BY <1>3, <1>4, <2>1 DEF LinkFails
<1>5. CASE Discovered(t)
  <2>1. link' = link
    BY <1>5 DEF Discovered, world
  <2>2. CASE s' = [s EXCEPT !.topology = TRUE] /\ task' = [task EXCEPT ![t].pc = "subscribing"]
    <3>1. Tied(s, s')
      BY <1>1, <2>2 DEF Tied, Session
    <3> QED
      BY <1>1, <2>1, <2>2, <3>1, TiedBears, AdvanceKeepsLink
  <2> QED
    BY <1>1, <1>3, <1>5, <2>1, <2>2 DEF Discovered
<1>6. CASE Subscribed(t)
  <2>1. link'.handler = link.handler /\ link'.up = link.up
    BY <1>6 DEF Subscribed, IInv, TypeOK
  <2>2. CASE s' = s /\ task' = [task EXCEPT ![t].pc = "settling"]
    BY <1>1, <1>2, <2>1, <2>2, AdvanceKeepsLink
  <2> QED
    BY <1>1, <1>3, <1>6, <2>1, <2>2 DEF Subscribed
<1>7. CASE Settled(t)
  <2>1. link' = link
    BY <1>7 DEF Settled, world
  <2>2. CASE Begin(t, [s EXCEPT !.state = "authenticating"], task, "connect", NoTarget, 1)
    <3> DEFINE d == [s EXCEPT !.state = "authenticating"]
    <3>1. /\ d \in Session /\ d.state = "authenticating" /\ d.generation = s.generation
          /\ d.connector = s.connector /\ d.poisoned = s.poisoned
          /\ d.teardown = s.teardown /\ d.expected = s.expected
      BY <1>1 DEF Session, States
    <3> HIDE DEF d
    <3>2. Bears(d)
      BY <1>2, <3>1 DEF Bears
    <3>3. "connect" \in AllOperations /\ 1 \in 1 .. Len(Program("connect")) /\ NoTarget \in Targets
      BY ProgramNonempty, BlankTypes
    <3> QED
      BY <1>1, <2>1, <2>2, <3>1, <3>2, <3>3, BeginKeepsLink DEF d
  <2> QED
    BY <1>1, <1>3, <1>7, <2>1, <2>2 DEF Settled
<1> QED
  BY <1>4, <1>5, <1>6, <1>7

(* The cleanup of a setup that failed is over: the link is down unless it stuck. *)
LEMMA CleanedKeepsLink ==
    ASSUME IInv, SInv, DInv, NEW t \in Tasks, Cleaned(t)
    PROVE  DInv'
<1> DEFINE d == [s EXCEPT !.expected = FALSE]
           f == FailPending(d)
           g == ForgetConnection(f)
<1>1. /\ task[t].op = "connect" /\ s.connector = t /\ t # None /\ lost' = lost
      /\ s \in Session /\ task \in [Tasks -> TaskState] /\ task' = [task EXCEPT ![t] = Idle]
  BY SettingUp, LinkTypes DEF Cleaned
<1>2. /\ d \in Session /\ d.state = s.state /\ d.generation = s.generation
      /\ d.poisoned = s.poisoned /\ d.teardown = s.teardown /\ ~d.expected
  BY <1>1 DEF Session
<1>3. \/ s' = [g EXCEPT !.connector = None]
      \/ \E x : /\ s' = [g EXCEPT !.polling = FALSE, !.poller = None, !.connector = None,
                                   !.state = x]
                /\ x = "error" \/ (x = "disconnected" /\ ~link'.up)
  <2> DEFINE x == IF ~task[t].failing /\ ~link'.up THEN "disconnected" ELSE "error"
  <2>1. \/ s' = [g EXCEPT !.connector = None]
        \/ s' = [g EXCEPT !.polling = FALSE, !.poller = None, !.connector = None, !.state = x]
    BY DEF Cleaned, ConnectEnded
  <2>2. x = "error" \/ (x = "disconnected" /\ ~link'.up)
    OBVIOUS
  <2> QED
    BY <2>1, <2>2
<1> HIDE DEF d
<1>4. f \in Session /\ Tied(d, f)
  BY <1>2, HelpersTie DEF Tied
<1> HIDE DEF f
<1>5. g \in Session /\ Tied(f, g)
  BY <1>4, HelpersTie DEF Tied
<1> HIDE DEF g
<1>6. /\ s'.connector = None /\ s'.generation = s.generation /\ s'.poisoned = s.poisoned
      /\ s'.teardown = s.teardown /\ ~s'.expected
      /\ \/ s'.state = s.state \/ s'.state = "error"
         \/ s'.state = "disconnected" /\ ~link'.up
  <2>1. /\ g.generation = s.generation /\ g.poisoned = s.poisoned
        /\ g.teardown = s.teardown /\ ~g.expected /\ g.state = s.state
    BY <1>2, <1>4, <1>5 DEF Tied
  <2>2. CASE s' = [g EXCEPT !.connector = None]
    BY <1>5, <2>1, <2>2 DEF Session
  <2>3. ASSUME NEW x, x = "error" \/ (x = "disconnected" /\ ~link'.up),
               s' = [g EXCEPT !.polling = FALSE, !.poller = None, !.connector = None,
                              !.state = x]
        PROVE  <1>6
    <3>1. /\ s'.connector = None /\ s'.generation = g.generation
          /\ s'.poisoned = g.poisoned /\ s'.teardown = g.teardown
          /\ s'.expected = g.expected /\ s'.state = x
      BY <1>5, <2>3 DEF Session
    <3> QED
      BY <2>1, <2>3, <3>1
  <2> QED
    BY <1>3, <2>2, <2>3
<1>7. /\ link'.handler \in {link.handler, 0}
      /\ link'.up => "stuck_link" \in Faults
  BY DEF Cleaned, HangUpOrStick, HangUp, Inject, IInv, TypeOK
<1>8. /\ task'[t].op = "none" /\ task'[t].pc = "idle"
      /\ \A u \in Tasks \ {t} : task'[u] = task[u]
  BY <1>1 DEF Idle
<1>9. Leaving' <=> Leaving
  BY <1>1, <1>8 DEF Leaving
<1>10. Handled' /\ Torn' /\ Disconnecting' /\ Expecting'
  BY <1>6, <1>7, <1>9, LinkTypes DEF DInv, Handled, Torn, Disconnecting, Expecting
<1>11. LinkingDown'
  <2>1. \A u \in Tasks \ {t} : task[u].pc # "linking"
    BY <1>1 DEF IInv, SetupPlaces, SInv, OneSetup
  <2> QED
    BY <1>8, <2>1 DEF LinkingDown
<1>12. JoinsSetup'
  BY <1>6, <1>8 DEF DInv, JoinsSetup
<1>13. Lossless' /\ Down'
  BY <1>1, <1>6, <1>7 DEF DInv, Lossless, Down, DisconnectedMeansDown
<1> QED
  BY <1>10, <1>11, <1>12, <1>13 DEF DInv

-----------------------------------------------------------------------------
(* disconnect(). *)

(* d is the session a disconnect() works on: the callback of the client is of an older
   generation. *)
Departing(d) ==
    /\ d \in Session /\ d.generation >= s.generation /\ link.handler < d.generation
    /\ d.poisoned = s.poisoned /\ d.teardown = s.teardown /\ d.connector = s.connector
    /\ d.state \in {s.state, "disconnecting"}

(* Where the disconnect() of t stands with d, or how it has ended. *)
Standing(t, d) ==
    /\ Apart(t, task')
    /\ s'.generation = d.generation /\ s'.connector = d.connector
    /\ s'.poisoned = d.poisoned /\ s'.teardown = d.teardown
    /\ \/ /\ task'[t].op = "disconnect" /\ s'.state = d.state
          /\ \/ /\ task'[t].pc \in {"quieting", "tearing", "joining"}
                /\ d.connector \in {None, task'[t].joins}
             \/ task'[t].pc \in {"unsubscribing", "hanging_up"} /\ d.connector = None
       \/ /\ task'[t].op = "none" /\ task'[t].pc = "idle"
          /\ d.connector = None /\ ~s'.expected
          /\ s'.state = "error" \/ (s'.state = "disconnected" /\ ~link'.up)

LEMMA StandingKeeps ==
    ASSUME IInv, SInv, DInv, NEW t \in Tasks, task[t].op \in {"none", "disconnect"},
           NEW d, Departing(d), Standing(t, d),
           link'.up => link.up, link'.handler \in {link.handler, 0}, lost' = lost
    PROVE  DInv'
<1>1. /\ s.generation \in Nat /\ d.generation \in Nat /\ link.handler \in Nat
      /\ s'.generation = d.generation /\ d.generation >= s.generation
      /\ link'.handler < s'.generation
  <2>1. d.generation \in Nat /\ s'.generation = d.generation /\ link.handler < d.generation
        /\ d.generation >= s.generation
    BY DEF Departing, Standing, Session
  <2> QED
    BY <2>1, LinkTypes
<1>2. \A u \in Tasks \ {t} : /\ task'[u].op = task[u].op /\ task'[u].pc = task[u].pc
                             /\ task'[u].joins = task[u].joins
  BY DEF Standing, Apart
<1>3. task[t].pc # "cleaning"
  BY DEF SInv, Stations, Stationed
<1>4. Handled'
  BY <1>1 DEF Handled
<1>5. Torn' /\ Disconnecting'
  <2>1. s'.state = "disconnecting" => task'[t].op = "disconnect"
    BY DEF Standing
  <2> QED
    BY <2>1 DEF Departing, Standing, DInv, Torn, Disconnecting, Leaving
<1>6. Expecting'
  <2>1. s'.expected => task'[t].op = "disconnect"
    BY DEF Standing
  <2> QED
    BY <2>1 DEF Expecting, Leaving
<1>7. LinkingDown'
  BY <1>2 DEF Standing, DInv, LinkingDown
<1>8. JoinsSetup'
  BY <1>2 DEF Departing, Standing, DInv, JoinsSetup
<1>9. Lossless' /\ Down'
  BY DEF Departing, Standing, DInv, Lossless, Down, DisconnectedMeansDown
<1> QED
  BY <1>4, <1>5, <1>6, <1>7, <1>8, <1>9 DEF DInv

(* disconnect() is over. *)
LEMMA EndStands ==
    ASSUME NEW t \in Tasks, NEW d \in Session, d.connector = None, NEW ts, Apart(t, ts),
           NEW up, s' = DisconnectEnded(d, up), task' = [ts EXCEPT ![t] = Idle],
           link'.up => up
    PROVE  Standing(t, d)
<1> DEFINE f == FailPending(d)
           g == ForgetConnection(f)
<1>1. f \in Session /\ Tied(d, f)
  BY HelpersTie DEF Tied
<1>2. s' = [g EXCEPT !.expected = FALSE, !.state = IF up THEN "error" ELSE "disconnected"]
  BY DEF DisconnectEnded
<1> HIDE DEF f
<1>3. g \in Session /\ Tied(f, g)
  BY <1>1, HelpersTie DEF Tied
<1> HIDE DEF g
<1>4. /\ s'.generation = d.generation /\ s'.connector = d.connector
      /\ s'.poisoned = d.poisoned /\ s'.teardown = d.teardown /\ ~s'.expected
      /\ s'.state = "error" \/ (s'.state = "disconnected" /\ ~link'.up)
  BY <1>1, <1>2, <1>3 DEF Tied, Session
<1>5. Apart(t, task') /\ task'[t].pc = "idle" /\ task'[t].op = "none"
  BY IdleTypes DEF Apart, Idle
<1> QED
  BY <1>4, <1>5 DEF Standing

(* It stays at one of its places. *)
LEMMA StayStands ==
    ASSUME NEW t \in Tasks, NEW d \in Session, NEW ts, Apart(t, ts),
           NEW r \in TaskState, task' = [ts EXCEPT ![t] = r], r.op = "disconnect",
           \/ r.pc \in {"tearing", "joining"} /\ d.connector \in {None, r.joins}
           \/ r.pc \in {"unsubscribing", "hanging_up"} /\ d.connector = None,
           s' = d \/ s' = [d EXCEPT !.expected = TRUE]
    PROVE  Standing(t, d)
<1>1. Apart(t, task') /\ task'[t] = r
  BY DEF Apart
<1>2. /\ s'.generation = d.generation /\ s'.connector = d.connector
      /\ s'.poisoned = d.poisoned /\ s'.teardown = d.teardown /\ s'.state = d.state
  BY DEF Session
<1> QED
  BY <1>1, <1>2 DEF Standing

(* disconnect() once the setup it cancelled has ended. *)
LEMMA AfterJoinStands ==
    ASSUME IInv, NEW t \in Tasks, NEW d \in Session, d.connector = None,
           NEW ts, Apart(t, ts), ts[t].op = "disconnect", AfterJoin(t, d, ts), link' = link
    PROVE  Standing(t, d)
<1>1. ts \in [Tasks -> TaskState] /\ ts[t] \in TaskState /\ link.id \in Nat
  BY DEF Apart, IInv, TypeOK
<1>2. CASE s' = d /\ task' = [ts EXCEPT ![t].pc = "tearing"]
  <2> DEFINE r == [ts[t] EXCEPT !.pc = "tearing"]
  <2>1. r \in TaskState /\ r.op = "disconnect" /\ r.pc = "tearing"
    BY <1>1 DEF TaskState, Places
  <2>2. task' = [ts EXCEPT ![t] = r]
    BY <1>2
  <2> HIDE DEF r
  <2> QED
    BY <1>2, <2>1, <2>2, StayStands
<1>3. CASE /\ s' = [d EXCEPT !.expected = TRUE]
           /\ \E x \in {"unsubscribing", "hanging_up"} :
                task' = [ts EXCEPT ![t].gen = link.id, ![t].pc = x]
  <2>1. PICK x \in {"unsubscribing", "hanging_up"} :
                task' = [ts EXCEPT ![t].gen = link.id, ![t].pc = x]
    BY <1>3
  <2> DEFINE r == [ts[t] EXCEPT !.gen = link.id, !.pc = x]
  <2>2. r \in TaskState /\ r.op = "disconnect" /\ r.pc = x
    BY <1>1 DEF TaskState, Places
  <2>3. task' = [ts EXCEPT ![t] = r]
    BY <1>1, <2>1
  <2> HIDE DEF r
  <2> QED
    BY <1>3, <2>2, <2>3, StayStands
<1>4. CASE ~link.up /\ s' = DisconnectEnded(d, FALSE) /\ task' = [ts EXCEPT ![t] = Idle]
  BY <1>4, EndStands
<1> QED
  BY <1>2, <1>3, <1>4 DEF AfterJoin, HangingUp

(* disconnect() once the poll has ended: a setup in flight is cancelled and awaited. *)
LEMMA AfterQuietStands ==
    ASSUME IInv, SInv, NEW t \in Tasks, t \notin Pollers, task[t].op # "connect",
           NEW d \in Session, NEW ts, Apart(t, ts), ts[t].op = "disconnect",
           d.connector = s.connector, d.connector \in {None, ts[t].joins},
           AfterQuiet(t, d, ts), link' = link
    PROVE  Standing(t, d)
<1> DEFINE c == ts[t].joins
           js == [ts EXCEPT ![t].pc = "joining"]
           ns == [ts EXCEPT ![t].joins = None]
<1>1. ts \in [Tasks -> TaskState] /\ ts[t] \in TaskState /\ c \in Tasks \cup {None}
  BY DEF Apart, TaskState
<1>2. CASE s' = d /\ task' = [ts EXCEPT ![t].pc = "tearing"]
  <2> DEFINE r == [ts[t] EXCEPT !.pc = "tearing"]
  <2>1. r \in TaskState /\ r.op = "disconnect" /\ r.pc = "tearing" /\ r.joins = c
    BY <1>1 DEF TaskState, Places
  <2>2. task' = [ts EXCEPT ![t] = r]
    BY <1>2
  <2> HIDE DEF r
  <2> QED
    BY <1>2, <2>1, <2>2, StayStands
<1>3. CASE c # None /\ task[c].op = "connect" /\ s' = d /\ CancelTask(js, c)
  <2> DEFINE r == [ts[t] EXCEPT !.pc = "joining"]
  <2>1. r \in TaskState /\ r.op = "disconnect" /\ r.pc = "joining" /\ r.joins = c
    BY <1>1 DEF TaskState, Places
  <2>2. c \in Tasks \ {t}
    BY <1>1, <1>3
  <2>3. js = [ts EXCEPT ![t] = r] /\ task' = [js EXCEPT ![c].cancel = TRUE]
    BY <1>1, <1>3 DEF CancelTask
  <2>4. task'[t] = r
    <3> HIDE DEF r, js, c
    <3>1. js[t] = r /\ js \in [Tasks -> TaskState]
      BY <1>1, <2>1, <2>3
    <3> QED
      BY <2>2, <2>3, <3>1
  <2>5. Apart(t, task')
    BY AfterQuietLeaves DEF LeftBehind
  <2> QED
    BY <1>3, <2>1, <2>4, <2>5 DEF Standing
<1>4. CASE ~(c # None /\ task[c].op = "connect") /\ AfterJoin(t, d, ns)
  <2> DEFINE r == [ts[t] EXCEPT !.joins = None]
  <2>1. r \in TaskState /\ r.op = "disconnect"
    BY <1>1 DEF TaskState
  <2>2. ns = [ts EXCEPT ![t] = r]
    BY <1>1
  <2> HIDE DEF r
  <2>3. Apart(t, ns) /\ ns[t] = r
    BY <1>1, <2>1, <2>2 DEF Apart
  <2> HIDE DEF ns
  <2>4. d.connector = None
    BY <1>1, <1>4 DEF SInv, OneSetup
  <2> QED
    BY <1>4, <2>1, <2>3, <2>4, AfterJoinStands
<1> QED
  BY <1>2, <1>3, <1>4 DEF AfterQuiet

(* disconnect() is called: from here on the callback of the client is an older one. *)
LEMMA CallDisconnectKeepsLink ==
    ASSUME IInv, SInv, DInv, NEW t \in Tasks, CallDisconnect(t)
    PROVE  DInv'
<1> DEFINE left == [s EXCEPT !.generation = @ + 1]
           d == [left EXCEPT !.state = "disconnecting", !.polling = FALSE, !.poller = None]
           i == Idle
           r == [i EXCEPT !.op = "disconnect", !.joins = s.connector]
           ts == [task EXCEPT ![t] = r]
<1>1. /\ task[t].op = "none" /\ t \notin Pollers /\ UNCHANGED <<link, lost>>
      /\ task \in [Tasks -> TaskState] /\ Apart(None, task) /\ None \notin Tasks
      /\ s.connector \in Tasks \cup {None} /\ s \in Session
  BY CallerIdle, TaskApart, LinkTypes DEF CallDisconnect, Session, world
<1>2. left \in Session /\ left.generation = s.generation + 1
  BY <1>1, NextGeneration DEF Session
<1>3. /\ left.state = s.state /\ left.connector = s.connector /\ left.poisoned = s.poisoned
      /\ left.teardown = s.teardown /\ left.expected = s.expected
  BY <1>1 DEF Session
<1> HIDE DEF left
<1>4. CASE s' = ForgetConnection(left) /\ UNCHANGED task
  <2>1. Tied(left, s')
    BY <1>2, <1>4, HelpersTie
  <2>2. Bears(s') /\ LinkCalm /\ Remains(None)
    BY <1>1, <1>2, <1>3, <1>4, <2>1, LinkTypes DEF Tied, Bears, LinkCalm, Remains
  <2> QED
    BY <2>2, CalmKeeps
<1>5. /\ d \in Session /\ d.generation = left.generation /\ d.connector = left.connector
      /\ d.state = "disconnecting" /\ d.poisoned = left.poisoned
      /\ d.teardown = left.teardown
  BY <1>2 DEF Session, States
<1> HIDE DEF d
<1>6. Departing(d)
  <2>1. link.handler <= s.generation /\ link.handler \in Nat /\ s.generation \in Nat
    BY LinkTypes DEF DInv, Handled
  <2>2. d.generation = s.generation + 1
    BY <1>2, <1>5
  <2>3. d.generation >= s.generation /\ link.handler < d.generation
    BY <2>1, <2>2
  <2> QED
    BY <1>3, <1>5, <2>3 DEF Departing
<1>7. CASE Quieting(t, "disconnect", d, s.connector)
  <2>1. /\ s' = d /\ Apart(t, task') /\ task'[t].joins = s.connector
        /\ task'[t].op = "disconnect" /\ task'[t].pc = "quieting"
    BY <1>1, <1>7, QuietingQuiets
  <2>2. Standing(t, d)
    BY <1>3, <1>5, <2>1 DEF Standing
  <2> QED
    BY <1>1, <1>6, <2>2, StandingKeeps
<1>8. CASE AfterQuiet(t, d, ts)
  <2>1. i \in TaskState
    BY IdleTypes
  <2> HIDE DEF i
  <2>2. r \in TaskState /\ r.op = "disconnect" /\ r.joins = s.connector
    BY <1>1, <2>1 DEF TaskState, AllOperations
  <2> HIDE DEF r
  <2>3. Apart(t, ts) /\ ts[t] = r
    BY <1>1, <2>2 DEF Apart
  <2> HIDE DEF ts
  <2>4. Standing(t, d)
    BY <1>1, <1>3, <1>5, <1>8, <2>2, <2>3, AfterQuietStands
  <2> QED
    BY <1>1, <1>6, <2>4, StandingKeeps
<1> QED
  BY <1>4, <1>7, <1>8 DEF CallDisconnect, left, d, i, r, ts

(* A disconnect() in progress goes on, or is over. *)
LEMMA DisconnectStepsKeepLink ==
    ASSUME IInv, SInv, DInv, NEW t \in Tasks,
           \/ Quieted(t) /\ task[t].op = "disconnect"
           \/ TornDown(t) \/ Joined(t) \/ Unsubscribed(t) \/ HungUp(t)
    PROVE  DInv'
<1>1. /\ task[t].pc \in {"quieting", "tearing", "joining", "unsubscribing", "hanging_up"}
      /\ task[t].op = "disconnect" /\ t \notin Pollers /\ lost' = lost
  BY DEF Quieted, TornDown, Joined, Unsubscribed, HungUp, world, SInv, Stations, Stationed
<1>2. /\ s \in Session /\ task \in [Tasks -> TaskState] /\ task[t] \in TaskState
      /\ Apart(t, task) /\ link.id \in Nat /\ s.connector \in Tasks \cup {None}
  BY TaskApart, LinkTypes DEF Session
<1>3. Departing(s)
  <2>1. link.handler < s.generation
    BY <1>1 DEF Leaving, DInv, Handled
  <2> QED
    BY <1>2, <2>1, LinkTypes DEF Departing
<1>4. /\ task[t].pc \in {"quieting", "tearing", "joining"} =>
            s.connector \in {None, task[t].joins}
      /\ task[t].pc \in {"unsubscribing", "hanging_up"} => s.connector = None
  BY <1>1 DEF DInv, JoinsSetup
<1>5. ASSUME Standing(t, s), link'.up => link.up, link'.handler \in {link.handler, 0}
      PROVE  DInv'
  BY <1>1, <1>3, <1>5, StandingKeeps
<1>6. CASE Quieted(t)
  <2> DEFINE r == [task[t] EXCEPT !.awaits = None]
             ts == [task EXCEPT ![t].awaits = None]
  <2>1. r \in TaskState /\ r.op = "disconnect" /\ r.joins = task[t].joins
    BY <1>1, <1>2, DataAssumption DEF TaskState
  <2>2. ts = [task EXCEPT ![t] = r]
    BY <1>2
  <2> HIDE DEF r
  <2>3. Apart(t, ts) /\ ts[t] = r /\ AfterQuiet(t, s, ts) /\ link' = link
    BY <1>1, <1>2, <1>6, <2>1, <2>2 DEF Apart, Quieted, world
  <2> HIDE DEF ts
  <2> QED
    BY <1>1, <1>2, <1>4, <1>5, <1>6, <2>1, <2>3, AfterQuietStands DEF Quieted
<1>7. CASE TornDown(t)
  <2>1. AfterQuiet(t, s, task) /\ link' = link
    BY <1>7 DEF TornDown, world
  <2> QED
    BY <1>1, <1>2, <1>4, <1>5, <1>7, <2>1, AfterQuietStands DEF TornDown
<1>8. CASE Joined(t)
  <2> DEFINE r == [task[t] EXCEPT !.joins = None]
             ts == [task EXCEPT ![t].joins = None]
  <2>1. r \in TaskState /\ r.op = "disconnect"
    BY <1>1, <1>2 DEF TaskState
  <2>2. ts = [task EXCEPT ![t] = r]
    BY <1>2
  <2> HIDE DEF r
  <2>3. Apart(t, ts) /\ ts[t] = r /\ AfterJoin(t, s, ts) /\ link' = link
    BY <1>2, <1>8, <2>1, <2>2 DEF Apart, Joined, world
  <2> HIDE DEF ts
  <2>4. s.connector = None
    BY <1>2, <1>4, <1>8 DEF Joined, SInv, OneSetup
  <2> QED
    BY <1>2, <1>5, <2>1, <2>3, <2>4, AfterJoinStands
<1>9. CASE Unsubscribed(t)
  <2>1. s.connector = None /\ link' = link
    BY <1>4, <1>9 DEF Unsubscribed, world
  <2>2. CASE s' = s /\ task' = [task EXCEPT ![t].pc = "hanging_up", ![t].gen = link.id]
    <3> DEFINE r == [task[t] EXCEPT !.pc = "hanging_up", !.gen = link.id]
    <3>1. r \in TaskState /\ r.op = "disconnect" /\ r.pc = "hanging_up"
      BY <1>1, <1>2 DEF TaskState, Places
    <3>2. task' = [task EXCEPT ![t] = r]
      BY <1>2, <2>2
    <3> HIDE DEF r
    <3>3. s' = s
      BY <2>2
    <3>4. Standing(t, s)
      BY <1>2, <2>1, <3>1, <3>2, <3>3, StayStands
    <3> QED
      BY <1>5, <2>1, <3>4
  <2>3. CASE ~link.up /\ s' = DisconnectEnded(s, FALSE) /\ task' = [task EXCEPT ![t] = Idle]
    BY <1>2, <1>5, <2>1, <2>3, EndStands
  <2> QED
    BY <1>9, <2>2, <2>3 DEF Unsubscribed
<1>10. CASE HungUp(t)
  <2>1. /\ s.connector = None /\ s' = DisconnectEnded(s, link'.up)
        /\ task' = [task EXCEPT ![t] = Idle]
    BY <1>4, <1>10 DEF HungUp
  <2>2. (link'.up => link.up) /\ link'.handler \in {link.handler, 0}
    BY <1>10 DEF HungUp, HangUpOrStick, HangUp, IInv, TypeOK
  <2> QED
    BY <1>2, <1>5, <2>1, <2>2, EndStands
<1> QED
  BY <1>6, <1>7, <1>8, <1>9, <1>10

(* The poll that Stop or stop_polling() was waiting for has ended. *)
LEMMA QuietedKeepsLink ==
    ASSUME IInv, SInv, DInv, NEW t \in Tasks, Quieted(t)
    PROVE  DInv'
<1> DEFINE r == [task[t] EXCEPT !.awaits = None]
           ts == [task EXCEPT ![t].awaits = None]
<1>1. /\ task[t].pc = "quieting" /\ task[t].op \in {"stop", "stop_polling", "disconnect"}
      /\ UNCHANGED <<link, lost>> /\ Bears(s)
      /\ task \in [Tasks -> TaskState] /\ task[t] \in TaskState
  BY LinkTypes, HelpersTie, TiedBears DEF Quieted, world, SInv, Stations, Stationed
<1>2. r \in TaskState /\ r.op = task[t].op
  BY <1>1 DEF TaskState
<1>3. ts = [task EXCEPT ![t] = r]
  BY <1>1
<1> HIDE DEF r
<1>4. Apart(t, ts) /\ ts[t] = r
  BY <1>1, <1>2, <1>3 DEF Apart
<1> HIDE DEF ts
<1>5. CASE task[t].op = "stop" /\ Begin(t, s, ts, "stop", NoTarget, 1)
  <2>1. "stop" \in AllOperations /\ 1 \in 1 .. Len(Program("stop")) /\ NoTarget \in Targets
    BY ProgramNonempty, BlankTypes
  <2> QED
    BY <1>1, <1>2, <1>4, <1>5, <2>1, BeginKeepsLink DEF AtWork
<1>6. CASE task[t].op = "stop_polling" /\ s' = s /\ task' = [ts EXCEPT ![t] = Idle]
  <2>1. Apart(t, task') /\ task'[t].pc = "idle" /\ task'[t].op = "none"
    BY <1>4, <1>6, IdleTypes DEF Apart, Idle
  <2> QED
    BY <1>1, <1>6, <2>1, MovesKeep DEF AtWork
<1> QED
  BY <1>1, <1>5, <1>6, DisconnectStepsKeepLink DEF Quieted, ts

-----------------------------------------------------------------------------
(* Everybody else. *)

(* Steps that leave the tasks, the state and the setup alone. *)
LEMMA WorldKeepsLink ==
    ASSUME IInv, SInv, DInv, HandBack \/ Environment
    PROVE  DInv'
<1>1. Apart(None, task) /\ s \in Session /\ None \notin Tasks
  BY TaskApart, LinkTypes
<1>2. task' = task
  BY DEF HandBack, Environment, NativeLands, NativeCompletes, NativeFails, OrphanEnds,
         ChargerHandles, ChargerMisbehaves, Panel, Unsolicited, NoiseArrives, Expire, LinkLoss
<1>3. Bears(s')
  <2>1. CASE s' = s
    BY <2>1, HelpersTie, TiedBears, LinkTypes
  <2>2. CASE Expire
    <3>1. Tied(s, [s EXCEPT !.config.fresh = FALSE])
      BY <1>1 DEF Tied, Session, Readback
    <3>2. Tied(s, [s EXCEPT !.telemetry.fresh = FALSE])
      BY <1>1 DEF Tied, Session, OutputReading
    <3> QED
      BY <2>2, <3>1, <3>2, TiedBears DEF Expire
  <2> QED
    BY <2>1, <2>2 DEF HandBack, Environment, NativeLands, NativeCompletes, NativeFails,
         OrphanEnds, ChargerHandles, ChargerMisbehaves, Panel, Unsolicited, NoiseArrives,
         LinkLoss
<1>4. LinkCalm
  <2>1. CASE UNCHANGED <<link, lost>>
    BY <2>1 DEF LinkCalm
  <2>2. CASE LinkLoss
    BY <2>2 DEF LinkLoss, Inject, LinkCalm, IInv, TypeOK
  <2> QED
    BY <2>1, <2>2 DEF HandBack, Environment, NativeLands, NativeCompletes, NativeFails,
         OrphanEnds, ChargerHandles, ChargerMisbehaves, Panel, Unsolicited, NoiseArrives,
         Expire, world
<1>5. Remains(None)
  BY <1>1, <1>2 DEF Remains, Apart
<1> QED
  BY <1>3, <1>4, <1>5, CalmKeeps

(* The teardown of a poisoned client starts, and ends. *)
LEMMA TeardownKeepsLink ==
    ASSUME IInv, SInv, DInv, TeardownStarts \/ TeardownEnds
    PROVE  DInv'
<1>1. /\ s.teardown # "none" /\ task' = task /\ lost' = lost
      /\ s'.generation = s.generation /\ s'.poisoned = s.poisoned /\ s'.state = s.state
      /\ s'.connector = s.connector /\ (s'.expected => s'.teardown # "none")
  BY LinkTypes DEF TeardownStarts, TeardownEnds, Session, world
<1>2. link'.handler \in {link.handler, 0} /\ (link'.up => link.up)
  BY DEF TeardownStarts, TeardownEnds, HangUpOrStick, HangUp, world, IInv, TypeOK
<1>3. Leaving' <=> Leaving
  BY <1>1 DEF Leaving
<1>4. Handled'
  BY <1>1, <1>2, <1>3, LinkTypes DEF DInv, Handled
<1>5. Torn' /\ Disconnecting' /\ Expecting'
  BY <1>1, <1>3 DEF DInv, Torn, Disconnecting, Expecting
<1>6. LinkingDown' /\ JoinsSetup' /\ Lossless' /\ Down'
  BY <1>1, <1>2 DEF DInv, LinkingDown, JoinsSetup, Lossless, Down, DisconnectedMeansDown
<1> QED
  BY <1>4, <1>5, <1>6 DEF DInv

(* A notification may poison the client. *)
LEMMA NotifiedKeepsLink ==
    ASSUME IInv, SInv, DInv, Notified
    PROVE  DInv'
<1> DEFINE f == Head(fromDev)
<1>1. /\ Apart(None, task) /\ s \in Session /\ f \in Frame /\ None \notin Tasks /\ LinkCalm
  BY TaskApart, LinkTypes DEF IInv, TypeOK, Notified, LinkCalm
<1>2. Bears(s')
  <2>1. CASE s' = s
    BY <1>1, <2>1, HelpersTie, TiedBears
  <2>2. CASE s' = PoisonCurrentClient(FailPending(s))
    BY <1>1, <2>2, HelpersTie, PoisonedBears
  <2>3. CASE s' = MatchPending(ApplyDecoded(s, f), f)
    <3> DEFINE d == ApplyDecoded(s, f)
    <3>1. Tied(s, d)
      BY <1>1, DecodedTies
    <3>2. d \in Session
      BY <3>1 DEF Tied
    <3> HIDE DEF d
    <3>3. Tied(d, MatchPending(d, f))
      BY <1>1, <3>2, DecodedTies
    <3>4. Tied(s, s')
      BY <2>3, <3>1, <3>3 DEF Tied, d
    <3> QED
      BY <3>4, TiedBears
  <2> QED
    BY <2>1, <2>2, <2>3 DEF Notified
<1>3. Apart(None, task')
  BY <1>1, CancelPollApart DEF Notified
<1>4. Remains(None)
  BY <1>1, <1>3 DEF Remains
<1> QED
  BY <1>1, <1>2, <1>4, CalmKeeps

(* The notice that the present link is lost. *)
LEMMA DisconnectedKeepsLink ==
    ASSUME IInv, SInv, DInv, Disconnected
    PROVE  DInv'
<1> DEFINE l == [s EXCEPT !.generation = @ + 1, !.polling = FALSE, !.poller = None]
           c == ResetConnectionData(l)
           f == FailPending(c)
           x == IF s.expected \/ s.state = "disconnecting" THEN "disconnected" ELSE "error"
<1>1. /\ Apart(None, task) /\ s \in Session /\ s.generation \in Nat /\ None \notin Tasks
      /\ link' = link
  BY TaskApart, LinkTypes DEF Disconnected
<1>2. "link_loss" \in Faults
  BY DEF Disconnected, DInv, Lossless
<1>3. CASE UNCHANGED <<s, task>>
  <2>1. Bears(s') /\ LinkCalm /\ Remains(None)
    BY <1>1, <1>2, <1>3, HelpersTie, TiedBears DEF LinkCalm, Remains
  <2> QED
    BY <2>1, CalmKeeps
<1>4. CASE link.handler = s.generation /\ s' = [f EXCEPT !.state = x] /\ task' = CancelPoll(task, None)
  <2>1. ~Leaving /\ s.teardown = "none"
    BY <1>1, <1>4 DEF DInv, Handled
  <2>2. x = "error" \/ (x = "disconnected" /\ s.connector # None)
    <3>1. s.state # "disconnecting"
      BY <2>1 DEF DInv, Disconnecting
    <3>2. s.expected => s.connector # None
      BY <1>1, <2>1 DEF DInv, Expecting, SInv, Stations, Stationed, OneSetup
    <3> QED
      BY <3>1, <3>2
  <2> HIDE DEF x
  <2>3. /\ l \in Session /\ l.generation = s.generation + 1 /\ l.connector = s.connector
        /\ l.teardown = s.teardown /\ l.expected = s.expected
    <3>1. s.generation + 1 \in Nat
      BY <1>1
    <3> QED
      BY <1>1, <3>1 DEF Session
  <2> HIDE DEF l
  <2>4. c \in Session /\ Tied(l, c)
    BY <2>3, HelpersTie DEF Tied
  <2> HIDE DEF c
  <2>5. f \in Session /\ Tied(c, f)
    BY <2>4, HelpersTie DEF Tied
  <2> HIDE DEF f
  <2>6. /\ s'.state = x /\ s'.generation = f.generation /\ s'.connector = f.connector
        /\ s'.teardown = f.teardown /\ s'.expected = f.expected
    BY <1>4, <2>5 DEF Session
  <2>7. /\ s'.generation = s.generation + 1 /\ s'.connector = s.connector
        /\ s'.teardown = "none" /\ s'.expected = s.expected
    BY <2>1, <2>3, <2>4, <2>5, <2>6 DEF Tied
  <2>8. \A u \in Tasks : /\ task'[u].op = task[u].op /\ task'[u].pc = task[u].pc
                         /\ task'[u].joins = task[u].joins
    BY <1>1, <1>4, CancelPollApart DEF Apart
  <2>9. ~Leaving'
    BY <2>1, <2>8 DEF Leaving
  <2>10. Handled'
    BY <1>1, <1>4, <2>7, <2>9 DEF Handled
  <2>11. Torn' /\ Disconnecting' /\ Expecting'
    BY <2>1, <2>2, <2>6, <2>7, <2>8 DEF DInv, Torn, Disconnecting, Expecting
  <2>12. LinkingDown' /\ JoinsSetup'
    BY <1>1, <2>7, <2>8 DEF DInv, LinkingDown, JoinsSetup
  <2>13. Lossless' /\ Down'
    BY <1>2, <2>2, <2>6, <2>7 DEF Lossless, Down, DisconnectedMeansDown
  <2> QED
    BY <2>10, <2>11, <2>12, <2>13 DEF DInv
<1> QED
  BY <1>3, <1>4 DEF Disconnected

-----------------------------------------------------------------------------
(* The theorems. *)

(* Every step of the specification keeps the invariant. *)
LEMMA NextKeepsLink == IInv /\ SInv /\ DInv /\ [Next]_vars => DInv'
<1> SUFFICES ASSUME IInv, SInv, DInv, [Next]_vars PROVE DInv'
  OBVIOUS
<1>1. CASE UNCHANGED vars
  BY <1>1 DEF vars, DInv, Handled, Leaving, Torn, Disconnecting, Expecting, LinkingDown,
              JoinsSetup, Lossless, Down, DisconnectedMeansDown
<1>2. ASSUME NEW t \in Tasks, Call(t)
      PROVE  DInv'
  BY <1>2, CallRequestKeepsLink, CallStopKeepsLink, CallStartPollingKeepsLink,
     CallConnectKeepsLink, CallDisconnectKeepsLink DEF Call
<1>3. ASSUME NEW t \in Tasks, Resume(t)
      PROVE  DInv'
  <2>1. CASE \/ Granted(t) \/ WriteDone(t) \/ WriteFailed(t) \/ ReplyFailed(t)
             \/ SetupReply(t) \/ OperationReply(t) \/ UnwindWrite(t) \/ UnwindReply(t)
    BY <2>1, GrantedKeepsLink, WriteDoneKeepsLink, FailuresKeepLink, SetupReplyKeepsLink,
       OperationReplyKeepsLink
  <2>2. CASE \/ UnwindQueued(t) \/ UnwindSleep(t) \/ UnwindSetup(t)
             \/ Discovered(t) \/ Subscribed(t) \/ Settled(t) \/ Cleaned(t)
    BY <2>2, CancellationsKeepLink, SetupStepsKeepLink, CleanedKeepsLink
  <2>3. CASE Quieted(t) \/ TornDown(t) \/ Joined(t) \/ Unsubscribed(t) \/ HungUp(t)
    BY <2>3, QuietedKeepsLink, DisconnectStepsKeepLink
  <2> QED
    BY <1>3, <2>1, <2>2, <2>3 DEF Resume
<1>4. ASSUME NEW t \in Tasks,
             CancelCall(t) \/ Deadline(t) \/ Linked(t) \/ LinkFails(t) \/ PollWake(t)
      PROVE  DInv'
  BY <1>4, CancellationsKeepLink, FailuresKeepLink, LinkedKeepsLink, SetupStepsKeepLink,
     PollWakeKeepsLink DEF Deadline
<1>5. CASE HandBack \/ TeardownStarts \/ TeardownEnds \/ Environment
  BY <1>5, WorldKeepsLink, TeardownKeepsLink
<1>6. CASE Notified \/ Disconnected
  BY <1>6, NotifiedKeepsLink, DisconnectedKeepsLink
<1> QED
  BY <1>1, <1>2, <1>3, <1>4, <1>5, <1>6 DEF Next

(* A new session has no link and expects nothing. *)
LEMMA InitLink == Init => DInv
  BY DataAssumption
     DEF DataAssumption, Init, NewSession, Idle, DInv, Handled, Leaving, Torn, Disconnecting,
         Expecting, LinkingDown, JoinsSetup, Lossless, Down, DisconnectedMeansDown

(* The disconnect callback of the native client never outlives its generation while a
   disconnect() or a teardown is under way, a disconnect is expected only while somebody is
   about to end the link, and disconnect() hangs up only once the setup it found is over. *)
THEOREM LinkInvariance == Spec => [](IInv /\ SInv /\ DInv)
<1>1. Init => IInv /\ SInv /\ DInv
  BY InitEstablishes, InitSetup, InitLink
<1>2. IInv /\ SInv /\ DInv /\ [Next]_vars => (IInv /\ SInv /\ DInv)'
  BY NextPreserves, NextKeepsSetup, NextKeepsLink
<1> QED
  BY <1>1, <1>2, PTL DEF Spec

(* session.disconnect and _cleanup_failed_connection: a session that reports DISCONNECTED
   has no native link, whichever setups, cancellations, teardowns and callbacks cross,
   as long as links are not both lost and kept up by a failing native disconnect: then a
   cleanup that was told of the loss of one link may leave the next one up. *)
THEOREM DisconnectedIsDown ==
    ~({"link_loss", "stuck_link"} \subseteq Faults) => (Spec => []DisconnectedMeansDown)
<1> SUFFICES ASSUME ~({"link_loss", "stuck_link"} \subseteq Faults)
             PROVE  Spec => []DisconnectedMeansDown
  OBVIOUS
<1>1. IInv /\ SInv /\ DInv => DisconnectedMeansDown
  BY DEF DInv, Down
<1> QED
  BY <1>1, LinkInvariance, PTL
=============================================================================
