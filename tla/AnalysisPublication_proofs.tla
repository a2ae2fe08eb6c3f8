--------------------- MODULE AnalysisPublication_proofs ---------------------
(***************************************************************************)
(* Proofs about AnalysisPublication, for every set of analyses, records    *)
(* and workers and any number of faults and deaths.  IInv is inductive: it *)
(* says of each worker what the step it has reached takes for granted, and *)
(* of each analysis where its intent is to be found.                       *)
(***************************************************************************)
EXTENDS AnalysisPublication, FiniteSetTheorems, TLAPS

Remembered(a) == \A r \in Intent(a) : memory[r] # Unseen

Recoverable(a) == \/ Remembered(a)
                  \/ a \in pending /\ a \in spool
                  \/ a \in committed
                  \/ a \in quarantined

(* Nobody knows of an analysis that has not begun. *)
NotBegun ==
    \A a \in Analyses \ begun :
        /\ a \notin pending \cup committed \cup spool \cup stored \cup quarantined
        /\ \A v \in Workers : /\ workers[v].at # a
                              /\ a \notin workers[v].tasks /\ a \notin workers[v].paths

(* Between stage and queue an analysis is in the hands of its run alone. *)
Staged ==
    \A w \in Workers : workers[w].pc = "queue" =>
        LET a == workers[w].at
        IN  /\ a \notin committed \cup spool \cup stored \cup quarantined
            /\ Intent(a) = {} \/ a \in pending
            /\ \A v \in Workers : /\ v # w => workers[v].at # a
                                  /\ a \notin workers[v].tasks /\ a \notin workers[v].paths

(* What has been done when a worker is at a step. *)
Reached ==
    \A w \in Workers :
        LET s == workers[w]
        IN  /\ s.tasks \subseteq stored
            /\ s.pc = "post" => Recoverable(s.at)
            /\ s.pc \in {"mark", "unlink", "load", "write", "retire"} => s.at \in stored
            /\ s.pc = "unlink" => s.at \notin pending
            /\ s.pc = "discard" => s.at \in quarantined
            /\ s.pc = "retire" => Remembered(s.at)
            /\ s.pc = "write" /\ s.ok =>
                  \A r \in Intent(s.at) : \/ memory[r] # Unseen
                                          \/ \E t \in s.todo : Writes(s.at, t, r)

IntentKept == \A a \in spool \cup stored : Recoverable(a)

IInv == TypeOK /\ NotBegun /\ Staged /\ Reached /\ IntentKept /\ MemoryIsCommitted

-----------------------------------------------------------------------------
(* Types. *)
USE AnalysisPublicationAssumption

LEMMA OffIsWorker == Off \in Worker
  BY DEF Off, Worker, Pcs

(* A step changes the row of one worker. *)
LEMMA RowStep ==
  ASSUME workers \in [Workers -> Worker], NEW w \in Workers, NEW s \in Worker, Becomes(w, s)
  PROVE  /\ workers' \in [Workers -> Worker]
         /\ workers'[w] = s
         /\ \A v \in Workers : v # w => workers'[v] = workers[v]
  BY DEF Becomes

LEMMA IntentType == \A a \in Analyses : Intent(a) \subseteq Records
  BY DEF Intent, MemoryLanes, AnalysisPublicationAssumption

(* Which row a worker turns to when it is done. *)
NextRow(s) ==
    IF s.phase = "own" THEN Off
    ELSE [Off EXCEPT !.pc = s.phase, !.phase = s.phase, !.writes = s.writes,
                     !.tasks = s.tasks, !.paths = s.paths]

LEMMA DoneRow ==
  ASSUME NEW s \in Worker
  PROVE  /\ NextRow(s) \in Worker
         /\ NextRow(s).pc \in {"off", "resume", "replay"}
         /\ NextRow(s).at = NoAnalysis
         /\ NextRow(s).tasks \subseteq s.tasks
         /\ NextRow(s).paths \subseteq s.paths
  <1>1. CASE s.phase = "own"
    BY <1>1, OffIsWorker DEF NextRow, Off
  <1>2. CASE s.phase # "own"
    <2>. s.phase \in {"resume", "replay"}
      BY <1>2 DEF Worker
    <2>1. NextRow(s) = [pc |-> s.phase, phase |-> s.phase, writes |-> s.writes,
                        at |-> NoAnalysis, tasks |-> s.tasks, paths |-> s.paths,
                        task |-> FALSE, todo |-> {}, ok |-> FALSE]
      BY <1>2 DEF NextRow, Off
    <2>. QED
      BY <2>1 DEF Worker, Pcs
  <1>. QED
    BY <1>1, <1>2

AtHand(s) == s.at = NoAnalysis <=> s.pc \in {"off", "resume", "replay"}

LEMMA TypeRow ==
  ASSUME TypeOK, NEW w \in Workers, NEW s \in Worker, Becomes(w, s), AtHand(s)
  PROVE  /\ workers' \in [Workers -> Worker]
         /\ (\A v \in Workers :
                workers[v].at = NoAnalysis <=> workers[v].pc \in {"off", "resume", "replay"})'
  BY RowStep DEF TypeOK, AtHand

LEMMA OffAtHand == Off \in Worker /\ AtHand(Off)
  BY OffIsWorker DEF Off, AtHand

LEMMA DoneAtHand ==
  ASSUME NEW w \in Workers, TypeOK, Done(w)
  PROVE  Becomes(w, NextRow(workers[w])) /\ NextRow(workers[w]) \in Worker /\ AtHand(NextRow(workers[w]))
  <1>1. Becomes(w, NextRow(workers[w]))
    BY DEF Done, NextRow
  <1>2. workers[w] \in Worker
    BY DEF TypeOK
  <1>. QED
    BY <1>1, <1>2, DoneRow DEF AtHand

LEMMA TypeFlush ==
  ASSUME TypeOK, NEW w \in Workers, FlushStep(w)
  PROVE  TypeOK'
  <1>. DEFINE s == workers[w]
  <1>s. s \in Worker /\ AtHand(s)
    BY DEF TypeOK, AtHand
  <1>1. ASSUME NEW a \in Analyses, Resume(w, a) PROVE TypeOK'
    <2>. DEFINE t == [s EXCEPT !.pc = "load", !.at = a, !.tasks = s.tasks \ {a}]
    <2>1. t \in Worker /\ AtHand(t)
      BY <1>s DEF Worker, Pcs, AtHand, AnalysisPublicationAssumption
    <2>2. Becomes(w, t)
      BY <1>1 DEF Resume
    <2>. HIDE DEF t
    <2>. QED
      BY <2>1, <2>2, TypeRow, <1>1 DEF Resume, TypeOK, journal, results
  <1>2. ASSUME NEW a \in Analyses, Replay(w, a) PROVE TypeOK'
    <2>1. CASE a \in spool
      <3>. DEFINE t == [s EXCEPT !.pc = "post", !.at = a, !.paths = s.paths \ {a}]
      <3>1. t \in Worker /\ AtHand(t)
        BY <1>s DEF Worker, Pcs, AtHand, AnalysisPublicationAssumption
      <3>2. Becomes(w, t)
        BY <1>2, <2>1 DEF Replay
      <3>. HIDE DEF t
      <3>. QED
        BY <3>1, <3>2, TypeRow, <1>2 DEF Replay, TypeOK, journal, results
    <2>2. CASE a \notin spool
      BY <2>2, OffAtHand, TypeRow, <1>2 DEF Replay, TypeOK, journal, results
    <2>. QED
      BY <2>1, <2>2
  <1>3. ASSUME ListSpool(w) PROVE TypeOK'
    <2>. DEFINE t == [s EXCEPT !.pc = "replay", !.phase = "replay", !.paths = spool]
    <2>1. t \in Worker /\ AtHand(t)
      BY <1>s, <1>3 DEF Worker, Pcs, AtHand, TypeOK, ListSpool
    <2>2. Becomes(w, t)
      BY <1>3 DEF ListSpool
    <2>. HIDE DEF t
    <2>. QED
      BY <2>1, <2>2, TypeRow, <1>3 DEF ListSpool, TypeOK, journal, results
  <1>. QED
    BY <1>1, <1>2, <1>3 DEF FlushStep

LEMMA TypeOwn ==
  ASSUME TypeOK, NEW w \in Workers, OwnStep(w)
  PROVE  TypeOK'
  <1>. DEFINE s == workers[w]
  <1>s. s \in Worker /\ AtHand(s)
    BY DEF TypeOK, AtHand
  <1>1. CASE Quit(w)
    BY <1>1, OffAtHand, TypeRow DEF Quit, TypeOK, journal, results
  <1>2. ASSUME NEW a \in Analyses, Stage(w, a) PROVE TypeOK'
    <2>. DEFINE t == [s EXCEPT !.pc = "queue", !.phase = "own", !.at = a]
    <2>1. t \in Worker /\ AtHand(t)
      BY <1>s DEF Worker, Pcs, AtHand, AnalysisPublicationAssumption
    <2>2. Becomes(w, t)
      BY <1>2 DEF Stage
    <2>. HIDE DEF t
    <2>. QED
      BY <2>1, <2>2, TypeRow, <1>2 DEF Stage, TypeOK, results
  <1>3. CASE Queue(w)
    <2>. DEFINE t == [s EXCEPT !.pc = "post"]
    <2>1. t \in Worker /\ AtHand(t) /\ s.at \in Analyses
      BY <1>s, <1>3 DEF Worker, Pcs, AtHand, Queue
    <2>2. Becomes(w, t)
      BY <1>3 DEF Queue, Goto
    <2>. HIDE DEF t
    <2>. QED
      BY <2>1, <2>2, TypeRow, <1>3 DEF Queue, TypeOK, journal
  <1>4. CASE QueueFails(w)
    BY <1>4, OffAtHand, TypeRow DEF QueueFails, TypeOK, results
  <1>. QED
    BY <1>1, <1>2, <1>3, <1>4 DEF OwnStep

LEMMA FaultType == ASSUME faults \in 0..MaxFaults, NEW bad \in BOOLEAN, Fault(bad)
                   PROVE  faults' \in 0..MaxFaults
  BY DEF Fault, AnalysisPublicationAssumption

LEMMA TypeCommit ==
  ASSUME TypeOK, NEW w \in Workers, CommitStep(w)
  PROVE  TypeOK'
  <1>. DEFINE s == workers[w]
  <1>s. s \in Worker /\ AtHand(s)
    BY DEF TypeOK, AtHand
  <1>1. ASSUME NEW o \in Outcomes, Post(w, o) PROVE TypeOK'
    <2>1. s.at \in Analyses
      BY <1>s, <1>1 DEF Worker, AtHand, Post
    <2>2. faults' \in 0..MaxFaults
      BY <1>1, FaultType DEF Post, TypeOK
    <2>3. CASE Posted(o) = "off"
      BY <2>1, <2>2, <2>3, OffAtHand, TypeRow, <1>1 DEF Post, TypeOK, journal
    <2>4. CASE Posted(o) # "off"
      <3>. DEFINE t == [s EXCEPT !.pc = Posted(o)]
      <3>1. Posted(o) \in {"mark", "quarantine"}
        BY <2>4 DEF Posted, Outcomes
      <3>2. t \in Worker /\ AtHand(t)
        BY <1>s, <1>1, <3>1 DEF Worker, Pcs, AtHand, Post
      <3>3. Becomes(w, t)
        BY <1>1, <2>4 DEF Post, Goto
      <3>. HIDE DEF t
      <3>. QED
        BY <2>1, <2>2, <3>2, <3>3, TypeRow, <1>1 DEF Post, TypeOK, journal
    <2>. QED
      BY <2>3, <2>4
  <1>2. CASE Quarantine(w)
    <2>1. s.at \in Analyses
      BY <1>s, <1>2 DEF Worker, AtHand, Quarantine
    <2>2. CASE s.at \in spool
      <3>. DEFINE t == [s EXCEPT !.pc = "discard"]
      <3>2. t \in Worker /\ AtHand(t)
        BY <1>s, <1>2 DEF Worker, Pcs, AtHand, Quarantine
      <3>3. Becomes(w, t)
        BY <1>2, <2>2 DEF Quarantine, Goto
      <3>. HIDE DEF t
      <3>. QED
        BY <2>1, <2>2, <3>2, <3>3, TypeRow, <1>2 DEF Quarantine, TypeOK, journal
    <2>3. CASE s.at \notin spool
      BY <2>3, OffAtHand, TypeRow, <1>2 DEF Quarantine, TypeOK, journal
    <2>. QED
      BY <2>2, <2>3
  <1>3. CASE Discard(w)
    BY <1>3, DoneAtHand, TypeRow DEF Discard, TypeOK, results
  <1>4. CASE Mark(w)
    <2>1. s.at \in Analyses
      BY <1>s, <1>4 DEF Worker, AtHand, Mark
    <2>. DEFINE gone == s.phase = "own" /\ Intent(s.at) # {} /\ ~HasTask(s.at)
                t == [s EXCEPT !.pc = "unlink", !.task = HasTask(s.at)]
    <2>h. HasTask(s.at) \in BOOLEAN /\ s.pc = "mark"
      BY <1>4 DEF HasTask, Mark
    <2>2. t \in Worker /\ AtHand(t)
      BY <1>s, <2>h DEF Worker, Pcs, AtHand
    <2>3. Becomes(w, IF gone THEN Off ELSE t)
      BY <1>4 DEF Mark
    <2>4. /\ pending' \subseteq Analyses /\ committed' \subseteq Analyses
          /\ UNCHANGED <<begun, receipts, memory, spool, quarantined, stored, faults, crashes>>
      BY <1>4, <2>1 DEF Mark, TypeOK, results
    <2>. HIDE DEF t, gone
    <2>. QED
      BY <2>2, <2>3, <2>4, OffAtHand, TypeRow DEF TypeOK
  <1>5. CASE Unlink(w)
    <2>. DEFINE t == [s EXCEPT !.pc = "load"]
    <2>1. t \in Worker /\ AtHand(t)
      BY <1>s, <1>5 DEF Worker, Pcs, AtHand, Unlink
    <2>2. \/ Becomes(w, t)
          \/ /\ Becomes(w, NextRow(s))
             /\ NextRow(s) \in Worker
             /\ AtHand(NextRow(s))
      BY <1>5, DoneAtHand DEF Unlink, Goto
    <2>. HIDE DEF t
    <2>. QED
      BY <2>1, <2>2, TypeRow, <1>5 DEF Unlink, TypeOK, journal
  <1>. QED
    BY <1>1, <1>2, <1>3, <1>4, <1>5 DEF CommitStep

LEMMA TypeMemory ==
  ASSUME TypeOK, NEW w \in Workers, MemoryStep(w)
  PROVE  TypeOK'
  <1>. DEFINE s == workers[w]
  <1>s. s \in Worker /\ AtHand(s)
    BY DEF TypeOK, AtHand
  <1>1. CASE Load(w)
    <2>. DEFINE t == [s EXCEPT !.pc = "write", !.todo = TargetsOf(s.at), !.ok = TRUE]
    <2>0. TargetsOf(s.at) \subseteq Targets
      BY DEF TargetsOf
    <2>1. t \in Worker /\ AtHand(t)
      BY <1>s, <1>1, <2>0 DEF Worker, Pcs, AtHand, Load
    <2>2. \/ Becomes(w, t)
          \/ /\ Becomes(w, NextRow(s))
             /\ NextRow(s) \in Worker
             /\ AtHand(NextRow(s))
      BY <1>1, DoneAtHand DEF Load
    <2>. HIDE DEF t
    <2>. QED
      BY <2>1, <2>2, TypeRow, <1>1 DEF Load, TypeOK, journal, results
  <1>2. ASSUME NEW t \in Targets, Write(w, t) PROVE TypeOK'
    <2>. DEFINE n == [s EXCEPT !.todo = s.todo \ {t}]
    <2>1. n \in Worker /\ AtHand(n) /\ s.at \in Analyses
      BY <1>s, <1>2 DEF Worker, Pcs, AtHand, Write
    <2>2. Becomes(w, n)
      BY <1>2 DEF Write
    <2>3. memory' \in [Records -> MemoryRecord]
      <3>1. <<s.at, t[1]>> \in Observers
        BY <2>1 DEF Observers, Targets
      <3>2. \A r \in Records : Accumulate(memory[r], <<s.at, t[1]>>) \in MemoryRecord
        BY <3>1 DEF Accumulate, MemoryRecord, Unseen, TypeOK
      <3>. QED
        BY <3>2, <1>2 DEF Write, TypeOK
    <2>. HIDE DEF n
    <2>. QED
      BY <2>1, <2>2, <2>3, TypeRow, <1>2 DEF Write, TypeOK, results
  <1>3. ASSUME NEW t \in Targets, WriteFails(w, t) PROVE TypeOK'
    <2>. DEFINE n == [s EXCEPT !.todo = {u \in s.todo : u[1] # t[1]}, !.ok = FALSE]
    <2>1. n \in Worker /\ AtHand(n)
      BY <1>s, <1>3 DEF Worker, Pcs, AtHand, WriteFails
    <2>2. Becomes(w, n)
      BY <1>3 DEF WriteFails
    <2>3. faults' \in 0..MaxFaults
      BY <1>3, FaultType DEF WriteFails, TypeOK
    <2>. HIDE DEF n
    <2>. QED
      BY <2>1, <2>2, <2>3, TypeRow, <1>3 DEF WriteFails, TypeOK, journal, results
  <1>4. ASSUME NEW saved \in BOOLEAN, Receipt(w, saved) PROVE TypeOK'
    <2>. DEFINE n == [s EXCEPT !.pc = "retire"]
    <2>1. n \in Worker /\ AtHand(n) /\ s.at \in Analyses
      BY <1>s, <1>4 DEF Worker, Pcs, AtHand, Receipt
    <2>2. \/ Becomes(w, n)
          \/ /\ Becomes(w, NextRow(s))
             /\ NextRow(s) \in Worker
             /\ AtHand(NextRow(s))
      BY <1>4, DoneAtHand DEF Receipt, Goto
    <2>3. faults' \in 0..MaxFaults
      BY <1>4, FaultType DEF Receipt, TypeOK
    <2>4. receipts' \in [Analyses -> {"none", "ok", "failed"}]
      BY <1>4, <2>1 DEF Receipt, TypeOK
    <2>. HIDE DEF n
    <2>. QED
      BY <2>1, <2>2, <2>3, <2>4, TypeRow, <1>4 DEF Receipt, TypeOK, results
  <1>5. CASE Retire(w)
    BY <1>5, DoneAtHand, TypeRow DEF Retire, TypeOK, results
  <1>. QED
    BY <1>1, <1>2, <1>3, <1>4, <1>5 DEF MemoryStep

LEMMA TypeStep == TypeOK /\ [Next]_vars => TypeOK'
  <1>. SUFFICES ASSUME TypeOK, [Next]_vars PROVE TypeOK'
    OBVIOUS
  <1>1. ASSUME NEW w \in Workers, NEW writes \in BOOLEAN, Launch(w, writes) PROVE TypeOK'
    <2>. DEFINE t == [Off EXCEPT !.pc = "resume", !.writes = writes, !.tasks = Resumed(writes)]
    <2>1. Resumed(writes) \subseteq Analyses
      BY DEF Resumed, TypeOK
    <2>2. t \in Worker
      BY <2>1, OffIsWorker DEF Worker, Pcs
    <2>3. AtHand(t)
      BY DEF AtHand, Off
    <2>4. Becomes(w, t)
      BY <1>1 DEF Launch
    <2>. HIDE DEF t
    <2>. QED
      BY <2>2, <2>3, <2>4, TypeRow, <1>1 DEF Launch, TypeOK, journal, results
  <1>2. ASSUME NEW w \in Workers, Step(w) PROVE TypeOK'
    BY <1>2, TypeFlush, TypeOwn, TypeCommit, TypeMemory DEF Step
  <1>3. ASSUME NEW w \in Workers, Die(w) PROVE TypeOK'
    <2>1. crashes' \in 0..MaxCrashes
      BY <1>3 DEF Die, TypeOK, AnalysisPublicationAssumption
    <2>. QED
      BY <2>1, OffAtHand, TypeRow, <1>3 DEF Die, TypeOK, journal, results
  <1>4. CASE UNCHANGED vars
    BY <1>4 DEF TypeOK, vars, journal, results
  <1>. QED
    BY <1>1, <1>2, <1>3, <1>4 DEF Next

LEMMA TypeInit == Init => TypeOK
  BY OffAtHand DEF Init, TypeOK, AtHand, Off, MemoryRecord, AnalysisPublicationAssumption

(* The files and the workers keep their types, whatever fails. *)
THEOREM PublicationTypeOK == Spec => []TypeOK
  BY TypeInit, TypeStep, PTL DEF Spec

-----------------------------------------------------------------------------
(* What any step may change. *)
Moves(w) ==
    /\ \A v \in Workers : v # w => workers'[v] = workers[v]
    /\ workers'[w].at \in {workers[w].at, NoAnalysis} \cup workers[w].tasks
                             \cup workers[w].paths \cup (begun' \ begun)
    /\ workers'[w].tasks \subseteq workers[w].tasks \cup committed
    /\ workers'[w].paths \subseteq workers[w].paths \cup spool
    /\ begun \subseteq begun'
    /\ pending' \subseteq pending \cup (begun' \ begun)
    /\ pending \ {workers[w].at} \subseteq pending'
    /\ committed' \subseteq committed \cup {workers[w].at}
    /\ spool' \subseteq spool \cup {workers[w].at}
    /\ stored \subseteq stored' /\ stored' \subseteq stored \cup {workers[w].at}
    /\ quarantined \subseteq quarantined'
    /\ quarantined' \subseteq quarantined \cup {workers[w].at}
    /\ workers'[w].pc = "queue" => \E a \in Analyses : Stage(w, a)

LEMMA OffMoves ==
  ASSUME TypeOK, NEW w \in Workers, Becomes(w, Off),
         UNCHANGED <<begun, committed, spool, stored, quarantined>>,
         pending' \subseteq pending, pending \ {workers[w].at} \subseteq pending'
  PROVE  Moves(w)
  BY OffIsWorker, RowStep DEF Moves, Off, TypeOK

LEMMA DoneMoves ==
  ASSUME TypeOK, NEW w \in Workers, Done(w), UNCHANGED <<begun, stored, quarantined>>,
         pending' \subseteq pending, pending \ {workers[w].at} \subseteq pending',
         committed' \subseteq committed, spool' \subseteq spool
  PROVE  Moves(w)
  <1>1. workers[w] \in Worker
    BY DEF TypeOK
  <1>2. /\ Becomes(w, NextRow(workers[w]))
        /\ NextRow(workers[w]) \in Worker
        /\ NextRow(workers[w]).pc # "queue"
        /\ NextRow(workers[w]).at = NoAnalysis
        /\ NextRow(workers[w]).tasks \subseteq workers[w].tasks
        /\ NextRow(workers[w]).paths \subseteq workers[w].paths
    BY <1>1, DoneAtHand, DoneRow
  <1>3. workers'[w] = NextRow(workers[w]) /\ \A v \in Workers : v # w => workers'[v] = workers[v]
    BY <1>2, RowStep DEF TypeOK
  <1>. HIDE DEF NextRow
  <1>. QED
    BY <1>2, <1>3 DEF Moves

(* A row that only changes its step and what belongs to the task at hand. *)
LEMMA StepMoves ==
  ASSUME TypeOK, NEW w \in Workers, NEW t \in Worker, Becomes(w, t),
         t.at = workers[w].at, t.tasks = workers[w].tasks, t.paths = workers[w].paths,
         t.pc # "queue", UNCHANGED begun,
         pending' \subseteq pending, pending \ {workers[w].at} \subseteq pending',
         committed' \subseteq committed \cup {workers[w].at},
         spool' \subseteq spool \cup {workers[w].at},
         stored \subseteq stored', stored' \subseteq stored \cup {workers[w].at},
         quarantined \subseteq quarantined', quarantined' \subseteq quarantined \cup {workers[w].at}
  PROVE  Moves(w)
  BY RowStep DEF Moves, TypeOK

LEMMA FlushMoves ==
  ASSUME TypeOK, NEW w \in Workers, FlushStep(w)
  PROVE  Moves(w)
  <1>. DEFINE s == workers[w]
  <1>s. s \in Worker
    BY DEF TypeOK
  <1>1. ASSUME NEW a \in Analyses, Resume(w, a) PROVE Moves(w)
    <2>. DEFINE t == [s EXCEPT !.pc = "load", !.at = a, !.tasks = s.tasks \ {a}]
    <2>1. t \in Worker /\ Becomes(w, t)
      BY <1>s, <1>1 DEF Worker, Pcs, Resume
    <2>2. workers'[w] = t /\ \A v \in Workers : v # w => workers'[v] = workers[v]
      BY <2>1, RowStep DEF TypeOK
    <2>3. t.at = a /\ a \in s.tasks /\ t.tasks \subseteq s.tasks /\ t.paths = s.paths /\ t.pc = "load"
      BY <1>s, <1>1 DEF Resume, Worker
    <2>. HIDE DEF t
    <2>. QED
      BY <2>2, <2>3, <1>1 DEF Moves, Resume, journal, results
  <1>2. ASSUME NEW a \in Analyses, Replay(w, a) PROVE Moves(w)
    <2>1. CASE a \in spool
      <3>. DEFINE t == [s EXCEPT !.pc = "post", !.at = a, !.paths = s.paths \ {a}]
      <3>1. t \in Worker /\ Becomes(w, t)
        BY <1>s, <1>2, <2>1 DEF Worker, Pcs, Replay
      <3>2. workers'[w] = t /\ \A v \in Workers : v # w => workers'[v] = workers[v]
        BY <3>1, RowStep DEF TypeOK
      <3>3. t.at = a /\ a \in s.paths /\ t.tasks = s.tasks /\ t.paths \subseteq s.paths /\ t.pc = "post"
        BY <1>s, <1>2 DEF Replay, Worker
      <3>. HIDE DEF t
      <3>. QED
        BY <3>2, <3>3, <1>2 DEF Moves, Replay, journal, results
    <2>2. CASE a \notin spool
      BY <2>2, OffMoves, <1>2 DEF Replay, journal, results
    <2>. QED
      BY <2>1, <2>2
  <1>3. ASSUME ListSpool(w) PROVE Moves(w)
    <2>. DEFINE t == [s EXCEPT !.pc = "replay", !.phase = "replay", !.paths = spool]
    <2>1. t \in Worker /\ Becomes(w, t)
      BY <1>s, <1>3 DEF Worker, Pcs, ListSpool, TypeOK
    <2>2. workers'[w] = t /\ \A v \in Workers : v # w => workers'[v] = workers[v]
      BY <2>1, RowStep DEF TypeOK
    <2>3. t.at = s.at /\ t.tasks = s.tasks /\ t.paths = spool /\ t.pc = "replay"
      BY <1>s DEF Worker
    <2>. HIDE DEF t
    <2>. QED
      BY <2>2, <2>3, <1>3 DEF Moves, ListSpool, journal, results
  <1>. QED
    BY <1>1, <1>2, <1>3 DEF FlushStep

LEMMA OwnMoves ==
  ASSUME TypeOK, NEW w \in Workers, OwnStep(w)
  PROVE  Moves(w)
  <1>. DEFINE s == workers[w]
  <1>s. s \in Worker
    BY DEF TypeOK
  <1>1. CASE Quit(w)
    BY <1>1, OffMoves DEF Quit, journal, results
  <1>2. ASSUME NEW a \in Analyses, Stage(w, a) PROVE Moves(w)
    <2>. DEFINE t == [s EXCEPT !.pc = "queue", !.phase = "own", !.at = a]
    <2>1. t \in Worker /\ Becomes(w, t)
      BY <1>s, <1>2 DEF Worker, Pcs, Stage
    <2>2. workers'[w] = t /\ \A v \in Workers : v # w => workers'[v] = workers[v]
      BY <2>1, RowStep DEF TypeOK
    <2>3. t.at = a /\ t.tasks = s.tasks /\ t.paths = s.paths
      BY <1>s DEF Worker
    <2>4. a \in begun' \ begun /\ begun \subseteq begun'
      BY <1>2 DEF Stage
    <2>5. pending' \subseteq pending \cup (begun' \ begun) /\ pending \subseteq pending'
      BY <1>2, <2>4 DEF Stage
    <2>. HIDE DEF t
    <2>. QED
      BY <2>2, <2>3, <2>4, <2>5, <1>2 DEF Moves, Stage, results
  <1>3. CASE Queue(w)
    <2>. DEFINE t == [s EXCEPT !.pc = "post"]
    <2>1. t \in Worker /\ Becomes(w, t)
      BY <1>s, <1>3 DEF Worker, Pcs, Queue, Goto
    <2>2. t.at = s.at /\ t.tasks = s.tasks /\ t.paths = s.paths /\ t.pc = "post"
      BY <1>s DEF Worker
    <2>. HIDE DEF t
    <2>. QED
      BY <2>1, <2>2, StepMoves, <1>3 DEF Queue, journal
  <1>4. CASE QueueFails(w)
    BY <1>4, OffMoves DEF QueueFails, results
  <1>. QED
    BY <1>1, <1>2, <1>3, <1>4 DEF OwnStep

LEMMA CommitMoves ==
  ASSUME TypeOK, NEW w \in Workers, CommitStep(w)
  PROVE  Moves(w)
  <1>. DEFINE s == workers[w]
  <1>s. s \in Worker
    BY DEF TypeOK
  <1>0. ASSUME NEW pc \in Pcs \ {"queue"} 
        PROVE  LET t == [s EXCEPT !.pc = pc]
               IN  /\ t \in Worker /\ t.at = s.at /\ t.tasks = s.tasks
                   /\ t.paths = s.paths /\ t.pc # "queue"
    BY <1>s DEF Worker
  <1>1. ASSUME NEW o \in Outcomes, Post(w, o) PROVE Moves(w)
    <2>0. /\ UNCHANGED <<begun, pending, committed, spool, quarantined>>
          /\ stored \subseteq stored' /\ stored' \subseteq stored \cup {s.at}
      BY <1>1 DEF Post, journal
    <2>1. CASE Posted(o) = "off"
      <3>1. Becomes(w, Off)
        BY <2>1, <1>1 DEF Post
      <3>2. workers'[w] = Off /\ \A v \in Workers : v # w => workers'[v] = workers[v]
        BY <3>1, OffIsWorker, RowStep DEF TypeOK
      <3>. QED
        BY <3>2, <2>0 DEF Moves, Off
    <2>2. CASE Posted(o) # "off"
      <3>1. Posted(o) \in Pcs \ {"queue"}
        BY <2>2 DEF Posted, Outcomes, Pcs
      <3>2. Becomes(w, [s EXCEPT !.pc = Posted(o)])
        BY <2>2, <1>1 DEF Post, Goto
      <3>. QED
        BY <3>1, <3>2, <1>0, <2>0, StepMoves
    <2>. QED
      BY <2>1, <2>2
  <1>2. CASE Quarantine(w)
    <2>1. CASE s.at \in spool
      <3>1. "discard" \in Pcs \ {"queue"} /\ Becomes(w, [s EXCEPT !.pc = "discard"])
        BY <2>1, <1>2 DEF Quarantine, Goto, Pcs
      <3>. QED
        BY <3>1, <1>0, <1>2, <2>1, StepMoves DEF Quarantine, journal
    <2>2. CASE s.at \notin spool
      BY <2>2, OffMoves, <1>2 DEF Quarantine, journal
    <2>. QED
      BY <2>1, <2>2
  <1>3. CASE Discard(w)
    BY <1>3, DoneMoves DEF Discard, results
  <1>4. CASE Mark(w)
    <2>. DEFINE gone == s.phase = "own" /\ Intent(s.at) # {} /\ ~HasTask(s.at)
                t == [s EXCEPT !.pc = "unlink", !.task = HasTask(s.at)]
    <2>1. HasTask(s.at) \in BOOLEAN
      BY DEF HasTask
    <2>2. /\ t \in Worker /\ t.at = s.at /\ t.tasks = s.tasks
          /\ t.paths = s.paths /\ t.pc = "unlink"
      BY <1>s, <2>1 DEF Worker, Pcs
    <2>3. Becomes(w, IF gone THEN Off ELSE t)
      BY <1>4 DEF Mark
    <2>4. /\ UNCHANGED <<begun, spool, quarantined, stored>>
          /\ pending' = pending \ {s.at}
          /\ committed' \subseteq committed \cup {s.at}
      BY <1>4 DEF Mark, results
    <2>5. gone => UNCHANGED committed
      BY <1>4 DEF Mark
    <2>. HIDE DEF t, gone
    <2>6. CASE gone
      <3>1. Becomes(w, Off)
        BY <2>3, <2>6
      <3>. QED
        BY <3>1, <2>4, <2>5, <2>6, OffMoves
    <2>7. CASE ~gone
      <3>1. Becomes(w, t)
        BY <2>3, <2>7
      <3>. QED
        BY <3>1, <2>2, <2>4, StepMoves
    <2>. QED
      BY <2>6, <2>7
  <1>5. CASE Unlink(w)
    <2>1. CASE s.task /\ (s.phase = "own" \/ s.writes)
      <3>1. "load" \in Pcs \ {"queue"} /\ Becomes(w, [s EXCEPT !.pc = "load"])
        BY <2>1, <1>5 DEF Unlink, Goto, Pcs
      <3>. QED
        BY <3>1, <1>0, <1>5, StepMoves DEF Unlink, journal
    <2>2. CASE ~(s.task /\ (s.phase = "own" \/ s.writes))
      BY <2>2, <1>5, DoneMoves DEF Unlink, journal
    <2>. QED
      BY <2>1, <2>2
  <1>. QED
    BY <1>1, <1>2, <1>3, <1>4, <1>5 DEF CommitStep

LEMMA MemoryMoves ==
  ASSUME TypeOK, NEW w \in Workers, MemoryStep(w)
  PROVE  Moves(w)
  <1>. DEFINE s == workers[w]
  <1>s. s \in Worker
    BY DEF TypeOK
  <1>1. CASE Load(w)
    <2>. DEFINE t == [s EXCEPT !.pc = "write", !.todo = TargetsOf(s.at), !.ok = TRUE]
    <2>0. TargetsOf(s.at) \subseteq Targets
      BY DEF TargetsOf
    <2>1. /\ t \in Worker /\ t.at = s.at /\ t.tasks = s.tasks
          /\ t.paths = s.paths /\ t.pc = "write"
      BY <1>s, <2>0 DEF Worker, Pcs
    <2>2. CASE s.at \in committed
      <3>1. Becomes(w, t)
        BY <2>2, <1>1 DEF Load
      <3>. HIDE DEF t
      <3>. QED
        BY <2>1, <3>1, <1>1, StepMoves DEF Load, journal, results
    <2>3. CASE s.at \notin committed
      BY <2>3, <1>1, DoneMoves DEF Load, journal, results
    <2>. QED
      BY <2>2, <2>3
  <1>2. ASSUME NEW u \in Targets, Write(w, u) PROVE Moves(w)
    <2>. DEFINE t == [s EXCEPT !.todo = s.todo \ {u}]
    <2>1. /\ t \in Worker /\ t.at = s.at /\ t.tasks = s.tasks
          /\ t.paths = s.paths /\ t.pc = "write"
      BY <1>s, <1>2 DEF Worker, Pcs, Write
    <2>2. Becomes(w, t)
      BY <1>2 DEF Write
    <2>. HIDE DEF t
    <2>. QED
      BY <2>1, <2>2, <1>2, StepMoves DEF Write, results
  <1>3. ASSUME NEW u \in Targets, WriteFails(w, u) PROVE Moves(w)
    <2>. DEFINE t == [s EXCEPT !.todo = {x \in s.todo : x[1] # u[1]}, !.ok = FALSE]
    <2>1. /\ t \in Worker /\ t.at = s.at /\ t.tasks = s.tasks
          /\ t.paths = s.paths /\ t.pc = "write"
      BY <1>s, <1>3 DEF Worker, Pcs, WriteFails
    <2>2. Becomes(w, t)
      BY <1>3 DEF WriteFails
    <2>. HIDE DEF t
    <2>. QED
      BY <2>1, <2>2, <1>3, StepMoves DEF WriteFails, journal, results
  <1>4. ASSUME NEW saved \in BOOLEAN, Receipt(w, saved) PROVE Moves(w)
    <2>. DEFINE t == [s EXCEPT !.pc = "retire"]
    <2>1. /\ t \in Worker /\ t.at = s.at /\ t.tasks = s.tasks
          /\ t.paths = s.paths /\ t.pc = "retire"
      BY <1>s DEF Worker, Pcs
    <2>2. CASE Retires(s, saved)
      <3>1. Becomes(w, t)
        BY <2>2, <1>4 DEF Receipt, Goto
      <3>. HIDE DEF t
      <3>. QED
        BY <2>1, <3>1, <1>4, StepMoves DEF Receipt, results
    <2>3. CASE ~Retires(s, saved)
      BY <2>3, <1>4, DoneMoves DEF Receipt, results
    <2>. QED
      BY <2>2, <2>3
  <1>5. CASE Retire(w)
    BY <1>5, DoneMoves DEF Retire, results
  <1>. QED
    BY <1>1, <1>2, <1>3, <1>4, <1>5 DEF MemoryStep

LEMMA NextMoves ==
  ASSUME TypeOK, Next
  PROVE  \E w \in Workers : Moves(w)
  <1>1. ASSUME NEW w \in Workers, NEW writes \in BOOLEAN, Launch(w, writes) PROVE Moves(w)
    <2>. DEFINE t == [Off EXCEPT !.pc = "resume", !.writes = writes, !.tasks = Resumed(writes)]
    <2>1. Resumed(writes) \subseteq committed /\ committed \subseteq Analyses
      BY DEF Resumed, TypeOK
    <2>2. t \in Worker
      BY <2>1, OffIsWorker DEF Worker, Pcs
    <2>3. t.at = NoAnalysis /\ t.tasks = Resumed(writes) /\ t.paths = {} /\ t.pc = "resume"
      BY DEF Off
    <2>4. Becomes(w, t)
      BY <1>1 DEF Launch
    <2>. HIDE DEF t
    <2>5. workers'[w] = t /\ \A v \in Workers : v # w => workers'[v] = workers[v]
      BY <2>2, <2>4, RowStep DEF TypeOK
    <2>. QED
      BY <2>1, <2>3, <2>5, <1>1 DEF Launch, Moves, journal, results
  <1>2. ASSUME NEW w \in Workers, Step(w) PROVE Moves(w)
    BY <1>2, FlushMoves, OwnMoves, CommitMoves, MemoryMoves DEF Step
  <1>3. ASSUME NEW w \in Workers, Die(w) PROVE Moves(w)
    BY <1>3, OffMoves DEF Die, journal, results
  <1>. QED
    BY <1>1, <1>2, <1>3 DEF Next

LEMMA NotBegunStep == TypeOK /\ NotBegun /\ [Next]_vars => NotBegun'
  <1>. SUFFICES ASSUME TypeOK, NotBegun, [Next]_vars PROVE NotBegun'
    OBVIOUS
  <1>1. CASE Next
    <2>1. PICK w \in Workers : Moves(w)
      BY <1>1, NextMoves
    <2>2. \A v \in Workers : workers[v].at \in Analyses \cup {NoAnalysis}
      BY DEF TypeOK, Worker
    <2>. SUFFICES ASSUME NEW a \in Analyses, a \notin begun'
                  PROVE  (/\ a \notin pending \cup committed \cup spool \cup stored \cup quarantined
                          /\ \A v \in Workers : /\ workers[v].at # a
                                                /\ a \notin workers[v].tasks
                                                /\ a \notin workers[v].paths)'
      BY DEF NotBegun
    <2>3. a \notin begun /\ a # NoAnalysis
      BY <2>1, AnalysisPublicationAssumption DEF Moves
    <2>4. /\ a \notin pending \cup committed \cup spool \cup stored \cup quarantined
          /\ \A v \in Workers : /\ workers[v].at # a
                                /\ a \notin workers[v].tasks /\ a \notin workers[v].paths
      BY <2>3 DEF NotBegun
    <2>5. a \notin pending' \cup committed' \cup spool' \cup stored' \cup quarantined'
      BY <2>1, <2>4 DEF Moves
    <2>6. ASSUME NEW v \in Workers
          PROVE  workers'[v].at # a /\ a \notin workers'[v].tasks /\ a \notin workers'[v].paths
      BY <2>1, <2>3, <2>4 DEF Moves
    <2>. QED
      BY <2>5, <2>6
  <1>2. CASE UNCHANGED vars
    BY <1>2 DEF NotBegun, vars, journal, results
  <1>. QED
    BY <1>1, <1>2

LEMMA StagedStep == TypeOK /\ NotBegun /\ Staged /\ [Next]_vars => Staged'
  <1>. SUFFICES ASSUME TypeOK, NotBegun, Staged, [Next]_vars PROVE Staged'
    OBVIOUS
  <1>1. CASE Next
    <2>1. PICK w \in Workers : Moves(w)
      BY <1>1, NextMoves
    <2>t. \A v \in Workers : workers[v].at \in Analyses \cup {NoAnalysis}
      BY DEF TypeOK, Worker
    <2>q. \A v \in Workers : workers[v].pc = "queue" => workers[v].at \in Analyses
      BY DEF TypeOK, Worker
    <2>. SUFFICES ASSUME NEW x \in Workers, workers'[x].pc = "queue"
                  PROVE  LET a == workers'[x].at
                         IN  /\ a \notin committed' \cup spool' \cup stored' \cup quarantined'
                             /\ Intent(a) = {} \/ a \in pending'
                             /\ \A v \in Workers : /\ v # x => workers'[v].at # a
                                                   /\ a \notin workers'[v].tasks
                                                   /\ a \notin workers'[v].paths
      BY DEF Staged, Intent
    <2>2. CASE x = w
      <3>1. PICK a \in Analyses : Stage(w, a)
        BY <2>1, <2>2 DEF Moves
      <3>2. a \notin begun /\ workers[w] \in Worker
        BY <3>1 DEF Stage, TypeOK
      <3>3. /\ a \notin pending \cup committed \cup spool \cup stored \cup quarantined
            /\ \A v \in Workers : /\ workers[v].at # a
                                  /\ a \notin workers[v].tasks /\ a \notin workers[v].paths
        BY <3>2 DEF NotBegun
      <3>. DEFINE t == [workers[w] EXCEPT !.pc = "queue", !.phase = "own", !.at = a]
      <3>4. t \in Worker /\ t.at = a /\ t.tasks = workers[w].tasks /\ t.paths = workers[w].paths
        BY <3>2 DEF Worker, Pcs
      <3>5. Becomes(w, t)
        BY <3>1 DEF Stage
      <3>. HIDE DEF t
      <3>6. workers'[w] = t /\ \A v \in Workers : v # w => workers'[v] = workers[v]
        BY <3>4, <3>5, RowStep DEF TypeOK
      <3>7. UNCHANGED <<committed, spool, stored, quarantined>>
        BY <3>1 DEF Stage, results
      <3>8. Intent(a) = {} \/ a \in pending'
        BY <3>1 DEF Stage
      <3>. QED
        BY <2>2, <3>3, <3>4, <3>6, <3>7, <3>8
    <2>3. CASE x # w
      <3>. DEFINE a == workers[x].at
      <3>1. workers'[x] = workers[x] /\ workers[x].pc = "queue" /\ a \in Analyses
        BY <2>1, <2>3, <2>q DEF Moves
      <3>2. /\ a \notin committed \cup spool \cup stored \cup quarantined
            /\ Intent(a) = {} \/ a \in pending
            /\ \A v \in Workers : /\ v # x => workers[v].at # a
                                  /\ a \notin workers[v].tasks /\ a \notin workers[v].paths
        BY <3>1 DEF Staged
      <3>3. a \in begun /\ a # NoAnalysis
        BY <3>1, AnalysisPublicationAssumption DEF NotBegun
      <3>4. workers[w].at # a
        BY <3>2, <2>3
      <3>5. /\ a \notin committed' \cup spool' \cup stored' \cup quarantined'
            /\ Intent(a) = {} \/ a \in pending'
        BY <2>1, <3>2, <3>4 DEF Moves
      <3>6. ASSUME NEW v \in Workers
            PROVE  /\ v # x => workers'[v].at # a
                   /\ a \notin workers'[v].tasks /\ a \notin workers'[v].paths
        BY <2>1, <3>2, <3>3, <3>4 DEF Moves
      <3>. QED
        BY <3>1, <3>5, <3>6
    <2>. QED
      BY <2>2, <2>3
  <1>2. CASE UNCHANGED vars
    BY <1>2 DEF Staged, vars, journal, results
  <1>. QED
    BY <1>1, <1>2

-----------------------------------------------------------------------------
(* Memory only grows. *)
LEMMA AccumulateSeen ==
  ASSUME NEW m \in MemoryRecord, NEW source \in Observers
  PROVE  Accumulate(m, source) # Unseen /\ Accumulate(m, source).source = source
  <1>1. source # <<NoAnalysis, "primary">>
    BY AnalysisPublicationAssumption DEF Observers
  <1>2. CASE m.source = source
    BY <1>1, <1>2 DEF Accumulate, Unseen
  <1>3. CASE m.source # source
    BY <1>1, <1>3 DEF Accumulate, Unseen
  <1>. QED
    BY <1>2, <1>3

LEMMA SourceAtHand ==
  ASSUME TypeOK, NEW w \in Workers, NEW t \in Targets, workers[w].pc = "write"
  PROVE  workers[w].at \in Analyses /\ t[1] \in MemoryLanes /\ <<workers[w].at, t[1]>> \in Observers
  BY DEF TypeOK, Worker, Targets, Observers

LEMMA OnlyWriteRemembers ==
  ASSUME TypeOK, [Next]_vars
  PROVE  UNCHANGED memory \/ \E w \in Workers, t \in Targets : Write(w, t)
  <1>1. ASSUME NEW w \in Workers, FlushStep(w) PROVE UNCHANGED memory
    BY <1>1 DEF FlushStep, Resume, Replay, ListSpool, journal
  <1>2. ASSUME NEW w \in Workers, OwnStep(w) PROVE UNCHANGED memory
    BY <1>2 DEF OwnStep, Quit, Stage, Queue, QueueFails, journal
  <1>3. ASSUME NEW w \in Workers, CommitStep(w) PROVE UNCHANGED memory
    BY <1>3 DEF CommitStep, Post, Quarantine, Discard, Mark, Unlink, journal
  <1>4. ASSUME NEW w \in Workers, MemoryStep(w)
        PROVE  UNCHANGED memory \/ \E t \in Targets : Write(w, t)
    BY <1>4 DEF MemoryStep, Load, WriteFails, Receipt, Retire, journal
  <1>5. ASSUME NEW w \in Workers, NEW writes \in BOOLEAN, Launch(w, writes) PROVE UNCHANGED memory
    BY <1>5 DEF Launch, journal
  <1>6. ASSUME NEW w \in Workers, Die(w) PROVE UNCHANGED memory
    BY <1>6 DEF Die, journal
  <1>7. CASE UNCHANGED vars
    BY <1>7 DEF vars, journal
  <1>. QED
    BY <1>1, <1>2, <1>3, <1>4, <1>5, <1>6, <1>7 DEF Next, Step

LEMMA MemoryGrows ==
  ASSUME TypeOK, [Next]_vars, NEW r \in Records, memory[r] # Unseen
  PROVE  memory'[r] # Unseen
  <1>1. CASE UNCHANGED memory
    BY <1>1
  <1>2. ASSUME NEW w \in Workers, NEW t \in Targets, Write(w, t) PROVE memory'[r] # Unseen
    <2>1. <<workers[w].at, t[1]>> \in Observers
      BY <1>2, SourceAtHand DEF Write
    <2>2. memory[r] \in MemoryRecord
      BY DEF TypeOK
    <2>3. Accumulate(memory[r], <<workers[w].at, t[1]>>) # Unseen
      BY <2>1, <2>2, AccumulateSeen
    <2>. QED
      BY <2>3, <1>2 DEF Write
  <1>. QED
    BY <1>1, <1>2, OnlyWriteRemembers

LEMMA RememberedStays ==
  ASSUME TypeOK, [Next]_vars, NEW a \in Analyses, Remembered(a)
  PROVE  Remembered(a)'
  BY IntentType, MemoryGrows DEF Remembered, Intent

-----------------------------------------------------------------------------
(* What one step may take away from an analysis: its pending task, its     *)
(* result and its committed task each in one way only.                     *)
LEMMA PendingLeaves ==
  ASSUME TypeOK, NEW w \in Workers, Step(w), NEW a \in pending, a \notin pending'
  PROVE  /\ a = workers[w].at
         /\ QueueFails(w) \/ Discard(w) \/ (Mark(w) /\ a \in committed')
  <1>1. CASE FlushStep(w)
    BY <1>1 DEF FlushStep, Resume, Replay, ListSpool, journal
  <1>2. CASE OwnStep(w)
    BY <1>2 DEF OwnStep, Quit, Stage, Queue, QueueFails, journal
  <1>3. CASE CommitStep(w)
    BY <1>3 DEF CommitStep, Post, Quarantine, Discard, Mark, HasTask, Unlink, journal
  <1>4. CASE MemoryStep(w)
    BY <1>4 DEF MemoryStep, Load, Write, WriteFails, Receipt, Retire, journal
  <1>. QED
    BY <1>1, <1>2, <1>3, <1>4 DEF Step

LEMMA SpoolLeaves ==
  ASSUME TypeOK, NEW w \in Workers, Step(w), NEW a \in spool, a \notin spool'
  PROVE  /\ a = workers[w].at
         /\ (Quarantine(w) /\ a \in quarantined') \/ Unlink(w)
  <1>1. CASE FlushStep(w)
    BY <1>1 DEF FlushStep, Resume, Replay, ListSpool, results
  <1>2. CASE OwnStep(w)
    BY <1>2 DEF OwnStep, Quit, Stage, Queue, QueueFails, results
  <1>3. CASE CommitStep(w)
    BY <1>3 DEF CommitStep, Post, Quarantine, Discard, Mark, Unlink, results
  <1>4. CASE MemoryStep(w)
    BY <1>4 DEF MemoryStep, Load, Write, WriteFails, Receipt, Retire, results
  <1>. QED
    BY <1>1, <1>2, <1>3, <1>4 DEF Step

LEMMA CommittedLeaves ==
  ASSUME TypeOK, NEW w \in Workers, Step(w), NEW a \in committed, a \notin committed'
  PROVE  a = workers[w].at /\ Retire(w)
  <1>1. CASE FlushStep(w)
    BY <1>1 DEF FlushStep, Resume, Replay, ListSpool, journal
  <1>2. CASE OwnStep(w)
    BY <1>2 DEF OwnStep, Quit, Stage, Queue, QueueFails, journal
  <1>3. CASE CommitStep(w)
    BY <1>3 DEF CommitStep, Post, Quarantine, Discard, Mark, Unlink, journal
  <1>4. CASE MemoryStep(w)
    BY <1>4 DEF MemoryStep, Load, Write, WriteFails, Receipt, Retire, journal
  <1>. QED
    BY <1>1, <1>2, <1>3, <1>4 DEF Step

LEMMA OthersLoseNothing ==
  ASSUME UNCHANGED vars \/ (\E w \in Workers : Die(w) \/ \E b \in BOOLEAN : Launch(w, b))
  PROVE  UNCHANGED <<begun, journal, results>>
  BY DEF vars, Die, Launch

LEMMA RecoverableStays ==
  ASSUME IInv, [Next]_vars, NEW a \in Analyses, Recoverable(a)
  PROVE  Recoverable(a)'
  <1>0. TypeOK
    BY DEF IInv
  <1>1. CASE UNCHANGED <<journal, results>>
    BY <1>1 DEF Recoverable, Remembered, Intent, journal, results
  <1>2. ASSUME NEW w \in Workers, Step(w) PROVE Recoverable(a)'
    <2>1. CASE Remembered(a)
      BY <1>0, <2>1, RememberedStays DEF Recoverable
    <2>2. CASE a \in quarantined
      <3>1. quarantined \subseteq quarantined'
        BY <1>0, <1>2, FlushMoves, OwnMoves, CommitMoves, MemoryMoves DEF Step, Moves
      <3>. QED
        BY <2>2, <3>1 DEF Recoverable
    <2>3. CASE a \in committed
      <3>1. CASE a \in committed'
        BY <3>1 DEF Recoverable
      <3>2. CASE a \notin committed'
        <4>1. a = workers[w].at /\ Retire(w)
          BY <1>0, <1>2, <2>3, <3>2, CommittedLeaves
        <4>2. Remembered(a)
          BY <4>1 DEF IInv, Reached, Retire
        <4>. QED
          BY <1>0, <4>2, RememberedStays DEF Recoverable
      <3>. QED
        BY <3>1, <3>2
    <2>4. CASE a \in pending /\ a \in spool
      <3>1. CASE a \in pending' /\ a \in spool'
        BY <3>1 DEF Recoverable
      <3>2. CASE a \notin pending'
        <4>1. /\ a = workers[w].at
              /\ QueueFails(w) \/ Discard(w) \/ (Mark(w) /\ a \in committed')
          BY <1>0, <1>2, <2>4, <3>2, PendingLeaves
        <4>2. ~QueueFails(w)
          BY <4>1, <2>4 DEF QueueFails, IInv, Staged
        <4>3. CASE Discard(w)
          <5>1. a \in quarantined
            BY <4>1, <4>3 DEF Discard, IInv, Reached
          <5>2. quarantined' = quarantined
            BY <4>3 DEF Discard, results
          <5>. QED
            BY <5>1, <5>2 DEF Recoverable
        <4>. QED
          BY <4>1, <4>2, <4>3 DEF Recoverable
      <3>3. CASE a \notin spool'
        <4>1. /\ a = workers[w].at
              /\ (Quarantine(w) /\ a \in quarantined') \/ Unlink(w)
          BY <1>0, <1>2, <2>4, <3>3, SpoolLeaves
        <4>2. ~Unlink(w)
          BY <4>1, <2>4 DEF Unlink, IInv, Reached
        <4>. QED
          BY <4>1, <4>2 DEF Recoverable
      <3>. QED
        BY <3>1, <3>2, <3>3
    <2>. QED
      BY <2>1, <2>2, <2>3, <2>4 DEF Recoverable
  <1>. QED
    BY <1>1, <1>2, OthersLoseNothing DEF Next

-----------------------------------------------------------------------------
LEMMA QueueRecoverable ==
  ASSUME IInv, NEW w \in Workers, Queue(w)
  PROVE  Recoverable(workers[w].at)'
  <1>1. Intent(workers[w].at) = {} \/ workers[w].at \in pending
    BY DEF IInv, Staged, Queue
  <1>2. /\ workers[w] \in Worker /\ workers'[w].at = workers[w].at
        /\ pending' = pending /\ workers[w].at \in spool'
    BY DEF Queue, Goto, Becomes, journal, IInv, TypeOK, Worker
  <1>. QED
    BY <1>1, <1>2 DEF Recoverable, Remembered, Intent

LEMMA SpoolGrows ==
  ASSUME TypeOK, NEW w \in Workers, Step(w), NEW a \in spool', a \notin spool
  PROVE  a = workers[w].at /\ Queue(w)
  <1>1. CASE FlushStep(w)
    BY <1>1 DEF FlushStep, Resume, Replay, ListSpool, results
  <1>2. CASE OwnStep(w)
    BY <1>2 DEF OwnStep, Quit, Stage, Queue, QueueFails, results
  <1>3. CASE CommitStep(w)
    BY <1>3 DEF CommitStep, Post, Quarantine, Discard, Mark, Unlink, results
  <1>4. CASE MemoryStep(w)
    BY <1>4 DEF MemoryStep, Load, Write, WriteFails, Receipt, Retire, results
  <1>. QED
    BY <1>1, <1>2, <1>3, <1>4 DEF Step

LEMMA StoredGrows ==
  ASSUME TypeOK, NEW w \in Workers, Step(w), NEW a \in stored', a \notin stored
  PROVE  a = workers[w].at /\ workers[w].pc = "post"
  <1>1. CASE FlushStep(w)
    BY <1>1 DEF FlushStep, Resume, Replay, ListSpool, results
  <1>2. CASE OwnStep(w)
    BY <1>2 DEF OwnStep, Quit, Stage, Queue, QueueFails, results
  <1>3. CASE CommitStep(w)
    BY <1>3 DEF CommitStep, Post, Quarantine, Discard, Mark, Unlink, results
  <1>4. CASE MemoryStep(w)
    BY <1>4 DEF MemoryStep, Load, Write, WriteFails, Receipt, Retire, results
  <1>. QED
    BY <1>1, <1>2, <1>3, <1>4 DEF Step

LEMMA IntentKeptStep == IInv /\ [Next]_vars => IntentKept'
  <1>. SUFFICES ASSUME IInv, [Next]_vars PROVE IntentKept'
    OBVIOUS
  <1>0. TypeOK /\ TypeOK'
    BY TypeStep DEF IInv
  <1>. SUFFICES ASSUME NEW a \in spool' \cup stored' PROVE Recoverable(a)'
    BY DEF IntentKept, Recoverable, Remembered, Intent
  <1>a. a \in Analyses
    BY <1>0 DEF TypeOK
  <1>1. CASE a \in spool \cup stored
    BY <1>1, <1>a, RecoverableStays DEF IInv, IntentKept
  <1>2. CASE a \notin spool \cup stored
    <2>1. CASE UNCHANGED <<begun, journal, results>>
      BY <1>2, <2>1 DEF results
    <2>2. ASSUME NEW w \in Workers, Step(w) PROVE Recoverable(a)'
      <3>1. CASE a \in spool'
        <4>1. a = workers[w].at /\ Queue(w)
          BY <1>0, <1>2, <2>2, <3>1, SpoolGrows
        <4>2. Recoverable(workers[w].at)'
          BY <4>1, QueueRecoverable
        <4>3. workers'[w].at = workers[w].at
          BY <1>0, <4>1 DEF Queue, Goto, Becomes, TypeOK, Worker
        <4>. QED
          BY <4>1, <4>2, <4>3 DEF Recoverable, Remembered, Intent
      <3>2. CASE a \in stored'
        <4>1. a = workers[w].at /\ workers[w].pc = "post"
          BY <1>0, <1>2, <2>2, <3>2, StoredGrows
        <4>2. Recoverable(a)
          BY <4>1 DEF IInv, Reached
        <4>. QED
          BY <1>a, <4>2, RecoverableStays
      <3>. QED
        BY <3>1, <3>2
    <2>. QED
      BY <2>1, <2>2, OthersLoseNothing DEF Next
  <1>. QED
    BY <1>1, <1>2

LEMMA MemoryIsCommittedStep == IInv /\ [Next]_vars => MemoryIsCommitted'
  <1>. SUFFICES ASSUME IInv, [Next]_vars PROVE MemoryIsCommitted'
    OBVIOUS
  <1>0. TypeOK /\ MemoryIsCommitted
    BY DEF IInv
  <1>1. stored \subseteq stored'
    <2>1. CASE Next
      BY <2>1, <1>0, NextMoves DEF Moves
    <2>2. CASE UNCHANGED vars
      BY <2>2 DEF vars, results
    <2>. QED
      BY <2>1, <2>2
  <1>2. committed' \subseteq stored'
    <2>1. CASE UNCHANGED <<begun, journal, results>>
      BY <2>1, <1>0 DEF journal, results, MemoryIsCommitted
    <2>2. ASSUME NEW w \in Workers, Step(w) PROVE committed' \subseteq stored'
      <3>1. CASE FlushStep(w)
        BY <3>1, <1>0 DEF FlushStep, Resume, Replay, ListSpool, journal, results, MemoryIsCommitted
      <3>2. CASE OwnStep(w)
        BY <3>2, <1>0 DEF OwnStep, Quit, Stage, Queue, QueueFails, journal, results, MemoryIsCommitted
      <3>3. CASE CommitStep(w)
        <4>1. CASE Mark(w)
          <5>1. workers[w].at \in stored
            BY <4>1 DEF Mark, IInv, Reached
          <5>2. committed' \subseteq committed \cup {workers[w].at}
            BY <4>1 DEF Mark
          <5>. QED
            BY <5>1, <5>2, <1>0, <1>1 DEF MemoryIsCommitted
        <4>2. CASE ~Mark(w)
          <5>1. committed' = committed
            BY <3>3, <4>2 DEF CommitStep, Post, Quarantine, Discard, Unlink, journal
          <5>. QED
            BY <5>1, <1>0, <1>1 DEF MemoryIsCommitted
        <4>. QED
          BY <4>1, <4>2
      <3>4. CASE MemoryStep(w)
        <4>1. committed' \subseteq committed
          BY <3>4 DEF MemoryStep, Load, Write, WriteFails, Receipt, Retire, journal
        <4>. QED
          BY <4>1, <1>0, <1>1 DEF MemoryIsCommitted
      <3>. QED
        BY <2>2, <3>1, <3>2, <3>3, <3>4 DEF Step
    <2>. QED
      BY <2>1, <2>2, OthersLoseNothing DEF Next
  <1>3. ASSUME NEW r \in Records, NEW a \in Analyses, NEW lane \in MemoryLanes,
               memory'[r].source = <<a, lane>>
        PROVE  a \in stored' /\ r \in Observed[a][lane]
    <2>1. CASE memory'[r] = memory[r]
      BY <2>1, <1>0, <1>1, <1>3 DEF MemoryIsCommitted
    <2>2. CASE memory'[r] # memory[r]
      <3>1. PICK w \in Workers, t \in Targets : Write(w, t)
        BY <2>2, <1>0, OnlyWriteRemembers
      <3>2. /\ workers[w].at \in Analyses /\ t[1] \in MemoryLanes
            /\ <<workers[w].at, t[1]>> \in Observers
        BY <1>0, <3>1, SourceAtHand DEF Write
      <3>3. /\ Writes(workers[w].at, t, r)
            /\ memory'[r] = Accumulate(memory[r], <<workers[w].at, t[1]>>)
        BY <3>1, <2>2 DEF Write
      <3>4. memory'[r].source = <<workers[w].at, t[1]>>
        <4>1. memory[r] \in MemoryRecord
          BY <1>0 DEF TypeOK
        <4>2. Accumulate(memory[r], <<workers[w].at, t[1]>>).source = <<workers[w].at, t[1]>>
          BY <3>2, <4>1, AccumulateSeen
        <4>. QED
          BY <3>3, <4>2
      <3>5. a = workers[w].at /\ lane = t[1]
        BY <1>3, <3>4
      <3>6. workers[w].at \in stored
        BY <3>1 DEF Write, IInv, Reached
      <3>. QED
        BY <3>3, <3>5, <3>6, <1>1 DEF Writes
    <2>. QED
      BY <2>1, <2>2
  <1>. QED
    BY <1>2, <1>3 DEF MemoryIsCommitted

(* The step that a worker has reached, row by row. *)
RowReached(s) ==
    /\ s.tasks \subseteq stored
    /\ s.pc = "post" => Recoverable(s.at)
    /\ s.pc \in {"mark", "unlink", "load", "write", "retire"} => s.at \in stored
    /\ s.pc = "unlink" => s.at \notin pending
    /\ s.pc = "discard" => s.at \in quarantined
    /\ s.pc = "retire" => Remembered(s.at)
    /\ s.pc = "write" /\ s.ok =>
          \A r \in Intent(s.at) : memory[r] # Unseen \/ \E t \in s.todo : Writes(s.at, t, r)

LEMMA ReachedRows == Reached <=> \A w \in Workers : RowReached(workers[w])
  BY DEF Reached, RowReached

(* A row that a step leaves alone. *)
LEMMA RowStays ==
  ASSUME IInv, [Next]_vars, NEW v \in Workers, workers'[v] = workers[v]
  PROVE  RowReached(workers[v])'
  <1>. DEFINE s == workers[v]
  <1>0. TypeOK /\ RowReached(s) /\ s \in Worker
    BY ReachedRows DEF IInv, TypeOK
  <1>1. stored \subseteq stored' /\ quarantined \subseteq quarantined'
    BY <1>0, NextMoves DEF Moves, vars, results
  <1>a. s.pc \notin {"off", "resume", "replay"} => s.at \in Analyses /\ s.at \in begun
    <2>1. s.pc \notin {"off", "resume", "replay"} => s.at \in Analyses
      BY <1>0 DEF TypeOK, Worker
    <2>. QED
      BY <2>1 DEF IInv, NotBegun
  <1>2. s.pc = "post" => Recoverable(s.at)'
    BY <1>0, <1>a, RecoverableStays DEF RowReached, Recoverable, Remembered, Intent
  <1>3. s.pc = "retire" => Remembered(s.at)'
    BY <1>0, <1>a, RememberedStays DEF RowReached, Remembered, Intent
  <1>4. s.pc = "unlink" => s.at \notin pending'
    <2>1. CASE Next
      BY <1>0, <1>a, <2>1, NextMoves DEF Moves, RowReached
    <2>2. CASE UNCHANGED vars
      BY <1>0, <2>2 DEF vars, journal, RowReached
    <2>. QED
      BY <2>1, <2>2
  <1>5. s.pc = "write" /\ s.ok =>
          \A r \in Intent(s.at) : memory'[r] # Unseen \/ \E t \in s.todo : Writes(s.at, t, r)
    BY <1>0, <1>a, IntentType, MemoryGrows DEF RowReached
  <1>6. /\ s.tasks \subseteq stored'
        /\ s.pc \in {"mark", "unlink", "load", "write", "retire"} => s.at \in stored'
        /\ s.pc = "discard" => s.at \in quarantined'
    BY <1>0, <1>1 DEF RowReached
  <1>. QED
    BY <1>2, <1>3, <1>4, <1>5, <1>6 DEF RowReached, Recoverable, Remembered, Intent, Writes

LEMMA DoneReached ==
  ASSUME IInv, NEW w \in Workers, Done(w), stored \subseteq stored'
  PROVE  RowReached(workers[w])'
  <1>1. workers[w] \in Worker /\ RowReached(workers[w])
    BY ReachedRows DEF IInv, TypeOK
  <1>2. /\ NextRow(workers[w]) \in Worker
        /\ NextRow(workers[w]).pc \in {"off", "resume", "replay"}
        /\ NextRow(workers[w]).tasks \subseteq workers[w].tasks
        /\ Becomes(w, NextRow(workers[w]))
    BY <1>1, DoneRow, DoneAtHand DEF IInv
  <1>3. workers'[w] = NextRow(workers[w])
    BY <1>2, RowStep DEF IInv, TypeOK
  <1>. HIDE DEF NextRow
  <1>4. NextRow(workers[w]).tasks \subseteq stored'
    BY <1>1, <1>2 DEF RowReached
  <1>. QED
    BY <1>2, <1>3, <1>4 DEF RowReached

LEMMA ToOffReached ==
  ASSUME IInv, NEW w \in Workers, Becomes(w, Off)
  PROVE  RowReached(workers[w])'
  <1>1. workers'[w] = Off
    BY OffIsWorker, RowStep DEF IInv, TypeOK
  <1>. QED
    BY <1>1 DEF RowReached, Off

LEMMA FlushReached ==
  ASSUME IInv, NEW w \in Workers, FlushStep(w)
  PROVE  RowReached(workers[w])'
  <1>. DEFINE s == workers[w]
  <1>0. s \in Worker /\ RowReached(s) /\ workers \in [Workers -> Worker]
    BY ReachedRows DEF IInv, TypeOK
  <1>n. [Next]_vars
    BY DEF Next, Step
  <1>1. ASSUME NEW a \in Analyses, Resume(w, a) PROVE RowReached(workers[w])'
    <2>. DEFINE t == [s EXCEPT !.pc = "load", !.at = a, !.tasks = s.tasks \ {a}]
    <2>1. t \in Worker /\ Becomes(w, t)
      BY <1>0, <1>1 DEF Worker, Pcs, Resume
    <2>2. workers'[w] = t
      BY <1>0, <2>1, RowStep
    <2>3. t.pc = "load" /\ t.at = a /\ t.tasks \subseteq s.tasks /\ a \in s.tasks
      BY <1>0, <1>1 DEF Worker, Resume
    <2>4. stored' = stored
      BY <1>1 DEF Resume, results
    <2>. HIDE DEF t
    <2>. QED
      BY <1>0, <2>2, <2>3, <2>4 DEF RowReached
  <1>2. ASSUME NEW a \in Analyses, Replay(w, a) PROVE RowReached(workers[w])'
    <2>1. CASE a \in spool
      <3>. DEFINE t == [s EXCEPT !.pc = "post", !.at = a, !.paths = s.paths \ {a}]
      <3>1. t \in Worker /\ Becomes(w, t)
        BY <1>0, <1>2, <2>1 DEF Worker, Pcs, Replay
      <3>2. workers'[w] = t
        BY <1>0, <3>1, RowStep
      <3>3. t.pc = "post" /\ t.at = a /\ t.tasks = s.tasks
        BY <1>0 DEF Worker
      <3>4. stored' = stored
        BY <1>2 DEF Replay, results
      <3>5. Recoverable(a)'
        BY <1>n, <2>1, RecoverableStays DEF IInv, IntentKept
      <3>. HIDE DEF t
      <3>. QED
        BY <1>0, <3>2, <3>3, <3>4, <3>5 DEF RowReached, Recoverable, Remembered, Intent
    <2>2. CASE a \notin spool
      BY <2>2, <1>2, ToOffReached DEF Replay
    <2>. QED
      BY <2>1, <2>2
  <1>3. ASSUME ListSpool(w) PROVE RowReached(workers[w])'
    <2>. DEFINE t == [s EXCEPT !.pc = "replay", !.phase = "replay", !.paths = spool]
    <2>1. t \in Worker /\ Becomes(w, t)
      BY <1>0, <1>3 DEF Worker, Pcs, ListSpool, IInv, TypeOK
    <2>2. workers'[w] = t
      BY <1>0, <2>1, RowStep
    <2>3. t.pc = "replay" /\ t.tasks = s.tasks
      BY <1>0 DEF Worker
    <2>4. stored' = stored
      BY <1>3 DEF ListSpool, results
    <2>. HIDE DEF t
    <2>. QED
      BY <1>0, <2>1, <2>2, <2>3, <2>4 DEF RowReached
  <1>. QED
    BY <1>1, <1>2, <1>3 DEF FlushStep

LEMMA OwnReached ==
  ASSUME IInv, NEW w \in Workers, OwnStep(w)
  PROVE  RowReached(workers[w])'
  <1>. DEFINE s == workers[w]
  <1>0. s \in Worker /\ RowReached(s) /\ workers \in [Workers -> Worker]
    BY ReachedRows DEF IInv, TypeOK
  <1>1. CASE Quit(w)
    BY <1>1, ToOffReached DEF Quit
  <1>2. ASSUME NEW a \in Analyses, Stage(w, a) PROVE RowReached(workers[w])'
    <2>. DEFINE t == [s EXCEPT !.pc = "queue", !.phase = "own", !.at = a]
    <2>1. t \in Worker /\ Becomes(w, t)
      BY <1>0, <1>2 DEF Worker, Pcs, Stage
    <2>2. workers'[w] = t
      BY <1>0, <2>1, RowStep
    <2>3. t.pc = "queue" /\ t.tasks = s.tasks
      BY <1>0 DEF Worker
    <2>4. stored' = stored
      BY <1>2 DEF Stage, results
    <2>. HIDE DEF t
    <2>. QED
      BY <1>0, <2>1, <2>2, <2>3, <2>4 DEF RowReached
  <1>3. CASE Queue(w)
    <2>. DEFINE t == [s EXCEPT !.pc = "post"]
    <2>1. t \in Worker /\ Becomes(w, t)
      BY <1>0, <1>3 DEF Worker, Pcs, Queue, Goto
    <2>2. workers'[w] = t
      BY <1>0, <2>1, RowStep
    <2>3. t.pc = "post" /\ t.at = s.at /\ t.tasks = s.tasks
      BY <1>0 DEF Worker
    <2>4. stored' = stored
      BY <1>3 DEF Queue
    <2>5. Recoverable(s.at)'
      BY <1>3, QueueRecoverable
    <2>6. workers'[w].at = workers[w].at
      BY <2>2, <2>3
    <2>. HIDE DEF t
    <2>. QED
      BY <1>0, <2>2, <2>3, <2>4, <2>5, <2>6 DEF RowReached, Recoverable, Remembered, Intent
  <1>4. CASE QueueFails(w)
    BY <1>4, ToOffReached DEF QueueFails
  <1>. QED
    BY <1>1, <1>2, <1>3, <1>4 DEF OwnStep

LEMMA CommitReached ==
  ASSUME IInv, NEW w \in Workers, CommitStep(w)
  PROVE  RowReached(workers[w])'
  <1>. DEFINE s == workers[w]
  <1>0. s \in Worker /\ RowReached(s) /\ workers \in [Workers -> Worker]
    BY ReachedRows DEF IInv, TypeOK
  <1>1. ASSUME NEW o \in Outcomes, Post(w, o) PROVE RowReached(workers[w])'
    <2>1. CASE Posted(o) = "off"
      BY <2>1, <1>1, ToOffReached DEF Post
    <2>2. CASE Posted(o) # "off"
      <3>. DEFINE t == [s EXCEPT !.pc = Posted(o)]
      <3>1. Posted(o) \in {"mark", "quarantine"} /\ (Posted(o) = "mark" => o = "ok")
        BY <2>2 DEF Posted, Outcomes
      <3>2. t \in Worker /\ t.pc = Posted(o) /\ t.at = s.at /\ t.tasks = s.tasks
        BY <1>0, <3>1 DEF Worker, Pcs
      <3>3. Becomes(w, t)
        BY <2>2, <1>1 DEF Post, Goto
      <3>4. workers'[w] = t
        BY <1>0, <3>2, <3>3, RowStep
      <3>5. stored \subseteq stored' /\ (o = "ok" => s.at \in stored')
        BY <1>1 DEF Post
      <3>. HIDE DEF t
      <3>. QED
        BY <1>0, <3>1, <3>2, <3>4, <3>5 DEF RowReached
    <2>. QED
      BY <2>1, <2>2
  <1>2. CASE Quarantine(w)
    <2>1. CASE s.at \in spool
      <3>. DEFINE t == [s EXCEPT !.pc = "discard"]
      <3>1. t \in Worker /\ t.pc = "discard" /\ t.at = s.at /\ t.tasks = s.tasks
        BY <1>0 DEF Worker, Pcs
      <3>2. Becomes(w, t)
        BY <2>1, <1>2 DEF Quarantine, Goto
      <3>3. workers'[w] = t
        BY <1>0, <3>1, <3>2, RowStep
      <3>4. stored' = stored /\ s.at \in quarantined'
        BY <1>2, <2>1 DEF Quarantine
      <3>. HIDE DEF t
      <3>. QED
        BY <1>0, <3>1, <3>3, <3>4 DEF RowReached
    <2>2. CASE s.at \notin spool
      BY <2>2, <1>2, ToOffReached DEF Quarantine
    <2>. QED
      BY <2>1, <2>2
  <1>3. CASE Discard(w)
    BY <1>3, DoneReached DEF Discard, results
  <1>4. CASE Mark(w)
    <2>. DEFINE gone == s.phase = "own" /\ Intent(s.at) # {} /\ ~HasTask(s.at)
                t == [s EXCEPT !.pc = "unlink", !.task = HasTask(s.at)]
    <2>1. HasTask(s.at) \in BOOLEAN
      BY DEF HasTask
    <2>2. t \in Worker /\ t.pc = "unlink" /\ t.at = s.at /\ t.tasks = s.tasks
      BY <1>0, <2>1 DEF Worker, Pcs
    <2>3. Becomes(w, IF gone THEN Off ELSE t)
      BY <1>4 DEF Mark
    <2>4. stored' = stored /\ s.at \notin pending' /\ s.at \in stored
      BY <1>0, <1>4 DEF Mark, results, RowReached
    <2>. HIDE DEF t, gone
    <2>5. CASE gone
      <3>1. Becomes(w, Off)
        BY <2>3, <2>5
      <3>. QED
        BY <3>1, ToOffReached
    <2>6. CASE ~gone
      <3>1. Becomes(w, t)
        BY <2>3, <2>6
      <3>2. workers'[w] = t
        BY <1>0, <2>2, <3>1, RowStep
      <3>. QED
        BY <1>0, <2>2, <2>4, <3>2 DEF RowReached
    <2>. QED
      BY <2>5, <2>6
  <1>5. CASE Unlink(w)
    <2>1. CASE s.task /\ (s.phase = "own" \/ s.writes)
      <3>. DEFINE t == [s EXCEPT !.pc = "load"]
      <3>1. t \in Worker /\ t.pc = "load" /\ t.at = s.at /\ t.tasks = s.tasks
        BY <1>0 DEF Worker, Pcs
      <3>2. Becomes(w, t)
        BY <2>1, <1>5 DEF Unlink, Goto
      <3>3. workers'[w] = t
        BY <1>0, <3>1, <3>2, RowStep
      <3>4. stored' = stored /\ s.at \in stored
        BY <1>0, <1>5 DEF Unlink, RowReached
      <3>. HIDE DEF t
      <3>. QED
        BY <1>0, <3>1, <3>3, <3>4 DEF RowReached
    <2>2. CASE ~(s.task /\ (s.phase = "own" \/ s.writes))
      BY <2>2, <1>5, DoneReached DEF Unlink
    <2>. QED
      BY <2>1, <2>2
  <1>. QED
    BY <1>1, <1>2, <1>3, <1>4, <1>5 DEF CommitStep

(* Every record of a task belongs to one of its targets. *)
LEMMA TargetExists ==
  ASSUME NEW a \in Analyses, NEW r \in Intent(a)
  PROVE  \E t \in TargetsOf(a) : Writes(a, t, r)
  <1>1. PICK lane \in MemoryLanes : r \in Observed[a][lane]
    BY DEF Intent, MemoryLanes
  <1>2. r \in Records
    BY IntentType
  <1>. DEFINE t == <<lane, IF r \in Shared THEN "shared" ELSE "role">>
  <1>3. t \in Targets /\ Writes(a, t, r)
    BY <1>1 DEF Targets, Writes
  <1>. QED
    BY <1>2, <1>3 DEF TargetsOf

LEMMA MemoryReached ==
  ASSUME IInv, NEW w \in Workers, MemoryStep(w)
  PROVE  RowReached(workers[w])'
  <1>. DEFINE s == workers[w]
  <1>0. s \in Worker /\ RowReached(s) /\ workers \in [Workers -> Worker] /\ TypeOK
    BY ReachedRows DEF IInv, TypeOK
  <1>n. [Next]_vars
    BY DEF Next, Step
  <1>a. s.pc \notin {"off", "resume", "replay"} => s.at \in Analyses
    BY <1>0 DEF TypeOK, Worker
  <1>1. CASE Load(w)
    <2>. DEFINE t == [s EXCEPT !.pc = "write", !.todo = TargetsOf(s.at), !.ok = TRUE]
    <2>0. TargetsOf(s.at) \subseteq Targets
      BY DEF TargetsOf
    <2>1. /\ t \in Worker /\ t.pc = "write" /\ t.at = s.at /\ t.tasks = s.tasks
          /\ t.todo = TargetsOf(s.at)
      BY <1>0, <2>0 DEF Worker, Pcs
    <2>2. CASE s.at \in committed
      <3>1. Becomes(w, t)
        BY <2>2, <1>1 DEF Load
      <3>2. workers'[w] = t
        BY <1>0, <2>1, <3>1, RowStep
      <3>3. stored' = stored /\ s.at \in stored /\ s.at \in Analyses
        BY <1>0, <1>1, <1>a DEF Load, results, RowReached
      <3>4. \A r \in Intent(s.at) : \E u \in TargetsOf(s.at) : Writes(s.at, u, r)
        BY <3>3, TargetExists
      <3>. HIDE DEF t
      <3>. QED
        BY <1>0, <2>1, <3>2, <3>3, <3>4 DEF RowReached, Intent, Writes
    <2>3. CASE s.at \notin committed
      BY <2>3, <1>1, DoneReached DEF Load, results
    <2>. QED
      BY <2>2, <2>3
  <1>2. ASSUME NEW u \in Targets, Write(w, u) PROVE RowReached(workers[w])'
    <2>. DEFINE t == [s EXCEPT !.todo = s.todo \ {u}]
    <2>1. /\ t \in Worker /\ t.pc = "write" /\ t.at = s.at /\ t.tasks = s.tasks
          /\ t.todo = s.todo \ {u} /\ t.ok = s.ok
      BY <1>0, <1>2 DEF Worker, Write
    <2>2. Becomes(w, t)
      BY <1>2 DEF Write
    <2>3. workers'[w] = t
      BY <1>0, <2>1, <2>2, RowStep
    <2>4. stored' = stored /\ s.at \in stored /\ s.at \in Analyses /\ s.pc = "write"
      BY <1>0, <1>2, <1>a DEF Write, results, RowReached
    <2>5. ASSUME s.ok, NEW r \in Intent(s.at)
          PROVE  memory'[r] # Unseen \/ \E v \in t.todo : Writes(s.at, v, r)
      <3>r. r \in Records
        BY <2>4, IntentType
      <3>1. CASE Writes(s.at, u, r)
        <4>1. <<s.at, u[1]>> \in Observers
          BY <1>0, <2>4, SourceAtHand
        <4>2. memory[r] \in MemoryRecord
          BY <1>0, <3>r DEF TypeOK
        <4>3. Accumulate(memory[r], <<s.at, u[1]>>) # Unseen
          BY <4>1, <4>2, AccumulateSeen
        <4>. QED
          BY <1>2, <3>r, <3>1, <4>3 DEF Write
      <3>2. CASE ~Writes(s.at, u, r)
        <4>1. memory[r] # Unseen \/ \E v \in s.todo : Writes(s.at, v, r)
          BY <1>0, <2>4, <2>5 DEF RowReached
        <4>2. memory[r] # Unseen => memory'[r] # Unseen
          BY <1>0, <1>n, <3>r, MemoryGrows
        <4>. QED
          BY <2>1, <3>2, <4>1, <4>2
      <3>. QED
        BY <3>1, <3>2
    <2>. HIDE DEF t
    <2>. QED
      BY <1>0, <2>1, <2>3, <2>4, <2>5 DEF RowReached, Intent, Writes
  <1>3. ASSUME NEW u \in Targets, WriteFails(w, u) PROVE RowReached(workers[w])'
    <2>. DEFINE t == [s EXCEPT !.todo = {x \in s.todo : x[1] # u[1]}, !.ok = FALSE]
    <2>1. t \in Worker /\ t.pc = "write" /\ t.at = s.at /\ t.tasks = s.tasks /\ t.ok = FALSE
      BY <1>0, <1>3 DEF Worker, WriteFails
    <2>2. Becomes(w, t)
      BY <1>3 DEF WriteFails
    <2>3. workers'[w] = t
      BY <1>0, <2>1, <2>2, RowStep
    <2>4. stored' = stored /\ s.at \in stored
      BY <1>0, <1>3 DEF WriteFails, results, RowReached
    <2>. HIDE DEF t
    <2>. QED
      BY <1>0, <2>1, <2>3, <2>4 DEF RowReached
  <1>4. ASSUME NEW saved \in BOOLEAN, Receipt(w, saved) PROVE RowReached(workers[w])'
    <2>. DEFINE t == [s EXCEPT !.pc = "retire"]
    <2>1. t \in Worker /\ t.pc = "retire" /\ t.at = s.at /\ t.tasks = s.tasks
      BY <1>0 DEF Worker, Pcs
    <2>2. CASE Retires(s, saved)
      <3>1. Becomes(w, t)
        BY <2>2, <1>4 DEF Receipt, Goto
      <3>2. workers'[w] = t
        BY <1>0, <2>1, <3>1, RowStep
      <3>3. stored' = stored /\ s.at \in stored /\ memory' = memory
        BY <1>0, <1>4 DEF Receipt, results, RowReached
      <3>4. s.pc = "write" /\ s.ok /\ s.todo = {}
        BY <1>4, <2>2 DEF Receipt, Retires
      <3>5. \A r \in Intent(s.at) : memory'[r] # Unseen
        BY <1>0, <3>3, <3>4 DEF RowReached
      <3>. HIDE DEF t
      <3>. QED
        BY <1>0, <2>1, <3>2, <3>3, <3>5 DEF RowReached, Remembered, Intent
    <2>3. CASE ~Retires(s, saved)
      BY <2>3, <1>4, DoneReached DEF Receipt, results
    <2>. QED
      BY <2>2, <2>3
  <1>5. CASE Retire(w)
    BY <1>5, DoneReached DEF Retire, results
  <1>. QED
    BY <1>1, <1>2, <1>3, <1>4, <1>5 DEF MemoryStep

LEMMA ReachedStep == IInv /\ [Next]_vars => Reached'
  <1>. SUFFICES ASSUME IInv, [Next]_vars, NEW v \in Workers PROVE RowReached(workers[v])'
    BY DEF Reached, RowReached, Recoverable, Remembered, Intent, Writes
  <1>0. TypeOK
    BY DEF IInv
  <1>1. CASE UNCHANGED vars
    BY <1>1, RowStays DEF vars
  <1>2. ASSUME NEW w \in Workers, Step(w) PROVE RowReached(workers[v])'
    <2>1. CASE v = w
      BY <1>2, <2>1, FlushReached, OwnReached, CommitReached, MemoryReached DEF Step
    <2>2. CASE v # w
      <3>1. Moves(w)
        BY <1>0, <1>2, FlushMoves, OwnMoves, CommitMoves, MemoryMoves DEF Step
      <3>. QED
        BY <2>2, <3>1, RowStays DEF Moves
    <2>. QED
      BY <2>1, <2>2
  <1>3. ASSUME NEW w \in Workers, Die(w) PROVE RowReached(workers[v])'
    <2>1. CASE v = w
      BY <1>3, <2>1, ToOffReached DEF Die
    <2>2. CASE v # w
      BY <1>0, <1>3, <2>2, OffIsWorker, RowStep, RowStays DEF Die, TypeOK
    <2>. QED
      BY <2>1, <2>2
  <1>4. ASSUME NEW w \in Workers, NEW writes \in BOOLEAN, Launch(w, writes)
        PROVE  RowReached(workers[v])'
    <2>. DEFINE t == [Off EXCEPT !.pc = "resume", !.writes = writes, !.tasks = Resumed(writes)]
    <2>1. Resumed(writes) \subseteq committed /\ committed \subseteq Analyses /\ committed \subseteq stored
      BY DEF Resumed, IInv, TypeOK, MemoryIsCommitted
    <2>2. t \in Worker
      BY <2>1, OffIsWorker DEF Worker, Pcs
    <2>3. t.pc = "resume" /\ t.tasks = Resumed(writes)
      BY DEF Off
    <2>4. Becomes(w, t)
      BY <1>4 DEF Launch
    <2>. HIDE DEF t
    <2>5. workers'[w] = t /\ \A x \in Workers : x # w => workers'[x] = workers[x]
      BY <1>0, <2>2, <2>4, RowStep DEF TypeOK
    <2>6. stored' = stored
      BY <1>4 DEF Launch, results
    <2>7. CASE v = w
      BY <2>1, <2>3, <2>5, <2>6, <2>7 DEF RowReached
    <2>8. CASE v # w
      BY <2>5, <2>8, RowStays
    <2>. QED
      BY <2>7, <2>8
  <1>. QED
    BY <1>1, <1>2, <1>3, <1>4 DEF Next

-----------------------------------------------------------------------------
LEMMA InvInit == Init => IInv
  <1>. SUFFICES ASSUME Init PROVE IInv
    OBVIOUS
  <1>1. TypeOK
    BY TypeInit
  <1>2. NotBegun /\ Staged /\ IntentKept
    BY DEF Init, NotBegun, Staged, IntentKept, Off, AnalysisPublicationAssumption
  <1>3. Reached
    BY DEF Init, Reached, Off
  <1>4. MemoryIsCommitted
    BY AnalysisPublicationAssumption DEF Init, MemoryIsCommitted, Unseen
  <1>. QED
    BY <1>1, <1>2, <1>3, <1>4 DEF IInv

LEMMA InvStep == IInv /\ [Next]_vars => IInv'
  BY TypeStep, NotBegunStep, StagedStep, ReachedStep, IntentKeptStep, MemoryIsCommittedStep DEF IInv

(* The inductive invariant: a task or a spooled result that is gone was     *)
(* carried on by a later step, however the workers interleave and die.      *)
THEOREM IInvHolds == Spec => []IInv
  BY InvInit, InvStep, PTL DEF Spec

(* No task crosses into committed/ and no record into memory before the    *)
(* alert store has the analysis, whoever replays it.                       *)
THEOREM MemoryIsCommittedHolds == Spec => []MemoryIsCommitted
  <1>1. IInv => MemoryIsCommitted
    BY DEF IInv
  <1>. QED
    BY <1>1, IInvHolds, PTL

(* Wherever workers die, the intent of a stored analysis is remembered or  *)
(* found again, unless its result was rejected.                            *)
THEOREM IntentRecoverableHolds == Spec => []IntentRecoverable
  <1>1. IInv => IntentRecoverable
    BY DEF IInv, IntentKept, Recoverable, Remembered, IntentRecoverable
  <1>. QED
    BY <1>1, IInvHolds, PTL

-----------------------------------------------------------------------------
(* A record that one lane of one analysis observes is only ever counted    *)
(* for that observer, and the observer is recognised when it comes again.  *)
ObservedBy(r) == {o \in Observers : r \in Observed[o[1]][o[2]]}

Lone(r, o) == \A p \in ObservedBy(r) : p = o

CountedOnce ==
    \A r \in Records, o \in Observers : Lone(r, o) =>
        memory[r] = Unseen \/ (memory[r].count = 1 /\ memory[r].source = o)

(* A write is of a record that its observer observed. *)
LEMMA WriterObserves ==
  ASSUME TypeOK, NEW w \in Workers, NEW t \in Targets, Write(w, t), NEW r \in Records
  PROVE  \/ memory'[r] = memory[r] /\ ~Writes(workers[w].at, t, r)
         \/ \E o \in ObservedBy(r) : /\ o = <<workers[w].at, t[1]>>
                                     /\ Writes(workers[w].at, t, r)
                                     /\ memory'[r] = Accumulate(memory[r], o)
  <1>1. CASE ~Writes(workers[w].at, t, r)
    BY <1>1 DEF Write, TypeOK
  <1>2. CASE Writes(workers[w].at, t, r)
    <2>1. PICK o : o = <<workers[w].at, t[1]>>
      OBVIOUS
    <2>2. o \in Observers /\ o[1] = workers[w].at /\ o[2] = t[1]
      BY <2>1, SourceAtHand DEF Write
    <2>3. o \in ObservedBy(r)
      BY <1>2, <2>2 DEF ObservedBy, Writes
    <2>4. memory'[r] = Accumulate(memory[r], o)
      BY <1>2, <2>1 DEF Write
    <2>. QED
      BY <1>2, <2>1, <2>3, <2>4
  <1>. QED
    BY <1>1, <1>2

LEMMA CountedOnceStep == TypeOK /\ CountedOnce /\ [Next]_vars => CountedOnce'
  <1>. SUFFICES ASSUME TypeOK, CountedOnce, [Next]_vars, NEW r \in Records, NEW o \in Observers, Lone(r, o)
                PROVE  memory'[r] = Unseen \/ (memory'[r].count = 1 /\ memory'[r].source = o)
    BY DEF CountedOnce, Lone, ObservedBy
  <1>1. CASE memory'[r] = memory[r]
    BY <1>1 DEF CountedOnce
  <1>2. CASE memory'[r] # memory[r]
    <2>1. PICK w \in Workers, t \in Targets : Write(w, t)
      BY <1>2, OnlyWriteRemembers
    <2>2. memory'[r] = Accumulate(memory[r], o)
      BY <1>2, <2>1, WriterObserves DEF Lone
    <2>3. CASE memory[r] = Unseen
      <3>1. o # <<NoAnalysis, "primary">>
        BY DEF Observers
      <3>. QED
        BY <2>2, <2>3, <3>1 DEF Accumulate, Unseen
    <2>4. CASE memory[r] # Unseen
      BY <1>2, <2>2, <2>4 DEF Accumulate, CountedOnce
    <2>. QED
      BY <2>3, <2>4
  <1>. QED
    BY <1>1, <1>2

(* The observers of one record are finitely many if the analyses are. *)
LEMMA FiniteObservers ==
  ASSUME IsFiniteSet(Analyses)
  PROVE  IsFiniteSet(Observers)
  <1>1. IsFiniteSet(MemoryLanes)
    <2>1. IsFiniteSet({"primary"}) /\ MemoryLanes = {"primary"} \cup {"reviewer"}
      BY FS_Singleton DEF MemoryLanes
    <2>. QED
      BY <2>1, FS_AddElement
  <1>. QED
    BY <1>1, FS_Product DEF Observers

LEMMA CountedOnceSuffices ==
  ASSUME IsFiniteSet(Analyses), CountedOnce
  PROVE  ReplayedOnce
  <1>. SUFFICES ASSUME NEW r \in Records, Cardinality(ObservedBy(r)) = 1
                PROVE  memory[r].count <= 1
    BY DEF ReplayedOnce, ObservedBy
  <1>1. IsFiniteSet(ObservedBy(r))
    BY FiniteObservers, FS_Subset DEF ObservedBy
  <1>2. PICK o : ObservedBy(r) = {o}
    BY <1>1, FS_Singleton
  <1>3. o \in Observers /\ Lone(r, o)
    BY <1>2 DEF ObservedBy, Lone
  <1>4. memory[r] = Unseen \/ memory[r].count = 1
    BY <1>3 DEF CountedOnce
  <1>. QED
    BY <1>4 DEF Unseen

(* A task is replayed by analysis id without double reinforcement of a     *)
(* record that one lane of one analysis observed, however often the task   *)
(* is replayed and by whomever (__accumulate_record).                      *)
THEOREM ReplayedOnceHolds ==
  ASSUME IsFiniteSet(Analyses) PROVE Spec => []ReplayedOnce
  <1>1. Init => CountedOnce
    BY DEF Init, CountedOnce
  <1>2. CountedOnce => ReplayedOnce
    BY CountedOnceSuffices
  <1>. QED
    BY <1>1, <1>2, TypeInit, TypeStep, CountedOnceStep, PTL DEF Spec

-----------------------------------------------------------------------------
(* Whose observation of a record is sure to have been counted: an observer *)
(* with an affirmative receipt, one whose write a living worker has made,  *)
(* and the last one.                                                       *)
HasWritten(s, o, r) ==
    /\ s.pc = "write" /\ s.ok /\ s.at = o[1]
    /\ \A t \in s.todo : ~(t[1] = o[2] /\ Writes(s.at, t, r))

Counted(r) ==
    {o \in ObservedBy(r) : \/ receipts[o[1]] = "ok"
                           \/ memory[r].source = o
                           \/ \E w \in Workers : HasWritten(workers[w], o, r)}

CountsCover == \A r \in Records : Cardinality(Counted(r)) <= memory[r].count

(* What a step other than a write does: it adds no observer. *)
LEMMA CountedShrinks ==
  ASSUME UNCHANGED memory, NEW r \in Records, NEW w \in Workers,
         \A v \in Workers : v # w => workers'[v] = workers[v],
         \A o \in ObservedBy(r) : /\ HasWritten(workers'[w], o, r) => HasWritten(workers[w], o, r)
                                  /\ receipts'[o[1]] = "ok" =>
                                        receipts[o[1]] = "ok" \/ HasWritten(workers[w], o, r)
  PROVE  Counted(r)' \subseteq Counted(r)
  <1>. SUFFICES ASSUME NEW o \in Counted(r)' PROVE o \in Counted(r)
    OBVIOUS
  <1>1. o \in ObservedBy(r) /\ \/ receipts'[o[1]] = "ok"
                               \/ memory'[r].source = o
                               \/ \E v \in Workers : HasWritten(workers'[v], o, r)
    BY DEF Counted, ObservedBy, HasWritten, Writes
  <1>2. CASE receipts'[o[1]] = "ok"
    BY <1>1, <1>2 DEF Counted
  <1>3. CASE memory'[r].source = o
    BY <1>1, <1>3 DEF Counted
  <1>4. CASE \E v \in Workers : HasWritten(workers'[v], o, r)
    BY <1>1, <1>4 DEF Counted
  <1>. QED
    BY <1>1, <1>2, <1>3, <1>4

(* Only a worker that loads a task, or writes, is about to write. *)
LEMMA NobodyWrites ==
  ASSUME NEW s, s.pc # "write" \/ ~s.ok
  PROVE  \A o, r : ~HasWritten(s, o, r)
  BY DEF HasWritten

(* A step that takes its worker away from writing. *)
LEMMA LeavesWriting ==
  ASSUME TypeOK, NEW w \in Workers, NEW s \in Worker, Becomes(w, s), s.pc # "write" \/ ~s.ok,
         UNCHANGED <<memory, receipts>>, NEW r \in Records
  PROVE  Counted(r)' \subseteq Counted(r)
  <1>1. workers'[w] = s /\ \A v \in Workers : v # w => workers'[v] = workers[v]
    BY RowStep DEF TypeOK
  <1>2. \A o : ~HasWritten(workers'[w], o, r)
    BY <1>1, NobodyWrites
  <1>. QED
    BY <1>1, <1>2, CountedShrinks

LEMMA DoneCounted ==
  ASSUME TypeOK, NEW w \in Workers, Done(w), UNCHANGED <<memory, receipts>>, NEW r \in Records
  PROVE  Counted(r)' \subseteq Counted(r)
  <1>1. workers[w] \in Worker
    BY DEF TypeOK
  <1>2. Becomes(w, NextRow(workers[w])) /\ NextRow(workers[w]) \in Worker
        /\ NextRow(workers[w]).pc # "write"
    BY <1>1, DoneAtHand, DoneRow
  <1>. QED
    BY <1>2, LeavesWriting

LEMMA FlushCounted ==
  ASSUME TypeOK, NEW w \in Workers, FlushStep(w), NEW r \in Records
  PROVE  Counted(r)' \subseteq Counted(r)
  <1>. DEFINE s == workers[w]
  <1>0. s \in Worker /\ UNCHANGED <<memory, receipts>>
    BY DEF TypeOK, FlushStep, Resume, Replay, ListSpool, journal
  <1>1. PICK t : t.pc # "write" /\ t \in Worker /\ Becomes(w, t)
    <2>1. ASSUME NEW a \in Analyses, Resume(w, a) PROVE \E t : t.pc # "write" /\ t \in Worker /\ Becomes(w, t)
      <3>1. PICK t : t = [s EXCEPT !.pc = "load", !.at = a, !.tasks = s.tasks \ {a}]
        OBVIOUS
      <3>2. t \in Worker /\ t.pc = "load" /\ Becomes(w, t)
        BY <1>0, <2>1, <3>1 DEF Worker, Pcs, Resume
      <3>. QED
        BY <3>2
    <2>2. ASSUME NEW a \in Analyses, Replay(w, a) PROVE \E t : t.pc # "write" /\ t \in Worker /\ Becomes(w, t)
      <3>1. PICK t : t = [s EXCEPT !.pc = "post", !.at = a, !.paths = s.paths \ {a}]
        OBVIOUS
      <3>2. t \in Worker /\ t.pc = "post" /\ (Becomes(w, t) \/ Becomes(w, Off))
        BY <1>0, <2>2, <3>1 DEF Worker, Pcs, Replay
      <3>. QED
        BY <3>2, OffIsWorker DEF Off
    <2>3. ASSUME ListSpool(w) PROVE \E t : t.pc # "write" /\ t \in Worker /\ Becomes(w, t)
      <3>1. PICK t : t = [s EXCEPT !.pc = "replay", !.phase = "replay", !.paths = spool]
        OBVIOUS
      <3>2. t \in Worker /\ t.pc = "replay" /\ Becomes(w, t)
        BY <1>0, <2>3, <3>1 DEF Worker, Pcs, ListSpool, TypeOK
      <3>. QED
        BY <3>2
    <2>. QED
      BY <2>1, <2>2, <2>3 DEF FlushStep
  <1>. QED
    BY <1>0, <1>1, LeavesWriting

LEMMA GotoCounted ==
  ASSUME TypeOK, NEW w \in Workers, NEW pc \in Pcs \ {"write"}, Goto(w, pc),
         UNCHANGED <<memory, receipts>>, NEW r \in Records
  PROVE  Counted(r)' \subseteq Counted(r)
  <1>1. PICK t : t = [workers[w] EXCEPT !.pc = pc]
    OBVIOUS
  <1>2. workers[w] \in Worker
    BY DEF TypeOK
  <1>3. t \in Worker /\ t.pc = pc
    BY <1>1, <1>2 DEF Worker
  <1>4. Becomes(w, t)
    BY <1>1 DEF Goto
  <1>. QED
    BY <1>3, <1>4, LeavesWriting

LEMMA OffCounted ==
  ASSUME TypeOK, NEW w \in Workers, Becomes(w, Off), UNCHANGED <<memory, receipts>>, NEW r \in Records
  PROVE  Counted(r)' \subseteq Counted(r)
  <1>1. Off \in Worker /\ Off.pc # "write"
    BY OffIsWorker DEF Off
  <1>. QED
    BY <1>1, LeavesWriting

LEMMA OwnCounted ==
  ASSUME TypeOK, NEW w \in Workers, OwnStep(w), NEW r \in Records
  PROVE  Counted(r)' \subseteq Counted(r)
  <1>0. workers[w] \in Worker /\ UNCHANGED <<memory, receipts>>
    BY DEF TypeOK, OwnStep, Quit, Stage, Queue, QueueFails, journal
  <1>1. CASE Quit(w) \/ QueueFails(w)
    BY <1>0, <1>1, OffCounted DEF Quit, QueueFails
  <1>2. ASSUME NEW a \in Analyses, Stage(w, a) PROVE Counted(r)' \subseteq Counted(r)
    <2>1. PICK t : t = [workers[w] EXCEPT !.pc = "queue", !.phase = "own", !.at = a]
      OBVIOUS
    <2>2. t \in Worker /\ t.pc = "queue" /\ Becomes(w, t)
      BY <1>0, <1>2, <2>1 DEF Worker, Pcs, Stage
    <2>. QED
      BY <1>0, <2>2, LeavesWriting
  <1>3. CASE Queue(w)
    BY <1>0, <1>3, GotoCounted DEF Queue, Pcs
  <1>. QED
    BY <1>1, <1>2, <1>3 DEF OwnStep

LEMMA CommitCounted ==
  ASSUME TypeOK, NEW w \in Workers, CommitStep(w), NEW r \in Records
  PROVE  Counted(r)' \subseteq Counted(r)
  <1>0. workers[w] \in Worker /\ UNCHANGED <<memory, receipts>>
    BY DEF TypeOK, CommitStep, Post, Quarantine, Discard, Mark, Unlink, journal
  <1>1. ASSUME NEW o \in Outcomes, Post(w, o) PROVE Counted(r)' \subseteq Counted(r)
    <2>1. Posted(o) \in {"off", "mark", "quarantine"}
      BY DEF Posted
    <2>2. Becomes(w, Off) \/ (Posted(o) # "off" /\ Goto(w, Posted(o)))
      BY <1>1 DEF Post
    <2>. QED
      BY <1>0, <2>1, <2>2, OffCounted, GotoCounted DEF Pcs
  <1>2. CASE Quarantine(w)
    BY <1>0, <1>2, OffCounted, GotoCounted DEF Quarantine, Pcs
  <1>3. CASE Discard(w)
    BY <1>0, <1>3, DoneCounted DEF Discard
  <1>4. CASE Mark(w)
    <2>1. PICK t : t = [workers[w] EXCEPT !.pc = "unlink", !.task = HasTask(workers[w].at)]
      OBVIOUS
    <2>2. HasTask(workers[w].at) \in BOOLEAN
      BY DEF HasTask
    <2>3. t \in Worker /\ t.pc = "unlink"
      BY <1>0, <2>1, <2>2 DEF Worker, Pcs
    <2>4. Becomes(w, t) \/ Becomes(w, Off)
      BY <1>4, <2>1 DEF Mark
    <2>. QED
      BY <1>0, <2>3, <2>4, OffCounted, LeavesWriting
  <1>5. CASE Unlink(w)
    BY <1>0, <1>5, DoneCounted, GotoCounted DEF Unlink, Pcs
  <1>. QED
    BY <1>1, <1>2, <1>3, <1>4, <1>5 DEF CommitStep

(* A task just loaded has every target before it. *)
LEMMA LoadCounted ==
  ASSUME TypeOK, NEW w \in Workers, Load(w), NEW r \in Records
  PROVE  Counted(r)' \subseteq Counted(r)
  <1>. DEFINE s == workers[w]
  <1>0. s \in Worker /\ UNCHANGED <<memory, receipts>>
    BY DEF TypeOK, Load, journal
  <1>1. CASE s.at \in committed
    <2>1. PICK t : t = [s EXCEPT !.pc = "write", !.todo = TargetsOf(s.at), !.ok = TRUE]
      OBVIOUS
    <2>2. t \in Worker /\ t.at = s.at /\ t.todo = TargetsOf(s.at) /\ Becomes(w, t)
      <3>1. TargetsOf(s.at) \subseteq Targets
        BY DEF TargetsOf
      <3>. QED
        BY <1>0, <1>1, <2>1, <3>1 DEF Worker, Pcs, Load
    <2>3. workers'[w] = t /\ \A v \in Workers : v # w => workers'[v] = workers[v]
      BY <2>2, RowStep DEF TypeOK
    <2>4. ASSUME NEW o \in ObservedBy(r) PROVE ~HasWritten(t, o, r)
      <3>. SUFFICES ASSUME s.at = o[1] PROVE \E u \in TargetsOf(s.at) : u[1] = o[2] /\ Writes(s.at, u, r)
        BY <2>2 DEF HasWritten
      <3>1. PICK u : u = <<o[2], IF r \in Shared THEN "shared" ELSE "role">>
        OBVIOUS
      <3>2. o[2] \in MemoryLanes /\ r \in Observed[o[1]][o[2]]
        BY DEF ObservedBy, Observers
      <3>3. u \in Targets /\ u[1] = o[2] /\ Writes(s.at, u, r)
        BY <3>1, <3>2 DEF Targets, Writes
      <3>. QED
        BY <3>3 DEF TargetsOf
    <2>. QED
      BY <1>0, <2>3, <2>4, CountedShrinks
  <1>2. CASE s.at \notin committed
    BY <1>0, <1>2, DoneCounted DEF Load
  <1>. QED
    BY <1>1, <1>2

(* An affirmative receipt is for a task all of whose targets are written.  *)
LEMMA ReceiptCounted ==
  ASSUME TypeOK, NEW w \in Workers, NEW saved \in BOOLEAN, Receipt(w, saved), NEW r \in Records
  PROVE  Counted(r)' \subseteq Counted(r)
  <1>. DEFINE s == workers[w]
  <1>0. s \in Worker /\ s.pc = "write" /\ s.todo = {} /\ memory' = memory
    BY DEF TypeOK, Receipt
  <1>1. PICK t : t \in Worker /\ t.pc # "write" /\ Becomes(w, t)
    <2>1. PICK t : t = [s EXCEPT !.pc = "retire"]
      OBVIOUS
    <2>2. t \in Worker /\ t.pc = "retire"
      BY <1>0, <2>1 DEF Worker, Pcs
    <2>3. NextRow(s) \in Worker /\ NextRow(s).pc # "write"
      BY <1>0, DoneRow
    <2>4. Becomes(w, t) \/ Becomes(w, NextRow(s))
      BY <2>1, DoneAtHand DEF Receipt, Goto
    <2>. QED
      BY <2>2, <2>3, <2>4
  <1>2. workers'[w] = t /\ \A v \in Workers : v # w => workers'[v] = workers[v]
    BY <1>1, RowStep DEF TypeOK
  <1>3. ASSUME NEW o \in ObservedBy(r), receipts'[o[1]] = "ok"
        PROVE  receipts[o[1]] = "ok" \/ HasWritten(s, o, r)
    <2>1. CASE o[1] = s.at
      <3>1. receipts'[o[1]] = receipts[o[1]] \/ s.ok
        BY <1>3, <2>1 DEF Receipt, TypeOK
      <3>. QED
        BY <1>0, <1>3, <2>1, <3>1 DEF HasWritten
    <2>2. CASE o[1] # s.at
      BY <1>3, <2>2 DEF Receipt, TypeOK
    <2>. QED
      BY <2>1, <2>2
  <1>4. \A o : ~HasWritten(workers'[w], o, r)
    BY <1>1, <1>2, NobodyWrites
  <1>. QED
    BY <1>0, <1>2, <1>3, <1>4, CountedShrinks

LEMMA WriteFailsCounted ==
  ASSUME TypeOK, NEW w \in Workers, NEW u \in Targets, WriteFails(w, u), NEW r \in Records
  PROVE  Counted(r)' \subseteq Counted(r)
  <1>1. PICK t : t = [workers[w] EXCEPT !.todo = {x \in workers[w].todo : x[1] # u[1]}, !.ok = FALSE]
    OBVIOUS
  <1>2. workers[w] \in Worker /\ UNCHANGED <<memory, receipts>>
    BY DEF TypeOK, WriteFails, journal
  <1>3. t \in Worker /\ ~t.ok /\ Becomes(w, t)
    BY <1>1, <1>2 DEF Worker, WriteFails
  <1>. QED
    BY <1>2, <1>3, LeavesWriting

(* A write adds its observer, and raises the count unless that observer    *)
(* was the last one.                                                       *)
LEMMA WriteCounted ==
  ASSUME TypeOK, NEW w \in Workers, NEW u \in Targets, Write(w, u), NEW r \in Records
  PROVE  \/ Counted(r)' \subseteq Counted(r) /\ memory'[r] = memory[r]
         \/ \E o \in ObservedBy(r) : /\ Counted(r)' \subseteq Counted(r) \cup {o}
                                     /\ memory'[r].count = memory[r].count + 1
  <1>. DEFINE s == workers[w]
  <1>0. s \in Worker /\ s.pc = "write" /\ receipts' = receipts
    BY DEF TypeOK, Write
  <1>1. PICK t : t = [s EXCEPT !.todo = s.todo \ {u}]
    OBVIOUS
  <1>2. /\ t \in Worker /\ t.at = s.at /\ t.ok = s.ok /\ t.todo = s.todo \ {u}
        /\ Becomes(w, t)
    BY <1>0, <1>1 DEF Worker, Write
  <1>3. workers'[w] = t /\ \A v \in Workers : v # w => workers'[v] = workers[v]
    BY <1>2, RowStep DEF TypeOK
  <1>4. ASSUME NEW o \in ObservedBy(r), HasWritten(t, o, r), ~HasWritten(s, o, r)
        PROVE  Writes(s.at, u, r) /\ o = <<s.at, u[1]>>
    <2>1. s.at = o[1] /\ u[1] = o[2] /\ Writes(s.at, u, r)
      BY <1>0, <1>2, <1>4 DEF HasWritten
    <2>. QED
      BY <2>1 DEF ObservedBy, Observers
  <1>5. ASSUME NEW p \in Counted(r)'
        PROVE  p \in Counted(r) \/ memory'[r].source = p \/ (Writes(s.at, u, r) /\ p = <<s.at, u[1]>>)
    <2>1. p \in ObservedBy(r) /\ \/ receipts'[p[1]] = "ok"
                                 \/ memory'[r].source = p
                                 \/ \E v \in Workers : HasWritten(workers'[v], p, r)
      BY <1>5 DEF Counted, ObservedBy, HasWritten, Writes
    <2>2. CASE receipts'[p[1]] = "ok"
      BY <1>0, <2>1, <2>2 DEF Counted
    <2>3. CASE \E v \in Workers : HasWritten(workers'[v], p, r)
      BY <1>3, <1>4, <2>1, <2>3 DEF Counted
    <2>. QED
      BY <2>1, <2>2, <2>3
  <1>6. CASE memory'[r] = memory[r] /\ ~Writes(s.at, u, r)
    <2>1. \A p \in Counted(r)' : p \in ObservedBy(r)
      BY DEF Counted, ObservedBy
    <2>. QED
      BY <1>5, <1>6, <2>1 DEF Counted
  <1>7. ASSUME NEW o \in ObservedBy(r), o = <<s.at, u[1]>>, memory'[r] = Accumulate(memory[r], o)
        PROVE  \/ Counted(r)' \subseteq Counted(r) /\ memory'[r] = memory[r]
               \/ /\ Counted(r)' \subseteq Counted(r) \cup {o}
                  /\ memory'[r].count = memory[r].count + 1
    <2>1. memory[r] \in MemoryRecord /\ o \in Observers
      BY DEF TypeOK, ObservedBy
    <2>2. memory'[r].source = o
      BY <1>7, <2>1, AccumulateSeen
    <2>3. Counted(r)' \subseteq Counted(r) \cup {o}
      BY <1>5, <1>7, <2>2
    <2>4. CASE memory[r].source = o
      <3>1. o \in Counted(r)
        BY <2>4 DEF Counted
      <3>2. memory'[r] = memory[r]
        BY <1>7, <2>4 DEF Accumulate
      <3>. QED
        BY <2>3, <3>1, <3>2
    <2>5. CASE memory[r].source # o
      BY <1>7, <2>3, <2>5 DEF Accumulate
    <2>. QED
      BY <2>4, <2>5
  <1>. QED
    BY <1>6, <1>7, WriterObserves

LEMMA LaunchCounted ==
  ASSUME TypeOK, NEW w \in Workers, NEW writes \in BOOLEAN, Launch(w, writes), NEW r \in Records
  PROVE  Counted(r)' \subseteq Counted(r)
  <1>1. PICK t : t = [Off EXCEPT !.pc = "resume", !.writes = writes, !.tasks = Resumed(writes)]
    OBVIOUS
  <1>2. t.pc = "resume" /\ t \in Worker
    <2>1. Resumed(writes) \subseteq Analyses
      BY DEF Resumed, TypeOK
    <2>. QED
      BY <1>1, <2>1, OffIsWorker DEF Worker, Pcs
  <1>3. Becomes(w, t) /\ UNCHANGED <<memory, receipts>>
    BY <1>1 DEF Launch, journal
  <1>. QED
    BY <1>2, <1>3, LeavesWriting

LEMMA CountedStep ==
  ASSUME TypeOK, [Next]_vars, NEW r \in Records
  PROVE  \/ Counted(r)' \subseteq Counted(r) /\ memory'[r] = memory[r]
         \/ \E o \in ObservedBy(r) : /\ Counted(r)' \subseteq Counted(r) \cup {o}
                                     /\ memory'[r].count = memory[r].count + 1
  <1>1. ASSUME NEW w \in Workers, FlushStep(w) \/ OwnStep(w) \/ CommitStep(w) \/ Die(w)
                                  \/ \E writes \in BOOLEAN : Launch(w, writes)
        PROVE  Counted(r)' \subseteq Counted(r) /\ memory'[r] = memory[r]
    <2>1. CASE FlushStep(w) \/ OwnStep(w) \/ CommitStep(w)
      <3>1. memory' = memory
        BY <2>1 DEF FlushStep, Resume, Replay, ListSpool, OwnStep, Quit, Stage, Queue, QueueFails,
                    CommitStep, Post, Quarantine, Discard, Mark, Unlink, journal
      <3>. QED
        BY <2>1, <3>1, FlushCounted, OwnCounted, CommitCounted
    <2>2. CASE Die(w)
      BY <2>2, OffCounted DEF Die, journal
    <2>3. CASE \E writes \in BOOLEAN : Launch(w, writes)
      BY <2>3, LaunchCounted DEF Launch, journal
    <2>. QED
      BY <1>1, <2>1, <2>2, <2>3
  <1>2. ASSUME NEW w \in Workers, Load(w) \/ Retire(w)
        PROVE  Counted(r)' \subseteq Counted(r) /\ memory'[r] = memory[r]
    BY <1>2, LoadCounted, DoneCounted DEF Load, Retire, journal
  <1>3. ASSUME NEW w \in Workers, NEW u \in Targets, WriteFails(w, u)
        PROVE  Counted(r)' \subseteq Counted(r) /\ memory'[r] = memory[r]
    BY <1>3, WriteFailsCounted DEF WriteFails, journal
  <1>4. ASSUME NEW w \in Workers, NEW saved \in BOOLEAN, Receipt(w, saved)
        PROVE  Counted(r)' \subseteq Counted(r) /\ memory'[r] = memory[r]
    BY <1>4, ReceiptCounted DEF Receipt
  <1>5. CASE UNCHANGED vars
    BY <1>5 DEF vars, journal, Counted, ObservedBy, HasWritten, Writes
  <1>. QED
    BY <1>1, <1>2, <1>3, <1>4, <1>5, WriteCounted DEF Next, Step, MemoryStep

LEMMA CountsCoverStep ==
  ASSUME IsFiniteSet(Analyses)
  PROVE  TypeOK /\ CountsCover /\ [Next]_vars => CountsCover'
  <1>. SUFFICES ASSUME TypeOK, CountsCover, [Next]_vars, NEW r \in Records
                PROVE  Cardinality(Counted(r)') <= memory'[r].count
    BY DEF CountsCover, Counted, ObservedBy, HasWritten, Writes
  <1>1. IsFiniteSet(Observers) /\ Counted(r) \subseteq Observers
    BY FiniteObservers DEF Counted, ObservedBy
  <1>2. /\ IsFiniteSet(Counted(r)) /\ Cardinality(Counted(r)) \in Nat
        /\ Cardinality(Counted(r)) <= memory[r].count /\ memory[r].count \in Nat
    <2>1. memory[r].count \in Nat
      BY DEF TypeOK, MemoryRecord, Unseen
    <2>. QED
      BY <1>1, <2>1, FS_Subset, FS_CardinalityType DEF CountsCover
  <1>3. CASE Counted(r)' \subseteq Counted(r) /\ memory'[r] = memory[r]
    <2>1. PICK C : C = Counted(r)'
      OBVIOUS
    <2>2. IsFiniteSet(C) /\ Cardinality(C) <= Cardinality(Counted(r))
      BY <1>2, <1>3, <2>1, FS_Subset
    <2>3. Cardinality(C) \in Nat
      BY <2>2, FS_CardinalityType
    <2>. QED
      BY <1>2, <1>3, <2>1, <2>2, <2>3
  <1>4. ASSUME NEW o \in ObservedBy(r), Counted(r)' \subseteq Counted(r) \cup {o},
               memory'[r].count = memory[r].count + 1
        PROVE  Cardinality(Counted(r)') <= memory'[r].count
    <2>1. PICK C : C = Counted(r)'
      OBVIOUS
    <2>2. PICK D : D = Counted(r)
      OBVIOUS
    <2>3. IsFiniteSet(D) /\ Cardinality(D) \in Nat /\ Cardinality(D) <= memory[r].count
      BY <1>2, <2>2
    <2>4. /\ IsFiniteSet(D \cup {o})
          /\ Cardinality(D \cup {o}) = Cardinality(D) \/ Cardinality(D \cup {o}) = Cardinality(D) + 1
      BY <2>3, FS_AddElement
    <2>5. IsFiniteSet(C) /\ Cardinality(C) <= Cardinality(D \cup {o})
      BY <1>4, <2>1, <2>2, <2>4, FS_Subset
    <2>6. Cardinality(C) \in Nat /\ Cardinality(D \cup {o}) \in Nat
      BY <2>4, <2>5, FS_CardinalityType
    <2>7. Cardinality(C) <= memory[r].count + 1
      BY <1>2, <2>3, <2>4, <2>5, <2>6
    <2>. QED
      BY <1>4, <2>1, <2>7
  <1>. QED
    BY <1>3, <1>4, CountedStep

LEMMA CountsCoverSuffices ==
  ASSUME IsFiniteSet(Analyses), TypeOK, CountsCover
  PROVE  ReceiptsAreCounted
  <1>. SUFFICES ASSUME NEW r \in Records
                PROVE  memory[r].count >= Cardinality({o \in Observers : /\ receipts[o[1]] = "ok"
                                                                        /\ r \in Observed[o[1]][o[2]]})
    BY DEF ReceiptsAreCounted
  <1>1. PICK S : S = {o \in Observers : receipts[o[1]] = "ok" /\ r \in Observed[o[1]][o[2]]}
    OBVIOUS
  <1>2. S \subseteq Counted(r) /\ Counted(r) \subseteq Observers
    BY <1>1 DEF Counted, ObservedBy
  <1>3. IsFiniteSet(Counted(r)) /\ Cardinality(Counted(r)) \in Nat
    BY <1>2, FiniteObservers, FS_Subset, FS_CardinalityType
  <1>4. IsFiniteSet(S) /\ Cardinality(S) <= Cardinality(Counted(r)) /\ Cardinality(S) \in Nat
    BY <1>2, <1>3, FS_Subset, FS_CardinalityType
  <1>5. Cardinality(Counted(r)) <= memory[r].count /\ memory[r].count \in Nat
    BY DEF CountsCover, TypeOK, MemoryRecord, Unseen
  <1>. QED
    BY <1>1, <1>3, <1>4, <1>5

LEMMA CountsCoverInit ==
  ASSUME IsFiniteSet(Analyses), Init
  PROVE  CountsCover
  <1>. SUFFICES ASSUME NEW r \in Records PROVE Counted(r) = {} /\ memory[r].count = 0
    BY FS_EmptySet DEF CountsCover
  <1>1. \A o, w : w \in Workers => ~HasWritten(workers[w], o, r)
    BY DEF Init, Off, HasWritten
  <1>2. \A o \in Observers : memory[r].source # o /\ receipts[o[1]] # "ok"
    BY DEF Init, Unseen, Observers
  <1>. QED
    BY <1>1, <1>2 DEF Init, Unseen, Counted, ObservedBy

(* Every observation of an analysis with an affirmative receipt has been   *)
(* counted (memory_journal.py, process_committed), although workers        *)
(* write the same tasks at once and die between their writes.              *)
THEOREM ReceiptsAreCountedHolds ==
  ASSUME IsFiniteSet(Analyses) PROVE Spec => []ReceiptsAreCounted
  <1>1. Init => CountsCover
    BY CountsCoverInit
  <1>2. TypeOK /\ CountsCover => ReceiptsAreCounted
    BY CountsCoverSuffices
  <1>3. TypeOK /\ CountsCover /\ [Next]_vars => CountsCover'
    BY CountsCoverStep
  <1>. QED
    BY <1>1, <1>2, <1>3, TypeInit, TypeStep, PTL DEF Spec
=============================================================================
