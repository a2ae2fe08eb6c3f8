------------------------ MODULE AnalysisPublication ------------------------
(***************************************************************************)
(* How the analysis runner publishes a result and turns its memory         *)
(* candidates into agent memory                                            *)
(* (n8n/onion_sentinel/analysis/persistence).                              *)
(*                                                                         *)
(* Every step of a result is a file: the memory task in pending/, the      *)
(* result in the spool, the row in the alert store, the task moved to      *)
(* committed/, the records merged into the role's and the shared memory,   *)
(* the receipt.  A worker is one process, a runner or --flush-index-only:  *)
(* it resumes committed tasks, replays the spool, and, if it is a runner,  *)
(* publishes one analysis of its own.  Workers of several lanes, and the   *)
(* runners that outlive their schedulers, work on the same files; each may *)
(* die between any two steps.                                              *)
(*                                                                         *)
(* Out of this module: controlled evaluation, the artifacts, the harness,  *)
(* and the ageing of memory records (expiry, record limit, quarantine).    *)
(***************************************************************************)
EXTENDS Naturals, FiniteSets

CONSTANTS
    Analyses,    \* analysis_id, one run each
    NoAnalysis,
    Records,     \* memory records, by candidate id
    Shared,      \* those of scope shared
    Observed,    \* Observed[a][lane]: eligible candidates of analysis a
    Workers,
    MaxFaults,   \* bound: lost, failed or rejected calls, failed writes
    MaxCrashes   \* bound: deaths of workers

MemoryLanes == {"primary", "reviewer"}
Observers == Analyses \X MemoryLanes

ASSUME AnalysisPublicationAssumption ==
    /\ NoAnalysis \notin Analyses
    /\ Shared \subseteq Records
    /\ Observed \in [Analyses -> [MemoryLanes -> SUBSET Records]]
    /\ MaxFaults \in Nat /\ MaxCrashes \in Nat

(* A record of memory: how often it was observed, and by whom last. *)
Unseen == [count |-> 0, source |-> <<NoAnalysis, "primary">>]
MemoryRecord == {Unseen} \cup [count : Nat \ {0}, source : Observers]

Pcs == {"off", "resume", "replay", "post", "mark", "unlink", "quarantine", "discard",
        "load", "write", "retire", "queue"}

(* The files that a task is written to: the primary lane before the        *)
(* reviewer's, the role's file before the shared one.                      *)
Targets == MemoryLanes \X {"role", "shared"}
Before(t, u) == \/ t[1] = "primary" /\ u[1] = "reviewer"
                \/ t[1] = u[1] /\ t[2] = "role" /\ u[2] = "shared"

Worker == [pc : Pcs, phase : {"resume", "replay", "own"}, writes : BOOLEAN,
           at : Analyses \cup {NoAnalysis}, tasks : SUBSET Analyses,
           paths : SUBSET Analyses, task : BOOLEAN, todo : SUBSET Targets, ok : BOOLEAN]

VARIABLES
    begun,        \* analyses that some runner has begun to publish
    pending,      \* memory tasks before the commit
    committed,    \* memory tasks after the commit
    spool,        \* results to be submitted
    quarantined,  \* results that were rejected
    stored,       \* ai_analysis_runs
    receipts,     \* [Analyses -> {"none", "ok", "failed"}]
    memory,       \* [Records -> MemoryRecord]
    workers,      \* [Workers -> Worker]
    faults, crashes

journal == <<pending, committed, receipts, memory>>
results == <<spool, quarantined, stored>>
vars == <<begun, journal, results, workers, faults, crashes>>

Off == [pc |-> "off", phase |-> "resume", writes |-> FALSE, at |-> NoAnalysis,
        tasks |-> {}, paths |-> {}, task |-> FALSE, todo |-> {}, ok |-> FALSE]

Init ==
    /\ begun = {}
    /\ pending = {} /\ committed = {}
    /\ spool = {} /\ quarantined = {} /\ stored = {}
    /\ receipts = [a \in Analyses |-> "none"]
    /\ memory = [r \in Records |-> Unseen]
    /\ workers = [w \in Workers |-> Off]
    /\ faults = 0 /\ crashes = 0

-----------------------------------------------------------------------------
Becomes(w, s) == workers' = [workers EXCEPT ![w] = s]
Goto(w, pc) == Becomes(w, [workers[w] EXCEPT !.pc = pc])
Fault(bad) == /\ bad => faults < MaxFaults
              /\ faults' = IF bad THEN faults + 1 ELSE faults

(* Mutant of Done: the task at hand is not put down. *)
MutDone(w) ==
    LET s == workers[w]
    IN  IF s.phase = "own" THEN Becomes(w, Off) ELSE Goto(w, s.phase)

(* What a worker turns to when it is done with one task or one path. *)
Done(w) ==
    LET s == workers[w]
    IN  Becomes(w, IF s.phase = "own" THEN Off
                   ELSE [Off EXCEPT !.pc = s.phase, !.phase = s.phase, !.writes = s.writes,
                                    !.tasks = s.tasks, !.paths = s.paths])

(* Mutant of Resumed: the flag is taken for its contrary. *)
MutResumed(writes) == IF writes THEN {} ELSE committed

Resumed(writes) == IF writes THEN committed ELSE {}

(* The start of a run; writes is false while an evaluation freezes memory. *)
Launch(w, writes) ==
    /\ workers[w].pc = "off"
    /\ Becomes(w, [Off EXCEPT !.pc = "resume", !.writes = writes,
                              !.tasks = Resumed(writes)])
    /\ UNCHANGED <<begun, journal, results, faults, crashes>>

(* resume: the next committed task of the listing. *)
Resume(w, a) ==
    /\ workers[w].pc = "resume"
    /\ a \in workers[w].tasks
    /\ Becomes(w, [workers[w] EXCEPT !.pc = "load", !.at = a, !.tasks = @ \ {a}])
    /\ UNCHANGED <<begun, journal, results, faults, crashes>>

ListSpool(w) ==
    /\ workers[w].pc = "resume"
    /\ workers[w].tasks = {}
    /\ Becomes(w, [workers[w] EXCEPT !.pc = "replay", !.phase = "replay", !.paths = spool])
    /\ UNCHANGED <<begun, journal, results, faults, crashes>>

(* _replay_result_paths: a path another worker has unlinked ends the flush *)
(* as any other failure does.                                              *)
Replay(w, a) ==
    /\ workers[w].pc = "replay"
    /\ a \in workers[w].paths
    /\ Becomes(w, IF a \in spool
                  THEN [workers[w] EXCEPT !.pc = "post", !.at = a, !.paths = @ \ {a}] ELSE Off)
    /\ UNCHANGED <<begun, journal, results, faults, crashes>>

-----------------------------------------------------------------------------
(* A run of its own: stage, queue, submit.                                 *)
Intent(a) == Observed[a]["primary"] \cup Observed[a]["reviewer"]

Flushed(w) == workers[w].pc = "replay" /\ workers[w].paths = {}

(* --flush-index-only, or the analysis that follows does not succeed. *)
Quit(w) ==
    /\ Flushed(w)
    /\ Becomes(w, Off)
    /\ UNCHANGED <<begun, journal, results, faults, crashes>>

Stage(w, a) ==
    /\ Flushed(w)
    /\ a \notin begun
    /\ begun' = begun \cup {a}
    /\ pending' = IF Intent(a) = {} THEN pending ELSE pending \cup {a}
    /\ Becomes(w, [workers[w] EXCEPT !.pc = "queue", !.phase = "own", !.at = a])
    /\ UNCHANGED <<committed, receipts, memory, results, faults, crashes>>

Queue(w) ==
    /\ workers[w].pc = "queue"
    /\ spool' = spool \cup {workers[w].at}
    /\ Goto(w, "post")
    /\ UNCHANGED <<begun, journal, quarantined, stored, faults, crashes>>

(* The outputs, the preflight or the spool file fail: nothing is left. *)
QueueFails(w) ==
    /\ workers[w].pc = "queue"
    /\ pending' = pending \ {workers[w].at}
    /\ Becomes(w, Off)
    /\ UNCHANGED <<begun, committed, receipts, memory, results, faults, crashes>>

Outcomes == {"ok", "lost", "failed", "rejected"}

(* Mutant: an unanswered submission is taken for a receipt. *)
MutPosted(outcome) ==
    CASE outcome \in {"ok", "failed"} -> "mark"
      [] outcome = "rejected" -> "quarantine"
      [] OTHER -> "off"

Posted(outcome) ==
    CASE outcome = "ok" -> "mark"
      [] outcome = "rejected" -> "quarantine"
      [] OTHER -> "off"

(* POST /analysis/result: an analysis is stored once.  Without a bound     *)
(* receipt, or with a retryable status, the run ends; a status that is not *)
(* retryable may come at any time, also for an analysis that is stored.    *)
Post(w, outcome) ==
    LET a == workers[w].at
    IN  /\ workers[w].pc = "post"
        /\ Fault(outcome # "ok")
        /\ stored' = IF outcome \in {"ok", "lost"} THEN stored \cup {a} ELSE stored
        /\ IF Posted(outcome) = "off" THEN Becomes(w, Off) ELSE Goto(w, Posted(outcome))
        /\ UNCHANGED <<begun, journal, spool, quarantined, crashes>>

(* os.replace into the quarantine directory; when the file has gone the    *)
(* run ends with that error.                                               *)
Quarantine(w) ==
    LET a == workers[w].at
    IN  /\ workers[w].pc = "quarantine"
        /\ IF a \in spool
           THEN /\ spool' = spool \ {a}
                /\ quarantined' = quarantined \cup {a}
                /\ Goto(w, "discard")
           ELSE /\ Becomes(w, Off)
                /\ UNCHANGED <<spool, quarantined>>
        /\ UNCHANGED <<begun, journal, stored, faults, crashes>>

Discard(w) ==
    /\ workers[w].pc = "discard"
    /\ pending' = pending \ {workers[w].at}
    /\ Done(w)
    /\ UNCHANGED <<begun, committed, receipts, memory, results, faults, crashes>>

-----------------------------------------------------------------------------
(* Across the commit boundary.                                             *)

HasTask(a) == a \in pending \cup committed

(* mark_committed.  A run that staged a task and finds none any more has   *)
(* been overtaken by a flush: it leaves the spool file to the next flush.  *)
Mark(w) ==
    LET s == workers[w]
    IN  /\ s.pc = "mark"
        /\ pending' = pending \ {s.at}
        /\ committed' = IF HasTask(s.at) THEN committed \cup {s.at} ELSE committed
        /\ Becomes(w, IF s.phase = "own" /\ Intent(s.at) # {} /\ ~HasTask(s.at) THEN Off
                      ELSE [s EXCEPT !.pc = "unlink", !.task = HasTask(s.at)])
        /\ UNCHANGED <<begun, receipts, memory, results, faults, crashes>>

Unlink(w) ==
    LET s == workers[w]
    IN  /\ s.pc = "unlink"
        /\ spool' = spool \ {s.at}
        /\ IF s.task /\ (s.phase = "own" \/ s.writes) THEN Goto(w, "load") ELSE Done(w)
        /\ UNCHANGED <<begun, journal, quarantined, stored, faults, crashes>>

Writes(a, t, r) == r \in Observed[a][t[1]] /\ (r \in Shared <=> t[2] = "shared")

(* A file for which there is nothing is not touched. *)
TargetsOf(a) == {t \in Targets : \E r \in Records : Writes(a, t, r)}

(* process_committed reads the task; one that has gone is an error, which  *)
(* every caller swallows.                                                  *)
Load(w) ==
    LET s == workers[w]
    IN  /\ s.pc = "load"
        /\ IF s.at \in committed
           THEN Becomes(w, [s EXCEPT !.pc = "write", !.todo = TargetsOf(s.at), !.ok = TRUE])
           ELSE Done(w)
        /\ UNCHANGED <<begun, journal, results, faults, crashes>>

(* Mutants: replays reinforce; an observation replaces the last one. *)
MutAccumulate(m, source) == [count |-> m.count + 1, source |-> source]
MutAccumulateReplaces(m, source) == [count |-> 1, source |-> source]

(* One record of __accumulate_record: new, replayed or reinforced. *)
Accumulate(m, source) ==
    IF m.source = source THEN m ELSE [count |-> m.count + 1, source |-> source]

(* _write_records merges the lane's records into one file under its lock.  *)
Write(w, t) ==
    LET s == workers[w]
    IN  /\ s.pc = "write"
        /\ t \in s.todo /\ \A u \in s.todo : ~Before(u, t)
        /\ memory' = [r \in Records |->
                         IF Writes(s.at, t, r) THEN Accumulate(memory[r], <<s.at, t[1]>>)
                         ELSE memory[r]]
        /\ Becomes(w, [s EXCEPT !.todo = s.todo \ {t}])
        /\ UNCHANGED <<begun, pending, committed, receipts, results, faults, crashes>>

(* A write fails: the lane is given up, the other one is still written. *)
WriteFails(w, t) ==
    LET s == workers[w]
    IN  /\ s.pc = "write"
        /\ t \in s.todo /\ \A u \in s.todo : ~Before(u, t)
        /\ Fault(TRUE)
        /\ Becomes(w, [s EXCEPT !.todo = {u \in s.todo : u[1] # t[1]}, !.ok = FALSE])
        /\ UNCHANGED <<begun, journal, results, crashes>>

(* Mutant: the task is retired whatever became of its lanes. *)
MutRetires(s, saved) == saved

(* The task is retired if every lane was written and the receipt is there. *)
Retires(s, saved) == s.ok /\ saved

Receipt(w, saved) ==
    LET s == workers[w]
    IN  /\ s.pc = "write"
        /\ s.todo = {}
        /\ Fault(~saved)
        /\ receipts' = IF saved THEN [receipts EXCEPT ![s.at] = IF s.ok THEN "ok" ELSE "failed"]
                       ELSE receipts
        /\ IF Retires(s, saved) THEN Goto(w, "retire") ELSE Done(w)
        /\ UNCHANGED <<begun, pending, committed, memory, results, crashes>>

Retire(w) ==
    /\ workers[w].pc = "retire"
    /\ committed' = committed \ {workers[w].at}
    /\ Done(w)
    /\ UNCHANGED <<begun, pending, receipts, memory, results, faults, crashes>>

(* A worker dies between two steps: its files stay as they are. *)
Die(w) ==
    /\ workers[w].pc # "off"
    /\ crashes < MaxCrashes
    /\ crashes' = crashes + 1
    /\ Becomes(w, Off)
    /\ UNCHANGED <<begun, journal, results, faults>>

-----------------------------------------------------------------------------
FlushStep(w) ==
    \/ \E a \in Analyses : Resume(w, a) \/ Replay(w, a)
    \/ ListSpool(w)

OwnStep(w) == \/ Quit(w)
              \/ \E a \in Analyses : Stage(w, a)
              \/ Queue(w)
              \/ QueueFails(w)

CommitStep(w) == \/ \E o \in Outcomes : Post(w, o)
                 \/ Quarantine(w)
                 \/ Discard(w)
                 \/ Mark(w)
                 \/ Unlink(w)

MemoryStep(w) == \/ Load(w)
                 \/ \E t \in Targets : Write(w, t) \/ WriteFails(w, t)
                 \/ \E saved \in BOOLEAN : Receipt(w, saved)
                 \/ Retire(w)

Step(w) == FlushStep(w) \/ OwnStep(w) \/ CommitStep(w) \/ MemoryStep(w)

Next == \E w \in Workers : \/ \E writes \in BOOLEAN : Launch(w, writes)
                           \/ Step(w)
                           \/ Die(w)

Spec == Init /\ [][Next]_vars

(* Runs are started again and again, not all of them while memory is       *)
(* frozen, and a run that lives takes its steps.                           *)
Fairness == \A w \in Workers : WF_vars(Step(w)) /\ SF_vars(Launch(w, TRUE))

FairSpec == Spec /\ Fairness

-----------------------------------------------------------------------------
TypeOK ==
    /\ begun \subseteq Analyses
    /\ pending \subseteq Analyses /\ committed \subseteq Analyses
    /\ spool \subseteq Analyses /\ quarantined \subseteq Analyses /\ stored \subseteq Analyses
    /\ receipts \in [Analyses -> {"none", "ok", "failed"}]
    /\ memory \in [Records -> MemoryRecord]
    /\ workers \in [Workers -> Worker]
    /\ \A w \in Workers :
          workers[w].at = NoAnalysis <=> workers[w].pc \in {"off", "resume", "replay"}
    /\ faults \in 0..MaxFaults /\ crashes \in 0..MaxCrashes

(* Memory holds what committed analyses observed and nothing else: no task *)
(* crosses into committed/, and no record into memory, before the alert    *)
(* store has the analysis.                                                 *)
MemoryIsCommitted ==
    /\ committed \subseteq stored
    /\ \A r \in Records, a \in Analyses, lane \in MemoryLanes :
          memory[r].source = <<a, lane>> => a \in stored /\ r \in Observed[a][lane]

(* Wherever a worker dies, what a stored analysis wanted remembered is     *)
(* either remembered or found again: by the spool as long as its task is   *)
(* pending, by the committed task after that.  A rejection gives it up.    *)
IntentRecoverable ==
    \A a \in stored : \/ \A r \in Intent(a) : memory[r] # Unseen
                      \/ a \in pending /\ a \in spool
                      \/ a \in committed
                      \/ a \in quarantined

(* A receipt tells the truth: every observation of an analysis with an     *)
(* affirmative receipt has been counted, although workers write the same   *)
(* tasks at once.                                                          *)
ReceiptsAreCounted ==
    \A r \in Records :
        memory[r].count >= Cardinality({o \in Observers : /\ receipts[o[1]] = "ok"
                                                         /\ r \in Observed[o[1]][o[2]]})

(* "Committed tasks are replayed by analysis ID ... without double         *)
(* reinforcement": so it is for a record that one lane of one analysis     *)
(* observed, however often its task is replayed.                           *)
ReplayedOnce ==
    \A r \in Records :
        Cardinality({o \in Observers : r \in Observed[o[1]][o[2]]}) = 1 => memory[r].count <= 1

(* The same for a record that several have observed. *)
NeverReinforcedTwice ==
    \A r \in Records :
        memory[r].count <= Cardinality({o \in Observers : r \in Observed[o[1]][o[2]]})

(* What the stored analyses wanted remembered is remembered in the end,    *)
(* whatever dies and fails a bounded number of times, or was rejected.     *)
IntentPersists ==
    []<>(\A a \in stored : a \in quarantined \/ \A r \in Intent(a) : memory[r] # Unseen)
=============================================================================
