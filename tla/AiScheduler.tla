---------------------------- MODULE AiScheduler ----------------------------
(***************************************************************************)
(* The AI scheduler (n8n/bin/scheduler_*.py) and the analysis runner it    *)
(* starts, over the durable jobs of the alert store (JobRows).             *)
(*                                                                         *)
(* One scheduler per provider lane holds the lane's lock from Launch until *)
(* its run ends: it replays the spool, completes stranded leases, closes   *)
(* pending jobs whose result is already stored, then claims and runs jobs  *)
(* one at a time, and closes such jobs once more.  The runner (children)   *)
(* is a process of its own in a session of its own: it survives the death  *)
(* of its scheduler.  A call to the alert store is one step here; its      *)
(* outcome says whether it was applied and whether the caller learns it.   *)
(*                                                                         *)
(* Executions are numbered by clock.  The number is the lease token of a   *)
(* claim, and it is the time at which the claim was made: the program      *)
(* compares processing_started_at with generated_at, and of the order of   *)
(* those times only the order against claims can be told apart.            *)
(*                                                                         *)
(* Out of this module: controlled evaluation, the legacy mode without an   *)
(* indexed schema, and the removal of alerts.                              *)
(***************************************************************************)
EXTENDS JobRows, FiniteSets

CONSTANTS
    Groups,       \* alert groups (stable_group_id)
    Lanes,        \* provider lanes, one scheduler each
    LaneOf,       \* LaneOf[t]: the lane whose provider serves jobs of type t
    Eligible,     \* groups whose alerts qualify without a durable job
    MaxAttempts,  \* max_attempts of every request
    MaxRequests,  \* bound: requests per job, MaxRequests[j]
    MaxRuns,      \* bound: executions
    MaxBare,      \* bound: executions without a durable job, per group
    MaxFaults,    \* bound: lost, failed or rejected calls, overrun leases,
                  \* memory tasks that cannot be promoted
    MaxCrashes    \* bound: deaths of schedulers and restarts of the host

Types == {"ai_analysis", "incident_response_analysis"}
Jobs == Groups \X Types
Analyst(g) == <<g, "ai_analysis">>

ASSUME AiSchedulerAssumption ==
    /\ Groups # {}
    /\ LaneOf \in [Types -> Lanes]
    /\ Eligible \subseteq Groups
    /\ MaxAttempts \in Nat \ {0}
    /\ MaxRequests \in [Jobs -> Nat]
    /\ MaxRuns \in Nat /\ MaxBare \in Nat
    /\ MaxFaults \in Nat /\ MaxCrashes \in Nat
    /\ Tokens = 1..MaxRuns /\ NoToken = 0
    /\ Payloads # {}

(* An analysis result, from the runner to the table ai_analysis_runs: the  *)
(* job it was made for, the execution, how many requests for the job that  *)
(* execution answers, and when it was generated.                           *)
Result == [job : Jobs, id : Tokens, asked : Nat, at : Nat]

Child == [job : Jobs, id : Tokens, asked : Nat, at : Nat,
          step : {"flush", "submit", "unlink", "finish"},
          listed : SUBSET Result]

Pcs == {"off", "flush", "recover", "reconcile", "select", "claim", "claimed",
        "wait", "complete", "failed", "raised", "settle"}

Scheduler == [pc : Pcs, job : Jobs, durable : BOOLEAN, leased : BOOLEAN,
              id : Nat, asked : Nat, listed : SUBSET Result,
              stranded : SUBSET (Jobs \X Tokens), closing : SUBSET Groups]

VARIABLES
    jobs,       \* [Jobs -> Row]: the table durable_jobs
    startedAt,  \* processing_started_at, as the number of the claim
    clock,      \* executions so far
    asked,      \* requests made for each job so far
    waived,     \* of those, how many were retired below the severity floor
    spool,      \* results waiting in the index spool
    analyses,   \* ai_analysis_runs
    finalized,  \* executions whose harness run reads succeeded and complete
    sched,      \* [Lanes -> Scheduler]
    children,   \* runner processes
    bare,       \* executions without a durable job, per group
    faults, crashes,
    overtaken   \* history: groups closed on a reading that a request overtook

store == <<jobs, startedAt, clock, asked, waived>>
files == <<spool, analyses, finalized>>
vars == <<store, files, sched, children, bare, faults, crashes, overtaken>>

Asking == [priority |-> 1, maxAttempts |-> MaxAttempts,
           payload |-> CHOOSE p \in Payloads : TRUE]

Off == [pc |-> "off", job |-> CHOOSE j \in Jobs : TRUE, durable |-> FALSE,
        leased |-> FALSE, id |-> 0, asked |-> 0, listed |-> {},
        stranded |-> {}, closing |-> {}]

Init ==
    /\ jobs = [j \in Jobs |-> AbsentRow]
    /\ startedAt = [j \in Jobs |-> 0]
    /\ clock = 0
    /\ asked = [j \in Jobs |-> 0]
    /\ waived = [j \in Jobs |-> 0]
    /\ spool = {} /\ analyses = {} /\ finalized = {}
    /\ sched = [l \in Lanes |-> Off]
    /\ children = {}
    /\ bare = [g \in Groups |-> 0]
    /\ faults = 0 /\ crashes = 0
    /\ overtaken = {}

-----------------------------------------------------------------------------
(* A call to the alert store is applied and answered, applied with its     *)
(* answer lost, or not applied.  In the last two cases the caller raises.  *)
Outcomes == {"ok", "lost", "failed"}

Call(outcome) ==
    /\ outcome = "ok" \/ faults < MaxFaults
    /\ faults' = IF outcome = "ok" THEN faults ELSE faults + 1

(* The scheduler forgets a candidate before it looks for the next one. *)
Turned(s, pc) == IF pc = "select" THEN [Off EXCEPT !.pc = "select"] ELSE [s EXCEPT !.pc = pc]

Goto(l, pc) == sched' = [sched EXCEPT ![l] = Turned(@, pc)]

(* The submission of a spooled result has a fourth outcome, rejection, and *)
(* a rejected result leaves the spool for the quarantine directory.        *)
Submit(r, outcome, unlinked) ==
    /\ Call(outcome)
    /\ analyses' = IF outcome \in {"ok", "lost"} THEN analyses \cup {r} ELSE analyses
    /\ spool' = IF outcome = "rejected" \/ (outcome = "ok" /\ unlinked)
                THEN spool \ {r} ELSE spool

(* Mutant: a replayed result is stored but not unlinked. *)
MutFlushPath(r, outcome) ==
    /\ outcome = "gone" <=> r \notin spool
    /\ IF outcome = "gone" THEN UNCHANGED <<analyses, spool, faults>>
       ELSE Submit(r, outcome, FALSE)
    /\ UNCHANGED finalized

(* One path of the listing a flush works through.  Any failure ends the    *)
(* flush, also that of loading a file which another process unlinked.      *)
FlushPath(r, outcome) ==
    /\ outcome = "gone" <=> r \notin spool
    /\ IF outcome = "gone" THEN UNCHANGED <<analyses, spool, faults>>
       ELSE Submit(r, outcome, TRUE)
    /\ UNCHANGED finalized

FlushOutcomes == Outcomes \cup {"rejected", "gone"}
FlushGoesOn(outcome) == outcome \in {"ok", "rejected"}

-----------------------------------------------------------------------------
(* The start of a run: replay, recovery, reconciliation.                   *)

(* launchd starts the program, the drain marker is absent, the lock of the *)
(* lane is free; the flush process lists the spool.                        *)
Launch(l) ==
    /\ sched[l].pc = "off"
    /\ sched' = [sched EXCEPT ![l] = [Off EXCEPT !.pc = "flush", !.listed = spool]]
    /\ UNCHANGED <<store, files, children, bare, faults, crashes, overtaken>>

(* flush_deferred_results; a failure ends the whole run. *)
Flush(l, r, outcome) ==
    /\ sched[l].pc = "flush"
    /\ r \in sched[l].listed
    /\ FlushPath(r, outcome)
    /\ sched' = [sched EXCEPT ![l] = IF FlushGoesOn(outcome)
                                     THEN [sched[l] EXCEPT !.listed = @ \ {r}] ELSE Off]
    /\ UNCHANGED <<store, children, bare, crashes, overtaken>>

(* Mutant: the analysis may be older than the claim. *)
MutProvenAnyTime(j) == \E r \in analyses : r.job = j /\ r.id \in finalized

(* A stored analysis of this job, finalized, no older than its claim.      *)
ProvenRun(j) ==
    \E r \in analyses : r.job = j /\ r.id \in finalized /\ r.at >= startedAt[j]

(* Mutant: any row with a proven run is a candidate. *)
MutStranded(l) == {<<j, jobs[j].token>> : j \in {k \in Jobs : LaneOf[k[2]] = l /\ ProvenRun(k)}}

(* terminal_success_recovery_candidates: what the run reads. *)
Stranded(l) ==
    {<<j, jobs[j].token>> : j \in {k \in Jobs : /\ jobs[k].status = "processing"
                                               /\ jobs[k].token # NoToken
                                               /\ jobs[k].started
                                               /\ LaneOf[k[2]] = l
                                               /\ ProvenRun(k)}}

FlushDone(l) ==
    /\ sched[l].pc = "flush"
    /\ sched[l].listed = {}
    /\ sched' = [sched EXCEPT ![l].pc = "recover", ![l].stranded = Stranded(l)]
    /\ UNCHANGED <<store, files, children, bare, faults, crashes, overtaken>>

(* The row after a report under token t, which is refused unless t owns it *)
Reported(j, t, row) == IF Owns(jobs[j], t) THEN [jobs EXCEPT ![j] = row] ELSE jobs

(* reconcile_terminal_success reports each candidate; an error defers the  *)
(* rest to a later run.                                                    *)
RecoverReport(l, x, outcome) ==
    /\ sched[l].pc = "recover"
    /\ x \in sched[l].stranded
    /\ Call(outcome)
    /\ jobs' = IF outcome = "failed" THEN jobs
               ELSE Reported(x[1], x[2], CompleteRow(jobs[x[1]]))
    /\ sched' = [sched EXCEPT ![l].stranded = IF outcome = "ok" THEN @ \ {x} ELSE {}]
    /\ UNCHANGED <<startedAt, clock, asked, waived, files, children, bare, crashes, overtaken>>

(* Mutant: the analysis may be older than the last claim. *)
MutClosable(g) ==
    /\ jobs[Analyst(g)].status = "pending"
    /\ ~jobs[Analyst(g)].rerun
    /\ \E r \in analyses : r.job[1] = g

(* _committed_pending_group_ids.  The analysis is looked up by group.      *)
Closable(g) ==
    /\ jobs[Analyst(g)].status = "pending"
    /\ ~jobs[Analyst(g)].rerun
    /\ jobs[Analyst(g)].started
    /\ \E r \in analyses : r.job[1] = g /\ r.at >= startedAt[Analyst(g)]

ClosableGroups == {g \in Groups : Closable(g)}

RecoverDone(l) ==
    /\ sched[l].pc = "recover"
    /\ sched[l].stranded = {}
    /\ sched' = [sched EXCEPT ![l].pc = "reconcile", ![l].closing = ClosableGroups]
    /\ UNCHANGED <<store, files, children, bare, faults, crashes, overtaken>>

(* reconcile_worker_state posts the groups it read; whatever is pending by *)
(* then is closed.  A failure ends the run.                                *)
ReconcilePost(l, outcome) ==
    /\ sched[l].pc \in {"reconcile", "settle"}
    /\ sched[l].closing = {} => outcome = "ok"
    /\ Call(outcome)
    /\ jobs' = IF outcome = "failed" THEN jobs
               ELSE [j \in Jobs |-> IF /\ j[1] \in sched[l].closing
                                       /\ j = Analyst(j[1])
                                       /\ jobs[j].status = "pending"
                                    THEN ClosePendingRow(jobs[j]) ELSE jobs[j]]
    /\ overtaken' = IF outcome = "failed" THEN overtaken
                    ELSE overtaken \cup
                         {g \in sched[l].closing : /\ jobs[Analyst(g)].status = "pending"
                                                  /\ ~Closable(g)}
    /\ sched' = [sched EXCEPT ![l] =
                    IF outcome = "ok" /\ sched[l].pc = "reconcile"
                    THEN [Off EXCEPT !.pc = "select"] ELSE Off]
    /\ UNCHANGED <<startedAt, clock, asked, waived, files, children, bare, crashes>>

-----------------------------------------------------------------------------
(* The drain loop.                                                         *)

(* Mutant: a job that has been started once is left to reconciliation. *)
MutDueJob(j) ==
    /\ Claimable(jobs[j])
    /\ ~jobs[j].started
    /\ j = Analyst(j[1]) => ~Claimable(jobs[<<j[1], "incident_response_analysis">>])

(* The due jobs of a group are ranked before the lane is looked at: the    *)
(* incident responder's hides the analyst's.                               *)
DueJob(j) ==
    /\ Claimable(jobs[j])
    /\ j = Analyst(j[1]) => ~Claimable(jobs[<<j[1], "incident_response_analysis">>])

(* A group without a due job is taken on the strength of its alerts, if it *)
(* has no unfinished analyst job and no analysis by the analyst.           *)
BareGroup(g) ==
    /\ g \in Eligible
    /\ \A t \in Types : ~Claimable(jobs[<<g, t>>])
    /\ jobs[Analyst(g)].status \in {"absent", "completed"}
    /\ \A r \in analyses : r.job # Analyst(g)

Selected(l, j, durable) ==
    /\ sched[l].pc = "select"
    /\ LaneOf[j[2]] = l
    /\ sched' = [sched EXCEPT ![l] =
                    [Off EXCEPT !.pc = "claim", !.job = j, !.durable = durable]]
    /\ UNCHANGED <<store, files, children, faults, crashes, overtaken>>

SelectWork(l, j) == DueJob(j) /\ Selected(l, j, TRUE) /\ UNCHANGED bare

SelectBare(l, g) ==
    /\ BareGroup(g)
    /\ bare[g] < MaxBare
    /\ Selected(l, Analyst(g), FALSE)
    /\ bare' = [bare EXCEPT ![g] = @ + 1]

(* Nothing left for this lane, or the drain marker, or --max-per-run.  The *)
(* run then reads once more which jobs have become redundant.              *)
DrainEnds(l) ==
    /\ sched[l].pc = "select"
    /\ sched' = [sched EXCEPT ![l].pc = "settle", ![l].closing = ClosableGroups]
    /\ UNCHANGED <<store, files, children, bare, faults, crashes, overtaken>>

(* The execution that POST /jobs/status "processing" begins. *)
Begun(l, leased) ==
    [sched[l] EXCEPT !.pc = "claimed", !.leased = leased, !.id = clock + 1,
                     !.asked = asked[sched[l].job]]

(* The row is still there to be claimed.  When the answer is lost so is    *)
(* the token, and the scheduler goes on to the next candidate.             *)
Claim(l, outcome) ==
    LET j == sched[l].job
    IN  /\ sched[l].pc = "claim"
        /\ Claimable(jobs[j])
        /\ clock < MaxRuns
        /\ Call(outcome)
        /\ IF outcome = "failed" THEN UNCHANGED <<jobs, startedAt, clock>>
           ELSE /\ jobs' = [jobs EXCEPT ![j] = ClaimRow(@, clock + 1)]
                /\ startedAt' = [startedAt EXCEPT ![j] = clock + 1]
                /\ clock' = clock + 1
        /\ overtaken' = IF outcome # "failed" /\ j = Analyst(j[1])
                        THEN overtaken \ {j[1]} ELSE overtaken
        /\ sched' = [sched EXCEPT ![l] = IF outcome = "ok" THEN Begun(l, TRUE)
                                         ELSE [Off EXCEPT !.pc = "select"]]
        /\ UNCHANGED <<asked, waived, files, children, bare, crashes>>

(* 404: somebody else took or closed the row.  A durable intent is given   *)
(* up; a group selected without one is analysed without a lease.           *)
ClaimRefused(l) ==
    /\ sched[l].pc = "claim"
    /\ ~Claimable(jobs[sched[l].job])
    /\ IF sched[l].durable
       THEN Goto(l, "select") /\ UNCHANGED clock
       ELSE /\ clock < MaxRuns
            /\ sched' = [sched EXCEPT ![l] = Begun(l, FALSE)]
            /\ clock' = clock + 1
    /\ UNCHANGED <<jobs, startedAt, asked, waived, files, children, bare, faults, crashes, overtaken>>

(* The claim fails without having been applied to anything. *)
ClaimRaises(l) ==
    /\ sched[l].pc = "claim"
    /\ ~Claimable(jobs[sched[l].job])
    /\ Call("failed")
    /\ Goto(l, "select")
    /\ UNCHANGED <<store, files, children, bare, crashes, overtaken>>

Larger(m, n) == IF m > n THEN m ELSE n

(* A claimed job below the automatic severity floor is retired: the        *)
(* analyst's as completed, the incident responder's as failed for good.    *)
Retire(l, outcome) ==
    LET s == sched[l]
        row == IF s.job = Analyst(s.job[1]) THEN CompleteRow(jobs[s.job])
               ELSE ReportFailedRow(jobs[s.job], FALSE)
    IN  /\ s.pc = "claimed"
        /\ s.durable
        /\ Call(outcome)
        /\ IF outcome = "failed" THEN UNCHANGED <<jobs, waived>>
           ELSE /\ jobs' = Reported(s.job, s.id, row)
                /\ waived' = [waived EXCEPT ![s.job] = Larger(@, s.asked)]
        /\ Goto(l, IF outcome = "ok" THEN "select" ELSE "raised")
        /\ UNCHANGED <<startedAt, clock, asked, files, children, bare, crashes, overtaken>>

(* The claim's identity does not hold, or evidence or prompt cannot be     *)
(* prepared.                                                               *)
PrepareFails(l) ==
    /\ sched[l].pc = "claimed"
    /\ Goto(l, IF sched[l].leased THEN "raised" ELSE "select")
    /\ UNCHANGED <<store, files, children, bare, faults, crashes, overtaken>>

(* The runner starts; the first thing it does is to list the spool. *)
StartRunner(l) ==
    LET s == sched[l]
    IN  /\ s.pc = "claimed"
        /\ children' = children \cup
               {[job |-> s.job, id |-> s.id, asked |-> s.asked, at |-> 0,
                 step |-> "flush", listed |-> spool]}
        /\ Goto(l, "wait")
        /\ UNCHANGED <<store, files, bare, faults, crashes, overtaken>>

-----------------------------------------------------------------------------
(* The runner.  Its scheduler waits for it, unless that scheduler has died *)
(* or has given up on it.                                                  *)
Waits(l, c) == sched[l].pc = "wait" /\ sched[l].id = c.id

Becomes(c, d) ==
    /\ children' = (children \ {c}) \cup {d}
    /\ UNCHANGED <<store, sched, bare, crashes, overtaken>>

(* The process is gone.  A scheduler that waits for it reads its exit code *)
(* and, if it holds a lease, has an outcome to report.                     *)
Exits(c, pc) ==
    /\ children' = children \ {c}
    /\ sched' = [l \in Lanes |-> IF Waits(l, c)
                                 THEN Turned(sched[l], IF sched[l].leased THEN pc ELSE "select")
                                 ELSE sched[l]]
    /\ UNCHANGED <<store, bare, crashes, overtaken>>

(* reconcile_deferred_results: replay before another model call; after any *)
(* failure the runner refuses to go on.                                    *)
RunnerFlush(c, r, outcome) ==
    /\ c.step = "flush"
    /\ r \in c.listed
    /\ FlushPath(r, outcome)
    /\ IF FlushGoesOn(outcome) THEN Becomes(c, [c EXCEPT !.listed = @ \ {r}])
       ELSE Exits(c, "failed")

(* The runner fails, or is killed: by its watchdog, by the kernel, by      *)
(* hand.  When it had spooled its result by then this counts as a fault.   *)
Spooled(c) == c.step \in {"submit", "unlink", "finish"}

RunnerDies(c, pc) ==
    /\ Spooled(c) => faults < MaxFaults
    /\ faults' = IF Spooled(c) THEN faults + 1 ELSE faults
    /\ Exits(c, pc)
    /\ UNCHANGED files

Output(c) == [job |-> c.job, id |-> c.id, asked |-> c.asked, at |-> c.at]

(* The models answer and the guards agree; the artifacts are written with  *)
(* their generated_at, and the result is spooled.                          *)
RunnerAnswers(c) ==
    LET d == [c EXCEPT !.step = "submit", !.at = clock]
    IN  /\ c.step = "flush"
        /\ c.listed = {}
        /\ spool' = spool \cup {Output(d)}
        /\ Becomes(c, d)
        /\ UNCHANGED <<analyses, finalized, faults>>

(* Anything but a receipt ends the runner; only a rejection takes the      *)
(* result out of the spool.                                                *)
RunnerSubmits(c, outcome) ==
    /\ c.step = "submit"
    /\ Submit(Output(c), outcome, FALSE)
    /\ IF outcome = "ok" THEN Becomes(c, [c EXCEPT !.step = "unlink"])
       ELSE Exits(c, "failed")
    /\ UNCHANGED finalized

(* promote_memory unlinks the spooled result after it has promoted the     *)
(* memory task.  When the promotion raises, the result is kept for a later *)
(* replay, and the runner goes on as if it were gone.                      *)
RunnerUnlinks(c, kept) ==
    /\ c.step = "unlink"
    /\ kept => faults < MaxFaults
    /\ faults' = IF kept THEN faults + 1 ELSE faults
    /\ spool' = IF kept THEN spool ELSE spool \ {Output(c)}
    /\ Becomes(c, [c EXCEPT !.step = "finish"])
    /\ UNCHANGED <<analyses, finalized>>

(* Mutant: the exit code tells whether the harness run was finalized. *)
MutRunnerFinishes(c, recorded) ==
    /\ c.step = "finish"
    /\ finalized' = IF recorded THEN finalized \cup {c.id} ELSE finalized
    /\ Exits(c, IF recorded THEN "complete" ELSE "failed")
    /\ UNCHANGED <<spool, analyses, faults>>

(* The harness run is finalized if it can be; the exit code is 0 anyway. *)
RunnerFinishes(c, recorded) ==
    /\ c.step = "finish"
    /\ finalized' = IF recorded THEN finalized \cup {c.id} ELSE finalized
    /\ Exits(c, "complete")
    /\ UNCHANGED <<spool, analyses, faults>>

(* renew: progress of the runner renews the lease, and so does progress of *)
(* the collection of incident evidence before it; a renewal that fails or  *)
(* is refused makes the scheduler kill the runner.                         *)
Heartbeat(l, outcome) ==
    LET s == sched[l]
        owner == Owns(jobs[s.job], s.id)
    IN  /\ \/ s.pc = "wait"
           \/ s.pc = "claimed" /\ s.job[2] = "incident_response_analysis"
        /\ s.leased
        /\ Call(outcome)
        /\ jobs' = IF outcome = "failed" THEN jobs
                   ELSE Reported(s.job, s.id, HeartbeatRow(jobs[s.job]))
        /\ IF outcome = "ok" /\ owner THEN UNCHANGED <<sched, children>>
           ELSE /\ children' = {c \in children : ~Waits(l, c)}
                /\ Goto(l, "raised")
        /\ UNCHANGED <<startedAt, clock, asked, waived, files, bare, crashes, overtaken>>

-----------------------------------------------------------------------------
(* The outcome of an execution.                                            *)
ReportCompleted(l, outcome) ==
    LET s == sched[l]
    IN  /\ s.pc = "complete"
        /\ Call(outcome)
        /\ jobs' = IF outcome = "failed" THEN jobs
                   ELSE Reported(s.job, s.id, CompleteRow(jobs[s.job]))
        /\ Goto(l, IF outcome = "ok" THEN "select" ELSE "raised")
        /\ UNCHANGED <<startedAt, clock, asked, waived, files, children, bare, crashes, overtaken>>

(* A failed runner is reported, and when that raises, as any exception is, *)
(* reported again; the second failure is only logged.                      *)
ReportFailed(l, retryable, outcome) ==
    LET s == sched[l]
    IN  /\ s.pc \in {"failed", "raised"}
        /\ Call(outcome)
        /\ jobs' = IF outcome = "failed" THEN jobs
                   ELSE Reported(s.job, s.id, ReportFailedRow(jobs[s.job], retryable))
        /\ Goto(l, IF s.pc = "failed" /\ outcome # "ok" THEN "raised" ELSE "select")
        /\ UNCHANGED <<startedAt, clock, asked, waived, files, children, bare, crashes, overtaken>>

-----------------------------------------------------------------------------
(* The rest of the world.                                                  *)
Enqueue(j) ==
    /\ asked[j] < MaxRequests[j]
    /\ asked' = [asked EXCEPT ![j] = @ + 1]
    /\ jobs' = [jobs EXCEPT ![j] = EnqueueRow(@, Asking)]
    /\ UNCHANGED <<startedAt, clock, waived, files, sched, children, bare, faults, crashes, overtaken>>

Renewing(j) == \E l \in Lanes : sched[l].id = jobs[j].token /\ sched[l].pc # "off"

(* A lease expires when nobody renews it; under a working scheduler only   *)
(* if the host was suspended, or an outage outlasted the lease.            *)
LeaseExpires(j) ==
    /\ jobs[j].lease = "live"
    /\ Renewing(j) => faults < MaxFaults
    /\ faults' = IF Renewing(j) THEN faults + 1 ELSE faults
    /\ jobs' = [jobs EXCEPT ![j].lease = "expired"]
    /\ UNCHANGED <<startedAt, clock, asked, waived, files, sched, children, bare, crashes, overtaken>>

RecoverExpired(j) ==
    /\ Recoverable(jobs[j])
    /\ jobs' = [jobs EXCEPT ![j] = RecoverRow(@)]
    /\ UNCHANGED <<startedAt, clock, asked, waived, files, sched, children, bare, faults, crashes, overtaken>>

BecomesDue(j) ==
    /\ jobs[j].status = "pending"
    /\ ~jobs[j].due
    /\ jobs' = [jobs EXCEPT ![j].due = TRUE]
    /\ UNCHANGED <<startedAt, clock, asked, waived, files, sched, children, bare, faults, crashes, overtaken>>

(* The scheduler alone dies: its lock is free, its runner goes on. *)
SchedulerDies(l) ==
    /\ sched[l].pc # "off"
    /\ crashes < MaxCrashes
    /\ crashes' = crashes + 1
    /\ sched' = [sched EXCEPT ![l] = Off]
    /\ UNCHANGED <<store, files, children, bare, faults, overtaken>>

HostRestarts ==
    /\ crashes < MaxCrashes
    /\ crashes' = crashes + 1
    /\ sched' = [l \in Lanes |-> Off]
    /\ children' = {}
    /\ UNCHANGED <<store, files, bare, faults, overtaken>>

-----------------------------------------------------------------------------
RunStep(l) ==
    \/ Launch(l)
    \/ \E r \in sched[l].listed, o \in FlushOutcomes : Flush(l, r, o)
    \/ FlushDone(l)
    \/ \E x \in sched[l].stranded, o \in Outcomes : RecoverReport(l, x, o)
    \/ RecoverDone(l)
    \/ \E o \in Outcomes : ReconcilePost(l, o)

DrainStep(l) ==
    \/ \E j \in Jobs : SelectWork(l, j)
    \/ \E g \in Groups : SelectBare(l, g)
    \/ DrainEnds(l)
    \/ \E o \in Outcomes : Claim(l, o) \/ Retire(l, o)
    \/ ClaimRefused(l)
    \/ ClaimRaises(l)
    \/ PrepareFails(l)
    \/ StartRunner(l)
    \/ \E o \in Outcomes : ReportCompleted(l, o)
    \/ \E retryable \in BOOLEAN, o \in Outcomes : ReportFailed(l, retryable, o)

RunnerStep(c) ==
    \/ \E r \in c.listed, o \in FlushOutcomes : RunnerFlush(c, r, o)
    \/ RunnerAnswers(c)
    \/ \E o \in Outcomes \cup {"rejected"} : RunnerSubmits(c, o)
    \/ \E kept \in BOOLEAN : RunnerUnlinks(c, kept)
    \/ \E recorded \in BOOLEAN : RunnerFinishes(c, recorded)

QueueStep(j) == Enqueue(j) \/ LeaseExpires(j) \/ RecoverExpired(j) \/ BecomesDue(j)

Next ==
    \/ \E l \in Lanes : RunStep(l) \/ DrainStep(l) \/ SchedulerDies(l)
    \/ \E l \in Lanes, o \in Outcomes : Heartbeat(l, o)
    \/ \E c \in children : RunnerStep(c) \/ \E pc \in {"failed", "raised"} : RunnerDies(c, pc)
    \/ \E j \in Jobs : QueueStep(j)
    \/ HostRestarts

Spec == Init /\ [][Next]_vars

(* launchd starts the program every five minutes and on a wake marker, a   *)
(* run's steps end, a runner ends, time passes.  The selection of a due    *)
(* job is strongly fair: a run can end without having come to it.          *)
Fairness ==
    /\ \A l \in Lanes : /\ WF_vars(RunStep(l) \/ DrainStep(l))
                        /\ \A j \in Jobs : SF_vars(SelectWork(l, j))
    /\ \A i \in Tokens : WF_vars(\E c \in children : c.id = i /\ RunnerStep(c))
    /\ \A j \in Jobs : /\ WF_vars(RecoverExpired(j))
                       /\ WF_vars(BecomesDue(j))
                       /\ WF_vars(LeaseExpires(j) /\ ~Renewing(j))

FairSpec == Spec /\ Fairness

-----------------------------------------------------------------------------
(* Types of the variables. *)
TypeOK ==
    /\ jobs \in [Jobs -> Row]
    /\ startedAt \in [Jobs -> 0..MaxRuns]
    /\ clock \in 0..MaxRuns
    /\ asked \in [Jobs -> Nat]
    /\ waived \in [Jobs -> Nat]
    /\ spool \subseteq Result
    /\ analyses \subseteq Result
    /\ finalized \subseteq Tokens
    /\ sched \in [Lanes -> Scheduler]
    /\ children \subseteq Child
    /\ bare \in [Groups -> 0..MaxBare]
    /\ faults \in 0..MaxFaults
    /\ crashes \in 0..MaxCrashes
    /\ overtaken \subseteq Groups

(* Everything asked of j is answered by an analysis made for j, or was     *)
(* retired by policy.                                                      *)
Answered(j) ==
    \/ waived[j] = asked[j]
    \/ \E r \in analyses : r.job = j /\ r.asked = asked[j]

(* An analysis of j's group by another attempt than the last one at j, and *)
(* no older than that attempt: what reconciliation and recovery may take   *)
(* for the result of the attempt.                                          *)
Adopted(j) ==
    \E r \in analyses : r.job[1] = j[1] /\ r.at >= startedAt[j]
                        /\ (r.job # j \/ r.id # startedAt[j])

(* A job that reads completed owes no answer: whatever crashed, was lost   *)
(* or ran late, the last request has been analysed or retired, with two    *)
(* exceptions.  Another attempt's analysis of the group was published      *)
(* after the job's last claim; or a request came between the reading and   *)
(* the closing of the reconciliation.                                      *)
CompletedIsAnswered ==
    \A j \in Jobs : jobs[j].status = "completed" =>
        \/ Answered(j)
        \/ Adopted(j)
        \/ j = Analyst(j[1]) /\ j[1] \in overtaken

(* The stronger promise of docs/architecture/modularization-module-map.md: *)
(* reconciliation closes jobs satisfied by a same-attempt analysis.        *)
SatisfiedBySameAttempt ==
    \A j \in Jobs : jobs[j].status = "completed" => Answered(j)

(* Fresh jobs remain eligible: no step turns a pending job that was        *)
(* requested anew since its last attempt into a completed one.  What       *)
(* docs/architecture/modularization-module-map.md says of the query that   *)
(* feeds reconciliation, said of what the scheduler does with its answer.  *)
FreshJobsRemainEligible ==
    [][\A j \in Jobs : jobs[j].status = "pending" /\ ~jobs[j].started
                         => jobs'[j].status # "completed"]_vars

(* Unless something was lost, killed or late, no request is analysed twice *)
(* under a lease: reports, recovery, reconciliation and replay settle each *)
(* execution before the same request could be claimed again.               *)
InferredOnce ==
    faults = 0 /\ crashes = 0 =>
        \A q, r \in analyses : q.job = r.job /\ q.asked = r.asked => q = r

(* Two lanes, their runs and whatever is left of dead ones use the queue   *)
(* as LeasedWork: each of their calls, applied or lost, late or repeated,  *)
(* is one of its steps, and no lane takes work that another one holds.     *)
PhaseOf  == [j \in Jobs |-> AbstractPhase(jobs[j])]
HolderOf == [j \in Jobs |-> jobs[j].token]
DebtOf   == {j \in Jobs : jobs[j].status = "processing" /\ jobs[j].rerun}

Work == INSTANCE LeasedWork WITH
    Items <- Jobs, Holders <- Tokens, Nobody <- NoToken,
    phase <- PhaseOf, holder <- HolderOf, debt <- DebtOf

ImplementsLeasedWork == Work!Spec

(* A result that was paid for is delivered or rejected: it does not stay   *)
(* in the spool, though the spool is worked on by runs and runners at once *)
(* and each of them gives up at the first failure.                         *)
SpoolDrains ==
    \A i \in Tokens : (\E r \in spool : r.id = i) ~> ~(\E r \in spool : r.id = i)

(* Work does not get stuck: a queued job is in the end completed or        *)
(* failed.                                                                 *)
JobSettles ==
    \A j \in Jobs : (jobs[j].status \in {"pending", "processing"})
                    ~> (jobs[j].status \in {"completed", "failed"})
=============================================================================
