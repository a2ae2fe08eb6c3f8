---------------------------- MODULE DurableJobs ----------------------------
(***************************************************************************)
(* The durable job queue of the alert store: lib/durable_job_queue.js with *)
(* its callers.  Every SQL statement runs behind one write gate inside one *)
(* transaction, so each operation is one action; what interleaves is the   *)
(* processes that hold leases.                                             *)
(*                                                                         *)
(* Two kinds of job share the table.  ExternalKeys are claimed over HTTP   *)
(* by the AI workers (transition), which keep nothing but the token.       *)
(* DrainKeys are claimed inside the alert store by a background drain      *)
(* (claim / complete / fail), which keeps a snapshot of the claimed row.   *)
(*                                                                         *)
(* An execution (a member of execs) is what one claimant remembers of one  *)
(* claim.  It outlives its lease: a worker that was recovered, or whose    *)
(* report was applied but not acknowledged, may still report later.        *)
(*                                                                         *)
(* Two history variables carry the meaning of the queue:                   *)
(*   queued[k]  the highest priority requested for k since its last claim  *)
(*              (an enqueue on a settled row starts afresh), NoRequest if  *)
(*              nothing was requested since                                *)
(*   owed[k]    some evidence enqueued for k is not covered by any         *)
(*              completed execution                                        *)
(* and so does the field current of an execution: everything enqueued so   *)
(* far had been enqueued when it was claimed.                              *)
(***************************************************************************)
EXTENDS JobRows, FiniteSets

CONSTANTS
    ExternalKeys,   \* jobs worked over HTTP (ai_analysis, incident response)
    DrainKeys,      \* jobs of one type worked by an in-process drain
    LegacyKeys,     \* jobs an older schema may have left processing
    Requests,       \* Requests[k]: the requests callers make for k
    FollowUps,      \* FollowUps[k]: those a finished drain job makes for k
    MaxCrashes      \* bound: crashes of the alert store

Keys == ExternalKeys \cup DrainKeys
NoRequest == -1

ASSUME DurableJobsAssumption ==
    /\ ExternalKeys \cap DrainKeys = {}
    /\ LegacyKeys \subseteq Keys
    /\ Requests \in [Keys -> SUBSET Request]
    /\ \A k \in Keys : \A req \in Requests[k] : req.maxAttempts >= 1
    \* a drained job type has one attempt limit, set by configuration
    /\ \A k \in DrainKeys : \A q, r \in Requests[k] : q.maxAttempts = r.maxAttempts
    /\ FollowUps \in [ExternalKeys -> SUBSET Request]
    /\ \A k \in ExternalKeys : FollowUps[k] \subseteq Requests[k]
    /\ MaxCrashes \in Nat

Execution == [key : Keys, token : Tokens, attempts : Nat, maxAttempts : Nat,
              current : BOOLEAN]

VARIABLES
    jobs,         \* [Keys -> Row]
    execs,        \* what claimants hold
    reconciling,  \* the keys a scheduler read as complete and not yet posted
    up,           \* the alert store is serving
    crashes,      \* crashes so far
    queued, owed  \* history

vars == <<jobs, execs, reconciling, up, crashes, queued, owed>>

Fresh(t) ==
    /\ \A k \in Keys : jobs[k].token # t
    /\ \A e \in execs : e.token # t

(* While the alert store runs, its drain works on one job at a time.       *)
DrainIdle == \A e \in execs : e.key \notin DrainKeys

-----------------------------------------------------------------------------
(* A table with no row for k, or one written before leases had tokens. *)
InitialRows(k) ==
    {AbsentRow} \cup
    (IF k \in LegacyKeys THEN {LegacyRow(req) : req \in Requests[k]} ELSE {})

Init ==
    /\ jobs \in {f \in [Keys -> UNION {InitialRows(k) : k \in Keys}] :
                    \A k \in Keys : f[k] \in InitialRows(k)}
    /\ execs = {}
    /\ reconciling = {}
    /\ up = FALSE
    /\ crashes = 0
    /\ queued = [k \in Keys |-> NoRequest]
    /\ owed = [k \in Keys |-> jobs[k].status # "absent"]

(* Intent is waiting in the row: pending, or latched behind a lease. *)
Waiting(r) == r.status = "pending" \/ (r.status = "processing" /\ r.rerun)

Outdated(claims, k) == {[e EXCEPT !.current = @ /\ e.key # k] : e \in claims}

QueuedAfter(k, req) ==
    IF Waiting(jobs[k]) /\ queued[k] > req.priority THEN queued[k] ELSE req.priority

(* New evidence, or an operator, asks for k. *)
Enqueue(k, req) ==
    /\ up
    /\ jobs' = [jobs EXCEPT ![k] = EnqueueRow(@, req)]
    /\ execs' = Outdated(execs, k)
    /\ queued' = [queued EXCEPT ![k] = QueuedAfter(k, req)]
    /\ owed' = [owed EXCEPT ![k] = TRUE]
    /\ UNCHANGED <<reconciling, up, crashes>>

(* The row changes of a claim; received is FALSE when the answer that      *)
(* carries the token is lost on its way to the claimant.                   *)
Claim(k, t, received) ==
    /\ up
    /\ Claimable(jobs[k])
    /\ Fresh(t)
    /\ jobs' = [jobs EXCEPT ![k] = ClaimRow(@, t)]
    /\ execs' = IF received
                THEN execs \cup {[key |-> k, token |-> t,
                                  attempts |-> jobs[k].attempts + 1,
                                  maxAttempts |-> jobs[k].maxAttempts,
                                  current |-> TRUE]}
                ELSE execs
    /\ queued' = [queued EXCEPT ![k] = NoRequest]
    /\ UNCHANGED <<reconciling, up, crashes, owed>>

(* POST /jobs/status "processing" without a token: the worker chose k.     *)
TransitionClaim(k, t, received) ==
    /\ k \in ExternalKeys
    /\ Claim(k, t, received)

(* claim(jobType): the drain takes the due job of highest priority. *)
DrainClaim(k, t) ==
    /\ k \in DrainKeys
    /\ DrainIdle
    /\ \A j \in DrainKeys : Claimable(jobs[j]) => jobs[j].priority <= jobs[k].priority
    /\ Claim(k, t, TRUE)

(* POST /jobs/status "processing" with a token. *)
Heartbeat(e) ==
    /\ up
    /\ e.key \in ExternalKeys
    /\ Owns(jobs[e.key], e.token)
    /\ jobs' = [jobs EXCEPT ![e.key] = HeartbeatRow(@)]
    /\ UNCHANGED <<execs, reconciling, up, crashes, queued, owed>>

(* The claimant learns the outcome and forgets the claim, or the answer is *)
(* lost and it may report again under the same token.                      *)
Settle(e, acknowledged) ==
    execs' = IF acknowledged THEN execs \ {e} ELSE execs

(* POST /jobs/status "completed": compare-and-set on the token. *)
TransitionCompleted(e, acknowledged) ==
    /\ up
    /\ e.key \in ExternalKeys
    /\ Settle(e, acknowledged)
    /\ IF Owns(jobs[e.key], e.token)
       THEN /\ jobs' = [jobs EXCEPT ![e.key] = CompleteRow(@)]
            /\ owed' = [owed EXCEPT ![e.key] = @ /\ ~e.current]
       ELSE UNCHANGED <<jobs, owed>>
    /\ UNCHANGED <<reconciling, up, crashes, queued>>

(* POST /jobs/status "failed". *)
TransitionFailed(e, retryable, acknowledged) ==
    /\ up
    /\ e.key \in ExternalKeys
    /\ Settle(e, acknowledged)
    /\ jobs' = IF Owns(jobs[e.key], e.token)
               THEN [jobs EXCEPT ![e.key] = ReportFailedRow(@, retryable)]
               ELSE jobs
    /\ UNCHANGED <<reconciling, up, crashes, queued, owed>>

(* complete(job), from a drain. *)
DrainComplete(e) ==
    /\ up
    /\ e.key \in DrainKeys
    /\ Settle(e, TRUE)
    /\ IF Owns(jobs[e.key], e.token)
       THEN /\ jobs' = [jobs EXCEPT ![e.key] = CompleteRow(@)]
            /\ owed' = [owed EXCEPT ![e.key] = @ /\ ~e.current]
       ELSE UNCHANGED <<jobs, owed>>
    /\ UNCHANGED <<reconciling, up, crashes, queued>>

(* Enrichment of an alert that matters asks for an analysis of its group   *)
(* in the transaction of its own completion, even if that completion is    *)
(* refused.                                                                *)
DrainCompleteAndAsk(e, k, req) ==
    /\ up
    /\ e.key \in DrainKeys
    /\ k \in ExternalKeys
    /\ jobs' = [jobs EXCEPT ![k] = EnqueueRow(@, req),
                           ![e.key] = IF Owns(@, e.token) THEN CompleteRow(@) ELSE @]
    /\ execs' = Outdated(execs \ {e}, k)
    /\ queued' = [queued EXCEPT ![k] = QueuedAfter(k, req)]
    /\ owed' = [owed EXCEPT ![k] = TRUE,
                           ![e.key] = @ /\ ~(Owns(jobs[e.key], e.token) /\ e.current)]
    /\ UNCHANGED <<reconciling, up, crashes>>

(* fail(job), from a drain: decided on the snapshot of the claim. *)
DrainFail(e) ==
    /\ up
    /\ e.key \in DrainKeys
    /\ Settle(e, TRUE)
    /\ jobs' = IF Owns(jobs[e.key], e.token)
               THEN [jobs EXCEPT ![e.key] =
                        FailRow(@, e.attempts, e.maxAttempts, TRUE)]
               ELSE jobs
    /\ UNCHANGED <<reconciling, up, crashes, queued, owed>>

(* POST /jobs/status "pending": a failed job is resubmitted. *)
TransitionPending(k) ==
    /\ up
    /\ k \in ExternalKeys
    /\ jobs[k].status = "failed"
    /\ jobs' = [jobs EXCEPT ![k] = RequeueRow(@)]
    /\ UNCHANGED <<execs, reconciling, up, crashes, queued, owed>>

(* Controlled evaluation retires one attempt that was tried and failed.    *)
(* Its evidence is given up by decision, not by accident.                  *)
RetirePendingExact(k) ==
    /\ up
    /\ k \in ExternalKeys
    /\ jobs[k].status = "pending"
    /\ jobs[k].started
    /\ ~jobs[k].rerun
    /\ jobs' = [jobs EXCEPT ![k] = ClosePendingRow(@)]
    /\ owed' = [owed EXCEPT ![k] = @ /\ queued[k] # NoRequest]
    /\ UNCHANGED <<execs, reconciling, up, crashes, queued>>

(* The lease-recovery timer. *)
RecoverExpired ==
    /\ up
    /\ \E k \in Keys : Recoverable(jobs[k])
    /\ jobs' = [k \in Keys |-> IF Recoverable(jobs[k]) THEN RecoverRow(jobs[k])
                               ELSE jobs[k]]
    /\ UNCHANGED <<execs, reconciling, up, crashes, queued, owed>>

-----------------------------------------------------------------------------
(* The scheduler closes jobs whose result is already stored.  It reads the *)
(* table over its own read-only connection and posts the keys afterwards.  *)
ReconcileRead(ks) ==
    /\ reconciling = {}
    /\ ks # {}
    /\ \A k \in ks : /\ jobs[k].status = "pending"
                     /\ jobs[k].started
                     /\ ~jobs[k].rerun
    /\ reconciling' = ks
    /\ UNCHANGED <<jobs, execs, up, crashes, queued, owed>>

(* Mutant: what was pending when it was read is closed also when it has    *)
(* been claimed since.                                                     *)
MutReconcilePost ==
    /\ up
    /\ reconciling # {}
    /\ jobs' = [k \in Keys |-> IF k \in reconciling THEN ClosePendingRow(jobs[k]) ELSE jobs[k]]
    /\ owed' = [k \in Keys |-> IF k \in reconciling
                               THEN owed[k] /\ queued[k] # NoRequest ELSE owed[k]]
    /\ reconciling' = {}
    /\ UNCHANGED <<execs, up, crashes, queued>>

(* POST /jobs/reconcile-completed. *)
ReconcilePost ==
    /\ up
    /\ reconciling # {}
    /\ jobs' = [k \in Keys |-> IF k \in reconciling /\ jobs[k].status = "pending"
                               THEN ClosePendingRow(jobs[k]) ELSE jobs[k]]
    /\ owed' = [k \in Keys |-> IF k \in reconciling /\ jobs[k].status = "pending"
                               THEN owed[k] /\ queued[k] # NoRequest ELSE owed[k]]
    /\ reconciling' = {}
    /\ UNCHANGED <<execs, up, crashes, queued>>

-----------------------------------------------------------------------------
(* Time, and the failures of processes. *)
LeaseExpires(k) ==
    /\ jobs[k].lease = "live"
    /\ jobs' = [jobs EXCEPT ![k].lease = "expired"]
    /\ UNCHANGED <<execs, reconciling, up, crashes, queued, owed>>

BecomesDue(k) ==
    /\ jobs[k].status = "pending"
    /\ ~jobs[k].due
    /\ jobs' = [jobs EXCEPT ![k].due = TRUE]
    /\ UNCHANGED <<execs, reconciling, up, crashes, queued, owed>>

(* A worker process dies, or the write of a drain's report fails, and what *)
(* was remembered of the claim is gone.                                    *)
Abandon(e) ==
    /\ execs' = execs \ {e}
    /\ UNCHANGED <<jobs, reconciling, up, crashes, queued, owed>>

(* The alert store stops; its drain dies with it. *)
Crash ==
    /\ up
    /\ crashes < MaxCrashes
    /\ up' = FALSE
    /\ crashes' = crashes + 1
    /\ execs' = {e \in execs : e.key \in ExternalKeys}
    /\ UNCHANGED <<jobs, reconciling, queued, owed>>

(* install: recovery runs before the first request is served. *)
Startup ==
    /\ ~up
    /\ up' = TRUE
    /\ jobs' = [k \in Keys |-> IF Recoverable(jobs[k]) THEN RecoverRow(jobs[k])
                               ELSE jobs[k]]
    /\ UNCHANGED <<execs, reconciling, crashes, queued, owed>>

-----------------------------------------------------------------------------
Reports(e) ==
    \/ \E acknowledged \in BOOLEAN : TransitionCompleted(e, acknowledged)
    \/ \E retryable, acknowledged \in BOOLEAN :
            TransitionFailed(e, retryable, acknowledged)
    \/ DrainComplete(e)
    \/ DrainFail(e)

QueueNext ==
    \/ \E k \in Keys : \E req \in Requests[k] : Enqueue(k, req)
    \/ \E k \in Keys, t \in Tokens :
            \/ \E received \in BOOLEAN : TransitionClaim(k, t, received)
            \/ DrainClaim(k, t)
    \/ \E e \in execs : Heartbeat(e) \/ Reports(e) \/ Abandon(e)
    \/ \E e \in execs, k \in ExternalKeys : \E req \in FollowUps[k] :
            DrainCompleteAndAsk(e, k, req)
    \/ \E k \in Keys : \/ TransitionPending(k)
                       \/ RetirePendingExact(k)
                       \/ LeaseExpires(k)
                       \/ BecomesDue(k)
    \/ RecoverExpired
    \/ Crash
    \/ Startup

ReconcileNext ==
    \/ \E ks \in SUBSET ExternalKeys : ReconcileRead(ks)
    \/ ReconcilePost

Next == QueueNext \/ ReconcileNext

(* The queue with the workers and drains that hold its leases. *)
QueueSpec == Init /\ [][QueueNext]_vars

(* The same with the scheduler's reconciliation. *)
Spec == Init /\ [][Next]_vars

(* Fairness.  The alert store restarts, its timers fire, clocks advance,   *)
(* every claimant ends (the runner's watchdog bounds an execution, and     *)
(* its last report is answered or its process is gone), and the workers    *)
(* and the drain keep polling.  Polling is strongly fair because a claim   *)
(* can be disabled for a while only by a restart, by the drain's own job,  *)
(* or by the bound on tokens, of which the program never runs out.         *)
Fairness ==
    /\ WF_vars(Startup)
    /\ WF_vars(RecoverExpired)
    /\ \A k \in Keys : WF_vars(LeaseExpires(k)) /\ WF_vars(BecomesDue(k))
    /\ \A t \in Tokens :
          WF_vars(\E e \in execs : e.token = t /\ (\/ TransitionCompleted(e, TRUE)
                                                 \/ DrainComplete(e)
                                                 \/ Abandon(e)))
    /\ \A k \in Keys :
          SF_vars(\E t \in Tokens : TransitionClaim(k, t, TRUE) \/ DrainClaim(k, t))

FairSpec == QueueSpec /\ Fairness

-----------------------------------------------------------------------------
TypeOK ==
    /\ jobs \in [Keys -> Row]
    /\ execs \subseteq Execution
    /\ reconciling \subseteq ExternalKeys
    /\ up \in BOOLEAN
    /\ crashes \in 0..MaxCrashes
    /\ queued \in [Keys -> Nat \cup {NoRequest}]
    /\ owed \in [Keys -> BOOLEAN]

(* The lease token is the whole of ownership: only a processing row has    *)
(* one, no two rows share one, and a claimant whose token is on some row   *)
(* claimed that row.  The compare-and-set of every report relies on it.    *)
LeaseIntegrity ==
    /\ \A k \in Keys : jobs[k].status # "processing" =>
                           jobs[k].token = NoToken /\ jobs[k].lease = "none"
    /\ \A j, k \in Keys : jobs[j].token = jobs[k].token /\ jobs[j].token # NoToken
                           => j = k
    /\ \A e \in execs, k \in Keys : jobs[k].token = e.token => e.key = k

(* What a claimant remembers of its claim is still true as long as its      *)
(* token is on the row: the attempt number, in a drain also the limit, and *)
(* whether evidence has arrived since.  fail of a drain decides on this    *)
(* snapshot, and a completion pays for exactly what it covers.             *)
SnapshotAgrees ==
    \A e \in execs, k \in Keys :
        jobs[k].token = e.token =>
            /\ jobs[k].attempts = e.attempts
            /\ k \in DrainKeys => jobs[k].maxAttempts = e.maxAttempts
            /\ ~jobs[k].rerun => e.current

(* A job that reads completed has been completed by an execution that      *)
(* began after the last evidence enqueued for it: nothing is owed.  This   *)
(* is what the coalesced rerun and the token compare-and-set are for.      *)
CompletedOwesNothing ==
    \A k \in Keys : jobs[k].status = "completed" => ~owed[k]

(* rerun_requested says exactly that evidence arrived behind the current   *)
(* lease; heartbeats, recoveries and stale reports never disturb it.       *)
LatchMatchesEvidence ==
    \A k \in Keys : jobs[k].status = "processing" =>
                        (jobs[k].rerun <=> queued[k] # NoRequest)

(* processing_started_at on a pending row without a latched rerun proves   *)
(* that everything requested was part of some attempt.  Reconciliation and *)
(* retirement select rows by this test.                                    *)
StartedMeansTried ==
    \A k \in Keys :
        jobs[k].status = "pending" /\ jobs[k].started /\ ~jobs[k].rerun
            => queued[k] = NoRequest

(* A pending job can be claimed once it is due: no interleaving of limits  *)
(* that differ per request with an attempt in progress strands it.         *)
PendingClaimable ==
    \A k \in Keys : jobs[k].status = "pending" => jobs[k].attempts < jobs[k].maxAttempts

(* Queued intent keeps the highest authority asked for since the last      *)
(* claim: an automatic enqueue never displaces an operator's request that  *)
(* is still waiting, not even behind a lease.                              *)
QueuedAuthority ==
    \A k \in Keys :
        Waiting(jobs[k]) => jobs[k].priority >= queued[k]

(* The documented promise for work that runs out of attempts: evidence     *)
(* that arrived during the attempt sets a rerun, it is not discarded.      *)
FailedWasTried ==
    \A k \in Keys : jobs[k].status = "failed" => queued[k] = NoRequest

-----------------------------------------------------------------------------
(* The promise of the queue: every step is a step of LeasedWork or changes *)
(* nothing a user of the queue can see.                                    *)
PhaseOf  == [k \in Keys |-> AbstractPhase(jobs[k])]
HolderOf == [k \in Keys |-> jobs[k].token]
DebtOf   == {k \in Keys : jobs[k].status = "processing" /\ jobs[k].rerun}

Work == INSTANCE LeasedWork WITH
    Items <- Keys, Holders <- Tokens, Nobody <- NoToken,
    phase <- PhaseOf, holder <- HolderOf, debt <- DebtOf

ImplementsLeasedWork == Work!Spec

(* A lease that has not expired is ended only by the claimant that holds   *)
(* it: no stale report, recovery, enqueue or restart takes it away.        *)
NoStaleSettlement ==
    [][\A k \in Keys :
          /\ jobs[k].lease = "live"
          /\ jobs[k].token # NoToken
          /\ jobs'[k].token # jobs[k].token
          => \E e \in execs : e.key = k /\ e.token = jobs[k].token]_vars

(* Whatever is requested is eventually part of an attempt, or the job has  *)
(* failed for good.                                                        *)
RequestEventuallyClaimed ==
    \A k \in Keys : queued[k] # NoRequest ~>
                       (queued[k] = NoRequest \/ jobs[k].status = "failed")

(* No job stays leased for ever: a crash of the worker, of the store, or a *)
(* lost answer to the claim ends in recovery.                              *)
LeaseEventuallyEnds ==
    \A k \in Keys, t \in Tokens : jobs[k].token = t ~> jobs[k].token # t
=============================================================================
