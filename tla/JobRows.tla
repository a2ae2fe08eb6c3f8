------------------------------ MODULE JobRows ------------------------------
(***************************************************************************)
(* One row of the SQLite table durable_jobs and what each statement of     *)
(* lib/durable_job_queue.js does to it.  A row is a record:                *)
(*   status       "absent" stands for "no row with this job_type and       *)
(*                dedupe_key", the others are the CHECK list of the table  *)
(*   priority     authority of the stored intent                           *)
(*   attempts     attempt_count;   maxAttempts  max_attempts               *)
(*   payload      payload_json, as an opaque value                         *)
(*   due          next_attempt_at <= now                                   *)
(*   lease        lease_expires_at: "none" (NULL), "live" or "expired"     *)
(*   token        lease_token, NoToken for NULL                            *)
(*   started      processing_started_at IS NOT NULL                        *)
(*   rerun        rerun_requested = 1                                      *)
(* Timestamps are kept only as the three facts a guard reads (due, lease,  *)
(* started); last_error, completed_at and the other audit columns are read *)
(* by no guard of the queue and are left out.                              *)
(***************************************************************************)
EXTENDS Integers

CONSTANTS
    Payloads,   \* the payloads a request may carry
    NoPayload,  \* what a row holds before the first request
    Tokens,     \* lease tokens (random UUIDs)
    NoToken     \* the NULL lease token

ASSUME RowAssumption == NoToken \notin Tokens /\ NoPayload \notin Payloads

Statuses == {"absent", "pending", "processing", "completed", "failed"}

(* What a caller of enqueue supplies besides the key. *)
Request == [priority : Nat, maxAttempts : Nat, payload : Payloads]

Row == [status : Statuses, priority : Nat, attempts : Nat, maxAttempts : Nat,
        payload : Payloads \cup {NoPayload}, due : BOOLEAN,
        lease : {"none", "live", "expired"}, token : Tokens \cup {NoToken},
        started : BOOLEAN, rerun : BOOLEAN]

AbsentRow == [status |-> "absent", priority |-> 0, attempts |-> 0,
              maxAttempts |-> 1, payload |-> NoPayload, due |-> FALSE,
              lease |-> "none", token |-> NoToken,
              started |-> FALSE, rerun |-> FALSE]

(* A row an older schema left behind: processing under no token, whatever  *)
(* its expiry says.                                                        *)
LegacyRow(req) ==
    [status |-> "processing", priority |-> req.priority, attempts |-> 1,
     maxAttempts |-> req.maxAttempts, payload |-> req.payload, due |-> TRUE,
     lease |-> "live", token |-> NoToken, started |-> TRUE, rerun |-> FALSE]

(* Mutant: authority is kept for a pending job only. *)
MutPreservePendingOnly(r, req) ==
    r.status = "pending" /\ r.priority > req.priority

(* Queued intent that outranks a request keeps its place: a pending job,   *)
(* or the rerun already latched behind a lease.                            *)
PreserveQueuedAuthority(r, req) ==
    /\ r.status = "pending" \/ (r.status = "processing" /\ r.rerun)
    /\ r.priority > req.priority

(* Mutant: fresh evidence resets the attempts of the attempt in progress. *)
MutEnqueueResetsAttempts(r, req) ==
    [r EXCEPT !.status = IF @ = "processing" THEN @ ELSE "pending",
              !.priority = req.priority, !.attempts = 0,
              !.maxAttempts = req.maxAttempts, !.payload = req.payload,
              !.due = TRUE, !.started = FALSE, !.rerun = r.status = "processing"]

(* INSERT ... ON CONFLICT DO UPDATE of enqueue. *)
EnqueueRow(r, req) ==
    LET busy == r.status = "processing"
        keep == PreserveQueuedAuthority(r, req)
    IN  [status      |-> IF busy THEN "processing" ELSE "pending",
         priority    |-> IF keep THEN r.priority ELSE req.priority,
         attempts    |-> IF busy \/ keep THEN r.attempts ELSE 0,
         maxAttempts |-> IF keep THEN r.maxAttempts
                         ELSE IF req.maxAttempts > 1 THEN req.maxAttempts ELSE 1,
         payload     |-> IF keep THEN r.payload ELSE req.payload,
         due         |-> IF busy \/ keep THEN r.due ELSE TRUE,
         lease       |-> r.lease,
         token       |-> r.token,
         started     |-> busy /\ r.started,
         rerun       |-> busy]

(* The WHERE clause of both claims. *)
Claimable(r) ==
    /\ r.status = "pending"
    /\ r.due
    /\ r.attempts < r.maxAttempts

ClaimRow(r, t) ==
    [r EXCEPT !.status = "processing", !.attempts = r.attempts + 1, !.lease = "live",
              !.token = t, !.started = TRUE, !.rerun = FALSE]

(* Mutant: a report is accepted from whoever once held the job. *)
MutOwnsIgnoresToken(r, t) == r.status = "processing"

(* id = ? AND status = 'processing' AND lease_token IS ? *)
Owns(r, t) == r.status = "processing" /\ r.token = t

(* Mutant: renewing a lease clears the latched rerun. *)
MutHeartbeatClearsRerun(r) == [r EXCEPT !.lease = "live", !.rerun = FALSE]

HeartbeatRow(r) == [r EXCEPT !.lease = "live"]

(* Back to the queue with a clean slate: a latched rerun, or a failed job  *)
(* an operator resubmits.                                                  *)
RequeueRow(r) ==
    [r EXCEPT !.status = "pending", !.attempts = 0, !.due = TRUE,
              !.lease = "none", !.token = NoToken,
              !.started = FALSE, !.rerun = FALSE]

(* Mutant: completion does not look at the latched rerun. *)
MutCompleteIgnoresRerun(r) ==
    [r EXCEPT !.status = "completed", !.lease = "none", !.token = NoToken,
              !.rerun = FALSE]

CompleteRow(r) ==
    IF r.rerun THEN RequeueRow(r)
    ELSE [r EXCEPT !.status = "completed", !.lease = "none", !.token = NoToken]

(* Mutants of fail: the lease token stays on the row; the latched rerun is *)
(* cleared; one attempt too many is allowed; an unknown status is written. *)
MutFailKeepsToken(r, attempts, maxAttempts, retryable) ==
    [r EXCEPT !.status = IF ~retryable \/ attempts >= maxAttempts
                         THEN "failed" ELSE "pending",
              !.due = FALSE, !.lease = "none"]
MutFailClearsRerun(r, attempts, maxAttempts, retryable) ==
    [r EXCEPT !.status = IF ~retryable \/ attempts >= maxAttempts
                         THEN "failed" ELSE "pending",
              !.due = FALSE, !.lease = "none", !.token = NoToken, !.rerun = FALSE]
MutFailOffByOne(r, attempts, maxAttempts, retryable) ==
    [r EXCEPT !.status = IF ~retryable \/ attempts > maxAttempts
                         THEN "failed" ELSE "pending",
              !.due = FALSE, !.lease = "none", !.token = NoToken]
MutFailUnknownStatus(r, attempts, maxAttempts, retryable) ==
    [r EXCEPT !.status = IF ~retryable \/ attempts >= maxAttempts
                         THEN "exhausted" ELSE "pending",
              !.due = FALSE, !.lease = "none", !.token = NoToken]

(* fail: the outcome is decided on the caller's copy of the job, the       *)
(* UPDATE then gives the lease up.  rerun_requested is not in the SET list.*)
FailRow(r, attempts, maxAttempts, retryable) ==
    [r EXCEPT !.status = IF ~retryable \/ attempts >= maxAttempts
                         THEN "failed" ELSE "pending",
              !.due = FALSE, !.lease = "none", !.token = NoToken]

(* transition(..., 'failed'): a latched rerun wins over the failure. *)
ReportFailedRow(r, retryable) ==
    IF r.rerun THEN RequeueRow(r)
    ELSE FailRow(r, r.attempts, r.maxAttempts, retryable)

(* Closing a pending row without running it: completePendingByDedupeKeys   *)
(* and retirePendingExact.                                                 *)
ClosePendingRow(r) ==
    [r EXCEPT !.status = "completed", !.lease = "none", !.token = NoToken,
              !.started = FALSE, !.rerun = FALSE]

(* Mutants of recovery: rows without a token are not selected; only rows   *)
(* without a token are.                                                    *)
MutRecoverNeedsToken(r) ==
    r.status = "processing" /\ r.token # NoToken /\ r.lease # "live"
MutRecoverTokenlessOnly(r) ==
    r.status = "processing" /\ r.token = NoToken

(* The rows recoverExpired selects. *)
Recoverable(r) ==
    /\ r.status = "processing"
    /\ r.token = NoToken \/ r.lease # "live"

RecoverRow(r) == FailRow(r, r.attempts, r.maxAttempts, TRUE)

(* What a user of the queue sees of a row: a phase of LeasedWork. *)
AbstractPhase(r) ==
    CASE r.status = "absent"     -> "idle"
      [] r.status = "pending"    -> "waiting"
      [] r.status = "processing" -> "leased"
      [] r.status = "completed"  -> "done"
      [] r.status = "failed"     -> "dead"
=============================================================================
