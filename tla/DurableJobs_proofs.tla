------------------------- MODULE DurableJobs_proofs -------------------------
(***************************************************************************)
(* Proofs about DurableJobs for every set of keys, tokens and requests.    *)
(*                                                                         *)
(* The argument is made row by row.  RowOK relates one row to the highest  *)
(* priority requested since its last claim; the row lemmas say that every  *)
(* statement of the queue keeps it, and what the statement does to the     *)
(* lease.  ClaimsOK relates rows to the claimants that hold their tokens.  *)
(* Together with the typing of the variables they are inductive.           *)
(***************************************************************************)
EXTENDS DurableJobs, TLAPS

(* One row, with the highest priority requested since its last claim. *)
RowOK(r, q) ==
    /\ r \in Row
    /\ q \in Nat \cup {NoRequest}
    /\ r.maxAttempts >= 1
    /\ r.priority >= q
    /\ r.status # "processing" => r.token = NoToken /\ r.lease = "none"
    /\ r.status = "processing" => (r.rerun <=> q # NoRequest)
    /\ r.status = "pending" => r.attempts < r.maxAttempts
    /\ r.status = "pending" /\ r.started /\ ~r.rerun => q = NoRequest

-----------------------------------------------------------------------------
(* The types of the rows that the statements write. *)
LEMMA ClaimRowType ==
    ASSUME NEW r \in Row, NEW t \in Tokens
    PROVE  ClaimRow(r, t) \in Row
<1>1. r.attempts + 1 \in Nat
  BY DEF Row
<1>2. \A n \in Nat : [r EXCEPT !.status = "processing", !.attempts = n,
                               !.lease = "live", !.token = t,
                               !.started = TRUE, !.rerun = FALSE] \in Row
  BY DEF Row, Statuses
<1>3. QED
  BY <1>1, <1>2 DEF ClaimRow

(* Enqueue writes a row of the table. *)
LEMMA EnqueueRowType ==
    ASSUME NEW r \in Row, NEW req \in Request
    PROVE  EnqueueRow(r, req) \in Row
<1>1. /\ r.priority \in Nat /\ r.attempts \in Nat /\ r.maxAttempts \in Nat
      /\ r.payload \in Payloads \cup {NoPayload} /\ r.due \in BOOLEAN
      /\ r.lease \in {"none", "live", "expired"} /\ r.token \in Tokens \cup {NoToken}
      /\ r.started \in BOOLEAN
      /\ req.priority \in Nat /\ req.maxAttempts \in Nat /\ req.payload \in Payloads
  BY DEF Row, Request
<1>2. QED
  BY <1>1 DEF EnqueueRow, Row, Statuses

(* So does fail, whatever snapshot it decides on. *)
LEMMA FailRowType ==
    ASSUME NEW r \in Row, NEW m, NEW n, NEW b \in BOOLEAN
    PROVE  FailRow(r, m, n, b) \in Row
  BY DEF FailRow, Row, Statuses

-----------------------------------------------------------------------------
(* Enqueue keeps a row consistent and leaves its lease alone. *)
LEMMA EnqueueRowOK ==
    ASSUME NEW r, NEW q, RowOK(r, q), NEW req \in Request, req.maxAttempts >= 1
    PROVE  LET s == EnqueueRow(r, req)
               p == IF Waiting(r) /\ q > req.priority THEN q ELSE req.priority
           IN  /\ RowOK(s, p)
               /\ p # NoRequest
               /\ s.token = r.token
               /\ s.lease = r.lease
               /\ s.status # "completed" /\ s.status # "absent"
               /\ r.status = "processing" =>
                     s.status = "processing" /\ s.rerun /\ s.attempts = r.attempts
               /\ s.status = "processing" => r.status = "processing"
               /\ s.maxAttempts \in {r.maxAttempts, req.maxAttempts}
               /\ r.status = "absent" => s.maxAttempts = req.maxAttempts
<1> DEFINE s == EnqueueRow(r, req)
           p == IF Waiting(r) /\ q > req.priority THEN q ELSE req.priority
           busy == r.status = "processing"
           keep == PreserveQueuedAuthority(r, req)
<1>1. /\ r \in Row /\ s \in Row
      /\ r.priority \in Nat /\ r.attempts \in Nat /\ r.maxAttempts \in Nat
      /\ req.priority \in Nat /\ req.maxAttempts \in Nat
      /\ q \in Nat \cup {-1}
  BY EnqueueRowType DEF RowOK, Row, Request, NoRequest
<1>2. /\ s.status = IF busy THEN "processing" ELSE "pending"
      /\ s.priority = IF keep THEN r.priority ELSE req.priority
      /\ s.attempts = IF busy \/ keep THEN r.attempts ELSE 0
      /\ s.maxAttempts = IF keep THEN r.maxAttempts ELSE req.maxAttempts
      /\ s.lease = r.lease /\ s.token = r.token
      /\ s.started = (busy /\ r.started)
      /\ s.rerun = busy
  BY <1>1 DEF EnqueueRow
<1>3. p \in Nat /\ s.priority >= p
  BY <1>1, <1>2 DEF RowOK, Waiting, PreserveQueuedAuthority
<1>4. s.status = "pending" => s.attempts < s.maxAttempts
  BY <1>1, <1>2 DEF RowOK, PreserveQueuedAuthority
<1>5. s.maxAttempts >= 1
  BY <1>1, <1>2 DEF RowOK
<1>6. RowOK(s, p)
  <2>1. s.status = "processing" => s.rerun
    BY <1>2
  <2>2. ~(s.status = "pending" /\ s.started)
    BY <1>2
  <2>3. s.status # "processing" => s.token = NoToken /\ s.lease = "none"
    BY <1>2 DEF RowOK
  <2>4. p # NoRequest /\ p \in Nat \cup {NoRequest}
    BY <1>3 DEF NoRequest
  <2> HIDE DEF s, p
  <2>5. QED
    BY <1>1, <1>3, <1>4, <1>5, <2>1, <2>2, <2>3, <2>4 DEF RowOK
<1>7. /\ s.status # "completed" /\ s.status # "absent"
      /\ busy => s.status = "processing" /\ s.rerun /\ s.attempts = r.attempts
      /\ s.status = "processing" => busy
      /\ s.maxAttempts \in {r.maxAttempts, req.maxAttempts}
      /\ r.status = "absent" => s.maxAttempts = req.maxAttempts
  BY <1>2 DEF PreserveQueuedAuthority
<1>8. QED
  BY <1>2, <1>3, <1>6, <1>7 DEF NoRequest

(* A claim leases a consistent row under its fresh token. *)
LEMMA ClaimRowOK ==
    ASSUME NEW r, NEW q, RowOK(r, q), Claimable(r), NEW t \in Tokens
    PROVE  LET s == ClaimRow(r, t)
           IN  /\ RowOK(s, NoRequest)
               /\ s.token = t
               /\ s.status = "processing"
               /\ s.attempts = r.attempts + 1
               /\ s.maxAttempts = r.maxAttempts
<1> DEFINE s == ClaimRow(r, t)
<1>1. r \in Row /\ s \in Row /\ r.maxAttempts >= 1 /\ r.priority \in Nat
  BY ClaimRowType DEF RowOK, Row
<1>2. /\ s.token = t /\ s.status = "processing" /\ s.attempts = r.attempts + 1
      /\ s.maxAttempts = r.maxAttempts /\ s.priority = r.priority
      /\ s.rerun = FALSE
  BY <1>1 DEF Row, ClaimRow
<1>3. QED
  BY <1>1, <1>2 DEF RowOK, NoRequest

(* What ends a lease: the row keeps its limit and gives up its token. *)
Released(r, s, q) ==
    /\ RowOK(s, q)
    /\ s.token = NoToken
    /\ r.status # "absent"
    /\ s.status # "processing"
    /\ s.status # "absent"
    /\ s.maxAttempts = r.maxAttempts

(* A requeued row waits with all its attempts. *)
LEMMA RequeueRowOK ==
    ASSUME NEW r, NEW q, RowOK(r, q), r.status # "absent"
    PROVE  Released(r, RequeueRow(r), q) /\ RequeueRow(r).status = "pending"
<1> DEFINE s == RequeueRow(r)
<1>1. r \in Row /\ s \in Row
  BY DEF RowOK, Row, RequeueRow, Statuses
<1>2. /\ s.status = "pending" /\ s.attempts = 0 /\ s.started = FALSE
      /\ s.lease = "none" /\ s.token = NoToken
      /\ s.maxAttempts = r.maxAttempts /\ s.priority = r.priority
  BY <1>1 DEF Row, RequeueRow
<1>3. s.maxAttempts \in Nat
  BY <1>1 DEF Row
<1>4. QED
  BY <1>1, <1>2, <1>3 DEF Released, RowOK

(* Completion settles a row, or requeues it when a rerun is latched. *)
LEMMA CompleteRowOK ==
    ASSUME NEW r, NEW q, RowOK(r, q), r.status # "absent"
    PROVE  /\ Released(r, CompleteRow(r), q)
           /\ CompleteRow(r).status = "completed" => ~r.rerun
<1> DEFINE s == [r EXCEPT !.status = "completed", !.lease = "none", !.token = NoToken]
<1>1. CASE r.rerun
  BY <1>1, RequeueRowOK DEF CompleteRow
<1>2. CASE ~r.rerun
  <2>1. r \in Row /\ s \in Row
    BY DEF RowOK, Row, Statuses
  <2>2. /\ s.status = "completed" /\ s.lease = "none" /\ s.token = NoToken
        /\ s.maxAttempts = r.maxAttempts /\ s.priority = r.priority
    BY <2>1 DEF Row
  <2>3. Released(r, s, q)
    BY <2>1, <2>2 DEF Released, RowOK
  <2>4. QED
    BY <1>2, <2>3 DEF CompleteRow
<1>3. QED
  BY <1>1, <1>2

(* Failure requeues a leased row while attempts are left. *)
LEMMA FailRowOK ==
    ASSUME NEW r, NEW q, RowOK(r, q), r.status = "processing", NEW b \in BOOLEAN
    PROVE  /\ Released(r, FailRow(r, r.attempts, r.maxAttempts, b), q)
           /\ FailRow(r, r.attempts, r.maxAttempts, b).status # "completed"
<1> DEFINE s == FailRow(r, r.attempts, r.maxAttempts, b)
<1>1. r \in Row /\ s \in Row
  BY FailRowType DEF RowOK
<1>2. /\ s.status = IF ~b \/ r.attempts >= r.maxAttempts THEN "failed" ELSE "pending"
      /\ s.lease = "none" /\ s.token = NoToken
      /\ s.attempts = r.attempts /\ s.maxAttempts = r.maxAttempts
      /\ s.priority = r.priority
      /\ s.rerun = r.rerun /\ s.started = r.started
  BY <1>1 DEF Row, FailRow
<1>3. r.attempts \in Nat /\ r.maxAttempts \in Nat
  BY <1>1 DEF Row
<1>4. s.status = "pending" => s.attempts < s.maxAttempts
  BY <1>2, <1>3
<1>5. s.status # "processing" /\ s.status # "absent" /\ s.status # "completed"
  BY <1>2
<1>6. s.status = "pending" /\ s.started /\ ~s.rerun => q = NoRequest
  BY <1>2 DEF RowOK
<1>7. QED
  BY <1>1, <1>2, <1>4, <1>5, <1>6 DEF Released, RowOK

(* A reported failure releases the row, by requeueing it or by failing it. *)
LEMMA ReportFailedRowOK ==
    ASSUME NEW r, NEW q, RowOK(r, q), r.status = "processing", NEW b \in BOOLEAN
    PROVE  /\ Released(r, ReportFailedRow(r, b), q)
           /\ ReportFailedRow(r, b).status # "completed"
  BY RequeueRowOK, FailRowOK DEF ReportFailedRow

(* Closing a row without running it releases it. *)
LEMMA ClosePendingRowOK ==
    ASSUME NEW r, NEW q, RowOK(r, q), r.status # "absent"
    PROVE  Released(r, ClosePendingRow(r), q)
  BY RowAssumption DEF Released, RowOK, Row, ClosePendingRow, NoRequest, Statuses

(* Renewing a lease and the passing of time change nothing RowOK reads. *)
LEMMA TimeRowOK ==
    ASSUME NEW r, NEW q, RowOK(r, q)
    PROVE  /\ r.status = "processing" => RowOK(HeartbeatRow(r), q)
           /\ r.lease = "live" => RowOK([r EXCEPT !.lease = "expired"], q)
           /\ RowOK([r EXCEPT !.due = TRUE], q)
  BY RowAssumption DEF RowOK, Row, HeartbeatRow, NoRequest, Statuses

(* Both ways a row is recovered, and the row of a reported failure.  *)
LEMMA RecoverRowOK ==
    ASSUME NEW r, NEW q, RowOK(r, q), Recoverable(r)
    PROVE  Released(r, RecoverRow(r), q) /\ RecoverRow(r).status # "completed"
  BY FailRowOK DEF Recoverable, RecoverRow

-----------------------------------------------------------------------------
(* The rows are consistent, a drained job type has one attempt limit, no   *)
(* two rows share a token, and every claimant whose token is on a row      *)
(* remembers that row as it is.                                            *)
RowsOK == \A k \in Keys : RowOK(jobs[k], queued[k])

LimitsOK ==
    \A k \in DrainKeys : jobs[k].status # "absent" =>
        \A req \in Requests[k] : jobs[k].maxAttempts = req.maxAttempts

OneHolder ==
    \A j, k \in Keys :
        jobs[j].token = jobs[k].token /\ jobs[j].token # NoToken => j = k

ClaimsOK ==
    \A e \in execs, k \in Keys :
        jobs[k].token = e.token => e.key = k

RowInv == RowsOK /\ LimitsOK /\ OneHolder /\ ClaimsOK /\ SnapshotAgrees

IInv == TypeOK /\ RowInv

(* What a step may do to a row without touching its lease. *)
Kept(r, s, q) ==
    /\ RowOK(s, q)
    /\ s.token = r.token
    /\ s.status = r.status
    /\ s.attempts = r.attempts
    /\ s.maxAttempts = r.maxAttempts
    /\ s.rerun = r.rerun

(* Steps that only keep or release rows, and grant no lease, keep RowInv.  *)
LEMMA QuietStep ==
    ASSUME IInv, UNCHANGED queued, execs' \subseteq execs,
           \A k \in Keys : \/ Kept(jobs[k], jobs'[k], queued[k])
                           \/ Released(jobs[k], jobs'[k], queued[k])
    PROVE  RowInv'
<1>1. RowsOK'
  BY DEF Kept, Released, RowsOK
<1>2. LimitsOK'
  <2>1. \A k \in Keys : jobs'[k].status # "absent" =>
            jobs[k].status # "absent" /\ jobs'[k].maxAttempts = jobs[k].maxAttempts
    BY DEF Kept, Released
  <2>2. QED
    BY <2>1 DEF LimitsOK, IInv, RowInv, Keys
<1>3. \A k \in Keys : jobs'[k].token # NoToken =>
          /\ jobs'[k].token = jobs[k].token
          /\ jobs'[k].attempts = jobs[k].attempts
          /\ jobs'[k].maxAttempts = jobs[k].maxAttempts
          /\ jobs'[k].rerun = jobs[k].rerun
  BY DEF Kept, Released
<1>4. OneHolder'
  BY <1>3 DEF OneHolder, IInv, RowInv
<1>5. \A e \in execs' : e \in execs /\ e.token # NoToken
  BY RowAssumption DEF IInv, TypeOK, Execution
<1>6. ClaimsOK'
  BY <1>3, <1>5 DEF ClaimsOK, IInv, RowInv
<1>7. SnapshotAgrees'
  BY <1>3, <1>5 DEF SnapshotAgrees, IInv, RowInv
<1>8. QED
  BY <1>1, <1>2, <1>4, <1>6, <1>7 DEF RowInv

(* The same for a step that changes the row of one job. *)
LEMMA QuietRow ==
    ASSUME IInv, UNCHANGED queued, execs' \subseteq execs,
           NEW k \in Keys, NEW s, jobs' = [jobs EXCEPT ![k] = s],
           Kept(jobs[k], s, queued[k]) \/ Released(jobs[k], s, queued[k])
    PROVE  RowInv' /\ jobs' \in [Keys -> Row]
<1>1. jobs \in [Keys -> Row] /\ s \in Row
  BY DEF IInv, TypeOK, Kept, Released, RowOK
<1>2. \A j \in Keys : RowOK(jobs[j], queued[j])
  BY DEF IInv, RowInv, RowsOK
<1>3. \A j \in Keys : Kept(jobs[j], jobs[j], queued[j])
  BY <1>2 DEF Kept
<1>4. \A j \in Keys : \/ Kept(jobs[j], jobs'[j], queued[j])
                       \/ Released(jobs[j], jobs'[j], queued[j])
  BY <1>1, <1>3
<1>5. QED
  BY <1>1, <1>4, QuietStep

(* Asking for k, alone or together with steps that keep or release other   *)
(* rows, keeps RowInv: the holder's snapshot stops being current exactly   *)
(* when the rerun is latched.                                              *)
LEMMA AskInv ==
    ASSUME IInv, NEW k \in Keys, NEW req \in Requests[k],
           NEW claims \in SUBSET execs, execs' = Outdated(claims, k),
           jobs' \in [Keys -> Row], jobs'[k] = EnqueueRow(jobs[k], req),
           queued' = [queued EXCEPT ![k] = QueuedAfter(k, req)],
           \A j \in Keys : j # k => \/ Kept(jobs[j], jobs'[j], queued[j])
                                   \/ Released(jobs[j], jobs'[j], queued[j])
    PROVE  /\ RowInv'
           /\ queued' \in [Keys -> Nat \cup {NoRequest}]
           /\ execs' \subseteq Execution
<1> DEFINE s == EnqueueRow(jobs[k], req)
           p == QueuedAfter(k, req)
<1>1. /\ jobs \in [Keys -> Row] /\ queued \in [Keys -> Nat \cup {NoRequest}]
      /\ claims \subseteq Execution
      /\ RowOK(jobs[k], queued[k])
  BY DEF IInv, TypeOK, RowInv, RowsOK
<1>2. req \in Request /\ req.maxAttempts >= 1
  BY DurableJobsAssumption
<1>3. /\ RowOK(s, p)
      /\ p # NoRequest
      /\ s.token = jobs[k].token
      /\ jobs[k].status = "processing" => s.rerun /\ s.attempts = jobs[k].attempts
      /\ s.maxAttempts \in {jobs[k].maxAttempts, req.maxAttempts}
      /\ jobs[k].status = "absent" => s.maxAttempts = req.maxAttempts
  BY <1>1, <1>2, EnqueueRowOK DEF QueuedAfter
<1>4. jobs'[k] = s /\ queued' = [queued EXCEPT ![k] = p]
  OBVIOUS
<1> HIDE DEF s, p
<1>5. /\ jobs'[k] = s /\ queued'[k] = p
      /\ \A j \in Keys : j # k => queued'[j] = queued[j]
  BY <1>1, <1>4
<1>6. RowsOK'
  BY <1>3, <1>5 DEF RowsOK, Kept, Released
<1>7. \A j \in Keys : jobs'[j].token # NoToken =>
          /\ jobs'[j].token = jobs[j].token
          /\ j # k => /\ jobs'[j].attempts = jobs[j].attempts
                      /\ jobs'[j].maxAttempts = jobs[j].maxAttempts
                      /\ jobs'[j].rerun = jobs[j].rerun
  BY <1>3, <1>5 DEF Kept, Released
<1>8. LimitsOK'
  <2> SUFFICES ASSUME NEW j \in DrainKeys, jobs'[j].status # "absent",
                      NEW r \in Requests[j]
               PROVE  jobs'[j].maxAttempts = r.maxAttempts
    BY DEF LimitsOK
  <2>1. CASE j # k
    <3>1. jobs[j].status # "absent" /\ jobs'[j].maxAttempts = jobs[j].maxAttempts
      BY <2>1 DEF Kept, Released, Keys
    <3>2. QED
      BY <3>1 DEF LimitsOK, IInv, RowInv, Keys
  <2>2. CASE j = k
    <3>1. req.maxAttempts = r.maxAttempts
      BY <2>2, DurableJobsAssumption
    <3>2. jobs[k].status # "absent" => jobs[k].maxAttempts = r.maxAttempts
      BY <2>2 DEF LimitsOK, IInv, RowInv
    <3>3. QED
      BY <2>2, <1>3, <1>5, <3>1, <3>2
  <2>3. QED
    BY <2>1, <2>2
<1>9. OneHolder'
  BY <1>7 DEF OneHolder, IInv, RowInv
<1>10. \A f \in execs' : \E e \in claims :
          /\ e \in Execution /\ f \in Execution
          /\ f.key = e.key /\ f.token = e.token /\ f.attempts = e.attempts
          /\ f.maxAttempts = e.maxAttempts
          /\ e.key # k => f.current = e.current
  BY <1>1 DEF Execution, Outdated
<1>11. ClaimsOK'
  <2> SUFFICES ASSUME NEW f \in execs', NEW j \in Keys, jobs'[j].token = f.token
               PROVE  f.key = j
    BY DEF ClaimsOK
  <2>1. PICK e \in claims : e \in Execution /\ f.key = e.key /\ f.token = e.token
    BY <1>10
  <2>2. jobs[j].token = e.token
    BY <1>7, <2>1, RowAssumption DEF Execution
  <2>3. QED
    BY <2>1, <2>2 DEF ClaimsOK, IInv, RowInv
<1>12. SnapshotAgrees'
  <2> SUFFICES ASSUME NEW f \in execs', NEW j \in Keys, jobs'[j].token = f.token
               PROVE  /\ jobs'[j].attempts = f.attempts
                      /\ j \in DrainKeys => jobs'[j].maxAttempts = f.maxAttempts
                      /\ ~jobs'[j].rerun => f.current
    BY DEF SnapshotAgrees
  <2>1. PICK e \in claims :
          /\ e \in Execution
          /\ f.key = e.key /\ f.token = e.token /\ f.attempts = e.attempts
          /\ f.maxAttempts = e.maxAttempts
          /\ e.key # k => f.current = e.current
    BY <1>10
  <2>2. jobs'[j].token # NoToken /\ jobs[j].token = e.token /\ e.token # NoToken
    BY <1>7, <2>1, RowAssumption DEF Execution
  <2>3. /\ e.key = j
        /\ jobs[j].attempts = e.attempts
        /\ j \in DrainKeys => jobs[j].maxAttempts = e.maxAttempts
        /\ ~jobs[j].rerun => e.current
    BY <2>2 DEF ClaimsOK, SnapshotAgrees, IInv, RowInv
  <2>4. CASE j # k
    BY <2>1, <2>2, <2>3, <2>4, <1>7
  <2>5. CASE j = k
    <3>1. jobs[k].status = "processing"
      BY <2>2, <2>5, <1>1 DEF RowOK
    <3>2. j \in DrainKeys => jobs'[j].maxAttempts = jobs[j].maxAttempts
      BY <1>3, <1>5, <2>5, <3>1 DEF LimitsOK, IInv, RowInv
    <3>3. QED
      BY <1>3, <1>5, <2>1, <2>3, <2>5, <3>1, <3>2
  <2>6. QED
    BY <2>4, <2>5
<1>13. queued' \in [Keys -> Nat \cup {NoRequest}] /\ execs' \subseteq Execution
  BY <1>1, <1>3, <1>4, <1>10 DEF RowOK
<1>14. QED
  BY <1>6, <1>8, <1>9, <1>11, <1>12, <1>13 DEF RowInv

(* An enqueue, from any caller, keeps the invariant. *)
LEMMA EnqueueInv ==
    ASSUME IInv, NEW k \in Keys, NEW req \in Requests[k], Enqueue(k, req)
    PROVE  RowInv' /\ TypeOK'
<1>1. /\ jobs' = [jobs EXCEPT ![k] = EnqueueRow(jobs[k], req)]
      /\ execs' = Outdated(execs, k)
      /\ queued' = [queued EXCEPT ![k] = QueuedAfter(k, req)]
      /\ owed' = [owed EXCEPT ![k] = TRUE]
      /\ UNCHANGED <<reconciling, up, crashes>>
  BY DEF Enqueue
<1>2. jobs \in [Keys -> Row] /\ owed \in [Keys -> BOOLEAN]
  BY DEF IInv, TypeOK
<1>3. EnqueueRow(jobs[k], req) \in Row
  BY <1>2, EnqueueRowType, DurableJobsAssumption
<1>4. jobs' \in [Keys -> Row] /\ jobs'[k] = EnqueueRow(jobs[k], req)
  BY <1>1, <1>2, <1>3
<1>5. \A j \in Keys : j # k => Kept(jobs[j], jobs'[j], queued[j])
  BY <1>1, <1>2 DEF Kept, IInv, RowInv, RowsOK
<1>6. /\ RowInv'
      /\ queued' \in [Keys -> Nat \cup {NoRequest}]
      /\ execs' \subseteq Execution
  BY <1>1, <1>4, <1>5, AskInv
<1>7. QED
  BY <1>1, <1>2, <1>4, <1>6 DEF IInv, TypeOK

(* An enrichment that asks for an analysis changes two different rows. *)
LEMMA DrainCompleteAndAskInv ==
    ASSUME IInv, NEW e \in execs, NEW k \in ExternalKeys, NEW req \in FollowUps[k],
           DrainCompleteAndAsk(e, k, req)
    PROVE  RowInv' /\ TypeOK'
<1> DEFINE d == e.key
           s == IF Owns(jobs[d], e.token) THEN CompleteRow(jobs[d]) ELSE jobs[d]
<1>1. /\ jobs \in [Keys -> Row] /\ owed \in [Keys -> BOOLEAN]
      /\ \A j \in Keys : RowOK(jobs[j], queued[j])
      /\ \A j \in Keys : Kept(jobs[j], jobs[j], queued[j])
  BY DEF IInv, TypeOK, RowInv, RowsOK, Kept
<1>2. k \in Keys /\ d \in Keys /\ k # d /\ req \in Requests[k]
  BY DurableJobsAssumption DEF DrainCompleteAndAsk, Keys
<1>3. /\ jobs' = [jobs EXCEPT ![k] = EnqueueRow(jobs[k], req), ![d] = s]
      /\ execs' = Outdated(execs \ {e}, k)
      /\ queued' = [queued EXCEPT ![k] = QueuedAfter(k, req)]
      /\ owed' \in [Keys -> BOOLEAN]
      /\ UNCHANGED <<reconciling, up, crashes>>
  BY <1>1, <1>2 DEF DrainCompleteAndAsk
<1>4. Kept(jobs[d], s, queued[d]) \/ Released(jobs[d], s, queued[d])
  BY <1>1, <1>2, CompleteRowOK DEF Owns
<1>5. s \in Row /\ EnqueueRow(jobs[k], req) \in Row
  BY <1>1, <1>2, <1>4, EnqueueRowType, DurableJobsAssumption DEF Kept, Released, RowOK
<1> HIDE DEF s
<1>6. jobs' \in [Keys -> Row] /\ jobs'[k] = EnqueueRow(jobs[k], req)
  BY <1>1, <1>2, <1>3, <1>5
<1>7. \A j \in Keys : j # k => \/ Kept(jobs[j], jobs'[j], queued[j])
                              \/ Released(jobs[j], jobs'[j], queued[j])
  BY <1>1, <1>2, <1>3, <1>4
<1>8. /\ RowInv'
      /\ queued' \in [Keys -> Nat \cup {NoRequest}]
      /\ execs' \subseteq Execution
  <2>1. execs \ {e} \in SUBSET execs
    OBVIOUS
  <2> HIDE DEF d
  <2>2. QED
    BY <1>2, <1>3, <1>6, <1>7, <2>1, AskInv
<1>9. QED
  BY <1>3, <1>6, <1>8 DEF IInv, TypeOK

(* Claim keeps RowInv: the token is fresh, so only the new execution holds *)
(* it, and its snapshot is the claimed row.                                *)
LEMMA ClaimInv ==
    ASSUME IInv, NEW k \in Keys, NEW t \in Tokens, NEW received \in BOOLEAN,
           Claim(k, t, received)
    PROVE  RowInv' /\ TypeOK'
<1> DEFINE s == ClaimRow(jobs[k], t)
           e0 == [key |-> k, token |-> t, attempts |-> jobs[k].attempts + 1,
                  maxAttempts |-> jobs[k].maxAttempts, current |-> TRUE]
<1>1. /\ jobs \in [Keys -> Row] /\ queued \in [Keys -> Nat \cup {NoRequest}]
      /\ execs \subseteq Execution
      /\ RowOK(jobs[k], queued[k]) /\ Claimable(jobs[k])
  BY DEF IInv, TypeOK, RowInv, RowsOK, Claim
<1>2. /\ RowOK(s, NoRequest)
      /\ s.token = t
      /\ s.attempts = jobs[k].attempts + 1
      /\ s.maxAttempts = jobs[k].maxAttempts
  BY <1>1, ClaimRowOK
<1>3. e0 \in Execution /\ e0.key = k /\ e0.token = t /\ e0.current = TRUE
      /\ e0.attempts = jobs[k].attempts + 1 /\ e0.maxAttempts = jobs[k].maxAttempts
  <2>1. jobs[k].attempts + 1 \in Nat /\ jobs[k].maxAttempts \in Nat
    BY <1>1 DEF Row
  <2>2. QED
    BY <2>1 DEF Execution
<1> HIDE DEF s, e0
<1>4. /\ jobs' = [jobs EXCEPT ![k] = s]
      /\ queued' = [queued EXCEPT ![k] = NoRequest]
      /\ execs' \subseteq execs \cup {e0}
      /\ UNCHANGED <<reconciling, up, crashes, owed>>
      /\ Fresh(t)
  BY DEF Claim, s, e0
<1>5. /\ jobs'[k] = s /\ queued'[k] = NoRequest
      /\ \A j \in Keys : j # k => jobs'[j] = jobs[j] /\ queued'[j] = queued[j]
  BY <1>1, <1>4
<1>6. RowsOK'
  BY <1>2, <1>5 DEF RowsOK, IInv, RowInv
<1>7. LimitsOK'
  <2>1. jobs[k].status # "absent"
    BY <1>1 DEF Claimable
  <2>2. \A j \in Keys : jobs'[j].status # "absent" =>
            jobs[j].status # "absent" /\ jobs'[j].maxAttempts = jobs[j].maxAttempts
    BY <2>1, <1>2, <1>5
  <2>3. QED
    BY <2>2 DEF LimitsOK, IInv, RowInv, Keys
<1>8. \A j \in Keys : j # k => jobs'[j].token # t
  BY <1>4, <1>5 DEF Fresh
<1>9. OneHolder'
  BY <1>2, <1>5, <1>8 DEF OneHolder, IInv, RowInv
<1>10. \A e \in execs : e.token # t
  BY <1>4 DEF Fresh
<1>11. ClaimsOK'
  BY <1>2, <1>3, <1>4, <1>5, <1>8, <1>10 DEF ClaimsOK, IInv, RowInv
<1>12. SnapshotAgrees'
  <2> SUFFICES ASSUME NEW e \in execs', NEW j \in Keys, jobs'[j].token = e.token
               PROVE  /\ jobs'[j].attempts = e.attempts
                      /\ j \in DrainKeys => jobs'[j].maxAttempts = e.maxAttempts
                      /\ ~jobs'[j].rerun => e.current
    BY DEF SnapshotAgrees
  <2>1. CASE e = e0
    BY <2>1, <1>2, <1>3, <1>5, <1>8
  <2>2. CASE e \in execs
    <3>1. j # k /\ jobs'[j] = jobs[j]
      BY <2>2, <1>2, <1>5, <1>10
    <3>2. QED
      BY <2>2, <3>1 DEF SnapshotAgrees, IInv, RowInv
  <2>3. QED
    BY <1>4, <2>1, <2>2
<1>13. TypeOK'
  <2>1. jobs' \in [Keys -> Row] /\ queued' \in [Keys -> Nat \cup {NoRequest}]
    BY <1>1, <1>2, <1>4 DEF RowOK
  <2>2. execs' \subseteq Execution
    BY <1>1, <1>3, <1>4
  <2>3. QED
    BY <1>4, <2>1, <2>2 DEF TypeOK, IInv
<1>14. QED
  BY <1>6, <1>7, <1>9, <1>11, <1>12, <1>13 DEF RowInv

-----------------------------------------------------------------------------
(* The initial table satisfies the invariant. *)
LEMMA InitIInv == Init => IInv
<1> SUFFICES ASSUME Init PROVE IInv
  OBVIOUS
<1>1. /\ jobs \in [Keys -> UNION {InitialRows(k) : k \in Keys}]
      /\ \A k \in Keys : jobs[k] \in InitialRows(k)
      /\ execs = {}
      /\ queued = [k \in Keys |-> NoRequest]
  BY DEF Init
<1>2. ASSUME NEW k \in Keys
      PROVE  /\ RowOK(jobs[k], NoRequest)
             /\ jobs[k].token = NoToken
             /\ jobs[k].status # "completed"
             /\ jobs[k].status # "absent" =>
                   \E req \in Requests[k] : jobs[k].maxAttempts = req.maxAttempts
  <2>1. CASE jobs[k] = AbsentRow
    BY <2>1 DEF AbsentRow, RowOK, Row, Statuses, NoRequest
  <2>2. CASE \E req \in Requests[k] : jobs[k] = LegacyRow(req)
    <3>1. PICK req \in Requests[k] : jobs[k] = LegacyRow(req)
      BY <2>2
    <3>2. /\ req.priority \in Nat /\ req.maxAttempts \in Nat /\ req.payload \in Payloads
          /\ req.maxAttempts >= 1
      BY DurableJobsAssumption DEF Request
    <3>3. jobs[k] \in Row
      BY <3>1, <3>2 DEF LegacyRow, Row, Statuses
    <3>4. /\ jobs[k].status = "processing" /\ jobs[k].priority = req.priority
          /\ jobs[k].maxAttempts = req.maxAttempts /\ jobs[k].token = NoToken
          /\ ~jobs[k].rerun
      BY <3>1 DEF LegacyRow
    <3>5. RowOK(jobs[k], NoRequest)
      BY <3>2, <3>3, <3>4 DEF RowOK, NoRequest
    <3>6. QED
      BY <3>4, <3>5
  <2>3. QED
    BY <1>1, <2>1, <2>2 DEF InitialRows
<1>3. \A k \in Keys : RowOK(jobs[k], NoRequest) /\ jobs[k].token = NoToken
  BY <1>2
<1>4. RowsOK
  BY <1>1, <1>3 DEF RowsOK
<1>5. LimitsOK
  BY <1>2, DurableJobsAssumption DEF LimitsOK, Keys
<1>6. OneHolder /\ ClaimsOK /\ SnapshotAgrees
  BY <1>1, <1>3 DEF OneHolder, ClaimsOK, SnapshotAgrees
<1>7. TypeOK
  <2>1. jobs \in [Keys -> Row]
    BY <1>1, <1>3 DEF RowOK
  <2>2. queued \in [Keys -> Nat \cup {NoRequest}] /\ owed \in [Keys -> BOOLEAN]
    BY <1>1 DEF Init
  <2>3. execs \subseteq Execution /\ reconciling \subseteq ExternalKeys
    BY <1>1 DEF Init
  <2>4. up = FALSE /\ crashes = 0
    BY DEF Init
  <2>5. 0 \in 0..MaxCrashes
    BY DurableJobsAssumption
  <2>6. QED
    BY <2>1, <2>2, <2>3, <2>4, <2>5 DEF TypeOK
<1>8. QED
  BY <1>4, <1>5, <1>6, <1>7 DEF IInv, RowInv

-----------------------------------------------------------------------------
(* Facts about the state before a step, for the rows of all keys. *)
LEMMA RowFacts ==
    ASSUME IInv
    PROVE  /\ jobs \in [Keys -> Row]
           /\ \A k \in Keys : RowOK(jobs[k], queued[k])
           /\ \A k \in Keys : Kept(jobs[k], jobs[k], queued[k])
           /\ execs \subseteq Execution
           /\ \A e \in execs : e.key \in Keys /\ e.token \in Tokens
           /\ ExternalKeys \subseteq Keys /\ DrainKeys \subseteq Keys
  BY DEF IInv, TypeOK, RowInv, RowsOK, Kept, Execution, Keys

(* A report by the owner releases its row; any other report is ignored. *)
LEMMA ReportRow ==
    ASSUME IInv, NEW e \in execs, Reports(e)
    PROVE  /\ RowInv' /\ jobs' \in [Keys -> Row]
           /\ UNCHANGED <<queued, reconciling, up, crashes>>
           /\ execs' \subseteq execs
           /\ owed' \in [Keys -> BOOLEAN]
<1> DEFINE k == e.key
           r == jobs[k]
<1>1. k \in Keys /\ RowOK(r, queued[k]) /\ Kept(r, r, queued[k])
  BY RowFacts
<1>2. UNCHANGED <<queued, reconciling, up, crashes>> /\ execs' \subseteq execs
  BY DEF Reports, TransitionCompleted, TransitionFailed, DrainComplete, DrainFail, Settle
<1>3. owed' \in [Keys -> BOOLEAN]
  <2>1. owed \in [Keys -> BOOLEAN] /\ e.current \in BOOLEAN
    BY DEF IInv, TypeOK, Execution
  <2>2. owed' = owed \/ owed' = [owed EXCEPT ![k] = @ /\ ~e.current]
    BY DEF Reports, TransitionCompleted, TransitionFailed, DrainComplete, DrainFail
  <2>3. QED
    BY <2>1, <2>2
<1>4. CASE ~Owns(r, e.token)
  <2>1. jobs' = jobs
    BY <1>4 DEF Reports, TransitionCompleted, TransitionFailed, DrainComplete, DrainFail
  <2>2. jobs' = [jobs EXCEPT ![k] = r]
    BY <2>1, RowFacts
  <2>3. QED
    BY <1>1, <1>2, <1>3, <2>2, QuietRow
<1>5. CASE Owns(r, e.token)
  <2>1. r.status = "processing" /\ r.token = e.token
    BY <1>5 DEF Owns
  <2>2. ASSUME NEW s, Released(r, s, queued[k]), jobs' = [jobs EXCEPT ![k] = s]
        PROVE  RowInv' /\ jobs' \in [Keys -> Row]
    BY <1>1, <1>2, <2>2, QuietRow
  <2>3. CASE jobs' = [jobs EXCEPT ![k] = CompleteRow(@)]
    <3>1. Released(r, CompleteRow(r), queued[k])
      BY <1>1, <2>1, CompleteRowOK
    <3>2. jobs' = [jobs EXCEPT ![k] = CompleteRow(r)]
      BY <2>3
    <3>3. QED
      BY <1>2, <1>3, <2>2, <3>1, <3>2
  <2>4. CASE \E b \in BOOLEAN : jobs' = [jobs EXCEPT ![k] = ReportFailedRow(@, b)]
    <3>1. PICK b \in BOOLEAN : jobs' = [jobs EXCEPT ![k] = ReportFailedRow(r, b)]
      BY <2>4
    <3>2. Released(r, ReportFailedRow(r, b), queued[k])
      BY <1>1, <2>1, ReportFailedRowOK
    <3>3. QED
      BY <1>2, <1>3, <2>2, <3>1, <3>2
  <2>5. CASE k \in DrainKeys
             /\ jobs' = [jobs EXCEPT ![k] = FailRow(@, e.attempts, e.maxAttempts, TRUE)]
    <3>1. e.attempts = r.attempts /\ e.maxAttempts = r.maxAttempts
      BY <1>1, <2>1, <2>5 DEF IInv, RowInv, SnapshotAgrees
    <3>2. Released(r, FailRow(r, r.attempts, r.maxAttempts, TRUE), queued[k])
      BY <1>1, <2>1, FailRowOK
    <3>3. jobs' = [jobs EXCEPT ![k] = FailRow(r, r.attempts, r.maxAttempts, TRUE)]
      BY <2>5, <3>1
    <3>4. QED
      BY <1>2, <1>3, <2>2, <3>2, <3>3
  <2>6. QED
    BY <1>5, <2>3, <2>4, <2>5
    DEF Reports, TransitionCompleted, TransitionFailed, DrainComplete, DrainFail
<1>6. QED
  BY <1>4, <1>5

(* Recovery, at a restart or by the timer, releases the rows it selects. *)
LEMMA RecoverRows ==
    ASSUME IInv, UNCHANGED queued, execs' \subseteq execs,
           jobs' = [k \in Keys |-> IF Recoverable(jobs[k]) THEN RecoverRow(jobs[k])
                                  ELSE jobs[k]]
    PROVE  RowInv' /\ jobs' \in [Keys -> Row]
<1>1. \A k \in Keys : /\ Recoverable(jobs[k]) =>
                              Released(jobs[k], RecoverRow(jobs[k]), queued[k])
                      /\ Kept(jobs[k], jobs[k], queued[k])
  BY RowFacts, RecoverRowOK
<1>2. \A k \in Keys : \/ Kept(jobs[k], jobs'[k], queued[k])
                      \/ Released(jobs[k], jobs'[k], queued[k])
  BY <1>1
<1>3. \A k \in Keys : jobs'[k] \in Row
  BY <1>2 DEF Kept, Released, RowOK
<1>4. QED
  BY <1>2, <1>3, QuietStep

(* Posting a reconciliation releases the pending rows it names. *)
LEMMA PostRows ==
    ASSUME IInv, ReconcilePost
    PROVE  RowInv' /\ jobs' \in [Keys -> Row]
<1>1. \A k \in Keys : /\ jobs[k].status = "pending" =>
                              Released(jobs[k], ClosePendingRow(jobs[k]), queued[k])
                      /\ Kept(jobs[k], jobs[k], queued[k])
  BY RowFacts, ClosePendingRowOK
<1>2. /\ UNCHANGED queued
      /\ execs' \subseteq execs
      /\ jobs' = [k \in Keys |-> IF k \in reconciling /\ jobs[k].status = "pending"
                                THEN ClosePendingRow(jobs[k]) ELSE jobs[k]]
  BY DEF ReconcilePost
<1>3. \A k \in Keys : \/ Kept(jobs[k], jobs'[k], queued[k])
                      \/ Released(jobs[k], jobs'[k], queued[k])
  BY <1>1, <1>2
<1>4. \A k \in Keys : jobs'[k] \in Row
  BY <1>3 DEF Kept, Released, RowOK
<1>5. QED
  BY <1>2, <1>3, <1>4, QuietStep

-----------------------------------------------------------------------------
(* Every step, of the queue or of reconciliation, keeps the invariant. *)
LEMMA NextIInv == IInv /\ [Next]_vars => IInv'
<1> SUFFICES ASSUME IInv, [Next]_vars PROVE IInv'
  OBVIOUS
<1> USE DEF IInv
<1>1. /\ jobs \in [Keys -> Row]
      /\ execs \subseteq Execution
      /\ reconciling \subseteq ExternalKeys
      /\ up \in BOOLEAN
      /\ crashes \in 0..MaxCrashes
      /\ queued \in [Keys -> Nat \cup {NoRequest}]
      /\ owed \in [Keys -> BOOLEAN]
  BY DEF TypeOK
<1>2. ASSUME RowInv', jobs' \in [Keys -> Row], execs' \subseteq execs,
             UNCHANGED <<reconciling, up, crashes, queued>>,
             owed' \in [Keys -> BOOLEAN]
      PROVE  IInv'
  BY <1>1, <1>2 DEF TypeOK
<1>3. ASSUME NEW k \in Keys, NEW req \in Requests[k], Enqueue(k, req)
      PROVE  IInv'
  BY <1>3, EnqueueInv
<1>4. ASSUME NEW k \in Keys, NEW t \in Tokens, NEW received \in BOOLEAN,
             TransitionClaim(k, t, received) \/ DrainClaim(k, t)
      PROVE  IInv'
  BY <1>4, ClaimInv DEF TransitionClaim, DrainClaim
<1>5. ASSUME NEW e \in execs, Heartbeat(e)
      PROVE  IInv'
  <2>1. e.key \in Keys /\ RowOK(jobs[e.key], queued[e.key])
    BY RowFacts
  <2>2. Kept(jobs[e.key], HeartbeatRow(jobs[e.key]), queued[e.key])
    <3>1. RowOK(HeartbeatRow(jobs[e.key]), queued[e.key])
      BY <1>5, <2>1, TimeRowOK DEF Heartbeat, Owns
    <3>2. jobs[e.key] \in Row
      BY <2>1 DEF RowOK
    <3>3. QED
      BY <3>1, <3>2 DEF Kept, HeartbeatRow, Row
  <2>3. /\ jobs' = [jobs EXCEPT ![e.key] = HeartbeatRow(jobs[e.key])]
        /\ UNCHANGED <<execs, reconciling, up, crashes, queued, owed>>
    BY <1>5 DEF Heartbeat
  <2>4. QED
    BY <1>1, <1>2, <2>1, <2>2, <2>3, QuietRow
<1>6. ASSUME NEW e \in execs, Reports(e)
      PROVE  IInv'
  BY <1>2, <1>6, ReportRow
<1>7. ASSUME NEW e \in execs, Abandon(e)
      PROVE  IInv'
  <2>1. /\ jobs' = jobs /\ execs' \subseteq execs
        /\ UNCHANGED <<reconciling, up, crashes, queued, owed>>
    BY <1>7 DEF Abandon
  <2>2. QED
    BY <1>1, <1>2, <2>1, QuietStep, RowFacts
<1>8. ASSUME NEW k \in Keys, TransitionPending(k)
      PROVE  IInv'
  <2>1. /\ jobs' = [jobs EXCEPT ![k] = RequeueRow(jobs[k])]
        /\ jobs[k].status # "absent"
        /\ UNCHANGED <<execs, reconciling, up, crashes, queued, owed>>
    BY <1>8 DEF TransitionPending
  <2>2. Released(jobs[k], RequeueRow(jobs[k]), queued[k])
    BY <2>1, RowFacts, RequeueRowOK
  <2>3. QED
    BY <1>1, <1>2, <2>1, <2>2, QuietRow
<1>9. ASSUME NEW k \in Keys, RetirePendingExact(k)
      PROVE  IInv'
  <2>1. /\ jobs' = [jobs EXCEPT ![k] = ClosePendingRow(jobs[k])]
        /\ jobs[k].status # "absent"
        /\ owed' = [owed EXCEPT ![k] = @ /\ queued[k] # NoRequest]
        /\ UNCHANGED <<execs, reconciling, up, crashes, queued>>
    BY <1>9 DEF RetirePendingExact
  <2>2. Released(jobs[k], ClosePendingRow(jobs[k]), queued[k])
    BY <2>1, RowFacts, ClosePendingRowOK
  <2>3. owed' \in [Keys -> BOOLEAN]
    BY <1>1, <2>1
  <2>4. QED
    BY <1>2, <2>1, <2>2, <2>3, QuietRow
<1>10. ASSUME NEW k \in Keys, LeaseExpires(k) \/ BecomesDue(k)
       PROVE  IInv'
  <2> DEFINE r == jobs[k]
             s == IF r.lease = "live" /\ LeaseExpires(k)
                  THEN [r EXCEPT !.lease = "expired"] ELSE [r EXCEPT !.due = TRUE]
  <2>1. r \in Row /\ RowOK(r, queued[k])
    BY RowFacts
  <2>2. /\ jobs' = [jobs EXCEPT ![k] = s]
        /\ UNCHANGED <<execs, reconciling, up, crashes, queued, owed>>
    BY <1>10 DEF LeaseExpires, BecomesDue
  <2>3. RowOK(s, queued[k])
    BY <2>1, TimeRowOK
  <2>4. /\ s.token = r.token /\ s.status = r.status /\ s.attempts = r.attempts
        /\ s.maxAttempts = r.maxAttempts /\ s.rerun = r.rerun
    BY <2>1 DEF Row
  <2>5. Kept(r, s, queued[k])
    BY <2>3, <2>4 DEF Kept
  <2>6. QED
    BY <1>1, <1>2, <2>2, <2>5, QuietRow
<1>11. CASE RecoverExpired
  <2>1. execs' \subseteq execs /\ UNCHANGED <<reconciling, up, crashes, queued, owed>>
    BY <1>11 DEF RecoverExpired
  <2>2. QED
    BY <1>1, <1>2, <1>11, <2>1, RecoverRows DEF RecoverExpired
<1>12. CASE Startup
  <2>1. /\ execs' \subseteq execs /\ UNCHANGED <<reconciling, crashes, queued, owed>>
        /\ up' \in BOOLEAN
    BY <1>12 DEF Startup
  <2>2. RowInv' /\ jobs' \in [Keys -> Row]
    BY <1>12, <2>1, RecoverRows DEF Startup
  <2>3. QED
    BY <1>1, <2>1, <2>2 DEF TypeOK
<1>13. CASE Crash
  <2>1. /\ jobs' = jobs /\ execs' \subseteq execs
        /\ UNCHANGED <<reconciling, queued, owed>>
    BY <1>13 DEF Crash
  <2>2. up' \in BOOLEAN
    BY <1>13 DEF Crash
  <2>3. crashes' \in 0..MaxCrashes
    BY <1>1, <1>13, DurableJobsAssumption DEF Crash
  <2>4. RowInv'
    BY <2>1, QuietStep, RowFacts
  <2>5. QED
    BY <1>1, <2>1, <2>2, <2>3, <2>4 DEF TypeOK
<1>14. ASSUME NEW ks \in SUBSET ExternalKeys, ReconcileRead(ks)
       PROVE  IInv'
  <2>1. /\ jobs' = jobs /\ execs' \subseteq execs
        /\ reconciling' \subseteq ExternalKeys
        /\ UNCHANGED <<up, crashes, queued, owed>>
    BY <1>14 DEF ReconcileRead
  <2>2. RowInv'
    BY <2>1, QuietStep, RowFacts
  <2>3. QED
    BY <1>1, <2>1, <2>2 DEF TypeOK
<1>15. CASE ReconcilePost
  <2>1. RowInv' /\ jobs' \in [Keys -> Row]
    BY <1>15, PostRows
  <2>2. /\ execs' = execs /\ reconciling' = {}
        /\ UNCHANGED <<up, crashes, queued>>
    BY <1>15 DEF ReconcilePost
  <2>3. owed' \in [Keys -> BOOLEAN]
    BY <1>1, <1>15 DEF ReconcilePost
  <2>4. QED
    BY <1>1, <2>1, <2>2, <2>3 DEF TypeOK
<1>16. ASSUME NEW e \in execs, NEW k \in ExternalKeys, NEW req \in FollowUps[k],
              DrainCompleteAndAsk(e, k, req)
       PROVE  IInv'
  BY <1>16, DrainCompleteAndAskInv
<1>17. CASE UNCHANGED vars
  BY <1>1, <1>2, <1>17, QuietStep, RowFacts DEF vars
<1>18. QED
  BY <1>3, <1>4, <1>5, <1>6, <1>7, <1>8, <1>9, <1>10, <1>11, <1>12, <1>13, <1>14,
     <1>15, <1>16, <1>17
  DEF Next, QueueNext, ReconcileNext

-----------------------------------------------------------------------------
(* The invariant holds in every behavior of the full specification, with   *)
(* reconciliation in any order with the queue's operations.                *)
THEOREM IInvHolds == Spec => []IInv
  BY InitIInv, NextIInv, PTL DEF Spec

(* The variables keep their types: attempts stay natural numbers, a row    *)
(* never leaves the CHECK list of the table.                               *)
THEOREM TypeCorrect == Spec => []TypeOK
<1>1. IInv => TypeOK
  BY DEF IInv
<1>2. QED
  BY <1>1, IInvHolds, PTL

(* The lease token is the whole of ownership. *)
THEOREM LeaseIntegrityHolds == Spec => []LeaseIntegrity
<1>1. IInv => LeaseIntegrity
  BY DEF IInv, RowInv, RowsOK, RowOK, OneHolder, ClaimsOK, LeaseIntegrity
<1>2. QED
  BY <1>1, IInvHolds, PTL

(* rerun_requested says exactly that evidence arrived behind the lease.     *)
THEOREM LatchMatchesEvidenceHolds == Spec => []LatchMatchesEvidence
<1>1. IInv => LatchMatchesEvidence
  BY DEF IInv, RowInv, RowsOK, RowOK, LatchMatchesEvidence
<1>2. QED
  BY <1>1, IInvHolds, PTL

(* processing_started_at on a pending row without a rerun proves that      *)
(* everything requested was part of an attempt: reconciliation and         *)
(* retirement, which select rows by this test, close no unseen request.    *)
THEOREM StartedMeansTriedHolds == Spec => []StartedMeansTried
<1>1. IInv => StartedMeansTried
  BY DEF IInv, RowInv, RowsOK, RowOK, StartedMeansTried
<1>2. QED
  BY <1>1, IInvHolds, PTL

(* No interleaving of limits and attempts strands a pending job.           *)
THEOREM PendingClaimableHolds == Spec => []PendingClaimable
<1>1. IInv => PendingClaimable
  BY DEF IInv, RowInv, RowsOK, RowOK, PendingClaimable
<1>2. QED
  BY <1>1, IInvHolds, PTL

(* Queued intent keeps the highest authority asked for since its last claim. *)
THEOREM QueuedAuthorityHolds == Spec => []QueuedAuthority
<1>1. IInv => QueuedAuthority
  BY DEF IInv, RowInv, RowsOK, RowOK, QueuedAuthority
<1>2. QED
  BY <1>1, IInvHolds, PTL

(* A claimant's snapshot of its claim agrees with the row while it owns it. *)
THEOREM SnapshotAgreesHolds == Spec => []SnapshotAgrees
<1>1. IInv => SnapshotAgrees
  BY DEF IInv, RowInv
<1>2. QED
  BY <1>1, IInvHolds, PTL

-----------------------------------------------------------------------------
(* The statements that spare the token of a row. *)
LEMMA TokenKept ==
    ASSUME NEW r \in Row
    PROVE  /\ HeartbeatRow(r).token = r.token
           /\ [r EXCEPT !.lease = "expired"].token = r.token
           /\ [r EXCEPT !.due = TRUE].token = r.token
           /\ \A req : EnqueueRow(r, req).token = r.token
  BY DEF HeartbeatRow, EnqueueRow, Row

(* One step takes an unexpired lease only if a claimant that still holds   *)
(* its token is there to have reported: claims, retirement and resubmission*)
(* find no lease, recovery finds only expired or tokenless ones, and the   *)
(* compare-and-set of every report names the token.                        *)
LEMMA LeaseEndsByHolder ==
    ASSUME IInv, [Next]_vars, NEW k \in Keys,
           jobs[k].lease = "live", jobs[k].token # NoToken,
           \A e \in execs : ~(e.key = k /\ e.token = jobs[k].token)
    PROVE  jobs'[k].token = jobs[k].token
<1>1. /\ jobs \in [Keys -> Row]
      /\ jobs[k].status = "processing"
      /\ ~Recoverable(jobs[k])
  BY RowFacts DEF RowOK, Recoverable
<1>2. ASSUME NEW j \in Keys, NEW req \in Requests[j], Enqueue(j, req)
      PROVE  jobs'[k].token = jobs[k].token
  BY <1>1, <1>2, TokenKept DEF Enqueue
<1>3. ASSUME NEW j \in Keys, NEW t \in Tokens, NEW received \in BOOLEAN,
             TransitionClaim(j, t, received) \/ DrainClaim(j, t)
      PROVE  jobs'[k].token = jobs[k].token
  <2>1. Claimable(jobs[j]) /\ jobs' = [jobs EXCEPT ![j] = ClaimRow(@, t)]
    BY <1>3 DEF TransitionClaim, DrainClaim, Claim
  <2>2. k # j
    BY <1>1, <2>1 DEF Claimable
  <2>3. QED
    BY <1>1, <2>1, <2>2
<1>4. ASSUME NEW e \in execs, Heartbeat(e) \/ Abandon(e)
      PROVE  jobs'[k].token = jobs[k].token
  BY <1>1, <1>4, TokenKept DEF Heartbeat, Abandon
<1>5. ASSUME NEW e \in execs, Reports(e)
      PROVE  jobs'[k].token = jobs[k].token
  <2>1. \/ jobs' = jobs
        \/ Owns(jobs[e.key], e.token) /\ \E s : jobs' = [jobs EXCEPT ![e.key] = s]
    BY <1>5 DEF Reports, TransitionCompleted, TransitionFailed, DrainComplete, DrainFail
  <2>2. Owns(jobs[e.key], e.token) => e.key # k
    BY DEF Owns
  <2>3. QED
    BY <1>1, <2>1, <2>2
<1>6. ASSUME NEW e \in execs, NEW j \in ExternalKeys, NEW req \in FollowUps[j],
             DrainCompleteAndAsk(e, j, req)
      PROVE  jobs'[k].token = jobs[k].token
  <2>1. /\ e.key \in Keys /\ j \in Keys /\ j # e.key
        /\ jobs' = [jobs EXCEPT ![j] = EnqueueRow(@, req),
                               ![e.key] = IF Owns(@, e.token) THEN CompleteRow(@) ELSE @]
    BY <1>6, RowFacts, DurableJobsAssumption DEF DrainCompleteAndAsk
  <2>2. CASE k = j
    <3>1. jobs'[k] = EnqueueRow(jobs[k], req)
      BY <1>1, <2>1, <2>2
    <3>2. QED
      BY <1>1, <3>1, TokenKept
  <2>3. CASE k = e.key
    <3>1. ~Owns(jobs[k], e.token)
      BY <2>3 DEF Owns
    <3>2. QED
      BY <1>1, <2>1, <2>3, <3>1
  <2>4. CASE k # j /\ k # e.key
    BY <1>1, <2>1, <2>4
  <2>5. QED
    BY <2>2, <2>3, <2>4
<1>7. ASSUME NEW j \in Keys, TransitionPending(j) \/ RetirePendingExact(j)
      PROVE  jobs'[k].token = jobs[k].token
  BY <1>1, <1>7 DEF TransitionPending, RetirePendingExact
<1>8. ASSUME NEW j \in Keys, LeaseExpires(j) \/ BecomesDue(j)
      PROVE  jobs'[k].token = jobs[k].token
  <2>1. \/ jobs' = [jobs EXCEPT ![j] = [jobs[j] EXCEPT !.lease = "expired"]]
        \/ jobs' = [jobs EXCEPT ![j] = [jobs[j] EXCEPT !.due = TRUE]]
    BY <1>8 DEF LeaseExpires, BecomesDue
  <2>2. /\ [jobs[j] EXCEPT !.lease = "expired"].token = jobs[j].token
        /\ [jobs[j] EXCEPT !.due = TRUE].token = jobs[j].token
    BY <1>1, TokenKept
  <2>3. QED
    BY <1>1, <2>1, <2>2
<1>9. CASE RecoverExpired \/ Startup
  BY <1>1, <1>9 DEF RecoverExpired, Startup
<1>10. CASE ReconcilePost
  BY <1>1, <1>10 DEF ReconcilePost
<1>11. CASE Crash \/ (\E ks \in SUBSET ExternalKeys : ReconcileRead(ks)) \/ UNCHANGED vars
  BY <1>11 DEF Crash, ReconcileRead, vars
<1>12. QED
  BY <1>2, <1>3, <1>4, <1>5, <1>6, <1>7, <1>8, <1>9, <1>10, <1>11
  DEF Next, QueueNext, ReconcileNext

(* A lease that has not expired ends only while its claimant is there to   *)
(* end it: no stale report, recovery, enqueue, reconciliation or restart   *)
(* takes it away.                                                          *)
THEOREM NoStaleSettlementHolds == Spec => NoStaleSettlement
<1> DEFINE Kind == \A k \in Keys :
                       /\ jobs[k].lease = "live"
                       /\ jobs[k].token # NoToken
                       /\ jobs'[k].token # jobs[k].token
                       => \E e \in execs : e.key = k /\ e.token = jobs[k].token
<1>1. IInv /\ [Next]_vars => [Kind]_vars
  BY LeaseEndsByHolder
<1>2. [][Kind]_vars => NoStaleSettlement
  BY PTL DEF NoStaleSettlement
<1> HIDE DEF Kind
<1>3. QED
  BY <1>1, <1>2, IInvHolds, PTL DEF Spec

-----------------------------------------------------------------------------
(* One step of the queue alone never marks a job completed that still owes *)
(* work: a completion is paid for by an execution that began after the     *)
(* last evidence, a retirement by an attempt that saw everything.          *)
LEMMA NextOwesNothing ==
    IInv /\ CompletedOwesNothing /\ [QueueNext]_vars => CompletedOwesNothing'
<1> SUFFICES ASSUME IInv, CompletedOwesNothing, [QueueNext]_vars,
                    NEW k \in Keys, jobs'[k].status = "completed"
             PROVE  ~owed'[k]
  BY DEF CompletedOwesNothing
<1>1. /\ jobs \in [Keys -> Row] /\ owed \in [Keys -> BOOLEAN]
      /\ \A j \in Keys : RowOK(jobs[j], queued[j])
      /\ \A j \in Keys : jobs[j].status = "completed" => ~owed[j]
  BY DEF IInv, TypeOK, RowInv, RowsOK, CompletedOwesNothing
<1>2. CASE jobs'[k].status = jobs[k].status /\ owed' = owed
  BY <1>1, <1>2
<1>3. ASSUME NEW j \in Keys, NEW req \in Requests[j], Enqueue(j, req)
      PROVE  ~owed'[k]
  <2>1. j # k
    <3>1. req \in Request /\ req.maxAttempts >= 1
      BY DurableJobsAssumption
    <3>2. EnqueueRow(jobs[j], req).status # "completed"
      BY <1>1, <3>1, EnqueueRowOK
    <3>3. QED
      BY <1>1, <1>3, <3>2 DEF Enqueue
  <2>2. jobs'[k] = jobs[k] /\ owed'[k] = owed[k]
    BY <1>1, <1>3, <2>1 DEF Enqueue
  <2>3. QED
    BY <1>1, <2>2
<1>4. ASSUME NEW j \in Keys, NEW t \in Tokens, NEW received \in BOOLEAN,
             Claim(j, t, received)
      PROVE  ~owed'[k]
  <2>1. ClaimRow(jobs[j], t).status = "processing"
    BY <1>1, <1>4, ClaimRowOK DEF Claim
  <2>2. k # j /\ jobs'[k] = jobs[k] /\ owed' = owed
    BY <1>1, <1>4, <2>1 DEF Claim
  <2>3. QED
    BY <1>1, <2>2
<1>5. ASSUME NEW e \in execs, Heartbeat(e)
      PROVE  ~owed'[k]
  <2>1. HeartbeatRow(jobs[e.key]).status = jobs[e.key].status /\ e.key \in Keys
    BY <1>1, RowFacts DEF HeartbeatRow, Row
  <2>2. jobs'[k].status = jobs[k].status /\ owed' = owed
    BY <1>1, <1>5, <2>1 DEF Heartbeat
  <2>3. QED
    BY <1>2, <2>2
<1>6. ASSUME NEW e \in execs, TransitionCompleted(e, TRUE)
                             \/ TransitionCompleted(e, FALSE) \/ DrainComplete(e)
      PROVE  ~owed'[k]
  <2>1. e.key \in Keys /\ e.token \in Tokens
    BY RowFacts
  <2>2. CASE e.key = k /\ Owns(jobs[k], e.token)
    <3>1. /\ jobs' = [jobs EXCEPT ![k] = CompleteRow(jobs[k])]
          /\ owed' = [owed EXCEPT ![k] = @ /\ ~e.current]
      BY <1>6, <2>2 DEF TransitionCompleted, DrainComplete
    <3>2. CompleteRow(jobs[k]).status = "completed"
      BY <1>1, <3>1
    <3>3. ~jobs[k].rerun
      BY <1>1, <2>2, <3>2, CompleteRowOK DEF Owns
    <3>4. e.current
      BY <2>2, <3>3 DEF Owns, IInv, RowInv, SnapshotAgrees
    <3>5. QED
      BY <1>1, <3>1, <3>4
  <2>3. CASE ~(e.key = k /\ Owns(jobs[k], e.token))
    <3>1. jobs'[k] = jobs[k] /\ owed'[k] = owed[k]
      BY <1>1, <1>6, <2>1, <2>3 DEF TransitionCompleted, DrainComplete
    <3>2. QED
      BY <1>1, <3>1
  <2>4. QED
    BY <2>2, <2>3
<1>6a. ASSUME NEW e \in execs, NEW j \in ExternalKeys, NEW req \in FollowUps[j],
              DrainCompleteAndAsk(e, j, req)
       PROVE  ~owed'[k]
  <2>1. /\ e.key \in Keys /\ e.token \in Tokens /\ j \in Keys /\ j # e.key
        /\ req \in Request /\ req.maxAttempts >= 1
    BY <1>6a, RowFacts, DurableJobsAssumption DEF DrainCompleteAndAsk, Keys
  <2>2. k # j
    <3>1. EnqueueRow(jobs[j], req).status # "completed"
      BY <1>1, <2>1, EnqueueRowOK
    <3>2. jobs'[j] = EnqueueRow(jobs[j], req)
      BY <1>1, <1>6a, <2>1 DEF DrainCompleteAndAsk
    <3>3. QED
      BY <3>1, <3>2
  <2>3. CASE e.key = k /\ Owns(jobs[k], e.token)
    <3>1. jobs'[k] = CompleteRow(jobs[k]) /\ (owed'[k] <=> owed[k] /\ ~e.current)
      BY <1>1, <1>6a, <2>1, <2>2, <2>3 DEF DrainCompleteAndAsk
    <3>2. ~jobs[k].rerun
      BY <1>1, <2>3, <3>1, CompleteRowOK DEF Owns
    <3>3. e.current
      BY <2>3, <3>2 DEF Owns, IInv, RowInv, SnapshotAgrees
    <3>4. QED
      BY <3>1, <3>3
  <2>4. CASE ~(e.key = k /\ Owns(jobs[k], e.token))
    <3>1. jobs'[k] = jobs[k] /\ (owed'[k] <=> owed[k])
      BY <1>1, <1>6a, <2>1, <2>2, <2>4 DEF DrainCompleteAndAsk
    <3>2. QED
      BY <1>1, <3>1
  <2>5. QED
    BY <2>3, <2>4
<1>7. ASSUME NEW e \in execs, NEW retryable \in BOOLEAN, NEW acknowledged \in BOOLEAN,
             TransitionFailed(e, retryable, acknowledged) \/ DrainFail(e)
      PROVE  ~owed'[k]
  <2>1. e.key \in Keys /\ owed' = owed
    BY <1>7, RowFacts DEF TransitionFailed, DrainFail
  <2>2. CASE e.key = k /\ Owns(jobs[k], e.token)
    <3>1. jobs[k].status = "processing"
      BY <2>2 DEF Owns
    <3>2. ReportFailedRow(jobs[k], retryable).status # "completed"
      BY <1>1, <3>1, ReportFailedRowOK
    <3>3. FailRow(jobs[k], e.attempts, e.maxAttempts, TRUE).status # "completed"
      BY <1>1 DEF FailRow, Row
    <3>4. QED
      BY <1>1, <1>7, <2>2, <3>2, <3>3 DEF TransitionFailed, DrainFail
  <2>3. CASE ~(e.key = k /\ Owns(jobs[k], e.token))
    BY <1>1, <1>7, <2>1, <2>3 DEF TransitionFailed, DrainFail
  <2>4. QED
    BY <2>2, <2>3
<1>8. ASSUME NEW j \in Keys, TransitionPending(j)
      PROVE  ~owed'[k]
  <2>1. RequeueRow(jobs[j]).status = "pending" /\ owed' = owed
    BY <1>1, <1>8, RequeueRowOK DEF TransitionPending
  <2>2. jobs'[k] = jobs[k]
    BY <1>1, <1>8, <2>1 DEF TransitionPending
  <2>3. QED
    BY <1>2, <2>1, <2>2
<1>9. ASSUME NEW j \in Keys, RetirePendingExact(j)
      PROVE  ~owed'[k]
  <2>1. queued[j] = NoRequest
    BY <1>1, <1>9 DEF RetirePendingExact, RowOK
  <2>2. CASE j = k
    BY <1>1, <1>9, <2>1, <2>2 DEF RetirePendingExact
  <2>3. CASE j # k
    BY <1>1, <1>9, <2>3 DEF RetirePendingExact
  <2>4. QED
    BY <2>2, <2>3
<1>10. ASSUME NEW j \in Keys, LeaseExpires(j) \/ BecomesDue(j)
       PROVE  ~owed'[k]
  <2>1. /\ [jobs[j] EXCEPT !.lease = "expired"].status = jobs[j].status
        /\ [jobs[j] EXCEPT !.due = TRUE].status = jobs[j].status
    BY <1>1 DEF Row
  <2>2. jobs'[k].status = jobs[k].status /\ owed' = owed
    BY <1>1, <1>10, <2>1 DEF LeaseExpires, BecomesDue
  <2>3. QED
    BY <1>2, <2>2
<1>11. CASE RecoverExpired \/ Startup
  <2>1. Recoverable(jobs[k]) => RecoverRow(jobs[k]).status # "completed"
    BY <1>1, RecoverRowOK
  <2>2. jobs'[k] = jobs[k] /\ owed' = owed
    BY <1>11, <2>1 DEF RecoverExpired, Startup
  <2>3. QED
    BY <1>2, <2>2
<1>12. CASE (\E e \in execs : Abandon(e)) \/ Crash \/ UNCHANGED vars
  BY <1>2, <1>12 DEF Abandon, Crash, vars
<1>13. QED
  BY <1>3, <1>4, <1>5, <1>6, <1>6a, <1>7, <1>8, <1>9, <1>10, <1>11, <1>12
  DEF QueueNext, Reports, TransitionClaim, DrainClaim

(* A job that reads completed owes no work: every piece of evidence was    *)
(* part of a completed execution, or given up by an operator.  This is the *)
(* promise of the coalesced rerun; reconciliation (Spec) breaks it.        *)
THEOREM CompletedOwesNothingHolds == QueueSpec => []CompletedOwesNothing
<1>1. Init => CompletedOwesNothing
  BY DEF Init, CompletedOwesNothing, InitialRows, AbsentRow, LegacyRow
<1>2. [QueueNext]_vars => [Next]_vars
  BY DEF Next
<1>3. QED
  BY <1>1, <1>2, InitIInv, NextIInv, NextOwesNothing, PTL DEF QueueSpec
=============================================================================
