----------------------- MODULE DurableJobs_refinement -----------------------
(***************************************************************************)
(* The durable queue implements LeasedWork, for every set of keys, tokens  *)
(* and requests: each operation of the queue, of its claimants and of the  *)
(* scheduler's reconciliation is one step of the abstract specification or *)
(* leaves what a user of the queue sees unchanged.                         *)
(***************************************************************************)
EXTENDS DurableJobs_proofs

HasDebt(r) == r.status = "processing" /\ r.rerun

(* What is seen of a step that writes one row. *)
LEMMA OneRowSeen ==
    ASSUME jobs \in [Keys -> Row], NEW k \in Keys, NEW s,
           jobs' = [jobs EXCEPT ![k] = s]
    PROVE  /\ PhaseOf' = [PhaseOf EXCEPT ![k] = AbstractPhase(s)]
           /\ HolderOf' = [HolderOf EXCEPT ![k] = s.token]
           /\ HasDebt(s) => DebtOf' = DebtOf \cup {k}
           /\ ~HasDebt(s) => DebtOf' = DebtOf \ {k}
<1>1. /\ jobs'[k] = s
      /\ \A j \in Keys : j # k => jobs'[j] = jobs[j]
  OBVIOUS
<1>2. PhaseOf' = [PhaseOf EXCEPT ![k] = AbstractPhase(s)]
  BY <1>1 DEF PhaseOf
<1>3. HolderOf' = [HolderOf EXCEPT ![k] = s.token]
  BY <1>1 DEF HolderOf
<1>4. \A j \in Keys : j \in DebtOf' <=> IF j = k THEN HasDebt(s) ELSE j \in DebtOf
  BY <1>1 DEF DebtOf, HasDebt
<1>4a. DebtOf \subseteq Keys /\ DebtOf' \subseteq Keys
  BY DEF DebtOf
<1>5. QED
  BY <1>2, <1>3, <1>4, <1>4a

(* The phases, the holder and the debt of a consistent row. *)
LEMMA RowSeen ==
    ASSUME NEW r, NEW q, RowOK(r, q)
    PROVE  /\ AbstractPhase(r) \in {"idle", "waiting", "leased", "done", "dead"}
           /\ AbstractPhase(r) = "leased" <=> r.status = "processing"
           /\ AbstractPhase(r) = "waiting" <=> r.status = "pending"
           /\ AbstractPhase(r) = "done" <=> r.status = "completed"
           /\ AbstractPhase(r) = "dead" <=> r.status = "failed"
           /\ AbstractPhase(r) # "leased" => r.token = NoToken
<1>1. r.status \in Statuses
  BY DEF RowOK, Row
<1>2. r.status # "processing" => r.token = NoToken
  BY DEF RowOK
<1>3. QED
  BY <1>1, <1>2 DEF AbstractPhase, Statuses

(* Every lookup in the three views. *)
LEMMA Views ==
    ASSUME IInv, NEW k \in Keys
    PROVE  /\ PhaseOf = [j \in Keys |-> PhaseOf[j]]
           /\ HolderOf = [j \in Keys |-> HolderOf[j]]
           /\ PhaseOf[k] = AbstractPhase(jobs[k])
           /\ HolderOf[k] = jobs[k].token
           /\ k \in DebtOf <=> HasDebt(jobs[k])
           /\ RowOK(jobs[k], queued[k])
  BY DEF PhaseOf, HolderOf, DebtOf, HasDebt, IInv, RowInv, RowsOK

(* A row that is kept looks the same. *)
LEMMA KeptSeen ==
    ASSUME IInv, NEW k \in Keys, NEW s, Kept(jobs[k], s, queued[k]),
           jobs' = [jobs EXCEPT ![k] = s]
    PROVE  UNCHANGED Work!work
<1>1. /\ s.status = jobs[k].status /\ s.token = jobs[k].token
      /\ s.rerun = jobs[k].rerun /\ jobs \in [Keys -> Row]
  BY DEF Kept, IInv, TypeOK
<1>2. /\ AbstractPhase(s) = PhaseOf[k]
      /\ s.token = HolderOf[k]
      /\ HasDebt(s) <=> k \in DebtOf
  BY <1>1, Views DEF AbstractPhase, HasDebt
<1>3. /\ PhaseOf' = [PhaseOf EXCEPT ![k] = PhaseOf[k]]
      /\ HolderOf' = [HolderOf EXCEPT ![k] = HolderOf[k]]
      /\ k \in DebtOf => DebtOf' = DebtOf \cup {k}
      /\ k \notin DebtOf => DebtOf' = DebtOf \ {k}
  BY <1>1, <1>2, OneRowSeen
<1>4. PhaseOf' = PhaseOf /\ HolderOf' = HolderOf
  BY <1>3, Views
<1>5. DebtOf' = DebtOf
  BY <1>3
<1>6. QED
  BY <1>3, <1>4, <1>5 DEF Work!work

(* Releasing a leased row ends its lease. *)
LEMMA ReleaseSeen ==
    ASSUME IInv, NEW k \in Keys, NEW s, Released(jobs[k], s, queued[k]),
           jobs[k].status = "processing", jobs' = [jobs EXCEPT ![k] = s]
    PROVE  Work!EndLease(k, AbstractPhase(s))
<1>1. s.token = NoToken /\ s.status # "processing" /\ jobs \in [Keys -> Row]
  BY DEF Released, IInv, TypeOK
<1>2. PhaseOf[k] = "leased"
  BY Views DEF AbstractPhase
<1>3. ~HasDebt(s)
  BY <1>1 DEF HasDebt
<1>4. DebtOf' = DebtOf \ {k}
  BY <1>1, <1>3, OneRowSeen
<1>5. QED
  BY <1>1, <1>2, <1>4, OneRowSeen DEF Work!EndLease

(* Enqueue is Ask. *)
LEMMA AskRowSeen ==
    ASSUME NEW r, NEW q, RowOK(r, q), NEW req \in Request, req.maxAttempts >= 1
    PROVE  LET s == EnqueueRow(r, req)
           IN  /\ AbstractPhase(s) = IF AbstractPhase(r) = "leased"
                                     THEN "leased" ELSE "waiting"
               /\ s.token = r.token
               /\ HasDebt(s) <=> AbstractPhase(r) = "leased"
<1> DEFINE s == EnqueueRow(r, req)
<1>1. /\ s.token = r.token
      /\ r.status = "processing" => s.status = "processing" /\ s.rerun
      /\ s.status = "processing" => r.status = "processing"
  BY EnqueueRowOK
<1>2. s.status = IF r.status = "processing" THEN "processing" ELSE "pending"
  BY DEF EnqueueRow
<1>3. AbstractPhase(r) = "leased" <=> r.status = "processing"
  BY RowSeen
<1> HIDE DEF s
<1>4. AbstractPhase(s) = IF AbstractPhase(r) = "leased" THEN "leased" ELSE "waiting"
  <2>1. AbstractPhase(s) = IF s.status = "processing" THEN "leased" ELSE "waiting"
    BY <1>2 DEF AbstractPhase
  <2>2. QED
    BY <1>2, <1>3, <2>1
<1>5. HasDebt(s) <=> AbstractPhase(r) = "leased"
  BY <1>1, <1>3 DEF HasDebt
<1>6. QED
  BY <1>1, <1>4, <1>5 DEF s

(* New evidence asks: for waiting work, or for a debt behind a lease. *)
LEMMA EnqueueSeen ==
    ASSUME IInv, NEW k \in Keys, NEW req \in Requests[k], Enqueue(k, req)
    PROVE  Work!Ask(k)
<1> DEFINE s == EnqueueRow(jobs[k], req)
<1>1. /\ jobs \in [Keys -> Row] /\ RowOK(jobs[k], queued[k])
      /\ req \in Request /\ req.maxAttempts >= 1
      /\ jobs' = [jobs EXCEPT ![k] = s]
  BY Views, DurableJobsAssumption DEF IInv, TypeOK, Enqueue
<1>2. /\ AbstractPhase(s) = IF PhaseOf[k] = "leased" THEN "leased" ELSE "waiting"
      /\ s.token = HolderOf[k]
      /\ HasDebt(s) <=> PhaseOf[k] = "leased"
  BY <1>1, AskRowSeen, Views
<1>3. k \in DebtOf => PhaseOf[k] = "leased"
  BY Views DEF HasDebt, AbstractPhase
<1> HIDE DEF s
<1>4. UNCHANGED HolderOf
  BY <1>1, <1>2, OneRowSeen DEF HolderOf
<1>5. CASE PhaseOf[k] = "leased"
  <2>1. UNCHANGED PhaseOf
    BY <1>1, <1>2, <1>5, OneRowSeen DEF PhaseOf
  <2>2. DebtOf' = DebtOf \cup {k}
    BY <1>1, <1>2, <1>5, OneRowSeen
  <2>3. QED
    BY <1>4, <1>5, <2>1, <2>2 DEF Work!Ask
<1>6. CASE PhaseOf[k] # "leased"
  <2>1. PhaseOf' = [PhaseOf EXCEPT ![k] = "waiting"]
    BY <1>1, <1>2, <1>6, OneRowSeen
  <2>2. DebtOf' = DebtOf
    <3>1. ~HasDebt(s) /\ k \notin DebtOf
      BY <1>2, <1>3, <1>6
    <3>2. DebtOf' = DebtOf \ {k}
      BY <1>1, <3>1, OneRowSeen
    <3>3. QED
      BY <3>1, <3>2
  <2>3. QED
    BY <1>4, <1>6, <2>1, <2>2 DEF Work!Ask
<1>7. QED
  BY <1>5, <1>6

(* Claim is Grant. *)
LEMMA ClaimSeen ==
    ASSUME IInv, NEW k \in Keys, NEW t \in Tokens, NEW received \in BOOLEAN,
           Claim(k, t, received)
    PROVE  Work!Grant(k, t)
<1> DEFINE s == ClaimRow(jobs[k], t)
<1>1. /\ jobs \in [Keys -> Row] /\ RowOK(jobs[k], queued[k])
      /\ Claimable(jobs[k]) /\ Fresh(t)
      /\ jobs' = [jobs EXCEPT ![k] = s]
  BY Views DEF IInv, TypeOK, Claim
<1>2. s.token = t /\ s.status = "processing" /\ s.rerun = FALSE
  BY <1>1, ClaimRowOK DEF ClaimRow, RowOK, Row
<1> HIDE DEF s
<1>3. AbstractPhase(s) = "leased" /\ ~HasDebt(s)
  BY <1>2 DEF AbstractPhase, HasDebt
<1>4. PhaseOf[k] = "waiting" /\ k \notin DebtOf
  BY <1>1, Views DEF Claimable, AbstractPhase, HasDebt
<1>5. \A j \in Keys : HolderOf[j] # t
  BY <1>1 DEF Fresh, HolderOf
<1>6. /\ PhaseOf' = [PhaseOf EXCEPT ![k] = "leased"]
      /\ HolderOf' = [HolderOf EXCEPT ![k] = t]
      /\ DebtOf' = DebtOf \ {k}
  BY <1>1, <1>2, <1>3, OneRowSeen
<1>7. QED
  BY <1>4, <1>5, <1>6 DEF Work!Grant

(* A completion by the owner is Finish. *)
LEMMA CompleteSeen ==
    ASSUME IInv, NEW k \in Keys, jobs[k].status = "processing",
           jobs' = [jobs EXCEPT ![k] = CompleteRow(jobs[k])]
    PROVE  Work!Finish(k)
<1> DEFINE s == CompleteRow(jobs[k])
<1>1. RowOK(jobs[k], queued[k]) /\ jobs[k] \in Row
  BY Views DEF RowOK
<1>2. Released(jobs[k], s, queued[k])
  BY <1>1, CompleteRowOK
<1>3. s.status = IF jobs[k].rerun THEN "pending" ELSE "completed"
  BY <1>1 DEF CompleteRow, RequeueRow, Row
<1>4. k \in DebtOf <=> jobs[k].rerun
  BY Views DEF HasDebt
<1>5. AbstractPhase(s) = IF k \in DebtOf THEN "waiting" ELSE "done"
  BY <1>3, <1>4 DEF AbstractPhase
<1>6. Work!EndLease(k, AbstractPhase(s))
  BY <1>2, ReleaseSeen
<1>7. QED
  BY <1>5, <1>6 DEF Work!Finish

(* Any release that does not complete the job is GiveUp. *)
LEMMA GiveUpSeen ==
    ASSUME IInv, NEW k \in Keys, NEW s, Released(jobs[k], s, queued[k]),
           s.status # "completed", jobs[k].status = "processing",
           jobs' = [jobs EXCEPT ![k] = s]
    PROVE  Work!GiveUp(k)
<1>1. s.status \in Statuses /\ s.status # "processing" /\ s.status # "absent"
  BY DEF Released, RowOK, Row
<1>2. AbstractPhase(s) \in {"waiting", "dead"}
  BY <1>1 DEF AbstractPhase, Statuses
<1>3. Work!EndLease(k, AbstractPhase(s))
  BY ReleaseSeen
<1>4. QED
  BY <1>2, <1>3 DEF Work!GiveUp

(* A report: by the owner it ends the lease, from anybody else it is       *)
(* nothing.                                                                *)
LEMMA ReportSeen ==
    ASSUME IInv, NEW e \in execs, Reports(e)
    PROVE  Work!Next \/ UNCHANGED Work!work
<1> DEFINE k == e.key
           r == jobs[k]
<1>1. k \in Keys /\ RowOK(r, queued[k]) /\ Kept(r, r, queued[k]) /\ jobs \in [Keys -> Row]
  BY RowFacts
<1>2. CASE ~Owns(r, e.token)
  <2>1. jobs' = jobs
    BY <1>2 DEF Reports, TransitionCompleted, TransitionFailed, DrainComplete, DrainFail
  <2>2. jobs' = [jobs EXCEPT ![k] = r]
    BY <1>1, <2>1
  <2>3. QED
    BY <1>1, <2>2, KeptSeen
<1>3. CASE Owns(r, e.token)
  <2>1. r.status = "processing" /\ r.token = e.token
    BY <1>3 DEF Owns
  <2>2. CASE jobs' = [jobs EXCEPT ![k] = CompleteRow(r)]
    <3>1. Work!Finish(k)
      BY <1>1, <2>1, <2>2, CompleteSeen
    <3>2. QED
      BY <1>1, <3>1 DEF Work!Next
  <2>3. ASSUME NEW s, Released(r, s, queued[k]), s.status # "completed",
               jobs' = [jobs EXCEPT ![k] = s]
        PROVE  Work!Next
    <3>1. Work!GiveUp(k)
      BY <1>1, <2>1, <2>3, GiveUpSeen
    <3>2. QED
      BY <1>1, <3>1 DEF Work!Next
  <2>4. CASE \E b \in BOOLEAN : jobs' = [jobs EXCEPT ![k] = ReportFailedRow(r, b)]
    BY <1>1, <2>1, <2>3, <2>4, ReportFailedRowOK
  <2>5. CASE k \in DrainKeys
             /\ jobs' = [jobs EXCEPT ![k] = FailRow(r, e.attempts, e.maxAttempts, TRUE)]
    <3>1. e.attempts = r.attempts /\ e.maxAttempts = r.maxAttempts
      BY <1>1, <2>1, <2>5 DEF IInv, RowInv, SnapshotAgrees
    <3>2. QED
      BY <1>1, <2>1, <2>3, <2>5, <3>1, FailRowOK
  <2>6. QED
    BY <1>3, <2>2, <2>4, <2>5
    DEF Reports, TransitionCompleted, TransitionFailed, DrainComplete, DrainFail
<1>4. QED
  BY <1>2, <1>3

(* Recovery is Expire, of all the rows it takes back together. *)
LEMMA RecoverSeen ==
    ASSUME IInv,
           jobs' = [k \in Keys |-> IF Recoverable(jobs[k]) THEN RecoverRow(jobs[k])
                                  ELSE jobs[k]]
    PROVE  Work!Next \/ UNCHANGED Work!work
<1> DEFINE ks == {k \in Keys : Recoverable(jobs[k])}
           next == [k \in ks |-> AbstractPhase(RecoverRow(jobs[k]))]
<1>1. \A k \in ks : /\ RecoverRow(jobs[k]).token = NoToken
                    /\ ~HasDebt(RecoverRow(jobs[k]))
                    /\ AbstractPhase(RecoverRow(jobs[k])) \in {"waiting", "dead"}
                    /\ PhaseOf[k] = "leased"
  <2> SUFFICES ASSUME NEW k \in Keys, Recoverable(jobs[k])
               PROVE  /\ RecoverRow(jobs[k]).token = NoToken
                      /\ ~HasDebt(RecoverRow(jobs[k]))
                      /\ AbstractPhase(RecoverRow(jobs[k])) \in {"waiting", "dead"}
                      /\ PhaseOf[k] = "leased"
    OBVIOUS
  <2>1. RowOK(jobs[k], queued[k]) /\ PhaseOf[k] = AbstractPhase(jobs[k])
    BY Views
  <2>2. /\ Released(jobs[k], RecoverRow(jobs[k]), queued[k])
        /\ RecoverRow(jobs[k]).status # "completed"
    BY <2>1, RecoverRowOK
  <2>3. /\ RecoverRow(jobs[k]).token = NoToken
        /\ RecoverRow(jobs[k]).status \in {"pending", "failed"}
    BY <2>2 DEF Released, RowOK, Row, Statuses
  <2>4. PhaseOf[k] = "leased"
    BY <2>1 DEF Recoverable, AbstractPhase
  <2>5. QED
    BY <2>3, <2>4 DEF AbstractPhase, HasDebt
<1>2. PhaseOf' = [k \in Keys |-> IF k \in ks THEN next[k] ELSE PhaseOf[k]]
  BY DEF PhaseOf
<1>3. HolderOf' = [k \in Keys |-> IF k \in ks THEN NoToken ELSE HolderOf[k]]
  BY <1>1 DEF HolderOf
<1>4. DebtOf' = DebtOf \ ks
  <2>1. \A k \in Keys : k \in DebtOf' <=> HasDebt(jobs'[k])
    BY DEF DebtOf, HasDebt
  <2>2. \A k \in Keys : k \in DebtOf <=> HasDebt(jobs[k])
    BY Views
  <2>3. \A k \in Keys : HasDebt(jobs'[k]) <=> k \notin ks /\ HasDebt(jobs[k])
    BY <1>1
  <2>4. DebtOf \subseteq Keys /\ DebtOf' \subseteq Keys
    BY DEF DebtOf
  <2> HIDE DEF ks
  <2>5. QED
    BY <2>1, <2>2, <2>3, <2>4
<1>5. next \in [ks -> {"waiting", "dead"}]
  BY <1>1
<1>6. CASE ks = {}
  <2>1. PhaseOf' = PhaseOf /\ HolderOf' = HolderOf /\ DebtOf' = DebtOf
    <3>1. jobs' = jobs
      BY <1>6, RowFacts
    <3>2. QED
      BY <3>1 DEF PhaseOf, HolderOf, DebtOf
  <2>2. QED
    BY <2>1 DEF Work!work
<1>7. CASE ks # {}
  <2>1. ks \in SUBSET Keys /\ \A k \in ks : PhaseOf[k] = "leased"
    BY <1>1
  <2> HIDE DEF ks, next
  <2>2. Work!Expire(ks)
    BY <1>2, <1>3, <1>4, <1>5, <1>7, <2>1 DEF Work!Expire
  <2>3. QED
    BY <2>1, <2>2 DEF Work!Next
<1>8. QED
  BY <1>6, <1>7

(* Completing enrichment and asking for an analysis is FinishAndAsk, or     *)
(* Ask alone when the completion is refused.                               *)
LEMMA CompleteAndAskSeen ==
    ASSUME IInv, NEW e \in execs, NEW k \in ExternalKeys, NEW req \in FollowUps[k],
           DrainCompleteAndAsk(e, k, req)
    PROVE  Work!Next
<1> DEFINE d == e.key
           s == EnqueueRow(jobs[k], req)
           busy == PhaseOf[k] = "leased"
<1>1. /\ d \in Keys /\ k \in Keys /\ k # d
      /\ RowOK(jobs[k], queued[k]) /\ RowOK(jobs[d], queued[d])
      /\ jobs \in [Keys -> Row]
      /\ req \in Request /\ req.maxAttempts >= 1
  BY RowFacts, DurableJobsAssumption DEF DrainCompleteAndAsk, Keys
<1>2. /\ AbstractPhase(s) = IF busy THEN "leased" ELSE "waiting"
      /\ s.token = HolderOf[k]
      /\ HasDebt(s) <=> busy
  BY <1>1, AskRowSeen, Views
<1>3. k \in DebtOf => busy
  BY <1>1, Views DEF HasDebt, AbstractPhase
<1>4. CASE Owns(jobs[d], e.token)
  <2> DEFINE c == CompleteRow(jobs[d])
  <2>1. jobs[d].status = "processing" /\ PhaseOf[d] = "leased"
    BY <1>1, <1>4, Views DEF Owns, AbstractPhase
  <2>2. Released(jobs[d], c, queued[d]) /\ jobs[d] \in Row
    BY <1>1, <2>1, CompleteRowOK DEF RowOK
  <2>3. c.status = IF jobs[d].rerun THEN "pending" ELSE "completed"
    BY <2>2 DEF CompleteRow, RequeueRow, Row
  <2>4. d \in DebtOf <=> jobs[d].rerun
    BY <1>1, <2>1, Views DEF HasDebt
  <2>5. /\ AbstractPhase(c) = IF d \in DebtOf THEN "waiting" ELSE "done"
        /\ c.token = NoToken /\ ~HasDebt(c)
    BY <2>2, <2>3, <2>4 DEF AbstractPhase, Released, HasDebt
  <2>6. /\ jobs' = [jobs EXCEPT ![k] = s, ![d] = c]
        /\ jobs'[k] = s /\ jobs'[d] = c
        /\ \A j \in Keys : j # k /\ j # d => jobs'[j] = jobs[j]
    BY <1>1, <1>4 DEF DrainCompleteAndAsk
  <2> HIDE DEF s, c
  <2>7. PhaseOf' = [PhaseOf EXCEPT ![d] = IF d \in DebtOf THEN "waiting" ELSE "done",
                                  ![k] = IF @ = "leased" THEN @ ELSE "waiting"]
    BY <1>1, <1>2, <2>5, <2>6 DEF PhaseOf
  <2>8. HolderOf' = [HolderOf EXCEPT ![d] = NoToken]
    BY <1>1, <1>2, <2>5, <2>6 DEF HolderOf
  <2>9. DebtOf' = (DebtOf \ {d}) \cup {i \in {k} : PhaseOf[i] = "leased"}
    <3>1. \A j \in Keys : (j \in DebtOf' <=> HasDebt(jobs'[j]))
                          /\ (j \in DebtOf <=> HasDebt(jobs[j]))
      BY DEF DebtOf, HasDebt
    <3>2. DebtOf \subseteq Keys /\ DebtOf' \subseteq Keys
      BY DEF DebtOf
    <3>3. \A j \in Keys : j # k /\ j # d => (j \in DebtOf' <=> j \in DebtOf)
      BY <2>6, <3>1
    <3>4. (k \in DebtOf' <=> busy) /\ d \notin DebtOf'
      BY <1>1, <1>2, <2>5, <2>6, <3>1
    <3> HIDE DEF busy
    <3>5. {i \in {k} : PhaseOf[i] = "leased"} = IF busy THEN {k} ELSE {}
      BY DEF busy
    <3>6. QED
      BY <1>1, <1>3, <3>2, <3>3, <3>4, <3>5
  <2>10. Work!FinishAndAsk(d, k)
    BY <1>1, <2>1, <2>7, <2>8, <2>9 DEF Work!FinishAndAsk
  <2>11. QED
    BY <1>1, <2>10 DEF Work!Next
<1>5. CASE ~Owns(jobs[d], e.token)
  <2>1. jobs' = [jobs EXCEPT ![k] = s]
    BY <1>1, <1>5 DEF DrainCompleteAndAsk
  <2> HIDE DEF s
  <2>2. UNCHANGED HolderOf
    BY <1>1, <1>2, <2>1, OneRowSeen DEF HolderOf
  <2>3. CASE busy
    <3>1. UNCHANGED PhaseOf
      BY <1>1, <1>2, <2>1, <2>3, OneRowSeen DEF PhaseOf
    <3>2. DebtOf' = DebtOf \cup {k}
      BY <1>1, <1>2, <2>1, <2>3, OneRowSeen
    <3>3. QED
      BY <1>1, <2>2, <2>3, <3>1, <3>2 DEF Work!Ask, Work!Next
  <2>4. CASE ~busy
    <3>1. PhaseOf' = [PhaseOf EXCEPT ![k] = "waiting"]
      BY <1>1, <1>2, <2>1, <2>4, OneRowSeen
    <3>2. ~HasDebt(s) /\ k \notin DebtOf
      BY <1>2, <1>3, <2>4
    <3>3. DebtOf' = DebtOf \ {k}
      BY <1>1, <2>1, <3>2, OneRowSeen
    <3>4. DebtOf' = DebtOf
      BY <3>2, <3>3
    <3>5. QED
      BY <1>1, <2>2, <2>4, <3>1, <3>4 DEF Work!Ask, Work!Next
  <2>5. QED
    BY <2>3, <2>4
<1>6. QED
  BY <1>4, <1>5

(* A failed job that is resubmitted is Revive. *)
LEMMA ResubmitSeen ==
    ASSUME IInv, NEW k \in Keys, TransitionPending(k)
    PROVE  Work!Revive(k)
<1> DEFINE s == RequeueRow(jobs[k])
<1>1. /\ jobs \in [Keys -> Row] /\ jobs[k] \in Row /\ jobs[k].status = "failed"
      /\ jobs' = [jobs EXCEPT ![k] = s]
  BY DEF IInv, TypeOK, TransitionPending
<1>2. s.status = "pending" /\ s.token = NoToken
  BY <1>1 DEF RequeueRow, Row
<1>3. jobs[k].token = NoToken
  BY <1>1, Views DEF RowOK
<1> HIDE DEF s
<1>4. AbstractPhase(s) = "waiting" /\ ~HasDebt(s)
  BY <1>2 DEF AbstractPhase, HasDebt
<1>5. PhaseOf[k] = "dead" /\ k \notin DebtOf
  BY <1>1, Views DEF AbstractPhase, HasDebt
<1>6. PhaseOf' = [PhaseOf EXCEPT ![k] = "waiting"] /\ DebtOf' = DebtOf \ {k}
  BY <1>1, <1>4, OneRowSeen
<1>7. HolderOf' = HolderOf
  BY <1>1, <1>2, <1>3, OneRowSeen DEF HolderOf
<1>8. QED
  BY <1>5, <1>6, <1>7 DEF Work!Revive

(* Closing pending rows, one or many, is Close. *)
LEMMA CloseSeen ==
    ASSUME IInv, NEW ks \in SUBSET Keys, ks # {},
           \A k \in ks : jobs[k].status = "pending",
           jobs' = [k \in Keys |-> IF k \in ks THEN ClosePendingRow(jobs[k])
                                  ELSE jobs[k]]
    PROVE  Work!Close(ks)
<1>1. \A k \in ks : /\ ClosePendingRow(jobs[k]).status = "completed"
                    /\ ClosePendingRow(jobs[k]).token = NoToken
                    /\ jobs[k].token = NoToken
  BY Views DEF ClosePendingRow, RowOK, Row
<1>2. \A k \in ks : PhaseOf[k] = "waiting" /\ AbstractPhase(jobs'[k]) = "done"
  BY <1>1 DEF PhaseOf, AbstractPhase
<1>3. PhaseOf' = [k \in Keys |-> IF k \in ks THEN "done" ELSE PhaseOf[k]]
  BY <1>2 DEF PhaseOf
<1>4. HolderOf' = HolderOf
  BY <1>1 DEF HolderOf
<1>5. DebtOf' = DebtOf
  BY <1>1 DEF DebtOf
<1>6. QED
  BY <1>2, <1>3, <1>4, <1>5 DEF Work!Close

(* What leaves every row as it is leaves its view as it is. *)
LEMMA SameSeen == jobs' = jobs => UNCHANGED Work!work
  BY DEF Work!work, PhaseOf, HolderOf, DebtOf

-----------------------------------------------------------------------------
(* An initial table shows nothing to do, or leases nobody holds. *)
LEMMA InitSeen == Init => Work!Init
<1> SUFFICES ASSUME Init PROVE Work!Init
  OBVIOUS
<1>1. \A k \in Keys : /\ jobs[k].status \in {"absent", "processing"}
                      /\ jobs[k].token = NoToken /\ ~jobs[k].rerun
  BY DEF Init, InitialRows, AbsentRow, LegacyRow
<1>2. /\ PhaseOf \in [Keys -> {"idle", "leased"}]
      /\ HolderOf = [k \in Keys |-> NoToken]
      /\ DebtOf = {}
  BY <1>1 DEF PhaseOf, HolderOf, DebtOf, AbstractPhase
<1>3. QED
  BY <1>2 DEF Work!Init

(* Every step is a step of LeasedWork or leaves the view as it is. *)
LEMMA NextSeen == IInv /\ [Next]_vars => [Work!Next]_(Work!work)
<1> SUFFICES ASSUME IInv, [Next]_vars PROVE Work!Next \/ UNCHANGED Work!work
  OBVIOUS
<1>1. ASSUME NEW k \in Keys, NEW req \in Requests[k], Enqueue(k, req)
      PROVE  Work!Next
  BY <1>1, EnqueueSeen DEF Work!Next
<1>2. ASSUME NEW k \in Keys, NEW t \in Tokens, NEW received \in BOOLEAN,
             TransitionClaim(k, t, received) \/ DrainClaim(k, t)
      PROVE  Work!Next
  <2>1. Claim(k, t, received) \/ Claim(k, t, TRUE)
    BY <1>2 DEF TransitionClaim, DrainClaim
  <2>2. Work!Grant(k, t)
    BY <2>1, ClaimSeen
  <2>3. QED
    BY <2>2 DEF Work!Next
<1>3. ASSUME NEW e \in execs, Heartbeat(e)
      PROVE  UNCHANGED Work!work
  <2>1. e.key \in Keys /\ RowOK(jobs[e.key], queued[e.key]) /\ jobs[e.key] \in Row
    BY RowFacts DEF RowOK
  <2>2. RowOK(HeartbeatRow(jobs[e.key]), queued[e.key])
    BY <1>3, <2>1, TimeRowOK DEF Heartbeat, Owns
  <2>3. Kept(jobs[e.key], HeartbeatRow(jobs[e.key]), queued[e.key])
    BY <2>1, <2>2 DEF Kept, HeartbeatRow, Row
  <2>4. QED
    BY <1>3, <2>1, <2>3, KeptSeen DEF Heartbeat
<1>4. ASSUME NEW e \in execs, NEW k \in ExternalKeys, NEW req \in FollowUps[k],
             DrainCompleteAndAsk(e, k, req)
      PROVE  Work!Next
  BY <1>4, CompleteAndAskSeen
<1>5. ASSUME NEW k \in Keys, TransitionPending(k)
      PROVE  Work!Next
  BY <1>5, ResubmitSeen DEF Work!Next
<1>6. ASSUME NEW k \in Keys, RetirePendingExact(k)
      PROVE  Work!Next
  <2>1. /\ jobs[k].status = "pending" /\ jobs \in [Keys -> Row]
        /\ jobs' = [jobs EXCEPT ![k] = ClosePendingRow(jobs[k])]
    BY <1>6 DEF RetirePendingExact, IInv, TypeOK
  <2>2. jobs' = [j \in Keys |-> IF j \in {k} THEN ClosePendingRow(jobs[j]) ELSE jobs[j]]
    BY <2>1
  <2>3. Work!Close({k})
    BY <2>1, <2>2, CloseSeen
  <2>4. QED
    BY <2>3 DEF Work!Next
<1>7. CASE ReconcilePost
  <2> DEFINE ks == {k \in Keys : k \in reconciling /\ jobs[k].status = "pending"}
  <2>1. jobs' = [k \in Keys |-> IF k \in ks THEN ClosePendingRow(jobs[k]) ELSE jobs[k]]
    BY <1>7 DEF ReconcilePost
  <2>2. CASE ks = {}
    <3>1. jobs' = jobs
      BY <2>1, <2>2, RowFacts
    <3>2. QED
      BY <3>1, SameSeen
  <2>3. CASE ks # {}
    <3>1. ks \in SUBSET Keys /\ \A k \in ks : jobs[k].status = "pending"
      OBVIOUS
    <3> HIDE DEF ks
    <3>2. Work!Close(ks)
      BY <2>1, <2>3, <3>1, CloseSeen
    <3>3. QED
      BY <3>1, <3>2 DEF Work!Next
  <2>4. QED
    BY <2>2, <2>3
<1>8. ASSUME NEW k \in Keys, LeaseExpires(k) \/ BecomesDue(k)
      PROVE  UNCHANGED Work!work
  <2> DEFINE r == jobs[k]
             s == IF r.lease = "live" /\ LeaseExpires(k)
                  THEN [r EXCEPT !.lease = "expired"] ELSE [r EXCEPT !.due = TRUE]
  <2>1. r \in Row /\ RowOK(r, queued[k])
    BY RowFacts
  <2>2. jobs' = [jobs EXCEPT ![k] = s]
    BY <1>8 DEF LeaseExpires, BecomesDue
  <2>3. RowOK(s, queued[k])
    BY <2>1, TimeRowOK
  <2>4. /\ s.token = r.token /\ s.status = r.status /\ s.attempts = r.attempts
        /\ s.maxAttempts = r.maxAttempts /\ s.rerun = r.rerun
    BY <2>1 DEF Row
  <2>5. Kept(r, s, queued[k])
    BY <2>3, <2>4 DEF Kept
  <2> HIDE DEF s
  <2>6. QED
    BY <2>2, <2>5, KeptSeen
<1>9. CASE RecoverExpired \/ Startup
  BY <1>9, RecoverSeen DEF RecoverExpired, Startup
<1>10. CASE \/ \E e \in execs : Abandon(e)
            \/ \E ks \in SUBSET ExternalKeys : ReconcileRead(ks)
            \/ Crash
            \/ UNCHANGED vars
  <2>1. jobs' = jobs
    BY <1>10 DEF Abandon, ReconcileRead, Crash, vars
  <2>2. QED
    BY <2>1, SameSeen
<1>11. QED
  BY <1>1, <1>2, <1>3, <1>4, <1>5, <1>6, <1>7, <1>8, <1>9, <1>10, ReportSeen
  DEF Next, QueueNext, ReconcileNext

(* The durable queue implements LeasedWork: whatever the interleaving of   *)
(* claims, stale reports, recoveries, restarts and reconciliations, a user *)
(* sees work that waits, is leased to one holder, and is done or dead, and *)
(* a holder that finishes with a debt puts the work back.                  *)
THEOREM QueueImplementsLeasedWork == Spec => ImplementsLeasedWork
  BY InitSeen, NextSeen, IInvHolds, PTL DEF Spec, ImplementsLeasedWork, Work!Spec
=============================================================================
