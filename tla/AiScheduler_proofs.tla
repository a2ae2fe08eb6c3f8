------------------------- MODULE AiScheduler_proofs -------------------------
(***************************************************************************)
(* Proofs about AiScheduler for any number of groups, lanes, attempts and  *)
(* requests, and for any bounds.                                           *)
(*                                                                         *)
(* The argument follows the number of an execution.  Wherever it is held,  *)
(* by a scheduler, a runner, a spooled or a stored result, it stands for   *)
(* the same job and the same requests (HeldOnce).  As long as a job is     *)
(* neither latched for a rerun nor asked for anew, its last execution      *)
(* answers all that was asked (LastAsks).  So a report under the last      *)
(* token, a recovery and a reconciliation that find a result find either   *)
(* the answer or another attempt's.                                        *)
(***************************************************************************)
EXTENDS AiScheduler, TLAPS

Working == {"claimed", "wait", "complete", "failed", "raised"}

(* Execution i was begun for job j when a requests had been made for it. *)
Holds(j, i, a) ==
    \/ \E l \in Lanes : /\ sched[l].pc \in Working
                        /\ sched[l].job = j /\ sched[l].id = i /\ sched[l].asked = a
    \/ \E c \in children : c.job = j /\ c.id = i /\ c.asked = a
    \/ \E r \in spool \cup analyses : r.job = j /\ r.id = i /\ r.asked = a

HeldOnce ==
    \A j, k \in Jobs, i \in Tokens, a, b \in Nat :
        Holds(j, i, a) /\ Holds(k, i, b) => j = k /\ a = b

(* Executions are of the past, and so are the requests they answer. *)
HeldPast ==
    /\ \A j \in Jobs, i \in Tokens, a \in Nat : Holds(j, i, a) => i <= clock /\ a <= asked[j]
    /\ \A l \in Lanes : sched[l].pc \in Working => sched[l].id \in Tokens

(* The token on a row is the number of the last claim. *)
LastClaim ==
    \A j \in Jobs : /\ startedAt[j] <= clock
                    /\ jobs[j].status = "processing" =>
                          jobs[j].token = startedAt[j] /\ jobs[j].started

Unlatched(r) == r.status \in {"pending", "processing"} /\ r.started /\ ~r.rerun

LastAsks ==
    \A j \in Jobs, a \in Nat :
        Unlatched(jobs[j]) /\ Holds(j, startedAt[j], a) => a = asked[j]

WaivedPast == \A j \in Jobs : waived[j] <= asked[j]

(* What recovery read of an execution stays true while it is the last. *)
Proven(x) ==
    /\ x[2] <= clock
    /\ startedAt[x[1]] = x[2] => \E r \in analyses : r.job = x[1] /\ r.at >= x[2]

Stored(s) == \E r \in analyses : r.job = s.job /\ r.id = s.id /\ r.asked = s.asked

Sent(c) == c.step \in {"unlink", "finish"} => Output(c) \in analyses

Evidence ==
    /\ \A l \in Lanes : \A x \in sched[l].stranded : Proven(x)
    /\ \A l \in Lanes : sched[l].pc = "complete" => Stored(sched[l])
    /\ \A c \in children : Sent(c)

Settled(j) == Answered(j) \/ Adopted(j) \/ (j = Analyst(j[1]) /\ j[1] \in overtaken)

IInv ==
    /\ TypeOK
    /\ HeldOnce /\ HeldPast
    /\ LastClaim /\ LastAsks /\ WaivedPast
    /\ Evidence
    /\ CompletedIsAnswered

-----------------------------------------------------------------------------
(* The rows the statements write are rows of the table. *)
LEMMA RowTypes ==
    ASSUME NEW r \in Row
    PROVE  /\ \A t \in Tokens : ClaimRow(r, t) \in Row
           /\ EnqueueRow(r, Asking) \in Row
           /\ CompleteRow(r) \in Row
           /\ \A b \in BOOLEAN : ReportFailedRow(r, b) \in Row
           /\ HeartbeatRow(r) \in Row
           /\ RecoverRow(r) \in Row
           /\ ClosePendingRow(r) \in Row
           /\ [r EXCEPT !.lease = "expired"] \in Row
           /\ [r EXCEPT !.due = TRUE] \in Row
<1>1. /\ r.priority \in Nat /\ r.attempts \in Nat /\ r.maxAttempts \in Nat
      /\ r.payload \in Payloads \cup {NoPayload} /\ r.due \in BOOLEAN
      /\ r.lease \in {"none", "live", "expired"} /\ r.token \in Tokens \cup {NoToken}
      /\ r.started \in BOOLEAN /\ r.rerun \in BOOLEAN /\ r.status \in Statuses
      /\ r.attempts + 1 \in Nat
  BY DEF Row
<1>2. Asking \in Request
  BY AiSchedulerAssumption DEF Asking, Request
<1>3. EnqueueRow(r, Asking) \in Row
  <2>1. \A req \in Request : req.priority \in Nat /\ req.maxAttempts \in Nat /\ req.payload \in Payloads
    BY DEF Request
  <2>2. \A req \in Request : EnqueueRow(r, req) \in Row
    BY <1>1, <2>1 DEF EnqueueRow, Row, Statuses
  <2> QED BY <2>2, <1>2
<1>4. \A t \in Tokens : ClaimRow(r, t) \in Row
  <2>1. \A n \in Nat, t \in Tokens :
           [r EXCEPT !.status = "processing", !.attempts = n, !.lease = "live",
                     !.token = t, !.started = TRUE, !.rerun = FALSE] \in Row
    BY DEF Row, Statuses
  <2> QED BY <2>1, <1>1 DEF ClaimRow
<1>5. RequeueRow(r) \in Row
  BY DEF RequeueRow, Row, Statuses
<1>6. \A m, n : \A b \in BOOLEAN : FailRow(r, m, n, b) \in Row
  <2>1. \A s \in Statuses :
           [r EXCEPT !.status = s, !.due = FALSE, !.lease = "none", !.token = NoToken] \in Row
    BY DEF Row
  <2> QED BY <2>1 DEF FailRow, Statuses
<1>7. CompleteRow(r) \in Row
  <2>1. [r EXCEPT !.status = "completed", !.lease = "none", !.token = NoToken] \in Row
    BY DEF Row, Statuses
  <2> QED BY <1>5, <2>1 DEF CompleteRow
<1>8. \A b \in BOOLEAN : ReportFailedRow(r, b) \in Row
  BY <1>5, <1>6 DEF ReportFailedRow
<1>9. RecoverRow(r) \in Row
  BY <1>6 DEF RecoverRow
<1>10. HeartbeatRow(r) \in Row
  BY DEF HeartbeatRow, Row
<1>11. ClosePendingRow(r) \in Row
  BY DEF ClosePendingRow, Row, Statuses
<1>12. [r EXCEPT !.lease = "expired"] \in Row /\ [r EXCEPT !.due = TRUE] \in Row
  BY DEF Row
<1> QED
  BY <1>3, <1>4, <1>7, <1>8, <1>9, <1>10, <1>11, <1>12

(* What a statement other than a claim and an enqueue does to a row: it    *)
(* begins no lease, clears no latch without taking the row's start away,   *)
(* and completes a row only if done says so.                               *)
Tame(r, q, done) ==
    /\ q.status = "processing" =>
          r.status = "processing" /\ q.token = r.token /\ q.started = r.started
    /\ Unlatched(q) => Unlatched(r)
    /\ q.status = "completed" => r.status = "completed" \/ done

LEMMA TameRows ==
    ASSUME NEW r \in Row
    PROVE  /\ \A b : Tame(r, r, b)
           /\ r.status = "processing" =>
                 /\ Tame(r, CompleteRow(r), Unlatched(r) \/ ~r.started)
                 /\ \A b \in BOOLEAN : Tame(r, ReportFailedRow(r, b), FALSE)
                 /\ Tame(r, HeartbeatRow(r), FALSE)
                 /\ Tame(r, RecoverRow(r), FALSE)
           /\ Tame(r, ClosePendingRow(r), TRUE)
           /\ Tame(r, [r EXCEPT !.lease = "expired"], FALSE)
           /\ r.status = "pending" => Tame(r, [r EXCEPT !.due = TRUE], FALSE)
<1> USE DEF Row, Tame, Unlatched, Statuses
<1>1. RequeueRow(r).status = "pending" /\ ~RequeueRow(r).started
  BY DEF RequeueRow
<1>2. \A m, n, b : /\ FailRow(r, m, n, b).status \in {"failed", "pending"}
                   /\ FailRow(r, m, n, b).started = r.started
                   /\ FailRow(r, m, n, b).rerun = r.rerun
  BY DEF FailRow
<1>3. r.status = "processing" => Tame(r, CompleteRow(r), Unlatched(r) \/ ~r.started)
  <2>1. CASE r.rerun
    BY <1>1, <2>1 DEF CompleteRow
  <2>2. CASE ~r.rerun
    BY <2>2 DEF CompleteRow
  <2> QED BY <2>1, <2>2
<1>4. r.status = "processing" => \A m, n, b : Tame(r, FailRow(r, m, n, b), FALSE)
  BY <1>2
<1>5. r.status = "processing" => \A b \in BOOLEAN : Tame(r, ReportFailedRow(r, b), FALSE)
  <2>1. Tame(r, RequeueRow(r), FALSE)
    BY <1>1
  <2> QED BY <2>1, <1>4 DEF ReportFailedRow
<1>6. r.status = "processing" => Tame(r, RecoverRow(r), FALSE)
  <2>1. RecoverRow(r) = FailRow(r, r.attempts, r.maxAttempts, TRUE)
    BY DEF RecoverRow
  <2> HIDE DEF Tame
  <2>2. r.status = "processing" => Tame(r, FailRow(r, r.attempts, r.maxAttempts, TRUE), FALSE)
    BY <1>4
  <2> QED BY <2>1, <2>2
<1> QED
  BY <1>3, <1>5, <1>6 DEF HeartbeatRow, ClosePendingRow

-----------------------------------------------------------------------------
(* Every step that begins no execution and makes no request: what is held  *)
(* was held before, rows change tamely, and what is new is proven.         *)
LEMMA Frame ==
    ASSUME IInv, TypeOK',
           UNCHANGED <<startedAt, clock, asked>>,
           \A j \in Jobs : waived[j] <= waived'[j] /\ waived'[j] <= asked[j],
           analyses \subseteq analyses', overtaken \subseteq overtaken',
           \A j \in Jobs : Tame(jobs[j], jobs'[j], Settled(j)'),
           \A l \in Lanes : \/ sched'[l] = sched[l]
                            \/ /\ sched'[l].pc \in Working =>
                                     /\ sched'[l].id \in Tokens
                                     /\ Holds(sched'[l].job, sched'[l].id, sched'[l].asked)
                               /\ sched'[l].pc = "complete" => Stored(sched'[l])
                               /\ \A x \in sched'[l].stranded :
                                     x \in sched[l].stranded \/ Proven(x),
           \A c \in children' : c \in children \/ (Holds(c.job, c.id, c.asked) /\ Sent(c)'),
           \A r \in spool' \cup analyses' : r \in spool \cup analyses \/ Holds(r.job, r.id, r.asked)
    PROVE  IInv'
<1> USE DEF IInv
<1>1. \A j, i, a : Holds(j, i, a)' => Holds(j, i, a)
  <2> TAKE j, i, a
  <2> HAVE Holds(j, i, a)'
  <2>1. CASE \E l \in Lanes : /\ sched'[l].pc \in Working
                              /\ sched'[l].job = j /\ sched'[l].id = i /\ sched'[l].asked = a
    BY <2>1 DEF Holds
  <2>2. CASE \E c \in children' : c.job = j /\ c.id = i /\ c.asked = a
    BY <2>2 DEF Holds
  <2>3. CASE \E r \in spool' \cup analyses' : r.job = j /\ r.id = i /\ r.asked = a
    BY <2>3 DEF Holds
  <2> QED BY <2>1, <2>2, <2>3 DEF Holds
<1>2. HeldOnce'
  BY <1>1 DEF HeldOnce
<1>3. HeldPast'
  <2>1. \A j \in Jobs, i \in Tokens, a \in Nat : Holds(j, i, a)' => i <= clock' /\ a <= asked'[j]
    BY <1>1 DEF HeldPast
  <2>2. \A l \in Lanes : sched'[l].pc \in Working => sched'[l].id \in Tokens
    BY DEF HeldPast
  <2> QED BY <2>1, <2>2 DEF HeldPast
<1>4. LastClaim'
  BY DEF LastClaim, Tame
<1>5. LastAsks'
  BY <1>1 DEF LastAsks, Tame
<1>6. WaivedPast'
  BY DEF WaivedPast
<1>7. Evidence'
  <2>1. \A x : Proven(x) => Proven(x)'
    BY DEF Proven
  <2>2. \A s : Stored(s) => Stored(s)'
    BY DEF Stored
  <2>3. \A c : Sent(c) => Sent(c)'
    BY DEF Sent, Output
  <2>4. \A l \in Lanes : \A x \in sched'[l].stranded : Proven(x)'
    BY <2>1 DEF Evidence
  <2>5. \A l \in Lanes : (sched[l].pc = "complete" => Stored(sched[l]))'
    <3> TAKE l \in Lanes
    <3>1. CASE sched'[l] = sched[l]
      BY <3>1, <2>2 DEF Evidence, Stored
    <3>2. CASE sched'[l] # sched[l]
      BY <3>2 DEF Stored
    <3> QED BY <3>1, <3>2
  <2>6. \A c \in children' : Sent(c)'
    BY <2>3 DEF Evidence
  <2> QED BY <2>4, <2>5, <2>6 DEF Evidence, Stored
<1>8. CompletedIsAnswered'
  <2> SUFFICES ASSUME NEW j \in Jobs, jobs'[j].status = "completed" PROVE Settled(j)'
    BY DEF CompletedIsAnswered, Settled
  <2>1. CASE jobs[j].status = "completed"
    <3>1. Answered(j) => Answered(j)'
      BY DEF Answered, TypeOK
    <3>2. Adopted(j) => Adopted(j)'
      BY DEF Adopted
    <3> QED BY <2>1, <3>1, <3>2 DEF CompletedIsAnswered, Settled
  <2>2. CASE jobs[j].status # "completed"
    BY <2>2 DEF Tame
  <2> QED BY <2>1, <2>2
<1> QED
  BY <1>2, <1>3, <1>4, <1>5, <1>6, <1>7, <1>8

-----------------------------------------------------------------------------
(* A call costs at most one fault. *)
LEMMA CallType == ASSUME TypeOK, NEW o, Call(o) PROVE faults' \in 0..MaxFaults
  BY AiSchedulerAssumption DEF TypeOK, Call

(* Rows that are not touched, and untouched tables, are tame. *)
LEMMA Untouched ==
    ASSUME IInv, UNCHANGED jobs
    PROVE  \A j \in Jobs : Tame(jobs[j], jobs'[j], Settled(j)')
  BY DEF Tame

LEMMA WaivedSame ==
    ASSUME IInv, UNCHANGED <<waived, asked>>
    PROVE  \A j \in Jobs : waived[j] <= waived'[j] /\ waived'[j] <= asked[j]
  BY DEF IInv, TypeOK, WaivedPast

(* What is spooled or stored is held by its own number. *)
LEMMA ResultHolds ==
    ASSUME NEW r \in spool \cup analyses PROVE Holds(r.job, r.id, r.asked)
  BY DEF Holds

(* The submission of a result loses nothing that is stored. *)
LEMMA SubmitSafe ==
    ASSUME IInv, NEW r \in Result, NEW o, NEW u, Submit(r, o, u)
    PROVE  /\ analyses \subseteq analyses'
           /\ analyses' \subseteq Result /\ spool' \subseteq Result
           /\ faults' \in 0..MaxFaults
           /\ \A q \in spool' \cup analyses' : q \in spool \cup analyses \/ q = r
           /\ o \in {"ok", "lost"} => r \in analyses'
  BY CallType DEF IInv, TypeOK, Submit

LEMMA FlushPathSafe ==
    ASSUME IInv, NEW r \in Result, NEW o, FlushPath(r, o)
    PROVE  /\ analyses \subseteq analyses'
           /\ analyses' \subseteq Result /\ spool' \subseteq Result
           /\ faults' \in 0..MaxFaults
           /\ \A q \in spool' \cup analyses' : q \in spool \cup analyses
           /\ UNCHANGED finalized
<1>1. CASE o = "gone"
  BY <1>1 DEF FlushPath, IInv, TypeOK
<1>2. CASE o # "gone"
  BY <1>2, SubmitSafe DEF FlushPath
<1> QED BY <1>1, <1>2

-----------------------------------------------------------------------------
(* The start of a run. *)
LEMMA OffType == Off \in Scheduler
<1>1. PICK k : k \in Jobs
  <2>1. PICK g : g \in Groups
    BY AiSchedulerAssumption
  <2>2. <<g, "ai_analysis">> \in Jobs
    BY <2>1 DEF Jobs, Types
  <2> QED BY <2>2
<1>2. (CHOOSE j \in Jobs : TRUE) \in Jobs
  BY <1>1, Zenon
<1> QED BY <1>2 DEF Off, Scheduler, Pcs

(* A scheduler that stops working, or has not begun to, holds nothing. *)
LEMMA LaunchInv == ASSUME IInv, NEW l \in Lanes, Launch(l) PROVE IInv'
<1> USE DEF IInv, Launch, store, files
<1>1. TypeOK'
  BY OffType DEF TypeOK, Scheduler, Pcs
<1>2. /\ sched'[l].pc = "flush" /\ sched'[l].stranded = {}
      /\ \A k \in Lanes : k # l => sched'[k] = sched[k]
  BY DEF TypeOK, Off
<1> HIDE DEF Launch
<1> QED BY <1>1, <1>2, Frame, Untouched, WaivedSame DEF Launch, Working

LEMMA FlushInv ==
    ASSUME IInv, NEW l \in Lanes, NEW r \in sched[l].listed, NEW o \in FlushOutcomes, Flush(l, r, o)
    PROVE  IInv'
<1> USE DEF IInv, store
<1>1. r \in Result /\ sched[l] \in Scheduler
  BY DEF TypeOK, Scheduler
<1>2. /\ analyses \subseteq analyses'
      /\ analyses' \subseteq Result /\ spool' \subseteq Result
      /\ faults' \in 0..MaxFaults
      /\ \A q \in spool' \cup analyses' : q \in spool \cup analyses
      /\ UNCHANGED finalized
  BY <1>1, FlushPathSafe DEF Flush
<1>3. /\ sched'[l] \in Scheduler /\ sched'[l].pc \in {"flush", "off"}
      /\ sched'[l].stranded \subseteq sched[l].stranded
      /\ sched' \in [Lanes -> Scheduler]
      /\ \A k \in Lanes : k # l => sched'[k] = sched[k]
  <2>1. sched' = [sched EXCEPT ![l] = IF FlushGoesOn(o) THEN [sched[l] EXCEPT !.listed = sched[l].listed \ {r}] ELSE Off]
    BY DEF Flush
  <2>2. sched'[l] = IF FlushGoesOn(o) THEN [sched[l] EXCEPT !.listed = sched[l].listed \ {r}] ELSE Off
    BY <2>1 DEF TypeOK
  <2>3. [sched[l] EXCEPT !.listed = sched[l].listed \ {r}] \in Scheduler /\ sched[l].pc = "flush"
    BY <1>1 DEF Scheduler, Flush
  <2>4. Off.pc = "off" /\ Off.stranded = {}
    BY DEF Off
  <2> QED BY <2>1, <2>2, <2>3, <2>4, <1>1, OffType DEF TypeOK, Scheduler
<1>4. TypeOK'
  BY <1>2, <1>3 DEF TypeOK, Flush
<1> QED BY <1>2, <1>3, <1>4, Frame, Untouched, WaivedSame DEF Flush, Working

LEMMA FlushDoneInv == ASSUME IInv, NEW l \in Lanes, FlushDone(l) PROVE IInv'
<1> USE DEF IInv, store, files
<1>1. \A x \in Stranded(l) : x \in Jobs \X Tokens /\ Proven(x)
  BY DEF Stranded, Proven, TypeOK, Row, LastClaim, ProvenRun
<1>2. /\ sched'[l].pc = "recover" /\ sched'[l].stranded = Stranded(l)
      /\ sched' \in [Lanes -> Scheduler]
      /\ \A k \in Lanes : k # l => sched'[k] = sched[k]
  <2>1. sched[l] \in Scheduler
    BY DEF TypeOK
  <2>2. [sched[l] EXCEPT !.pc = "recover", !.stranded = Stranded(l)] \in Scheduler
    BY <2>1, <1>1 DEF Scheduler, Pcs
  <2>3. sched' = [sched EXCEPT ![l] = [sched[l] EXCEPT !.pc = "recover", !.stranded = Stranded(l)]]
    BY DEF FlushDone, TypeOK
  <2> QED BY <2>1, <2>2, <2>3 DEF TypeOK, Scheduler
<1>3. TypeOK'
  BY <1>2 DEF TypeOK, FlushDone
<1> QED BY <1>1, <1>2, <1>3, Frame, Untouched, WaivedSame DEF FlushDone, Working

(* Where a scheduler goes next. *)
LEMMA GotoType ==
    ASSUME TypeOK, NEW l \in Lanes, NEW pc \in Pcs, Goto(l, pc)
    PROVE  /\ sched' \in [Lanes -> Scheduler]
           /\ \A k \in Lanes : k # l => sched'[k] = sched[k]
           /\ sched'[l].pc = pc
           /\ sched'[l].stranded \subseteq sched[l].stranded
           /\ pc # "select" => /\ sched'[l].job = sched[l].job /\ sched'[l].id = sched[l].id
                              /\ sched'[l].asked = sched[l].asked
<1>1. sched[l] \in Scheduler
  BY DEF TypeOK
<1>2. Turned(sched[l], pc) \in Scheduler
  <2>1. [Off EXCEPT !.pc = "select"] \in Scheduler
    BY OffType DEF Scheduler, Pcs
  <2>2. [sched[l] EXCEPT !.pc = pc] \in Scheduler
    BY <1>1 DEF Scheduler
  <2> QED BY <2>1, <2>2 DEF Turned
<1>3. sched'[l] = Turned(sched[l], pc) /\ \A k \in Lanes : k # l => sched'[k] = sched[k]
  BY DEF TypeOK, Goto
<1>4. sched' \in [Lanes -> Scheduler]
  BY <1>2 DEF TypeOK, Goto
<1>5. /\ Turned(sched[l], pc).pc = pc
      /\ Turned(sched[l], pc).stranded \subseteq sched[l].stranded
      /\ pc # "select" => /\ Turned(sched[l], pc).job = sched[l].job
                         /\ Turned(sched[l], pc).id = sched[l].id
                         /\ Turned(sched[l], pc).asked = sched[l].asked
  <2>1. Off.stranded = {} /\ [Off EXCEPT !.pc = "select"].stranded = {}
        /\ [Off EXCEPT !.pc = "select"].pc = "select"
    BY DEF Off
  <2> QED BY <2>1, <1>1 DEF Turned, Scheduler
<1> QED BY <1>3, <1>4, <1>5

-----------------------------------------------------------------------------
(* An analysis of the group no older than the last claim of a job that     *)
(* nobody asked for anew is its answer or another attempt's.               *)
LEMMA SettledByResult ==
    ASSUME IInv, NEW j \in Jobs, Unlatched(jobs[j]), NEW r \in analyses,
           \/ r.job[1] = j[1] /\ r.at >= startedAt[j]
           \/ r.job = j /\ r.id = startedAt[j]
    PROVE  Settled(j)
<1>1. CASE r.job = j /\ r.id = startedAt[j]
  <2>1. r.asked \in Nat
    BY DEF IInv, TypeOK, Result
  <2>2. Holds(j, startedAt[j], r.asked)
    BY <1>1 DEF Holds
  <2>3. r.asked = asked[j]
    BY <2>1, <2>2 DEF IInv, LastAsks
  <2> QED BY <1>1, <2>3 DEF Settled, Answered
<1>2. CASE ~(r.job = j /\ r.id = startedAt[j])
  BY <1>2 DEF Settled, Adopted
<1> QED BY <1>1, <1>2

LEMMA SettledStays ==
    ASSUME UNCHANGED <<analyses, startedAt, asked, waived>>, overtaken \subseteq overtaken',
           NEW j, Settled(j)
    PROVE  Settled(j)'
  BY DEF Settled, Answered, Adopted

(* A report that changes the row of a job only if its token is the last,   *)
(* completes it only if it has been settled, and is counted as a call.     *)
LEMMA ReportedTame ==
    ASSUME IInv, NEW j \in Jobs, NEW t, NEW row,
           jobs' = Reported(j, t, row),
           Owns(jobs[j], t) => Tame(jobs[j], row, Settled(j)')
    PROVE  \A k \in Jobs : Tame(jobs[k], jobs'[k], Settled(k)')
<1>1. CASE Owns(jobs[j], t)
  BY <1>1 DEF Reported, IInv, TypeOK, Tame
<1>2. CASE ~Owns(jobs[j], t)
  BY <1>2 DEF Reported, Tame
<1> QED BY <1>1, <1>2

LEMMA ReportedType ==
    ASSUME TypeOK, NEW j \in Jobs, NEW t, NEW row \in Row, jobs' = Reported(j, t, row)
    PROVE  jobs' \in [Jobs -> Row]
  BY DEF TypeOK, Reported

(* An owner completes its job: either the latch sends it back, or nobody   *)
(* asked anew.                                                             *)
LEMMA CompleteTame ==
    ASSUME IInv, NEW j \in Jobs, NEW t, Owns(jobs[j], t),
           Unlatched(jobs[j]) => Settled(j)'
    PROVE  Tame(jobs[j], CompleteRow(jobs[j]), Settled(j)')
<1>1. jobs[j] \in Row /\ jobs[j].status = "processing" /\ jobs[j].started
  BY DEF IInv, TypeOK, LastClaim, Owns
<1>2. Tame(jobs[j], CompleteRow(jobs[j]), Unlatched(jobs[j]) \/ ~jobs[j].started)
  BY <1>1, TameRows
<1> QED BY <1>1, <1>2 DEF Tame

-----------------------------------------------------------------------------
(* Recovery and reconciliation. *)
LEMMA RecoverReportInv ==
    ASSUME IInv, NEW l \in Lanes, NEW x \in sched[l].stranded, NEW o \in Outcomes, RecoverReport(l, x, o)
    PROVE  IInv'
<1> USE DEF IInv
<1>1. sched[l] \in Scheduler /\ x[1] \in Jobs /\ x[2] \in Tokens /\ jobs[x[1]] \in Row
  BY DEF TypeOK, Scheduler
<1>2. /\ sched' \in [Lanes -> Scheduler] /\ sched'[l].pc = "recover"
      /\ sched'[l].stranded \subseteq sched[l].stranded
      /\ \A k \in Lanes : k # l => sched'[k] = sched[k]
  BY <1>1 DEF TypeOK, RecoverReport, Scheduler
<1>3. overtaken' = overtaken /\ UNCHANGED <<analyses, startedAt, asked, waived>>
  BY DEF RecoverReport, files
<1>4. Owns(jobs[x[1]], x[2]) /\ Unlatched(jobs[x[1]]) => Settled(x[1])'
  <2> SUFFICES ASSUME Owns(jobs[x[1]], x[2]), Unlatched(jobs[x[1]]) PROVE Settled(x[1])
    BY <1>3, SettledStays
  <2>1. startedAt[x[1]] = x[2]
    BY <1>1 DEF LastClaim, Owns
  <2>2. PICK r \in analyses : r.job = x[1] /\ r.at >= x[2]
    BY <2>1 DEF Evidence, Proven
  <2> QED BY <1>1, <2>1, <2>2, SettledByResult
<1>5. /\ jobs' \in [Jobs -> Row]
      /\ \A k \in Jobs : Tame(jobs[k], jobs'[k], Settled(k)')
  <2>1. CASE o = "failed"
    BY <2>1, Untouched DEF RecoverReport, TypeOK
  <2>2. CASE o # "failed"
    <3>1. CompleteRow(jobs[x[1]]) \in Row
      BY <1>1, RowTypes
    <3>2. Owns(jobs[x[1]], x[2]) => Tame(jobs[x[1]], CompleteRow(jobs[x[1]]), Settled(x[1])')
      BY <1>1, <1>4, CompleteTame
    <3>3. jobs' = Reported(x[1], x[2], CompleteRow(jobs[x[1]]))
      BY <2>2 DEF RecoverReport
    <3>4. jobs' \in [Jobs -> Row]
      BY <1>1, <3>1, <3>3, ReportedType
    <3> QED BY <1>1, <3>2, <3>3, <3>4, ReportedTame
  <2> QED BY <2>1, <2>2
<1>6. TypeOK'
  BY <1>2, <1>5, CallType DEF TypeOK, RecoverReport, files
<1> QED BY <1>2, <1>3, <1>5, <1>6, Frame, WaivedSame DEF RecoverReport, files, Working

LEMMA RecoverDoneInv == ASSUME IInv, NEW l \in Lanes, RecoverDone(l) PROVE IInv'
<1> USE DEF IInv, store, files
<1>1. sched[l] \in Scheduler /\ ClosableGroups \in SUBSET Groups
  BY DEF TypeOK, ClosableGroups
<1>2. /\ sched' \in [Lanes -> Scheduler] /\ sched'[l].pc = "reconcile"
      /\ sched'[l].stranded \subseteq sched[l].stranded
      /\ \A k \in Lanes : k # l => sched'[k] = sched[k]
  <2>1. [sched[l] EXCEPT !.pc = "reconcile", !.closing = ClosableGroups] \in Scheduler
    BY <1>1 DEF Scheduler, Pcs
  <2>2. sched' = [sched EXCEPT ![l] = [sched[l] EXCEPT !.pc = "reconcile", !.closing = ClosableGroups]]
    BY DEF RecoverDone, TypeOK
  <2> QED BY <1>1, <2>1, <2>2 DEF TypeOK, Scheduler
<1>3. TypeOK'
  BY <1>2 DEF TypeOK, RecoverDone
<1> QED BY <1>2, <1>3, Frame, Untouched, WaivedSame DEF RecoverDone, Working

LEMMA ReconcilePostInv ==
    ASSUME IInv, NEW l \in Lanes, NEW o \in Outcomes, ReconcilePost(l, o)
    PROVE  IInv'
<1> USE DEF IInv
<1>1. sched[l] \in Scheduler /\ \A j \in Jobs : jobs[j] \in Row
  BY DEF TypeOK
<1>2. /\ sched' \in [Lanes -> Scheduler] /\ sched'[l].pc \in {"select", "off"}
      /\ sched'[l].stranded = {}
      /\ \A k \in Lanes : k # l => sched'[k] = sched[k]
  <2>1. [Off EXCEPT !.pc = "select"] \in Scheduler
    BY OffType DEF Scheduler, Pcs
  <2>2. Off.stranded = {} /\ Off.pc = "off" /\ [Off EXCEPT !.pc = "select"].stranded = {}
        /\ [Off EXCEPT !.pc = "select"].pc = "select"
    BY DEF Off
  <2> QED BY <2>1, <2>2, OffType DEF TypeOK, ReconcilePost
<1>3. overtaken \subseteq overtaken' /\ overtaken' \subseteq Groups
  BY <1>1 DEF ReconcilePost, TypeOK, Scheduler
<1>4. UNCHANGED <<analyses, startedAt, asked, waived>>
  BY DEF ReconcilePost, files
<1>5. CASE o = "failed"
  <2>1. UNCHANGED jobs
    BY <1>5 DEF ReconcilePost
  <2>2. TypeOK'
    BY <1>2, <1>3, <2>1, CallType DEF TypeOK, ReconcilePost, files
  <2> QED BY <1>2, <1>3, <1>4, <2>1, <2>2, Frame, Untouched, WaivedSame DEF ReconcilePost, files, Working
<1>6. CASE o # "failed"
  <2> DEFINE Shut(j) == /\ j[1] \in sched[l].closing
                        /\ j = Analyst(j[1])
                        /\ jobs[j].status = "pending"
  <2>1. jobs' = [j \in Jobs |-> IF Shut(j) THEN ClosePendingRow(jobs[j]) ELSE jobs[j]]
    BY <1>6 DEF ReconcilePost
  <2>2. jobs' \in [Jobs -> Row]
    BY <1>1, <2>1, RowTypes
  <2>3. ASSUME NEW j \in Jobs, Shut(j) PROVE Settled(j)'
    <3>1. CASE Closable(j[1])
      <4>1. PICK r \in analyses : r.job[1] = j[1] /\ r.at >= startedAt[j]
        BY <2>3, <3>1 DEF Closable
      <4>2. Unlatched(jobs[j])
        BY <2>3, <3>1 DEF Closable, Unlatched
      <4> QED BY <1>3, <1>4, <4>1, <4>2, SettledByResult, SettledStays
    <3>2. CASE ~Closable(j[1])
      <4>1. j[1] \in overtaken'
        BY <1>6, <2>3, <3>2 DEF ReconcilePost
      <4> QED BY <2>3, <4>1 DEF Settled
    <3> QED BY <3>1, <3>2
  <2>4. \A j \in Jobs : Tame(jobs[j], jobs'[j], Settled(j)')
    <3> TAKE j \in Jobs
    <3>1. CASE Shut(j)
      <4>1. Tame(jobs[j], ClosePendingRow(jobs[j]), TRUE)
        BY <1>1, TameRows
      <4> QED BY <2>1, <2>3, <3>1, <4>1 DEF Tame
    <3>2. CASE ~Shut(j)
      BY <2>1, <3>2 DEF Tame
    <3> QED BY <3>1, <3>2
  <2>5. TypeOK'
    BY <1>2, <1>3, <2>2, CallType DEF TypeOK, ReconcilePost, files
  <2> QED BY <1>2, <1>3, <1>4, <2>4, <2>5, Frame, WaivedSame DEF ReconcilePost, files, Working
<1> QED BY <1>5, <1>6

-----------------------------------------------------------------------------
(* Selection holds nothing yet. *)
LEMMA SelectedInv ==
    ASSUME IInv, NEW l \in Lanes, NEW j \in Jobs, NEW d \in BOOLEAN, Selected(l, j, d),
           bare' \in [Groups -> 0..MaxBare]
    PROVE  IInv'
<1> USE DEF IInv, store, files
<1>1. /\ sched' \in [Lanes -> Scheduler] /\ sched'[l].pc = "claim" /\ sched'[l].stranded = {}
      /\ \A k \in Lanes : k # l => sched'[k] = sched[k]
  <2>1. [Off EXCEPT !.pc = "claim", !.job = j, !.durable = d] \in Scheduler
    BY OffType DEF Scheduler, Pcs
  <2>2. /\ [Off EXCEPT !.pc = "claim", !.job = j, !.durable = d].pc = "claim"
        /\ [Off EXCEPT !.pc = "claim", !.job = j, !.durable = d].stranded = {}
    BY DEF Off
  <2> QED BY <2>1, <2>2 DEF TypeOK, Selected
<1>2. TypeOK'
  BY <1>1 DEF TypeOK, Selected
<1> QED BY <1>1, <1>2, Frame, Untouched, WaivedSame DEF Selected, Working

LEMMA SelectWorkInv == ASSUME IInv, NEW l \in Lanes, NEW j \in Jobs, SelectWork(l, j) PROVE IInv'
  BY SelectedInv DEF SelectWork, IInv, TypeOK

LEMMA SelectBareInv == ASSUME IInv, NEW l \in Lanes, NEW g \in Groups, SelectBare(l, g) PROVE IInv'
<1>1. Analyst(g) \in Jobs
  BY DEF Analyst, Jobs, Types
<1>2. bare' \in [Groups -> 0..MaxBare]
  BY AiSchedulerAssumption DEF SelectBare, IInv, TypeOK
<1> QED BY <1>1, <1>2, SelectedInv DEF SelectBare

LEMMA DrainEndsInv == ASSUME IInv, NEW l \in Lanes, DrainEnds(l) PROVE IInv'
<1> USE DEF IInv, store, files
<1>1. sched[l] \in Scheduler /\ ClosableGroups \in SUBSET Groups
  BY DEF TypeOK, ClosableGroups
<1>2. /\ sched' \in [Lanes -> Scheduler] /\ sched'[l].pc = "settle"
      /\ sched'[l].stranded \subseteq sched[l].stranded
      /\ \A k \in Lanes : k # l => sched'[k] = sched[k]
  <2>1. [sched[l] EXCEPT !.pc = "settle", !.closing = ClosableGroups] \in Scheduler
    BY <1>1 DEF Scheduler, Pcs
  <2>2. sched' = [sched EXCEPT ![l] = [sched[l] EXCEPT !.pc = "settle", !.closing = ClosableGroups]]
    BY DEF DrainEnds, TypeOK
  <2> QED BY <1>1, <2>1, <2>2 DEF TypeOK, Scheduler
<1>3. TypeOK'
  BY <1>2 DEF TypeOK, DrainEnds
<1> QED BY <1>2, <1>3, Frame, Untouched, WaivedSame DEF DrainEnds, Working

-----------------------------------------------------------------------------
(* A scheduler that only goes elsewhere. *)
LEMMA GotoInv ==
    ASSUME IInv, NEW l \in Lanes, NEW pc \in Pcs \ {"complete"}, Goto(l, pc),
           pc \in Working => sched[l].pc \in Working,
           UNCHANGED <<store, files, children, bare, crashes, overtaken>>,
           faults' \in 0..MaxFaults
    PROVE  IInv'
<1> USE DEF IInv, store, files
<1>1. /\ sched' \in [Lanes -> Scheduler]
      /\ \A k \in Lanes : k # l => sched'[k] = sched[k]
      /\ sched'[l].pc = pc
      /\ sched'[l].stranded \subseteq sched[l].stranded
      /\ pc # "select" => /\ sched'[l].job = sched[l].job /\ sched'[l].id = sched[l].id
                         /\ sched'[l].asked = sched[l].asked
  BY GotoType
<1>2. TypeOK'
  BY <1>1 DEF TypeOK
<1>3. sched'[l].pc \in Working =>
         /\ sched'[l].id \in Tokens
         /\ Holds(sched'[l].job, sched'[l].id, sched'[l].asked)
  BY <1>1 DEF Working, Holds, HeldPast
<1> QED BY <1>1, <1>2, <1>3, Frame, Untouched, WaivedSame

LEMMA ClaimRaisesInv == ASSUME IInv, NEW l \in Lanes, ClaimRaises(l) PROVE IInv'
<1>1. faults' \in 0..MaxFaults
  BY CallType DEF ClaimRaises, IInv
<1>2. "select" \in Pcs \ {"complete"} /\ "select" \notin Working
  BY DEF Pcs, Working
<1> QED BY <1>1, <1>2, GotoInv DEF ClaimRaises

LEMMA PrepareFailsInv == ASSUME IInv, NEW l \in Lanes, PrepareFails(l) PROVE IInv'
<1>1. faults' \in 0..MaxFaults
  BY DEF PrepareFails, IInv, TypeOK
<1>2. {"select", "raised"} \subseteq Pcs \ {"complete"} /\ "claimed" \in Working
      /\ "select" \notin Working
  BY DEF Pcs, Working
<1> QED BY <1>1, <1>2, GotoInv DEF PrepareFails

(* What a scheduler holds. *)
LEMMA SchedHolds ==
    ASSUME IInv, NEW l \in Lanes, sched[l].pc \in Working
    PROVE  /\ sched[l] \in Scheduler /\ sched[l].job \in Jobs /\ sched[l].id \in Tokens
           /\ sched[l].asked \in Nat
           /\ Holds(sched[l].job, sched[l].id, sched[l].asked)
           /\ sched[l].id <= clock /\ sched[l].asked <= asked[sched[l].job]
<1>1. /\ sched[l] \in Scheduler /\ sched[l].job \in Jobs /\ sched[l].id \in Tokens
      /\ sched[l].asked \in Nat
  BY DEF IInv, TypeOK, Scheduler, HeldPast
<1>2. Holds(sched[l].job, sched[l].id, sched[l].asked)
  BY DEF Holds
<1>3. sched[l].id <= clock /\ sched[l].asked <= asked[sched[l].job]
  BY <1>1, <1>2 DEF IInv, HeldPast
<1> QED BY <1>1, <1>2, <1>3

(* Its execution is the last one of a job it owns; what nobody asked anew  *)
(* is what it was begun for.                                               *)
LEMMA OwnerAsks ==
    ASSUME IInv, NEW l \in Lanes, sched[l].pc \in Working, Owns(jobs[sched[l].job], sched[l].id)
    PROVE  /\ startedAt[sched[l].job] = sched[l].id
           /\ Unlatched(jobs[sched[l].job]) => sched[l].asked = asked[sched[l].job]
<1>1. startedAt[sched[l].job] = sched[l].id
  BY SchedHolds DEF IInv, LastClaim, Owns
<1> QED BY <1>1, SchedHolds DEF IInv, LastAsks

LEMMA RetireInv ==
    ASSUME IInv, NEW l \in Lanes, NEW o \in Outcomes, Retire(l, o)
    PROVE  IInv'
<1>a. PICK j \in Jobs : j = sched[l].job
  BY SchedHolds DEF Retire, Working
<1> DEFINE row == IF j = Analyst(j[1]) THEN CompleteRow(jobs[j]) ELSE ReportFailedRow(jobs[j], FALSE)
           pc == IF o = "ok" THEN "select" ELSE "raised"
<1> USE DEF IInv
<1>1. /\ j = sched[l].job /\ jobs[j] \in Row /\ sched[l].id \in Tokens /\ sched[l].asked \in Nat
      /\ Holds(j, sched[l].id, sched[l].asked) /\ sched[l].asked <= asked[j]
      /\ sched[l].pc = "claimed" /\ sched[l].pc \in Working
  BY <1>a, SchedHolds DEF Retire, Working, TypeOK
<1>2. faults' \in 0..MaxFaults
  BY CallType DEF Retire
<1>3. pc \in Pcs \ {"complete"} /\ Goto(l, pc)
  BY DEF Retire, Pcs
<1>4. CASE o = "failed"
  <2>1. UNCHANGED <<store, files, children, bare, crashes, overtaken>>
    BY <1>4 DEF Retire, store
  <2> QED BY <1>1, <1>2, <1>3, <2>1, GotoInv
<1>5. CASE o # "failed"
  <2>1. /\ jobs' = Reported(j, sched[l].id, row)
        /\ waived' = [waived EXCEPT ![j] = Larger(waived[j], sched[l].asked)]
        /\ UNCHANGED <<startedAt, clock, asked, files, children, bare, crashes, overtaken>>
    BY <1>5, <1>a DEF Retire
  <2>2. \A k \in Jobs : waived[k] <= waived'[k] /\ waived'[k] <= asked[k] /\ waived'[k] \in Nat
    BY <1>1, <2>1 DEF WaivedPast, TypeOK, Larger
  <2>3. Owns(jobs[j], sched[l].id) /\ Unlatched(jobs[j]) => Settled(j)'
    <3> SUFFICES ASSUME Owns(jobs[j], sched[l].id), Unlatched(jobs[j]) PROVE Settled(j)'
      OBVIOUS
    <3>1. sched[l].asked = asked[j]
      BY <1>1, OwnerAsks
    <3>2. waived'[j] = asked'[j]
      BY <1>1, <2>1, <3>1 DEF WaivedPast, TypeOK, Larger
    <3> QED BY <3>2 DEF Settled, Answered
  <2>4. row \in Row /\ (Owns(jobs[j], sched[l].id) => Tame(jobs[j], row, Settled(j)'))
    <3>1. CASE j = Analyst(j[1])
      BY <1>1, <2>3, <3>1, RowTypes, CompleteTame
    <3>2. CASE j # Analyst(j[1])
      <4>1. Owns(jobs[j], sched[l].id) => Tame(jobs[j], ReportFailedRow(jobs[j], FALSE), FALSE)
        BY <1>1, TameRows DEF Owns
      <4> QED BY <1>1, <3>2, <4>1, RowTypes DEF Tame
    <3> QED BY <3>1, <3>2
  <2>5. jobs' \in [Jobs -> Row] /\ \A k \in Jobs : Tame(jobs[k], jobs'[k], Settled(k)')
    <3> HIDE DEF row
    <3>1. jobs' \in [Jobs -> Row]
      BY <1>1, <2>1, <2>4, ReportedType
    <3> QED BY <1>1, <2>1, <2>4, <3>1, ReportedTame
  <2>6. /\ sched' \in [Lanes -> Scheduler]
        /\ \A k \in Lanes : k # l => sched'[k] = sched[k]
        /\ sched'[l].pc = pc
        /\ sched'[l].stranded \subseteq sched[l].stranded
        /\ pc # "select" => /\ sched'[l].job = sched[l].job /\ sched'[l].id = sched[l].id
                           /\ sched'[l].asked = sched[l].asked
    BY <1>3, GotoType
  <2>7. TypeOK'
    BY <1>2, <2>1, <2>2, <2>5, <2>6 DEF TypeOK, files
  <2>8. sched'[l].pc \in Working =>
           /\ sched'[l].id \in Tokens
           /\ Holds(sched'[l].job, sched'[l].id, sched'[l].asked)
    BY <1>1, <2>6 DEF Working
  <2>9. sched'[l].pc # "complete"
    BY <2>6
  <2> QED BY <2>1, <2>2, <2>5, <2>6, <2>7, <2>8, <2>9, Frame DEF files
<1> QED BY <1>4, <1>5

(* The runner holds what its scheduler holds. *)
LEMMA StartRunnerInv == ASSUME IInv, NEW l \in Lanes, StartRunner(l) PROVE IInv'
<1> USE DEF IInv, store, files
<1> DEFINE s == sched[l]
           d == [job |-> s.job, id |-> s.id, asked |-> s.asked, at |-> 0, step |-> "flush", listed |-> spool]
<1>1. /\ s \in Scheduler /\ s.job \in Jobs /\ s.id \in Tokens /\ s.asked \in Nat
      /\ Holds(s.job, s.id, s.asked) /\ s.pc \in Working
  BY SchedHolds DEF StartRunner, Working
<1>2. /\ sched' \in [Lanes -> Scheduler]
      /\ \A k \in Lanes : k # l => sched'[k] = sched[k]
      /\ sched'[l].pc = "wait"
      /\ sched'[l].stranded \subseteq s.stranded
      /\ sched'[l].job = s.job /\ sched'[l].id = s.id /\ sched'[l].asked = s.asked
  <2>1. "wait" \in Pcs /\ Goto(l, "wait")
    BY DEF Pcs, StartRunner
  <2> QED BY <2>1, GotoType
<1>3. d \in Child /\ children' = children \cup {d}
  BY <1>1 DEF Child, StartRunner, TypeOK
<1>4. TypeOK'
  BY <1>2, <1>3 DEF TypeOK, StartRunner
<1>5. d.job = s.job /\ d.id = s.id /\ d.asked = s.asked /\ d.step = "flush"
  OBVIOUS
<1>6. \A c \in children' : c \in children \/ (Holds(c.job, c.id, c.asked) /\ Sent(c)')
  <2> TAKE c \in children'
  <2> HIDE DEF d
  <2>1. CASE c = d
    BY <1>1, <1>5, <2>1 DEF Sent
  <2>2. CASE c # d
    BY <1>3, <2>2
  <2> QED BY <2>1, <2>2
<1> QED BY <1>1, <1>2, <1>4, <1>6, Frame, Untouched, WaivedSame DEF StartRunner

-----------------------------------------------------------------------------
(* The number of a new execution is held by nobody else. *)
LEMMA Begins ==
    ASSUME IInv, TypeOK', NEW l \in Lanes, NEW j \in Jobs,
           clock < MaxRuns, clock' = clock + 1,
           UNCHANGED <<asked, waived, files, children>>,
           \A k \in Lanes : k # l => sched'[k] = sched[k],
           sched'[l].pc \in Working => /\ sched'[l].job = j /\ sched'[l].id = clock + 1
                                      /\ sched'[l].asked = asked[j],
           sched'[l].pc # "complete", sched'[l].stranded \subseteq sched[l].stranded,
           \A k \in Jobs :
              \/ /\ jobs'[k] = jobs[k] /\ startedAt'[k] = startedAt[k]
                 /\ k = Analyst(k[1]) /\ k[1] \in overtaken => k[1] \in overtaken'
              \/ /\ k = j /\ startedAt'[k] = clock + 1
                 /\ jobs'[k].status = "processing" /\ jobs'[k].token = clock + 1
                 /\ jobs'[k].started
    PROVE  IInv'
<1> USE DEF IInv
<1>1. /\ clock \in Nat /\ clock + 1 \in Tokens /\ \A i \in Tokens : i \in Nat
      /\ \A k \in Jobs : startedAt[k] \in Nat /\ startedAt[k] <= clock /\ asked[k] \in Nat
  BY AiSchedulerAssumption, SMTT(30) DEF TypeOK, LastClaim
<1>2. ASSUME NEW k, NEW i, NEW a, Holds(k, i, a)'
      PROVE  Holds(k, i, a) \/ (k = j /\ i = clock + 1 /\ a = asked[j])
  <2>1. CASE \E m \in Lanes : /\ sched'[m].pc \in Working
                              /\ sched'[m].job = k /\ sched'[m].id = i /\ sched'[m].asked = a
    BY <2>1 DEF Holds
  <2>2. CASE ~ \E m \in Lanes : /\ sched'[m].pc \in Working
                                /\ sched'[m].job = k /\ sched'[m].id = i /\ sched'[m].asked = a
    BY <1>2, <2>2 DEF Holds, files
  <2> QED BY <2>1, <2>2
<1>3. \A k \in Jobs, a \in Nat : ~Holds(k, clock + 1, a)
  BY <1>1 DEF HeldPast
<1>4. HeldOnce'
  BY <1>1, <1>2, <1>3 DEF HeldOnce
<1>5. HeldPast'
  <2>1. \A k \in Jobs, i \in Tokens, a \in Nat : Holds(k, i, a)' => i <= clock' /\ a <= asked'[k]
    BY <1>1, <1>2 DEF HeldPast
  <2>2. \A m \in Lanes : sched'[m].pc \in Working => sched'[m].id \in Tokens
    BY <1>1 DEF HeldPast
  <2> QED BY <2>1, <2>2 DEF HeldPast
<1>6. LastClaim'
  BY <1>1 DEF LastClaim
<1>7. LastAsks'
  <2> SUFFICES ASSUME NEW k \in Jobs, NEW a \in Nat, Unlatched(jobs'[k]),
                      Holds(k, startedAt[k], a)'
               PROVE  a = asked[k]
    BY DEF LastAsks, Unlatched
  <2>1. CASE startedAt'[k] = clock + 1
    <3>1. PICK i : i = startedAt'[k]
      OBVIOUS
    <3>2. Holds(k, i, a)'
      BY <3>1
    <3> QED BY <1>2, <1>3, <2>1, <3>1, <3>2
  <2>2. CASE startedAt'[k] # clock + 1
    <3>1. PICK i : i = startedAt'[k]
      OBVIOUS
    <3>2. Holds(k, i, a)' /\ i = startedAt[k] /\ i # clock + 1 /\ jobs'[k] = jobs[k]
      BY <2>2, <3>1
    <3>3. Holds(k, i, a)
      BY <1>2, <3>2
    <3> QED BY <3>2, <3>3 DEF LastAsks
  <2> QED BY <2>1, <2>2
<1>8. WaivedPast'
  BY DEF WaivedPast
<1>9. Evidence'
  <2>1. \A m \in Lanes : \A x \in sched'[m].stranded : x \in sched[m].stranded
    OBVIOUS
  <2>2. ASSUME NEW m \in Lanes, NEW x \in sched'[m].stranded PROVE Proven(x)'
    <3>1. x[1] \in Jobs /\ x[2] \in Tokens /\ Proven(x)
      BY <2>1, <2>2 DEF TypeOK, Scheduler, Evidence
    <3> QED BY <1>1, <3>1 DEF Proven, files
  <2>3. \A m \in Lanes : (sched[m].pc = "complete" => Stored(sched[m]))'
    <3> TAKE m \in Lanes
    <3>1. CASE m = l
      BY <3>1
    <3>2. CASE m # l
      BY <3>2 DEF Stored, files, Evidence
    <3> QED BY <3>1, <3>2
  <2>4. \A c \in children' : Sent(c)'
    BY DEF Sent, Output, files, Evidence
  <2> QED BY <2>2, <2>3, <2>4 DEF Evidence
<1>10. CompletedIsAnswered'
  <2> SUFFICES ASSUME NEW k \in Jobs, jobs'[k].status = "completed" PROVE Settled(k)'
    BY DEF CompletedIsAnswered, Settled
  <2>1. /\ jobs'[k] = jobs[k] /\ startedAt'[k] = startedAt[k]
        /\ k = Analyst(k[1]) /\ k[1] \in overtaken => k[1] \in overtaken'
    OBVIOUS
  <2>2. Settled(k)
    BY <2>1 DEF CompletedIsAnswered, Settled
  <2> QED BY <2>1, <2>2 DEF Settled, Answered, Adopted, files
<1> QED
  BY <1>4, <1>5, <1>6, <1>7, <1>8, <1>9, <1>10

(* What an execution begins with. *)
LEMMA BegunType ==
    ASSUME IInv, NEW l \in Lanes, NEW b \in BOOLEAN, clock < MaxRuns
    PROVE  /\ Begun(l, b) \in Scheduler /\ Begun(l, b).pc = "claimed"
           /\ Begun(l, b).job = sched[l].job /\ Begun(l, b).id = clock + 1
           /\ Begun(l, b).asked = asked[sched[l].job]
           /\ Begun(l, b).stranded = sched[l].stranded
<1>1. sched[l] \in Scheduler /\ sched[l].job \in Jobs /\ clock + 1 \in Nat
  BY AiSchedulerAssumption DEF IInv, TypeOK, Scheduler
<1>2. asked[sched[l].job] \in Nat
  BY <1>1 DEF IInv, TypeOK
<1> QED BY <1>1, <1>2 DEF Begun, Scheduler, Pcs

LEMMA SelectingType ==
    /\ [Off EXCEPT !.pc = "select"] \in Scheduler
    /\ [Off EXCEPT !.pc = "select"].pc = "select"
    /\ [Off EXCEPT !.pc = "select"].stranded = {}
<1>1. Off.stranded = {}
  BY DEF Off
<1> QED BY <1>1, OffType DEF Scheduler, Pcs

LEMMA ClaimInv == ASSUME IInv, NEW l \in Lanes, NEW o \in Outcomes, Claim(l, o) PROVE IInv'
<1> USE DEF IInv
<1>1. PICK j \in Jobs : j = sched[l].job
  BY DEF TypeOK, Scheduler
<1>2. clock < MaxRuns /\ faults' \in 0..MaxFaults /\ jobs[j] \in Row
  BY CallType DEF Claim, TypeOK
<1>3. /\ sched' \in [Lanes -> Scheduler]
      /\ \A k \in Lanes : k # l => sched'[k] = sched[k]
      /\ sched'[l] = IF o = "ok" THEN Begun(l, TRUE) ELSE [Off EXCEPT !.pc = "select"]
  BY <1>2, BegunType, SelectingType DEF Claim, TypeOK
<1>4. sched'[l].stranded \subseteq sched[l].stranded
  BY <1>2, <1>3, BegunType, SelectingType
<1>5. CASE o = "failed"
  <2>1. UNCHANGED <<store, files, children, bare, crashes, overtaken>>
    BY <1>5 DEF Claim, store
  <2>2. TypeOK'
    BY <1>2, <1>3, <2>1 DEF TypeOK, store, files
  <2>3. sched'[l].pc = "select"
    BY <1>3, <1>5, SelectingType
  <2> QED BY <1>3, <1>4, <2>1, <2>2, <2>3, Frame, Untouched, WaivedSame DEF store, files, Working
<1>6. CASE o # "failed"
  <2>1. /\ jobs' = [jobs EXCEPT ![j] = ClaimRow(jobs[j], clock + 1)]
        /\ startedAt' = [startedAt EXCEPT ![j] = clock + 1]
        /\ clock' = clock + 1
        /\ overtaken' = IF j = Analyst(j[1]) THEN overtaken \ {j[1]} ELSE overtaken
        /\ UNCHANGED <<asked, waived, files, children, bare, crashes>>
    BY <1>1, <1>6 DEF Claim
  <2>2. clock + 1 \in Tokens /\ clock + 1 \in 0..MaxRuns
    BY <1>2, AiSchedulerAssumption DEF TypeOK
  <2>3. /\ ClaimRow(jobs[j], clock + 1) \in Row
        /\ ClaimRow(jobs[j], clock + 1).status = "processing"
        /\ ClaimRow(jobs[j], clock + 1).token = clock + 1
        /\ ClaimRow(jobs[j], clock + 1).started
    <3>1. ClaimRow(jobs[j], clock + 1) \in Row
      BY <1>2, <2>2, RowTypes
    <3>2. \A r \in Row, n \in Tokens :
              /\ ClaimRow(r, n).status = "processing" /\ ClaimRow(r, n).token = n
              /\ ClaimRow(r, n).started
      BY DEF ClaimRow, Row
    <3> QED BY <1>2, <2>2, <3>1, <3>2
  <2>4. jobs' \in [Jobs -> Row] /\ startedAt' \in [Jobs -> 0..MaxRuns] /\ overtaken' \subseteq Groups
    BY <2>1, <2>2, <2>3 DEF TypeOK
  <2>5. TypeOK'
    BY <1>2, <1>3, <2>1, <2>2, <2>4 DEF TypeOK, files
  <2>6. \A k \in Jobs :
           \/ /\ jobs'[k] = jobs[k] /\ startedAt'[k] = startedAt[k]
              /\ k = Analyst(k[1]) /\ k[1] \in overtaken => k[1] \in overtaken'
           \/ /\ k = j /\ startedAt'[k] = clock + 1
              /\ jobs'[k].status = "processing" /\ jobs'[k].token = clock + 1
              /\ jobs'[k].started
    <3> TAKE k \in Jobs
    <3>1. CASE k = j
      BY <2>1, <2>3, <3>1 DEF TypeOK
    <3>2. CASE k # j
      BY <2>1, <3>2 DEF TypeOK
    <3> QED BY <3>1, <3>2
  <2>7. sched'[l].pc # "complete" /\
        (sched'[l].pc \in Working => /\ sched'[l].job = j /\ sched'[l].id = clock + 1
                                     /\ sched'[l].asked = asked[j])
    BY <1>1, <1>2, <1>3, BegunType, SelectingType DEF Working
  <2> QED BY <1>2, <1>3, <1>4, <2>1, <2>5, <2>6, <2>7, Begins
<1> QED BY <1>5, <1>6

LEMMA ClaimRefusedInv == ASSUME IInv, NEW l \in Lanes, ClaimRefused(l) PROVE IInv'
<1> USE DEF IInv
<1>1. CASE sched[l].durable
  <2>1. /\ Goto(l, "select") /\ faults' \in 0..MaxFaults
        /\ UNCHANGED <<store, files, children, bare, crashes, overtaken>>
    BY <1>1 DEF ClaimRefused, store, TypeOK
  <2>2. "select" \in Pcs \ {"complete"} /\ "select" \notin Working
    BY DEF Pcs, Working
  <2> QED BY <2>1, <2>2, GotoInv
<1>2. CASE ~sched[l].durable
  <2>1. PICK j \in Jobs : j = sched[l].job
    BY DEF TypeOK, Scheduler
  <2>2. /\ clock < MaxRuns /\ clock' = clock + 1
        /\ sched' = [sched EXCEPT ![l] = Begun(l, FALSE)]
        /\ UNCHANGED <<jobs, startedAt, asked, waived, files, children, bare, faults, crashes, overtaken>>
    BY <1>2 DEF ClaimRefused
  <2>3. /\ sched' \in [Lanes -> Scheduler]
        /\ \A k \in Lanes : k # l => sched'[k] = sched[k]
        /\ sched'[l] = Begun(l, FALSE)
    BY <2>2, BegunType DEF TypeOK
  <2>4. clock + 1 \in 0..MaxRuns
    BY <2>2, AiSchedulerAssumption DEF TypeOK
  <2>5. TypeOK'
    BY <2>2, <2>3, <2>4 DEF TypeOK, files
  <2>6. /\ sched'[l].pc = "claimed" /\ sched'[l].job = j /\ sched'[l].id = clock + 1
        /\ sched'[l].asked = asked[j] /\ sched'[l].stranded \subseteq sched[l].stranded
    BY <2>1, <2>2, <2>3, BegunType
  <2> QED BY <2>2, <2>3, <2>5, <2>6, Begins
<1> QED BY <1>1, <1>2

-----------------------------------------------------------------------------
(* What a runner holds. *)
LEMMA ChildHolds ==
    ASSUME IInv, NEW c \in children
    PROVE  /\ c \in Child /\ c.job \in Jobs /\ c.id \in Tokens /\ c.asked \in Nat
           /\ Holds(c.job, c.id, c.asked) /\ Output(c) \in Result
           /\ Output(c).job = c.job /\ Output(c).id = c.id /\ Output(c).asked = c.asked
<1>1. c \in Child
  BY DEF IInv, TypeOK
<1>2. Holds(c.job, c.id, c.asked)
  BY DEF Holds
<1> QED BY <1>1, <1>2 DEF Child, Output, Result

(* A runner that goes on: what it becomes holds the same.  What it writes  *)
(* is its own result, or was there before.                                 *)
LEMMA BecomesInv ==
    ASSUME IInv, NEW c \in children, NEW d \in Child, Becomes(c, d),
           d.job = c.job, d.id = c.id, d.asked = c.asked, Sent(d)',
           analyses \subseteq analyses',
           spool' \subseteq Result, analyses' \subseteq Result, UNCHANGED finalized,
           \A q \in spool' \cup analyses' :
              q \in spool \cup analyses \/ (q.job = c.job /\ q.id = c.id /\ q.asked = c.asked),
           faults' \in 0..MaxFaults
    PROVE  IInv'
<1> USE DEF IInv, store
<1>1. children' \subseteq children \cup {d}
  BY DEF Becomes
<1>2. TypeOK'
  BY <1>1 DEF TypeOK, Becomes
<1>3. Holds(c.job, c.id, c.asked)
  BY ChildHolds
<1>4. \A e \in children' : e \in children \/ (Holds(e.job, e.id, e.asked) /\ Sent(e)')
  BY <1>1, <1>3
<1>5. \A q \in spool' \cup analyses' : q \in spool \cup analyses \/ Holds(q.job, q.id, q.asked)
  BY <1>3
<1> QED BY <1>2, <1>4, <1>5, Frame, Untouched, WaivedSame DEF Becomes

(* A runner that ends: the scheduler that waits for it learns its outcome. *)
LEMMA ExitsInv ==
    ASSUME IInv, NEW c \in children, NEW pc \in {"failed", "raised", "complete"}, Exits(c, pc),
           pc = "complete" => Output(c) \in analyses,
           analyses \subseteq analyses',
           spool' \subseteq Result, analyses' \subseteq Result, finalized' \subseteq Tokens,
           \A q \in spool' \cup analyses' :
              q \in spool \cup analyses \/ (q.job = c.job /\ q.id = c.id /\ q.asked = c.asked),
           faults' \in 0..MaxFaults
    PROVE  IInv'
<1> USE DEF IInv, store
<1> DEFINE next(l) == IF sched[l].leased THEN pc ELSE "select"
<1>1. /\ c.job \in Jobs /\ c.id \in Tokens /\ c.asked \in Nat /\ Holds(c.job, c.id, c.asked)
      /\ Output(c).job = c.job /\ Output(c).id = c.id /\ Output(c).asked = c.asked
  BY ChildHolds
<1>2. ASSUME NEW l \in Lanes, Waits(l, c)
      PROVE  /\ sched'[l] \in Scheduler
             /\ sched'[l].pc = next(l)
             /\ sched'[l].stranded \subseteq sched[l].stranded
             /\ next(l) # "select" => /\ sched'[l].job = c.job /\ sched'[l].id = c.id
                                     /\ sched'[l].asked = c.asked
  <2>1. sched'[l] = Turned(sched[l], next(l))
    BY <1>2 DEF Exits
  <2>2. /\ sched[l] \in Scheduler /\ sched[l].id = c.id
        /\ sched[l].job = c.job /\ sched[l].asked = c.asked
    <3>1. sched[l].pc \in Working /\ sched[l].id = c.id
      BY <1>2 DEF Waits, Working
    <3>2. /\ sched[l] \in Scheduler /\ sched[l].job \in Jobs /\ sched[l].asked \in Nat
          /\ Holds(sched[l].job, sched[l].id, sched[l].asked)
      BY <3>1, SchedHolds
    <3> QED BY <1>1, <3>1, <3>2 DEF HeldOnce
  <2>3. CASE next(l) = "select"
    BY <2>1, <2>3, SelectingType DEF Turned
  <2>4. CASE next(l) # "select"
    <3>1. Turned(sched[l], next(l)) = [sched[l] EXCEPT !.pc = next(l)]
      BY <2>4 DEF Turned
    <3>2. next(l) \in Pcs
      BY DEF Pcs
    <3> HIDE DEF next
    <3> QED BY <2>1, <2>2, <3>1, <3>2 DEF Scheduler
  <2> QED BY <2>3, <2>4
<1>3. ASSUME NEW l \in Lanes, ~Waits(l, c) PROVE sched'[l] = sched[l]
  BY <1>3 DEF Exits
<1>4. sched' \in [Lanes -> Scheduler]
  <2>1. \A l \in Lanes : sched'[l] \in Scheduler
    BY <1>2, <1>3 DEF TypeOK
  <2> QED BY <2>1 DEF Exits
<1>5. children' \subseteq children
  BY DEF Exits
<1>6. TypeOK'
  BY <1>4, <1>5 DEF TypeOK, Exits
<1>7. \A l \in Lanes :
         \/ sched'[l] = sched[l]
         \/ /\ sched'[l].pc \in Working => /\ sched'[l].id \in Tokens
                                           /\ Holds(sched'[l].job, sched'[l].id, sched'[l].asked)
            /\ sched'[l].pc = "complete" => Stored(sched'[l])
            /\ \A x \in sched'[l].stranded : x \in sched[l].stranded \/ Proven(x)
  <2> TAKE l \in Lanes
  <2>1. CASE Waits(l, c)
    <3>1. sched'[l].pc \in Working => /\ sched'[l].id \in Tokens
                                      /\ Holds(sched'[l].job, sched'[l].id, sched'[l].asked)
      BY <1>1, <1>2, <2>1 DEF Working
    <3>2. sched'[l].pc = "complete" => Stored(sched'[l])
      BY <1>1, <1>2, <2>1 DEF Stored
    <3> QED BY <1>2, <2>1, <3>1, <3>2
  <2>2. CASE ~Waits(l, c)
    BY <1>3, <2>2
  <2> QED BY <2>1, <2>2
<1>8. \A q \in spool' \cup analyses' : q \in spool \cup analyses \/ Holds(q.job, q.id, q.asked)
  BY <1>1
<1> QED BY <1>5, <1>6, <1>7, <1>8, Frame, Untouched, WaivedSame DEF Exits

LEMMA RunnerFlushInv ==
    ASSUME IInv, NEW c \in children, NEW r \in c.listed, NEW o \in FlushOutcomes, RunnerFlush(c, r, o)
    PROVE  IInv'
<1>1. c \in Child /\ r \in Result /\ c.step = "flush"
  BY ChildHolds DEF RunnerFlush, Child
<1>2. /\ analyses \subseteq analyses'
      /\ analyses' \subseteq Result /\ spool' \subseteq Result
      /\ faults' \in 0..MaxFaults
      /\ \A q \in spool' \cup analyses' : q \in spool \cup analyses
      /\ finalized' = finalized
  BY <1>1, FlushPathSafe DEF RunnerFlush
<1>3. CASE FlushGoesOn(o)
  <2>1. PICK d : d = [c EXCEPT !.listed = c.listed \ {r}]
    OBVIOUS
  <2>2. d \in Child /\ d.job = c.job /\ d.id = c.id /\ d.asked = c.asked /\ d.step = "flush"
    BY <1>1, <2>1 DEF Child
  <2>3. Becomes(c, d)
    BY <1>3, <2>1 DEF RunnerFlush
  <2>4. Sent(d)'
    BY <2>2 DEF Sent
  <2> QED BY <1>2, <2>2, <2>3, <2>4, BecomesInv
<1>4. CASE ~FlushGoesOn(o)
  <2>1. Exits(c, "failed") /\ finalized' \subseteq Tokens
    BY <1>2, <1>4 DEF RunnerFlush, IInv, TypeOK
  <2> QED BY <1>2, <2>1, ExitsInv
<1> QED BY <1>3, <1>4

LEMMA RunnerDiesInv ==
    ASSUME IInv, NEW c \in children, NEW pc \in {"failed", "raised"}, RunnerDies(c, pc)
    PROVE  IInv'
<1>1. UNCHANGED <<spool, analyses, finalized>> /\ faults' \in 0..MaxFaults
  BY AiSchedulerAssumption DEF RunnerDies, files, IInv, TypeOK
<1>2. spool' \subseteq Result /\ analyses' \subseteq Result /\ finalized' \subseteq Tokens
  BY <1>1 DEF IInv, TypeOK
<1> QED BY <1>1, <1>2, ExitsInv DEF RunnerDies

LEMMA RunnerAnswersInv == ASSUME IInv, NEW c \in children, RunnerAnswers(c) PROVE IInv'
<1>1. c \in Child /\ clock \in Nat
  BY ChildHolds, AiSchedulerAssumption DEF IInv, TypeOK
<1>2. PICK d : d = [c EXCEPT !.step = "submit", !.at = clock]
  OBVIOUS
<1>3. d \in Child /\ d.job = c.job /\ d.id = c.id /\ d.asked = c.asked /\ d.step = "submit"
  BY <1>1, <1>2 DEF Child
<1>4. /\ Becomes(c, d) /\ spool' = spool \cup {Output(d)}
      /\ UNCHANGED <<analyses, finalized, faults>>
  BY <1>2 DEF RunnerAnswers
<1>5. /\ Output(d) \in Result /\ Output(d).job = c.job /\ Output(d).id = c.id
      /\ Output(d).asked = c.asked
  BY <1>3 DEF Child, Output, Result
<1>6. /\ spool' \subseteq Result /\ analyses' \subseteq Result /\ faults' \in 0..MaxFaults
      /\ \A q \in spool' \cup analyses' :
            q \in spool \cup analyses \/ (q.job = c.job /\ q.id = c.id /\ q.asked = c.asked)
  BY <1>4, <1>5 DEF IInv, TypeOK
<1>7. Sent(d)'
  BY <1>3 DEF Sent
<1> QED BY <1>3, <1>4, <1>6, <1>7, BecomesInv

LEMMA RunnerSubmitsInv ==
    ASSUME IInv, NEW c \in children, NEW o \in Outcomes \cup {"rejected"}, RunnerSubmits(c, o)
    PROVE  IInv'
<1>1. c \in Child /\ Output(c) \in Result /\ finalized' = finalized
      /\ Output(c).job = c.job /\ Output(c).id = c.id /\ Output(c).asked = c.asked
  BY ChildHolds DEF RunnerSubmits
<1>2. /\ analyses \subseteq analyses'
      /\ analyses' \subseteq Result /\ spool' \subseteq Result
      /\ faults' \in 0..MaxFaults
      /\ \A q \in spool' \cup analyses' : q \in spool \cup analyses \/ q = Output(c)
      /\ o \in {"ok", "lost"} => Output(c) \in analyses'
  BY <1>1, SubmitSafe DEF RunnerSubmits
<1>3. CASE o = "ok"
  <2>1. PICK d : d = [c EXCEPT !.step = "unlink"]
    OBVIOUS
  <2>2. d \in Child /\ d.job = c.job /\ d.id = c.id /\ d.asked = c.asked /\ d.at = c.at
    BY <1>1, <2>1 DEF Child
  <2>3. Sent(d)'
    BY <1>2, <1>3, <2>2 DEF Sent, Output
  <2>4. Becomes(c, d)
    BY <1>3, <2>1 DEF RunnerSubmits
  <2> QED BY <1>1, <1>2, <2>2, <2>3, <2>4, BecomesInv
<1>4. CASE o # "ok"
  <2>1. Exits(c, "failed") /\ finalized' \subseteq Tokens
    BY <1>1, <1>4 DEF RunnerSubmits, IInv, TypeOK
  <2> QED BY <1>1, <1>2, <2>1, ExitsInv
<1> QED BY <1>3, <1>4

LEMMA RunnerUnlinksInv ==
    ASSUME IInv, NEW c \in children, NEW kept \in BOOLEAN, RunnerUnlinks(c, kept) PROVE IInv'
<1>1. c \in Child
  BY ChildHolds
<1>2. PICK d : d = [c EXCEPT !.step = "finish"]
  OBVIOUS
<1>3. d \in Child /\ d.job = c.job /\ d.id = c.id /\ d.asked = c.asked /\ d.at = c.at
  BY <1>1, <1>2 DEF Child
<1>4. /\ Becomes(c, d) /\ spool' \in {spool, spool \ {Output(c)}}
      /\ UNCHANGED <<analyses, finalized>>
  BY <1>2 DEF RunnerUnlinks
<1>5. Output(c) \in analyses
  BY DEF RunnerUnlinks, IInv, Evidence, Sent
<1>6. Sent(d)'
  BY <1>3, <1>4, <1>5 DEF Sent, Output
<1>7. spool' \subseteq Result /\ analyses' \subseteq Result
  BY <1>4 DEF IInv, TypeOK
<1>8. faults' \in 0..MaxFaults
  BY AiSchedulerAssumption DEF RunnerUnlinks, IInv, TypeOK
<1> QED BY <1>3, <1>4, <1>6, <1>7, <1>8, BecomesInv

LEMMA RunnerFinishesInv ==
    ASSUME IInv, NEW c \in children, NEW b \in BOOLEAN, RunnerFinishes(c, b) PROVE IInv'
<1>1. Output(c) \in analyses /\ c.id \in Tokens
  BY ChildHolds DEF RunnerFinishes, IInv, Evidence, Sent
<1>2. Exits(c, "complete") /\ UNCHANGED <<spool, analyses, faults>>
  BY DEF RunnerFinishes
<1>3. /\ spool' \subseteq Result /\ analyses' \subseteq Result /\ finalized' \subseteq Tokens
      /\ faults' \in 0..MaxFaults
  BY <1>1, <1>2 DEF RunnerFinishes, IInv, TypeOK
<1> QED BY <1>1, <1>2, <1>3, ExitsInv

-----------------------------------------------------------------------------
(* A scheduler reports on its execution: the row is written if the         *)
(* execution owns it.                                                      *)
LEMMA ReportInv ==
    ASSUME IInv, NEW l \in Lanes, sched[l].pc \in Working, NEW j \in Jobs, j = sched[l].job,
           NEW o, Call(o), NEW row \in Row,
           jobs' = IF o = "failed" THEN jobs ELSE Reported(j, sched[l].id, row),
           Owns(jobs[j], sched[l].id) => Tame(jobs[j], row, Settled(j)'),
           NEW pc \in Pcs \ {"complete"}, sched' = sched \/ Goto(l, pc),
           children' \subseteq children,
           UNCHANGED <<startedAt, clock, asked, waived, files, bare, crashes, overtaken>>
    PROVE  IInv'
<1> USE DEF IInv, files
<1>1. /\ sched[l].id \in Tokens /\ Holds(j, sched[l].id, sched[l].asked)
  BY SchedHolds
<1>2. /\ jobs' \in [Jobs -> Row]
      /\ \A k \in Jobs : Tame(jobs[k], jobs'[k], Settled(k)')
  <2>1. CASE o = "failed"
    BY <2>1, Untouched DEF TypeOK
  <2>2. CASE o # "failed"
    BY <2>2, ReportedTame, ReportedType
  <2> QED BY <2>1, <2>2
<1>3. /\ sched' \in [Lanes -> Scheduler]
      /\ \A k \in Lanes : k # l => sched'[k] = sched[k]
      /\ \/ sched'[l] = sched[l]
         \/ /\ sched'[l].pc = pc
            /\ sched'[l].stranded \subseteq sched[l].stranded
            /\ pc # "select" => /\ sched'[l].job = sched[l].job /\ sched'[l].id = sched[l].id
                               /\ sched'[l].asked = sched[l].asked
  <2>1. CASE sched' = sched
    BY <2>1 DEF TypeOK
  <2>2. CASE Goto(l, pc)
    BY <2>2, GotoType
  <2> QED BY <2>1, <2>2
<1>4. TypeOK'
  BY <1>2, <1>3, CallType DEF TypeOK
<1>5. \/ sched'[l] = sched[l]
      \/ /\ sched'[l].pc \in Working => /\ sched'[l].id \in Tokens
                                        /\ Holds(sched'[l].job, sched'[l].id, sched'[l].asked)
         /\ sched'[l].pc # "complete" /\ sched'[l].stranded \subseteq sched[l].stranded
  BY <1>1, <1>3 DEF Working
<1> QED BY <1>2, <1>3, <1>4, <1>5, Frame, WaivedSame

LEMMA HeartbeatInv ==
    ASSUME IInv, NEW l \in Lanes, NEW o \in Outcomes, Heartbeat(l, o) PROVE IInv'
<1>1. sched[l].pc \in Working
  BY DEF Heartbeat, Working
<1>2. PICK j \in Jobs : j = sched[l].job
  BY <1>1, SchedHolds
<1>3. jobs[j] \in Row
  BY DEF IInv, TypeOK
<1>4. HeartbeatRow(jobs[j]) \in Row
  BY <1>3, RowTypes
<1>5. Owns(jobs[j], sched[l].id) => Tame(jobs[j], HeartbeatRow(jobs[j]), Settled(j)')
  BY <1>3, TameRows DEF Owns, Tame
<1>6. /\ Call(o) /\ children' \subseteq children
      /\ jobs' = IF o = "failed" THEN jobs ELSE Reported(j, sched[l].id, HeartbeatRow(jobs[j]))
      /\ sched' = sched \/ Goto(l, "raised")
      /\ UNCHANGED <<startedAt, clock, asked, waived, files, bare, crashes, overtaken>>
  BY <1>2 DEF Heartbeat
<1>7. "raised" \in Pcs \ {"complete"}
  BY DEF Pcs
<1> QED BY <1>1, <1>2, <1>4, <1>5, <1>6, <1>7, ReportInv

LEMMA ReportCompletedInv ==
    ASSUME IInv, NEW l \in Lanes, NEW o \in Outcomes, ReportCompleted(l, o) PROVE IInv'
<1>1. sched[l].pc \in Working /\ sched[l].pc = "complete"
  BY DEF ReportCompleted, Working
<1>2. PICK j \in Jobs : j = sched[l].job
  BY <1>1, SchedHolds
<1>3. jobs[j] \in Row
  BY DEF IInv, TypeOK
<1>4. CompleteRow(jobs[j]) \in Row
  BY <1>3, RowTypes
<1>5. /\ Call(o) /\ children' = children
      /\ jobs' = IF o = "failed" THEN jobs ELSE Reported(j, sched[l].id, CompleteRow(jobs[j]))
      /\ Goto(l, IF o = "ok" THEN "select" ELSE "raised")
      /\ UNCHANGED <<startedAt, clock, asked, waived, files, bare, crashes, overtaken>>
  BY <1>2 DEF ReportCompleted
<1>6. Owns(jobs[j], sched[l].id) => Tame(jobs[j], CompleteRow(jobs[j]), Settled(j)')
  <2> SUFFICES ASSUME Owns(jobs[j], sched[l].id)
               PROVE  Tame(jobs[j], CompleteRow(jobs[j]), Settled(j)')
    OBVIOUS
  <2>1. ASSUME Unlatched(jobs[j]) PROVE Settled(j)'
    <3>1. PICK r \in analyses : r.job = j /\ r.id = sched[l].id
      BY <1>1, <1>2 DEF IInv, Evidence, Stored
    <3>2. startedAt[j] = sched[l].id
      BY <1>1, <1>2, OwnerAsks
    <3>3. Settled(j)
      BY <2>1, <3>1, <3>2, SettledByResult
    <3> QED BY <1>5, <3>3, SettledStays DEF files
  <2> QED BY <2>1, CompleteTame
<1>7. {"select", "raised"} \subseteq Pcs \ {"complete"}
  BY DEF Pcs
<1> QED BY <1>1, <1>2, <1>4, <1>5, <1>6, <1>7, ReportInv

LEMMA ReportFailedInv ==
    ASSUME IInv, NEW l \in Lanes, NEW b \in BOOLEAN, NEW o \in Outcomes, ReportFailed(l, b, o)
    PROVE  IInv'
<1>1. sched[l].pc \in Working
  BY DEF ReportFailed, Working
<1>2. PICK j \in Jobs : j = sched[l].job
  BY <1>1, SchedHolds
<1>3. jobs[j] \in Row
  BY DEF IInv, TypeOK
<1>4. ReportFailedRow(jobs[j], b) \in Row
  BY <1>3, RowTypes
<1>5. /\ Call(o) /\ children' = children
      /\ jobs' = IF o = "failed" THEN jobs ELSE Reported(j, sched[l].id, ReportFailedRow(jobs[j], b))
      /\ Goto(l, IF sched[l].pc = "failed" /\ o # "ok" THEN "raised" ELSE "select")
      /\ UNCHANGED <<startedAt, clock, asked, waived, files, bare, crashes, overtaken>>
  BY <1>2 DEF ReportFailed
<1>6. Owns(jobs[j], sched[l].id) => Tame(jobs[j], ReportFailedRow(jobs[j], b), Settled(j)')
  BY <1>3, TameRows DEF Owns, Tame
<1>7. {"select", "raised"} \subseteq Pcs \ {"complete"}
  BY DEF Pcs
<1> QED BY <1>1, <1>2, <1>4, <1>5, <1>6, <1>7, ReportInv

-----------------------------------------------------------------------------
(* A new request latches a row that is being worked on, and takes the      *)
(* start from any other: nothing that was held answers for it.             *)
LEMMA EnqueueInv == ASSUME IInv, NEW j \in Jobs, Enqueue(j) PROVE IInv'
<1> USE DEF IInv
<1>1. /\ asked' = [asked EXCEPT ![j] = asked[j] + 1]
      /\ jobs' = [jobs EXCEPT ![j] = EnqueueRow(jobs[j], Asking)]
      /\ UNCHANGED <<startedAt, clock, waived, files, sched, children, bare, faults, crashes, overtaken>>
  BY DEF Enqueue, TypeOK
<1>2. jobs[j] \in Row /\ EnqueueRow(jobs[j], Asking) \in Row
  BY RowTypes DEF TypeOK
<1>3. /\ EnqueueRow(jobs[j], Asking).status \in {"pending", "processing"}
      /\ EnqueueRow(jobs[j], Asking).status = "processing" =>
            /\ jobs[j].status = "processing" /\ EnqueueRow(jobs[j], Asking).token = jobs[j].token
            /\ EnqueueRow(jobs[j], Asking).started = jobs[j].started
      /\ ~Unlatched(EnqueueRow(jobs[j], Asking))
  <2> DEFINE e == EnqueueRow(jobs[j], Asking)
             busy == jobs[j].status = "processing"
  <2>1. /\ e.status = IF busy THEN "processing" ELSE "pending"
        /\ e.token = jobs[j].token
        /\ e.started = (busy /\ jobs[j].started)
        /\ e.rerun = busy
    BY DEF EnqueueRow
  <2>2. jobs[j].started \in BOOLEAN /\ e.started \in BOOLEAN /\ e.rerun \in BOOLEAN
    BY <1>2 DEF Row
  <2> HIDE DEF e
  <2>3. busy => e.started = jobs[j].started /\ e.rerun
    BY <2>1, <2>2
  <2>4. /\ e.status \in {"pending", "processing"}
        /\ e.status = "processing" =>
              jobs[j].status = "processing" /\ e.token = jobs[j].token /\ e.started = jobs[j].started
    BY <2>1, <2>3
  <2>5. ~Unlatched(e)
    BY <2>1, <2>2, <2>3 DEF Unlatched
  <2> QED BY <2>4, <2>5 DEF e
<1> DEFINE row == EnqueueRow(jobs[j], Asking)
<1> HIDE DEF row
<1>4. jobs'[j] = row /\ \A k \in Jobs : k # j => jobs'[k] = jobs[k]
  BY <1>1 DEF TypeOK, row
<1>5. /\ asked' \in [Jobs -> Nat]
      /\ \A k \in Jobs : asked[k] <= asked'[k] /\ (k # j => asked'[k] = asked[k])
  BY <1>1 DEF TypeOK
<1>6. TypeOK'
  <2>1. jobs' \in [Jobs -> Row]
    BY <1>1, <1>2 DEF TypeOK
  <2> QED BY <1>1, <1>5, <2>1 DEF TypeOK, files
<1>7. \A k, i, a : Holds(k, i, a)' <=> Holds(k, i, a)
  BY <1>1 DEF Holds, files
<1>8. HeldOnce' /\ HeldPast'
  <2>1. HeldOnce'
    BY <1>7 DEF HeldOnce
  <2>2. \A k \in Jobs, i \in Tokens, a \in Nat : Holds(k, i, a)' => i <= clock' /\ a <= asked'[k]
    <3> TAKE k \in Jobs, i \in Tokens, a \in Nat
    <3> HAVE Holds(k, i, a)'
    <3>1. i <= clock /\ a <= asked[k]
      BY <1>7 DEF HeldPast
    <3>2. asked[k] \in Nat /\ asked'[k] \in Nat /\ asked[k] <= asked'[k]
      BY <1>5 DEF TypeOK
    <3> QED BY <1>1, <3>1, <3>2
  <2>3. \A l \in Lanes : sched'[l].pc \in Working => sched'[l].id \in Tokens
    BY <1>1 DEF HeldPast
  <2> QED BY <2>1, <2>2, <2>3 DEF HeldPast
<1>9. LastClaim'
  BY <1>1, <1>3, <1>4 DEF LastClaim, row
<1>10. LastAsks'
  <2> SUFFICES ASSUME NEW k \in Jobs, NEW a \in Nat, Unlatched(jobs'[k]),
                      Holds(k, startedAt[k], a)'
               PROVE  a = asked'[k]
    BY DEF LastAsks, Unlatched
  <2>1. k # j
    BY <1>3, <1>4 DEF row
  <2>2. jobs'[k] = jobs[k] /\ asked'[k] = asked[k] /\ startedAt'[k] = startedAt[k]
    BY <1>1, <1>4, <1>5, <2>1
  <2>3. PICK i : i = startedAt'[k]
    OBVIOUS
  <2>4. Holds(k, i, a)
    BY <1>7, <2>3
  <2> QED BY <2>2, <2>3, <2>4 DEF LastAsks
<1>11. WaivedPast'
  <2> SUFFICES ASSUME NEW k \in Jobs PROVE waived'[k] <= asked'[k]
    BY DEF WaivedPast
  <2>1. waived[k] \in Nat /\ asked[k] \in Nat /\ asked'[k] \in Nat /\ waived[k] <= asked[k]
    BY <1>5 DEF WaivedPast, TypeOK
  <2> QED BY <1>1, <1>5, <2>1
<1>12. Evidence'
  BY <1>1 DEF Evidence, Proven, Stored, Sent, Output, files
<1>13. CompletedIsAnswered'
  <2> SUFFICES ASSUME NEW k \in Jobs, jobs'[k].status = "completed" PROVE Settled(k)'
    BY DEF CompletedIsAnswered, Settled
  <2>1. k # j
    BY <1>3, <1>4 DEF row
  <2>2. Settled(k) /\ asked'[k] = asked[k]
    BY <1>4, <1>5, <2>1 DEF CompletedIsAnswered, Settled
  <2> QED BY <1>1, <2>2 DEF Settled, Answered, Adopted, files
<1> QED BY <1>6, <1>8, <1>9, <1>10, <1>11, <1>12, <1>13

(* A row changes tamely, and nothing else does. *)
LEMMA RowInv ==
    ASSUME IInv, NEW j \in Jobs, NEW row \in Row, Tame(jobs[j], row, FALSE),
           jobs' = [jobs EXCEPT ![j] = row], faults' \in 0..MaxFaults,
           UNCHANGED <<startedAt, clock, asked, waived, files, sched, children, bare, crashes, overtaken>>
    PROVE  IInv'
<1> USE DEF IInv, files
<1>1. jobs' \in [Jobs -> Row] /\ jobs'[j] = row /\ \A k \in Jobs : k # j => jobs'[k] = jobs[k]
  BY DEF TypeOK
<1>2. TypeOK'
  BY <1>1 DEF TypeOK
<1>3. \A k \in Jobs : Tame(jobs[k], jobs'[k], Settled(k)')
  BY <1>1 DEF Tame
<1> QED BY <1>2, <1>3, Frame, WaivedSame

LEMMA QueueStepInv ==
    ASSUME IInv, NEW j \in Jobs, LeaseExpires(j) \/ RecoverExpired(j) \/ BecomesDue(j) PROVE IInv'
<1>1. jobs[j] \in Row /\ faults \in 0..MaxFaults /\ jobs \in [Jobs -> Row]
  BY DEF IInv, TypeOK
<1>2. CASE LeaseExpires(j)
  <2>1. jobs' = [jobs EXCEPT ![j] = [jobs[j] EXCEPT !.lease = "expired"]]
    BY <1>1, <1>2 DEF LeaseExpires
  <2>2. faults' \in 0..MaxFaults
    BY <1>1, <1>2, AiSchedulerAssumption DEF LeaseExpires
  <2> QED BY <1>1, <1>2, <2>1, <2>2, RowTypes, TameRows, RowInv DEF LeaseExpires
<1>3. CASE RecoverExpired(j)
  <2>1. jobs[j].status = "processing" /\ jobs' = [jobs EXCEPT ![j] = RecoverRow(jobs[j])]
    BY <1>3 DEF RecoverExpired, Recoverable
  <2> QED BY <1>1, <1>3, <2>1, RowTypes, TameRows, RowInv DEF RecoverExpired
<1>4. CASE BecomesDue(j)
  <2>1. jobs' = [jobs EXCEPT ![j] = [jobs[j] EXCEPT !.due = TRUE]]
    BY <1>1, <1>4 DEF BecomesDue
  <2> QED BY <1>1, <1>4, <2>1, RowTypes, TameRows, RowInv DEF BecomesDue
<1> QED BY <1>2, <1>3, <1>4

(* Death takes what a scheduler or a runner held with it. *)
LEMMA SchedulerDiesInv == ASSUME IInv, NEW l \in Lanes, SchedulerDies(l) PROVE IInv'
<1> USE DEF IInv, store, files
<1>1. /\ sched' \in [Lanes -> Scheduler] /\ sched'[l].pc = "off" /\ sched'[l].stranded = {}
      /\ \A k \in Lanes : k # l => sched'[k] = sched[k]
  <2>1. Off.pc = "off" /\ Off.stranded = {}
    BY DEF Off
  <2> QED BY <2>1, OffType DEF SchedulerDies, TypeOK
<1>2. TypeOK'
  BY <1>1, AiSchedulerAssumption DEF TypeOK, SchedulerDies
<1> QED BY <1>1, <1>2, Frame, Untouched, WaivedSame DEF SchedulerDies, Working

LEMMA HostRestartsInv == ASSUME IInv, HostRestarts PROVE IInv'
<1> USE DEF IInv, store, files
<1>1. \A k \in Lanes : sched'[k] = Off
  BY DEF HostRestarts
<1>2. Off.pc = "off" /\ Off.stranded = {} /\ Off \in Scheduler
  BY OffType DEF Off
<1>3. TypeOK'
  BY <1>2, AiSchedulerAssumption DEF TypeOK, HostRestarts
<1> QED BY <1>1, <1>2, <1>3, Frame, Untouched, WaivedSame DEF HostRestarts, Working

-----------------------------------------------------------------------------
LEMMA InitIInv == Init => IInv
<1> SUFFICES ASSUME Init PROVE IInv
  OBVIOUS
<1> USE DEF Init
<1>1. \A j, i, a : ~Holds(j, i, a)
  <2>1. Off.pc \notin Working
    BY DEF Off, Working
  <2> QED BY <2>1 DEF Holds
<1>2. Off \in Scheduler /\ Off.pc = "off" /\ Off.stranded = {}
  BY OffType DEF Off
<1>3. AbsentRow \in Row /\ AbsentRow.status = "absent"
  BY DEF AbsentRow, Row, Statuses
<1>4. TypeOK
  BY <1>2, <1>3, AiSchedulerAssumption DEF TypeOK
<1>5. HeldOnce /\ HeldPast /\ LastAsks
  BY <1>1, <1>2 DEF HeldOnce, HeldPast, LastAsks, Working
<1>6. LastClaim /\ WaivedPast
  BY <1>3 DEF LastClaim, WaivedPast
<1>7. Evidence /\ CompletedIsAnswered
  BY <1>2, <1>3 DEF Evidence, CompletedIsAnswered
<1> QED BY <1>4, <1>5, <1>6, <1>7 DEF IInv

LEMMA NextIInv == IInv /\ [Next]_vars => IInv'
<1> SUFFICES ASSUME IInv, [Next]_vars PROVE IInv'
  OBVIOUS
<1>1. ASSUME NEW l \in Lanes, RunStep(l) PROVE IInv'
  <2>1. CASE Launch(l)
    BY <2>1, LaunchInv
  <2>2. CASE \E r \in sched[l].listed, o \in FlushOutcomes : Flush(l, r, o)
    BY <2>2, FlushInv
  <2>3. CASE FlushDone(l)
    BY <2>3, FlushDoneInv
  <2>4. CASE \E x \in sched[l].stranded, o \in Outcomes : RecoverReport(l, x, o)
    BY <2>4, RecoverReportInv
  <2>5. CASE RecoverDone(l)
    BY <2>5, RecoverDoneInv
  <2>6. CASE \E o \in Outcomes : ReconcilePost(l, o)
    BY <2>6, ReconcilePostInv
  <2> QED BY <1>1, <2>1, <2>2, <2>3, <2>4, <2>5, <2>6 DEF RunStep
<1>2. ASSUME NEW l \in Lanes, DrainStep(l) PROVE IInv'
  <2>1. CASE \E j \in Jobs : SelectWork(l, j)
    BY <2>1, SelectWorkInv
  <2>2. CASE \E g \in Groups : SelectBare(l, g)
    BY <2>2, SelectBareInv
  <2>3. CASE DrainEnds(l)
    BY <2>3, DrainEndsInv
  <2>4. CASE \E o \in Outcomes : Claim(l, o) \/ Retire(l, o)
    BY <2>4, ClaimInv, RetireInv
  <2>5. CASE ClaimRefused(l)
    BY <2>5, ClaimRefusedInv
  <2>6. CASE ClaimRaises(l)
    BY <2>6, ClaimRaisesInv
  <2>7. CASE PrepareFails(l)
    BY <2>7, PrepareFailsInv
  <2>8. CASE StartRunner(l)
    BY <2>8, StartRunnerInv
  <2>9. CASE \E o \in Outcomes : ReportCompleted(l, o)
    BY <2>9, ReportCompletedInv
  <2>10. CASE \E retryable \in BOOLEAN, o \in Outcomes : ReportFailed(l, retryable, o)
    BY <2>10, ReportFailedInv
  <2> QED BY <1>2, <2>1, <2>2, <2>3, <2>4, <2>5, <2>6, <2>7, <2>8, <2>9, <2>10 DEF DrainStep
<1>3. ASSUME NEW c \in children, RunnerStep(c) PROVE IInv'
  <2>1. CASE \E r \in c.listed, o \in FlushOutcomes : RunnerFlush(c, r, o)
    BY <2>1, RunnerFlushInv
  <2>2. CASE RunnerAnswers(c)
    BY <2>2, RunnerAnswersInv
  <2>3. CASE \E o \in Outcomes \cup {"rejected"} : RunnerSubmits(c, o)
    BY <2>3, RunnerSubmitsInv
  <2>4. CASE \E kept \in BOOLEAN : RunnerUnlinks(c, kept)
    BY <2>4, RunnerUnlinksInv
  <2>5. CASE \E recorded \in BOOLEAN : RunnerFinishes(c, recorded)
    BY <2>5, RunnerFinishesInv
  <2> QED BY <1>3, <2>1, <2>2, <2>3, <2>4, <2>5 DEF RunnerStep
<1>4. CASE Next
  <2>1. ASSUME NEW l \in Lanes, RunStep(l) \/ DrainStep(l) \/ SchedulerDies(l) PROVE IInv'
    BY <1>1, <1>2, <2>1, SchedulerDiesInv
  <2>2. ASSUME NEW l \in Lanes, NEW o \in Outcomes, Heartbeat(l, o) PROVE IInv'
    BY <2>2, HeartbeatInv
  <2>3. ASSUME NEW c \in children, NEW pc \in {"failed", "raised"}, RunnerDies(c, pc) PROVE IInv'
    BY <2>3, RunnerDiesInv
  <2>4. ASSUME NEW j \in Jobs, QueueStep(j) PROVE IInv'
    BY <2>4, EnqueueInv, QueueStepInv DEF QueueStep
  <2> QED BY <1>3, <1>4, <2>1, <2>2, <2>3, <2>4, HostRestartsInv DEF Next
<1>5. CASE UNCHANGED vars
  <2>1. TypeOK' /\ \A c \in children : Sent(c)' <=> Sent(c)
    BY <1>5 DEF IInv, TypeOK, vars, store, files, Sent, Output
  <2>2. /\ UNCHANGED <<startedAt, clock, asked, waived, analyses, spool, finalized, sched, children>>
        /\ UNCHANGED <<jobs, overtaken>>
    BY <1>5 DEF vars, store, files
  <2> QED BY <2>1, <2>2, Frame, Untouched, WaivedSame
<1> QED BY <1>4, <1>5

(* Every row, result, runner and scheduler is of its type, whatever the    *)
(* order of claims, replays, deaths and lost answers.                      *)
THEOREM AiSchedulerTypeOK == Spec => []TypeOK
<1>1. IInv => TypeOK
  BY DEF IInv
<1> QED BY InitIInv, NextIInv, <1>1, PTL DEF Spec

(* A completed job has an answer to its last request, or it was retired,   *)
(* or one of the two known exceptions applies; for any number of groups,   *)
(* lanes and attempts and however often anything crashes or is lost.       *)
THEOREM CompletedIsAnsweredHolds == Spec => []CompletedIsAnswered
<1>1. IInv => CompletedIsAnswered
  BY DEF IInv
<1> QED BY InitIInv, NextIInv, <1>1, PTL DEF Spec

(* The number of an execution stands for one job and one state of its      *)
(* requests, wherever it is held: by a scheduler, a runner, a spooled or a *)
(* stored result.  It is what makes a report and a recovery sound.         *)
THEOREM ExecutionsAreUnique == Spec => [](HeldOnce /\ HeldPast)
<1>1. IInv => HeldOnce /\ HeldPast
  BY DEF IInv
<1> QED BY InitIInv, NextIInv, <1>1, PTL DEF Spec

-----------------------------------------------------------------------------
(* What the two lanes, their runs, late reports and the timers do to the   *)
(* table durable_jobs, each call of theirs as one statement: nothing; an   *)
(* enqueue; a claim under the next number; the end of a lease; a change    *)
(* that a user of the queue does not see; or closing pending rows.         *)
HasDebt(r) == r.status = "processing" /\ r.rerun

LooksAlike(r, q) == q.status = r.status /\ q.token = r.token /\ q.rerun = r.rerun

Endings(r) == {CompleteRow(r), RecoverRow(r), ReportFailedRow(r, TRUE), ReportFailedRow(r, FALSE)}

Writes(j, q) == jobs' = [jobs EXCEPT ![j] = q]

Ends(j) == jobs[j].status = "processing" /\ \E q \in Endings(jobs[j]) : Writes(j, q)

Claims(j) == Claimable(jobs[j]) /\ clock < MaxRuns /\ Writes(j, ClaimRow(jobs[j], clock + 1))

Refreshes(j) == \E q \in Row : LooksAlike(jobs[j], q) /\ Writes(j, q)

Closes(ks) ==
    /\ \A j \in ks : jobs[j].status = "pending"
    /\ jobs' = [j \in Jobs |-> IF j \in ks THEN ClosePendingRow(jobs[j]) ELSE jobs[j]]

TableStep ==
    \/ UNCHANGED jobs
    \/ \E j \in Jobs : \/ Writes(j, EnqueueRow(jobs[j], Asking))
                      \/ Claims(j) \/ Ends(j) \/ Refreshes(j)
    \/ \E ks \in SUBSET Jobs : Closes(ks)

(* A report under a token is the end of a lease, or nothing. *)
LEMMA ReportedStep ==
    ASSUME TypeOK, NEW j \in Jobs, NEW t, NEW q \in Endings(jobs[j]),
           jobs' = Reported(j, t, q)
    PROVE  TableStep
<1>1. CASE Owns(jobs[j], t)
  <2>1. jobs[j].status = "processing" /\ Writes(j, q)
    BY <1>1 DEF Owns, Reported, Writes
  <2> QED BY <2>1 DEF Ends, TableStep
<1>2. CASE ~Owns(jobs[j], t)
  BY <1>2 DEF Reported, TableStep
<1> QED BY <1>1, <1>2

(* Every step is one of these statements. *)
LEMMA NextTable == IInv /\ [Next]_vars => TableStep
<1> SUFFICES ASSUME IInv, [Next]_vars PROVE TableStep
  OBVIOUS
<1> USE DEF store, files
<1>0. TypeOK /\ \A j \in Jobs : jobs[j] \in Row
  BY DEF IInv, TypeOK
<1>1. ASSUME NEW l \in Lanes, RunStep(l) PROVE TableStep
  <2>1. CASE \/ Launch(l) \/ FlushDone(l) \/ RecoverDone(l)
             \/ \E r \in sched[l].listed, o \in FlushOutcomes : Flush(l, r, o)
    <3>1. UNCHANGED jobs
      BY <2>1 DEF Launch, Flush, FlushDone, RecoverDone
    <3> QED BY <3>1 DEF TableStep
  <2>2. ASSUME NEW x \in sched[l].stranded, NEW o \in Outcomes, RecoverReport(l, x, o)
        PROVE  TableStep
    <3>1. x[1] \in Jobs
      BY <1>0 DEF TypeOK, Scheduler
    <3>2. CASE o = "failed"
      BY <2>2, <3>2 DEF RecoverReport, TableStep
    <3>3. CASE o # "failed"
      <4>1. jobs' = Reported(x[1], x[2], CompleteRow(jobs[x[1]]))
        BY <2>2, <3>3 DEF RecoverReport
      <4> QED BY <1>0, <3>1, <4>1, ReportedStep DEF Endings
    <3> QED BY <3>2, <3>3
  <2>3. ASSUME NEW o \in Outcomes, ReconcilePost(l, o) PROVE TableStep
    <3> DEFINE ks == {j \in Jobs : /\ j[1] \in sched[l].closing
                                   /\ j = Analyst(j[1])
                                   /\ jobs[j].status = "pending"}
    <3>1. CASE o = "failed"
      BY <2>3, <3>1 DEF ReconcilePost, TableStep
    <3>2. CASE o # "failed"
      <4>1. jobs' = [j \in Jobs |-> IF j \in ks THEN ClosePendingRow(jobs[j]) ELSE jobs[j]]
        BY <2>3, <3>2 DEF ReconcilePost
      <4>2. ks \in SUBSET Jobs /\ \A j \in ks : jobs[j].status = "pending"
        OBVIOUS
      <4> HIDE DEF ks
      <4> QED BY <4>1, <4>2 DEF Closes, TableStep
    <3> QED BY <3>1, <3>2
  <2> QED BY <1>1, <2>1, <2>2, <2>3 DEF RunStep
<1>2. ASSUME NEW l \in Lanes, DrainStep(l) PROVE TableStep
  <2>0. sched[l].job \in Jobs
    BY <1>0 DEF TypeOK, Scheduler
  <2>1. CASE \/ \E j \in Jobs : SelectWork(l, j)
             \/ \E g \in Groups : SelectBare(l, g)
             \/ DrainEnds(l) \/ ClaimRefused(l) \/ ClaimRaises(l)
             \/ PrepareFails(l) \/ StartRunner(l)
    <3>1. UNCHANGED jobs
      BY <2>1 DEF SelectWork, SelectBare, Selected, DrainEnds, ClaimRefused, ClaimRaises,
                  PrepareFails, StartRunner
    <3> QED BY <3>1 DEF TableStep
  <2>2. ASSUME NEW o \in Outcomes, Claim(l, o) PROVE TableStep
    <3>1. \/ UNCHANGED jobs
          \/ Claims(sched[l].job)
      BY <2>2 DEF Claim, Claims, Writes
    <3> QED BY <2>0, <3>1 DEF TableStep
  <2>3. ASSUME NEW o \in Outcomes, Retire(l, o) PROVE TableStep
    <3>1. \/ UNCHANGED jobs
          \/ jobs' = Reported(sched[l].job, sched[l].id, CompleteRow(jobs[sched[l].job]))
          \/ jobs' = Reported(sched[l].job, sched[l].id, ReportFailedRow(jobs[sched[l].job], FALSE))
      BY <2>3 DEF Retire
    <3>2. CASE UNCHANGED jobs
      BY <3>2 DEF TableStep
    <3> QED BY <1>0, <2>0, <3>1, <3>2, ReportedStep DEF Endings
  <2>4. ASSUME NEW o \in Outcomes, ReportCompleted(l, o) PROVE TableStep
    <3>1. \/ UNCHANGED jobs
          \/ jobs' = Reported(sched[l].job, sched[l].id, CompleteRow(jobs[sched[l].job]))
      BY <2>4 DEF ReportCompleted
    <3>2. CASE UNCHANGED jobs
      BY <3>2 DEF TableStep
    <3> QED BY <1>0, <2>0, <3>1, <3>2, ReportedStep DEF Endings
  <2>5. ASSUME NEW b \in BOOLEAN, NEW o \in Outcomes, ReportFailed(l, b, o) PROVE TableStep
    <3>1. \/ UNCHANGED jobs
          \/ jobs' = Reported(sched[l].job, sched[l].id, ReportFailedRow(jobs[sched[l].job], b))
      BY <2>5 DEF ReportFailed
    <3>2. ReportFailedRow(jobs[sched[l].job], b) \in Endings(jobs[sched[l].job])
      BY DEF Endings
    <3>3. CASE UNCHANGED jobs
      BY <3>3 DEF TableStep
    <3> QED BY <1>0, <2>0, <3>1, <3>2, <3>3, ReportedStep
  <2> QED BY <1>2, <2>1, <2>2, <2>3, <2>4, <2>5 DEF DrainStep
<1>3. ASSUME NEW l \in Lanes, NEW o \in Outcomes, Heartbeat(l, o) PROVE TableStep
  <2>1. sched[l].job \in Jobs
    BY <1>0 DEF TypeOK, Scheduler
  <2>2. UNCHANGED jobs \/ Writes(sched[l].job, HeartbeatRow(jobs[sched[l].job]))
    BY <1>3 DEF Heartbeat, Reported, Writes
  <2>3. /\ HeartbeatRow(jobs[sched[l].job]) \in Row
        /\ LooksAlike(jobs[sched[l].job], HeartbeatRow(jobs[sched[l].job]))
    BY <1>0, <2>1 DEF HeartbeatRow, LooksAlike, Row
  <2> QED BY <2>1, <2>2, <2>3 DEF Refreshes, TableStep
<1>4. ASSUME NEW j \in Jobs, QueueStep(j) PROVE TableStep
  <2>1. CASE Enqueue(j)
    BY <2>1 DEF Enqueue, Writes, TableStep
  <2>2. CASE RecoverExpired(j)
    <3>1. jobs[j].status = "processing" /\ Writes(j, RecoverRow(jobs[j]))
      BY <2>2 DEF RecoverExpired, Recoverable, Writes
    <3>2. RecoverRow(jobs[j]) \in Endings(jobs[j])
      BY DEF Endings
    <3> QED BY <3>1, <3>2 DEF Ends, TableStep
  <2>3. CASE LeaseExpires(j)
    <3>1. Writes(j, [jobs[j] EXCEPT !.lease = "expired"])
      BY <1>0, <2>3 DEF LeaseExpires, IInv, TypeOK, Writes
    <3>2. /\ [jobs[j] EXCEPT !.lease = "expired"] \in Row
          /\ LooksAlike(jobs[j], [jobs[j] EXCEPT !.lease = "expired"])
      BY <1>0 DEF LooksAlike, Row
    <3> QED BY <3>1, <3>2 DEF Refreshes, TableStep
  <2>4. CASE BecomesDue(j)
    <3>1. Writes(j, [jobs[j] EXCEPT !.due = TRUE])
      BY <1>0, <2>4 DEF BecomesDue, IInv, TypeOK, Writes
    <3>2. /\ [jobs[j] EXCEPT !.due = TRUE] \in Row
          /\ LooksAlike(jobs[j], [jobs[j] EXCEPT !.due = TRUE])
      BY <1>0 DEF LooksAlike, Row
    <3> QED BY <3>1, <3>2 DEF Refreshes, TableStep
  <2> QED BY <1>4, <2>1, <2>2, <2>3, <2>4 DEF QueueStep
<1>5. ASSUME NEW c \in children, RunnerStep(c) \/ \E pc \in {"failed", "raised"} : RunnerDies(c, pc)
      PROVE  UNCHANGED jobs
  BY <1>5 DEF RunnerStep, RunnerFlush, RunnerAnswers, RunnerSubmits, RunnerUnlinks,
              RunnerFinishes, RunnerDies, Becomes, Exits
<1>6. ASSUME HostRestarts \/ (\E l \in Lanes : SchedulerDies(l)) \/ UNCHANGED vars
      PROVE  UNCHANGED jobs
  BY <1>6 DEF HostRestarts, SchedulerDies, vars
<1>7. UNCHANGED jobs => TableStep
  BY DEF TableStep
<1> QED BY <1>1, <1>2, <1>3, <1>4, <1>5, <1>6, <1>7 DEF Next

(* A row that is not leased bears no token. *)
IdleRows == \A j \in Jobs : jobs[j].status # "processing" => jobs[j].token = NoToken

(* What each statement makes of a row. *)
LEMMA RowsWritten ==
    ASSUME NEW r \in Row
    PROVE  /\ EnqueueRow(r, Asking).status = IF r.status = "processing" THEN "processing" ELSE "pending"
           /\ EnqueueRow(r, Asking).token = r.token
           /\ EnqueueRow(r, Asking).rerun <=> r.status = "processing"
           /\ \A t : /\ ClaimRow(r, t).status = "processing"
                    /\ ClaimRow(r, t).token = t
                    /\ ~ClaimRow(r, t).rerun
           /\ \A q \in Endings(r) :
                    /\ q.token = NoToken
                    /\ \/ q.status \in {"pending", "failed"}
                       \/ q = CompleteRow(r)
           /\ CompleteRow(r).status = IF r.rerun THEN "pending" ELSE "completed"
           /\ ClosePendingRow(r).status = "completed" /\ ClosePendingRow(r).token = NoToken
<1> USE DEF Row
<1>1. /\ EnqueueRow(r, Asking).status = IF r.status = "processing" THEN "processing" ELSE "pending"
      /\ EnqueueRow(r, Asking).token = r.token
      /\ EnqueueRow(r, Asking).rerun <=> r.status = "processing"
  BY DEF EnqueueRow
<1>2. \A t : /\ ClaimRow(r, t).status = "processing"
            /\ ClaimRow(r, t).token = t
            /\ ~ClaimRow(r, t).rerun
  BY DEF ClaimRow
<1>3. RequeueRow(r).status = "pending" /\ RequeueRow(r).token = NoToken
  BY DEF RequeueRow
<1>4. \A m, n, b : FailRow(r, m, n, b).status \in {"pending", "failed"}
                  /\ FailRow(r, m, n, b).token = NoToken
  BY DEF FailRow
<1>5. /\ CompleteRow(r).status = IF r.rerun THEN "pending" ELSE "completed"
      /\ CompleteRow(r).token = NoToken
  <2>1. CASE r.rerun
    BY <1>3, <2>1 DEF CompleteRow
  <2>2. CASE ~r.rerun
    BY <2>2 DEF CompleteRow
  <2> QED BY <2>1, <2>2
<1>6. \A b : ReportFailedRow(r, b).status \in {"pending", "failed"}
            /\ ReportFailedRow(r, b).token = NoToken
  <2> HIDE DEF Row
  <2> QED BY <1>3, <1>4 DEF ReportFailedRow
<1>7. RecoverRow(r).status \in {"pending", "failed"} /\ RecoverRow(r).token = NoToken
  <2> HIDE DEF Row
  <2> QED BY <1>4 DEF RecoverRow
<1>8. ClosePendingRow(r).status = "completed" /\ ClosePendingRow(r).token = NoToken
  BY DEF ClosePendingRow
<1> HIDE DEF Row
<1>9. \A q \in Endings(r) : /\ q.token = NoToken
                           /\ \/ q.status \in {"pending", "failed"}
                              \/ q = CompleteRow(r)
  BY <1>5, <1>6, <1>7 DEF Endings
<1> QED BY <1>1, <1>2, <1>5, <1>8, <1>9

(* The three views of the table, row by row. *)
LEMMA Views ==
    ASSUME TypeOK, NEW j \in Jobs
    PROVE  /\ PhaseOf = [k \in Jobs |-> PhaseOf[k]]
           /\ HolderOf = [k \in Jobs |-> HolderOf[k]]
           /\ PhaseOf[j] = AbstractPhase(jobs[j])
           /\ HolderOf[j] = jobs[j].token
           /\ j \in DebtOf <=> HasDebt(jobs[j])
           /\ DebtOf \subseteq Jobs
           /\ PhaseOf[j] = "leased" <=> jobs[j].status = "processing"
           /\ PhaseOf[j] = "waiting" <=> jobs[j].status = "pending"
<1>1. jobs[j] \in Row /\ jobs[j].status \in Statuses
  BY DEF TypeOK, Row
<1>2. /\ AbstractPhase(jobs[j]) = "leased" <=> jobs[j].status = "processing"
      /\ AbstractPhase(jobs[j]) = "waiting" <=> jobs[j].status = "pending"
  BY <1>1 DEF AbstractPhase, Statuses
<1> QED BY <1>2 DEF PhaseOf, HolderOf, DebtOf, HasDebt

(* What is seen of a statement that writes one row. *)
LEMMA OneRowSeen ==
    ASSUME TypeOK, NEW j \in Jobs, NEW q, Writes(j, q)
    PROVE  /\ PhaseOf' = [PhaseOf EXCEPT ![j] = AbstractPhase(q)]
           /\ HolderOf' = [HolderOf EXCEPT ![j] = q.token]
           /\ HasDebt(q) => DebtOf' = DebtOf \cup {j}
           /\ ~HasDebt(q) => DebtOf' = DebtOf \ {j}
<1>1. jobs'[j] = q /\ \A k \in Jobs : k # j => jobs'[k] = jobs[k]
  BY DEF TypeOK, Writes
<1>2. PhaseOf' = [PhaseOf EXCEPT ![j] = AbstractPhase(q)]
  BY <1>1 DEF PhaseOf
<1>3. HolderOf' = [HolderOf EXCEPT ![j] = q.token]
  BY <1>1 DEF HolderOf
<1>4. \A k \in Jobs : k \in DebtOf' <=> IF k = j THEN HasDebt(q) ELSE k \in DebtOf
  BY <1>1 DEF DebtOf, HasDebt
<1>5. DebtOf \subseteq Jobs /\ DebtOf' \subseteq Jobs
  BY DEF DebtOf
<1> QED BY <1>2, <1>3, <1>4, <1>5

(* A change of the expiry or of the due time is not seen. *)
LEMMA RefreshSeen ==
    ASSUME TypeOK, NEW j \in Jobs, Refreshes(j) PROVE UNCHANGED Work!work
<1>1. PICK q \in Row : LooksAlike(jobs[j], q) /\ Writes(j, q)
  BY DEF Refreshes
<1>2. /\ AbstractPhase(q) = PhaseOf[j]
      /\ q.token = HolderOf[j]
      /\ HasDebt(q) <=> j \in DebtOf
  BY <1>1, Views DEF LooksAlike, AbstractPhase, HasDebt
<1>3. PhaseOf' = PhaseOf
  <2>1. PhaseOf' = [PhaseOf EXCEPT ![j] = PhaseOf[j]]
    BY <1>1, <1>2, OneRowSeen
  <2> QED BY <2>1, Views
<1>4. HolderOf' = HolderOf
  <2>1. HolderOf' = [HolderOf EXCEPT ![j] = HolderOf[j]]
    BY <1>1, <1>2, OneRowSeen
  <2> QED BY <2>1, Views
<1>5. DebtOf' = DebtOf
  BY <1>1, <1>2, OneRowSeen
<1> QED BY <1>3, <1>4, <1>5 DEF Work!work

(* A request is Ask: for waiting work, or for a debt behind a lease. *)
LEMMA EnqueueSeen ==
    ASSUME TypeOK, NEW j \in Jobs, Writes(j, EnqueueRow(jobs[j], Asking)) PROVE Work!Ask(j)
<1>1. PICK q : q = EnqueueRow(jobs[j], Asking)
  OBVIOUS
<1>2. /\ q.status = IF jobs[j].status = "processing" THEN "processing" ELSE "pending"
      /\ q.token = jobs[j].token
      /\ q.rerun <=> jobs[j].status = "processing"
  BY <1>1, RowsWritten DEF TypeOK
<1>3. Writes(j, q)
  BY <1>1
<1>4. /\ AbstractPhase(q) = IF PhaseOf[j] = "leased" THEN "leased" ELSE "waiting"
      /\ q.token = HolderOf[j]
      /\ HasDebt(q) <=> PhaseOf[j] = "leased"
  BY <1>2, Views DEF AbstractPhase, HasDebt
<1>5. j \in DebtOf => PhaseOf[j] = "leased"
  BY Views DEF HasDebt
<1>6. HolderOf' = HolderOf
  <2>1. HolderOf' = [HolderOf EXCEPT ![j] = HolderOf[j]]
    BY <1>3, <1>4, OneRowSeen
  <2> QED BY <2>1, Views
<1>7. CASE PhaseOf[j] = "leased"
  <2>1. PhaseOf' = PhaseOf
    <3>1. PhaseOf' = [PhaseOf EXCEPT ![j] = PhaseOf[j]]
      BY <1>3, <1>4, <1>7, OneRowSeen
    <3> QED BY <3>1, Views
  <2>2. DebtOf' = DebtOf \cup {j}
    BY <1>3, <1>4, <1>7, OneRowSeen
  <2> QED BY <1>6, <1>7, <2>1, <2>2 DEF Work!Ask
<1>8. CASE PhaseOf[j] # "leased"
  <2>1. PhaseOf' = [PhaseOf EXCEPT ![j] = "waiting"]
    BY <1>3, <1>4, <1>8, OneRowSeen
  <2>2. DebtOf' = DebtOf \ {j} /\ j \notin DebtOf
    BY <1>3, <1>4, <1>5, <1>8, OneRowSeen
  <2> QED BY <1>6, <1>8, <2>1, <2>2 DEF Work!Ask
<1> QED BY <1>7, <1>8

(* A claim is Grant, to a number that is on no row yet. *)
LEMMA ClaimSeen ==
    ASSUME IInv, IdleRows, NEW j \in Jobs, Claims(j)
    PROVE  clock + 1 \in Tokens /\ Work!Grant(j, clock + 1)
<1>0. TypeOK /\ clock \in Nat /\ clock + 1 \in Tokens /\ clock < clock + 1 /\ NoToken = 0
  BY AiSchedulerAssumption DEF IInv, TypeOK, Claims
<1>1. PICK t : t = clock + 1
  OBVIOUS
<1>2. PICK q : q = ClaimRow(jobs[j], t)
  OBVIOUS
<1>3. q.status = "processing" /\ q.token = t /\ ~q.rerun
  BY <1>0, <1>2, RowsWritten DEF TypeOK
<1>4. Writes(j, q) /\ jobs[j].status = "pending"
  BY <1>1, <1>2 DEF Claims, Claimable
<1>5. AbstractPhase(q) = "leased" /\ ~HasDebt(q)
  BY <1>3 DEF AbstractPhase, HasDebt
<1>6. PhaseOf[j] = "waiting" /\ j \notin DebtOf
  BY <1>0, <1>4, Views DEF HasDebt
<1>7. \A k \in Jobs : HolderOf[k] # t
  <2> TAKE k \in Jobs
  <2>1. HolderOf[k] = jobs[k].token
    BY <1>0, Views
  <2>2. CASE jobs[k].status = "processing"
    <3>1. startedAt[k] \in Nat /\ startedAt[k] <= clock /\ jobs[k].token = startedAt[k]
      BY <2>2, AiSchedulerAssumption DEF IInv, LastClaim, TypeOK
    <3> QED BY <1>0, <1>1, <2>1, <3>1
  <2>3. CASE jobs[k].status # "processing"
    BY <1>0, <1>1, <2>1, <2>3 DEF IdleRows
  <2> QED BY <2>2, <2>3
<1>8. /\ PhaseOf' = [PhaseOf EXCEPT ![j] = "leased"]
      /\ HolderOf' = [HolderOf EXCEPT ![j] = t]
      /\ DebtOf' = DebtOf \ {j}
  BY <1>0, <1>3, <1>4, <1>5, OneRowSeen
<1>9. Work!Grant(j, t)
  BY <1>6, <1>7, <1>8 DEF Work!Grant
<1> QED BY <1>0, <1>1, <1>9

(* The end of a lease is Finish when the job was completed, GiveUp else.   *)
LEMMA EndSeen ==
    ASSUME TypeOK, NEW j \in Jobs, Ends(j) PROVE Work!Finish(j) \/ Work!GiveUp(j)
<1>0. jobs[j] \in Row
  BY DEF TypeOK
<1>1. PICK q \in Endings(jobs[j]) : Writes(j, q)
  BY DEF Ends
<1>2. /\ q.token = NoToken
      /\ q.status \in {"pending", "failed"} \/ q = CompleteRow(jobs[j])
      /\ CompleteRow(jobs[j]).status = IF jobs[j].rerun THEN "pending" ELSE "completed"
  BY <1>0, <1>1, RowsWritten
<1>3. q.status \in {"pending", "failed", "completed"}
  BY <1>2
<1>4. PhaseOf[j] = "leased" /\ (j \in DebtOf <=> jobs[j].rerun)
  BY Views DEF Ends, HasDebt
<1>5. ~HasDebt(q)
  BY <1>3 DEF HasDebt
<1>6. Work!EndLease(j, AbstractPhase(q))
  BY <1>1, <1>2, <1>4, <1>5, OneRowSeen DEF Work!EndLease
<1>7. CASE q.status \in {"pending", "failed"}
  <2>1. AbstractPhase(q) \in {"waiting", "dead"}
    BY <1>7 DEF AbstractPhase
  <2> QED BY <1>6, <2>1 DEF Work!GiveUp
<1>8. CASE q.status = "completed"
  <2>1. AbstractPhase(q) = "done" /\ j \notin DebtOf
    BY <1>2, <1>4, <1>8 DEF AbstractPhase
  <2> QED BY <1>6, <2>1 DEF Work!Finish
<1> QED BY <1>3, <1>7, <1>8

(* Closing the rows a reconciliation found redundant is Close. *)
LEMMA CloseSeen ==
    ASSUME TypeOK, IdleRows, NEW ks \in SUBSET Jobs, Closes(ks)
    PROVE  Work!Close(ks) \/ UNCHANGED Work!work
<1>1. \A k \in ks : /\ ClosePendingRow(jobs[k]).status = "completed"
                    /\ ClosePendingRow(jobs[k]).token = NoToken
                    /\ jobs[k].token = NoToken
                    /\ PhaseOf[k] = "waiting"
  BY RowsWritten, Views DEF TypeOK, IdleRows, Closes
<1>2. \A k \in Jobs : jobs'[k] = IF k \in ks THEN ClosePendingRow(jobs[k]) ELSE jobs[k]
  BY DEF Closes
<1>3. PhaseOf' = [k \in Jobs |-> IF k \in ks THEN "done" ELSE PhaseOf[k]]
  <2>1. \A k \in ks : AbstractPhase(jobs'[k]) = "done"
    BY <1>1, <1>2 DEF AbstractPhase
  <2>2. \A k \in Jobs : k \notin ks => AbstractPhase(jobs'[k]) = PhaseOf[k]
    BY <1>2, Views
  <2> QED BY <2>1, <2>2 DEF PhaseOf
<1>4. HolderOf' = HolderOf
  BY <1>1, <1>2 DEF HolderOf
<1>5. DebtOf' = DebtOf
  BY <1>1, <1>2 DEF DebtOf, Closes
<1>6. CASE ks = {}
  <2>1. PhaseOf' = PhaseOf
    BY <1>3, <1>6 DEF PhaseOf
  <2> QED BY <1>4, <1>5, <2>1 DEF Work!work
<1>7. CASE ks # {}
  BY <1>1, <1>3, <1>4, <1>5, <1>7 DEF Work!Close
<1> QED BY <1>6, <1>7

(* Every statement is a step of LeasedWork or is not seen. *)
LEMMA TableSeen ==
    ASSUME IInv, IdleRows, TableStep PROVE [Work!Next]_(Work!work)
<1>0. TypeOK
  BY DEF IInv
<1>1. CASE UNCHANGED jobs
  BY <1>1 DEF Work!work, PhaseOf, HolderOf, DebtOf
<1>2. ASSUME NEW j \in Jobs, Writes(j, EnqueueRow(jobs[j], Asking)) PROVE Work!Next
  BY <1>0, <1>2, EnqueueSeen DEF Work!Next
<1>3. ASSUME NEW j \in Jobs, Claims(j) PROVE Work!Next
  BY <1>3, ClaimSeen DEF Work!Next
<1>4. ASSUME NEW j \in Jobs, Ends(j) PROVE Work!Next
  BY <1>0, <1>4, EndSeen DEF Work!Next
<1>5. ASSUME NEW j \in Jobs, Refreshes(j) PROVE UNCHANGED Work!work
  BY <1>0, <1>5, RefreshSeen
<1>6. ASSUME NEW ks \in SUBSET Jobs, Closes(ks) PROVE Work!Next \/ UNCHANGED Work!work
  BY <1>0, <1>6, CloseSeen DEF Work!Next
<1> QED BY <1>1, <1>2, <1>3, <1>4, <1>5, <1>6 DEF TableStep

(* No statement leaves a token on a row that is not leased. *)
LEMMA TableIdle ==
    ASSUME IInv, IdleRows, TableStep PROVE IdleRows'
<1>0. TypeOK /\ \A k \in Jobs : jobs[k] \in Row
  BY DEF IInv, TypeOK
<1>1. CASE UNCHANGED jobs
  BY <1>1 DEF IdleRows
<1>2. ASSUME NEW j \in Jobs, NEW q, Writes(j, q), q.status # "processing" => q.token = NoToken
      PROVE  IdleRows'
  BY <1>0, <1>2 DEF IdleRows, Writes, TypeOK
<1>3. ASSUME NEW j \in Jobs, Writes(j, EnqueueRow(jobs[j], Asking)) PROVE IdleRows'
  <2>1. PICK q : q = EnqueueRow(jobs[j], Asking)
    OBVIOUS
  <2>2. q.status # "processing" => q.token = NoToken
    BY <1>0, <2>1, RowsWritten DEF IdleRows
  <2>3. Writes(j, q)
    BY <1>3, <2>1
  <2> QED BY <1>2, <2>2, <2>3
<1>4. ASSUME NEW j \in Jobs, Claims(j) PROVE IdleRows'
  <2>1. PICK q : q = ClaimRow(jobs[j], clock + 1)
    OBVIOUS
  <2>2. q.status = "processing"
    BY <1>0, <2>1, RowsWritten
  <2>3. Writes(j, q)
    BY <1>4, <2>1 DEF Claims
  <2> QED BY <1>2, <2>2, <2>3
<1>5. ASSUME NEW j \in Jobs, Ends(j) PROVE IdleRows'
  <2>1. PICK q \in Endings(jobs[j]) : Writes(j, q)
    BY <1>5 DEF Ends
  <2>2. q.token = NoToken
    BY <1>0, <2>1, RowsWritten
  <2> QED BY <1>2, <2>1, <2>2
<1>6. ASSUME NEW j \in Jobs, Refreshes(j) PROVE IdleRows'
  <2>1. PICK q \in Row : LooksAlike(jobs[j], q) /\ Writes(j, q)
    BY <1>6 DEF Refreshes
  <2>2. q.status # "processing" => q.token = NoToken
    BY <2>1 DEF LooksAlike, IdleRows
  <2> QED BY <1>2, <2>1, <2>2
<1>7. ASSUME NEW ks \in SUBSET Jobs, Closes(ks) PROVE IdleRows'
  <2>1. \A k \in Jobs : jobs'[k] = IF k \in ks THEN ClosePendingRow(jobs[k]) ELSE jobs[k]
    BY <1>7 DEF Closes
  <2>2. \A k \in Jobs : ClosePendingRow(jobs[k]).token = NoToken
    BY <1>0, RowsWritten
  <2> QED BY <2>1, <2>2 DEF IdleRows
<1> QED BY <1>1, <1>3, <1>4, <1>5, <1>6, <1>7 DEF TableStep

(* An empty table shows no work, no holder and no debt. *)
LEMMA InitSeen == Init => IdleRows /\ Work!Init
<1> SUFFICES ASSUME Init PROVE IdleRows /\ Work!Init
  OBVIOUS
<1>1. \A j \in Jobs : /\ jobs[j].status = "absent" /\ jobs[j].token = NoToken
                      /\ ~jobs[j].rerun
  BY DEF Init, AbsentRow
<1>2. /\ PhaseOf \in [Jobs -> {"idle", "leased"}]
      /\ HolderOf = [j \in Jobs |-> NoToken]
      /\ DebtOf = {}
  BY <1>1 DEF PhaseOf, HolderOf, DebtOf, AbstractPhase
<1> QED BY <1>1, <1>2 DEF IdleRows, Work!Init

(* The lanes, their runs and whatever is left of dead ones use the durable *)
(* jobs as LeasedWork.  In whatever order calls are applied, are lost or   *)
(* come late, an execution is granted work that nobody holds, under a      *)
(* number nobody else has, and an execution that completes work it was     *)
(* asked for anew meanwhile puts it back in the queue.                     *)
THEOREM SchedulerImplementsLeasedWork == Spec => ImplementsLeasedWork
<1>1. Init => IInv /\ IdleRows /\ Work!Init
  BY InitIInv, InitSeen
<1>2. IInv /\ IdleRows /\ [Next]_vars => IInv' /\ IdleRows' /\ [Work!Next]_(Work!work)
  BY NextIInv, NextTable, TableSeen, TableIdle
<1> QED BY <1>1, <1>2, PTL DEF Spec, ImplementsLeasedWork, Work!Spec
=============================================================================
