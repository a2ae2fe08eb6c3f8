------------------------ MODULE AlertDelivery_proofs ------------------------
(* What TLAPS proves of AlertDelivery, for any number of alerts, runs that  *)
(* overlap, and faults.  The argument is about single commits: a run only   *)
(* marks an alert seen or delivered after an acknowledgement, and an        *)
(* acknowledgement is only given for an alert that is settled; settled      *)
(* alerts stay settled.  Nothing depends on which run owns a row.           *)
EXTENDS AlertDelivery, TLAPS

(* What a run remembers of its batch is true: an acknowledged alert is      *)
(* settled, a permanent rejection is one, and the first of two commits has  *)
(* been made for the alert in half.                                         *)
BatchTruth(r) ==
    /\ claimed[r] \subseteq taken
    /\ half[r] \subseteq claimed[r]
    /\ pc[r] \notin {"sent", "recording", "failing"} => result[r] = NoResult
    /\ pc[r] # "recording" => half[r] = {}
    /\ \A a \in claimed[r] :
          /\ result[r][a] = "ok" => Settled(a)
          /\ result[r][a] = "permanent" => a \in Rejected
          /\ a \in half[r] => \/ result[r][a] = "ok" /\ a \in seen
                              \/ result[r][a] = "permanent" /\ Settled(a)

OutboxTaken == \A a \in Alerts : InOutbox(a) => a \in taken

(* What the tables of the relay say of an alert. *)
Ledger ==
    /\ OutboxTaken
    /\ NoAlertLost
    /\ SeenMeansSettled
    /\ DeliveredWasSeen
    /\ DeadWasRejected

IInv == TypeOK /\ Ledger /\ \A r \in Runs : BatchTruth(r)

(* The verdict of the suppression window is one of the row's statuses. *)
LEMMA VerdictType == \A a \in Alerts : Verdicts(a) \subseteq {"accepted", "suppressed"}
  BY DEF Verdicts

(* The initial state satisfies the inductive invariant. *)
LEMMA InitIInv == Init => IInv
  BY AlertDeliveryAssumption
     DEF Init, IInv, Ledger, TypeOK, RelayType, RunType, StoreType, WorldType, OutboxTaken, InOutbox, NoAlertLost, SeenMeansSettled,
         DeliveredWasSeen, DeadWasRejected, BatchTruth, NoResult

(* An acknowledgement lost or not, a run that ends: the locals of runs keep *)
(* their types.                                                             *)
LEMMA EndType == ASSUME RunType, NEW r \in Runs, End(r) PROVE RunType'
  BY DEF RunType, End, NoResult

LEMMA PostingType ==
  ASSUME RunType, NEW r \in Runs, NEW a \in Alerts,
         NEW answer \in {"ok", "retryable", "permanent"}, Posting(r, a, answer)
  PROVE  RunType'
  BY DEF RunType, Posting

(* Every step keeps the types of what runs remember. *)
LEMMA RunTypeStep == ASSUME RunType, [Next]_vars PROVE RunType'
  <1>1. CASE UNCHANGED <<pc, locals>>
    BY <1>1 DEF RunType, locals
  <1>2. ASSUME NEW r \in Runs, End(r) PROVE RunType'
    BY <1>2, EndType
  <1>3. ASSUME NEW r \in Runs, Pull(r) PROVE RunType'
    BY <1>3 DEF RunType, Pull, Goto, Visible
  <1>4. ASSUME NEW r \in Runs, FilterUnseen(r) PROVE RunType'
    BY <1>4 DEF RunType, FilterUnseen, Goto
  <1>5. ASSUME NEW r \in Runs, Connect(r) PROVE RunType'
    BY <1>5 DEF RunType, Connect, Goto, locals
  <1>6. ASSUME NEW r \in Runs, Enqueue(r) PROVE RunType'
    BY <1>6 DEF RunType, Enqueue, Goto, locals
  <1>7. ASSUME NEW r \in Runs, Answer(r) PROVE RunType'
    BY <1>7 DEF RunType, Answer, Goto, locals
  <1>8. ASSUME NEW r \in Runs, SelectPending(r) PROVE RunType'
    <2>1. CASE End(r)
      BY <2>1, EndType
    <2>2. CASE ~ End(r)
      <3>1. PICK S \in SUBSET Pending :
               /\ Goto(r, "queued", "draining")
               /\ todo' = [todo EXCEPT ![r] = S]
               /\ UNCHANGED <<fetched, batch, claimed, unposted, result, half, failed>>
        BY <1>8, <2>2 DEF SelectPending
      <3>2. S \subseteq Alerts
        BY DEF Pending
      <3> QED BY <3>1, <3>2 DEF RunType, Goto
    <2> QED BY <2>1, <2>2
  <1>9. ASSUME NEW r \in Runs, NextBatch(r) PROVE RunType'
    BY <1>9 DEF RunType, NextBatch, Goto
  <1>10. ASSUME NEW r \in Runs, Send(r) PROVE RunType'
    <2>1. CASE claimed[r] = {}
      BY <1>10, <2>1 DEF RunType, Send, Goto
    <2>2. CASE claimed[r] # {}
      BY <1>10, <2>2, SMTT(30) DEF RunType, Send, Goto
    <2> QED BY <2>1, <2>2
  <1>11. ASSUME NEW r \in Runs, SshFails(r) PROVE RunType'
    BY <1>11 DEF RunType, SshFails, Goto
  <1>12. ASSUME NEW r \in Runs, BatchRecorded(r) PROVE RunType'
    BY <1>12 DEF RunType, BatchRecorded, Goto, NoResult
  <1>13. ASSUME NEW r \in Runs, NEW a \in Alerts, Claim(r, a) PROVE RunType'
    <2>1. CASE status[a] = "pending"
      BY <1>13, <2>1, SMTT(30) DEF RunType, Claim
    <2>2. CASE status[a] # "pending"
      BY <1>13, <2>2 DEF RunType, Claim
    <2> QED BY <2>1, <2>2
  <1>14. ASSUME NEW r \in Runs, NEW a \in Alerts, FailClaimed(r, a) PROVE RunType'
    BY <1>14 DEF RunType, FailClaimed, Recorded
  <1>15. ASSUME NEW r \in Runs, NEW a \in Alerts, MarkDelivered(r, a) PROVE RunType'
    BY <1>15 DEF RunType, MarkDelivered, Recording, Recorded
  <1>16. ASSUME NEW r \in Runs, NEW a \in Alerts, MarkFailure(r, a) PROVE RunType'
    BY <1>16 DEF RunType, MarkFailure, Recording, Recorded
  <1>17. ASSUME NEW r \in Runs, NEW a \in Alerts, MarkDeadSeen(r, a) PROVE RunType'
    BY <1>17 DEF RunType, MarkDeadSeen, Recording, Recorded
  <1>18. ASSUME NEW r \in Runs, NEW a \in Alerts, MarkSeen(r, a) PROVE RunType'
    BY <1>18 DEF RunType, MarkSeen, Recording
  <1>19. ASSUME NEW r \in Runs, NEW a \in Alerts, MoveToDeadLetter(r, a) PROVE RunType'
    BY <1>19 DEF RunType, MoveToDeadLetter, Recording
  <1>20. ASSUME NEW r \in Runs, NEW a \in Alerts, NEW v \in Verdicts(a),
               PostStored(r, a, v) \/ PostUnanswered(r, a, v) PROVE RunType'
    BY <1>20, PostingType DEF PostStored, PostUnanswered
  <1>21. ASSUME NEW r \in Runs, Progress(r) PROVE RunType'
    <2>1. \A a \in Alerts : PostRejected(r, a) => RunType'
      BY PostingType DEF PostRejected
    <2> QED
      BY <1>2, <1>3, <1>4, <1>5, <1>6, <1>7, <1>8, <1>9, <1>10, <1>12, <1>13, <1>14, <1>15,
         <1>16, <1>17, <1>18, <1>19, <1>20, <1>21, <2>1 DEF Progress, FailRun, FinishRun
  <1>22. ASSUME NEW r \in Runs, Misfortune(r) PROVE RunType'
    <2>1. \A a \in Alerts : PostRefused(r, a) \/ PostTimedOut(r, a) => RunType'
      BY PostingType DEF PostRefused, PostTimedOut
    <2> QED
      BY <1>2, <1>11, <1>20, <1>22, <2>1 DEF Misfortune, Crash
  <1>23. ASSUME Environment PROVE RunType'
    BY <1>1, <1>23 DEF Environment, Appear, AgeOut, LateLost, LateStored
  <1> QED
    BY <1>1, <1>21, <1>22, <1>23 DEF Next, vars

(* Every step keeps the types of the relay's database. *)
LEMMA RelayTypeStep == ASSUME RelayType, RunType, [Next]_vars PROVE RelayType'
  <1>1. CASE UNCHANGED relayDb
    BY <1>1 DEF RelayType, relayDb
  <1>2. ASSUME NEW r \in Runs, Connect(r) \/ Enqueue(r) \/ FinishRun(r) PROVE RelayType'
    <2>1. CASE Connect(r)
      BY <2>1 DEF RelayType, Connect, RecoveredStatus
    <2>2. CASE Enqueue(r)
      BY <2>2 DEF RelayType, RunType, Enqueue
    <2>3. CASE FinishRun(r)
      BY <2>3 DEF RelayType, FinishRun
    <2> QED BY <1>2, <2>1, <2>2, <2>3
  <1>3. ASSUME NEW r \in Runs, NEW a \in Alerts, Claim(r, a) \/ FailClaimed(r, a) PROVE RelayType'
    BY <1>3 DEF RelayType, Claim, FailClaimed, SetStatus
  <1>4. ASSUME NEW r \in Runs, NEW a \in Alerts,
               \/ MarkSeen(r, a) \/ MarkDelivered(r, a) \/ MarkFailure(r, a)
               \/ MoveToDeadLetter(r, a) \/ MarkDeadSeen(r, a) PROVE RelayType'
    BY <1>4 DEF RelayType, MarkSeen, MarkDelivered, MarkFailure, MoveToDeadLetter,
                MarkDeadSeen, Recording, SetStatus
  <1>5. ASSUME NEW r \in Runs, Progress(r) PROVE RelayType'
    BY <1>1, <1>2, <1>3, <1>4, <1>5
       DEF Progress, Pull, FilterUnseen, SelectPending, NextBatch, Send, Answer, FailRun,
           BatchRecorded, PostRejected, PostStored, Posting
  <1>6. ASSUME NEW r \in Runs, Misfortune(r) PROVE UNCHANGED relayDb
    BY <1>6 DEF Misfortune, SshFails, Crash, PostRefused, PostTimedOut, PostUnanswered, Posting
  <1>7. ASSUME Environment PROVE UNCHANGED relayDb
    BY <1>7 DEF Environment, Appear, AgeOut, LateLost, LateStored
  <1> QED
    BY <1>1, <1>5, <1>6, <1>7 DEF Next, vars

(* A transaction of the alert store keeps the types of its rows. *)
LEMMA IngestType ==
  ASSUME StoreType, NEW a \in Alerts, NEW v \in Verdicts(a), Ingest(a, v) PROVE StoreType'
  <1>1. StoredAs(a, v) \in {"absent", "accepted", "suppressed", "duplicate"}
    BY VerdictType DEF StoredAs
  <1> QED BY <1>1 DEF StoreType, Ingest

(* Only the transaction that stores an alert writes the alert store. *)
LEMMA StoreWrites ==
  ASSUME [Next]_vars
  PROVE  \/ UNCHANGED storeDb
         \/ \E a \in Alerts : \E v \in Verdicts(a) : Ingest(a, v)
  <1>1. ASSUME NEW r \in Runs, Progress(r)
        PROVE  UNCHANGED storeDb \/ \E a \in Alerts : \E v \in Verdicts(a) : Ingest(a, v)
    BY <1>1 DEF Progress, Pull, Connect, FilterUnseen, Enqueue, SelectPending, NextBatch, Send,
                Answer, FailRun, BatchRecorded, FinishRun, Claim, PostRejected, FailClaimed,
                MarkSeen, MarkDelivered, MarkFailure, MoveToDeadLetter, MarkDeadSeen, Recording,
                PostStored
  <1>2. ASSUME NEW r \in Runs, Misfortune(r)
        PROVE  UNCHANGED storeDb \/ \E a \in Alerts : \E v \in Verdicts(a) : Ingest(a, v)
    BY <1>2 DEF Misfortune, SshFails, Crash, PostRefused, PostTimedOut, PostUnanswered
  <1>3. ASSUME Environment
        PROVE  UNCHANGED storeDb \/ \E a \in Alerts : \E v \in Verdicts(a) : Ingest(a, v)
    BY <1>3 DEF Environment, Appear, AgeOut, LateLost, LateStored
  <1> QED BY <1>1, <1>2, <1>3 DEF Next, vars

(* Every step keeps the types of the alert store. *)
LEMMA StoreTypeStep == ASSUME StoreType, [Next]_vars PROVE StoreType'
  <1>1. CASE UNCHANGED storeDb
    BY <1>1 DEF StoreType, storeDb
  <1> QED BY <1>1, StoreWrites, IngestType

(* Every step keeps the types of the environment and the fault budget. *)
LEMMA WorldTypeStep == ASSUME WorldType, RunType, [Next]_vars PROVE WorldType'
  <1>1. ASSUME NEW r \in Runs, Progress(r) PROVE UNCHANGED <<exposure, late, faults>>
    BY <1>1 DEF Progress, Pull, Connect, FilterUnseen, Enqueue, SelectPending, NextBatch, Send,
                Answer, FailRun, BatchRecorded, FinishRun, Claim, PostRejected, FailClaimed,
                MarkSeen, MarkDelivered, MarkFailure, MoveToDeadLetter, MarkDeadSeen, Recording,
                PostStored, Posting
  <1>2. ASSUME NEW r \in Runs, Misfortune(r) PROVE WorldType'
    <2>1. faults' \in 0 .. MaxFaults /\ exposure' = exposure
      BY <1>2, AlertDeliveryAssumption
         DEF Misfortune, SshFails, Crash, PostRefused, PostTimedOut, PostUnanswered, Posting,
             Fault, WorldType
    <2>2. late' \subseteq Alerts
      BY <1>2 DEF Misfortune, SshFails, Crash, PostRefused, PostTimedOut, PostUnanswered,
                  WorldType, RunType
    <2> QED BY <2>1, <2>2 DEF WorldType
  <1>3. ASSUME Environment PROVE WorldType'
    BY <1>3 DEF Environment, Appear, AgeOut, LateLost, LateStored, WorldType
  <1> QED BY <1>1, <1>2, <1>3 DEF Next, vars, WorldType

(* Type correctness is inductive on its own. *)
LEMMA TypeStep == ASSUME TypeOK, [Next]_vars PROVE TypeOK'
  BY RunTypeStep, RelayTypeStep, StoreTypeStep, WorldTypeStep DEF TypeOK

(***************************************************************************)
(* The inductive step.                                                     *)
(***************************************************************************)
(* Nothing is ever taken out of seen, dead and taken. *)
LEMMA TablesGrow ==
  ASSUME TypeOK, [Next]_vars
  PROVE  seen \subseteq seen' /\ dead \subseteq dead' /\ taken \subseteq taken'
  <1>1. CASE UNCHANGED relayDb
    BY <1>1 DEF relayDb
  <1>2. ASSUME NEW r \in Runs, Progress(r)
        PROVE  seen \subseteq seen' /\ dead \subseteq dead' /\ taken \subseteq taken'
    BY <1>1, <1>2
       DEF Progress, Pull, FilterUnseen, SelectPending, NextBatch, Send, Answer, FailRun,
           BatchRecorded, PostRejected, PostStored, Posting, Connect, Enqueue, FinishRun, Claim,
           FailClaimed, MarkSeen, MarkDelivered, MarkFailure, MoveToDeadLetter, MarkDeadSeen,
           Recording
  <1>3. ASSUME NEW r \in Runs, Misfortune(r) PROVE UNCHANGED relayDb
    BY <1>3 DEF Misfortune, SshFails, Crash, PostRefused, PostTimedOut, PostUnanswered, Posting
  <1>4. ASSUME Environment PROVE UNCHANGED relayDb
    BY <1>4 DEF Environment, Appear, AgeOut, LateLost, LateStored
  <1> QED BY <1>1, <1>2, <1>3, <1>4 DEF Next, vars

(* A settled alert stays settled. *)
LEMMA SettledStays ==
  ASSUME TypeOK, [Next]_vars, NEW a \in Alerts, Settled(a)
  PROVE  Settled(a)'
  <1>1. CASE UNCHANGED storeDb
    BY <1>1, TablesGrow DEF Settled, storeDb
  <1>2. ASSUME NEW b \in Alerts, NEW v \in Verdicts(b), Ingest(b, v) PROVE Settled(a)'
    <2>1. CASE b = a /\ a \notin Dropped
      BY <1>2, <2>1, VerdictType DEF Settled, Ingest, StoredAs, TypeOK, StoreType
    <2>2. CASE b # a
      BY <1>2, <2>2, TablesGrow DEF Settled, Ingest, TypeOK, StoreType
    <2> QED BY <2>1, <2>2 DEF Settled
  <1> QED BY <1>1, <1>2, StoreWrites

(* An alert that the alert store accepted is settled. *)
LEMMA StoredIsSettled ==
  ASSUME TypeOK, NEW a \in Alerts, NEW v \in Verdicts(a), Ingest(a, v)
  PROVE  Settled(a)'
  BY VerdictType DEF Settled, Ingest, StoredAs, TypeOK, StoreType

(* A step that leaves the locals of q alone leaves their truth alone. *)
LEMMA BatchTruthStays ==
  ASSUME IInv, [Next]_vars, NEW q \in Runs,
         pc'[q] = pc[q], claimed'[q] = claimed[q], half'[q] = half[q], result'[q] = result[q]
  PROVE  BatchTruth(q)'
  <1>1. BatchTruth(q) /\ claimed[q] \subseteq Alerts
    BY DEF IInv, TypeOK, RunType
  <1>2. \A a \in Alerts : Settled(a) => Settled(a)'
    BY SettledStays DEF IInv
  <1>3. seen \subseteq seen' /\ taken \subseteq taken'
    BY TablesGrow DEF IInv
  <1> QED BY <1>1, <1>2, <1>3 DEF BatchTruth, NoResult

(* What the tables say stays true when a run makes its next step. *)
LEMMA LedgerProgress ==
  ASSUME IInv, [Next]_vars, NEW r \in Runs, Progress(r)
  PROVE  Ledger'
  <1> USE DEF IInv, TypeOK, RelayType, RunType
  <1>1. \A a \in Alerts : Settled(a) => Settled(a)'
    BY SettledStays
  <1>2. CASE UNCHANGED relayDb
    BY <1>1, <1>2 DEF Ledger, OutboxTaken, InOutbox, NoAlertLost, SeenMeansSettled,
       DeliveredWasSeen, DeadWasRejected, relayDb
  <1>3. CASE Connect(r)
    BY <1>1, <1>3 DEF Connect, RecoveredStatus, Ledger, OutboxTaken, InOutbox, NoAlertLost,
       SeenMeansSettled, DeliveredWasSeen, DeadWasRejected
  <1>4. CASE Enqueue(r)
    <2>1. OutboxTaken'
      BY <1>4 DEF Enqueue, Ledger, OutboxTaken, InOutbox
    <2>2. NoAlertLost'
      BY <1>1, <1>4 DEF Enqueue, Ledger, NoAlertLost, InOutbox, DeliveredWasSeen, SeenMeansSettled
    <2> QED
      BY <1>1, <1>4, <2>1, <2>2
         DEF Enqueue, Ledger, SeenMeansSettled, DeliveredWasSeen, DeadWasRejected,
         InOutbox
  <1>5. CASE FinishRun(r)
    <2>1. PICK old \in SUBSET Old :
             status' = [a \in Alerts |-> IF a \in old THEN "absent" ELSE status[a]]
      BY <1>5 DEF FinishRun
    <2>2. \A a \in old : Settled(a)
      BY DEF Old, Ledger, DeliveredWasSeen, SeenMeansSettled
    <2> QED
      BY <1>1, <1>5, <2>1, <2>2 DEF FinishRun, Ledger, OutboxTaken, InOutbox, NoAlertLost,
         SeenMeansSettled, DeliveredWasSeen, DeadWasRejected
  <1>6. ASSUME NEW a \in Alerts, Claim(r, a) PROVE Ledger'
    BY <1>1, <1>6 DEF Claim, Ledger, OutboxTaken, InOutbox, NoAlertLost,
       SeenMeansSettled, DeliveredWasSeen, DeadWasRejected
  <1>7. ASSUME NEW a \in Alerts, FailClaimed(r, a) PROVE Ledger'
    BY <1>1, <1>7 DEF FailClaimed, SetStatus, Ledger, OutboxTaken, InOutbox, NoAlertLost,
       SeenMeansSettled, DeliveredWasSeen, DeadWasRejected
  <1>8. ASSUME NEW a \in Alerts, MarkFailure(r, a) PROVE Ledger'
    BY <1>1, <1>8 DEF MarkFailure, Recording, SetStatus, Ledger, OutboxTaken, InOutbox, NoAlertLost,
       SeenMeansSettled, DeliveredWasSeen, DeadWasRejected
  <1>9. ASSUME NEW a \in Alerts, MarkSeen(r, a) PROVE Ledger'
    <2>1. Settled(a)
      BY <1>9 DEF MarkSeen, Recording, First, BatchTruth
    <2> QED
      BY <1>1, <1>9, <2>1 DEF MarkSeen, Recording, Ledger, OutboxTaken, InOutbox, NoAlertLost,
         SeenMeansSettled, DeliveredWasSeen, DeadWasRejected
  <1>10. ASSUME NEW a \in Alerts, MarkDelivered(r, a) PROVE Ledger'
    <2>1. Settled(a) /\ a \in seen
      BY <1>10 DEF MarkDelivered, Recording, First, BatchTruth
    <2> QED
      BY <1>1, <1>10, <2>1 DEF MarkDelivered, Recording, SetStatus, Ledger, OutboxTaken, InOutbox,
         NoAlertLost, SeenMeansSettled, DeliveredWasSeen, DeadWasRejected
  <1>11. ASSUME NEW a \in Alerts, MoveToDeadLetter(r, a) PROVE Ledger'
    <2>1. a \in Rejected /\ a \in taken
      BY <1>11 DEF MoveToDeadLetter, Recording, First, BatchTruth
    <2>2. Settled(a)'
      <3>1. CASE InOutbox(a)
        BY <1>11, <3>1 DEF MoveToDeadLetter, Settled
      <3>2. CASE ~ InOutbox(a)
        BY <1>1, <2>1, <3>2 DEF Ledger, NoAlertLost, InOutbox
      <3> QED BY <3>1, <3>2
    <2> QED
      BY <1>1, <1>11, <2>1, <2>2 DEF MoveToDeadLetter, Recording, SetStatus, Ledger, OutboxTaken,
         InOutbox, NoAlertLost, SeenMeansSettled, DeliveredWasSeen, DeadWasRejected
  <1>12. ASSUME NEW a \in Alerts, MarkDeadSeen(r, a) PROVE Ledger'
    <2>1. Settled(a)
      BY <1>12 DEF MarkDeadSeen, Recording, First, BatchTruth
    <2> QED
      BY <1>1, <1>12, <2>1 DEF MarkDeadSeen, Recording, Ledger, OutboxTaken, InOutbox, NoAlertLost,
         SeenMeansSettled, DeliveredWasSeen, DeadWasRejected
  <1> QED
    BY <1>2, <1>3, <1>4, <1>5, <1>6, <1>7, <1>8, <1>9, <1>10, <1>11, <1>12
       DEF Progress, Pull, FilterUnseen, SelectPending, NextBatch, Send, Answer, FailRun,
           BatchRecorded, PostRejected, PostStored, Posting

(* A run that ends remembers nothing, which is true. *)
LEMMA BatchTruthEnds ==
  ASSUME TypeOK, NEW r \in Runs, End(r)
  PROVE  BatchTruth(r)'
  BY DEF BatchTruth, End, TypeOK, RunType, NoResult

(* What a run remembers of its batch stays true when it makes a step. *)
LEMMA BatchTruthProgress ==
  ASSUME IInv, [Next]_vars, NEW r \in Runs, Progress(r)
  PROVE  BatchTruth(r)'
  <1> USE DEF IInv, TypeOK, RelayType, RunType
  <1>1. /\ \A a \in Alerts : Settled(a) => Settled(a)'
        /\ seen \subseteq seen' /\ taken \subseteq taken'
        /\ BatchTruth(r)
    BY SettledStays, TablesGrow
  <1>2. CASE End(r)
    BY <1>2, BatchTruthEnds
  <1>3. CASE Pull(r)
    BY <1>1, <1>3 DEF Pull, Goto, BatchTruth, NoResult
  <1>4. CASE Connect(r)
    BY <1>1, <1>4 DEF Connect, Goto, locals, BatchTruth, NoResult
  <1>5. CASE FilterUnseen(r)
    BY <1>1, <1>5 DEF FilterUnseen, Goto, BatchTruth, NoResult
  <1>6. CASE Enqueue(r)
    BY <1>1, <1>6 DEF Enqueue, Goto, locals, BatchTruth, NoResult
  <1>7. CASE SelectPending(r) /\ ~ End(r)
    <2>1. /\ Goto(r, "queued", "draining")
          /\ UNCHANGED <<fetched, batch, claimed, unposted, result, half, failed>>
      BY <1>7 DEF SelectPending
    <2> QED BY <1>1, <2>1 DEF Goto, BatchTruth, NoResult
  <1>8. CASE NextBatch(r)
    BY <1>1, <1>8 DEF NextBatch, Goto, BatchTruth, NoResult
  <1>9. CASE Send(r)
    <2>1. pc'[r] \in {"draining", "sent"} /\ pc[r] = "claiming"
      BY <1>9 DEF Send, Goto
    <2>2. UNCHANGED <<claimed, result, half>>
      BY <1>9 DEF Send
    <2>3. result[r] = NoResult /\ half[r] = {}
      BY <1>1, <2>1 DEF BatchTruth
    <2> QED BY <1>1, <2>1, <2>2, <2>3 DEF BatchTruth, NoResult
  <1>10. CASE Answer(r)
    BY <1>1, <1>10 DEF Answer, Goto, locals, BatchTruth, NoResult
  <1>11. CASE BatchRecorded(r)
    BY <1>1, <1>11 DEF BatchRecorded, Goto, BatchTruth, NoResult
  <1>12. ASSUME NEW a \in Alerts, Claim(r, a) PROVE BatchTruth(r)'
    <2>1. CASE status[a] = "pending"
      <3>1. a \in taken
        BY <2>1 DEF Ledger, OutboxTaken, InOutbox
      <3>2. result[r] = NoResult /\ half[r] = {} /\ pc[r] = "claiming"
        BY <1>1, <1>12 DEF Claim, BatchTruth
      <3>3. claimed'[r] = claimed[r] \cup {a} /\ UNCHANGED <<pc, result, half>>
        BY <1>12, <2>1 DEF Claim
      <3> QED BY <1>1, <3>1, <3>2, <3>3 DEF BatchTruth, NoResult
    <2>2. CASE status[a] # "pending"
      BY <1>12, <2>2, BatchTruthStays DEF Claim
    <2> QED BY <2>1, <2>2
  <1>13. ASSUME NEW a \in Alerts, PostRejected(r, a) PROVE BatchTruth(r)'
    BY <1>1, <1>13 DEF PostRejected, Posting, BatchTruth, NoResult
  <1>14. ASSUME NEW a \in Alerts, NEW v \in Verdicts(a), PostStored(r, a, v) PROVE BatchTruth(r)'
    <2>1. Settled(a)'
      BY <1>14, StoredIsSettled DEF PostStored
    <2> QED BY <1>1, <1>14, <2>1 DEF PostStored, Posting, BatchTruth, NoResult
  <1>15. ASSUME NEW a \in Alerts, FailClaimed(r, a) PROVE BatchTruth(r)'
    BY <1>1, <1>15 DEF FailClaimed, Recorded, BatchTruth
  <1>16. ASSUME NEW a \in Alerts, MarkSeen(r, a) PROVE BatchTruth(r)'
    BY <1>1, <1>16 DEF MarkSeen, Recording, First, BatchTruth
  <1>17. ASSUME NEW a \in Alerts, MarkDelivered(r, a) PROVE BatchTruth(r)'
    BY <1>1, <1>17 DEF MarkDelivered, Recording, Recorded, First, BatchTruth
  <1>18. ASSUME NEW a \in Alerts, MarkFailure(r, a) PROVE BatchTruth(r)'
    BY <1>1, <1>18 DEF MarkFailure, Recording, Recorded, First, BatchTruth
  <1>19. ASSUME NEW a \in Alerts, MoveToDeadLetter(r, a) PROVE BatchTruth(r)'
    <2>1. Settled(a)'
      <3>1. CASE InOutbox(a)
        BY <1>19, <3>1 DEF MoveToDeadLetter, Settled
      <3>2. CASE ~ InOutbox(a)
        BY <1>1, <1>19, <3>2
           DEF MoveToDeadLetter, Recording, First, BatchTruth, Ledger, NoAlertLost, InOutbox
      <3> QED BY <3>1, <3>2
    <2> QED BY <1>1, <1>19, <2>1 DEF MoveToDeadLetter, Recording, First, BatchTruth
  <1>20. ASSUME NEW a \in Alerts, MarkDeadSeen(r, a) PROVE BatchTruth(r)'
    BY <1>1, <1>20 DEF MarkDeadSeen, Recording, Recorded, First, BatchTruth
  <1> QED
    BY <1>2, <1>3, <1>4, <1>5, <1>6, <1>7, <1>8, <1>9, <1>10, <1>11, <1>12, <1>13, <1>14,
       <1>15, <1>16, <1>17, <1>18, <1>19, <1>20
       DEF Progress, FailRun, FinishRun

(* Nor does a fault make it false. *)
LEMMA BatchTruthMisfortune ==
  ASSUME IInv, [Next]_vars, NEW r \in Runs, Misfortune(r)
  PROVE  BatchTruth(r)'
  <1> USE DEF IInv, TypeOK, RelayType, RunType
  <1>1. /\ \A a \in Alerts : Settled(a) => Settled(a)'
        /\ seen \subseteq seen' /\ taken \subseteq taken'
        /\ BatchTruth(r)
    BY SettledStays, TablesGrow
  <1>2. CASE Crash(r)
    BY <1>2, BatchTruthEnds DEF Crash
  <1>3. CASE SshFails(r)
    <2>1. half[r] = {}
      BY <1>1, <1>3 DEF SshFails, Goto, BatchTruth
    <2> QED BY <1>1, <1>3, <2>1 DEF SshFails, Goto, BatchTruth
  <1>4. ASSUME NEW a \in Alerts, Posting(r, a, "retryable") PROVE BatchTruth(r)'
    BY <1>1, <1>4 DEF Posting, BatchTruth, NoResult
  <1> QED
    BY <1>2, <1>3, <1>4 DEF Misfortune, PostRefused, PostTimedOut, PostUnanswered

(* The steps of one run leave the locals of the others alone. *)
LEMMA OthersUnchanged ==
  ASSUME TypeOK, NEW r \in Runs, Progress(r) \/ Misfortune(r), NEW q \in Runs, q # r
  PROVE  pc'[q] = pc[q] /\ claimed'[q] = claimed[q] /\ half'[q] = half[q]
         /\ result'[q] = result[q]
  <1> DEFINE Kept == pc'[q] = pc[q] /\ claimed'[q] = claimed[q] /\ half'[q] = half[q]
                     /\ result'[q] = result[q]
  <1> USE DEF TypeOK, RunType
  <1>1. End(r) => Kept
    BY DEF End
  <1>2. ASSUME NEW a \in Alerts, NEW x \in {"ok", "permanent", "retryable"}, Posting(r, a, x)
        PROVE  Kept
    BY <1>2 DEF Posting
  <1>3. SelectPending(r) => Kept
    BY <1>1 DEF SelectPending, Goto
  <1>4. Pull(r) \/ Connect(r) \/ FilterUnseen(r) \/ Enqueue(r) => Kept
    BY DEF Pull, Connect, FilterUnseen, Enqueue, Goto, locals
  <1>5. NextBatch(r) \/ Send(r) \/ Answer(r) \/ BatchRecorded(r) \/ SshFails(r) => Kept
    BY DEF NextBatch, Send, Answer, BatchRecorded, SshFails, Goto, locals
  <1>6. \A a \in Alerts : Claim(r, a) \/ FailClaimed(r, a) => Kept
    BY DEF Claim, FailClaimed, Recorded
  <1>7. \A a \in Alerts : MarkSeen(r, a) \/ MarkDelivered(r, a) \/ MarkFailure(r, a) => Kept
    BY DEF MarkSeen, MarkDelivered, MarkFailure, Recording, Recorded
  <1>8. \A a \in Alerts : MoveToDeadLetter(r, a) \/ MarkDeadSeen(r, a) => Kept
    BY DEF MoveToDeadLetter, MarkDeadSeen, Recording, Recorded
  <1>9. Progress(r) => Kept
    BY <1>1, <1>2, <1>3, <1>4, <1>5, <1>6, <1>7, <1>8
       DEF Progress, FailRun, FinishRun, PostRejected, PostStored
  <1>10. Misfortune(r) => Kept
    BY <1>1, <1>2, <1>5
       DEF Misfortune, Crash, PostRefused, PostTimedOut, PostUnanswered
  <1> QED BY <1>9, <1>10

(* The invariant is inductive. *)
LEMMA InductiveStep == IInv /\ [Next]_vars => IInv'
  <1> SUFFICES ASSUME IInv, [Next]_vars PROVE IInv'
    OBVIOUS
  <1>1. TypeOK'
    BY TypeStep DEF IInv
  <1>2. ASSUME UNCHANGED <<relayDb, pc, locals>> PROVE Ledger' /\ \A q \in Runs : BatchTruth(q)'
    <2>1. \A a \in Alerts : Settled(a) => Settled(a)'
      BY SettledStays DEF IInv
    <2>2. Ledger'
      BY <1>2, <2>1 DEF IInv, TypeOK, RelayType, Ledger, OutboxTaken, InOutbox, NoAlertLost,
         SeenMeansSettled, DeliveredWasSeen, DeadWasRejected, relayDb
    <2>3. \A q \in Runs : BatchTruth(q)'
      BY <1>2, BatchTruthStays DEF locals
    <2> QED BY <2>2, <2>3
  <1>3. ASSUME Environment PROVE UNCHANGED <<relayDb, pc, locals>>
    BY <1>3 DEF Environment, Appear, AgeOut, LateLost, LateStored
  <1>4. ASSUME NEW r \in Runs, Progress(r) PROVE Ledger' /\ \A q \in Runs : BatchTruth(q)'
    <2>1. Ledger'
      BY <1>4, LedgerProgress
    <2>2. \A q \in Runs : BatchTruth(q)'
      BY <1>4, BatchTruthProgress, OthersUnchanged, BatchTruthStays DEF IInv
    <2> QED BY <2>1, <2>2
  <1>5. ASSUME NEW r \in Runs, Misfortune(r) PROVE Ledger' /\ \A q \in Runs : BatchTruth(q)'
    <2>1. UNCHANGED relayDb
      BY <1>5 DEF Misfortune, SshFails, Crash, PostRefused, PostTimedOut, PostUnanswered, Posting
    <2>2. \A a \in Alerts : Settled(a) => Settled(a)'
      BY SettledStays DEF IInv
    <2>3. Ledger'
      BY <2>1, <2>2 DEF IInv, TypeOK, RelayType, Ledger, OutboxTaken, InOutbox, NoAlertLost,
         SeenMeansSettled, DeliveredWasSeen, DeadWasRejected, relayDb
    <2>4. \A q \in Runs : BatchTruth(q)'
      BY <1>5, BatchTruthMisfortune, OthersUnchanged, BatchTruthStays DEF IInv
    <2> QED BY <2>3, <2>4
  <1> QED
    BY <1>1, <1>2, <1>3, <1>4, <1>5 DEF Next, vars, IInv

(***************************************************************************)
(* The theorems.                                                           *)
(***************************************************************************)
(* The inductive invariant holds in every reachable state. *)
THEOREM DeliveryInvariant == Spec => []IInv
  BY InitIInv, InductiveStep, PTL DEF Spec

(* Types: every table, every local of a run and the fault budget. *)
THEOREM DeliveryTypeOK == Spec => []TypeOK
  <1>1. IInv => TypeOK
    BY DEF IInv
  <1> QED BY <1>1, DeliveryInvariant, PTL

(* An alert that entered the relay's outbox (relay/app/alert_outbox.py) is  *)
(* never lost, however many runs overlap, die or lose their answers.        *)
THEOREM DeliveryNoAlertLost == Spec => []NoAlertLost
  <1>1. IInv => NoAlertLost
    BY DEF IInv, Ledger
  <1> QED BY <1>1, DeliveryInvariant, PTL

(* Only settled alerts are marked seen, so the relay's own deduplication    *)
(* never hides an alert that the alert store does not have.                 *)
THEOREM DeliverySeenMeansSettled == Spec => []SeenMeansSettled
  <1>1. IInv => SeenMeansSettled
    BY DEF IInv, Ledger
  <1> QED BY <1>1, DeliveryInvariant, PTL

(* A delivered row, which retention may delete, is known as seen.           *)
THEOREM DeliveryDeliveredWasSeen == Spec => []DeliveredWasSeen
  <1>1. IInv => DeliveredWasSeen
    BY DEF IInv, Ledger
  <1> QED BY <1>1, DeliveryInvariant, PTL

(* Only alerts the alert store rejects for good become dead letters.        *)
THEOREM DeliveryDeadWasRejected == Spec => []DeadWasRejected
  <1>1. IInv => DeadWasRejected
    BY DEF IInv, Ledger
  <1> QED BY <1>1, DeliveryInvariant, PTL

(* The alert store reports an alert to n8n once and never a suppressed one, *)
(* however often the alert is delivered: every transaction keeps the books  *)
(* of postCommits in step with the row.                                     *)
THEOREM DeliveryPostCommitOnce == Spec => []PostCommitOnce
  <1> DEFINE Books == PostCommitOnce /\ \A a \in Dropped : store[a] = "absent"
  <1>1. Init => Books
    BY AlertDeliveryAssumption DEF Init, PostCommitOnce
  <1>2. TypeOK /\ Books /\ [Next]_vars => Books'
    <2> SUFFICES ASSUME TypeOK, Books, [Next]_vars PROVE Books'
      OBVIOUS
    <2>1. CASE UNCHANGED storeDb
      BY <2>1 DEF PostCommitOnce, storeDb
    <2>2. ASSUME NEW a \in Alerts, NEW v \in Verdicts(a), Ingest(a, v) PROVE Books'
      <3>1. CASE StoredAs(a, v) = "accepted"
        <4>1. store[a] = "absent" /\ a \notin Dropped
          BY <3>1, VerdictType DEF StoredAs
        <4> QED
          BY <2>2, <3>1, <4>1, AlertDeliveryAssumption
             DEF Ingest, PostCommitOnce, TypeOK, StoreType
      <3>2. CASE StoredAs(a, v) # "accepted"
        <4>1. StoredAs(a, v) \in {"absent", "suppressed"} => store[a] = "absent"
          BY VerdictType, AlertDeliveryAssumption DEF StoredAs, TypeOK, StoreType
        <4>2. a \in Dropped => StoredAs(a, v) = "absent"
          BY DEF StoredAs
        <4> QED
          BY <2>2, <3>2, <4>1, <4>2, AlertDeliveryAssumption
             DEF Ingest, PostCommitOnce, TypeOK, StoreType
      <3> QED BY <3>1, <3>2
    <2> QED BY <2>1, <2>2, StoreWrites
  <1>3. Books => PostCommitOnce
    OBVIOUS
  <1> QED BY <1>1, <1>2, <1>3, DeliveryTypeOK, PTL DEF Spec

(***************************************************************************)
(* Runs one after the other, and nothing goes wrong.                       *)
(***************************************************************************)
(* What the alert store has is known as seen, or the run holds the          *)
(* acknowledgement and is about to mark it.                                 *)
KnownAsStored ==
    \A a \in Alerts : store[a] # "absent" =>
       a \in seen \/ \E r \in Runs : a \in claimed[r] \ unposted[r] /\ result[r][a] = "ok"

(* The alert store does not have what is still to be sent. *)
UnsentIsNew ==
    /\ \A a \in Pending : store[a] = "absent"
    /\ \A r \in Runs : \A a \in claimed[r] :
          a \in unposted[r] \/ pc[r] = "claiming" => store[a] = "absent"

(* A row is claimed by a run that is between its claim and its record. *)
ClaimsAreHeld ==
    /\ \A a \in Alerts : status[a] = "delivering" => \E r \in Runs : a \in claimed[r]
    /\ \A r \in Runs :
          /\ unposted[r] \subseteq claimed[r]
          /\ unposted[r] # {} => pc[r] = "sent"
          /\ claimed[r] # {} => pc[r] \in {"claiming", "sent", "recording"}
          /\ \A a \in claimed[r] : status[a] # "pending"
          /\ \A a \in half[r] : result[r][a] = "permanent" => status[a] = "absent"

(* No answer was lost and no run is about to fail. *)
NothingWrong ==
    /\ late = {}
    /\ \A a \in Alerts : store[a] # "duplicate"
    /\ \A r \in Runs : /\ pc[r] # "failing"
                       /\ \A a \in Alerts : result[r][a] # "retryable"
                       /\ pc[r] = "filtered" => fetched[r] \cap seen = {}

Calm == KnownAsStored /\ UnsentIsNew /\ ClaimsAreHeld /\ NothingWrong
CalmInv == faults = 0 => Calm

(* relay.py --pull-once is started by one timer: its runs do not overlap. *)
OneAtATime == \A q, r \in Runs : q = r

(* Nothing has gone wrong at first. *)
LEMMA CalmInit == Init => CalmInv
  BY DEF Init, CalmInv, Calm, KnownAsStored, UnsentIsNew, ClaimsAreHeld, NothingWrong, Pending, NoResult

(* Between two batches the run holds nothing. *)
LEMMA RunRests ==
  ASSUME TypeOK, TypeOK', OneAtATime, Calm, NEW r \in Runs,
         claimed[r] = {}, claimed'[r] = {}, unposted'[r] = {}, result'[r] = NoResult,
         half'[r] = {}, pc'[r] \in {"idle", "draining"}, UNCHANGED <<seen, late, store>>,
         \A a \in Alerts : status'[a] \in {status[a], "absent"}
  PROVE  Calm'
  <1>. USE DEF TypeOK, RelayType, RunType, Calm, Pending, NoResult
  <1>1. \A q \in Runs : q = r
    BY DEF OneAtATime
  <1>2. KnownAsStored' /\ UnsentIsNew'
    BY <1>1 DEF KnownAsStored, UnsentIsNew
  <1>3. ClaimsAreHeld'
    BY <1>1 DEF ClaimsAreHeld
  <1>4. NothingWrong'
    BY <1>1 DEF NothingWrong
  <1>. QED
    BY <1>2, <1>3, <1>4

(* A message that has been recorded is seen and no longer held. *)
LEMMA RecordedKeepsCalm ==
  ASSUME TypeOK, TypeOK', OneAtATime, Calm, NEW r \in Runs, NEW a \in Alerts,
         pc[r] = "recording", a \in claimed[r], claimed'[r] = claimed[r] \ {a}, half'[r] = {},
         seen' = seen \cup {a}, UNCHANGED <<pc, fetched, unposted, result, late, store>>,
         status'[a] \notin {"pending", "delivering"},
         \A b \in Alerts \ {a} : status'[b] = status[b]
  PROVE  Calm'
  <1>. USE DEF TypeOK, RelayType, RunType, Calm, Pending
  <1>1. \A q \in Runs : q = r
    BY DEF OneAtATime
  <1>2. unposted[r] = {}
    BY DEF ClaimsAreHeld
  <1>3. KnownAsStored'
    BY <1>1, <1>2 DEF KnownAsStored
  <1>4. UnsentIsNew'
    BY <1>1, <1>2 DEF UnsentIsNew
  <1>5. ClaimsAreHeld'
    BY <1>1, <1>2 DEF ClaimsAreHeld
  <1>6. NothingWrong'
    BY <1>1 DEF NothingWrong
  <1>. QED
    BY <1>3, <1>4, <1>5, <1>6

(* A run makes a step, and nothing goes wrong. *)
LEMMA CalmProgress ==
  ASSUME IInv, IInv', OneAtATime, faults = 0, Calm, NEW r \in Runs, Progress(r)
  PROVE  Calm'
  <1>. USE DEF IInv, TypeOK, RelayType, RunType, Calm, Pending
  <1>0. /\ \A q \in Runs : q = r
        /\ BatchTruth(r)
    BY DEF OneAtATime
  <1>1. CASE Pull(r)
    BY <1>0, <1>1
       DEF Pull, Goto, relayDb, storeDb, KnownAsStored, UnsentIsNew, ClaimsAreHeld, NothingWrong
  <1>2. CASE Connect(r)
    BY <1>0, <1>2
       DEF Connect, RecoveredStatus, Goto, locals, storeDb, KnownAsStored, UnsentIsNew, ClaimsAreHeld, NothingWrong
  <1>3. CASE FilterUnseen(r)
    BY <1>0, <1>3
       DEF FilterUnseen, Goto, relayDb, storeDb, KnownAsStored, UnsentIsNew, ClaimsAreHeld, NothingWrong
  <1>4. CASE Enqueue(r)
    <2>0. pc[r] = "filtered" /\ pc'[r] = "queued"
      BY <1>4 DEF Enqueue, Goto
    <2>1. claimed[r] = {} /\ unposted[r] = {} /\ half[r] = {}
      BY <1>0, <2>0 DEF ClaimsAreHeld, BatchTruth
    <2>2. UNCHANGED <<seen, locals, late, store>>
      BY <1>4 DEF Enqueue, storeDb
    <2>3. \A a \in fetched[r] : store[a] = "absent"
      BY <1>0, <2>0, <2>1 DEF KnownAsStored, NothingWrong
    <2>4. \A a \in Alerts : \/ status'[a] = status[a]
                            \/ a \in fetched[r] /\ status'[a] = "pending"
      BY <1>4 DEF Enqueue
    <2>5. KnownAsStored' /\ UnsentIsNew'
      BY <1>0, <2>0, <2>1, <2>2, <2>3, <2>4 DEF locals, KnownAsStored, UnsentIsNew
    <2>6. ClaimsAreHeld' /\ NothingWrong'
      BY <1>0, <2>0, <2>1, <2>2, <2>4 DEF locals, ClaimsAreHeld, NothingWrong
    <2>. QED
      BY <2>5, <2>6
  <1>5. CASE SelectPending(r)
    <2>1. pc[r] = "queued" /\ claimed[r] = {} /\ unposted[r] = {} /\ result[r] = NoResult
      BY <1>0, <1>5 DEF SelectPending, ClaimsAreHeld, BatchTruth
    <2>2. UNCHANGED <<relayDb, late, storeDb>>
      BY <1>5 DEF SelectPending
    <2>3. /\ pc'[r] \in {"idle", "draining"} /\ claimed'[r] = {} /\ unposted'[r] = {}
          /\ result'[r] = NoResult /\ half'[r] = {}
      BY <1>0, <1>5, <2>1 DEF SelectPending, End, Goto, BatchTruth
    <2>4. UNCHANGED <<seen, late, store>> /\ \A a \in Alerts : status'[a] \in {status[a], "absent"}
      BY <2>2 DEF relayDb, storeDb
    <2>. QED
      BY <2>1, <2>3, <2>4, RunRests
  <1>6. CASE NextBatch(r)
    <2>1. pc[r] = "draining" /\ claimed[r] = {} /\ unposted[r] = {}
      BY <1>6 DEF NextBatch, Goto, ClaimsAreHeld
    <2>2. pc'[r] = "claiming" /\ UNCHANGED <<status, seen, fetched, claimed, unposted, result, half, late, store>>
      BY <1>6 DEF NextBatch, Goto, relayDb, storeDb
    <2>3. KnownAsStored' /\ UnsentIsNew'
      BY <1>0, <2>1, <2>2 DEF KnownAsStored, UnsentIsNew
    <2>4. ClaimsAreHeld' /\ NothingWrong'
      BY <1>0, <2>1, <2>2 DEF ClaimsAreHeld, NothingWrong
    <2>. QED
      BY <2>3, <2>4
  <1>7. CASE Send(r)
    BY <1>0, <1>7
       DEF Send, Goto, relayDb, storeDb, KnownAsStored, UnsentIsNew, ClaimsAreHeld, NothingWrong
  <1>8. CASE Answer(r)
    BY <1>0, <1>8
       DEF Answer, Goto, relayDb, locals, storeDb, KnownAsStored, UnsentIsNew, ClaimsAreHeld, NothingWrong
  <1>9. CASE FailRun(r)
    BY <1>9 DEF FailRun, NothingWrong
  <1>10. CASE BatchRecorded(r)
    BY <1>0, <1>10
       DEF BatchRecorded, NoResult, Goto, relayDb, storeDb, KnownAsStored, UnsentIsNew, ClaimsAreHeld, NothingWrong
  <1>11. CASE FinishRun(r)
    <2>1. pc[r] = "draining" /\ claimed[r] = {} /\ unposted[r] = {} /\ result[r] = NoResult
      BY <1>0, <1>11 DEF FinishRun, ClaimsAreHeld, BatchTruth
    <2>2. UNCHANGED <<seen, late, store>>
      BY <1>11 DEF FinishRun, storeDb
    <2>3. /\ pc'[r] = "idle" /\ claimed'[r] = {} /\ unposted'[r] = {} /\ result'[r] = NoResult
          /\ half'[r] = {}
      BY <1>11 DEF FinishRun, End
    <2>4. \A a \in Alerts : status'[a] \in {status[a], "absent"}
      BY <1>11 DEF FinishRun
    <2>. QED
      BY <1>0, <2>1, <2>2, <2>3, <2>4, RunRests
  <1>12. ASSUME NEW a \in Alerts, Claim(r, a) PROVE Calm'
    <2>1. CASE status[a] = "pending"
      <3>1. pc[r] = "claiming" /\ unposted[r] = {} /\ result[r] = NoResult /\ half[r] = {}
        BY <1>0, <1>12 DEF Claim, ClaimsAreHeld, BatchTruth
      <3>2. /\ UNCHANGED <<seen, pc, fetched, unposted, result, half, late, store>>
            /\ status' = [status EXCEPT ![a] = "delivering"] /\ claimed'[r] = claimed[r] \cup {a}
        BY <1>12, <2>1 DEF Claim, storeDb
      <3>3. KnownAsStored' /\ UnsentIsNew'
        BY <1>0, <2>1, <3>1, <3>2 DEF KnownAsStored, UnsentIsNew
      <3>4. ClaimsAreHeld' /\ NothingWrong'
        BY <1>0, <3>1, <3>2 DEF ClaimsAreHeld, NothingWrong
      <3>. QED
        BY <3>3, <3>4
    <2>2. CASE status[a] # "pending"
      BY <1>0, <1>12, <2>2
         DEF Claim, storeDb, KnownAsStored, UnsentIsNew, ClaimsAreHeld, NothingWrong
    <2>. QED
      BY <2>1, <2>2
  <1>13. ASSUME NEW a \in Alerts, PostRejected(r, a) PROVE Calm'
    <2>1. half[r] = {}
      BY <1>0, <1>13 DEF PostRejected, Posting, BatchTruth
    <2>2. /\ UNCHANGED <<relayDb, pc, fetched, claimed, half, late, storeDb>>
          /\ unposted'[r] = unposted[r] \ {a} /\ result'[r] = [result[r] EXCEPT ![a] = "permanent"]
          /\ a \in unposted[r] /\ a \in claimed[r] /\ store[a] = "absent"
      BY <1>13 DEF PostRejected, Posting, First, ClaimsAreHeld, UnsentIsNew
    <2>. QED
      BY <1>0, <2>1, <2>2
         DEF relayDb, storeDb, KnownAsStored, UnsentIsNew, ClaimsAreHeld, NothingWrong
  <1>14. ASSUME NEW a \in Alerts, NEW v \in Verdicts(a), PostStored(r, a, v) PROVE Calm'
    <2>1. /\ UNCHANGED <<relayDb, pc, fetched, claimed, half, late>>
          /\ unposted'[r] = unposted[r] \ {a} /\ result'[r] = [result[r] EXCEPT ![a] = "ok"]
          /\ a \in unposted[r] /\ a \in claimed[r]
      BY <1>14 DEF PostStored, Posting, First, ClaimsAreHeld
    <2>2. store[a] = "absent" /\ StoredAs(a, v) # "duplicate"
      BY <2>1, VerdictType DEF UnsentIsNew, StoredAs
    <2>3. store' = [store EXCEPT ![a] = StoredAs(a, v)]
      BY <1>14 DEF PostStored, Ingest
    <2>4. pc[r] = "sent" /\ status[a] # "pending" /\ half[r] = {}
      BY <1>0, <1>14, <2>1 DEF PostStored, Posting, ClaimsAreHeld, BatchTruth
    <2>5. KnownAsStored'
      BY <1>0, <2>1, <2>3 DEF KnownAsStored, relayDb
    <2>6. UnsentIsNew'
      BY <1>0, <2>1, <2>3, <2>4 DEF UnsentIsNew, relayDb
    <2>7. ClaimsAreHeld' /\ NothingWrong'
      BY <1>0, <2>1, <2>2, <2>3, <2>4 DEF ClaimsAreHeld, NothingWrong, relayDb
    <2>. QED
      BY <2>5, <2>6, <2>7
  <1>15. ASSUME NEW a \in Alerts, FailClaimed(r, a) PROVE Calm'
    BY <1>15 DEF FailClaimed, NothingWrong
  <1>16. ASSUME NEW a \in Alerts, MarkSeen(r, a) PROVE Calm'
    BY <1>0, <1>16
       DEF MarkSeen, Recording, First, storeDb, KnownAsStored, UnsentIsNew, ClaimsAreHeld, NothingWrong
  <1>17. ASSUME NEW a \in Alerts, MarkDelivered(r, a) PROVE Calm'
    <2>1. pc[r] = "recording" /\ a \in claimed[r] /\ a \in seen
      BY <1>0, <1>17 DEF MarkDelivered, Recording, First, BatchTruth
    <2>2. /\ UNCHANGED <<seen, pc, fetched, unposted, result, late, store>>
          /\ claimed'[r] = claimed[r] \ {a} /\ half'[r] = {}
          /\ status'[a] \notin {"pending", "delivering"}
          /\ \A b \in Alerts \ {a} : status'[b] = status[b]
      BY <1>0, <1>17 DEF MarkDelivered, Recording, Recorded, SetStatus, InOutbox, storeDb
    <2>3. seen' = seen \cup {a}
      BY <2>1, <2>2
    <2>. QED
      BY <1>0, <2>1, <2>2, <2>3, RecordedKeepsCalm
  <1>18. ASSUME NEW a \in Alerts, MarkFailure(r, a) PROVE Calm'
    BY <1>18 DEF MarkFailure, Recording, NothingWrong
  <1>19. ASSUME NEW a \in Alerts, MoveToDeadLetter(r, a) PROVE Calm'
    <2>1. pc[r] = "recording" /\ a \in claimed[r]
      BY <1>19 DEF MoveToDeadLetter, Recording, First
    <2>2. /\ UNCHANGED <<seen, pc, fetched, claimed, unposted, result, late, store>>
          /\ half'[r] = {a}
          /\ status' = [status EXCEPT ![a] = "absent"]
      <3>1. status' = IF InOutbox(a) THEN [status EXCEPT ![a] = "absent"] ELSE status
        BY <1>19 DEF MoveToDeadLetter, SetStatus
      <3>2. ~ InOutbox(a) => status = [status EXCEPT ![a] = "absent"]
        BY DEF InOutbox
      <3>3. /\ UNCHANGED <<seen, pc, fetched, claimed, unposted, result, late, store>>
            /\ half'[r] = {a}
        BY <1>19 DEF MoveToDeadLetter, Recording, storeDb
      <3>. QED
        BY <3>1, <3>2, <3>3
    <2>3. KnownAsStored' /\ UnsentIsNew'
      BY <1>0, <2>1, <2>2 DEF KnownAsStored, UnsentIsNew
    <2>4. ClaimsAreHeld'
      BY <1>0, <2>1, <2>2 DEF ClaimsAreHeld
    <2>5. NothingWrong'
      BY <1>0, <2>1, <2>2 DEF NothingWrong
    <2>. QED
      BY <2>3, <2>4, <2>5
  <1>20. ASSUME NEW a \in Alerts, MarkDeadSeen(r, a) PROVE Calm'
    <2>1. pc[r] = "recording" /\ a \in claimed[r] /\ status[a] = "absent"
      BY <1>0, <1>20 DEF MarkDeadSeen, Recording, First, ClaimsAreHeld
    <2>2. /\ seen' = seen \cup {a} /\ UNCHANGED <<status, pc, fetched, unposted, result, late, store>>
          /\ claimed'[r] = claimed[r] \ {a} /\ half'[r] = {}
      BY <1>20 DEF MarkDeadSeen, Recording, Recorded, storeDb
    <2>. QED
      BY <1>0, <2>1, <2>2, RecordedKeepsCalm
  <1>. QED
    BY <1>1, <1>2, <1>3, <1>4, <1>5, <1>6, <1>7, <1>8, <1>9, <1>10, <1>11, <1>12, <1>13, <1>14,
       <1>15, <1>16, <1>17, <1>18, <1>19, <1>20 DEF Progress

(* A fault is counted; without one only the environment and the run move. *)
LEMMA CalmStep ==
  ASSUME OneAtATime PROVE IInv /\ IInv' /\ CalmInv /\ [Next]_vars => CalmInv'
  <1>. SUFFICES ASSUME IInv, IInv', CalmInv, [Next]_vars, faults' = 0 PROVE Calm'
    BY DEF CalmInv
  <1>1. ASSUME Fault PROVE FALSE
    BY <1>1 DEF Fault, IInv, TypeOK, WorldType
  <1>2. ASSUME faults' = faults PROVE faults = 0 /\ Calm
    BY <1>2 DEF CalmInv
  <1>3. ASSUME NEW r \in Runs, Progress(r) PROVE faults' = faults
    BY <1>3 DEF Progress, Pull, Connect, FilterUnseen, Enqueue, SelectPending, NextBatch, Send, Answer,
       FailRun, BatchRecorded, FinishRun, Claim, PostRejected, FailClaimed, MarkSeen, MarkDelivered,
       MarkFailure, MoveToDeadLetter, MarkDeadSeen, PostStored, Recording
  <1>4. ASSUME NEW r \in Runs, Misfortune(r) PROVE FALSE
    BY <1>1, <1>4 DEF Misfortune, SshFails, Crash, PostRefused, PostTimedOut, PostUnanswered
  <1>5. CASE Environment
    <2>1. faults' = faults /\ UNCHANGED <<relayDb, pc, locals>>
      BY <1>5 DEF Environment, Appear, AgeOut, LateLost, LateStored
    <2>2. late = {}
      BY <1>2, <2>1 DEF Calm, NothingWrong
    <2>3. UNCHANGED <<late, store>>
      BY <1>5, <2>2 DEF Environment, Appear, AgeOut, LateLost, LateStored, storeDb
    <2>. QED
      BY <1>2, <2>1, <2>3
         DEF Calm, KnownAsStored, UnsentIsNew, ClaimsAreHeld, NothingWrong, Pending, relayDb, locals
  <1>6. CASE UNCHANGED vars
    BY <1>2, <1>6
       DEF vars, Calm, KnownAsStored, UnsentIsNew, ClaimsAreHeld, NothingWrong, Pending, relayDb, locals, storeDb
  <1>. QED
    BY <1>2, <1>3, <1>4, <1>5, <1>6, CalmProgress DEF Next

(* Runs that the timer starts one after the other store an alert twice      *)
(* only if an answer was lost or a run was killed on the way: the outbox    *)
(* (relay/app/alert_outbox.py) itself never sends an acknowledged alert     *)
(* again.                                                                   *)
THEOREM DeliveryReplayOnlyAfterFault == ASSUME OneAtATime PROVE Spec => []ReplayOnlyAfterFault
  <1>1. CalmInv => ReplayOnlyAfterFault
    BY DEF CalmInv, Calm, NothingWrong, ReplayOnlyAfterFault
  <1>2. IInv /\ IInv' /\ CalmInv /\ [Next]_vars => CalmInv'
    BY CalmStep
  <1>. QED
    BY <1>1, <1>2, CalmInit, DeliveryInvariant, PTL DEF Spec

(***************************************************************************)
(* The promise.                                                            *)
(***************************************************************************)
(* What is on its way was taken from the outbox; what is rejected or        *)
(* dropped is not stored.                                                   *)
SentWasTaken == late \subseteq taken /\ \A r \in Runs : unposted[r] \subseteq taken
KeptOut == \A a \in Rejected \cup Dropped : store[a] = "absent"
PInv == IInv /\ SentWasTaken /\ KeptOut

(* Nothing is sent or stored at first. *)
LEMMA PInit == Init => PInv
  <1>. SUFFICES ASSUME Init PROVE SentWasTaken /\ KeptOut
    BY InitIInv DEF PInv
  <1>. QED
    BY AlertDeliveryAssumption DEF Init, SentWasTaken, KeptOut

(* The alert store refuses the rejected and leaves no row of the dropped. *)
LEMMA KeptOutStep == ASSUME TypeOK, KeptOut, [Next]_vars PROVE KeptOut'
  <1>1. CASE UNCHANGED storeDb
    BY <1>1 DEF KeptOut, storeDb
  <1>2. ASSUME NEW b \in Alerts, NEW v \in Verdicts(b), Ingest(b, v) PROVE KeptOut'
    <2>1. b \notin Rejected /\ store' = [store EXCEPT ![b] = StoredAs(b, v)]
      BY <1>2 DEF Ingest
    <2>2. b \in Dropped => StoredAs(b, v) = "absent"
      BY DEF StoredAs
    <2>. QED
      BY <2>1, <2>2, AlertDeliveryAssumption DEF KeptOut, TypeOK, StoreType
  <1>. QED
    BY <1>1, <1>2, StoreWrites

(* Requests are made for claimed rows, and outlive them. *)
LEMMA SentWasTakenStep == ASSUME IInv, SentWasTaken, [Next]_vars PROVE SentWasTaken'
  <1>. USE DEF IInv, TypeOK, RunType, SentWasTaken
  <1>0. taken \subseteq taken'
    BY TablesGrow
  <1>1. CASE UNCHANGED <<late, unposted>>
    BY <1>0, <1>1
  <1>2. ASSUME NEW r \in Runs, End(r), late' = late \/ \E L \in SUBSET unposted[r] : late' = late \cup L
        PROVE  SentWasTaken'
    BY <1>0, <1>2 DEF End
  <1>3. ASSUME NEW r \in Runs, NEW a \in Alerts, NEW x \in {"ok", "permanent", "retryable"},
               Posting(r, a, x), late' \in {late, late \cup {a}}
        PROVE  SentWasTaken'
    BY <1>0, <1>3 DEF Posting, First
  <1>4. ASSUME NEW r \in Runs, Progress(r) PROVE SentWasTaken'
    <2>1. CASE Send(r)
      <3>1. claimed[r] \subseteq taken
        BY DEF BatchTruth
      <3>. QED
        BY <1>0, <2>1, <3>1 DEF Send
    <2>2. CASE \E a \in Alerts : PostRejected(r, a) \/ \E v \in Verdicts(a) : PostStored(r, a, v)
      BY <1>3, <2>2 DEF PostRejected, PostStored
    <2>3. CASE FailRun(r) \/ FinishRun(r) \/ (SelectPending(r) /\ End(r))
      BY <1>2, <2>3 DEF FailRun, FinishRun, SelectPending
    <2>4. CASE SelectPending(r) /\ ~ End(r)
      BY <1>1, <2>4 DEF SelectPending
    <2>. QED
      BY <1>1, <1>4, <2>1, <2>2, <2>3, <2>4
         DEF Progress, Pull, Connect, FilterUnseen, Enqueue, NextBatch, Answer, BatchRecorded, Claim, FailClaimed,
             MarkSeen, MarkDelivered, MarkFailure, MoveToDeadLetter, MarkDeadSeen, Recording, locals
  <1>5. ASSUME NEW r \in Runs, Misfortune(r) PROVE SentWasTaken'
    <2>1. CASE SshFails(r)
      BY <1>0, <2>1 DEF SshFails
    <2>2. CASE \E a \in Alerts : \/ PostRefused(r, a) \/ PostTimedOut(r, a)
                                 \/ \E v \in Verdicts(a) : PostUnanswered(r, a, v)
      BY <1>3, <2>2 DEF PostRefused, PostTimedOut, PostUnanswered
    <2>. QED
      BY <1>2, <1>5, <2>1, <2>2 DEF Misfortune, Crash
  <1>6. CASE Environment
    BY <1>0, <1>1, <1>6 DEF Environment, Appear, AgeOut, LateLost, LateStored, locals
  <1>. QED
    BY <1>1, <1>4, <1>5, <1>6 DEF Next, vars, locals

(* With these the invariant is inductive again. *)
LEMMA PStep == PInv /\ [Next]_vars => PInv'
  BY InductiveStep, SentWasTakenStep, KeptOutStep DEF PInv, IInv

(* Requests on their way to the alert store, late ones too, are for alerts  *)
(* of the outbox, and nothing rejected or dropped is stored.                *)
THEOREM PInvHolds == Spec => []PInv
  BY PInit, PStep, PTL DEF Spec

(* What ReliableDelivery sees of a state. *)
LEMMA SameView ==
  ASSUME UNCHANGED <<taken, dead, seen, store, postCommits>>, Backlog' = Backlog
  PROVE  UNCHANGED Promise!promise
  BY DEF Promise!promise, FateOf

(* Initial states are initial states of the promise. *)
LEMMA PromiseInit == Init => Promise!Init
  BY DEF Init, Promise!Init, Backlog, FateOf

(* The transaction of the alert store. *)
LEMMA IngestView ==
  ASSUME PInv, NEW a \in taken, NEW v \in Verdicts(a), Ingest(a, v), UNCHANGED relayDb
  PROVE  Promise!Next \/ UNCHANGED Promise!promise
  <1>. USE DEF PInv, IInv, TypeOK, RelayType, StoreType
  <1>0. /\ a \in Alerts \ Rejected /\ store' = [store EXCEPT ![a] = StoredAs(a, v)]
        /\ UNCHANGED <<status, taken, dead, seen>> /\ Backlog' = Backlog
    BY DEF Ingest, relayDb, Backlog
  <1>1. a \notin dead
    BY <1>0 DEF Ledger, DeadWasRejected
  <1>2. CASE a \in Dropped
    <2>1. store[a] = "absent" /\ StoredAs(a, v) = "absent"
      BY <1>2 DEF KeptOut, StoredAs
    <2>2. store' = store /\ postCommits' = postCommits
      BY <1>0, <2>1 DEF Ingest
    <2>. QED
      BY <1>0, <2>2, SameView
  <1>3. CASE a \notin Dropped /\ store[a] = "absent"
    <2>1. StoredAs(a, v) = v /\ v \in {"accepted", "suppressed"}
          /\ (v = "suppressed" => a \in Suppressible)
      BY <1>3 DEF StoredAs, Verdicts
    <2>2. postCommits' = IF v = "suppressed" THEN postCommits ELSE [postCommits EXCEPT ![a] = @ + 1]
      BY <2>1 DEF Ingest
    <2>3. FateOf[a] = "open" /\ FateOf' = [FateOf EXCEPT ![a] = v]
      BY <1>0, <1>1, <1>3, <2>1 DEF FateOf
    <2>4. v = IF v = "suppressed" THEN "suppressed" ELSE "accepted"
      BY <2>1
    <2>5. Promise!Deliver(a, v = "suppressed")
      BY <1>0, <1>3, <2>1, <2>2, <2>3, <2>4 DEF Promise!Deliver
    <2>. QED
      BY <1>0, <2>5 DEF Promise!Next
  <1>4. CASE a \notin Dropped /\ store[a] # "absent"
    <2>1. StoredAs(a, v) = "duplicate" /\ postCommits' = postCommits
      BY <1>4 DEF Ingest, StoredAs
    <2>2. FateOf[a] = store[a] /\ FateOf' = [FateOf EXCEPT ![a] = "duplicate"]
      BY <1>0, <1>1, <1>4, <2>1 DEF FateOf
    <2>3. CASE store[a] = "duplicate"
      <3>1. store' = store
        BY <1>0, <2>1, <2>3
      <3>. QED
        BY <1>0, <2>1, <3>1, SameView
    <2>4. CASE store[a] # "duplicate"
      <3>1. Promise!Redeliver(a)
        BY <1>0, <1>4, <2>1, <2>2, <2>4 DEF Promise!Redeliver
      <3>. QED
        BY <1>0, <3>1 DEF Promise!Next
    <2>. QED
      BY <2>3, <2>4
  <1>. QED
    BY <1>2, <1>3, <1>4

(* A row whose status is written without looking at it. *)
LEMMA SetStatusView ==
  ASSUME PInv, NEW a \in Alerts, NEW x \in {"pending", "delivered", "absent"}, SetStatus(a, x)
  PROVE  /\ InOutbox(a) /\ x = "pending" => Backlog' = Backlog \cup {a}
         /\ InOutbox(a) /\ x # "pending" => Backlog' = Backlog \ {a}
         /\ ~ InOutbox(a) => status' = status /\ Backlog' = Backlog
         /\ InOutbox(a) => a \in taken
  <1>. USE DEF PInv, IInv, TypeOK, RelayType, Ledger, OutboxTaken
  <1>1. CASE InOutbox(a)
    BY <1>1 DEF SetStatus, Backlog
  <1>2. CASE ~ InOutbox(a)
    BY <1>2 DEF SetStatus, Backlog
  <1>. QED
    BY <1>1, <1>2

(* The sender learns the fate of an alert only from a true answer. *)
LEMMA LearnView ==
  ASSUME PInv, NEW a \in taken, Settled(a), seen' = seen \cup {a},
         UNCHANGED <<status, taken, dead, store, postCommits>>
  PROVE  Promise!Next
  <1>1. a \in Alerts /\ Backlog' = Backlog /\ FateOf' = FateOf
    BY DEF PInv, IInv, TypeOK, RelayType, Backlog, FateOf
  <1>2. Promise!Decided(a)
    <2>1. store[a] # "open"
      BY <1>1 DEF PInv, IInv, TypeOK, StoreType
    <2>. QED
      BY <1>1, <2>1 DEF Settled, Promise!Decided, FateOf
  <1>3. Promise!Learn(a)
    BY <1>1, <1>2 DEF Promise!Learn
  <1>. QED
    BY <1>1, <1>3 DEF Promise!Next

(* A dead letter is the end of an alert in the backlog, or of one that was  *)
(* dead already.                                                            *)
LEMMA DeadLetterView ==
  ASSUME PInv, NEW r \in Runs, NEW a \in Alerts, MoveToDeadLetter(r, a)
  PROVE  Promise!Next \/ UNCHANGED Promise!promise
  <1>. USE DEF PInv, IInv, TypeOK, RelayType, StoreType
  <1>0. /\ dead' = IF InOutbox(a) THEN dead \cup {a} ELSE dead
        /\ SetStatus(a, "absent") /\ UNCHANGED <<taken, seen, store, postCommits>>
    BY DEF MoveToDeadLetter, Recording, storeDb
  <1>1. a \in Rejected
    <2>1. a \in claimed[r] /\ result[r][a] = "permanent"
      BY DEF MoveToDeadLetter, Recording, First
    <2>2. BatchTruth(r)
      OBVIOUS
    <2>. QED
      BY <2>1, <2>2 DEF BatchTruth
  <1>2. store[a] = "absent" /\ a \notin Dropped
    BY <1>1, AlertDeliveryAssumption DEF KeptOut
  <1>3. CASE ~ InOutbox(a)
    BY <1>0, <1>3, SetStatusView, SameView
  <1>4. CASE InOutbox(a) /\ a \in Backlog
    <2>1. Backlog' = Backlog \ {a} /\ dead' = dead \cup {a}
      BY <1>0, <1>4, SetStatusView
    <2>2. FateOf' = [FateOf EXCEPT ![a] = "refused"]
      BY <1>0, <2>1 DEF FateOf
    <2>3. Promise!Refuse(a)
      BY <1>0, <1>1, <1>4, <2>1, <2>2 DEF Promise!Refuse
    <2>. QED
      BY <2>3 DEF Promise!Next
  <1>5. CASE InOutbox(a) /\ a \notin Backlog
    <2>1. status[a] = "delivered"
      BY <1>5 DEF InOutbox, Backlog
    <2>2. a \in dead
      BY <1>2, <2>1 DEF Ledger, DeliveredWasSeen, SeenMeansSettled, Settled
    <2>3. Backlog' = Backlog /\ dead' = dead
      BY <1>0, <1>5, <2>2, SetStatusView
    <2>. QED
      BY <1>0, <2>3, SameView
  <1>. QED
    BY <1>3, <1>4, <1>5

(* A run returns an alert to the backlog, whoever has dealt with it since. *)
LEMMA ReturnView ==
  ASSUME PInv, NEW a \in Alerts, SetStatus(a, "pending"), UNCHANGED <<taken, dead, seen, store, postCommits>>
  PROVE  Promise!Next \/ UNCHANGED Promise!promise
  <1>1. CASE InOutbox(a)
    <2>1. Backlog' = Backlog \cup {a} /\ taken' = taken \cup {a}
      BY <1>1, SetStatusView
    <2>2. Promise!Accept({a})
      BY <2>1 DEF Promise!Accept, FateOf
    <2>. QED
      BY <2>2 DEF Promise!Next
  <1>2. CASE ~ InOutbox(a)
    BY <1>2, SetStatusView, SameView
  <1>. QED
    BY <1>1, <1>2

(* Every step of a run is a step of the promise or hidden. *)
LEMMA ProgressView ==
  ASSUME PInv, NEW r \in Runs, Progress(r)
  PROVE  Promise!Next \/ UNCHANGED Promise!promise
  <1>. DEFINE Kept == Promise!Next \/ UNCHANGED Promise!promise
  <1>. USE DEF PInv, IInv, TypeOK, RelayType, RunType
  <1>1. CASE UNCHANGED relayDb /\ UNCHANGED storeDb
    BY <1>1, SameView DEF relayDb, storeDb, Backlog
  <1>2. CASE Connect(r)
    <2>1. Backlog' = Backlog
      BY <1>2 DEF Connect, RecoveredStatus, Backlog
    <2>. QED
      BY <1>2, <2>1, SameView DEF Connect, storeDb
  <1>3. CASE Enqueue(r)
    <2>1. PICK new : new = {a \in fetched[r] : ~ InOutbox(a)}
      OBVIOUS
    <2>2. new \in SUBSET Alerts /\ taken' = taken \cup new
      BY <1>3, <2>1 DEF Enqueue, Ledger, OutboxTaken
    <2>3. Backlog' = Backlog \cup new
      BY <1>3, <2>1 DEF Enqueue, Backlog
    <2>4. Promise!Accept(new)
      BY <1>3, <2>2, <2>3 DEF Promise!Accept, Enqueue, storeDb, FateOf
    <2>. QED
      BY <2>2, <2>4 DEF Promise!Next
  <1>4. CASE FinishRun(r)
    <2>1. Backlog' = Backlog
      BY <1>4 DEF FinishRun, Old, Backlog
    <2>. QED
      BY <1>4, <2>1, SameView DEF FinishRun, storeDb
  <1>5. ASSUME NEW a \in Alerts, Claim(r, a) PROVE Kept
    <2>1. Backlog' = Backlog
      BY <1>5 DEF Claim, Backlog
    <2>. QED
      BY <1>5, <2>1, SameView DEF Claim, storeDb
  <1>6. ASSUME NEW a \in Alerts, FailClaimed(r, a) \/ MarkFailure(r, a) PROVE Kept
    BY <1>6, ReturnView DEF FailClaimed, MarkFailure, Recording, storeDb
  <1>7. ASSUME NEW a \in Alerts, MarkSeen(r, a) \/ MarkDeadSeen(r, a) PROVE Kept
    <2>1. a \in taken /\ Settled(a)
      BY <1>7 DEF MarkSeen, MarkDeadSeen, Recording, First, BatchTruth
    <2>2. seen' = seen \cup {a} /\ UNCHANGED <<status, taken, dead, store, postCommits>>
      BY <1>7 DEF MarkSeen, MarkDeadSeen, Recording, storeDb
    <2>. QED
      BY <2>1, <2>2, LearnView
  <1>8. ASSUME NEW a \in Alerts, MarkDelivered(r, a) PROVE Kept
    <2>1. a \in seen /\ SetStatus(a, "delivered")
      BY <1>8 DEF MarkDelivered, Recording, First, BatchTruth
    <2>2. UNCHANGED <<taken, dead, seen, store, postCommits>>
      BY <1>8 DEF MarkDelivered, Recording, storeDb
    <2>3. CASE Backlog' = Backlog
      BY <2>2, <2>3, SameView
    <2>4. CASE Backlog' # Backlog
      <3>1. Backlog' = Backlog \ {a} /\ a \in Backlog
        BY <2>1, <2>4, SetStatusView
      <3>2. Promise!Release(a)
        BY <2>1, <2>2, <3>1 DEF Promise!Release, FateOf
      <3>. QED
        BY <3>2 DEF Promise!Next
    <2>. QED
      BY <2>3, <2>4
  <1>9. ASSUME NEW a \in Alerts, MoveToDeadLetter(r, a) PROVE Kept
    BY <1>9, DeadLetterView
  <1>10. ASSUME NEW a \in Alerts, NEW v \in Verdicts(a), PostStored(r, a, v) PROVE Kept
    <2>1. a \in taken /\ Ingest(a, v) /\ UNCHANGED relayDb
      BY <1>10 DEF PostStored, Posting, First, SentWasTaken
    <2>. QED
      BY <2>1, IngestView
  <1>. QED
    BY <1>1, <1>2, <1>3, <1>4, <1>5, <1>6, <1>7, <1>8, <1>9, <1>10
       DEF Progress, Pull, FilterUnseen, SelectPending, NextBatch, Send, Answer, FailRun,
           BatchRecorded, PostRejected, Posting

(* So is every other step. *)
LEMMA PromiseStep ==
  ASSUME PInv, [Next]_vars
  PROVE  Promise!Next \/ UNCHANGED Promise!promise
  <1>1. CASE UNCHANGED relayDb /\ UNCHANGED storeDb
    BY <1>1, SameView DEF relayDb, storeDb, Backlog
  <1>2. ASSUME NEW a \in taken, NEW v \in Verdicts(a), Ingest(a, v), UNCHANGED relayDb
        PROVE  Promise!Next \/ UNCHANGED Promise!promise
    BY <1>2, IngestView
  <1>3. ASSUME NEW r \in Runs, Misfortune(r) PROVE Promise!Next \/ UNCHANGED Promise!promise
    <2>1. ASSUME NEW a \in Alerts, NEW v \in Verdicts(a), PostUnanswered(r, a, v)
          PROVE  a \in taken /\ Ingest(a, v) /\ UNCHANGED relayDb
      BY <2>1 DEF PostUnanswered, Posting, First, PInv, SentWasTaken
    <2>. QED
      BY <1>1, <1>2, <1>3, <2>1 DEF Misfortune, SshFails, Crash, PostRefused, PostTimedOut, Posting
  <1>4. CASE Environment
    <2>1. ASSUME NEW a \in Alerts, NEW v \in Verdicts(a), LateStored(a, v)
          PROVE  a \in taken /\ Ingest(a, v) /\ UNCHANGED relayDb
      BY <2>1 DEF LateStored, PInv, SentWasTaken
    <2>. QED
      BY <1>1, <1>2, <1>4, <2>1 DEF Environment, Appear, AgeOut, LateLost
  <1>. QED
    BY <1>1, <1>3, <1>4, ProgressView DEF Next, vars

(* The relay's outbox and the alert store's transaction implement           *)
(* ReliableDelivery: with runs that overlap, die, lose answers and leave    *)
(* requests behind that are executed late, an alert is owed until its fate  *)
(* is known, is stored only after it was taken and reported only when it is *)
(* stored first.                                                            *)
THEOREM DeliveryImplementsPromise == Spec => ImplementsReliableDelivery
  <1>1. PInv /\ [Next]_vars => [Promise!Next]_(Promise!promise)
    BY PromiseStep
  <1>. QED
    BY <1>1, PromiseInit, PInvHolds, PTL DEF Spec, ImplementsReliableDelivery, Promise!Spec
=============================================================================
