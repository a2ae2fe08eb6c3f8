---------------------- MODULE NotificationOutbox_proofs ----------------------
(* What TLAPS proves of NotificationOutbox, for any number of keys, rows,   *)
(* attempts and faults.  A repeated message is paid for in advance: as soon *)
(* as a key is exposed (a message of it is out and neither the log nor the  *)
(* drain knows), a fault has been counted that no repetition has used up.   *)
EXTENDS NotificationOutbox, TLAPS

(* The drain is the only one to hold a row, which is in delivery. *)
DrainOwnsItem ==
    /\ item = NoItem <=> pc \in {"idle", "claiming"}
    /\ item # NoItem => status[item] = "delivering"
    /\ pc # "idle" => up
    /\ \A i \in Ids : status[i] # "absent" => keyOf[i] \in Keys

(* A row that will be claimed again has an attempt left, or a kill gave it  *)
(* one.                                                                     *)
AttemptsLeft ==
    \A i \in Ids :
        /\ status[i] = "absent" => attempts[i] = 0
        /\ status[i] = "pending" => attempts[i] < OutboxMaxAttempts + crashes
        /\ status[i] = "delivering" /\ ~up => attempts[i] < OutboxMaxAttempts + crashes

(* The next message of k would repeat one: it is out, and the cooldown that *)
(* would prevent another is neither logged nor about to be.                 *)
Exposed(k) == recent[k] /\ ~cooling[k] /\ ~(pc = "answered" /\ keyOf[item] = k)

PaidInAdvance ==
    \A k \in Keys : repeats[k] + (IF Exposed(k) THEN 1 ELSE 0) <= mishaps[k]

IInv ==
    /\ TypeOK
    /\ OneRowPerKey
    /\ DrainOwnsItem
    /\ AttemptsBounded /\ AttemptsLeft
    /\ PaidInAdvance

(* The initial state satisfies the inductive invariant. *)
LEMMA InitIInv == Init => IInv
  BY NotificationOutboxAssumption
  DEF Init, IInv, TypeOK, OneRowPerKey, Live, DrainOwnsItem, AttemptsBounded, AttemptsLeft,
      PaidInAdvance, Exposed

(* Ingestion puts a row only for a key that has none and does not cool. *)
LEMMA QueueInv ==
  ASSUME IInv, NEW k \in Keys, NEW i \in Ids, QueueTelegramNotification(k, i)
  PROVE  IInv'
<1> USE NotificationOutboxAssumption DEF IInv, QueueTelegramNotification, drain, faults, history
<1>1. TypeOK'
  BY DEF TypeOK, BecomesDueLast
<1>2. OneRowPerKey'
  BY DEF OneRowPerKey, MayQueue, Live, TypeOK
<1>3. DrainOwnsItem'
  BY DEF DrainOwnsItem, TypeOK
<1>4. AttemptsBounded' /\ AttemptsLeft'
  BY DEF AttemptsBounded, AttemptsLeft, TypeOK
<1>5. PaidInAdvance'
  BY DEF PaidInAdvance, Exposed, DrainOwnsItem, TypeOK
<1> QED BY <1>1, <1>2, <1>3, <1>4, <1>5

(* The drain takes a row that is due. *)
LEMMA ClaimInv ==
  ASSUME IInv, NEW i \in Ids, ClaimTelegramOutboxItem(i)
  PROVE  IInv'
<1> USE NotificationOutboxAssumption
    DEF IInv, ClaimTelegramOutboxItem, FirstDue, schedule, faults, history
<1>1. TypeOK'
  BY DEF TypeOK, MayClaim
<1>2. OneRowPerKey'
  BY DEF OneRowPerKey, Live, TypeOK
<1>3. DrainOwnsItem'
  BY DEF DrainOwnsItem, TypeOK
<1>4. AttemptsBounded' /\ AttemptsLeft'
  BY DEF AttemptsBounded, AttemptsLeft, DrainOwnsItem, TypeOK
<1>5. PaidInAdvance'
  BY DEF PaidInAdvance, Exposed, TypeOK
<1> QED BY <1>1, <1>2, <1>3, <1>4, <1>5

(* What is true of the row in the hands of the drain. *)
LEMMA ItemFacts ==
  ASSUME IInv, item # NoItem
  PROVE  /\ item \in Ids /\ up
         /\ status[item] = "delivering"
         /\ keyOf[item] \in Keys
         /\ ~cooling[keyOf[item]]
  BY DEF IInv, TypeOK, DrainOwnsItem, OneRowPerKey, Live

(* A message goes out: it repeats one only where a fault had exposed the    *)
(* key, and a lost answer, or a kill, is the fault that exposes it next.    *)
LEMMA SendingInv ==
  ASSUME IInv, Sent \/ NotSent \/ AnswerLost
  PROVE  IInv'
<1> DEFINE k == keyOf[item]
<1>0. item # NoItem /\ pc = "sending"
  BY DEF IInv, DrainOwnsItem, Sent, NotSent, AnswerLost
<1>1. k \in Keys /\ ~cooling[k] /\ item \in Ids
  BY <1>0, ItemFacts
<1> USE DEF IInv, rows, schedule, faults, history, Sent, NotSent, AnswerLost
<1>2. TypeOK'
  <2>1. CASE Sent
    BY <1>1, <2>1 DEF TypeOK, MessageOut
  <2>2. CASE NotSent
    BY <2>2 DEF TypeOK
  <2>3. CASE AnswerLost
    BY <1>1, <2>3, NotificationOutboxAssumption DEF TypeOK, MessageOut, Mishap
  <2> QED BY <2>1, <2>2, <2>3
<1>3. OneRowPerKey'
  BY DEF OneRowPerKey, Live
<1>4. DrainOwnsItem'
  BY <1>0 DEF DrainOwnsItem
<1>5. AttemptsBounded' /\ AttemptsLeft'
  BY DEF AttemptsBounded, AttemptsLeft
<1>6. PaidInAdvance'
  <2>1. SUFFICES ASSUME NEW j \in Keys
                 PROVE  (repeats[j] + (IF Exposed(j) THEN 1 ELSE 0) <= mishaps[j])'
    BY DEF PaidInAdvance
  <2>2. repeats[j] + (IF Exposed(j) THEN 1 ELSE 0) <= mishaps[j]
    BY DEF PaidInAdvance
  <2>3. repeats[j] \in Nat /\ mishaps[j] \in Nat
    BY DEF TypeOK
  <2>4. CASE j # k
    BY <1>0, <1>1, <2>2, <2>3, <2>4 DEF Exposed, MessageOut, Mishap, TypeOK
  <2>5. CASE j = k
    BY <1>0, <1>1, <2>2, <2>3, <2>5 DEF Exposed, MessageOut, Mishap, TypeOK
  <2> QED BY <2>4, <2>5
<1> QED BY <1>2, <1>3, <1>4, <1>5, <1>6

(* The outcome is recorded. *)
LEMMA CompleteInv ==
  ASSUME IInv, CompleteTelegramOutboxItem
  PROVE  IInv'
<1> DEFINE k == keyOf[item]
<1>0. item # NoItem
  BY DEF IInv, DrainOwnsItem, CompleteTelegramOutboxItem
<1>1. k \in Keys /\ item \in Ids /\ up /\ status[item] = "delivering"
  BY <1>0, ItemFacts
<1> USE DEF IInv, CompleteTelegramOutboxItem, faults, history
<1>2. TypeOK'
  BY <1>1 DEF TypeOK, NoLongerDue
<1>3. OneRowPerKey'
  BY <1>1 DEF OneRowPerKey, Live, TypeOK, DrainOwnsItem
<1>4. DrainOwnsItem'
  BY <1>1 DEF DrainOwnsItem, TypeOK
<1>5. AttemptsBounded' /\ AttemptsLeft'
  BY <1>1 DEF AttemptsBounded, AttemptsLeft, TypeOK
<1>6. PaidInAdvance'
  BY <1>1 DEF PaidInAdvance, Exposed, TypeOK
<1> QED BY <1>2, <1>3, <1>4, <1>5, <1>6

LEMMA FailInv ==
  ASSUME IInv, FailTelegramOutboxItem
  PROVE  IInv'
<1>0. item # NoItem
  BY DEF IInv, DrainOwnsItem, FailTelegramOutboxItem
<1>1. item \in Ids /\ up /\ status[item] = "delivering"
  BY <1>0, ItemFacts
<1> USE DEF IInv, FailTelegramOutboxItem, Stop, faults, history
<1>2. TypeOK'
  BY <1>1 DEF TypeOK, NoLongerDue
<1>3. OneRowPerKey'
  BY <1>1 DEF OneRowPerKey, Live, TypeOK
<1>4. DrainOwnsItem'
  BY <1>1 DEF DrainOwnsItem, TypeOK
<1>5. AttemptsBounded' /\ AttemptsLeft'
  BY <1>1, NotificationOutboxAssumption DEF AttemptsBounded, AttemptsLeft, TypeOK, Terminal
<1>6. PaidInAdvance'
  BY DEF PaidInAdvance, Exposed, TypeOK
<1> QED BY <1>2, <1>3, <1>4, <1>5, <1>6

(* Writes of an outcome that fail. *)
LEMMA WriteFailureInv ==
  ASSUME IInv, CompleteFails \/ FailFails
  PROVE  IInv'
<1> DEFINE k == keyOf[item]
<1>0. item # NoItem
  BY DEF IInv, DrainOwnsItem, CompleteFails, FailFails
<1>1. k \in Keys /\ item \in Ids /\ up
  BY <1>0, ItemFacts
<1> USE DEF IInv, CompleteFails, FailFails, WriteFails, Stop, rows, schedule, history
<1>2. TypeOK'
  <2>1. CASE CompleteFails
    BY <1>1, <2>1, NotificationOutboxAssumption DEF TypeOK, Mishap
  <2>2. CASE FailFails
    BY <2>2, NotificationOutboxAssumption DEF TypeOK
  <2> QED BY <2>1, <2>2
<1>3. OneRowPerKey'
  BY DEF OneRowPerKey, Live
<1>4. DrainOwnsItem'
  BY <1>1 DEF DrainOwnsItem
<1>5. AttemptsBounded' /\ AttemptsLeft'
  BY DEF AttemptsBounded, AttemptsLeft
<1>6. PaidInAdvance'
  <2>1. CASE CompleteFails
    BY <1>1, <2>1 DEF PaidInAdvance, Exposed, TypeOK, Mishap
  <2>2. CASE FailFails
    BY <2>2 DEF PaidInAdvance, Exposed, TypeOK
  <2> QED BY <2>1, <2>2
<1> QED BY <1>2, <1>3, <1>4, <1>5, <1>6

(* The process dies: what it was delivering is counted as hit. *)
LEMMA CrashInv ==
  ASSUME IInv, Crash
  PROVE  IInv'
<1> DEFINE k == keyOf[item]
<1>1. item # NoItem => k \in Keys /\ ~cooling[k] /\ item \in Ids
  BY ItemFacts
<1> USE DEF IInv, Crash, Stop, rows, schedule
<1>2. TypeOK'
  <2>1. recent' \in [Keys -> BOOLEAN] /\ repeats' \in [Keys -> Nat]
    <3>1. CASE UNCHANGED <<recent, repeats>>
      BY <3>1 DEF TypeOK
    <3>2. CASE pc = "sending" /\ MessageOut(k)
      <4>1. k \in Keys
        BY <1>1, <3>2 DEF DrainOwnsItem
      <4> QED BY <3>2, <4>1 DEF TypeOK, MessageOut
    <3> QED BY <3>1, <3>2
  <2>2. mishaps' \in [Keys -> Nat]
    BY <1>1 DEF TypeOK, Mishap
  <2>3. crashes' \in 0 .. MaxCrashes
    BY NotificationOutboxAssumption DEF TypeOK
  <2> QED BY <2>1, <2>2, <2>3 DEF TypeOK
<1>3. OneRowPerKey'
  BY DEF OneRowPerKey, Live
<1>4. DrainOwnsItem'
  BY DEF DrainOwnsItem
<1>5. AttemptsBounded' /\ AttemptsLeft'
  BY NotificationOutboxAssumption DEF AttemptsBounded, AttemptsLeft, TypeOK
<1>6. PaidInAdvance'
  <2>1. SUFFICES ASSUME NEW j \in Keys
                 PROVE  (repeats[j] + (IF Exposed(j) THEN 1 ELSE 0) <= mishaps[j])'
    BY DEF PaidInAdvance
  <2>2. repeats[j] + (IF Exposed(j) THEN 1 ELSE 0) <= mishaps[j]
    BY DEF PaidInAdvance
  <2>3. repeats[j] \in Nat /\ mishaps[j] \in Nat
    BY DEF TypeOK
  <2>4. CASE item = NoItem
    BY <2>2, <2>3, <2>4 DEF Exposed, DrainOwnsItem
  <2>5. CASE item # NoItem /\ j # k
    BY <1>1, <2>2, <2>3, <2>5 DEF Exposed, MessageOut, Mishap, TypeOK
  <2>6. CASE item # NoItem /\ j = k
    BY <1>1, <2>2, <2>3, <2>6 DEF Exposed, MessageOut, Mishap, TypeOK
  <2> QED BY <2>4, <2>5, <2>6
<1> QED BY <1>2, <1>3, <1>4, <1>5, <1>6

(* The restarted process takes interrupted deliveries back. *)
LEMMA RestartInv ==
  ASSUME IInv, Restart
  PROVE  IInv'
<1> USE DEF IInv, Restart, Reclaimed, schedule, drain, faults, history
<1>0. pc = "idle" /\ item = NoItem
  BY DEF DrainOwnsItem, TypeOK
<1>1. TypeOK'
  BY DEF TypeOK
<1>2. OneRowPerKey'
  BY DEF OneRowPerKey, Live
<1>3. DrainOwnsItem'
  BY <1>0 DEF DrainOwnsItem, TypeOK
<1>4. AttemptsBounded' /\ AttemptsLeft'
  BY DEF AttemptsBounded, AttemptsLeft
<1>5. PaidInAdvance'
  BY DEF PaidInAdvance, Exposed
<1> QED BY <1>1, <1>2, <1>3, <1>4, <1>5

(* Time, and passes that begin and end. *)
LEMMA QuietInv ==
  ASSUME IInv,
         \/ StartDrain \/ EndDrain \/ ClaimFails \/ UNCHANGED vars
         \/ \E i \in Ids : BecomesDue(i)
         \/ \E k \in Keys : RecentEnds(k) \/ CoolingEnds(k)
  PROVE  IInv'
<1> USE DEF IInv, StartDrain, EndDrain, ClaimFails, WriteFails, BecomesDue, RecentEnds, CoolingEnds, vars, rows, schedule, drain,
        faults, history, Stop
<1>1. TypeOK'
  <2>1. CASE StartDrain \/ EndDrain \/ ClaimFails \/ UNCHANGED vars
    BY <2>1, NotificationOutboxAssumption DEF TypeOK
  <2>2. CASE \E i \in Ids : BecomesDue(i)
    BY <2>2 DEF TypeOK, BecomesDueLast
  <2>3. CASE \E k \in Keys : RecentEnds(k) \/ CoolingEnds(k)
    BY <2>3 DEF TypeOK
  <2> QED BY <2>1, <2>2, <2>3
<1>2. OneRowPerKey'
  BY DEF OneRowPerKey, Live, DrainOwnsItem, TypeOK
<1>3. DrainOwnsItem'
  BY DEF DrainOwnsItem
<1>4. AttemptsBounded' /\ AttemptsLeft'
  BY DEF AttemptsBounded, AttemptsLeft
<1>5. PaidInAdvance'
  BY DEF PaidInAdvance, Exposed, TypeOK
<1> QED BY <1>1, <1>2, <1>3, <1>4, <1>5

(* Every step keeps the inductive invariant. *)
LEMMA NextIInv == IInv /\ [Next]_vars => IInv'
  BY QueueInv, ClaimInv, SendingInv, CompleteInv, FailInv, WriteFailureInv, CrashInv,
     RestartInv, QuietInv
  DEF Next, Deliver

(* The inductive invariant holds in every reachable state. *)
THEOREM OutboxInvariant == Spec => []IInv
<1>1. Init => IInv
  BY InitIInv
<1>2. IInv /\ [Next]_vars => IInv'
  BY NextIInv
<1> QED BY <1>1, <1>2, PTL DEF Spec

(* Types of the outbox, the log and the drain (claimTelegramOutboxItem      *)
(* never takes more than DrainSize rows in a pass).                         *)
THEOREM OutboxTypeOK == Spec => []TypeOK
<1>1. IInv => TypeOK
  BY DEF IInv
<1> QED BY <1>1, OutboxInvariant, PTL

(* A key has at most one row to send, and none while its cooldown is logged *)
(* (queueTelegramNotification's two checks are enough for all writers).     *)
THEOREM OneRowPerKeyHolds == Spec => []OneRowPerKey
<1>1. IInv => OneRowPerKey
  BY DEF IInv
<1> QED BY <1>1, OutboxInvariant, PTL

(* Every message repeated within its cooldown is matched by a fault of its  *)
(* own (drainTelegramOutbox never sends twice by itself).                   *)
THEOREM RepeatsNeedMishapsHolds == Spec => []RepeatsNeedMishaps
<1>1. IInv => RepeatsNeedMishaps
  <2>1. SUFFICES ASSUME IInv, NEW k \in Keys PROVE repeats[k] <= mishaps[k]
    BY DEF RepeatsNeedMishaps
  <2>2. repeats[k] \in Nat /\ mishaps[k] \in Nat
    BY <2>1 DEF IInv, TypeOK
  <2>3. repeats[k] + (IF Exposed(k) THEN 1 ELSE 0) <= mishaps[k]
    BY <2>1 DEF IInv, PaidInAdvance
  <2> QED BY <2>2, <2>3
<1> QED BY <1>1, OutboxInvariant, PTL

(* failTelegramOutboxItem's limit is exceeded by interrupted attempts only. *)
THEOREM AttemptsBoundedHolds == Spec => []AttemptsBounded
<1>1. IInv => AttemptsBounded
  BY DEF IInv
<1> QED BY <1>1, OutboxInvariant, PTL
=============================================================================
