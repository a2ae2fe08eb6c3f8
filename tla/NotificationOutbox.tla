------------------------- MODULE NotificationOutbox -------------------------
(***************************************************************************)
(* The Telegram outbox of the alert store (services/                       *)
(* notification_service.js): the transaction that stores an alert puts one *)
(* row per notification key, a drain sends due rows one at a time and      *)
(* records the outcome.  Ingestion goes on while the drain waits for       *)
(* Telegram, the answer of Telegram may be lost, the write of an outcome   *)
(* may fail, and the process may be killed between any two commits.        *)
(*                                                                         *)
(* The rows whose next_attempt_at has come are due, in the order in which  *)
(* it came: ahead of a due row are those whose time came before.           *)
(***************************************************************************)
EXTENDS Naturals

CONSTANTS
    Keys,             \* notification keys: level, rule, source, destination
    OutboxMaxAttempts,
    DrainSize,        \* messages of one pass of the drain
    Ids,              \* bound: rows ever inserted
    NoItem, NoKey,
    MaxCrashes,       \* bound: killed processes
    MaxLostAnswers,   \* bound: messages delivered without an answer
    MaxFailedWrites   \* bound: writes of an outcome that fail

ASSUME NotificationOutboxAssumption ==
    /\ NoItem \notin Ids /\ NoKey \notin Keys
    /\ OutboxMaxAttempts \in Nat \ {0} /\ DrainSize \in Nat \ {0}
    /\ MaxCrashes \in Nat /\ MaxLostAnswers \in Nat /\ MaxFailedWrites \in Nat

VARIABLES
    \* notification_outbox: one function per column that matters
    status, keyOf, attempts, due, ahead,
    \* notification_log: last_sent is less than the cooldown ago
    cooling,
    \* the drain: what it does, to which row, and how many it has claimed
    pc, item, processed,
    up,
    \* faults so far
    crashes, lostAnswers, failedWrites,
    \* history, per key: a message went out less than the cooldown ago; how
    \* many went out although one had; the faults that hit its deliveries
    recent, repeats, mishaps

schedule == <<due, ahead>>
rows == <<status, keyOf, attempts, schedule>>
drain == <<pc, item, processed>>
faults == <<crashes, lostAnswers, failedWrites>>
history == <<recent, repeats, mishaps>>
vars == <<rows, cooling, drain, up, faults, history>>

Live(i) == status[i] \in {"pending", "delivering"}

Init ==
    /\ status = [i \in Ids |-> "absent"]
    /\ keyOf = [i \in Ids |-> NoKey]
    /\ attempts = [i \in Ids |-> 0]
    /\ due = {} /\ ahead = [i \in Ids |-> {}]
    /\ cooling = [k \in Keys |-> FALSE]
    /\ pc = "idle" /\ item = NoItem /\ processed = 0
    /\ up = TRUE
    /\ crashes = 0 /\ lostAnswers = 0 /\ failedWrites = 0
    /\ recent = [k \in Keys |-> FALSE]
    /\ repeats = [k \in Keys |-> 0]
    /\ mishaps = [k \in Keys |-> 0]

-----------------------------------------------------------------------------
BecomesDueLast(i) ==
    /\ due' = due \cup {i}
    /\ ahead' = [ahead EXCEPT ![i] = due]

NoLongerDue(i) ==
    /\ due' = due \ {i}
    /\ ahead' = [j \in Ids |-> IF j = i THEN {} ELSE ahead[j] \ {i}]

(* Mutant of MayQueue: the row in delivery is overlooked. *)
MutIgnoreDelivering(k) ==
    /\ ~cooling[k]
    /\ \A i \in Ids : keyOf[i] = k => status[i] # "pending"

MayQueue(k) ==
    /\ ~cooling[k]
    /\ \A i \in Ids : keyOf[i] = k => ~Live(i)

(* A new alert with key k is stored, and asks to be notified. *)
QueueTelegramNotification(k, i) ==
    /\ up
    /\ MayQueue(k)
    /\ status[i] = "absent"
    /\ status' = [status EXCEPT ![i] = "pending"]
    /\ keyOf' = [keyOf EXCEPT ![i] = k]
    /\ BecomesDueLast(i)
    /\ UNCHANGED <<attempts, cooling, drain, up, faults, history>>

-----------------------------------------------------------------------------
(* One pass at a time: outboxDrainActive. *)
StartDrain ==
    /\ up /\ pc = "idle"
    /\ pc' = "claiming" /\ processed' = 0
    /\ UNCHANGED <<rows, cooling, item, up, faults, history>>

FirstDue(i) ==
    /\ i \in due /\ status[i] = "pending"
    /\ \A j \in ahead[i] : status[j] # "pending"

(* Mutant of Stop: the row in hand is not let go. *)
MutStopKeepsItem == pc' = "idle" /\ UNCHANGED <<item, processed>>

Stop == pc' = "idle" /\ item' = NoItem /\ UNCHANGED processed

MayClaim == processed < DrainSize

ClaimTelegramOutboxItem(i) ==
    /\ pc = "claiming" /\ pc' = "sending"
    /\ MayClaim
    /\ FirstDue(i)
    /\ status' = [status EXCEPT ![i] = "delivering"]
    /\ attempts' = [attempts EXCEPT ![i] = @ + 1]
    /\ item' = i
    /\ processed' = processed + 1
    /\ UNCHANGED <<keyOf, schedule, cooling, up, faults, history>>

EndDrain ==
    /\ pc = "claiming"
    /\ MayClaim => \A i \in Ids : ~FirstDue(i)
    /\ Stop
    /\ UNCHANGED <<rows, cooling, up, faults, history>>

WriteFails == failedWrites < MaxFailedWrites /\ failedWrites' = failedWrites + 1

(* The claim is rolled back and the pass is over. *)
ClaimFails ==
    /\ WriteFails
    /\ pc = "claiming"
    /\ Stop
    /\ UNCHANGED <<rows, cooling, up, crashes, lostAnswers, history>>

(* postTelegramMessage, and what Telegram has made of it: k's readers see  *)
(* one more message.                                                       *)
MessageOut(k) ==
    /\ recent' = [recent EXCEPT ![k] = TRUE]
    /\ repeats' = IF recent[k] THEN [repeats EXCEPT ![k] = @ + 1] ELSE repeats

Mishap(k) == mishaps' = [mishaps EXCEPT ![k] = @ + 1]

Sent ==
    /\ pc = "sending" /\ pc' = "answered"
    /\ MessageOut(keyOf[item])
    /\ UNCHANGED <<rows, cooling, item, processed, up, faults, mishaps>>

NotSent ==
    /\ pc = "sending" /\ pc' = "failing"
    /\ UNCHANGED <<rows, cooling, item, processed, up, faults, history>>

(* Delivered, and the request times out. *)
AnswerLost ==
    /\ lostAnswers < MaxLostAnswers /\ lostAnswers' = lostAnswers + 1
    /\ pc = "sending" /\ pc' = "failing"
    /\ MessageOut(keyOf[item]) /\ Mishap(keyOf[item])
    /\ UNCHANGED <<rows, cooling, item, processed, up, crashes, failedWrites>>

(* Mutant of CompleteTelegramOutboxItem: the log is not written. *)
MutCompleteWithoutLog ==
    /\ pc = "answered" /\ pc' = "claiming"
    /\ status' = [status EXCEPT ![item] = "sent"]
    /\ NoLongerDue(item)
    /\ item' = NoItem
    /\ UNCHANGED <<keyOf, attempts, cooling, processed, up, faults, history>>

(* The row and the cooldown, in one transaction; then the next row. *)
CompleteTelegramOutboxItem ==
    /\ pc = "answered" /\ pc' = "claiming"
    /\ status' = [status EXCEPT ![item] = "sent"]
    /\ NoLongerDue(item)
    /\ cooling' = [cooling EXCEPT ![keyOf[item]] = TRUE]
    /\ item' = NoItem
    /\ UNCHANGED <<keyOf, attempts, processed, up, faults, history>>

(* The same handler catches a message that was not sent and an outcome     *)
(* that was not written.                                                   *)
CompleteFails ==
    /\ WriteFails
    /\ pc = "answered" /\ pc' = "failing"
    /\ Mishap(keyOf[item])
    /\ UNCHANGED <<rows, cooling, item, processed, up, crashes, lostAnswers, recent, repeats>>

(* Mutant of Terminal: one attempt too many. *)
MutOneTooMany(i) == attempts[i] > OutboxMaxAttempts

Terminal(i) == attempts[i] >= OutboxMaxAttempts

(* The first failure ends the pass. *)
FailTelegramOutboxItem ==
    /\ pc = "failing"
    /\ status' = [status EXCEPT ![item] = IF Terminal(item) THEN "failed" ELSE "pending"]
    /\ NoLongerDue(item)
    /\ Stop
    /\ UNCHANGED <<keyOf, attempts, cooling, up, faults, history>>

(* The row stays as the claim left it. *)
FailFails ==
    /\ WriteFails
    /\ pc = "failing"
    /\ Stop
    /\ UNCHANGED <<rows, cooling, up, crashes, lostAnswers, history>>

-----------------------------------------------------------------------------
(* The backoff of a row that failed is over. *)
BecomesDue(i) ==
    /\ status[i] = "pending" /\ i \notin due
    /\ BecomesDueLast(i)
    /\ UNCHANGED <<status, keyOf, attempts, cooling, drain, up, faults, history>>

(* The cooldown is over: first since the message, then since the log. *)
RecentEnds(k) ==
    /\ recent[k] /\ recent' = [recent EXCEPT ![k] = FALSE]
    /\ UNCHANGED <<rows, cooling, drain, up, faults, repeats, mishaps>>

CoolingEnds(k) ==
    /\ cooling[k] /\ ~recent[k]
    /\ cooling' = [cooling EXCEPT ![k] = FALSE]
    /\ UNCHANGED <<rows, drain, up, faults, history>>

(* The process is killed; a message it was sending may go out. *)
Crash ==
    /\ up /\ up' = FALSE
    /\ crashes < MaxCrashes /\ crashes' = crashes + 1
    /\ Stop
    /\ \/ UNCHANGED <<recent, repeats>>
       \/ pc = "sending" /\ MessageOut(keyOf[item])
    /\ IF item = NoItem THEN UNCHANGED mishaps ELSE Mishap(keyOf[item])
    /\ UNCHANGED <<rows, cooling, lostAnswers, failedWrites>>

(* Mutant of Reclaimed: interrupted deliveries stay interrupted. *)
MutNotReclaimed == status

Reclaimed == [i \in Ids |-> IF status[i] = "delivering" THEN "pending" ELSE status[i]]

(* installNotifications *)
Restart ==
    /\ ~up /\ up' = TRUE
    /\ status' = Reclaimed
    /\ UNCHANGED <<keyOf, attempts, schedule, cooling, drain, faults, history>>

-----------------------------------------------------------------------------
Deliver ==
    \/ \E i \in Ids : ClaimTelegramOutboxItem(i)
    \/ EndDrain \/ Sent \/ NotSent
    \/ CompleteTelegramOutboxItem \/ FailTelegramOutboxItem

Next ==
    \/ \E k \in Keys, i \in Ids : QueueTelegramNotification(k, i)
    \/ StartDrain \/ Deliver
    \/ AnswerLost \/ ClaimFails \/ CompleteFails \/ FailFails
    \/ \E i \in Ids : BecomesDue(i)
    \/ \E k \in Keys : RecentEnds(k) \/ CoolingEnds(k)
    \/ Crash \/ Restart

Spec == Init /\ [][Next]_vars

(* The timer starts a pass every 15 seconds, a pass goes on (every request *)
(* has a timeout), clocks advance and the service is restarted.            *)
FairSpec ==
    /\ Spec
    /\ WF_vars(StartDrain) /\ WF_vars(Deliver) /\ WF_vars(Restart)
    /\ \A i \in Ids : WF_vars(BecomesDue(i))

-----------------------------------------------------------------------------
TypeOK ==
    /\ status \in [Ids -> {"absent", "pending", "delivering", "sent", "failed"}]
    /\ keyOf \in [Ids -> Keys \cup {NoKey}]
    /\ attempts \in [Ids -> Nat]
    /\ due \subseteq Ids /\ ahead \in [Ids -> SUBSET Ids]
    /\ cooling \in [Keys -> BOOLEAN]
    /\ pc \in {"idle", "claiming", "sending", "answered", "failing"}
    /\ item \in Ids \cup {NoItem} /\ processed \in 0 .. DrainSize
    /\ item = NoItem <=> pc \in {"idle", "claiming"}
    /\ up \in BOOLEAN
    /\ crashes \in 0 .. MaxCrashes
    /\ lostAnswers \in 0 .. MaxLostAnswers
    /\ failedWrites \in 0 .. MaxFailedWrites
    /\ recent \in [Keys -> BOOLEAN]
    /\ repeats \in [Keys -> Nat] /\ mishaps \in [Keys -> Nat]

(* Readers get one message for a key until the cooldown is over: the rows  *)
(* that may still be sent are at most one per key, and none while the log  *)
(* cools, through retries, restarts and failed writes.                     *)
OneRowPerKey ==
    /\ \A i, j \in Ids : Live(i) /\ Live(j) /\ keyOf[i] = keyOf[j] => i = j
    /\ \A i \in Ids : Live(i) => ~cooling[keyOf[i]]

(* A message that repeats one within the cooldown is the mark of a fault   *)
(* of its own: a kill, a lost answer or a failed write during a delivery   *)
(* of that key.  In a healthy process nothing repeats.                     *)
RepeatsNeedMishaps == \A k \in Keys : repeats[k] <= mishaps[k]

(* The attempt limit holds up to the attempts that a kill interrupted.     *)
AttemptsBounded == \A i \in Ids : attempts[i] <= OutboxMaxAttempts + crashes

(* A delivery whose outcome could not be written: nobody takes the row     *)
(* back while the process lives.                                           *)
Abandoned(i) ==
    /\ up /\ failedWrites > 0
    /\ status[i] = "delivering" /\ item # i

(* n8n/README.md:718-721: a committed notification is delivered, or its    *)
(* terminal failure recorded, after a bounded number of attempts, whatever *)
(* is killed on the way; only a failed write of an outcome abandons it.    *)
NotificationEnds ==
    \A i \in Ids : Live(i) ~> (status[i] \in {"sent", "failed"} \/ Abandoned(i))
=============================================================================
