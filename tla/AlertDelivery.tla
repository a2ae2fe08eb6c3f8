--------------------------- MODULE AlertDelivery ---------------------------
(***************************************************************************)
(* The way of an alert from Security Onion to the alert store: the relay's *)
(* SQLite outbox and pull cycle (relay/app), the forced-command intake on  *)
(* the Mac (bin/onion-sentinel-alert-intake.py) and the transaction that   *)
(* stores an alert (services/alert_ingest_orchestrator.js).  The transport *)
(* is the SSH batch.                                                       *)
(*                                                                         *)
(* A run is one execution of `relay.py --pull-once'.  The timer starts     *)
(* them one after the other; a second unit file can be started by hand, so *)
(* two of them may overlap: Runs has one member or two.  Every SQLite      *)
(* statement of the relay commits on its own, and so is an action of its   *)
(* own; the run may be killed between any two.                             *)
(*                                                                         *)
(* An alert is as large or as strange as the constants say:                *)
(*   Oversized    alone exceeds batch_max_bytes of the relay               *)
(*   Rejected     exceeds the body limit of the alert store (HTTP 413)     *)
(*   Dropped      matches a drop rule of the alert store                   *)
(*   Suppressible matches a suppression rule, whose window decides         *)
(***************************************************************************)
EXTENDS Naturals, FiniteSets

CONSTANTS
    Alerts,         \* alert ids, ordered as numbers
    Oversized, Rejected, Dropped, Suppressible,
    Runs,
    DrainLimit,     \* outbox_drain_limit
    BatchItems,     \* batch_max_items
    MaxFaults       \* bound: lost or refused calls and killed runs

ASSUME AlertDeliveryAssumption ==
    /\ Alerts \subseteq Nat
    /\ Oversized \cup Rejected \cup Dropped \cup Suppressible \subseteq Alerts
    /\ Oversized \cap (Rejected \cup Dropped \cup Suppressible) = {}
    /\ Rejected \cap (Dropped \cup Suppressible) = {}
    /\ Dropped \cap Suppressible = {}
    /\ DrainLimit \in Nat \ {0} /\ BatchItems \in Nat \ {0} /\ MaxFaults \in Nat

VARIABLES
    \* Security Onion: the lookback of the export
    exposure,
    \* the relay's database
    status, created, clock, seen, dead,
    \* each run of the relay
    pc, fetched, todo, batch, claimed, unposted, result, half, failed,
    \* requests whose sender no longer waits, and the faults so far
    late, faults,
    \* the alert store
    store, analysed, postCommits,
    \* history: alerts the relay has put in its outbox
    taken

relayDb == <<status, created, clock, seen, dead, taken>>
locals == <<fetched, todo, batch, claimed, unposted, result, half, failed>>
storeDb == <<store, analysed, postCommits>>
vars == <<exposure, relayDb, pc, locals, late, faults, storeDb>>

InOutbox(a) == status[a] # "absent"
Pending == {a \in Alerts : status[a] = "pending"}
Visible == {a \in Alerts : exposure[a] = "visible"}

NoResult == [a \in Alerts |-> "none"]

Init ==
    /\ exposure = [a \in Alerts |-> "future"]
    /\ status = [a \in Alerts |-> "absent"]
    /\ created = [a \in Alerts |-> 0]
    /\ clock = 0
    /\ seen = {} /\ dead = {} /\ taken = {}
    /\ pc = [r \in Runs |-> "idle"]
    /\ fetched = [r \in Runs |-> {}] /\ todo = [r \in Runs |-> {}]
    /\ batch = [r \in Runs |-> {}] /\ claimed = [r \in Runs |-> {}]
    /\ unposted = [r \in Runs |-> {}] /\ half = [r \in Runs |-> {}]
    /\ result = [r \in Runs |-> NoResult]
    /\ failed = [r \in Runs |-> FALSE]
    /\ late = {} /\ faults = 0
    /\ store = [a \in Alerts |-> "absent"]
    /\ analysed = {}
    /\ postCommits = [a \in Alerts |-> 0]

Goto(r, from, to) == pc[r] = from /\ pc' = [pc EXCEPT ![r] = to]

(* The process is gone: what it knew is gone with it. *)
End(r) ==
    /\ pc' = [pc EXCEPT ![r] = "idle"]
    /\ fetched' = [fetched EXCEPT ![r] = {}]
    /\ todo' = [todo EXCEPT ![r] = {}]
    /\ batch' = [batch EXCEPT ![r] = {}]
    /\ claimed' = [claimed EXCEPT ![r] = {}]
    /\ unposted' = [unposted EXCEPT ![r] = {}]
    /\ result' = [result EXCEPT ![r] = NoResult]
    /\ half' = [half EXCEPT ![r] = {}]
    /\ failed' = [failed EXCEPT ![r] = FALSE]

Fault == faults < MaxFaults /\ faults' = faults + 1

-----------------------------------------------------------------------------
(* The lookback moves on. *)
Appear(a) ==
    /\ exposure[a] = "future"
    /\ exposure' = [exposure EXCEPT ![a] = "visible"]
    /\ UNCHANGED <<relayDb, pc, locals, late, faults, storeDb>>

AgeOut(a) ==
    /\ exposure[a] = "visible"
    /\ exposure' = [exposure EXCEPT ![a] = "gone"]
    /\ UNCHANGED <<relayDb, pc, locals, late, faults, storeDb>>

-----------------------------------------------------------------------------
(* run_ssh_pull *)
Pull(r) ==
    /\ Goto(r, "idle", "fetched")
    /\ fetched' = [fetched EXCEPT ![r] = Visible]
    /\ UNCHANGED <<exposure, relayDb, todo, batch, claimed, unposted, result, half,
                   failed, late, faults, storeDb>>

(* Mutants of RecoveredStatus: everything claimed once is claimed again;    *)
(* nothing is recovered.                                                    *)
MutRecoverAll == [a \in Alerts |-> IF InOutbox(a) THEN "pending" ELSE status[a]]
MutRecoverNothing == status

(* connect_db: interrupted claims become eligible again. *)
RecoveredStatus == [a \in Alerts |-> IF status[a] = "delivering" THEN "pending" ELSE status[a]]

Connect(r) ==
    /\ Goto(r, "fetched", "connected")
    /\ status' = RecoveredStatus
    /\ UNCHANGED <<exposure, created, clock, seen, dead, taken, locals, late, faults, storeDb>>

FilterUnseen(r) ==
    /\ Goto(r, "connected", "filtered")
    /\ fetched' = [fetched EXCEPT ![r] = @ \ seen]
    /\ UNCHANGED <<exposure, relayDb, todo, batch, claimed, unposted, result, half,
                   failed, late, faults, storeDb>>

(* INSERT OR IGNORE of every new alert, one commit. *)
Enqueue(r) ==
    /\ Goto(r, "filtered", "queued")
    /\ LET new == {a \in fetched[r] : ~InOutbox(a)} IN
       /\ status' = [a \in Alerts |-> IF a \in new THEN "pending" ELSE status[a]]
       /\ created' = [a \in Alerts |-> IF a \in new THEN clock ELSE created[a]]
       /\ clock' = IF new = {} THEN clock ELSE clock + 1
       /\ taken' = taken \cup fetched[r]
    /\ UNCHANGED <<exposure, seen, dead, locals, late, faults, storeDb>>

(* ORDER BY created_at, alert_id: the order in which the messages of a     *)
(* batch are claimed, posted and recorded, too.                            *)
Before(a, b) == created[a] < created[b] \/ (created[a] = created[b] /\ a <= b)

First(a, S) == a \in S /\ \A b \in S : Before(a, b)

(* The first rows of T, at most n of them. *)
Oldest(S, T, n) ==
    /\ S \subseteq T
    /\ Cardinality(S) <= n
    /\ \A a \in S, b \in T \ S : Before(a, b)

(* pending and split_batches: an item too large for any batch raises       *)
(* before anything is claimed.                                             *)
SelectPending(r) ==
    /\ pc[r] = "queued"
    /\ \E S \in SUBSET Pending :
          /\ Oldest(S, Pending, DrainLimit)
          /\ Cardinality(S) = DrainLimit \/ S = Pending
          /\ IF S \cap Oversized # {}
             THEN End(r)
             ELSE /\ Goto(r, "queued", "draining")
                  /\ todo' = [todo EXCEPT ![r] = S]
                  /\ UNCHANGED <<fetched, batch, claimed, unposted, result, half, failed>>
    /\ UNCHANGED <<exposure, relayDb, late, faults, storeDb>>

(* The next of the batches: how many fit in batch_max_bytes is open. *)
NextBatch(r) ==
    /\ Goto(r, "draining", "claiming")
    /\ \E B \in SUBSET todo[r] \ {{}} :
          /\ Oldest(B, todo[r], BatchItems)
          /\ batch' = [batch EXCEPT ![r] = B]
          /\ todo' = [todo EXCEPT ![r] = @ \ B]
    /\ UNCHANGED <<exposure, relayDb, fetched, claimed, unposted, result, half, failed,
                   late, faults, storeDb>>

Claim(r, a) ==
    /\ pc[r] = "claiming" /\ First(a, batch[r])
    /\ batch' = [batch EXCEPT ![r] = @ \ {a}]
    /\ IF status[a] = "pending"
       THEN /\ status' = [status EXCEPT ![a] = "delivering"]
            /\ claimed' = [claimed EXCEPT ![r] = @ \cup {a}]
       ELSE UNCHANGED <<status, claimed>>
    /\ UNCHANGED <<exposure, created, clock, seen, dead, taken, pc, fetched, todo,
                   unposted, result, half, failed, late, faults, storeDb>>

(* deliver_ssh_batch starts the intake on the Mac. *)
Send(r) ==
    /\ batch[r] = {}
    /\ IF claimed[r] = {}
       THEN Goto(r, "claiming", "draining") /\ UNCHANGED unposted
       ELSE Goto(r, "claiming", "sent") /\ unposted' = [unposted EXCEPT ![r] = claimed[r]]
    /\ UNCHANGED <<exposure, relayDb, fetched, todo, batch, claimed, result, half, failed,
                   late, faults, storeDb>>

-----------------------------------------------------------------------------
(* The alert store takes one alert: POST /alert, one transaction. *)
Verdicts(a) == IF a \in Suppressible THEN {"accepted", "suppressed"} ELSE {"accepted"}

(* Mutants of StoredAs: the answer's status stored as filter status; a      *)
(* replay taken for a new alert.                                            *)
MutStoreAnswerStatus(a, verdict) ==
    IF a \in Dropped THEN "absent"
    ELSE IF store[a] = "absent" THEN verdict ELSE "already_seen"
MutStoreReplace(a, verdict) == IF a \in Dropped THEN "absent" ELSE verdict

StoredAs(a, verdict) ==
    CASE a \in Dropped -> "absent"
      [] a \notin Dropped /\ store[a] = "absent" -> verdict
      [] OTHER -> "duplicate"

Ingest(a, verdict) ==
    /\ a \notin Rejected
    /\ store' = [store EXCEPT ![a] = StoredAs(a, verdict)]
    /\ postCommits' = IF StoredAs(a, verdict) = "accepted"
                      THEN [postCommits EXCEPT ![a] = @ + 1] ELSE postCommits
    /\ analysed' = IF StoredAs(a, verdict) \in {"accepted", "duplicate"}
                   THEN analysed \cup {a} ELSE analysed

(* post_message, by the intake that serves the batch of r *)
Posting(r, a, answer) ==
    /\ pc[r] = "sent" /\ First(a, unposted[r])
    /\ unposted' = [unposted EXCEPT ![r] = @ \ {a}]
    /\ result' = [result EXCEPT ![r][a] = answer]
    /\ UNCHANGED <<exposure, relayDb, pc, fetched, todo, batch, claimed, half, failed>>

PostStored(r, a, verdict) ==
    /\ Posting(r, a, "ok")
    /\ Ingest(a, verdict)
    /\ UNCHANGED <<late, faults>>

PostRejected(r, a) ==
    /\ a \in Rejected
    /\ Posting(r, a, "permanent")
    /\ UNCHANGED <<late, faults, storeDb>>

(* Stored, and the answer is lost. *)
PostUnanswered(r, a, verdict) ==
    /\ Fault
    /\ Posting(r, a, "retryable")
    /\ Ingest(a, verdict)
    /\ UNCHANGED late

(* Busy, disk full, restarting, or the deadline of the batch. *)
PostRefused(r, a) ==
    /\ Fault
    /\ Posting(r, a, "retryable")
    /\ UNCHANGED <<late, storeDb>>

(* The request times out and is still being worked on. *)
PostTimedOut(r, a) ==
    /\ Fault
    /\ Posting(r, a, "retryable")
    /\ late' = late \cup {a}
    /\ UNCHANGED storeDb

LateStored(a, verdict) ==
    /\ a \in late
    /\ late' = late \ {a}
    /\ Ingest(a, verdict)
    /\ UNCHANGED <<exposure, relayDb, pc, locals, faults>>

LateLost(a) ==
    /\ a \in late
    /\ late' = late \ {a}
    /\ UNCHANGED <<exposure, relayDb, pc, locals, faults, storeDb>>

-----------------------------------------------------------------------------
(* One acknowledgement for every message came back. *)
Answer(r) ==
    /\ Goto(r, "sent", "recording")
    /\ unposted[r] = {}
    /\ UNCHANGED <<exposure, relayDb, locals, late, faults, storeDb>>

(* ssh fails or times out; the intake on the other side may go on. *)
SshFails(r) ==
    /\ Fault
    /\ Goto(r, "sent", "failing")
    /\ \E L \in SUBSET unposted[r] : late' = late \cup L
    /\ unposted' = [unposted EXCEPT ![r] = {}]
    /\ UNCHANGED <<exposure, relayDb, fetched, todo, batch, claimed, result, half, failed,
                   storeDb>>

(* UPDATE ... WHERE alert_id: whatever the status, if the row is there. *)
SetStatus(a, s) ==
    status' = IF InOutbox(a) THEN [status EXCEPT ![a] = s] ELSE status

Recorded(r, a) == claimed' = [claimed EXCEPT ![r] = @ \ {a}]

(* The whole batch failed: mark_failure for each, then the run raises. *)
FailClaimed(r, a) ==
    /\ pc[r] = "failing" /\ First(a, claimed[r])
    /\ SetStatus(a, "pending")
    /\ Recorded(r, a)
    /\ UNCHANGED <<exposure, created, clock, seen, dead, taken, pc, fetched, todo, batch,
                   unposted, result, half, failed, late, faults, storeDb>>

FailRun(r) ==
    /\ pc[r] = "failing" /\ claimed[r] = {}
    /\ End(r)
    /\ UNCHANGED <<exposure, relayDb, late, faults, storeDb>>

(* _record_ssh_batch_results takes the messages one after the other. *)
Recording(r, a, answer) ==
    /\ pc[r] = "recording" /\ First(a, claimed[r])
    /\ result[r][a] = answer
    /\ UNCHANGED <<exposure, created, clock, taken, pc, fetched, todo, batch, unposted,
                   result, late, faults, storeDb>>

(* Mutant of MarkSeen: the outbox is updated first. *)
MutDeliverFirst(r, a) ==
    /\ Recording(r, a, "ok") /\ half[r] = {}
    /\ SetStatus(a, "delivered")
    /\ half' = [half EXCEPT ![r] = {a}]
    /\ UNCHANGED <<seen, dead, claimed, failed>>

(* ok: mark_seen, then mark_delivered. *)
MarkSeen(r, a) ==
    /\ Recording(r, a, "ok") /\ half[r] = {}
    /\ seen' = seen \cup {a}
    /\ half' = [half EXCEPT ![r] = {a}]
    /\ UNCHANGED <<status, dead, claimed, failed>>

MarkDelivered(r, a) ==
    /\ Recording(r, a, "ok") /\ half[r] = {a}
    /\ SetStatus(a, "delivered")
    /\ half' = [half EXCEPT ![r] = {}]
    /\ Recorded(r, a)
    /\ UNCHANGED <<seen, dead, failed>>

(* Mutant of MarkFailure: a retryable failure counts as seen. *)
MutFailureSeen(r, a) ==
    /\ Recording(r, a, "retryable")
    /\ SetStatus(a, "pending")
    /\ seen' = seen \cup {a}
    /\ failed' = [failed EXCEPT ![r] = TRUE]
    /\ Recorded(r, a)
    /\ UNCHANGED <<dead, half>>

MarkFailure(r, a) ==
    /\ Recording(r, a, "retryable")
    /\ SetStatus(a, "pending")
    /\ failed' = [failed EXCEPT ![r] = TRUE]
    /\ Recorded(r, a)
    /\ UNCHANGED <<seen, dead, half>>

(* Mutant of MoveToDeadLetter: the row is deleted, the copy forgotten. *)
MutDiscardRejected(r, a) ==
    /\ Recording(r, a, "permanent") /\ half[r] = {}
    /\ SetStatus(a, "absent")
    /\ half' = [half EXCEPT ![r] = {a}]
    /\ UNCHANGED <<seen, dead, claimed, failed>>

(* permanent: move_to_dead_letter, then mark_seen. *)
MoveToDeadLetter(r, a) ==
    /\ Recording(r, a, "permanent") /\ half[r] = {}
    /\ dead' = IF InOutbox(a) THEN dead \cup {a} ELSE dead
    /\ SetStatus(a, "absent")
    /\ half' = [half EXCEPT ![r] = {a}]
    /\ UNCHANGED <<seen, claimed, failed>>

MarkDeadSeen(r, a) ==
    /\ Recording(r, a, "permanent") /\ half[r] = {a}
    /\ seen' = seen \cup {a}
    /\ half' = [half EXCEPT ![r] = {}]
    /\ failed' = [failed EXCEPT ![r] = TRUE]
    /\ Recorded(r, a)
    /\ UNCHANGED <<status, dead>>

BatchRecorded(r) ==
    /\ Goto(r, "recording", "draining")
    /\ claimed[r] = {}
    /\ result' = [result EXCEPT ![r] = NoResult]
    /\ UNCHANGED <<exposure, relayDb, fetched, todo, batch, claimed, unposted, half, failed,
                   late, faults, storeDb>>

(* A drain without a failure is followed by prune_delivered.  The retention *)
(* (30 days) is longer than the lookback and any run, so an alert still     *)
(* exported or held by a run is not old.                                    *)
Old == {a \in Alerts : /\ status[a] = "delivered"
                       /\ exposure[a] = "gone"
                       /\ \A q \in Runs : a \notin fetched[q]}

FinishRun(r) ==
    /\ pc[r] = "draining" /\ todo[r] = {}
    /\ \E old \in SUBSET Old :
          /\ failed[r] => old = {}
          /\ status' = [a \in Alerts |-> IF a \in old THEN "absent" ELSE status[a]]
    /\ End(r)
    /\ UNCHANGED <<exposure, created, clock, seen, dead, taken, late, faults, storeDb>>

(* Killed by the service timeout, or the host stops. *)
Crash(r) ==
    /\ Fault
    /\ pc[r] # "idle"
    /\ \E L \in SUBSET unposted[r] : late' = late \cup L
    /\ End(r)
    /\ UNCHANGED <<exposure, relayDb, storeDb>>

-----------------------------------------------------------------------------
Progress(r) ==
    \/ Pull(r) \/ Connect(r) \/ FilterUnseen(r) \/ Enqueue(r) \/ SelectPending(r)
    \/ NextBatch(r) \/ Send(r) \/ Answer(r) \/ FailRun(r) \/ BatchRecorded(r) \/ FinishRun(r)
    \/ \E a \in Alerts :
          \/ Claim(r, a) \/ PostRejected(r, a) \/ FailClaimed(r, a)
          \/ MarkSeen(r, a) \/ MarkDelivered(r, a) \/ MarkFailure(r, a)
          \/ MoveToDeadLetter(r, a) \/ MarkDeadSeen(r, a)
          \/ \E v \in Verdicts(a) : PostStored(r, a, v)

Misfortune(r) ==
    \/ SshFails(r) \/ Crash(r)
    \/ \E a \in Alerts :
          \/ PostRefused(r, a) \/ PostTimedOut(r, a)
          \/ \E v \in Verdicts(a) : PostUnanswered(r, a, v)

Environment ==
    \E a \in Alerts :
       \/ Appear(a) \/ AgeOut(a) \/ LateLost(a)
       \/ \E v \in Verdicts(a) : LateStored(a, v)

Next == Environment \/ \E r \in Runs : Progress(r) \/ Misfortune(r)

Spec == Init /\ [][Next]_vars

(* The timer starts runs for ever, and a run that is not disturbed goes on. *)
FairSpec == Spec /\ \A r \in Runs : WF_vars(Progress(r))

-----------------------------------------------------------------------------
RelayType ==
    /\ status \in [Alerts -> {"absent", "pending", "delivering", "delivered"}]
    /\ created \in [Alerts -> Nat] /\ clock \in Nat
    /\ seen \subseteq Alerts /\ dead \subseteq Alerts /\ taken \subseteq Alerts

RunType ==
    /\ pc \in [Runs -> {"idle", "fetched", "connected", "filtered", "queued", "draining",
                        "claiming", "sent", "failing", "recording"}]
    /\ fetched \in [Runs -> SUBSET Alerts] /\ todo \in [Runs -> SUBSET Alerts]
    /\ batch \in [Runs -> SUBSET Alerts] /\ claimed \in [Runs -> SUBSET Alerts]
    /\ unposted \in [Runs -> SUBSET Alerts] /\ half \in [Runs -> SUBSET Alerts]
    /\ result \in [Runs -> [Alerts -> {"none", "ok", "retryable", "permanent"}]]
    /\ failed \in [Runs -> BOOLEAN]

StoreType ==
    /\ store \in [Alerts -> {"absent", "accepted", "suppressed", "duplicate"}]
    /\ analysed \subseteq Alerts /\ postCommits \in [Alerts -> Nat]

WorldType ==
    /\ exposure \in [Alerts -> {"future", "visible", "gone"}]
    /\ late \subseteq Alerts /\ faults \in 0 .. MaxFaults

TypeOK == RelayType /\ RunType /\ StoreType /\ WorldType

(* The alert store has it, or refuses it for good and the relay keeps it,  *)
(* or policy drops it.                                                     *)
Settled(a) == store[a] # "absent" \/ a \in dead \/ a \in Dropped

(* The outbox makes an alert survive the lookback: once it was written     *)
(* there, it is waiting or claimed until it is settled, whatever is lost,  *)
(* killed, repeated or overtaken.                                          *)
NoAlertLost == \A a \in taken : status[a] \in {"pending", "delivering"} \/ Settled(a)

(* A seen alert is never fetched into the outbox again, so it must be      *)
(* settled when it is marked.                                              *)
SeenMeansSettled == \A a \in seen : Settled(a)

(* A row that retention may delete is known as seen: deleting it does not  *)
(* make the relay fetch the alert again.                                   *)
DeliveredWasSeen == \A a \in Alerts : status[a] = "delivered" => a \in seen

(* The dead letters are the permanently rejected: no outage, lost answer   *)
(* or killed run puts a healthy alert there.                               *)
DeadWasRejected == dead \subseteq Rejected

(* However often an alert is delivered, the alert store reports it once    *)
(* and never reports one that it suppressed.                               *)
PostCommitOnce ==
    \A a \in Alerts : /\ postCommits[a] <= 1
                      /\ store[a] = "accepted" => postCommits[a] = 1
                      /\ store[a] \in {"absent", "suppressed"} => postCommits[a] = 0

(* One run at a time: an alert is stored twice only if something went      *)
(* wrong on the way.                                                       *)
ReplayOnlyAfterFault ==
    faults = 0 => \A a \in Alerts : store[a] # "duplicate"

(* The promise of the relay and the alert store: every step is a step of   *)
(* ReliableDelivery or changes nothing that it speaks of.  An alert leaves *)
(* the backlog as a dead letter, or after it was marked seen; it is stored *)
(* only after it was taken, reported only when it is stored first.         *)
Backlog == {a \in Alerts : status[a] \in {"pending", "delivering"}}
FateOf == [a \in Alerts |->
    IF a \in dead THEN "refused" ELSE IF store[a] = "absent" THEN "open" ELSE store[a]]

Promise == INSTANCE ReliableDelivery WITH
    Items <- Alerts, Refusable <- Rejected, Ignored <- Dropped, Withholdable <- Suppressible,
    accepted <- taken, backlog <- Backlog, fate <- FateOf, reports <- postCommits, known <- seen

ImplementsReliableDelivery == Promise!Spec

(* Every alert in the outbox gets settled and the relay learns of it,      *)
(* although runs die and answers are lost (a bounded number of times).     *)
OutboxDrains ==
    \A a \in Alerts :
        status[a] \in {"pending", "delivering"} ~>
            (status[a] \in {"delivered", "absent"} /\ Settled(a))

(* alert_delivery.py:5-6, "one malformed alert cannot block unrelated      *)
(* alerts behind it": an alert that fits a batch is settled whatever else  *)
(* is in the outbox.                                                       *)
HealthyNotBlocked == \A a \in Alerts \ Oversized : a \in taken ~> Settled(a)

(* alert_outbox.py:56-57, an interrupted delivery "is safe to replay":     *)
(* the second delivery of an alert that was suppressed changes neither its *)
(* suppression nor its freedom from analysis.                              *)
ReplayKeepsSuppression ==
    [][\A a \in Alerts : store[a] = "suppressed" =>
          store'[a] = "suppressed" /\ (a \in analysed' => a \in analysed)]_vars
=============================================================================
