--------------------------- MODULE PostgresShadow ---------------------------
(***************************************************************************)
(* The PostgreSQL shadow of durable_jobs                                   *)
(* (n8n/alert_store/lib/postgres_shadow_outbox.js, postgres_shadow_        *)
(* projector.js, n8n/postgres/alert-store-queue-schema.sql) and the        *)
(* monitor that compares the two (operations/reconcile-postgres-shadow.js).*)
(*                                                                         *)
(* Triggers number the versions of a job; the projector sends the current  *)
(* one and acknowledges the number it sent.  The alert store has a single  *)
(* connection to SQLite: the projector reads beside the write gate, hence  *)
(* in the middle of whatever transaction holds the gate.  A call to        *)
(* PostgreSQL may be executed after its caller has given up or died.       *)
(*                                                                         *)
(* A job's content stands for every column the monitor compares.  The      *)
(* batch of a drain is larger than the number of jobs.                     *)
(***************************************************************************)
EXTENDS Naturals

CONSTANTS
    Jobs,          \* ids of durable_jobs
    Contents, NoContent,
    Older,         \* content of the jobs that are older than the outbox
    NoCall,
    MaxWrites,     \* bound: inserts and updates of durable_jobs
    MaxMishaps     \* bound: transactions rolled back, failed calls, failed
                   \* writes of the projector and deaths of the alert store

Calls == [job : Jobs, rev : Nat \ {0}, content : Contents]

ASSUME PostgresShadowAssumption ==
    /\ NoContent \notin Contents /\ NoCall \notin Calls
    /\ Older \in [Jobs -> Contents \cup {NoContent}]
    /\ MaxWrites \in Nat /\ MaxMishaps \in Nat

VARIABLES
    db,        \* SQLite as the connection of the alert store sees it
    disk,      \* SQLite as committed
    open,      \* a transaction is under way
    pg,        \* shadow_durable_jobs
    flight,    \* calls that PostgreSQL has not executed yet
    pc, todo, at,              \* the projector: rows read, row in hand
    reader, snapshot, alarms,  \* the monitor: its rows, the ids it reported
    writes, mishaps,
    phantom    \* history: jobs whose rolled back version had been read

sqlite == <<db, disk, open>>
projector == <<pc, todo, at>>
monitor == <<reader, snapshot, alarms>>
counts == <<writes, mishaps>>
vars == <<sqlite, pg, flight, projector, monitor, counts, phantom>>

(* A job with its outbox row: revision, projected_revision, and whether    *)
(* next_attempt_at has come.  Revision 0: there is no such job.            *)
Row == [rev : Nat, content : Contents \cup {NoContent}, acked : Nat, due : BOOLEAN]
Shadow == [rev : Nat, content : Contents \cup {NoContent}]

(* install() seeds the jobs that are older than the outbox. *)
Seed(content) == [rev |-> IF content = NoContent THEN 0 ELSE 1, content |-> content,
                  acked |-> 0, due |-> TRUE]

NoRows == [j \in Jobs |-> Seed(NoContent)]

Init ==
    /\ disk = [j \in Jobs |-> Seed(Older[j])]
    /\ db = disk /\ open = FALSE
    /\ pg = [j \in Jobs |-> [rev |-> 0, content |-> NoContent]]
    /\ flight = {}
    /\ pc = "idle" /\ todo = {} /\ at = NoCall
    /\ reader = "idle" /\ snapshot = NoRows /\ alarms = {}
    /\ writes = 0 /\ mishaps = 0
    /\ phantom = {}

Mishap == mishaps < MaxMishaps /\ mishaps' = mishaps + 1

Dirty(row) == row.acked < row.rev

-----------------------------------------------------------------------------
(* The triggers of durable_jobs. *)
Triggered(row, content) ==
    [rev |-> row.rev + 1, content |-> content, acked |-> row.acked, due |-> TRUE]

(* An insert or update in the transaction of the write gate, which it      *)
(* begins unless it is open: other statements of it change nothing here.   *)
Write(j, content) ==
    /\ open' = TRUE
    /\ writes < MaxWrites /\ writes' = writes + 1
    /\ db' = [db EXCEPT ![j] = Triggered(@, content)]
    /\ UNCHANGED <<disk, pg, flight, projector, monitor, mishaps, phantom>>

Commit ==
    /\ open /\ open' = FALSE
    /\ disk' = db
    /\ UNCHANGED <<db, pg, flight, projector, monitor, counts, phantom>>

(* Versions that only the open transaction has, and that the projector, or *)
(* PostgreSQL, knows already.                                              *)
ReadTooEarly ==
    {j \in Jobs : \/ pg[j].rev > disk[j].rev
                  \/ \E c \in todo \cup flight \cup ({at} \ {NoCall}) :
                         c.job = j /\ c.rev > disk[j].rev}

Undo ==
    /\ db' = disk /\ open' = FALSE
    /\ phantom' = phantom \cup ReadTooEarly
    /\ UNCHANGED disk

Rollback ==
    /\ open /\ Undo
    /\ Mishap
    /\ UNCHANGED <<pg, flight, projector, monitor, writes>>

Crash ==
    /\ Undo
    /\ Mishap
    /\ pc' = "idle" /\ todo' = {} /\ at' = NoCall
    /\ UNCHANGED <<pg, flight, monitor, writes>>

-----------------------------------------------------------------------------
(* The projector. *)
Pending ==
    {[job |-> j, rev |-> db[j].rev, content |-> db[j].content] :
        j \in {i \in Jobs : Dirty(db[i]) /\ db[i].due}}

Drain ==
    /\ pc = "idle" /\ Pending # {}
    /\ pc' = "ready" /\ todo' = Pending
    /\ UNCHANGED <<sqlite, pg, flight, at, monitor, counts, phantom>>

Apply(c) ==
    /\ pc = "ready" /\ c \in todo
    /\ pc' = "waiting" /\ todo' = todo \ {c} /\ at' = c
    /\ flight' = flight \cup {c}
    /\ UNCHANGED <<sqlite, pg, monitor, counts, phantom>>

(* Mutant of Applied: without the test of revisions. *)
MutApplied(shadow, c) == [rev |-> c.rev, content |-> c.content]

(* apply_shadow_durable_job *)
Applied(shadow, c) ==
    IF shadow.rev < c.rev THEN [rev |-> c.rev, content |-> c.content] ELSE shadow

Execute(c) ==
    /\ c \in flight /\ flight' = flight \ {c}
    /\ pg' = [pg EXCEPT ![c.job] = Applied(@, c)]
    /\ pc' = IF pc = "waiting" /\ at = c THEN "applied" ELSE pc
    /\ UNCHANGED <<sqlite, todo, at, monitor, counts, phantom>>

(* The call fails, or its answer is lost and PostgreSQL executes it yet. *)
ApplyFails ==
    /\ pc = "waiting" /\ Mishap
    /\ pc' = "failed"
    /\ flight' \in {flight, flight \ {at}}
    /\ UNCHANGED <<sqlite, pg, todo, at, monitor, writes, phantom>>

(* Mutant of Stop: the row in hand is not let go. *)
MutStop == pc' = "idle" /\ todo' = {} /\ UNCHANGED at

Stop == pc' = "idle" /\ todo' = {} /\ at' = NoCall

GoOn ==
    IF todo = {} THEN Stop
    ELSE pc' = "ready" /\ at' = NoCall /\ UNCHANGED todo

(* A statement in the gate: no transaction is open. *)
Update(rows) ==
    /\ ~open
    /\ db' = rows /\ disk' = rows
    /\ UNCHANGED open

(* Mutant of Acknowledged: whatever the row has become is acknowledged. *)
MutAcknowledged(row, rev) == [row EXCEPT !.acked = row.rev]

(* markProjected *)
Acknowledged(row, rev) ==
    IF row.acked < rev /\ row.rev >= rev THEN [row EXCEPT !.acked = rev] ELSE row

MarkProjected ==
    /\ pc = "applied"
    /\ Update([db EXCEPT ![at.job] = Acknowledged(@, at.rev)])
    /\ GoOn
    /\ UNCHANGED <<pg, flight, monitor, counts, phantom>>

MarkProjectedFails ==
    /\ pc = "applied" /\ Mishap
    /\ pc' = "failed"
    /\ UNCHANGED <<sqlite, pg, flight, todo, at, monitor, writes, phantom>>

Deferred(row, rev) ==
    IF row.rev = rev /\ Dirty(row) THEN [row EXCEPT !.due = FALSE] ELSE row

(* The first failure ends the drain. *)
MarkFailure ==
    /\ pc = "failed"
    /\ Update([db EXCEPT ![at.job] = Deferred(@, at.rev)])
    /\ Stop
    /\ UNCHANGED <<pg, flight, monitor, counts, phantom>>

MarkFailureFails ==
    /\ pc = "failed" /\ Mishap
    /\ Stop
    /\ UNCHANGED <<sqlite, pg, flight, monitor, writes, phantom>>

(* Time passes. *)
BecomesDue(j) ==
    /\ ~disk[j].due
    /\ db' = [db EXCEPT ![j].due = TRUE] /\ disk' = [disk EXCEPT ![j].due = TRUE]
    /\ UNCHANGED <<open, pg, flight, projector, monitor, counts, phantom>>

-----------------------------------------------------------------------------
(* The monitor reads SQLite with a connection of its own, then PostgreSQL. *)
ReadSqlite ==
    /\ reader = "idle" /\ reader' = "compare"
    /\ snapshot' = disk
    /\ UNCHANGED <<sqlite, pg, flight, projector, alarms, counts, phantom>>

(* What a clean row should look like in PostgreSQL, and what it does. *)
Agrees(row, shadow) == row.rev = shadow.rev /\ row.content = shadow.content

(* Mutant of Alarms: rows that only PostgreSQL has are overlooked. *)
MutAlarms ==
    {j \in Jobs : /\ snapshot[j].rev > 0 /\ ~Dirty(snapshot[j])
                  /\ ~Agrees(snapshot[j], pg[j])}

(* missing, extra and mismatched ids *)
Alarms == {j \in Jobs : ~Dirty(snapshot[j]) /\ ~Agrees(snapshot[j], pg[j])}

ReadPostgres ==
    /\ reader = "compare" /\ reader' = "idle"
    /\ alarms' = Alarms /\ snapshot' = NoRows
    /\ UNCHANGED <<sqlite, pg, flight, projector, counts, phantom>>

-----------------------------------------------------------------------------
Store ==
    \/ Commit \/ Rollback \/ Crash
    \/ \E j \in Jobs, content \in Contents : Write(j, content)

Project ==
    \/ Drain \/ MarkProjected \/ MarkFailure
    \/ \E c \in todo : Apply(c)
    \/ ApplyFails \/ MarkProjectedFails \/ MarkFailureFails

Next ==
    \/ Store \/ Project
    \/ \E c \in flight : Execute(c)
    \/ \E j \in Jobs : BecomesDue(j)
    \/ ReadSqlite \/ ReadPostgres

Spec == Init /\ [][Next]_vars

(* Transactions end, a call is answered or fails, the gate is a queue and  *)
(* the timers of projector and monitor go on.                              *)
FairSpec ==
    /\ Spec
    /\ WF_vars(Commit)
    /\ WF_vars(Drain) /\ WF_vars(\E c \in todo : Apply(c))
    /\ WF_vars(pc = "waiting" /\ Execute(at))
    /\ WF_vars(MarkProjected \/ MarkFailure)
    /\ \A j \in Jobs : WF_vars(BecomesDue(j))
    /\ WF_vars(ReadSqlite) /\ WF_vars(ReadPostgres)

-----------------------------------------------------------------------------
TypeOK ==
    /\ db \in [Jobs -> Row] /\ disk \in [Jobs -> Row] /\ open \in BOOLEAN
    /\ pg \in [Jobs -> Shadow]
    /\ flight \subseteq Calls
    /\ pc \in {"idle", "ready", "waiting", "applied", "failed"}
    /\ todo \subseteq Calls /\ at \in Calls \cup {NoCall}
    /\ at = NoCall <=> pc \in {"idle", "ready"}
    /\ reader \in {"idle", "compare"}
    /\ snapshot \in [Jobs -> Row] /\ alarms \subseteq Jobs
    /\ writes \in 0 .. MaxWrites /\ mishaps \in 0 .. MaxMishaps
    /\ phantom \subseteq Jobs

(* docs/postgresql-alert-store-queue-migration.md:26-31: what is           *)
(* acknowledged is what was projected, whatever was written, answered      *)
(* late, lost or retried meanwhile - as long as no version was rolled back *)
(* after the projector had read it.                                        *)
CleanRowsAgree ==
    \A j \in Jobs \ phantom : ~Dirty(db[j]) => Agrees(disk[j], pg[j])

(* postgresql-alert-store-queue-migration.md:107-113: the monitor compares *)
(* two databases that it reads one after the other.  It may report a row   *)
(* that was projected in between, and no other.                            *)
AlarmsAreNewer ==
    [][reader = "compare" /\ reader' = "idle" =>
          \A j \in alarms' : pg[j].rev > snapshot[j].rev \/ j \in phantom]_vars

(* Each committed version reaches PostgreSQL; where a rolled back one      *)
(* keeps it out for good, the monitor says so.                             *)
ShadowCatchesUp ==
    \A j \in Jobs : ~Agrees(disk[j], pg[j]) ~> (Agrees(disk[j], pg[j]) \/ j \in alarms)

(* postgresql-alert-store-queue-migration.md:28-31, the projector          *)
(* "acknowledges only the exact SQLite revision it observed": a row that   *)
(* becomes clean is the one that PostgreSQL has.                           *)
AcknowledgedWasProjected ==
    [][\A j \in Jobs : Dirty(disk[j]) /\ ~Dirty(disk'[j]) => Agrees(disk'[j], pg[j])]_vars
=============================================================================
