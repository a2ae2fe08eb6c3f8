-------------------------- MODULE AiScheduler_once --------------------------
(***************************************************************************)
(* Unless something was lost, killed or late, no request is analysed       *)
(* twice: the proof of InferredOnce for any number of groups, lanes,       *)
(* attempts and requests.                                                  *)
(*                                                                         *)
(* The argument is about the calm part of a behavior.  There a row is      *)
(* processing exactly while the scheduler of its lane works on it          *)
(* (LeaseHeld, Leaseholder), a runner lives only under the scheduler that  *)
(* waits for it (WaitedFor), and a spooled result belongs to a live runner *)
(* (SpoolServed).  So when a job is owed an execution, nothing that was    *)
(* begun for its present requests is left anywhere (NothingYet), and a new *)
(* execution is the only one for them (OnePerRequest).                     *)
(***************************************************************************)
EXTENDS AiScheduler_proofs

Calm == faults = 0 /\ crashes = 0

(* The lane that works on a job. *)
Home(j) == LaneOf[j[2]]

Results == spool \cup analyses

OwnLane == \A l \in Lanes : sched[l].pc \in Working \cup {"claim"} => Home(sched[l].job) = l

(* One runner per lane, and its scheduler waits for it. *)
WaitedFor == \A c \in children : Waits(Home(c.job), c)
OneRunner == \A c, d \in children : Home(c.job) = Home(d.job) => c = d

(* A result is spooled by a live runner that has yet to unlink it, and an  *)
(* execution leaves one result, from when it answers.                      *)
SpoolServed == \A r \in spool : \E c \in children : c.step \in {"submit", "unlink"} /\ Output(c) = r

Outputs ==
    \A c \in children : /\ c.step = "flush" => \A r \in Results : r.id # c.id
                        /\ c.step # "flush" => Output(c) \in Results

OneResult == \A q, r \in Results : q.id = r.id => q = r

(* An execution that has not started its runner, or that failed, left none. *)
Empty == {"claimed", "failed", "raised"}
NoResultYet ==
    \A l \in Lanes : sched[l].pc \in Empty => \A r \in Results : r.id # sched[l].id

Processes ==
    /\ OwnLane /\ WaitedFor /\ OneRunner
    /\ SpoolServed /\ Outputs /\ OneResult /\ NoResultYet

(* A row is processing exactly while its lane's scheduler holds its lease. *)
Leases(s) == s.pc \in Working /\ s.leased

LeaseHeld ==
    \A j \in Jobs : jobs[j].status = "processing" =>
        /\ Leases(sched[Home(j)])
        /\ sched[Home(j)].job = j
        /\ sched[Home(j)].id = jobs[j].token
        /\ jobs[j].lease = "live"

Leaseholder ==
    \A l \in Lanes : Leases(sched[l]) => Owns(jobs[sched[l].job], sched[l].id)

NoneStranded == \A l \in Lanes : sched[l].stranded = {}

(* A row that will be claimed again for requests of its own. *)
Owing(r) == r.status = "pending" \/ (r.status = "processing" /\ r.rerun)

NothingYet ==
    \A j \in Jobs, i \in Tokens : Owing(jobs[j]) => ~Holds(j, i, asked[j])

OnePerRequest ==
    \A j \in Jobs, a \in Nat, i, k \in Tokens : Holds(j, i, a) /\ Holds(j, k, a) => i = k

(* A group taken without a durable job has nothing to show yet; should its *)
(* claim be refused, then not because it has to wait.                      *)
Unclaimed(r) == r.status \in {"absent", "completed"} \/ Claimable(r)

BareClaim(s, j) == s.pc = "claim" /\ ~s.durable /\ s.job = j

BareFirst ==
    \A l \in Lanes, j \in Jobs : BareClaim(sched[l], j) =>
        /\ Unclaimed(jobs[j])
        /\ \A i \in Tokens, a \in Nat : ~Holds(j, i, a)

Requests ==
    /\ LeaseHeld /\ Leaseholder /\ NoneStranded
    /\ NothingYet /\ OnePerRequest /\ BareFirst

Orderly == Processes /\ Requests

-----------------------------------------------------------------------------
(* A step of a calm behavior: both invariants before, the one proved       *)
(* already after, and nothing has gone wrong yet.                          *)
CalmStep == IInv /\ IInv' /\ Orderly /\ Calm /\ Calm'

LEMMA CalmCall == ASSUME Calm, Calm', NEW o, Call(o) PROVE o = "ok"
  BY DEF Calm, Call

(* Every job has a lane. *)
LEMMA HomeType == ASSUME NEW j \in Jobs PROVE Home(j) \in Lanes
  BY AiSchedulerAssumption DEF Home, Jobs

(* What a scheduler and a runner of the same number work on. *)
LEMMA SameNumber ==
    ASSUME IInv, NEW j \in Jobs, NEW k \in Jobs, NEW i \in Tokens, NEW a \in Nat, NEW b \in Nat,
           Holds(j, i, a), Holds(k, i, b)
    PROVE  j = k /\ a = b
  BY DEF IInv, HeldOnce

(* A scheduler that moves while no runner of its lane is alive, or starts  *)
(* to be, and results that only pass from the spool to the table.          *)
SameResults == spool' \subseteq spool /\ Results' = Results

LEMMA SchedMoves ==
    ASSUME CalmStep, NEW l \in Lanes, \A k \in Lanes : k # l => sched'[k] = sched[k],
           sched[l].pc # "wait", sched'[l].pc # "wait",
           children' = children, SameResults,
           sched'[l].pc \in Working \cup {"claim"} => Home(sched'[l].job) = l,
           sched'[l].pc \in Empty => \A r \in Results : r.id # sched'[l].id
    PROVE  Processes'
<1> USE DEF CalmStep, Orderly, Processes
<1>1. OwnLane'
  BY DEF OwnLane, Home
<1>2. WaitedFor'
  <2>1. \A c \in children : Home(c.job) # l /\ Home(c.job) \in Lanes
    BY ChildHolds, HomeType DEF WaitedFor, Waits
  <2> QED BY <2>1 DEF WaitedFor, Waits, Home
<1>3. OneRunner' /\ SpoolServed' /\ Outputs' /\ OneResult'
  BY DEF OneRunner, SpoolServed, Outputs, OneResult, SameResults, Output, Home
<1>4. NoResultYet'
  BY DEF NoResultYet, SameResults
<1> QED BY <1>1, <1>2, <1>3, <1>4

-----------------------------------------------------------------------------
(* What a step does to rows, leases and held executions when it neither    *)
(* begins nor ends the lease of a row, and begins no execution.            *)
QuietRow(r, q) ==
    \/ q = r
    \/ /\ r.status # "processing" /\ q.status # "processing"
       /\ Owing(q) => Owing(r)
       /\ Unclaimed(r) => Unclaimed(q)

SameLease(s, t) ==
    /\ Leases(t) <=> Leases(s)
    /\ Leases(s) => t.job = s.job /\ t.id = s.id

HoldsLess == \A j, i, a : Holds(j, i, a)' => Holds(j, i, a)

LEMMA QuietMoves ==
    ASSUME CalmStep, asked' = asked, HoldsLess,
           \A j \in Jobs : QuietRow(jobs[j], jobs'[j]),
           \A l \in Lanes : /\ SameLease(sched[l], sched'[l])
                            /\ sched'[l].stranded = {}
                            /\ \A j \in Jobs : BareClaim(sched'[l], j) =>
                                  \/ BareClaim(sched[l], j)
                                  \/ /\ Unclaimed(jobs'[j])
                                     /\ \A i \in Tokens, a \in Nat : ~Holds(j, i, a)
    PROVE  Requests'
<1> USE DEF CalmStep, Orderly, Requests, HoldsLess
<1>1. \A j \in Jobs : /\ jobs'[j].status = "processing" <=> jobs[j].status = "processing"
                      /\ jobs[j].status = "processing" => jobs'[j] = jobs[j]
                      /\ Owing(jobs'[j]) => Owing(jobs[j])
                      /\ Unclaimed(jobs[j]) => Unclaimed(jobs'[j])
  BY DEF QuietRow
<1>2. LeaseHeld'
  <2> SUFFICES ASSUME NEW j \in Jobs, jobs'[j].status = "processing"
               PROVE  /\ Leases(sched'[Home(j)])
                      /\ sched'[Home(j)].job = j
                      /\ sched'[Home(j)].id = jobs'[j].token
                      /\ jobs'[j].lease = "live"
    BY DEF LeaseHeld, Leases, Home
  <2> QED BY <1>1, HomeType DEF LeaseHeld, SameLease
<1>3. Leaseholder'
  <2> SUFFICES ASSUME NEW l \in Lanes, Leases(sched'[l])
               PROVE  Owns(jobs'[sched'[l].job], sched'[l].id)
    BY DEF Leaseholder, Leases
  <2>1. Leases(sched[l]) /\ sched'[l].job = sched[l].job /\ sched'[l].id = sched[l].id
    BY DEF SameLease
  <2>2. Owns(jobs[sched[l].job], sched[l].id) /\ sched[l].job \in Jobs
    BY <2>1, SchedHolds DEF Leaseholder, Leases
  <2> QED BY <1>1, <2>1, <2>2 DEF Owns
<1>4. NoneStranded' /\ NothingYet' /\ OnePerRequest'
  BY <1>1 DEF NoneStranded, NothingYet, OnePerRequest
<1>5. BareFirst'
  BY <1>1 DEF BareFirst, BareClaim
<1> QED BY <1>2, <1>3, <1>4, <1>5

(* Rows that a step leaves alone are quiet. *)
LEMMA SameRows == ASSUME jobs' = jobs PROVE \A j \in Jobs : QuietRow(jobs[j], jobs'[j])
  BY DEF QuietRow

-----------------------------------------------------------------------------
(* A run before and after its drain loop: the scheduler holds nothing.     *)
LEMMA IdleMove ==
    ASSUME CalmStep, NEW l \in Lanes, \A k \in Lanes : k # l => sched'[k] = sched[k],
           sched[l].pc \notin Working, sched'[l].pc \notin Working \cup {"claim"},
           sched'[l].stranded = {},
           children' = children, SameResults, asked' = asked,
           \A j \in Jobs : QuietRow(jobs[j], jobs'[j])
    PROVE  Orderly'
<1>1. Processes'
  BY SchedMoves DEF Working, Empty
<1>2. HoldsLess
  BY DEF HoldsLess, Holds, SameResults, Results
<1>3. \A k \in Lanes : /\ SameLease(sched[k], sched'[k])
                       /\ sched'[k].stranded = {}
                       /\ \A j \in Jobs : BareClaim(sched'[k], j) => BareClaim(sched[k], j)
  <2> TAKE k \in Lanes
  <2>1. CASE k = l
    BY <2>1 DEF SameLease, Leases, BareClaim
  <2>2. CASE k # l
    BY <2>2 DEF SameLease, BareClaim, CalmStep, Orderly, Requests, NoneStranded
  <2> QED BY <2>1, <2>2
<1>4. Requests'
  BY <1>2, <1>3, QuietMoves
<1> QED BY <1>1, <1>4 DEF Orderly

LEMMA OffStrands == Off.pc = "off" /\ Off.stranded = {}
  BY DEF Off

LEMMA LaunchOrderly == ASSUME CalmStep, NEW l \in Lanes, Launch(l) PROVE Orderly'
<1>1. /\ sched'[l].pc = "flush" /\ sched'[l].stranded = {}
      /\ \A k \in Lanes : k # l => sched'[k] = sched[k]
  <2>1. /\ [Off EXCEPT !.pc = "flush", !.listed = spool].pc = "flush"
        /\ [Off EXCEPT !.pc = "flush", !.listed = spool].stranded = {}
    BY DEF Off
  <2> QED BY <2>1 DEF Launch, CalmStep, IInv, TypeOK
<1>2. children' = children /\ SameResults /\ asked' = asked /\ jobs' = jobs
  BY DEF Launch, store, files, SameResults, Results
<1>3. sched[l].pc = "off"
  BY DEF Launch
<1> QED BY <1>1, <1>2, <1>3, SameRows, IdleMove DEF Working

(* A result that a flush passes on stays a result. *)
LEMMA FlushPathCalm ==
    ASSUME CalmStep, NEW r, NEW o, FlushPath(r, o)
    PROVE  o \in {"ok", "gone"} /\ SameResults
<1>1. CASE o = "gone"
  BY <1>1 DEF FlushPath, SameResults, Results
<1>2. CASE o # "gone"
  <2>1. r \in spool /\ Submit(r, o, TRUE)
    BY <1>2 DEF FlushPath
  <2>2. o = "ok"
    BY <2>1, CalmCall DEF Submit, CalmStep
  <2> QED BY <2>1, <2>2 DEF Submit, SameResults, Results
<1> QED BY <1>1, <1>2

LEMMA FlushOrderly ==
    ASSUME CalmStep, NEW l \in Lanes, NEW r \in sched[l].listed, NEW o \in FlushOutcomes, Flush(l, r, o)
    PROVE  Orderly'
<1>1. sched[l] \in Scheduler /\ sched[l].pc = "flush" /\ sched[l].stranded = {}
  BY DEF Flush, CalmStep, IInv, TypeOK, Orderly, Requests, NoneStranded
<1>2. /\ sched'[l] = IF FlushGoesOn(o) THEN [sched[l] EXCEPT !.listed = @ \ {r}] ELSE Off
      /\ \A k \in Lanes : k # l => sched'[k] = sched[k]
  BY DEF Flush, CalmStep, IInv, TypeOK
<1>3. sched'[l].pc \in {"flush", "off"} /\ sched'[l].stranded = {}
  <2>1. /\ [sched[l] EXCEPT !.listed = @ \ {r}].pc = "flush"
        /\ [sched[l] EXCEPT !.listed = @ \ {r}].stranded = {}
    BY <1>1 DEF Scheduler
  <2> QED BY <1>2, <2>1, OffStrands
<1>4. SameResults /\ children' = children /\ asked' = asked /\ jobs' = jobs
  BY FlushPathCalm DEF Flush, store
<1> QED BY <1>1, <1>2, <1>3, <1>4, SameRows, IdleMove DEF Working

(* No lease is stranded: those of a lane are held by its own scheduler.    *)
LEMMA FlushDoneOrderly == ASSUME CalmStep, NEW l \in Lanes, FlushDone(l) PROVE Orderly'
<1>1. sched[l] \in Scheduler /\ sched[l].pc = "flush"
  BY DEF FlushDone, CalmStep, IInv, TypeOK
<1>2. Stranded(l) = {}
  <2> SUFFICES ASSUME NEW j \in Jobs, jobs[j].status = "processing", Home(j) = l PROVE FALSE
    BY DEF Stranded, Home
  <2> QED BY <1>1 DEF CalmStep, Orderly, Requests, LeaseHeld, Leases, Working
<1>3. /\ sched'[l].pc = "recover" /\ sched'[l].stranded = {}
      /\ \A k \in Lanes : k # l => sched'[k] = sched[k]
  BY <1>1, <1>2 DEF FlushDone, CalmStep, IInv, TypeOK, Scheduler
<1>4. SameResults /\ children' = children /\ asked' = asked /\ jobs' = jobs
  BY DEF FlushDone, store, files, SameResults, Results
<1> QED BY <1>1, <1>3, <1>4, SameRows, IdleMove DEF Working

LEMMA RecoverDoneOrderly == ASSUME CalmStep, NEW l \in Lanes, RecoverDone(l) PROVE Orderly'
<1>1. sched[l] \in Scheduler /\ sched[l].pc = "recover" /\ sched[l].stranded = {}
  BY DEF RecoverDone, CalmStep, IInv, TypeOK
<1>2. /\ sched'[l].pc = "reconcile" /\ sched'[l].stranded = {}
      /\ \A k \in Lanes : k # l => sched'[k] = sched[k]
  BY <1>1 DEF RecoverDone, CalmStep, IInv, TypeOK, Scheduler
<1>3. SameResults /\ children' = children /\ asked' = asked /\ jobs' = jobs
  BY DEF RecoverDone, store, files, SameResults, Results
<1> QED BY <1>1, <1>2, <1>3, SameRows, IdleMove DEF Working

LEMMA DrainEndsOrderly == ASSUME CalmStep, NEW l \in Lanes, DrainEnds(l) PROVE Orderly'
<1>1. sched[l] \in Scheduler /\ sched[l].pc = "select" /\ sched[l].stranded = {}
  BY DEF DrainEnds, CalmStep, IInv, TypeOK, Orderly, Requests, NoneStranded
<1>2. /\ sched'[l].pc = "settle" /\ sched'[l].stranded = {}
      /\ \A k \in Lanes : k # l => sched'[k] = sched[k]
  BY <1>1 DEF DrainEnds, CalmStep, IInv, TypeOK, Scheduler
<1>3. SameResults /\ children' = children /\ asked' = asked /\ jobs' = jobs
  BY DEF DrainEnds, store, files, SameResults, Results
<1> QED BY <1>1, <1>2, <1>3, SameRows, IdleMove DEF Working

(* Reconciliation closes rows that nobody works on. *)
LEMMA ReconcilePostOrderly ==
    ASSUME CalmStep, NEW l \in Lanes, NEW o \in Outcomes, ReconcilePost(l, o)
    PROVE  Orderly'
<1>1. o = "ok"
  BY CalmCall DEF ReconcilePost, CalmStep
<1>2. /\ sched'[l] = IF sched[l].pc = "reconcile" THEN [Off EXCEPT !.pc = "select"] ELSE Off
      /\ \A k \in Lanes : k # l => sched'[k] = sched[k]
      /\ sched[l].pc \in {"reconcile", "settle"}
  BY <1>1 DEF ReconcilePost, CalmStep, IInv, TypeOK
<1>3. sched'[l].pc \in {"select", "off"} /\ sched'[l].stranded = {}
  BY <1>2, SelectingType, OffStrands
<1>4. \A j \in Jobs : QuietRow(jobs[j], jobs'[j])
  <2> TAKE j \in Jobs
  <2>1. jobs[j] \in Row
    BY DEF CalmStep, IInv, TypeOK
  <2>2. ClosePendingRow(jobs[j]).status = "completed"
    BY <2>1 DEF ClosePendingRow, Row
  <2>3. jobs'[j] = jobs[j] \/ (jobs[j].status = "pending" /\ jobs'[j] = ClosePendingRow(jobs[j]))
    BY <1>1 DEF ReconcilePost
  <2> QED BY <2>2, <2>3 DEF QuietRow, Owing, Unclaimed
<1>5. SameResults /\ children' = children /\ asked' = asked
  BY DEF ReconcilePost, files, SameResults, Results
<1> QED BY <1>2, <1>3, <1>4, <1>5, IdleMove DEF Working

-----------------------------------------------------------------------------
(* The drain loop looks for work.  A lane that looks for work holds        *)
(* nothing, so a group without an analysis has none on the way either.     *)
LEMMA SelectedOrderly ==
    ASSUME CalmStep, NEW l \in Lanes, NEW j \in Jobs, NEW d \in BOOLEAN, Selected(l, j, d),
           ~d => /\ Unclaimed(jobs[j])
                 /\ \A i \in Tokens, a \in Nat : ~Holds(j, i, a)
    PROVE  Orderly'
<1>1. /\ sched'[l].pc = "claim" /\ sched'[l].stranded = {}
      /\ sched'[l].job = j /\ sched'[l].durable = d
      /\ \A k \in Lanes : k # l => sched'[k] = sched[k]
      /\ sched[l].pc = "select" /\ Home(j) = l
  <2> DEFINE s == [Off EXCEPT !.pc = "claim", !.job = j, !.durable = d]
  <2>1. s.pc = "claim" /\ s.stranded = {} /\ s.job = j /\ s.durable = d
    BY DEF Off
  <2> HIDE DEF s
  <2>2. sched' = [sched EXCEPT ![l] = s] /\ sched[l].pc = "select" /\ Home(j) = l
    BY DEF Selected, Home, s
  <2> QED BY <2>1, <2>2 DEF CalmStep, IInv, TypeOK
<1>2. SameResults /\ children' = children /\ asked' = asked /\ jobs' = jobs
  BY DEF Selected, store, files, SameResults, Results
<1>3. Processes'
  BY <1>1, <1>2, SchedMoves DEF Working, Empty
<1>4. HoldsLess
  BY <1>1, <1>2 DEF HoldsLess, Holds, SameResults, Results, Working
<1>5. \A k \in Lanes : /\ SameLease(sched[k], sched'[k])
                       /\ sched'[k].stranded = {}
                       /\ \A h \in Jobs : BareClaim(sched'[k], h) =>
                              \/ BareClaim(sched[k], h)
                              \/ /\ Unclaimed(jobs'[h])
                                 /\ \A i \in Tokens, a \in Nat : ~Holds(h, i, a)
  <2> TAKE k \in Lanes
  <2>1. CASE k = l
    BY <1>1, <1>2, <2>1 DEF SameLease, Leases, BareClaim, Working
  <2>2. CASE k # l
    BY <1>1, <2>2 DEF SameLease, BareClaim, CalmStep, Orderly, Requests, NoneStranded
  <2> QED BY <2>1, <2>2
<1>6. Requests'
  BY <1>2, <1>4, <1>5, SameRows, QuietMoves
<1> QED BY <1>3, <1>6 DEF Orderly

LEMMA SelectWorkOrderly ==
    ASSUME CalmStep, NEW l \in Lanes, NEW j \in Jobs, SelectWork(l, j) PROVE Orderly'
  BY SelectedOrderly DEF SelectWork

(* Nothing is held for a job whose lane is not at work and that has no     *)
(* analysis: a result in the spool would have a runner.                    *)
LEMMA NothingHeld ==
    ASSUME CalmStep, NEW j \in Jobs, sched[Home(j)].pc \notin Working,
           \A r \in analyses : r.job # j, NEW i, NEW a
    PROVE  ~Holds(j, i, a)
<1> USE DEF CalmStep, Orderly, Processes
<1>1. \A l \in Lanes : sched[l].pc \in Working => sched[l].job # j
  BY DEF OwnLane
<1>2. \A c \in children : c.job # j
  BY DEF WaitedFor, Waits, Working
<1>3. \A r \in spool : r.job # j
  <2> SUFFICES ASSUME NEW r \in spool, r.job = j PROVE FALSE
    OBVIOUS
  <2>1. PICK c \in children : Output(c) = r
    BY DEF SpoolServed
  <2> QED BY <1>2, <2>1, ChildHolds
<1> QED BY <1>1, <1>2, <1>3 DEF Holds

LEMMA SelectBareOrderly ==
    ASSUME CalmStep, NEW l \in Lanes, NEW g \in Groups, SelectBare(l, g) PROVE Orderly'
<1>1. PICK j \in Jobs : j = Analyst(g)
  BY DEF Analyst, Jobs, Types
<1>2. /\ Selected(l, j, FALSE)
      /\ Unclaimed(jobs[j])
      /\ \A r \in analyses : r.job # j
  BY <1>1 DEF SelectBare, BareGroup, Unclaimed
<1>3. sched[Home(j)].pc \notin Working
  BY <1>2 DEF Selected, Home, Working
<1> QED BY <1>2, <1>3, NothingHeld, SelectedOrderly

-----------------------------------------------------------------------------
(* An execution begins for requests that nothing else is held for.         *)
LEMMA BeginsOrderly ==
    ASSUME CalmStep, NEW l \in Lanes, NEW j \in Jobs, NEW b \in BOOLEAN,
           sched[l].pc = "claim", sched[l].job = j, clock < MaxRuns,
           sched' = [sched EXCEPT ![l] = Begun(l, b)],
           asked' = asked, children' = children, UNCHANGED files,
           \A k \in Jobs : k # j => jobs'[k] = jobs[k],
           b => jobs'[j] = ClaimRow(jobs[j], clock + 1),
           ~b => jobs'[j] = jobs[j] /\ ~Owing(jobs[j]),
           \A i \in Tokens : ~Holds(j, i, asked[j])
    PROVE  Orderly'
<1> USE DEF CalmStep, Orderly, Requests
<1>1. /\ sched'[l] = Begun(l, b)
      /\ \A k \in Lanes : k # l => sched'[k] = sched[k]
      /\ sched'[l].pc = "claimed" /\ sched'[l].job = j /\ sched'[l].id = clock + 1
      /\ sched'[l].asked = asked[j] /\ sched'[l].stranded = {} /\ sched'[l].leased = b
  <2>1. Begun(l, b).leased = b
    BY DEF Begun, IInv, TypeOK, Scheduler
  <2>2. sched'[l] = Begun(l, b) /\ \A k \in Lanes : k # l => sched'[k] = sched[k]
    BY DEF IInv, TypeOK
  <2> QED BY <2>1, <2>2, BegunType DEF NoneStranded
<1>2. Home(j) = l /\ clock \in Nat /\ asked[j] \in Nat
  BY AiSchedulerAssumption DEF Processes, OwnLane, IInv, TypeOK
<1>3. Processes'
  <2>1. \A r \in Results : r.id # clock + 1
    <3> SUFFICES ASSUME NEW r \in Results PROVE r.id # clock + 1
      OBVIOUS
    <3>1. r.job \in Jobs /\ r.id \in Tokens /\ r.asked \in Nat /\ Holds(r.job, r.id, r.asked)
      BY ResultHolds DEF Results, IInv, TypeOK, Result
    <3>2. r.id <= clock /\ r.id \in Nat
      BY <3>1, AiSchedulerAssumption DEF IInv, HeldPast
    <3> QED BY <1>2, <3>2
  <2>2. SameResults
    BY DEF SameResults, Results, files
  <2> QED BY <1>1, <1>2, <2>1, <2>2, SchedMoves
<1>4. \A k, i, a : Holds(k, i, a)' => Holds(k, i, a) \/ (k = j /\ i = clock + 1 /\ a = asked[j])
  <2> TAKE k, i, a
  <2> HAVE Holds(k, i, a)'
  <2>1. CASE \E m \in Lanes : /\ sched'[m].pc \in Working
                              /\ sched'[m].job = k /\ sched'[m].id = i /\ sched'[m].asked = a
    BY <1>1, <2>1 DEF Holds
  <2>2. CASE ~\E m \in Lanes : /\ sched'[m].pc \in Working
                               /\ sched'[m].job = k /\ sched'[m].id = i /\ sched'[m].asked = a
    BY <2>2 DEF Holds, files
  <2> QED BY <2>1, <2>2
<1>5. b => /\ jobs'[j].status = "processing" /\ jobs'[j].token = clock + 1
           /\ jobs'[j].lease = "live" /\ ~jobs'[j].rerun
  <2>1. jobs[j] \in Row
    BY DEF IInv, TypeOK
  <2>2. \A r \in Row : \A t :
           /\ ClaimRow(r, t).status = "processing" /\ ClaimRow(r, t).token = t
           /\ ClaimRow(r, t).lease = "live" /\ ~ClaimRow(r, t).rerun
    BY DEF ClaimRow, Row
  <2> QED BY <2>1, <2>2
<1>6. ~Leases(sched[l])
  BY DEF Leases, Working
<1>7. Leases(sched'[l]) <=> b
  BY <1>1 DEF Leases, Working
<1>8. LeaseHeld'
  <2> SUFFICES ASSUME NEW k \in Jobs, jobs'[k].status = "processing"
               PROVE  /\ Leases(sched'[Home(k)])
                      /\ sched'[Home(k)].job = k
                      /\ sched'[Home(k)].id = jobs'[k].token
                      /\ jobs'[k].lease = "live"
    BY DEF LeaseHeld, Leases, Home
  <2>1. CASE jobs[k].status = "processing" /\ jobs'[k] = jobs[k]
    <3>1. Home(k) # l /\ Home(k) \in Lanes
      BY <1>6, <2>1, HomeType DEF LeaseHeld
    <3> QED BY <1>1, <2>1, <3>1 DEF LeaseHeld
  <2>2. CASE k = j /\ b
    BY <1>1, <1>2, <1>5, <1>7, <2>2
  <2> QED BY <2>1, <2>2
<1>9. Leaseholder'
  <2> SUFFICES ASSUME NEW m \in Lanes, Leases(sched'[m])
               PROVE  Owns(jobs'[sched'[m].job], sched'[m].id)
    BY DEF Leaseholder, Leases
  <2>1. CASE m = l
    BY <1>1, <1>5, <1>7, <2>1 DEF Owns
  <2>2. CASE m # l
    <3>1. sched'[m] = sched[m] /\ Home(sched[m].job) = m /\ sched[m].job \in Jobs
      BY <1>1, <2>2, SchedHolds DEF Leases, Processes, OwnLane
    <3>2. jobs'[sched[m].job] = jobs[sched[m].job]
      BY <1>2, <2>2, <3>1
    <3> QED BY <3>1, <3>2 DEF Leaseholder
  <2> QED BY <2>1, <2>2
<1>10. NoneStranded'
  BY <1>1 DEF NoneStranded
<1>11. NothingYet'
  <2> SUFFICES ASSUME NEW k \in Jobs, NEW i \in Tokens, Owing(jobs'[k])
               PROVE  ~Holds(k, i, asked[k])'
    BY DEF NothingYet, Owing
  <2>1. k # j
    BY <1>5 DEF Owing
  <2> QED BY <1>4, <2>1 DEF NothingYet
<1>12. OnePerRequest'
  BY <1>4 DEF OnePerRequest
<1>13. BareFirst'
  <2> SUFFICES ASSUME NEW m \in Lanes, NEW k \in Jobs, BareClaim(sched'[m], k)
               PROVE  /\ Unclaimed(jobs'[k])
                      /\ \A i \in Tokens, a \in Nat : ~Holds(k, i, a)'
    BY DEF BareFirst, BareClaim, Unclaimed
  <2>1. m # l /\ sched'[m] = sched[m]
    BY <1>1 DEF BareClaim
  <2>2. k # j
    BY <1>2, <2>1 DEF BareClaim, Processes, OwnLane
  <2> QED BY <1>4, <2>1, <2>2 DEF BareFirst
<1> QED BY <1>3, <1>8, <1>9, <1>10, <1>11, <1>12, <1>13

LEMMA ClaimOrderly ==
    ASSUME CalmStep, NEW l \in Lanes, NEW o \in Outcomes, Claim(l, o) PROVE Orderly'
<1>1. PICK j \in Jobs : j = sched[l].job
  BY DEF CalmStep, IInv, TypeOK, Scheduler
<1>2. o = "ok"
  BY CalmCall DEF Claim, CalmStep
<1>3. /\ sched[l].pc = "claim" /\ Claimable(jobs[j]) /\ clock < MaxRuns
      /\ sched' = [sched EXCEPT ![l] = Begun(l, TRUE)]
      /\ jobs' = [jobs EXCEPT ![j] = ClaimRow(jobs[j], clock + 1)]
      /\ asked' = asked /\ children' = children /\ UNCHANGED files
  BY <1>1, <1>2 DEF Claim
<1>4. \A k \in Jobs : jobs'[k] = IF k = j THEN ClaimRow(jobs[j], clock + 1) ELSE jobs[k]
  BY <1>3 DEF CalmStep, IInv, TypeOK
<1>5. \A i \in Tokens : ~Holds(j, i, asked[j])
  BY <1>3 DEF CalmStep, Orderly, Requests, NothingYet, Owing, Claimable
<1> QED BY <1>1, <1>3, <1>4, <1>5, BeginsOrderly

(* Without a row to claim, the execution is the first for its group.       *)
LEMMA ClaimRefusedOrderly == ASSUME CalmStep, NEW l \in Lanes, ClaimRefused(l) PROVE Orderly'
<1> USE DEF CalmStep
<1>1. PICK j \in Jobs : j = sched[l].job
  BY DEF IInv, TypeOK, Scheduler
<1>2. /\ sched[l].pc = "claim" /\ ~Claimable(jobs[j])
      /\ jobs' = jobs /\ asked' = asked /\ children' = children /\ UNCHANGED files
  BY <1>1 DEF ClaimRefused
<1>3. CASE sched[l].durable
  <2>1. Goto(l, "select")
    BY <1>3 DEF ClaimRefused
  <2>2. /\ sched'[l].pc = "select" /\ sched'[l].stranded = {}
        /\ \A k \in Lanes : k # l => sched'[k] = sched[k]
    BY <2>1, SelectingType DEF Goto, Turned, IInv, TypeOK
  <2>3. SameResults
    BY <1>2 DEF files, SameResults, Results
  <2> QED BY <1>2, <2>2, <2>3, SameRows, IdleMove DEF Working
<1>4. CASE ~sched[l].durable
  <2>1. /\ clock < MaxRuns /\ sched' = [sched EXCEPT ![l] = Begun(l, FALSE)]
    BY <1>4 DEF ClaimRefused
  <2>2. Unclaimed(jobs[j]) /\ \A i \in Tokens, a \in Nat : ~Holds(j, i, a)
    BY <1>1, <1>2, <1>4 DEF Orderly, Requests, BareFirst, BareClaim
  <2>3. ~Owing(jobs[j])
    BY <1>2, <2>2 DEF Unclaimed, Owing
  <2>4. asked[j] \in Nat
    BY DEF IInv, TypeOK
  <2> QED BY <1>1, <1>2, <2>1, <2>2, <2>3, <2>4, BeginsOrderly
<1> QED BY <1>3, <1>4

-----------------------------------------------------------------------------
(* An execution ends: its row is released, and if the row is owed another, *)
(* nothing is left that was begun for the present requests.                *)
LEMMA ReleaseOrderly ==
    ASSUME CalmStep, NEW l \in Lanes, sched[l].pc \in Working \ {"wait"},
           NEW j \in Jobs, sched[l].job = j, NEW row,
           jobs' = Reported(j, sched[l].id, row), row.status # "processing",
           Goto(l, "select"), asked' = asked, children' = children, UNCHANGED files,
           Owns(jobs[j], sched[l].id) /\ row.status = "pending" =>
               \/ jobs[j].rerun
               \/ sched[l].pc \in Empty
    PROVE  Orderly'
<1> USE DEF CalmStep, Orderly, Requests
<1>1. /\ sched'[l].pc = "select" /\ sched'[l].stranded = {}
      /\ \A k \in Lanes : k # l => sched'[k] = sched[k]
  BY SelectingType DEF Goto, Turned, IInv, TypeOK
<1>2. Home(j) = l
  BY DEF Processes, OwnLane
<1>3. SameResults
  BY DEF files, SameResults, Results
<1>4. Processes'
  BY <1>1, <1>3, SchedMoves DEF Working, Empty
<1>5. HoldsLess
  BY <1>1 DEF HoldsLess, Holds, files, Working
<1>6. \A m \in Lanes, k \in Jobs :
          m # l /\ sched[m].pc \in Working \cup {"claim"} /\ sched[m].job = k => k # j
  BY <1>2 DEF Processes, OwnLane
<1>7. /\ jobs'[j] = IF Owns(jobs[j], sched[l].id) THEN row ELSE jobs[j]
      /\ \A k \in Jobs : k # j => jobs'[k] = jobs[k]
  BY DEF Reported, IInv, TypeOK
<1>8. jobs'[j].status # "processing"
  <2>1. jobs[j].status = "processing" => Owns(jobs[j], sched[l].id)
    BY <1>2 DEF LeaseHeld, Owns
  <2> QED BY <1>7, <2>1
<1>9. LeaseHeld'
  <2> SUFFICES ASSUME NEW k \in Jobs, jobs'[k].status = "processing"
               PROVE  /\ Leases(sched'[Home(k)])
                      /\ sched'[Home(k)].job = k
                      /\ sched'[Home(k)].id = jobs'[k].token
                      /\ jobs'[k].lease = "live"
    BY DEF LeaseHeld, Leases, Home
  <2>1. k # j /\ jobs'[k] = jobs[k]
    BY <1>7, <1>8
  <2>2. Home(k) # l /\ Home(k) \in Lanes
    BY <2>1, HomeType DEF LeaseHeld
  <2> QED BY <1>1, <2>1, <2>2 DEF LeaseHeld
<1>10. Leaseholder'
  <2> SUFFICES ASSUME NEW m \in Lanes, Leases(sched'[m])
               PROVE  Owns(jobs'[sched'[m].job], sched'[m].id)
    BY DEF Leaseholder, Leases
  <2>1. m # l /\ sched'[m] = sched[m]
    BY <1>1 DEF Leases, Working
  <2>2. sched[m].job \in Jobs /\ sched[m].job # j
    BY <1>6, <2>1, SchedHolds DEF Leases
  <2> QED BY <1>7, <2>1, <2>2 DEF Leaseholder
<1>11. NoneStranded'
  BY <1>1 DEF NoneStranded
<1>12. NothingYet'
  <2> SUFFICES ASSUME NEW k \in Jobs, NEW i \in Tokens, Owing(jobs'[k]), Holds(k, i, asked[k])'
               PROVE  FALSE
    BY DEF NothingYet, Owing
  <2>1. asked'[k] = asked[k] /\ asked[k] \in Nat
    BY DEF IInv, TypeOK
  <2>2. Holds(k, i, asked[k])
    BY <1>5, <2>1 DEF HoldsLess
  <2>3. k = j /\ ~Owing(jobs[j])
    BY <1>7, <2>2 DEF NothingYet
  <2>4. Owns(jobs[j], sched[l].id) /\ row.status = "pending" /\ ~jobs[j].rerun /\ sched[l].pc \in Empty
    BY <1>7, <1>8, <2>3 DEF Owing, Owns
  <2>5. sched[l].asked = asked[j] /\ sched[l].id \in Tokens /\ Holds(j, sched[l].id, asked[j])
    BY <2>4, OwnerAsks, SchedHolds DEF Owns, Unlatched, IInv, LastClaim
  <2>6. i = sched[l].id
    BY <2>1, <2>2, <2>3, <2>5 DEF OnePerRequest
  <2>7. ~\E m \in Lanes : sched'[m].pc \in Working /\ sched'[m].job = j
    BY <1>1, <1>6 DEF Working
  <2>8. \A c \in children : c.job # j
    BY <1>2, <2>4 DEF Processes, WaitedFor, Waits, Empty
  <2>9. \A r \in Results : r.id # i
    BY <2>4, <2>6 DEF Processes, NoResultYet
  <2> QED BY <2>3, <2>7, <2>8, <2>9 DEF Holds, Results, files
<1>13. OnePerRequest'
  BY <1>5 DEF OnePerRequest, HoldsLess
<1>14. BareFirst'
  <2> SUFFICES ASSUME NEW m \in Lanes, NEW k \in Jobs, BareClaim(sched'[m], k)
               PROVE  /\ Unclaimed(jobs'[k])
                      /\ \A i \in Tokens, a \in Nat : ~Holds(k, i, a)'
    BY DEF BareFirst, BareClaim, Unclaimed
  <2>1. m # l /\ sched'[m] = sched[m]
    BY <1>1 DEF BareClaim
  <2>2. k # j
    BY <1>6, <2>1 DEF BareClaim
  <2> QED BY <1>5, <1>7, <2>1, <2>2 DEF BareFirst, HoldsLess
<1> QED BY <1>4, <1>9, <1>10, <1>11, <1>12, <1>13, <1>14

(* The rows of reports: none stays processing, and one without a latch     *)
(* goes back to the queue only after a failure that may be retried.        *)
LEMMA ReportRows ==
    ASSUME NEW r \in Row
    PROVE  /\ CompleteRow(r).status # "processing"
           /\ CompleteRow(r).status = "pending" => r.rerun
           /\ \A b \in BOOLEAN : ReportFailedRow(r, b).status # "processing"
           /\ ReportFailedRow(r, FALSE).status = "pending" => r.rerun
<1>1. RequeueRow(r).status = "pending"
  BY DEF RequeueRow, Row
<1>2. [r EXCEPT !.status = "completed", !.lease = "none", !.token = NoToken].status = "completed"
  BY DEF Row
<1>3. \A b \in BOOLEAN : /\ FailRow(r, r.attempts, r.maxAttempts, b).status # "processing"
                         /\ FailRow(r, r.attempts, r.maxAttempts, FALSE).status = "failed"
  BY DEF FailRow, Row
<1> QED BY <1>1, <1>2, <1>3 DEF CompleteRow, ReportFailedRow

LEMMA RetireOrderly ==
    ASSUME CalmStep, NEW l \in Lanes, NEW o \in Outcomes, Retire(l, o) PROVE Orderly'
<1>1. sched[l].pc = "claimed" /\ o = "ok"
  BY CalmCall DEF Retire, CalmStep
<1>2. PICK j \in Jobs : j = sched[l].job
  BY DEF CalmStep, IInv, TypeOK, Scheduler
<1>3. jobs[j] \in Row
  BY DEF CalmStep, IInv, TypeOK
<1>4. PICK row : row = IF j = Analyst(j[1]) THEN CompleteRow(jobs[j]) ELSE ReportFailedRow(jobs[j], FALSE)
  OBVIOUS
<1>5. row.status # "processing" /\ (row.status = "pending" => jobs[j].rerun)
  BY <1>3, <1>4, ReportRows
<1>6. /\ jobs' = Reported(j, sched[l].id, row) /\ Goto(l, "select")
      /\ asked' = asked /\ children' = children /\ UNCHANGED files
  BY <1>1, <1>2, <1>4 DEF Retire
<1> QED BY <1>1, <1>2, <1>5, <1>6, ReleaseOrderly DEF Working

LEMMA ReportCompletedOrderly ==
    ASSUME CalmStep, NEW l \in Lanes, NEW o \in Outcomes, ReportCompleted(l, o) PROVE Orderly'
<1>1. sched[l].pc = "complete" /\ o = "ok"
  BY CalmCall DEF ReportCompleted, CalmStep
<1>2. PICK j \in Jobs : j = sched[l].job
  BY DEF CalmStep, IInv, TypeOK, Scheduler
<1>3. jobs[j] \in Row
  BY DEF CalmStep, IInv, TypeOK
<1>4. PICK row : row = CompleteRow(jobs[j])
  OBVIOUS
<1>5. row.status # "processing" /\ (row.status = "pending" => jobs[j].rerun)
  BY <1>3, <1>4, ReportRows
<1>6. /\ jobs' = Reported(j, sched[l].id, row) /\ Goto(l, "select")
      /\ asked' = asked /\ children' = children /\ UNCHANGED files
  BY <1>1, <1>2, <1>4 DEF ReportCompleted
<1> QED BY <1>1, <1>2, <1>5, <1>6, ReleaseOrderly DEF Working

LEMMA ReportFailedOrderly ==
    ASSUME CalmStep, NEW l \in Lanes, NEW b \in BOOLEAN, NEW o \in Outcomes, ReportFailed(l, b, o)
    PROVE  Orderly'
<1>1. sched[l].pc \in {"failed", "raised"} /\ o = "ok"
  BY CalmCall DEF ReportFailed, CalmStep
<1>2. PICK j \in Jobs : j = sched[l].job
  BY DEF CalmStep, IInv, TypeOK, Scheduler
<1>3. jobs[j] \in Row
  BY DEF CalmStep, IInv, TypeOK
<1>4. PICK row : row = ReportFailedRow(jobs[j], b)
  OBVIOUS
<1>5. row.status # "processing"
  BY <1>3, <1>4, ReportRows
<1>6. /\ jobs' = Reported(j, sched[l].id, row) /\ Goto(l, "select")
      /\ asked' = asked /\ children' = children /\ UNCHANGED files
  BY <1>1, <1>2, <1>4 DEF ReportFailed
<1> QED BY <1>1, <1>2, <1>5, <1>6, ReleaseOrderly DEF Working, Empty

-----------------------------------------------------------------------------
(* An execution that goes on, or ends without a lease. *)
LEMMA PrepareFailsOrderly ==
    ASSUME CalmStep, NEW l \in Lanes, PrepareFails(l) PROVE Orderly'
<1> USE DEF CalmStep
<1>1. /\ sched[l] \in Scheduler /\ sched[l].pc = "claimed"
      /\ Goto(l, IF sched[l].leased THEN "raised" ELSE "select")
      /\ UNCHANGED <<jobs, asked, files, children>>
  BY DEF PrepareFails, store, IInv, TypeOK
<1>2. /\ sched[l].stranded = {} /\ Home(sched[l].job) = l
      /\ \A r \in Results : r.id # sched[l].id
  BY <1>1 DEF Orderly, Processes, OwnLane, NoResultYet, Requests, NoneStranded, Working, Empty
<1>3. /\ \A k \in Lanes : k # l => sched'[k] = sched[k]
      /\ sched'[l].pc = IF sched[l].leased THEN "raised" ELSE "select"
      /\ sched'[l].stranded = {}
      /\ sched[l].leased => /\ sched'[l].job = sched[l].job /\ sched'[l].id = sched[l].id
                            /\ sched'[l].asked = sched[l].asked
                            /\ sched'[l].leased
  <2>1. sched'[l] = Turned(sched[l], IF sched[l].leased THEN "raised" ELSE "select")
        /\ \A k \in Lanes : k # l => sched'[k] = sched[k]
    BY <1>1 DEF Goto, IInv, TypeOK
  <2>2. CASE sched[l].leased
    BY <1>1, <1>2, <2>1, <2>2 DEF Turned, Scheduler
  <2>3. CASE ~sched[l].leased
    BY <2>1, <2>3, SelectingType DEF Turned
  <2> QED BY <2>1, <2>2, <2>3
<1>4. SameResults
  BY <1>1 DEF files, SameResults, Results
<1>5. Processes'
  BY <1>1, <1>2, <1>3, <1>4, SchedMoves DEF Working, Empty
<1>6. HoldsLess
  BY <1>1, <1>3 DEF HoldsLess, Holds, files, Working
<1>7. \A k \in Lanes : /\ SameLease(sched[k], sched'[k])
                       /\ sched'[k].stranded = {}
                       /\ \A j \in Jobs : BareClaim(sched'[k], j) => BareClaim(sched[k], j)
  <2> TAKE k \in Lanes
  <2>1. CASE k = l
    BY <1>1, <1>3, <2>1 DEF SameLease, Leases, Working, BareClaim
  <2>2. CASE k # l
    BY <1>3, <2>2 DEF SameLease, BareClaim, Orderly, Requests, NoneStranded
  <2> QED BY <2>1, <2>2
<1>8. Requests'
  BY <1>1, <1>6, <1>7, SameRows, QuietMoves
<1> QED BY <1>5, <1>8 DEF Orderly

(* The one runner of the lane starts. *)
LEMMA StartRunnerOrderly ==
    ASSUME CalmStep, NEW l \in Lanes, StartRunner(l) PROVE Orderly'
<1> USE DEF CalmStep, Orderly, Processes
<1>0. PICK d : d = [job |-> sched[l].job, id |-> sched[l].id, asked |-> sched[l].asked, at |-> 0,
                    step |-> "flush", listed |-> spool]
  OBVIOUS
<1>1. /\ sched[l] \in Scheduler /\ sched[l].pc = "claimed"
      /\ children' = children \cup {d}
      /\ Goto(l, "wait")
      /\ UNCHANGED <<jobs, asked, files>>
  BY <1>0 DEF StartRunner, store, IInv, TypeOK
<1>2. /\ d.job = sched[l].job /\ d.id = sched[l].id /\ d.asked = sched[l].asked
      /\ d.step = "flush"
  BY <1>0
<1>3. /\ Home(sched[l].job) = l /\ sched[l].stranded = {}
      /\ \A r \in Results : r.id # sched[l].id
      /\ \A c \in children : Home(c.job) # l /\ Home(c.job) \in Lanes
  BY <1>1, ChildHolds, HomeType DEF OwnLane, WaitedFor, Waits, NoResultYet, Requests, NoneStranded,
     Working, Empty
<1>4. /\ \A k \in Lanes : k # l => sched'[k] = sched[k]
      /\ sched'[l].pc = "wait" /\ sched'[l].stranded = {}
      /\ sched'[l].job = sched[l].job /\ sched'[l].id = sched[l].id
      /\ sched'[l].asked = sched[l].asked /\ sched'[l].leased = sched[l].leased
  <2>1. sched'[l] = [sched[l] EXCEPT !.pc = "wait"] /\ \A k \in Lanes : k # l => sched'[k] = sched[k]
    BY <1>1 DEF Goto, Turned, IInv, TypeOK
  <2> QED BY <1>1, <1>3, <2>1 DEF Scheduler
<1>5. Results' = Results /\ spool' = spool
  BY <1>1 DEF files, Results
<1>6. OwnLane' /\ WaitedFor'
  <2>1. OwnLane'
    BY <1>1, <1>4 DEF OwnLane, Home, Working
  <2>2. \A c \in children : Waits(Home(c.job), c)'
    BY <1>3, <1>4 DEF WaitedFor, Waits, Home
  <2>3. sched'[Home(d.job)].pc = "wait" /\ sched'[Home(d.job)].id = d.id
    BY <1>2, <1>3, <1>4
  <2>4. \A c \in children' : c \in children \/ c = d
    BY <1>1
  <2> QED BY <2>1, <2>2, <2>3, <2>4 DEF WaitedFor, Waits, Home
<1>7. OneRunner' /\ SpoolServed' /\ Outputs' /\ OneResult'
  <2>1. OneRunner'
    BY <1>1, <1>2, <1>3 DEF OneRunner, Home
  <2>2. SpoolServed'
    BY <1>1, <1>5 DEF SpoolServed, Output
  <2>3. Outputs'
    BY <1>1, <1>2, <1>3, <1>5 DEF Outputs, Output
  <2>4. OneResult'
    BY <1>5 DEF OneResult
  <2> QED BY <2>1, <2>2, <2>3, <2>4
<1>8. NoResultYet'
  BY <1>4, <1>5 DEF NoResultYet, Empty
<1>9. HoldsLess
  <2> SUFFICES ASSUME NEW j, NEW i, NEW a, Holds(j, i, a)' PROVE Holds(j, i, a)
    BY DEF HoldsLess
  <2>1. CASE \E k \in Lanes : /\ sched'[k].pc \in Working
                              /\ sched'[k].job = j /\ sched'[k].id = i /\ sched'[k].asked = a
    BY <1>1, <1>4, <2>1 DEF Holds, Working
  <2>2. CASE \E c \in children' : c.job = j /\ c.id = i /\ c.asked = a
    BY <1>1, <1>2, <2>2 DEF Holds, Working
  <2>3. CASE \E r \in spool' \cup analyses' : r.job = j /\ r.id = i /\ r.asked = a
    BY <1>1, <2>3 DEF Holds, files
  <2> QED BY <2>1, <2>2, <2>3 DEF Holds
<1>10. \A k \in Lanes : /\ SameLease(sched[k], sched'[k])
                        /\ sched'[k].stranded = {}
                        /\ \A j \in Jobs : BareClaim(sched'[k], j) => BareClaim(sched[k], j)
  <2> TAKE k \in Lanes
  <2>1. CASE k = l
    BY <1>1, <1>4, <2>1 DEF SameLease, Leases, Working, BareClaim
  <2>2. CASE k # l
    BY <1>4, <2>2 DEF SameLease, BareClaim, Requests, NoneStranded
  <2> QED BY <2>1, <2>2
<1>11. Requests'
  BY <1>1, <1>9, <1>10, SameRows, QuietMoves
<1> QED BY <1>6, <1>7, <1>8, <1>11

-----------------------------------------------------------------------------
(* A runner that goes on.  What it spools is its own first result, and     *)
(* what leaves the spool is stored.                                        *)
LEMMA BecomesOrderly ==
    ASSUME CalmStep, NEW c \in children, NEW d, Becomes(c, d),
           d.job = c.job, d.id = c.id, d.asked = c.asked, UNCHANGED finalized,
           Results \subseteq Results',
           \A q \in Results' : q \in Results \/ (q = Output(d) /\ c.step = "flush"),
           d.step = "flush" => c.step = "flush" /\ Results' = Results,
           d.step # "flush" => Output(d) \in Results',
           \A r \in spool' : \/ r = Output(d) /\ d.step \in {"submit", "unlink"}
                             \/ r \in spool /\ r # Output(c)
    PROVE  Orderly'
<1> USE DEF CalmStep, Orderly, Processes
<1>1. /\ children' = (children \ {c}) \cup {d}
      /\ UNCHANGED <<jobs, asked, sched>>
  BY DEF Becomes, store
<1>2. Output(d).job = c.job /\ Output(d).id = c.id /\ Output(d).asked = c.asked
  BY DEF Output
<1>3. \A e \in children' : e = d \/ (e \in children /\ e # c /\ Home(e.job) # Home(c.job) /\ e.id # c.id)
  <2> SUFFICES ASSUME NEW e \in children, e # c PROVE Home(e.job) # Home(c.job) /\ e.id # c.id
    BY <1>1
  <2>1. Home(e.job) # Home(c.job)
    BY DEF OneRunner
  <2>2. e.id # c.id
    BY <2>1, SameNumber, ChildHolds
  <2> QED BY <2>1, <2>2
<1>4. OwnLane' /\ WaitedFor' /\ OneRunner'
  <2>1. OwnLane'
    BY <1>1 DEF OwnLane, Home
  <2>2. \A e \in children' : Waits(Home(e.job), e)
    BY <1>3 DEF WaitedFor, Waits
  <2>3. \A e, f \in children' : Home(e.job) = Home(f.job) => e = f
    BY <1>3 DEF OneRunner
  <2> QED BY <1>1, <2>1, <2>2, <2>3 DEF WaitedFor, OneRunner, Waits, Home
<1>5. SpoolServed'
  <2> SUFFICES ASSUME NEW r \in spool'
               PROVE  \E e \in children' : e.step \in {"submit", "unlink"} /\ Output(e) = r
    BY DEF SpoolServed, Output
  <2>1. CASE r = Output(d) /\ d.step \in {"submit", "unlink"}
    BY <1>1, <2>1
  <2>2. CASE r \in spool /\ r # Output(c)
    <3>1. PICK e \in children : e.step \in {"submit", "unlink"} /\ Output(e) = r
      BY <2>2 DEF SpoolServed
    <3> QED BY <1>1, <2>2, <3>1
  <2> QED BY <2>1, <2>2
<1>6. Outputs'
  <2> SUFFICES ASSUME NEW e \in children'
               PROVE  /\ e.step = "flush" => \A r \in Results' : r.id # e.id
                      /\ e.step # "flush" => Output(e) \in Results'
    BY DEF Outputs, Output
  <2>1. CASE e = d
    BY <2>1 DEF Outputs
  <2>2. CASE e # d
    BY <1>2, <1>3, <2>2 DEF Outputs
  <2> QED BY <2>1, <2>2
<1>7. OneResult'
  BY <1>2 DEF OneResult, Outputs
<1>8. NoResultYet'
  <2> SUFFICES ASSUME NEW l \in Lanes, sched[l].pc \in Empty PROVE sched[l].id # c.id
    BY <1>1, <1>2 DEF NoResultYet
  <2>1. sched[l].pc \in Working
    BY DEF Empty, Working
  <2>2. Home(sched[l].job) = l /\ Home(c.job) # l
    BY <2>1 DEF OwnLane, WaitedFor, Waits, Empty
  <2> QED BY <2>1, <2>2, SchedHolds, ChildHolds, SameNumber
<1>9. HoldsLess
  <2> SUFFICES ASSUME NEW j, NEW i, NEW a, Holds(j, i, a)' PROVE Holds(j, i, a)
    BY DEF HoldsLess
  <2>1. CASE \E l \in Lanes : /\ sched'[l].pc \in Working
                              /\ sched'[l].job = j /\ sched'[l].id = i /\ sched'[l].asked = a
    BY <1>1, <2>1 DEF Holds
  <2>2. CASE \E e \in children' : e.job = j /\ e.id = i /\ e.asked = a
    BY <1>3, <2>2 DEF Holds
  <2>3. CASE \E r \in Results' : r.job = j /\ r.id = i /\ r.asked = a
    BY <1>2, <2>3 DEF Holds, Results
  <2> QED BY <2>1, <2>2, <2>3 DEF Holds, Results
<1>10. \A k \in Lanes : /\ SameLease(sched[k], sched'[k])
                        /\ sched'[k].stranded = {}
                        /\ \A j \in Jobs : BareClaim(sched'[k], j) => BareClaim(sched[k], j)
  BY <1>1 DEF SameLease, Leases, BareClaim, Requests, NoneStranded
<1>11. Requests'
  BY <1>1, <1>9, <1>10, SameRows, QuietMoves
<1> QED BY <1>4, <1>5, <1>6, <1>7, <1>8, <1>11

(* A runner that ends: its scheduler goes on with the outcome, and a       *)
(* failed runner left no result.                                           *)
LEMMA ExitsOrderly ==
    ASSUME CalmStep, NEW c \in children, NEW pc \in {"failed", "raised", "complete"}, Exits(c, pc),
           UNCHANGED <<spool, analyses>>,
           c.step \in {"flush", "finish"}, pc # "complete" => c.step = "flush"
    PROVE  Orderly'
<1> USE DEF CalmStep, Orderly, Processes
<1>1. PICK l \in Lanes : l = Home(c.job)
  BY ChildHolds, HomeType
<1>2. /\ children' = children \ {c}
      /\ UNCHANGED <<jobs, asked>>
  BY DEF Exits, store
<1>3. /\ Waits(l, c) /\ sched[l] \in Scheduler /\ sched[l].stranded = {}
      /\ sched[l].pc = "wait" /\ sched[l].id = c.id /\ sched[l].job = c.job
  <2>1. Waits(l, c)
    BY <1>1 DEF WaitedFor
  <2>2. sched[l].job = c.job
    BY <2>1, SchedHolds, ChildHolds, SameNumber DEF Waits, Working
  <2> QED BY <2>1, <2>2 DEF Waits, IInv, TypeOK, Requests, NoneStranded
<1>4. \A k \in Lanes : k # l => ~Waits(k, c)
  BY <1>1, SchedHolds, ChildHolds, SameNumber DEF Waits, Working, OwnLane
<1>5. PICK p : p = IF sched[l].leased THEN pc ELSE "select"
  OBVIOUS
<1>6. /\ sched'[l] = Turned(sched[l], p)
      /\ \A k \in Lanes : k # l => sched'[k] = sched[k]
  BY <1>3, <1>4, <1>5 DEF Exits
<1>7. /\ sched'[l].pc = p /\ sched'[l].stranded = {}
      /\ p # "select" => /\ sched'[l].job = sched[l].job /\ sched'[l].id = sched[l].id
                         /\ sched'[l].asked = sched[l].asked
                         /\ sched'[l].leased = sched[l].leased
  <2>1. CASE p = "select"
    BY <1>6, <2>1, SelectingType DEF Turned
  <2>2. CASE p # "select"
    <3>1. sched'[l] = [sched[l] EXCEPT !.pc = p]
      BY <1>6, <2>2 DEF Turned
    <3> QED BY <1>3, <3>1 DEF Scheduler
  <2> QED BY <2>1, <2>2
<1>8. p \in {"failed", "raised", "complete", "select"} /\ (sched[l].leased <=> p # "select")
      /\ (p \in {"failed", "raised"} => c.step = "flush")
  BY <1>5
<1>9. Results' = Results
  BY DEF Results
<1>10. \A e \in children' : e \in children /\ Home(e.job) # l /\ Home(e.job) \in Lanes
  BY <1>1, <1>2, ChildHolds, HomeType DEF OneRunner
<1>11. OwnLane' /\ WaitedFor' /\ OneRunner'
  <2>1. OwnLane'
    <3>1. Home(sched[l].job) = l
      BY <1>1, <1>3
    <3>2. sched'[l].pc \in Working \cup {"claim"} => Home(sched'[l].job) = l
      BY <1>7, <1>8, <3>1 DEF Working
    <3>3. \A k \in Lanes : k # l => sched'[k] = sched[k]
      BY <1>6
    <3> QED BY <3>2, <3>3 DEF OwnLane, Home
  <2>2. \A e \in children' : sched'[Home(e.job)].pc = "wait" /\ sched'[Home(e.job)].id = e.id
    BY <1>6, <1>10 DEF WaitedFor, Waits
  <2>3. OneRunner'
    BY <1>10 DEF OneRunner, Home
  <2> QED BY <2>1, <2>2, <2>3 DEF WaitedFor, Waits, Home
<1>12. SpoolServed'
  <2> SUFFICES ASSUME NEW r \in spool
               PROVE  \E e \in children' : e.step \in {"submit", "unlink"} /\ Output(e) = r
    BY DEF SpoolServed, Output
  <2>1. PICK e \in children : e.step \in {"submit", "unlink"} /\ Output(e) = r
    BY DEF SpoolServed
  <2> QED BY <1>2, <2>1
<1>13. Outputs' /\ OneResult'
  <2>1. \A e \in children' : /\ e.step = "flush" => \A r \in Results' : r.id # e.id
                             /\ e.step # "flush" => Output(e) \in Results'
    BY <1>9, <1>10 DEF Outputs
  <2> QED BY <1>9, <2>1 DEF Outputs, OneResult, Output
<1>14. NoResultYet'
  <2> SUFFICES ASSUME NEW k \in Lanes, sched'[k].pc \in Empty, NEW r \in Results
               PROVE  r.id # sched'[k].id
    BY <1>9 DEF NoResultYet
  <2>1. CASE k = l
    BY <1>3, <1>7, <1>8, <2>1 DEF Empty, Outputs
  <2>2. CASE k # l
    BY <1>6, <2>2 DEF NoResultYet
  <2> QED BY <2>1, <2>2
<1>15. HoldsLess
  <2> SUFFICES ASSUME NEW j, NEW i, NEW a, Holds(j, i, a)' PROVE Holds(j, i, a)
    BY DEF HoldsLess
  <2>1. CASE \E k \in Lanes : /\ sched'[k].pc \in Working
                              /\ sched'[k].job = j /\ sched'[k].id = i /\ sched'[k].asked = a
    BY <1>3, <1>6, <1>7, <1>8, <2>1 DEF Holds, Working
  <2>2. CASE \E e \in children' : e.job = j /\ e.id = i /\ e.asked = a
    BY <1>10, <2>2 DEF Holds
  <2>3. CASE \E r \in spool' \cup analyses' : r.job = j /\ r.id = i /\ r.asked = a
    BY <2>3 DEF Holds
  <2> QED BY <2>1, <2>2, <2>3 DEF Holds
<1>16. \A k \in Lanes : /\ SameLease(sched[k], sched'[k])
                        /\ sched'[k].stranded = {}
                        /\ \A j \in Jobs : BareClaim(sched'[k], j) => BareClaim(sched[k], j)
  <2> TAKE k \in Lanes
  <2>1. CASE k = l
    BY <1>3, <1>7, <1>8, <2>1 DEF SameLease, Leases, Working, BareClaim
  <2>2. CASE k # l
    BY <1>6, <2>2 DEF SameLease, BareClaim, Requests, NoneStranded
  <2> QED BY <2>1, <2>2
<1>17. Requests'
  BY <1>2, <1>15, <1>16, SameRows, QuietMoves
<1> QED BY <1>11, <1>12, <1>13, <1>14, <1>17

LEMMA RunnerFlushOrderly ==
    ASSUME CalmStep, NEW c \in children, NEW r \in c.listed, NEW o \in FlushOutcomes, RunnerFlush(c, r, o)
    PROVE  Orderly'
<1>1. c \in Child /\ c.step = "flush" /\ \A q \in Results : q.id # c.id
  BY ChildHolds DEF RunnerFlush, CalmStep, Orderly, Processes, Outputs
<1>2. o \in {"ok", "gone"} /\ spool' \subseteq spool /\ Results' = Results /\ finalized' = finalized
  BY FlushPathCalm DEF RunnerFlush, SameResults, FlushPath
<1>3. CASE o = "ok"
  <2>1. PICK d : d = [c EXCEPT !.listed = c.listed \ {r}]
    OBVIOUS
  <2>2. d.job = c.job /\ d.id = c.id /\ d.asked = c.asked /\ d.step = "flush"
    BY <1>1, <2>1 DEF Child
  <2>3. Becomes(c, d)
    BY <1>3, <2>1 DEF RunnerFlush, FlushGoesOn
  <2>4. \A q \in spool' : q \in spool /\ q # Output(c)
    BY <1>1, <1>2 DEF Results, Output
  <2> QED BY <1>1, <1>2, <2>2, <2>3, <2>4, BecomesOrderly
<1>4. CASE o = "gone"
  <2>1. Exits(c, "failed") /\ UNCHANGED <<spool, analyses>>
    BY <1>4 DEF RunnerFlush, FlushGoesOn, FlushPath
  <2> QED BY <1>1, <2>1, ExitsOrderly
<1> QED BY <1>2, <1>3, <1>4

(* A runner that has spooled its result does not die in a calm behavior.   *)
LEMMA RunnerDiesOrderly ==
    ASSUME CalmStep, NEW c \in children, NEW pc \in {"failed", "raised"}, RunnerDies(c, pc)
    PROVE  Orderly'
<1>1. ~Spooled(c)
  BY DEF RunnerDies, CalmStep, Calm
<1>2. c.step = "flush"
  BY <1>1, ChildHolds DEF Spooled, Child, CalmStep
<1>3. Exits(c, pc) /\ UNCHANGED <<spool, analyses>>
  BY DEF RunnerDies, files
<1> QED BY <1>2, <1>3, ExitsOrderly

LEMMA RunnerAnswersOrderly ==
    ASSUME CalmStep, NEW c \in children, RunnerAnswers(c) PROVE Orderly'
<1>1. c \in Child /\ c.step = "flush" /\ \A q \in Results : q.id # c.id
  BY ChildHolds DEF RunnerAnswers, CalmStep, Orderly, Processes, Outputs
<1>2. PICK d : d = [c EXCEPT !.step = "submit", !.at = clock]
  OBVIOUS
<1>3. d.job = c.job /\ d.id = c.id /\ d.asked = c.asked /\ d.step = "submit"
  BY <1>1, <1>2 DEF Child
<1>4. /\ Becomes(c, d) /\ spool' = spool \cup {Output(d)}
      /\ UNCHANGED <<analyses, finalized>>
  BY <1>2 DEF RunnerAnswers
<1>5. \A q \in spool : q # Output(c)
  BY <1>1 DEF Results, Output
<1>6. Results' = Results \cup {Output(d)}
  BY <1>4 DEF Results
<1> QED BY <1>1, <1>3, <1>4, <1>5, <1>6, BecomesOrderly

LEMMA RunnerSubmitsOrderly ==
    ASSUME CalmStep, NEW c \in children, NEW o \in Outcomes \cup {"rejected"}, RunnerSubmits(c, o)
    PROVE  Orderly'
<1>1. o = "ok"
  BY CalmCall DEF RunnerSubmits, Submit, CalmStep
<1>2. c \in Child /\ c.step = "submit" /\ Output(c) \in Results
  BY ChildHolds DEF RunnerSubmits, CalmStep, Orderly, Processes, Outputs
<1>3. PICK d : d = [c EXCEPT !.step = "unlink"]
  OBVIOUS
<1>4. /\ d.job = c.job /\ d.id = c.id /\ d.asked = c.asked /\ d.step = "unlink"
      /\ Output(d) = Output(c)
  BY <1>2, <1>3 DEF Child, Output
<1>5. Becomes(c, d) /\ spool' = spool /\ analyses' = analyses \cup {Output(c)} /\ finalized' = finalized
  BY <1>1, <1>3 DEF RunnerSubmits, Submit
<1>6. Results' = Results
  BY <1>2, <1>5 DEF Results
<1> QED BY <1>2, <1>4, <1>5, <1>6, BecomesOrderly

LEMMA RunnerUnlinksOrderly ==
    ASSUME CalmStep, NEW c \in children, NEW kept \in BOOLEAN, RunnerUnlinks(c, kept) PROVE Orderly'
<1>1. c \in Child /\ c.step = "unlink" /\ Output(c) \in analyses
  BY ChildHolds DEF RunnerUnlinks, CalmStep, IInv, Evidence, Sent
<1>2. PICK d : d = [c EXCEPT !.step = "finish"]
  OBVIOUS
<1>3. /\ d.job = c.job /\ d.id = c.id /\ d.asked = c.asked /\ d.step = "finish"
      /\ Output(d) = Output(c)
  BY <1>1, <1>2 DEF Child, Output
<1>4. Becomes(c, d) /\ spool' = spool \ {Output(c)} /\ UNCHANGED <<analyses, finalized>>
  <2>1. ~kept
    BY DEF RunnerUnlinks, CalmStep, Calm
  <2> QED BY <1>2, <2>1 DEF RunnerUnlinks
<1>5. Results' = Results /\ Output(c) \in Results
  BY <1>1, <1>4 DEF Results
<1> QED BY <1>1, <1>3, <1>4, <1>5, BecomesOrderly

LEMMA RunnerFinishesOrderly ==
    ASSUME CalmStep, NEW c \in children, NEW b \in BOOLEAN, RunnerFinishes(c, b) PROVE Orderly'
  BY ExitsOrderly DEF RunnerFinishes

-----------------------------------------------------------------------------
(* A step that leaves schedulers, runners and results alone. *)
LEMMA Still ==
    ASSUME CalmStep, UNCHANGED <<files, sched, children>>
    PROVE  /\ Processes'
           /\ \A j, i, a : Holds(j, i, a)' <=> Holds(j, i, a)
           /\ \A l \in Lanes : /\ SameLease(sched[l], sched'[l])
                               /\ sched'[l].stranded = {}
                               /\ \A j \in Jobs : BareClaim(sched'[l], j) => BareClaim(sched[l], j)
<1> USE DEF CalmStep, Orderly
<1>1. Processes'
  BY DEF Processes, OwnLane, WaitedFor, OneRunner, SpoolServed, Outputs, OneResult, NoResultYet,
         Results, Waits, Home, Output, files
<1>2. \A j, i, a : Holds(j, i, a)' <=> Holds(j, i, a)
  BY DEF Holds, files
<1>3. \A l \in Lanes : /\ SameLease(sched[l], sched'[l])
                       /\ sched'[l].stranded = {}
                       /\ \A j \in Jobs : BareClaim(sched'[l], j) => BareClaim(sched[l], j)
  BY DEF SameLease, Leases, BareClaim, Requests, NoneStranded
<1> QED BY <1>1, <1>2, <1>3

LEMMA QuietOrderly ==
    ASSUME CalmStep, UNCHANGED <<files, sched, children>>, asked' = asked,
           \A j \in Jobs : QuietRow(jobs[j], jobs'[j])
    PROVE  Orderly'
<1>1. HoldsLess
  BY Still DEF HoldsLess
<1> QED BY <1>1, Still, QuietMoves DEF Orderly

(* A renewal in a calm behavior is the leaseholder's, and in time. *)
LEMMA HeartbeatOrderly ==
    ASSUME CalmStep, NEW l \in Lanes, NEW o \in Outcomes, Heartbeat(l, o) PROVE Orderly'
<1> USE DEF CalmStep
<1>1. o = "ok"
  BY CalmCall DEF Heartbeat
<1>2. PICK j \in Jobs : j = sched[l].job
  BY DEF IInv, TypeOK, Scheduler
<1>3. Owns(jobs[j], sched[l].id)
  BY <1>2 DEF Heartbeat, Orderly, Requests, Leaseholder, Leases, Working
<1>4. jobs[j] \in Row /\ jobs \in [Jobs -> Row] /\ jobs[j].lease = "live"
  BY <1>3 DEF IInv, TypeOK, Orderly, Requests, LeaseHeld, Owns
<1>5. HeartbeatRow(jobs[j]) = jobs[j]
  BY <1>4 DEF HeartbeatRow, Row
<1>6. jobs' = jobs
  <2>1. jobs' = [jobs EXCEPT ![j] = HeartbeatRow(jobs[j])]
    BY <1>1, <1>2, <1>3 DEF Heartbeat, Reported
  <2> QED BY <1>4, <1>5, <2>1
<1>7. UNCHANGED <<files, sched, children>> /\ asked' = asked
  BY <1>1, <1>2, <1>3 DEF Heartbeat
<1> QED BY <1>6, <1>7, SameRows, QuietOrderly

(* A request is new: nothing has been begun for it, and a row that waited  *)
(* for nothing is due.                                                     *)
LEMMA EnqueueOrderly == ASSUME CalmStep, NEW j \in Jobs, Enqueue(j) PROVE Orderly'
<1> USE DEF CalmStep
<1>1. PICK row : row = EnqueueRow(jobs[j], Asking)
  OBVIOUS
<1>2. /\ jobs'[j] = row /\ asked'[j] = asked[j] + 1 /\ asked[j] \in Nat
      /\ \A k \in Jobs : k # j => jobs'[k] = jobs[k] /\ asked'[k] = asked[k]
      /\ UNCHANGED <<files, sched, children>>
      /\ jobs[j] \in Row
  BY <1>1 DEF Enqueue, IInv, TypeOK
<1>3. /\ row.status = "processing" <=> jobs[j].status = "processing"
      /\ row.token = jobs[j].token /\ row.lease = jobs[j].lease
      /\ Unclaimed(jobs[j]) => Unclaimed(row)
  <2>1. /\ row.status = IF jobs[j].status = "processing" THEN "processing" ELSE "pending"
        /\ row.token = jobs[j].token /\ row.lease = jobs[j].lease
    BY <1>1 DEF EnqueueRow
  <2>2. ASSUME Unclaimed(jobs[j]) PROVE Claimable(row)
    <3>1. jobs[j].status # "processing"
      BY <2>2 DEF Unclaimed, Claimable
    <3>2. CASE PreserveQueuedAuthority(jobs[j], Asking)
      <4>1. Claimable(jobs[j])
        BY <2>2, <3>2 DEF Unclaimed, PreserveQueuedAuthority
      <4>2. /\ row.attempts = jobs[j].attempts /\ row.maxAttempts = jobs[j].maxAttempts
            /\ row.due = jobs[j].due
        BY <1>1, <3>2 DEF EnqueueRow
      <4> QED BY <2>1, <3>1, <4>1, <4>2 DEF Claimable
    <3>3. CASE ~PreserveQueuedAuthority(jobs[j], Asking)
      <4>1. row.attempts = 0 /\ row.due
        BY <1>1, <3>1, <3>3 DEF EnqueueRow
      <4>2. row.maxAttempts = IF Asking.maxAttempts > 1 THEN Asking.maxAttempts ELSE 1
        BY <1>1, <3>3 DEF EnqueueRow
      <4>3. Asking.maxAttempts \in Nat
        BY AiSchedulerAssumption DEF Asking
      <4>4. 0 < row.maxAttempts
        BY <4>2, <4>3
      <4> QED BY <2>1, <3>1, <4>1, <4>4 DEF Claimable
    <3> QED BY <3>2, <3>3
  <2> QED BY <2>1, <2>2 DEF Unclaimed
<1>4. Processes' /\ \A k, i, a : Holds(k, i, a)' <=> Holds(k, i, a)
  BY <1>2, Still
<1> USE DEF Orderly, Requests
<1>5. LeaseHeld'
  BY <1>2, <1>3 DEF LeaseHeld, Leases, Home
<1>6. Leaseholder'
  <2> SUFFICES ASSUME NEW l \in Lanes, Leases(sched[l])
               PROVE  Owns(jobs'[sched[l].job], sched[l].id)
    BY <1>2 DEF Leaseholder, Leases
  <2>1. Owns(jobs[sched[l].job], sched[l].id) /\ sched[l].job \in Jobs
    BY SchedHolds DEF Leaseholder, Leases
  <2> QED BY <1>2, <1>3, <2>1 DEF Owns
<1>7. NoneStranded' /\ OnePerRequest'
  BY <1>2, <1>4 DEF NoneStranded, OnePerRequest
<1>8. NothingYet'
  <2> SUFFICES ASSUME NEW k \in Jobs, NEW i \in Tokens, Owing(jobs'[k]), Holds(k, i, asked[k])'
               PROVE  FALSE
    BY DEF NothingYet, Owing
  <2>1. PICK a : a = asked'[k]
    OBVIOUS
  <2>2. Holds(k, i, a)
    BY <1>4, <2>1
  <2>3. CASE k = j
    <3>1. a \in Nat /\ ~(a <= asked[k])
      BY <1>2, <2>1, <2>3
    <3> QED BY <2>2, <3>1 DEF IInv, HeldPast
  <2>4. CASE k # j
    BY <1>2, <2>1, <2>2, <2>4 DEF NothingYet
  <2> QED BY <2>3, <2>4
<1>9. BareFirst'
  <2> SUFFICES ASSUME NEW l \in Lanes, NEW k \in Jobs, BareClaim(sched'[l], k)
               PROVE  /\ Unclaimed(jobs'[k])
                      /\ \A i \in Tokens, a \in Nat : ~Holds(k, i, a)'
    BY DEF BareFirst, BareClaim, Unclaimed
  <2>1. Unclaimed(jobs[k]) /\ \A i \in Tokens, a \in Nat : ~Holds(k, i, a)
    BY <1>2 DEF BareFirst
  <2> QED BY <1>2, <1>3, <1>4, <2>1
<1> QED BY <1>4, <1>5, <1>6, <1>7, <1>8, <1>9

(* A lease that is renewed does not expire, so none is recovered. *)
LEMMA QueueStepOrderly ==
    ASSUME CalmStep, NEW j \in Jobs, LeaseExpires(j) \/ RecoverExpired(j) \/ BecomesDue(j)
    PROVE  Orderly'
<1> USE DEF CalmStep
<1>1. jobs[j] \in Row /\ jobs \in [Jobs -> Row]
  BY DEF IInv, TypeOK
<1>2. ~RecoverExpired(j)
  BY RowAssumption, HomeType, SchedHolds
     DEF RecoverExpired, Recoverable, Orderly, Requests, LeaseHeld, Leases
<1>3. CASE LeaseExpires(j)
  <2>1. jobs[j].status # "processing"
    <3>1. ~Renewing(j)
      BY <1>3 DEF LeaseExpires, Calm
    <3> QED BY <3>1, HomeType DEF Renewing, Orderly, Requests, LeaseHeld, Leases, Working
  <2>2. PICK q : q = [jobs[j] EXCEPT !.lease = "expired"]
    OBVIOUS
  <2>3. QuietRow(jobs[j], q)
    BY <1>1, <2>1, <2>2 DEF QuietRow, Owing, Unclaimed, Claimable, Row
  <2>4. \A k \in Jobs : jobs'[k] = IF k = j THEN q ELSE jobs[k]
    BY <1>1, <1>3, <2>2 DEF LeaseExpires
  <2>5. \A k \in Jobs : QuietRow(jobs[k], jobs'[k])
    BY <2>3, <2>4 DEF QuietRow
  <2> QED BY <1>3, <2>5, QuietOrderly DEF LeaseExpires
<1>4. CASE BecomesDue(j)
  <2>1. jobs[j].status = "pending"
    BY <1>4 DEF BecomesDue
  <2>2. PICK q : q = [jobs[j] EXCEPT !.due = TRUE]
    OBVIOUS
  <2>3. QuietRow(jobs[j], q)
    BY <1>1, <2>1, <2>2 DEF QuietRow, Owing, Unclaimed, Claimable, Row
  <2>4. \A k \in Jobs : jobs'[k] = IF k = j THEN q ELSE jobs[k]
    BY <1>1, <1>4, <2>2 DEF BecomesDue
  <2>5. \A k \in Jobs : QuietRow(jobs[k], jobs'[k])
    BY <2>3, <2>4 DEF QuietRow
  <2> QED BY <1>4, <2>5, QuietOrderly DEF BecomesDue
<1> QED BY <1>2, <1>3, <1>4

-----------------------------------------------------------------------------
(* What has gone wrong stays on record. *)
LEMMA CallCounts == ASSUME IInv, NEW o, Call(o), faults' = 0 PROVE faults = 0
  BY AiSchedulerAssumption DEF Call, IInv, TypeOK

LEMMA SubmitCounts ==
    ASSUME IInv, NEW r, NEW o, FlushPath(r, o) \/ (\E b : Submit(r, o, b)), faults' = 0
    PROVE  faults = 0
  BY CallCounts DEF FlushPath, Submit

LEMMA DrainCounts == ASSUME IInv, NEW l \in Lanes, DrainStep(l), Calm' PROVE Calm
<1>1. CASE \E o \in Outcomes : \/ Claim(l, o) \/ Retire(l, o) \/ ReportCompleted(l, o)
                               \/ \E retryable \in BOOLEAN : ReportFailed(l, retryable, o)
  <2>1. PICK o \in Outcomes : Call(o) /\ crashes' = crashes
    BY <1>1 DEF Claim, Retire, ReportCompleted, ReportFailed
  <2> QED BY <2>1, CallCounts DEF Calm
<1>2. CASE ClaimRaises(l)
  BY <1>2, CallCounts DEF ClaimRaises, Calm
<1>3. CASE \/ \E j \in Jobs : SelectWork(l, j)
           \/ \E g \in Groups : SelectBare(l, g)
           \/ DrainEnds(l) \/ ClaimRefused(l) \/ PrepareFails(l) \/ StartRunner(l)
  BY <1>3 DEF SelectWork, SelectBare, Selected, DrainEnds, ClaimRefused, PrepareFails, StartRunner, Calm
<1> QED BY <1>1, <1>2, <1>3 DEF DrainStep

LEMMA CalmBefore == ASSUME IInv, [Next]_vars, Calm' PROVE Calm
<1>1. ASSUME NEW l \in Lanes, RunStep(l) PROVE Calm
  <2>1. CASE \E r \in sched[l].listed, o \in FlushOutcomes : Flush(l, r, o)
    BY <2>1, SubmitCounts DEF Flush, Calm
  <2>2. CASE \E o \in Outcomes : \/ ReconcilePost(l, o)
                                 \/ \E x \in sched[l].stranded : RecoverReport(l, x, o)
    BY <2>2, CallCounts DEF ReconcilePost, RecoverReport, Calm
  <2>3. CASE Launch(l) \/ FlushDone(l) \/ RecoverDone(l)
    BY <2>3 DEF Launch, FlushDone, RecoverDone, Calm
  <2> QED BY <1>1, <2>1, <2>2, <2>3 DEF RunStep
<1>2. ASSUME NEW c \in children, RunnerStep(c) PROVE Calm
  <2>1. CASE \E r \in c.listed, o \in FlushOutcomes : RunnerFlush(c, r, o)
    <3>1. PICK r \in c.listed, o \in FlushOutcomes : RunnerFlush(c, r, o)
      BY <2>1
    <3>2. FlushPath(r, o) /\ crashes' = crashes
      BY <3>1 DEF RunnerFlush, Becomes, Exits
    <3> QED BY <3>2, SubmitCounts DEF Calm
  <2>2. CASE \E o \in Outcomes \cup {"rejected"} : RunnerSubmits(c, o)
    <3>1. PICK o \in Outcomes \cup {"rejected"} : RunnerSubmits(c, o)
      BY <2>2
    <3>2. Submit(Output(c), o, FALSE) /\ crashes' = crashes
      BY <3>1 DEF RunnerSubmits, Becomes, Exits
    <3> QED BY <3>2, SubmitCounts DEF Calm
  <2>3. CASE RunnerAnswers(c) \/ \E b \in BOOLEAN : RunnerFinishes(c, b)
    BY <2>3 DEF RunnerAnswers, RunnerFinishes, Becomes, Exits, Calm
  <2>4. CASE \E kept \in BOOLEAN : RunnerUnlinks(c, kept)
    <3>1. faults \in Nat
      BY DEF IInv, TypeOK
    <3> QED BY <2>4, <3>1 DEF RunnerUnlinks, Becomes, Calm
  <2> QED BY <1>2, <2>1, <2>2, <2>3, <2>4 DEF RunnerStep
<1>3. ASSUME NEW l \in Lanes, NEW o \in Outcomes, Heartbeat(l, o) PROVE Calm
  BY <1>3, CallCounts DEF Heartbeat, Calm
<1>4. ASSUME NEW c \in children, NEW pc, RunnerDies(c, pc) PROVE Calm
  BY <1>4, AiSchedulerAssumption DEF RunnerDies, Exits, Calm, IInv, TypeOK
<1>5. ASSUME NEW j \in Jobs, QueueStep(j) PROVE Calm
  BY <1>5, AiSchedulerAssumption
     DEF QueueStep, Enqueue, LeaseExpires, RecoverExpired, BecomesDue, Calm, IInv, TypeOK
<1>6. ASSUME NEW l \in Lanes, SchedulerDies(l) PROVE Calm
  BY <1>6, AiSchedulerAssumption DEF SchedulerDies, Calm, IInv, TypeOK
<1>7. CASE HostRestarts
  BY <1>7, AiSchedulerAssumption DEF HostRestarts, Calm, IInv, TypeOK
<1>8. CASE UNCHANGED vars
  BY <1>8 DEF vars, Calm
<1> QED BY <1>1, <1>2, <1>3, <1>4, <1>5, <1>6, <1>7, <1>8, DrainCounts DEF Next

(* Deaths and recoveries have no place in a calm behavior. *)
LEMMA NoDeath ==
    ASSUME CalmStep
    PROVE  /\ ~HostRestarts
           /\ \A l \in Lanes : /\ ~SchedulerDies(l) /\ ~ClaimRaises(l)
                               /\ \A x \in sched[l].stranded, o \in Outcomes : ~RecoverReport(l, x, o)
<1>1. ~HostRestarts /\ \A l \in Lanes : ~SchedulerDies(l)
  BY DEF CalmStep, Calm, HostRestarts, SchedulerDies
<1>2. \A l \in Lanes : ~ClaimRaises(l)
  BY CalmCall DEF CalmStep, ClaimRaises
<1>3. \A l \in Lanes : sched[l].stranded = {}
  BY DEF CalmStep, Orderly, Requests, NoneStranded
<1> QED BY <1>1, <1>2, <1>3

LEMMA NextOrderly == ASSUME CalmStep, [Next]_vars PROVE Orderly'
<1>1. ASSUME NEW l \in Lanes, RunStep(l) PROVE Orderly'
  <2>1. CASE Launch(l)
    BY <2>1, LaunchOrderly
  <2>2. CASE \E r \in sched[l].listed, o \in FlushOutcomes : Flush(l, r, o)
    BY <2>2, FlushOrderly
  <2>3. CASE FlushDone(l)
    BY <2>3, FlushDoneOrderly
  <2>4. CASE RecoverDone(l)
    BY <2>4, RecoverDoneOrderly
  <2>5. CASE \E o \in Outcomes : ReconcilePost(l, o)
    BY <2>5, ReconcilePostOrderly
  <2> QED BY <1>1, <2>1, <2>2, <2>3, <2>4, <2>5, NoDeath DEF RunStep
<1>2. ASSUME NEW l \in Lanes, DrainStep(l) PROVE Orderly'
  <2>1. CASE \/ \E j \in Jobs : SelectWork(l, j)
             \/ \E g \in Groups : SelectBare(l, g)
             \/ DrainEnds(l)
    BY <2>1, SelectWorkOrderly, SelectBareOrderly, DrainEndsOrderly
  <2>2. CASE \E o \in Outcomes : Claim(l, o) \/ Retire(l, o)
    BY <2>2, ClaimOrderly, RetireOrderly
  <2>3. CASE ClaimRefused(l) \/ PrepareFails(l) \/ StartRunner(l)
    BY <2>3, ClaimRefusedOrderly, PrepareFailsOrderly, StartRunnerOrderly
  <2>4. CASE \E o \in Outcomes : ReportCompleted(l, o)
    BY <2>4, ReportCompletedOrderly
  <2>5. CASE \E retryable \in BOOLEAN, o \in Outcomes : ReportFailed(l, retryable, o)
    BY <2>5, ReportFailedOrderly
  <2> QED BY <1>2, <2>1, <2>2, <2>3, <2>4, <2>5, NoDeath DEF DrainStep
<1>3. ASSUME NEW c \in children, RunnerStep(c) PROVE Orderly'
  <2>1. CASE \E r \in c.listed, o \in FlushOutcomes : RunnerFlush(c, r, o)
    BY <2>1, RunnerFlushOrderly
  <2>2. CASE RunnerAnswers(c) \/ \E kept \in BOOLEAN : RunnerUnlinks(c, kept)
    BY <2>2, RunnerAnswersOrderly, RunnerUnlinksOrderly
  <2>3. CASE \E o \in Outcomes \cup {"rejected"} : RunnerSubmits(c, o)
    BY <2>3, RunnerSubmitsOrderly
  <2>4. CASE \E recorded \in BOOLEAN : RunnerFinishes(c, recorded)
    BY <2>4, RunnerFinishesOrderly
  <2> QED BY <1>3, <2>1, <2>2, <2>3, <2>4 DEF RunnerStep
<1>4. ASSUME NEW l \in Lanes, NEW o \in Outcomes, Heartbeat(l, o) PROVE Orderly'
  BY <1>4, HeartbeatOrderly
<1>5. ASSUME NEW c \in children, NEW pc \in {"failed", "raised"}, RunnerDies(c, pc) PROVE Orderly'
  BY <1>5, RunnerDiesOrderly
<1>6. ASSUME NEW j \in Jobs, QueueStep(j) PROVE Orderly'
  BY <1>6, EnqueueOrderly, QueueStepOrderly DEF QueueStep
<1>7. CASE UNCHANGED vars
  BY <1>7, SameRows, QuietOrderly DEF vars, store
<1> QED BY <1>1, <1>2, <1>3, <1>4, <1>5, <1>6, <1>7, NoDeath DEF Next

LEMMA InitOrderly == Init => Orderly
<1> SUFFICES ASSUME Init PROVE Orderly
  OBVIOUS
<1> USE DEF Init
<1>1. Off.pc = "off" /\ Off.stranded = {} /\ AbsentRow.status = "absent"
  BY DEF Off, AbsentRow
<1>2. \A j, i, a : ~Holds(j, i, a)
  BY <1>1 DEF Holds, Working
<1>3. Processes
  BY <1>1 DEF Processes, OwnLane, WaitedFor, OneRunner, SpoolServed, Outputs, OneResult, NoResultYet,
              Results, Working, Empty
<1>4. Requests
  BY <1>1, <1>2 DEF Requests, LeaseHeld, Leaseholder, Leases, NoneStranded, NothingYet, OnePerRequest,
                    BareFirst, BareClaim, Owing, Working
<1> QED BY <1>3, <1>4 DEF Orderly

OnceInv == Calm => Orderly

(* In an orderly state no two analyses answer the same requests: they are  *)
(* of the same execution, and an execution leaves one result.              *)
LEMMA OrderlyIsOnce == IInv /\ OnceInv => InferredOnce
<1> SUFFICES ASSUME IInv, Orderly, NEW q \in analyses, NEW r \in analyses,
                    q.job = r.job, q.asked = r.asked
             PROVE  q = r
  BY DEF InferredOnce, OnceInv, Calm
<1>1. /\ q.job \in Jobs /\ q.asked \in Nat /\ q.id \in Tokens /\ Holds(q.job, q.id, q.asked)
      /\ r.id \in Tokens /\ Holds(r.job, r.id, r.asked)
  BY ResultHolds DEF IInv, TypeOK, Result
<1>2. q.id = r.id
  BY <1>1 DEF Orderly, Requests, OnePerRequest
<1> QED BY <1>2 DEF Orderly, Processes, OneResult, Results

(* Unless something was lost, killed or late, no request is analysed twice *)
(* under a lease: the reports, recovery, reconciliation and replay of      *)
(* scheduler_runtime.py and scheduler_queue.py settle each execution       *)
(* before its request could be claimed again, for any number of groups,    *)
(* lanes, attempts and requests.                                           *)
THEOREM InferredOnceHolds == Spec => []InferredOnce
<1>1. Init => OnceInv
  BY InitOrderly DEF OnceInv
<1>2. IInv /\ OnceInv /\ [Next]_vars => OnceInv'
  <2> SUFFICES ASSUME IInv, OnceInv, [Next]_vars, Calm' PROVE Orderly'
    BY DEF OnceInv
  <2>1. IInv' /\ Calm
    BY NextIInv, CalmBefore
  <2> QED BY <2>1, NextOrderly DEF OnceInv, CalmStep
<1> QED BY InitIInv, NextIInv, <1>1, <1>2, OrderlyIsOnce, PTL DEF Spec
=============================================================================
