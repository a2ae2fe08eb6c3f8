------------------------ MODULE PostgresShadow_proofs ------------------------
(* What TLAPS proves of PostgresShadow, for any number of jobs, contents,   *)
(* writes and mishaps.  Revisions are versions: whatever PostgreSQL or the  *)
(* projector knows of a job has the content that SQLite has, or had, under  *)
(* that revision, until a revision that was read is rolled back and given   *)
(* to another content.                                                      *)
EXTENDS PostgresShadow, TLAPS

(* A row's acknowledgement is of a revision it has had; the open            *)
(* transaction has only added revisions, each with a content.               *)
RowsGrow ==
    \A j \in Jobs :
        /\ disk[j].rev > 0 => disk[j].content \in Contents
        /\ db[j].rev > 0 => db[j].content \in Contents
        /\ disk[j].acked <= disk[j].rev
        /\ db[j].acked = disk[j].acked
        /\ db[j] = disk[j] \/ (open /\ db[j].rev > disk[j].rev)

(* The version of a job that a call or the shadow carries. *)
IsVersion(j, rev, content) ==
    /\ rev <= db[j].rev
    /\ rev = db[j].rev => content = db[j].content
    /\ rev = disk[j].rev => content = disk[j].content

VersionsKnown ==
    \A j \in Jobs \ phantom :
        /\ IsVersion(j, pg[j].rev, pg[j].content)
        /\ \A c \in todo \cup flight : c.job = j => IsVersion(j, c.rev, c.content)
        /\ at # NoCall /\ at.job = j => IsVersion(j, at.rev, at.content)

(* What is, or is about to be, acknowledged is in PostgreSQL. *)
AckedIsShadowed ==
    /\ \A j \in Jobs \ phantom : disk[j].acked <= pg[j].rev
    /\ pc = "applied" => at.rev <= pg[at.job].rev

IInv == TypeOK /\ RowsGrow /\ VersionsKnown /\ AckedIsShadowed

USE PostgresShadowAssumption

(* The initial state satisfies the inductive invariant. *)
LEMMA InitIInv == Init => IInv
<1> SUFFICES ASSUME Init PROVE IInv
  OBVIOUS
<1>1. NoRows \in [Jobs -> Row]
  BY DEF NoRows, Seed, Row
<1>2. db = disk /\ disk \in [Jobs -> Row] /\ pg \in [Jobs -> Shadow]
  BY DEF Init, Seed, Row, Shadow
<1>3. ASSUME NEW j \in Jobs
      PROVE  /\ db[j] = disk[j]
             /\ disk[j].acked = 0 /\ disk[j].rev \in Nat
             /\ disk[j].rev = 0 => disk[j].content = NoContent
             /\ disk[j].rev > 0 => disk[j].content \in Contents
             /\ pg[j].rev = 0 /\ pg[j].content = NoContent
  BY DEF Init, Seed
<1>4. /\ todo = {} /\ flight = {} /\ at = NoCall /\ pc = "idle"
      /\ open = FALSE /\ reader = "idle" /\ snapshot = NoRows /\ alarms = {}
      /\ writes = 0 /\ mishaps = 0 /\ phantom = {}
  BY DEF Init
<1>5. TypeOK
  <2>1. db \in [Jobs -> Row] /\ snapshot \in [Jobs -> Row]
    BY <1>1, <1>2, <1>4
  <2>2. flight \subseteq Calls /\ todo \subseteq Calls /\ at \in Calls \cup {NoCall}
    BY <1>4
  <2>3. writes \in 0 .. MaxWrites /\ mishaps \in 0 .. MaxMishaps
    BY <1>4
  <2> QED BY <1>2, <1>4, <2>1, <2>2, <2>3 DEF TypeOK
<1>6. RowsGrow
  <2>1. ASSUME NEW j \in Jobs
        PROVE  /\ db[j] = disk[j] /\ disk[j].acked <= disk[j].rev
               /\ disk[j].rev > 0 => disk[j].content \in Contents
    BY <1>3
  <2> QED BY <2>1 DEF RowsGrow
<1>7. VersionsKnown
  <2>1. ASSUME NEW j \in Jobs
        PROVE  IsVersion(j, pg[j].rev, pg[j].content)
    BY <1>3 DEF IsVersion
  <2> QED BY <1>4, <2>1 DEF VersionsKnown
<1>8. AckedIsShadowed
  BY <1>2, <1>3, <1>4 DEF AckedIsShadowed
<1> QED BY <1>5, <1>6, <1>7, <1>8 DEF IInv

(* What the types say of one job and one call. *)
LEMMA RowTypes ==
  ASSUME TypeOK, NEW j \in Jobs
  PROVE  /\ db[j] \in Row /\ disk[j] \in Row /\ pg[j] \in Shadow
         /\ db[j].rev \in Nat /\ db[j].acked \in Nat
         /\ disk[j].rev \in Nat /\ disk[j].acked \in Nat /\ pg[j].rev \in Nat
  BY DEF TypeOK, Row, Shadow

LEMMA CallTypes ==
  ASSUME TypeOK, NEW c, c \in todo \cup flight \/ (c = at /\ at # NoCall)
  PROVE  c \in Calls /\ c.job \in Jobs /\ c.rev \in Nat /\ c.rev > 0 /\ c.content \in Contents
  BY DEF TypeOK, Calls

(* A transaction adds a revision that nobody has seen. *)
LEMMA WriteInv ==
  ASSUME IInv, NEW k \in Jobs, NEW content \in Contents, Write(k, content)
  PROVE  IInv'
<1> DEFINE t == Triggered(db[k], content)
<1>1. t \in Row /\ t.rev = db[k].rev + 1 /\ t.acked = db[k].acked /\ t.content = content
  BY RowTypes DEF Triggered, Row, IInv
<1>2. db' = [db EXCEPT ![k] = t]
  BY DEF Write
<1> HIDE DEF t
<1>3. \A j \in Jobs : db'[j] = IF j = k THEN t ELSE db[j]
  BY <1>2 DEF IInv, TypeOK
<1> USE DEF IInv, Write, projector, monitor
<1>4. TypeOK'
  BY <1>1, <1>2 DEF TypeOK
<1>5. RowsGrow'
  BY <1>1, <1>3, RowTypes DEF RowsGrow
<1>6. VersionsKnown'
  <2> SUFFICES ASSUME NEW j \in Jobs \ phantom, NEW rev \in Nat, NEW c, IsVersion(j, rev, c)
               PROVE  IsVersion(j, rev, c)'
    BY RowTypes, CallTypes DEF VersionsKnown
  <2> QED BY <1>1, <1>3, RowTypes DEF IsVersion
<1>7. AckedIsShadowed'
  BY DEF AckedIsShadowed
<1> QED BY <1>4, <1>5, <1>6, <1>7

(* The committed rows become those of the connection. *)
LEMMA CommitInv ==
  ASSUME IInv, Commit
  PROVE  IInv'
<1> USE DEF IInv, Commit, projector, monitor, counts
<1>1. TypeOK'
  BY DEF TypeOK
<1>2. RowsGrow'
  BY RowTypes DEF RowsGrow
<1>3. VersionsKnown'
  BY DEF VersionsKnown, IsVersion
<1>4. AckedIsShadowed'
  BY DEF AckedIsShadowed, RowsGrow
<1> QED BY <1>1, <1>2, <1>3, <1>4

(* A rollback, whatever is forgotten with it, leaves a job whose lost       *)
(* versions nobody has read.                                                *)
LEMMA UndoInv ==
  ASSUME IInv, Rollback \/ Crash
  PROVE  IInv'
<1>1. /\ db' = disk /\ disk' = disk /\ open' = FALSE /\ phantom' = phantom \cup ReadTooEarly
      /\ pg' = pg /\ flight' = flight
      /\ todo' \subseteq todo /\ at' \in {at, NoCall}
      /\ pc' = "applied" => pc = "applied" /\ at' = at
  BY DEF Rollback, Crash, Undo, projector
<1>2. TypeOK'
  <2>1. phantom' \subseteq Jobs
    BY <1>1 DEF ReadTooEarly, IInv, TypeOK
  <2>2. mishaps' \in 0 .. MaxMishaps
    BY DEF Rollback, Crash, Mishap, IInv, TypeOK
  <2>3. at' = NoCall <=> pc' \in {"idle", "ready"}
    BY DEF Rollback, Crash, projector, IInv, TypeOK
  <2>4. pc' \in {pc, "idle"} /\ UNCHANGED <<monitor, writes>>
    BY DEF Rollback, Crash, projector
  <2> QED BY <1>1, <2>1, <2>2, <2>3, <2>4 DEF IInv, TypeOK, monitor
<1>3. RowsGrow'
  BY <1>1, RowTypes DEF IInv, RowsGrow
<1>4. VersionsKnown'
  <2>1. ASSUME NEW j \in Jobs, j \notin phantom', NEW rev \in Nat, NEW c,
               IsVersion(j, rev, c), ~(rev > disk[j].rev)
        PROVE  IsVersion(j, rev, c)'
    BY <1>1, <2>1, RowTypes DEF IInv, IsVersion
  <2>2. ASSUME NEW j \in Jobs, j \notin phantom'
        PROVE  /\ ~(pg[j].rev > disk[j].rev)
               /\ \A c \in todo \cup flight : c.job = j => ~(c.rev > disk[j].rev)
               /\ at # NoCall /\ at.job = j => ~(at.rev > disk[j].rev)
    BY <1>1, <2>2 DEF ReadTooEarly
  <2>3. ASSUME NEW j \in Jobs, j \notin phantom'
        PROVE  IsVersion(j, pg[j].rev, pg[j].content)'
    BY <1>1, <2>1, <2>2, <2>3, RowTypes DEF IInv, VersionsKnown
  <2>4. ASSUME NEW j \in Jobs, j \notin phantom', NEW c \in todo \cup flight, c.job = j
        PROVE  IsVersion(j, c.rev, c.content)'
    BY <1>1, <2>1, <2>2, <2>4, CallTypes DEF IInv, VersionsKnown
  <2>5. ASSUME NEW j \in Jobs, j \notin phantom', at' # NoCall, at.job = j
        PROVE  IsVersion(j, at.rev, at.content)'
    BY <1>1, <2>1, <2>2, <2>5, CallTypes DEF IInv, VersionsKnown
  <2> QED BY <1>1, <2>3, <2>4, <2>5 DEF VersionsKnown
<1>5. AckedIsShadowed'
  BY <1>1 DEF IInv, AckedIsShadowed
<1> QED BY <1>2, <1>3, <1>4, <1>5 DEF IInv

(* The projector reads the versions of the connection, uncommitted or not. *)
LEMMA DrainInv ==
  ASSUME IInv, Drain
  PROVE  IInv'
<1> USE DEF IInv, Drain, sqlite, monitor, counts
<1>1. ASSUME NEW c \in Pending
      PROVE  /\ c \in Calls
             /\ c.rev = db[c.job].rev /\ c.content = db[c.job].content
  BY RowTypes DEF Pending, Dirty, Calls, RowsGrow
<1>2. TypeOK'
  BY <1>1 DEF TypeOK
<1>3. RowsGrow'
  BY DEF RowsGrow
<1>4. VersionsKnown'
  <2>1. ASSUME NEW j \in Jobs, NEW c \in Pending, c.job = j
        PROVE  IsVersion(j, c.rev, c.content)
    BY <1>1, <2>1, RowTypes DEF IsVersion, RowsGrow
  <2> QED BY <2>1 DEF VersionsKnown, IsVersion
<1>5. AckedIsShadowed'
  BY DEF AckedIsShadowed
<1> QED BY <1>2, <1>3, <1>4, <1>5

(* A call is sent. *)
LEMMA ApplyInv ==
  ASSUME IInv, NEW c \in todo, Apply(c)
  PROVE  IInv'
<1> USE DEF IInv, Apply, sqlite, monitor, counts
<1>1. c # NoCall
  BY DEF TypeOK
<1>2. TypeOK'
  BY <1>1 DEF TypeOK
<1>3. RowsGrow'
  BY DEF RowsGrow
<1>4. VersionsKnown'
  BY DEF VersionsKnown, IsVersion
<1>5. AckedIsShadowed'
  BY DEF AckedIsShadowed
<1> QED BY <1>2, <1>3, <1>4, <1>5

(* PostgreSQL executes a call, at whatever time: its rows only get newer. *)
LEMMA ExecuteInv ==
  ASSUME IInv, NEW c \in flight, Execute(c)
  PROVE  IInv'
<1> DEFINE s == Applied(pg[c.job], c)
<1>1. /\ c.job \in Jobs /\ s \in Shadow /\ s.rev \in Nat
      /\ s = pg[c.job] \/ (s.rev = c.rev /\ s.content = c.content)
      /\ pg[c.job].rev <= s.rev /\ c.rev <= s.rev
  BY RowTypes, CallTypes DEF Applied, Shadow, IInv
<1>2. pg' = [pg EXCEPT ![c.job] = s]
  BY DEF Execute
<1> HIDE DEF s
<1>3. \A j \in Jobs : pg'[j] = IF j = c.job THEN s ELSE pg[j]
  BY <1>2 DEF IInv, TypeOK
<1> USE DEF IInv, Execute, sqlite, monitor, counts
<1>4. TypeOK'
  BY <1>1, <1>2 DEF TypeOK
<1>5. RowsGrow'
  BY DEF RowsGrow
<1>6. VersionsKnown'
  <2>1. ASSUME NEW j \in Jobs \ phantom
        PROVE  IsVersion(j, pg'[j].rev, pg'[j].content)
    BY <1>1, <1>3 DEF VersionsKnown
  <2> QED BY <2>1 DEF VersionsKnown, IsVersion
<1>7. AckedIsShadowed'
  <2>1. \A j \in Jobs : pg[j].rev <= pg'[j].rev
    BY <1>1, <1>3, RowTypes
  <2>2. \A j \in Jobs \ phantom : disk'[j].acked <= pg'[j].rev
    <3> SUFFICES ASSUME NEW j \in Jobs \ phantom PROVE disk[j].acked <= pg'[j].rev
      OBVIOUS
    <3>1. disk[j].acked <= pg[j].rev /\ pg[j].rev <= pg'[j].rev
      BY <2>1 DEF AckedIsShadowed
    <3>2. pg'[j].rev \in Nat
      BY <1>1, <1>3, RowTypes
    <3> QED BY <3>1, <3>2, RowTypes
  <2>3. ASSUME pc' = "applied"
        PROVE  at.rev <= pg'[at.job].rev
    <3>1. CASE at = c
      BY <1>1, <1>3, <3>1
    <3>2. CASE at # c
      <4>1. at # NoCall /\ at.rev <= pg[at.job].rev
        BY <2>3, <3>2 DEF AckedIsShadowed, TypeOK
      <4>2. at.job \in Jobs /\ at.rev \in Nat
        BY <4>1, CallTypes
      <4>3. pg'[at.job].rev \in Nat /\ pg[at.job].rev <= pg'[at.job].rev
        BY <1>1, <1>3, <2>1, <4>2, RowTypes
      <4> QED BY <4>1, <4>2, <4>3, RowTypes
    <3> QED BY <3>1, <3>2
  <2> QED BY <2>2, <2>3 DEF AckedIsShadowed
<1> QED BY <1>4, <1>5, <1>6, <1>7

(* Failures that touch neither database. *)
LEMMA FailInv ==
  ASSUME IInv, ApplyFails \/ MarkProjectedFails \/ MarkFailureFails
  PROVE  IInv'
<1>1. /\ UNCHANGED <<sqlite, pg, monitor, writes, phantom>>
      /\ flight' \subseteq flight /\ todo' \subseteq todo
      /\ \/ at' = at /\ pc \in {"waiting", "applied"} /\ pc' = "failed"
         \/ at' = NoCall /\ pc' = "idle"
      /\ mishaps < MaxMishaps /\ mishaps' = mishaps + 1
  BY DEF ApplyFails, MarkProjectedFails, MarkFailureFails, Stop, Mishap
<1> USE DEF IInv, sqlite, monitor
<1>2. TypeOK'
  BY <1>1 DEF TypeOK
<1>3. RowsGrow'
  BY <1>1 DEF RowsGrow
<1>4. VersionsKnown'
  BY <1>1 DEF VersionsKnown, IsVersion
<1>5. AckedIsShadowed'
  BY <1>1 DEF AckedIsShadowed
<1> QED BY <1>2, <1>3, <1>4, <1>5

(* A row whose revision and content stay, in SQLite's both views. *)
SameVersions(k, t) ==
    /\ t \in Row
    /\ t.rev = db[k].rev /\ t.content = db[k].content
    /\ t.acked <= t.rev

(* The projector writes in the gate; what it acknowledges is in PostgreSQL. *)
LEMMA UpdateInv ==
  ASSUME IInv, NEW k \in Jobs, NEW t, SameVersions(k, t),
         Update([db EXCEPT ![k] = t]),
         t.acked = db[k].acked \/ t.acked <= pg[k].rev,
         UNCHANGED <<pg, flight, monitor, counts, phantom>>,
         todo' \subseteq todo, at' = NoCall, pc' \in {"idle", "ready"}
  PROVE  IInv'
<1>1. /\ ~open /\ ~open'
      /\ \A j \in Jobs : /\ db'[j] = IF j = k THEN t ELSE db[j]
                         /\ disk'[j] = db'[j] /\ disk[j] = db[j]
  BY DEF Update, IInv, TypeOK, RowsGrow
<1> USE DEF IInv, SameVersions, monitor, counts
<1>2. TypeOK'
  BY DEF TypeOK, Update
<1>3. RowsGrow'
  BY <1>1, RowTypes DEF RowsGrow
<1>4. VersionsKnown'
  BY <1>1 DEF VersionsKnown, IsVersion
<1>5. AckedIsShadowed'
  BY <1>1 DEF AckedIsShadowed
<1> QED BY <1>2, <1>3, <1>4, <1>5

(* markProjected and markFailure are such writes. *)
LEMMA MarkInv ==
  ASSUME IInv, MarkProjected \/ MarkFailure
  PROVE  IInv'
<1>1. at # NoCall
  BY DEF IInv, TypeOK, MarkProjected, MarkFailure
<1>2. at.job \in Jobs /\ at.rev \in Nat
  BY <1>1, CallTypes DEF IInv
<1>3. CASE MarkProjected
  <2> DEFINE t == Acknowledged(db[at.job], at.rev)
  <2>1. SameVersions(at.job, t) /\ (t.acked = db[at.job].acked \/ t.acked = at.rev)
    <3>1. db[at.job] \in Row /\ db[at.job].acked <= db[at.job].rev
      BY <1>2, RowTypes DEF IInv, RowsGrow
    <3> QED BY <1>2, <3>1 DEF SameVersions, Acknowledged, Row
  <2>2. at.rev <= pg[at.job].rev
    BY <1>3 DEF IInv, AckedIsShadowed, MarkProjected
  <2>3. Update([db EXCEPT ![at.job] = t])
    BY <1>3 DEF MarkProjected
  <2> HIDE DEF t
  <2> QED BY <1>2, <1>3, <2>1, <2>2, <2>3, UpdateInv DEF MarkProjected, GoOn, Stop
<1>4. CASE MarkFailure
  <2> DEFINE t == Deferred(db[at.job], at.rev)
  <2>1. SameVersions(at.job, t) /\ t.acked = db[at.job].acked
    <3>1. db[at.job] \in Row /\ db[at.job].acked <= db[at.job].rev
      BY <1>2, RowTypes DEF IInv, RowsGrow
    <3> QED BY <1>2, <3>1 DEF SameVersions, Deferred, Row
  <2>2. Update([db EXCEPT ![at.job] = t])
    BY <1>4 DEF MarkFailure
  <2> HIDE DEF t
  <2> QED BY <1>2, <1>4, <2>1, <2>2, UpdateInv DEF MarkFailure, Stop
<1> QED BY <1>3, <1>4

(* Time only makes a row due, in both views. *)
LEMMA DueInv ==
  ASSUME IInv, NEW k \in Jobs, BecomesDue(k)
  PROVE  IInv'
<1> DEFINE t == [db[k] EXCEPT !.due = TRUE]
           u == [disk[k] EXCEPT !.due = TRUE]
<1>1. /\ t \in Row /\ t.rev = db[k].rev /\ t.content = db[k].content /\ t.acked = db[k].acked
      /\ u \in Row /\ u.rev = disk[k].rev /\ u.content = disk[k].content
      /\ u.acked = disk[k].acked
      /\ db[k] = disk[k] => t = u
  BY RowTypes DEF IInv, Row
<1>2. db' = [db EXCEPT ![k] = t] /\ disk' = [disk EXCEPT ![k] = u]
  BY DEF BecomesDue
<1> HIDE DEF t, u
<1>3. \A j \in Jobs : /\ db'[j] = IF j = k THEN t ELSE db[j]
                      /\ disk'[j] = IF j = k THEN u ELSE disk[j]
  BY <1>2 DEF IInv, TypeOK
<1>4. \A j \in Jobs : /\ db'[j].rev = db[j].rev /\ db'[j].content = db[j].content
                      /\ db'[j].acked = db[j].acked
                      /\ disk'[j].rev = disk[j].rev /\ disk'[j].content = disk[j].content
                      /\ disk'[j].acked = disk[j].acked
                      /\ db[j] = disk[j] => db'[j] = disk'[j]
  BY <1>1, <1>3
<1>5. TypeOK'
  <2>1. TypeOK
    BY DEF IInv
  <2>2. db' \in [Jobs -> Row] /\ disk' \in [Jobs -> Row]
    BY <1>1, <1>2, <2>1 DEF TypeOK
  <2> QED BY <2>1, <2>2 DEF TypeOK, BecomesDue, projector, monitor, counts
<1> USE DEF IInv, BecomesDue, projector, monitor, counts
<1>6. RowsGrow'
  <2>1. ASSUME NEW j \in Jobs
        PROVE  db'[j] = disk'[j] \/ (open' /\ db'[j].rev > disk'[j].rev)
    <3>1. CASE db[j] = disk[j]
      BY <1>4, <3>1
    <3>2. CASE open /\ db[j].rev > disk[j].rev
      BY <1>4, <3>2
    <3> QED BY <3>1, <3>2 DEF RowsGrow
  <2>2. ASSUME NEW j \in Jobs
        PROVE  /\ disk'[j].acked <= disk'[j].rev /\ db'[j].acked = disk'[j].acked
               /\ disk'[j].rev > 0 => disk'[j].content \in Contents
               /\ db'[j].rev > 0 => db'[j].content \in Contents
    BY <1>4 DEF RowsGrow
  <2> QED BY <2>1, <2>2 DEF RowsGrow
<1>7. VersionsKnown'
  BY <1>4 DEF VersionsKnown, IsVersion
<1>8. AckedIsShadowed'
  BY <1>4 DEF AckedIsShadowed
<1> QED BY <1>5, <1>6, <1>7, <1>8

(* The monitor changes nothing. *)
LEMMA MonitorInv ==
  ASSUME IInv, ReadSqlite \/ ReadPostgres \/ UNCHANGED vars
  PROVE  IInv'
<1>1. /\ UNCHANGED <<sqlite, pg, flight, projector, counts, phantom>>
      /\ reader' \in {"idle", "compare"}
      /\ snapshot' \in {snapshot, disk, NoRows}
      /\ alarms' \subseteq Jobs
  BY DEF ReadSqlite, ReadPostgres, vars, monitor, Alarms, IInv, TypeOK
<1>2. NoRows \in [Jobs -> Row]
  BY DEF NoRows, Seed, Row
<1> USE DEF IInv, sqlite, projector, counts
<1>3. TypeOK'
  BY <1>1, <1>2 DEF TypeOK
<1>4. RowsGrow'
  BY <1>1 DEF RowsGrow
<1>5. VersionsKnown'
  BY <1>1 DEF VersionsKnown, IsVersion
<1>6. AckedIsShadowed'
  BY <1>1 DEF AckedIsShadowed
<1> QED BY <1>3, <1>4, <1>5, <1>6

(* The inductive invariant holds in every behaviour: what is known of a     *)
(* job's revision is what that revision has been, in SQLite, in the         *)
(* projector, in PostgreSQL and in the calls on the way.                    *)
THEOREM ShadowIInv == Spec => []IInv
<1>1. IInv /\ [Next]_vars => IInv'
  <2> SUFFICES ASSUME IInv, [Next]_vars PROVE IInv'
    OBVIOUS
  <2>1. CASE Store
    BY <2>1, CommitInv, UndoInv, WriteInv DEF Store
  <2>2. CASE Project
    BY <2>2, DrainInv, ApplyInv, FailInv, MarkInv DEF Project
  <2>3. CASE \E c \in flight : Execute(c)
    BY <2>3, ExecuteInv
  <2>4. CASE \E j \in Jobs : BecomesDue(j)
    BY <2>4, DueInv
  <2>5. CASE ReadSqlite \/ ReadPostgres \/ UNCHANGED vars
    BY <2>5, MonitorInv
  <2> QED BY <2>1, <2>2, <2>3, <2>4, <2>5 DEF Next
<1> QED BY InitIInv, <1>1, PTL DEF Spec

(* Every variable keeps its type, and the projector has a row in hand       *)
(* exactly between sending it and recording its outcome.                    *)
THEOREM ShadowTypeOK == Spec => []TypeOK
<1>1. IInv => TypeOK
  BY DEF IInv
<1> QED BY <1>1, ShadowIInv, PTL

(* Whatever is written, answered late, lost or retried, a row that the      *)
(* outbox calls clean is the row that PostgreSQL has, unless a version was  *)
(* rolled back after it had been read.                                      *)
THEOREM CleanRowsAgreeHolds == Spec => []CleanRowsAgree
<1>1. IInv => CleanRowsAgree
  <2> SUFFICES ASSUME IInv, NEW j \in Jobs \ phantom, ~Dirty(db[j])
               PROVE  Agrees(disk[j], pg[j])
    BY DEF CleanRowsAgree
  <2>1. db[j] = disk[j] /\ disk[j].acked = disk[j].rev
    <3>1. /\ disk[j].acked <= disk[j].rev /\ db[j].acked = disk[j].acked
          /\ db[j] = disk[j] \/ db[j].rev > disk[j].rev
      BY DEF IInv, RowsGrow
    <3> QED BY <3>1, RowTypes DEF IInv, Dirty
  <2>2. disk[j].rev <= pg[j].rev /\ pg[j].rev <= db[j].rev
    BY <2>1 DEF IInv, AckedIsShadowed, VersionsKnown, IsVersion
  <2>3. pg[j].rev = disk[j].rev
    BY <2>1, <2>2, RowTypes DEF IInv
  <2>4. pg[j].content = disk[j].content
    BY <2>3 DEF IInv, VersionsKnown, IsVersion
  <2> QED BY <2>3, <2>4 DEF Agrees
<1> QED BY <1>1, ShadowIInv, PTL

(* PostgreSQL is never behind a clean row of the monitor's snapshot, and    *)
(* agrees with it if it is not ahead.                                       *)
SnapshotShadowed ==
    \A j \in Jobs \ phantom :
        reader = "compare" /\ ~Dirty(snapshot[j]) =>
            /\ snapshot[j].rev <= pg[j].rev
            /\ snapshot[j].rev = pg[j].rev => snapshot[j].content = pg[j].content

(* It holds when the snapshot is taken and while PostgreSQL moves on.       *)
LEMMA SnapshotShadowedHolds == Spec => []SnapshotShadowed
<1>1. Init => SnapshotShadowed
  BY DEF Init, SnapshotShadowed
<1>2. ASSUME IInv, SnapshotShadowed, [Next]_vars
      PROVE  SnapshotShadowed'
  <2>1. phantom \subseteq phantom'
    BY <1>2 DEF Next, Store, Project, Commit, Rollback, Crash, Undo, Write, Drain, Apply,
       ApplyFails, MarkProjected, MarkProjectedFails, MarkFailure, MarkFailureFails,
       Execute, BecomesDue, ReadSqlite, ReadPostgres, vars
  <2>2. CASE ReadSqlite
    <3> SUFFICES ASSUME NEW j \in Jobs \ phantom, ~Dirty(disk[j])
                 PROVE  /\ disk[j].rev <= pg[j].rev
                        /\ disk[j].rev = pg[j].rev => disk[j].content = pg[j].content
      BY <2>2 DEF ReadSqlite, SnapshotShadowed, Dirty
    <3>1. disk[j].acked = disk[j].rev
      BY <1>2, RowTypes DEF Dirty, IInv, RowsGrow
    <3> QED BY <1>2, <3>1 DEF IInv, AckedIsShadowed, VersionsKnown, IsVersion
  <2>3. CASE ReadPostgres
    BY <2>3 DEF ReadPostgres, SnapshotShadowed
  <2>4. CASE \E c \in flight : Execute(c)
    <3>1. PICK c \in flight : Execute(c)
      BY <2>4
    <3> DEFINE s == Applied(pg[c.job], c)
    <3>2. s = pg[c.job] \/ (pg[c.job].rev < s.rev /\ s.rev \in Nat)
      BY <1>2, CallTypes, RowTypes DEF Applied, IInv
    <3>3. pg' = [pg EXCEPT ![c.job] = s] /\ UNCHANGED <<monitor, phantom>>
      BY <3>1 DEF Execute
    <3> HIDE DEF s
    <3>4. ASSUME NEW j \in Jobs
          PROVE  pg'[j] = pg[j] \/ (pg[j].rev < pg'[j].rev /\ pg'[j].rev \in Nat)
      BY <1>2, <3>2, <3>3 DEF IInv, TypeOK
    <3> SUFFICES ASSUME NEW j \in Jobs \ phantom, reader = "compare", ~Dirty(snapshot[j])
                 PROVE  /\ snapshot[j].rev <= pg'[j].rev
                        /\ snapshot[j].rev = pg'[j].rev => snapshot[j].content = pg'[j].content
      BY <3>3 DEF SnapshotShadowed, monitor, Dirty
    <3>5. /\ snapshot[j].rev <= pg[j].rev
          /\ snapshot[j].rev = pg[j].rev => snapshot[j].content = pg[j].content
      BY <1>2 DEF SnapshotShadowed
    <3>6. snapshot[j].rev \in Nat /\ pg[j].rev \in Nat
      BY <1>2 DEF IInv, TypeOK, Row, Shadow
    <3>7. pg'[j] = pg[j] \/ (pg[j].rev < pg'[j].rev /\ pg'[j].rev \in Nat)
      BY <3>4
    <3> QED BY <3>5, <3>6, <3>7
  <2>5. CASE UNCHANGED <<pg, monitor>>
    BY <1>2, <2>1, <2>5 DEF SnapshotShadowed, monitor, Dirty
  <2>6. UNCHANGED <<pg, monitor>> \/ ReadSqlite \/ ReadPostgres \/ \E c \in flight : Execute(c)
    BY <1>2 DEF Next, Store, Project, Commit, Rollback, Crash, Undo, Write, Drain, Apply,
       ApplyFails, MarkProjected, MarkProjectedFails, MarkFailure, MarkFailureFails,
       BecomesDue, vars
  <2> QED BY <2>2, <2>3, <2>4, <2>5, <2>6
<1> QED BY <1>1, <1>2, ShadowIInv, PTL DEF Spec

(* The monitor reads two databases one after the other; a row that it       *)
(* reports is one that PostgreSQL has newer than the snapshot, unless a     *)
(* version of it was rolled back after it had been read.                    *)
THEOREM AlarmsAreNewerHolds == Spec => AlarmsAreNewer
<1> DEFINE Newer == reader = "compare" /\ reader' = "idle" =>
                        \A j \in alarms' : pg[j].rev > snapshot[j].rev \/ j \in phantom
<1>1. ASSUME IInv, SnapshotShadowed, [Next]_vars
      PROVE  [Newer]_vars
  <2> SUFFICES ASSUME reader = "compare", reader' = "idle", NEW j \in alarms', j \notin phantom
               PROVE  pg[j].rev > snapshot[j].rev
    OBVIOUS
  <2>1. ReadPostgres
    BY <1>1 DEF Next, Store, Project, Commit, Rollback, Crash, Undo, Write, Drain, Apply,
       ApplyFails, MarkProjected, MarkProjectedFails, MarkFailure, MarkFailureFails,
       Execute, BecomesDue, ReadSqlite, vars, monitor
  <2>2. j \in Jobs /\ ~Dirty(snapshot[j]) /\ ~Agrees(snapshot[j], pg[j])
    BY <2>1 DEF ReadPostgres, Alarms
  <2>3. /\ snapshot[j].rev <= pg[j].rev
        /\ snapshot[j].rev # pg[j].rev
    BY <1>1, <2>2 DEF SnapshotShadowed, Agrees
  <2>4. snapshot[j].rev \in Nat /\ pg[j].rev \in Nat
    BY <1>1, <2>2 DEF IInv, TypeOK, Row, Shadow
  <2> QED BY <2>3, <2>4
<1>2. [][Newer]_vars => AlarmsAreNewer
  BY PTL DEF AlarmsAreNewer
<1> QED BY <1>1, <1>2, ShadowIInv, SnapshotShadowedHolds, PTL DEF Spec
=============================================================================
