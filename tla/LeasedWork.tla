----------------------------- MODULE LeasedWork -----------------------------
(***************************************************************************)
(* What the durable queue promises its users, without rows, attempts,      *)
(* timers or processes: work for a key is waiting, leased to one holder,   *)
(* done or dead.  Work asked for while a holder is busy is a debt behind   *)
(* the lease; a holder that finishes with a debt puts the work back in the *)
(* queue, so done means that nothing is left to do.                        *)
(***************************************************************************)
CONSTANTS Items, Holders, Nobody

VARIABLES phase, holder, debt

work == <<phase, holder, debt>>

Phases == {"idle", "waiting", "leased", "done", "dead"}

Init ==
    /\ phase \in [Items -> {"idle", "leased"}]
    /\ holder = [k \in Items |-> Nobody]
    /\ debt = {}

Ask(k) ==
    /\ IF phase[k] = "leased"
       THEN debt' = debt \cup {k} /\ UNCHANGED phase
       ELSE phase' = [phase EXCEPT ![k] = "waiting"] /\ UNCHANGED debt
    /\ UNCHANGED holder

(* A lease goes to somebody who holds nothing, for work that is waiting.   *)
Grant(k, h) ==
    /\ phase[k] = "waiting"
    /\ \A j \in Items : holder[j] # h
    /\ phase' = [phase EXCEPT ![k] = "leased"]
    /\ holder' = [holder EXCEPT ![k] = h]
    /\ UNCHANGED debt

(* The end of one lease. *)
EndLease(k, next) ==
    /\ phase[k] = "leased"
    /\ phase' = [phase EXCEPT ![k] = next]
    /\ holder' = [holder EXCEPT ![k] = Nobody]
    /\ debt' = debt \ {k}

Finish(k) == EndLease(k, IF k \in debt THEN "waiting" ELSE "done")

(* A holder finishes and asks for other work in the same transaction. *)
FinishAndAsk(k, j) ==
    /\ phase[k] = "leased"
    /\ j # k
    /\ phase' = [phase EXCEPT ![k] = IF k \in debt THEN "waiting" ELSE "done",
                             ![j] = IF @ = "leased" THEN @ ELSE "waiting"]
    /\ holder' = [holder EXCEPT ![k] = Nobody]
    /\ debt' = (debt \ {k}) \cup {i \in {j} : phase[i] = "leased"}

GiveUp(k) == EndLease(k, "waiting") \/ EndLease(k, "dead")

(* Leases that ran out are taken back together. *)
Expire(ks) ==
    /\ ks # {}
    /\ \A k \in ks : phase[k] = "leased"
    /\ \E next \in [ks -> {"waiting", "dead"}] :
          phase' = [k \in Items |-> IF k \in ks THEN next[k] ELSE phase[k]]
    /\ holder' = [k \in Items |-> IF k \in ks THEN Nobody ELSE holder[k]]
    /\ debt' = debt \ ks

(* Waiting work is declared done by somebody who has its result. *)
Close(ks) ==
    /\ ks # {}
    /\ \A k \in ks : phase[k] = "waiting"
    /\ phase' = [k \in Items |-> IF k \in ks THEN "done" ELSE phase[k]]
    /\ UNCHANGED <<holder, debt>>

Revive(k) ==
    /\ phase[k] = "dead"
    /\ phase' = [phase EXCEPT ![k] = "waiting"]
    /\ UNCHANGED <<holder, debt>>

Next ==
    \/ \E k \in Items : Ask(k) \/ Finish(k) \/ GiveUp(k) \/ Revive(k)
    \/ \E k, j \in Items : FinishAndAsk(k, j)
    \/ \E k \in Items, h \in Holders : Grant(k, h)
    \/ \E ks \in SUBSET Items : Expire(ks) \/ Close(ks)

Spec == Init /\ [][Next]_work
=============================================================================
