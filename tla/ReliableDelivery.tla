-------------------------- MODULE ReliableDelivery --------------------------
(***************************************************************************)
(* What the relay and the alert store promise together, without tables,    *)
(* runs, batches or requests: an item that was accepted is owed until its  *)
(* fate is known to the sender.  It may be delivered again and again; the  *)
(* receiver keeps one copy and reports it once, or withholds it.  Nothing  *)
(* is delivered that was not accepted, and only an item the receiver can   *)
(* never take is refused.                                                  *)
(***************************************************************************)
EXTENDS Naturals

CONSTANTS Items, Refusable, Ignored, Withholdable

VARIABLES accepted, backlog, fate, reports, known

promise == <<accepted, backlog, fate, reports, known>>

Init ==
    /\ accepted = {} /\ backlog = {} /\ known = {}
    /\ fate = [a \in Items |-> "open"]
    /\ reports = [a \in Items |-> 0]

Decided(a) == fate[a] # "open" \/ a \in Ignored

(* New items, or items the sender is no longer sure of. *)
Accept(as) ==
    /\ accepted' = accepted \cup as
    /\ backlog' = backlog \cup as
    /\ UNCHANGED <<fate, reports, known>>

(* The first delivery decides between a report and silence. *)
Deliver(a, withheld) ==
    /\ a \in accepted \ (Refusable \cup Ignored) /\ fate[a] = "open"
    /\ withheld => a \in Withholdable
    /\ fate' = [fate EXCEPT ![a] = IF withheld THEN "suppressed" ELSE "accepted"]
    /\ reports' = IF withheld THEN reports ELSE [reports EXCEPT ![a] = @ + 1]
    /\ UNCHANGED <<accepted, backlog, known>>

Redeliver(a) ==
    /\ fate[a] \in {"accepted", "suppressed"}
    /\ fate' = [fate EXCEPT ![a] = "duplicate"]
    /\ UNCHANGED <<accepted, backlog, reports, known>>

(* The end of an item that can never be delivered. *)
Refuse(a) ==
    /\ a \in backlog \cap Refusable
    /\ fate' = [fate EXCEPT ![a] = "refused"]
    /\ backlog' = backlog \ {a}
    /\ UNCHANGED <<accepted, reports, known>>

(* The sender learns what became of an item, and only then lets it go. *)
Learn(a) ==
    /\ a \in accepted /\ Decided(a)
    /\ known' = known \cup {a}
    /\ UNCHANGED <<accepted, backlog, fate, reports>>

Release(a) ==
    /\ a \in backlog \cap known
    /\ backlog' = backlog \ {a}
    /\ UNCHANGED <<accepted, fate, reports, known>>

Next ==
    \/ \E as \in SUBSET Items : Accept(as)
    \/ \E a \in Items :
          \/ Redeliver(a) \/ Refuse(a) \/ Learn(a) \/ Release(a)
          \/ \E withheld \in BOOLEAN : Deliver(a, withheld)

Spec == Init /\ [][Next]_promise
=============================================================================
