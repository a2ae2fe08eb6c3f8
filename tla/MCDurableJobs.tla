--------------------------- MODULE MCDurableJobs ---------------------------
(* Values for the constants of DurableJobs.  An automatic request has low  *)
(* authority and few attempts, an operator's request has more of both; the *)
(* drained job type has one attempt limit.                                 *)
EXTENDS DurableJobs, TLC

CONSTANTS automatic, manual

MCPayloads == {automatic, manual}

Automatic == [priority |-> 1, maxAttempts |-> 1, payload |-> automatic]
Manual    == [priority |-> 2, maxAttempts |-> 2, payload |-> manual]
Drained   == [priority |-> 1, maxAttempts |-> 2, payload |-> automatic]

MCRequests ==
    [k \in Keys |-> IF k \in ExternalKeys THEN {Automatic, Manual} ELSE {Drained}]

MCFollowUps == [k \in ExternalKeys |-> {Automatic}]

TokenSymmetry == Permutations(Tokens)
=============================================================================
