-------------------------- MODULE MCPostgresShadow --------------------------
(* Values for the constants of PostgresShadow: a job from before the        *)
(* shadow, and one that is inserted later or never.                         *)
EXTENDS PostgresShadow, TLC

CONSTANTS j1, j2, c1, c2

MCJobs == {j1, j2}
MCContents == {c1, c2}
MCOlder == (j1 :> c1) @@ (j2 :> NoContent)
=============================================================================
