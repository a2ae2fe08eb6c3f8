--------------------------- MODULE MCAiScheduler ---------------------------
(* Values for the constants of AiScheduler.                                *)
EXTENDS AiScheduler

CONSTANTS evidence, g1, lane, cliLane

MCTokens == 1..MaxRuns
OneLane == [t \in Types |-> lane]
TwoLanes == [t \in Types |-> IF t = "ai_analysis" THEN lane ELSE cliLane]

AnalystOnly == [j \in Jobs |-> IF j[2] = "ai_analysis" THEN 1 ELSE 0]
MoreEach == [j \in Jobs |-> IF j[2] = "ai_analysis" THEN 2 ELSE 1]
=============================================================================
