----------------------- MODULE MCAnalysisPublication -----------------------
(* Values for the constants of AnalysisPublication: the first analysis     *)
(* observes a shared lesson and its reviewer a hint for their role; the    *)
(* second analysis observes the lesson again.                              *)
EXTENDS AnalysisPublication

CONSTANTS a1, a2, lesson, hint

MCObserved ==
    [a \in Analyses |->
        IF a = a1 THEN [primary |-> {lesson}, reviewer |-> {hint}]
        ELSE [primary |-> {lesson}, reviewer |-> {}]]
=============================================================================
