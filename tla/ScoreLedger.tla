---------------------------- MODULE ScoreLedger ----------------------------
(***************************************************************************)
(* What M09 promises of one script's row in exam_score_ledger: it is       *)
(* written once, in one step with the final marks, for a script whose      *)
(* every question has been marked, and its total is their sum.  Nothing    *)
(* changes it afterwards.                                                  *)
(***************************************************************************)
EXTENDS Naturals, FiniteSets, FiniteSetsExt

CONSTANTS
    Questions,  \* questions a paper can have
    MaxMark,    \* bound: the marks of a question
    NoMark      \* NULL

VARIABLES
    final,   \* final_marks of the script's questions
    total    \* total_marks of the ledger row, NoMark when there is none

Marks == [Questions -> 0..MaxMark \cup {NoMark}]

Nothing == [q \in Questions |-> NoMark]

\* The sum of a set of rows' marks, NULL counting 0.
SumOf(m) == MapThenSumSet(LAMBDA q : IF m[q] = NoMark THEN 0 ELSE m[q], Questions)

Init == final = Nothing /\ total = NoMark

Record ==
    /\ total = NoMark
    /\ final' \in Marks \ {Nothing}
    /\ total' = SumOf(final')

Spec == Init /\ [][Record]_<<final, total>>
=============================================================================
