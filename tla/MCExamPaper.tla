---------------------------- MODULE MCExamPaper ----------------------------
EXTENDS ExamPaper, TLC
Symmetry == Permutations(Reqs) \cup Permutations(Workers) \cup Permutations(Questions)
=============================================================================
