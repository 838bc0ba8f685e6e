------------------------------ MODULE Gatekeepers -----------------------------
(***************************************************************************)
(* The human gates of all modules and the people who pass a record through *)
(* them: which records can leave the system with one person's hand only.   *)
(***************************************************************************)
EXTENDS CurriculumDuties, StudentWorkDuties, ExamDuties

Kinds == {"program", "syllabus", "kit", "lab", "research", "board_paper",
          "internal_paper", "marks", "script", "component", "results"}

DutiesTypeOK ==
    /\ office \in [People -> Offices]
    /\ kind \in Kinds
    /\ stage \in STRING
    /\ owner \in People \cup {NoOne}
    /\ given \in SUBSET People
    /\ hands \in SUBSET People
    /\ moved \in SUBSET People

\* A tenant with whoever it has, and no record yet.
DutiesInit ==
    /\ office \in [People -> Offices]
    /\ kind \in Kinds
    /\ stage = "NONE" /\ owner = NoOne
    /\ given = {} /\ hands = {} /\ moved = {}

DutiesNext ==
    \/ CurriculumStep \/ StudentWorkStep \/ ExamStep
    \/ \E p, u \in People, o \in Offices : UpdateUser(p, u, o)

DutiesSpec == DutiesInit /\ [][DutiesNext]_duties

----------------------------------------------------------------------------
\* The stages behind the last gate of a kind.
Through ==
    [program |-> {"APPROVED"},
     syllabus |-> {"DEAN_APPROVED", "DEAN_LOCKED"},
     kit |-> {"PUBLISHED", "ARCHIVED"},
     lab |-> {"RATIFIED"},
     research |-> {"ACCEPTED", "DOC_APPROVED", "GUIDE_RATIFIED"},
     board_paper |-> {"SEALED", "RELEASED"},
     internal_paper |-> {"SEALED", "RELEASED"},
     marks |-> {"DEAN_LOCKED"},
     script |-> {"BOARD_FINALISED"},
     component |-> {"LOCKED"},
     results |-> {"LOCKED"}]

\* The roles of which one person can bring a record of a kind through its gates.
Alone ==
    [k \in Kinds |->
        CASE k = "program" -> {"DEAN"}
          [] k = "kit" -> {"ADMIN", "FACULTY"}
          [] k \in {"board_paper", "internal_paper", "marks", "script"} -> {"ADMIN"}
          [] OTHER -> {}]

\* A record behind its last gate went through the hands of two people, unless
\* the one has a role that may do both, or had another role on the way.  The roles
\* are those that the endpoints ask for.  Under the documented ones it would not
\* hold: there the faculty who makes an INTERNAL paper also seals it.
TwoPeople ==
    stage \in Through[kind] =>
        \/ \E p, q \in hands : p # q
        \/ \E p \in hands : p \in moved \/ office[p] \in Alone[kind] \cup {Platform}
=============================================================================
