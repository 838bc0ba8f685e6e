----------------------------- MODULE ScoreAnswers -----------------------------
(***************************************************************************)
(* What becomes of a provider's answer that scores or examines: the rubric *)
(* of a lab (M06), a question of a scanned script (M09), the answers of a  *)
(* viva, a document's clarity and problems (M07), exam questions (M08).    *)
(* Marks are whole numbers; NaN clamps to the maximum, like what exceeds   *)
(* it.  Texts, justifications, keywords and confidences are left out.      *)
(***************************************************************************)
EXTENDS Backend, Integers, SequencesExt

CONSTANTS
    MaxMark,     \* bound: marks of a criterion or question
    MaxScored    \* bound: items of an answer, one more than it is asked for

ASSUME ScoreBounds == MaxMark \in Nat \ {0} /\ MaxScored \in Nat \ {0}

Within(n, low, high) == Max({low, Min({high, n})})

----------------------------------------------------------------------------
(* M06: two criteria, their ids and names; "none" is an item without an id. *)

Criteria == <<"c1", "c2">>
Criterion == Range(Criteria)
NameOf == [c1 |-> "name1", c2 |-> "name2"]

\* A score that is no number is None.
RawRubric == BoundedSeq([id : {"c1", "c2", "name1", "name2", "none", "other"},
                         score : {None, 1, MaxMark + 1}], MaxScored)

AcceptsRubric(items) == \A i \in DOMAIN items : items[i].score # None

\* _resolve_to_canonical_id: a missing id is part of every name.
Resolved(id, matched) ==
    LET named == SelectSeq(Criteria, LAMBDA c : c \notin matched /\ id \in {NameOf[c], "none"}) IN
    IF id \in Criterion \ matched THEN id ELSE IF named # <<>> THEN Head(named) ELSE None

ScoredIds(marks) == {c \in Criterion : marks[c] # None}

MatchItem(acc, item) ==
    LET c == Resolved(item.id, ScoredIds(acc.marks)) IN
    IF c = None THEN [acc EXCEPT !.deferred = Append(@, item.score)]
    ELSE [acc EXCEPT !.marks[c] = Within(item.score, 0, MaxMark)]

\* Items that match nothing go to the criteria that are left, in their order, and
\* a criterion no item is for gets no marks.
RubricMarks(items) ==
    LET matched == FoldLeft(MatchItem, [marks |-> [c \in Criterion |-> None], deferred |-> <<>>], items)
        left == SelectSeq(Criteria, LAMBDA c : matched.marks[c] = None) IN
    [c \in Criterion |->
        IF matched.marks[c] # None THEN matched.marks[c]
        ELSE LET i == CHOOSE n \in DOMAIN left : left[n] = c IN
             IF i \in DOMAIN matched.deferred THEN Within(matched.deferred[i], 0, MaxMark) ELSE 0]

\* Marks further than a quarter of the maximum from its half count against it.
Confidence(marks) ==
    LET extreme == {c \in Criterion : 2 * Max({2 * marks[c] - MaxMark, MaxMark - 2 * marks[c]}) > MaxMark} IN
    CASE extreme = {} -> "HIGH"
      [] Cardinality(extreme) \in 1..(Len(Criteria) \div 3) -> "MEDIUM"
      [] OTHER -> "LOW"

RubricValue(items) == [marks |-> RubricMarks(items), confidence |-> Confidence(RubricMarks(items))]

Unscored == [marks |-> [c \in Criterion |-> 0], confidence |-> "LOW"]

----------------------------------------------------------------------------
(* M09: one question of a script.                                          *)

RawScript == [shape : {"plain", "wrapped", "without"}, marks : {None, -1, 1, MaxMark + 1}]

\* Groq's answers are unwrapped; an answer without marks has none.
MarksRead(provider, raw) ==
    IF raw.shape = "plain" \/ (raw.shape = "wrapped" /\ provider = "groq") THEN raw.marks ELSE 0

AcceptsScript(provider, raw) == MarksRead(provider, raw) # None

ScriptMarks(provider, raw) == Within(MarksRead(provider, raw), 0, MaxMark)

\* An MCQ is marked without a provider: the option read from the text, if one is.
DetectedOptions == {None, "A", "B"}

McqMarks(detected, correct) ==
    IF None \in {detected, correct} THEN None ELSE IF detected = correct THEN MaxMark ELSE 0

----------------------------------------------------------------------------
(* M07: two answers of a viva on a scale to 10, with 5 for what is missing. *)

Pairs == 2
Middling == [i \in 1..Pairs |-> 5]

RawViva == [parses : BOOLEAN,
            items : BoundedSeq([about : 1..Pairs, score : {None, 7, 11}, object : {TRUE}]
                        \cup [about : {1}, score : {None}, object : {FALSE}], MaxScored)]

AcceptsViva(raw) == raw.parses => \A i \in DOMAIN raw.items : i <= Pairs => raw.items[i].object

\* The n-th item is for the n-th answer, whatever question it names.
VivaMarks(raw) ==
    IF ~raw.parses THEN Middling
    ELSE [i \in 1..Pairs |->
             IF i \in DOMAIN raw.items /\ raw.items[i].score # None
             THEN Within(raw.items[i].score, 0, 10) ELSE 5]

\* The questions of a viva: text that holds no array is one question.
Wanted == 2
RawExamination == [shape : {"array", "text", "torn"}, items : 0..MaxScored]
AcceptsExamination(raw) == raw.shape # "torn"
ExaminationValue(raw) == IF raw.shape = "text" THEN 1 ELSE Min({raw.items, Wanted})

\* Problems: as many as asked for, or fewer.
RawProblems == [parses : BOOLEAN, items : BoundedSeq({"problem", "broken"}, MaxScored)]
AcceptsProblems(raw) ==
    raw.parses /\ \A i \in DOMAIN raw.items : i <= Wanted => raw.items[i] = "problem"
ProblemsValue(raw) == Min({Len(raw.items), Wanted})

\* Clarity, on a scale of halves to 2, with a half for what is missing.
RawClarity == {None, -1, 2, 5}
ClarityValue(raw) == IF raw = None THEN 1 ELSE Within(raw, 0, 2)

----------------------------------------------------------------------------
(* M08: exam questions, and the paper that is made up when there are none. *)

QuestionKinds == {"MCQ", "SHORT_ANSWER", "LONG_ANSWER", "PROBLEM_SOLVING"}
DefaultMarks == [k \in QuestionKinds |-> CASE k = "MCQ" -> 2 [] k = "SHORT_ANSWER" -> 5
                                           [] k = "LONG_ANSWER" -> 10 [] OTHER -> 8]

RawQuestions == [parses : BOOLEAN,
                 items : BoundedSeq([kind : {None, "MCQ"}, marks : {None, 3}, object : {TRUE}]
                             \cup [kind : {None}, marks : {None}, object : {FALSE}], MaxScored)]

AcceptsQuestions(raw) == raw.parses /\ \A i \in DOMAIN raw.items : raw.items[i].object

QuestionsValue(raw) ==
    [i \in DOMAIN raw.items |->
        LET kind == IF raw.items[i].kind = None THEN "SHORT_ANSWER" ELSE raw.items[i].kind IN
        [kind |-> kind, sets |-> {"A", "B"}, section |-> None,
         marks |-> IF raw.items[i].marks = None THEN DefaultMarks[kind] ELSE raw.items[i].marks]]

Sections == BoundedSeq([total : 1..3, marks : {2, 5}, mcq : BOOLEAN], 2)
KindCounts == [QuestionKinds -> 0..1]

NonMcq == <<"SHORT_ANSWER", "LONG_ANSWER", "PROBLEM_SOLVING">>

\* Both sets, both sets, A, B, and again.
SetsOf(i) == CASE i % 4 = 3 -> {"A"} [] i % 4 = 0 -> {"B"} [] OTHER -> {"A", "B"}

SectionPlaces(sections) ==
    FlattenSeq([s \in DOMAIN sections |->
        [i \in 1..sections[s].total |->
            [kind |-> IF sections[s].mcq THEN "MCQ" ELSE "mixed", section |-> s, marks |-> sections[s].marks]]])

KindPlaces(counts) ==
    LET wanted == SelectSeq(<<"MCQ">> \o NonMcq, LAMBDA k : counts[k] > 0) IN
    [i \in DOMAIN wanted |-> [kind |-> wanted[i], section |-> None, marks |-> DefaultMarks[wanted[i]]]]

\* Mixed places take the kinds in turn, over all sections.
MockQuestions(places) ==
    [i \in DOMAIN places |->
        [kind |-> IF places[i].kind # "mixed" THEN places[i].kind
                  ELSE NonMcq[1 + (Cardinality({j \in 1..(i - 1) : places[j].kind = "mixed"}) % 3)],
         sets |-> SetsOf(i), section |-> places[i].section, marks |-> places[i].marks]]

MockPapers ==
    {[sections |-> s, counts |-> [k \in QuestionKinds |-> 0], questions |-> MockQuestions(SectionPlaces(s))] :
        s \in Sections \ {<<>>}}
    \cup {[sections |-> <<>>, counts |-> c, questions |-> MockQuestions(KindPlaces(c))] : c \in KindCounts}

----------------------------------------------------------------------------
\* Every criterion has marks it can have.  An answer that names each criterion
\* once, by id or by name, gives each its own, unless an item without an id was
\* read before; one that names none of them gives them their marks in order.
RubricAnswerFits(items, marks) ==
    /\ \A c \in Criterion : marks[c] \in 0..MaxMark
    /\ \A c \in Criterion, i \in DOMAIN items :
          /\ items[i].id \in {c, NameOf[c]}
          /\ \A j \in DOMAIN items \ {i} : items[j].id \notin {c, NameOf[c], "none"}
          => marks[c] = Within(items[i].score, 0, MaxMark)
    /\ \A id \in {"other", "none"} :
          (\A i \in DOMAIN items : items[i].id = id) =>
              \A n \in DOMAIN items \cap DOMAIN Criteria :
                  marks[Criteria[n]] = Within(items[n].score, 0, MaxMark)

\* Two made-up sets differ by at most one question, each section has its number
\* of questions and marks, one for MCQs has nothing else.
MockPaperFits(paper) ==
    LET Held(set) == {i \in DOMAIN paper.questions : set \in paper.questions[i].sets} IN
    /\ Cardinality(Held("A")) - Cardinality(Held("B")) \in {0, 1}
    /\ \A s \in DOMAIN paper.sections :
          LET its == {i \in DOMAIN paper.questions : paper.questions[i].section = s} IN
          /\ Cardinality(its) = paper.sections[s].total
          /\ \A i \in its : /\ paper.questions[i].marks = paper.sections[s].marks
                            /\ paper.questions[i].kind = "MCQ" <=> paper.sections[s].mcq
=============================================================================
