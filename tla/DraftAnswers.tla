------------------------------ MODULE DraftAnswers ------------------------------
(***************************************************************************)
(* What becomes of a provider's answer to a course kit (M03), a syllabus   *)
(* (M02) and a program structure (M01).  Groq's answers are completed      *)
(* first, Gemini's have to match the schema as they are; then a kit is     *)
(* salvaged (duplicates dropped, the rest renumbered, a key for every MCQ) *)
(* and validated, a syllabus is validated, a program is not.  A text is    *)
(* absent, shorter than the schema's ten characters, or long enough;       *)
(* lessons, resources, bloom levels and outcome references are left out.   *)
(***************************************************************************)
EXTENDS Backend, SequencesExt

CONSTANTS
    MaxSlides,   \* bound: slides of an answer
    MaxItems,    \* bound: quizlets and assignments of an answer
    MinParts     \* bound: the four outcomes and four units a syllabus needs

ASSUME AnswerBounds == MaxSlides \in Nat /\ MaxItems \in Nat /\ MinParts \in Nat \ {0}

----------------------------------------------------------------------------
(* A kit.                                                                  *)

Numbers == {None, 1, 2}
Text == {"none", "short", "long"}

\* A slide's bullets are in its content, beside it, or the slide is no object.
RawSlide == [number : Numbers, bullets : {"inside", "beside"}, type : {None, "CODE"}]
                \cup [number : {None}, bullets : {"junk"}, type : {None}]

RawQuizlet == {q \in [number : Numbers, text : Text, type : {"MCQ", "SHORT_ANSWER"},
                      options : {0, 2}, key : {"none", "given"}] :
                   q.key = "given" \/ q.type = "SHORT_ANSWER" => q.options = 2}

RawAssignment == [number : Numbers, title : Text, question : Text]

GoodSlide == [number |-> 1, bullets |-> "inside", type |-> None]

\* One part of the answer at a time is varied.
RawKit ==
    [slides : BoundedSeq(RawSlide, MaxSlides), quizlets : {<<>>}, assignments : {<<>>}, weeks : {0, 1}]
        \cup [slides : {<<GoodSlide>>}, quizlets : BoundedSeq(RawQuizlet, MaxItems),
              assignments : {<<>>}, weeks : {1}]
        \cup [slides : {<<GoodSlide>>}, quizlets : {<<>>},
              assignments : BoundedSeq(RawAssignment, MaxItems), weeks : {1}]

----------------------------------------------------------------------------
(* Groq: _normalize_groq_kit_response.                                     *)

\* An item without a number takes its place in the provider's list, whatever
\* number another one names.
Placed(items) == [i \in DOMAIN items |-> [items[i] EXCEPT !.number = IF @ = None THEN i ELSE @]]

GroqSlides(slides) ==
    LET objects == SelectSeq(Placed(slides), LAMBDA s : s.bullets # "junk") IN
    [i \in DOMAIN objects |-> [objects[i] EXCEPT !.bullets = "inside"]]

DefaultKey(q) == IF q.options = 0 THEN "A" ELSE "first option"

Keyed(q) == IF q.type = "MCQ" /\ q.key = "none" THEN [q EXCEPT !.key = DefaultKey(q)] ELSE q

GroqQuizlets(quizlets) ==
    LET asked == SelectSeq(Placed(quizlets), LAMBDA q : q.text # "none") IN
    [i \in DOMAIN asked |-> Keyed(asked[i])]

GroqAssignments(assignments) ==
    LET stated == SelectSeq(Placed(assignments), LAMBDA a : {a.title, a.question} # {"none"}) IN
    [i \in DOMAIN stated |->
        [stated[i] EXCEPT !.title = IF @ = "none" THEN stated[i].question ELSE @,
                          !.question = IF @ = "none" THEN stated[i].title ELSE @]]

\* A plan of about four weeks is made of the slides when the answer has none.
PlannedWeeks(slides, weeks) ==
    LET chunk == Max({1, Len(slides) \div 4}) IN
    IF weeks = 0 THEN (Len(slides) + chunk - 1) \div chunk ELSE weeks

GroqKit(k) ==
    LET slides == GroqSlides(k.slides) IN
    [slides |-> slides, quizlets |-> GroqQuizlets(k.quizlets),
     assignments |-> GroqAssignments(k.assignments), weeks |-> PlannedWeeks(slides, k.weeks)]

----------------------------------------------------------------------------
(* Both providers: the schema, the salvage, the rules.                     *)

SlideFits(s) == s.number # None /\ s.bullets # "junk"
QuizletFits(q) == q.number # None /\ q.text = "long"
AssignmentFits(a) == a.number # None /\ a.title # "none" /\ a.question = "long"

KitFits(k) ==
    /\ \A i \in DOMAIN k.slides : SlideFits(k.slides[i])
    /\ \A i \in DOMAIN k.quizlets : QuizletFits(k.quizlets[i])
    /\ \A i \in DOMAIN k.assignments : AssignmentFits(k.assignments[i])

\* A plausible bug: duplicates are dropped, the rest keeps its numbers.
RenumberedMutant(items) ==
    LET kept == SetToSortSeq({i \in DOMAIN items :
                    \A j \in 1..(i - 1) : items[j].number # items[i].number}, <) IN
    [n \in DOMAIN kept |-> items[kept[n]]]

\* The first item of every number is kept, and the kept ones are numbered anew.
Renumbered(items) ==
    LET kept == SetToSortSeq({i \in DOMAIN items :
                    \A j \in 1..(i - 1) : items[j].number # items[i].number}, <) IN
    [n \in DOMAIN kept |-> [items[kept[n]] EXCEPT !.number = n]]

Salvaged(k) ==
    LET quizlets == Renumbered(k.quizlets) IN
    [k EXCEPT !.slides = Renumbered(@), !.assignments = Renumbered(@),
              !.quizlets = [i \in DOMAIN quizlets |-> Keyed(quizlets[i])]]

\* Too few slides or quizlets, a repeated number, an MCQ without two options or a
\* key; the scan for answers in the slides adds one more that is soft.
KitViolations(k) ==
    {<<"minimum", part>> : part \in {p \in {"slides", "quizlets"} : k[p] = <<>>}}
        \cup {<<"duplicate", part>> : part \in {p \in {"slides", "quizlets", "assignments"} :
                 \E i, j \in DOMAIN k[p] : i # j /\ k[p][i].number = k[p][j].number}}
        \cup {<<"options", i>> : i \in {j \in DOMAIN k.quizlets :
                 k.quizlets[j].type = "MCQ" /\ k.quizlets[j].options < 2}}
        \cup {<<"key", i>> : i \in {j \in DOMAIN k.quizlets :
                 k.quizlets[j].type = "MCQ" /\ k.quizlets[j].key = "none"}}

SoftViolation(v) == v[1] \in {"minimum", "duplicate", "options", "key", "leak"}

\* The type of a slide that names none: the first is the title.
Typed(slides) ==
    [i \in DOMAIN slides |->
        [slides[i] EXCEPT !.type = IF @ # None THEN @ ELSE IF i = 1 THEN "TITLE" ELSE "CONCEPT"]]

ReadKit(provider, raw) == Salvaged(IF provider = "groq" THEN GroqKit(raw) ELSE raw)

AcceptsKit(provider, raw) ==
    /\ KitFits(IF provider = "groq" THEN GroqKit(raw) ELSE raw)
    /\ ReadKit(provider, raw).slides # <<>>
    /\ \A v \in KitViolations(ReadKit(provider, raw)) : SoftViolation(v)

KitValue(provider, raw) == [ReadKit(provider, raw) EXCEPT !.slides = Typed(@)]

----------------------------------------------------------------------------
Consecutive(items) == \A i \in DOMAIN items : items[i].number = i

\* The numbers an answer names are distinct, or it names none.
CleanlyNumbered(items) ==
    \/ \A i \in DOMAIN items : items[i].number = None
    \/ /\ \A i \in DOMAIN items : items[i].number # None
       /\ \A i, j \in DOMAIN items : i # j => items[i].number # items[j].number

\* An accepted kit has a slide, numbers each part from 1 on (the tables allow no
\* number twice in a kit), has a key for every MCQ and, from Groq, a teaching
\* plan; no usable item of a part is lost unless its numbers clash.
KitAnswerFits(provider, raw, value) ==
    /\ value.slides # <<>>
    /\ Consecutive(value.slides) /\ Consecutive(value.quizlets) /\ Consecutive(value.assignments)
    /\ \A i \in DOMAIN value.quizlets : value.quizlets[i].type = "MCQ" => value.quizlets[i].key # "none"
    /\ provider = "groq" => value.weeks > 0
    /\ CleanlyNumbered(raw.slides) =>
           Len(value.slides) = Cardinality({i \in DOMAIN raw.slides : raw.slides[i].bullets # "junk"})
    /\ CleanlyNumbered(raw.quizlets) =>
           Len(value.quizlets) = Cardinality({i \in DOMAIN raw.quizlets : raw.quizlets[i].text # "none"})
    /\ CleanlyNumbered(raw.assignments) =>
           Len(value.assignments) = Cardinality({i \in DOMAIN raw.assignments :
                {raw.assignments[i].title, raw.assignments[i].question} # {"none"}})

----------------------------------------------------------------------------
(* A syllabus: the codes of its outcomes (CO1, CO2, ...) and the numbers of *)
(* its units, where the answer names them.                                  *)

SyllabusDefects == {"none", "description", "hours", "query", "bloom", "title", "metadata"}

NamedParts(low) == UNION {[1..n -> {None, 1, 2}] : n \in low..MinParts}

AllUnnamed == [i \in 1..MinParts |-> None]

RawSyllabus ==
    [codes : NamedParts(MinParts - 1), units : {AllUnnamed}, defect : {"none"}]
        \cup [codes : {AllUnnamed}, units : NamedParts(MinParts - 1), defect : SyllabusDefects]

\* CO<i>, and the place of a unit (or its display_order, which names it).
InPlace(parts) == [i \in DOMAIN parts |-> IF parts[i] = None THEN i ELSE parts[i]]

\* Groq: a description and hours are made up, a query without text is dropped.
GroqSyllabus(s) ==
    [s EXCEPT !.codes = InPlace(@), !.units = InPlace(@),
              !.defect = IF @ \in {"description", "hours", "query"} THEN "none" ELSE @]

NoneMissing(parts) == \A i \in DOMAIN parts : parts[i] # None

SyllabusFits(s) ==
    NoneMissing(s.codes) /\ NoneMissing(s.units) /\ s.defect \in {"none", "metadata"}

AllDistinct(parts) == \A i, j \in DOMAIN parts : i # j => parts[i] # parts[j]

\* _validate_result: nothing asks whether the codes are distinct.
ValidSyllabus(s) ==
    /\ Len(s.codes) >= MinParts /\ Len(s.units) >= MinParts
    /\ s.defect # "metadata"
    /\ AllDistinct(s.units)

SyllabusValue(provider, raw) == IF provider = "groq" THEN GroqSyllabus(raw) ELSE raw

AcceptsSyllabus(provider, raw) ==
    LET s == SyllabusValue(provider, raw) IN SyllabusFits(s) /\ ValidSyllabus(s)

----------------------------------------------------------------------------
(* A program: its number of outcomes, and one of its courses.  "digit" is   *)
(* the first digit of the course's code.                                    *)

ProgramDefects == {"none", "description", "hours", "prerequisites", "title"}

RawProgram == [outcomes : {0, 1}, credits : {None, 0, 1, 6, 7}, semester : {None, 2},
               digit : {0, 3}, defect : ProgramDefects]

InferredSemester(digit) == IF digit > 0 THEN digit ELSE 1

WithinCredits(n) == Max({1, Min({6, n})})

SynthesisedOutcomes == 4

GroqProgram(p) ==
    [p EXCEPT !.outcomes = IF @ = 0 THEN SynthesisedOutcomes ELSE @,
              !.credits = IF @ = None THEN None ELSE WithinCredits(@),
              !.semester = IF @ = None THEN InferredSemester(p.digit) ELSE @,
              !.defect = IF @ = "title" THEN @ ELSE "none"]

ProgramValue(provider, raw) == IF provider = "groq" THEN GroqProgram(raw) ELSE raw

AcceptsProgram(provider, raw) ==
    LET p == ProgramValue(provider, raw) IN
    p.credits # None /\ p.semester # None /\ p.defect = "none"

----------------------------------------------------------------------------
\* An accepted syllabus has the outcomes and units it needs, units of distinct
\* numbers, and outcomes of distinct codes (which its table asks for) unless the
\* answer repeats a code or names some outcomes and leaves others to their place.
SyllabusAnswerFits(provider, raw, value) ==
    /\ Len(value.codes) >= MinParts /\ Len(value.units) >= MinParts
    /\ NoneMissing(value.codes) /\ NoneMissing(value.units)
    /\ AllDistinct(value.units)
    /\ \/ AllDistinct(value.codes)
       \/ ~AllDistinct(raw.codes) /\ ~(\A i \in DOMAIN raw.codes : raw.codes[i] = None)
       \/ ~NoneMissing(raw.codes)  /\ \E i \in DOMAIN raw.codes : raw.codes[i] # None

\* A program of Groq has outcomes, credits of 1 to 6 and a semester for every
\* course; one of Gemini has whatever credits and outcomes the answer gives.
ProgramAnswerFits(provider, value) ==
    /\ value.semester \in Nat \ {0}
    /\ provider = "groq" => value.outcomes > 0 /\ value.credits \in 1..6
=============================================================================
