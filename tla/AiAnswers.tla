------------------------------ MODULE AiAnswers ------------------------------
(***************************************************************************)
(* One question put to the AI providers by a task or a request: which      *)
(* provider is asked, when a failure is passed on to the next one, what is *)
(* made of the answer, and what stands in for one.  The components take    *)
(* the outcome as given: the task's call succeeds or fails.  "chat" is a   *)
(* student's question about a package (M05).                               *)
(***************************************************************************)
EXTENDS DraftAnswers, ScoreAnswers

VARIABLE ask   \* "left" are the providers from the one being asked on

Features == {"program", "syllabus", "kit", "questions", "rubric", "script",
             "viva", "examination", "problems", "clarity", "chat"}

\* AI_PROVIDER
Settings == {"gemini", "groq", "fallback"}

ASSUME AskNames == None \notin {"gemini", "groq", "answered", "unasked", "stood in"}

\* The providers in the order they are asked; rubrics, scripts and the chat do not
\* read the setting, and the chat asks Gemini twice.
ProgramChain == <<"groq", "gemini">>
ChatChain == <<"gemini", "gemini", "groq">>

Chain(f, setting) ==
    IF f = "chat" THEN ChatChain
    ELSE IF f \notin {"rubric", "script"} /\ setting # "fallback" THEN <<setting>>
    ELSE IF f = "program" THEN ProgramChain
    ELSE <<"gemini", "groq">>

NoAsk == [feature |-> None, left |-> <<>>, failed |-> <<>>, outcome |-> None, by |-> None,
          raw |-> None, value |-> None]

AskInit == ask = NoAsk

AskTypeOK ==
    /\ ask.feature \in Features \cup {None}
    /\ Range(ask.left) \subseteq {"gemini", "groq"}
    /\ Range(ask.failed) \subseteq {"gemini", "groq"} \X {"quota", "fault", "empty", "refused"}
    /\ ask.outcome \in {None, "answered", "unasked", "stood in", "raised"}
    /\ (ask.outcome = "answered") <=> (ask.by # None)
    /\ ask.outcome = None => ask.value = None

----------------------------------------------------------------------------
(* What is read from an answer.                                            *)

RawChat == {"text"}

RawAnswers(f) ==
    CASE f = "program" -> RawProgram       [] f = "syllabus" -> RawSyllabus
      [] f = "kit" -> RawKit               [] f = "questions" -> RawQuestions
      [] f = "rubric" -> RawRubric         [] f = "script" -> RawScript
      [] f = "viva" -> RawViva             [] f = "examination" -> RawExamination
      [] f = "problems" -> RawProblems     [] f = "clarity" -> RawClarity
      [] f = "chat" -> RawChat

Accepts(f, p, raw) ==
    CASE f = "program" -> AcceptsProgram(p, raw)  [] f = "syllabus" -> AcceptsSyllabus(p, raw)
      [] f = "kit" -> AcceptsKit(p, raw)          [] f = "questions" -> AcceptsQuestions(raw)
      [] f = "rubric" -> AcceptsRubric(raw)       [] f = "script" -> AcceptsScript(p, raw)
      [] f = "viva" -> AcceptsViva(raw)           [] f = "examination" -> AcceptsExamination(raw)
      [] f = "problems" -> AcceptsProblems(raw)   [] f \in {"clarity", "chat"} -> TRUE

Value(f, p, raw) ==
    CASE f = "program" -> ProgramValue(p, raw)    [] f = "syllabus" -> SyllabusValue(p, raw)
      [] f = "kit" -> KitValue(p, raw)            [] f = "questions" -> QuestionsValue(raw)
      [] f = "rubric" -> RubricValue(raw)         [] f = "script" -> ScriptMarks(p, raw)
      [] f = "viva" -> VivaMarks(raw)             [] f = "examination" -> ExaminationValue(raw)
      [] f = "problems" -> ProblemsValue(raw)     [] f = "clarity" -> ClarityValue(raw)
      [] f = "chat" -> raw

\* What stands in for an answer after the last failure.
StandIns(f) ==
    CASE f = "questions" -> MockPapers
      [] f = "rubric" -> {Unscored}
      [] f = "script" -> {None}
      [] f = "clarity" -> {1}
      [] OTHER -> {}

----------------------------------------------------------------------------
(* Failures.                                                               *)

PassesOnAny == {"questions", "rubric", "script", "viva", "examination", "problems", "clarity"}

\* Whether the text of a failure reads like an exhausted quota: Gemini's empty
\* answer mentions the quota, a refused answer is quoted in the text.
ReadsLikeQuota(f, p, kind) ==
    CASE kind = "quota" -> {TRUE}
      [] kind = "fault" -> {FALSE}
      [] kind = "empty" -> {p = "gemini" /\ f # "chat"}
      [] kind = "refused" -> BOOLEAN

\* The providers still to be asked after a failure: the others, or for a fault of
\* the chat's first attempt the same one again.
AfterFailure(f, left, kind, quota) ==
    LET repeats == f = "chat" /\ Len(left) = Len(ChatChain) IN
    IF f \in PassesOnAny \/ quota THEN (IF repeats THEN Tail(Tail(left)) ELSE Tail(left))
    ELSE IF repeats /\ kind = "fault" THEN Tail(left)
    ELSE <<>>

\* The last provider has failed.
GiveUp(f, failed) ==
    IF StandIns(f) = {}
    THEN ask' = [ask EXCEPT !.failed = failed, !.outcome = "raised"]
    ELSE \E v \in StandIns(f) :
            ask' = [ask EXCEPT !.failed = failed, !.outcome = "stood in", !.value = v]

Fails(kind) ==
    LET f == ask.feature
        p == Head(ask.left)
        failed == Append(ask.failed, <<p, kind>>) IN
    \E quota \in ReadsLikeQuota(f, p, kind) :
        LET rest == AfterFailure(f, ask.left, kind, quota) IN
        IF rest = <<>> THEN GiveUp(f, failed)
        ELSE ask' = [ask EXCEPT !.failed = failed, !.left = rest]

----------------------------------------------------------------------------
(* The actions.                                                            *)

Ask(f, setting) ==
    /\ ask = NoAsk
    /\ ask' = [NoAsk EXCEPT !.feature = f, !.left = Chain(f, setting)]

\* Nobody is asked: a submission without text, a script without text or an MCQ,
\* a viva without answers, exam questions without the providers' keys.
Unasked(f) ==
    CASE f = "rubric" -> {Unscored}
      [] f = "script" -> {None} \cup {McqMarks(d, c) : d \in DetectedOptions, c \in {None, "A"}}
      [] f = "viva" -> {<<>>}
      [] f = "questions" -> MockPapers
      [] OTHER -> {}

AnswerUnasked(f) ==
    /\ ask = NoAsk
    /\ \E v \in Unasked(f) : ask' = [NoAsk EXCEPT !.feature = f, !.outcome = "unasked", !.value = v]

Waiting == ask.left # <<>> /\ ask.outcome = None

\* The provider fails: its quota, any other error (a missing key among them), or
\* an empty answer.
ProviderFails == Waiting /\ \E kind \in {"quota", "fault", "empty"} : Fails(kind)

\* Exam questions, vivas and problems are read after the call, so that a refused
\* answer is not passed on.
ReadAfterwards == {"questions", "viva", "examination", "problems"}

ProviderAnswers ==
    /\ Waiting
    /\ LET f == ask.feature
           p == Head(ask.left) IN
       \E raw \in RawAnswers(f) :
          \/ /\ Accepts(f, p, raw)
             /\ ask' = [ask EXCEPT !.left = <<>>, !.failed = <<>>, !.outcome = "answered",
                                   !.by = p, !.raw = raw, !.value = Value(f, p, raw)]
          \/ /\ ~Accepts(f, p, raw)
             /\ IF f \in ReadAfterwards THEN GiveUp(f, Append(ask.failed, <<p, "refused">>))
                ELSE Fails("refused")

AskNext ==
    /\ \/ \E f \in Features, setting \in Settings : Ask(f, setting)
       \/ \E f \in Features : AnswerUnasked(f)
       \/ ProviderFails
       \/ ProviderAnswers
    /\ UNCHANGED backend

----------------------------------------------------------------------------
\* What an answer becomes.
AnswerFits ==
    LET f == ask.feature
        v == ask.value IN
    CASE f = "program" -> ProgramAnswerFits(ask.by, v)
      [] f = "syllabus" -> SyllabusAnswerFits(ask.by, ask.raw, v)
      [] f = "kit" -> KitAnswerFits(ask.by, ask.raw, v)
      [] f = "rubric" -> RubricAnswerFits(ask.raw, v.marks)
      [] f = "script" -> v \in 0..MaxMark
      [] f = "viva" -> Len(v) = Pairs /\ Range(v) \subseteq 0..10
      [] f \in {"examination", "problems"} -> v <= Wanted
      [] f = "clarity" -> v \in 0..2
      [] OTHER -> TRUE

\* An answer is made fit for the rows it is written to, and what stands in for
\* one is a paper that fits the exam, no marks for a script, and zeros of low
\* confidence for a rubric.  An exhausted quota is not given up on while the chain has another
\* provider.
AnswersFit ==
    /\ ask.outcome = "answered" => AnswerFits
    /\ ask.outcome \in {"stood in", "unasked"} =>
          /\ ask.feature = "questions" => MockPaperFits(ask.value)
          /\ ask.feature = "rubric" => ask.value = Unscored
    /\ ask.outcome = "stood in" /\ ask.feature = "script" => ask.value = None
    /\ ask.outcome \in {"stood in", "raised"} =>
          LET last == ask.failed[Len(ask.failed)] IN
          last[2] = "quota" => Range(ask.left) = {last[1]}
=============================================================================
