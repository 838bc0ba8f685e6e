----------------------------- MODULE VivaSession -----------------------------
(***************************************************************************)
(* M07: viva sessions, the requests of the student (by the session token)  *)
(* and of the guide, and the process_viva_session task.  The questions are *)
(* the ones a session is scheduled with; follow-ups and the text of the    *)
(* answers are left out, and so is the clock: a token may expire any time. *)
(***************************************************************************)
EXTENDS Backend

CONSTANTS
    Vivas,      \* bound: ids 1..n, given out in order
    Questions   \* the questions of a session

ASSUME VivaAssumption ==
    Vivas \subseteq Nat \ {0}

VARIABLES
    viva,     \* status, consent, video, the answers, the ones judged, guide_evaluation
    reopened  \* history: vivas given consent or a recording after their completion

vivaVars == <<viva, reopened, backend>>

VivaOps == {"schedule", "consent", "respond", "complete", "conduct", "queue_viva", "ratify_viva"}

Answers == SUBSET Questions

ASSUME VivaNames == None \notin VivaOps /\ None \notin Vivas /\ \A a \in Answers : a # None

NoViva == [status |-> "NONE", consent |-> FALSE, video |-> FALSE,
           answers |-> {}, judged |-> None, guide |-> FALSE]

VivaTypeOK ==
    /\ viva \in [Vivas ->
                   [status : {"NONE", "SCHEDULED", "IN_PROGRESS", "COMPLETED", "ASR_PROCESSING",
                              "EVALUATED", "GUIDE_RATIFIED"},
                    consent : BOOLEAN, video : BOOLEAN,
                    answers : Answers, judged : Answers \cup {None}, guide : BOOLEAN]]
    /\ reopened \in SUBSET Vivas
    /\ BackendTypeOK(VivaOps, {"process_viva_session"}, Vivas, {"running"}, {}, Answers)

VivaInit ==
    /\ viva = [v \in Vivas |-> NoViva]
    /\ reopened = {}
    /\ BackendInit

----------------------------------------------------------------------------
FreshViva == {v \in Vivas : viva[v].status = "NONE"
                  /\ \A u \in Vivas : u < v => viva[u].status # "NONE"}

Checked(r, op, v) == Begin(r, op, v, None) /\ UNCHANGED <<viva, reopened>>

\* The problem is ACCEPTED and the document APPROVED (ResearchDocument): here a
\* guide may be that far at any time.
Schedule(r) == FreshViva # {} /\ Checked(r, "schedule", None)

WriteSchedule(r) ==
    /\ req[r].op = "schedule"
    /\ \E v \in FreshViva : viva' = [viva EXCEPT ![v].status = "SCHEDULED"]
    /\ End(r)
    /\ UNCHANGED reopened

\* Every later request is on a session that exists.
Scheduled(v) == viva[v].status # "NONE"

Reopen(v) == IF viva[v].status \in {"SCHEDULED", "IN_PROGRESS"} THEN reopened ELSE reopened \cup {v}

\* record_consent asks for no status.
RecordConsent(r, v) == Scheduled(v) /\ Checked(r, "consent", v)

WriteConsent(r) ==
    LET v == req[r].on IN
    /\ req[r].op = "consent"
    /\ viva' = [viva EXCEPT ![v].consent = TRUE, ![v].status = "IN_PROGRESS"]
    /\ reopened' = Reopen(v)
    /\ End(r)

SubmitResponse(r, v) ==
    viva[v].status \in {"SCHEDULED", "IN_PROGRESS"} /\ Checked(r, "respond", v)

\* One more answer, appended in the UPDATE itself.
WriteResponse(r) ==
    /\ req[r].op = "respond"
    /\ \E q \in Questions : viva' = [viva EXCEPT ![req[r].on].answers = @ \cup {q}]
    /\ End(r)
    /\ UNCHANGED reopened

\* complete asks for the consent and for no status.
Complete(r, v) == viva[v].consent /\ Checked(r, "complete", v)

\* The job of the processing is a commit of its own.
QueueProcessing(r) == req' = [req EXCEPT ![r].op = "queue_viva"] /\ UNCHANGED <<raced, faults>>

WriteComplete(r) ==
    LET v == req[r].on IN
    /\ req[r].op = "complete"
    /\ viva' = [viva EXCEPT ![v].video = TRUE, ![v].status = "COMPLETED"]
    /\ reopened' = Reopen(v)
    /\ QueueProcessing(r)

\* Mutant: an offline viva may be conducted at any status.
ConductMutant(r, v) == Scheduled(v) /\ Checked(r, "conduct", v)

Conduct(r, v) == viva[v].status = "SCHEDULED" /\ Checked(r, "conduct", v)

\* The guide's answers replace the ones there are; consent is taken as given.
WriteConduct(r) ==
    /\ req[r].op = "conduct"
    /\ \E a \in Answers :
          viva' = [viva EXCEPT ![req[r].on].answers = a, ![req[r].on].consent = TRUE,
                               ![req[r].on].video = FALSE, ![req[r].on].status = "COMPLETED"]
    /\ QueueProcessing(r)
    /\ UNCHANGED reopened

WriteQueued(r) ==
    /\ req[r].op = "queue_viva"
    /\ viva' = [viva EXCEPT ![req[r].on].status = "ASR_PROCESSING"]
    /\ EndPublishing(r, req[r].on, "process_viva_session")
    /\ UNCHANGED reopened

RatifyViva(r, v) == viva[v].status = "EVALUATED" /\ Checked(r, "ratify_viva", v)

WriteRatifyViva(r) ==
    /\ req[r].op = "ratify_viva"
    /\ viva' = [viva EXCEPT ![req[r].on].guide = TRUE, ![req[r].on].status = "GUIDE_RATIFIED"]
    /\ End(r)
    /\ UNCHANGED reopened

VivaRequest(r) ==
    \/ Schedule(r)
    \/ \E v \in Vivas :
          RecordConsent(r, v) \/ SubmitResponse(r, v) \/ Complete(r, v) \/ Conduct(r, v) \/ RatifyViva(r, v)
    \/ WriteSchedule(r) \/ WriteConsent(r) \/ WriteResponse(r) \/ WriteComplete(r)
    \/ WriteConduct(r) \/ WriteQueued(r) \/ WriteRatifyViva(r)

----------------------------------------------------------------------------
(* process_viva_session: an unexpected status is logged, and processed.    *)

\* The answers are read; the speech of a recording is processed with consent only.
StartProcessing(w, m) ==
    LET v == msg[m].to IN
    /\ msg[m].task = "process_viva_session"
    /\ Take(w, m, "process_viva_session", "running", viva[v].answers)
    /\ viva' = IF viva[v].video /\ viva[v].consent
               THEN [viva EXCEPT ![v].status = "ASR_PROCESSING"] ELSE viva
    /\ UNCHANGED <<reopened, again, lost, faults>>

CommitProcessing(w) ==
    LET v == exec[w].to IN
    /\ In(w, "process_viva_session", "running")
    /\ viva' = [viva EXCEPT ![v].judged = exec[w].mem, ![v].status = "EVALUATED"]
    /\ Finish(w)
    /\ UNCHANGED <<reopened, lost, faults>>

\* Only a model call that raises puts the session back to COMPLETED; whatever
\* else is raised leaves it ASR_PROCESSING.
FailProcessing(w) ==
    LET v == exec[w].to IN
    /\ In(w, "process_viva_session", "running")
    /\ Fault
    /\ viva' \in {viva, [viva EXCEPT ![v].status = "COMPLETED"]}
    /\ \/ Retry(w) /\ UNCHANGED lost
       \/ Finish(w) /\ lost' = lost \cup {v}
    /\ UNCHANGED reopened

VivaTask(w) ==
    \/ \E m \in Slots : StartProcessing(w, m)
    \/ CommitProcessing(w) \/ FailProcessing(w)

----------------------------------------------------------------------------
VivaNext ==
    \/ \E r \in Reqs : VivaRequest(r) /\ UNCHANGED queue
    \/ \E w \in Workers : VivaTask(w) /\ UNCHANGED <<req, raced>>
    \/ Environment /\ UNCHANGED <<viva, reopened>>

VivaFairness == \A w \in Workers : WF_vivaVars(VivaTask(w) /\ UNCHANGED <<req, raced>>)

VivaSpec == VivaInit /\ [][VivaNext]_vivaVars /\ EnvironmentFairness /\ VivaFairness
----------------------------------------------------------------------------
(* Properties.                                                             *)

\* A session the guide sees EVALUATED, or ratified, has been judged on all of
\* the answers it holds, unless requests overlapped, the processing was repeated
\* or the student reopened it.  A recording and an evaluation have the consent.
VivaJudgedWhole ==
    \A v \in Vivas :
        /\ viva[v].status \in {"EVALUATED", "GUIDE_RATIFIED"} =>
              viva[v].judged = viva[v].answers \/ raced \/ v \in again \cup reopened
        /\ viva[v].video \/ viva[v].judged # None => viva[v].consent
        /\ viva[v].guide => viva[v].judged # None

\* A ratified viva stays ratified, unless requests overlapped, the processing
\* was repeated or the student gave consent or a recording once more.
RatifiedStays ==
    [][\A v \in Vivas :
          viva[v].status = "GUIDE_RATIFIED" =>
              viva'[v].status = "GUIDE_RATIFIED" \/ raced \/ v \in again \cup reopened']_vivaVars
=============================================================================
