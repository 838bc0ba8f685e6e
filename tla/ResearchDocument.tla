--------------------------- MODULE ResearchDocument ---------------------------
(***************************************************************************)
(* M07: a student's research problem and the documents submitted for it,   *)
(* with the guide's decisions (human gates 1 and 2) and the                *)
(* evaluate_research_proposal and evaluate_research_document tasks.  A     *)
(* file is abstracted to its number among those a document has had.        *)
(***************************************************************************)
EXTENDS Backend, FiniteSetsExt

CONSTANTS
    Documents,  \* bound: ids 1..n, given out in order
    MaxFiles    \* bound: files the student sends, all told

ASSUME ResearchAssumption ==
    /\ Documents \subseteq Nat \ {0} /\ IsFiniteSet(Documents)
    /\ MaxFiles \in Nat \ {0}

VARIABLES
    problem,  \* its status and whether the AI's scores are there
    doc,      \* version, status, file (0: none yet), and the file the evaluation read
    refiled   \* history: documents given a file although they had one

researchVars == <<problem, doc, refiled, backend>>

ResearchOps == {"propose", "decide", "submit_document", "set_file", "queue_evaluation",
                "review_document"}

ASSUME ResearchNames == None \notin ResearchOps /\ None \notin Documents

\* The id of the student's one problem with the guide.
Problem == 0

Decisions == {"ACCEPTED", "REVISION_REQUESTED", "REJECTED"}

NoDocument == [status |-> "NONE", version |-> 0, file |-> 0, evaluated |-> None]

ResearchTypeOK ==
    /\ problem \in [status : {"NONE", "PENDING_REVIEW"} \cup Decisions, scored : BOOLEAN]
    /\ doc \in [Documents ->
                  [status : {"NONE", "SUBMITTED", "EVALUATING", "EVALUATED", "APPROVED", "REVISION_REQUESTED"},
                   version : 0..Cardinality(Documents), file : Nat, evaluated : Nat \cup {None}]]
    /\ refiled \in SUBSET Documents
    /\ BackendTypeOK(ResearchOps, {"evaluate_research_proposal", "evaluate_research_document"},
                     Documents \cup {Problem}, {"running", "failed"},
                     1..Cardinality(Documents), Nat)

ResearchInit ==
    /\ problem = [status |-> "NONE", scored |-> FALSE]
    /\ doc = [d \in Documents |-> NoDocument]
    /\ refiled = {}
    /\ BackendInit

----------------------------------------------------------------------------
(* Gate 1: the problem.                                                    *)

\* The proposal and its job are two commits; then the evaluation is published.
Propose(r) ==
    /\ problem.status = "NONE"
    /\ Begin(r, "propose", Problem, None)
    /\ UNCHANGED <<problem, doc, refiled>>

WriteProposal(r) ==
    /\ req[r].op = "propose"
    /\ problem.status = "NONE"
    /\ problem' = [problem EXCEPT !.status = "PENDING_REVIEW"]
    /\ EndPublishing(r, Problem, "evaluate_research_proposal")
    /\ UNCHANGED <<doc, refiled>>

\* The guide need not wait for the evaluation.
Decide(r) ==
    /\ problem.status \in {"PENDING_REVIEW", "REVISION_REQUESTED"}
    /\ Begin(r, "decide", Problem, None)
    /\ UNCHANGED <<problem, doc, refiled>>

WriteDecision(r) ==
    /\ req[r].op = "decide"
    /\ \E s \in Decisions : problem' = [problem EXCEPT !.status = s]
    /\ End(r)
    /\ UNCHANGED <<doc, refiled>>

StartProposal(w, m) ==
    /\ Take(w, m, "evaluate_research_proposal", "running", None)
    /\ UNCHANGED <<problem, doc, refiled, again, lost, faults>>

\* set_eval_scores: PENDING_REVIEW with the scores, whatever the guide decided.
CommitProposal(w) ==
    /\ In(w, "evaluate_research_proposal", "running")
    /\ problem' = [status |-> "PENDING_REVIEW", scored |-> TRUE]
    /\ Finish(w)
    /\ UNCHANGED <<doc, refiled, lost, faults>>

\* No except branch.
FailProposal(w) ==
    /\ In(w, "evaluate_research_proposal", "running")
    /\ Fault
    /\ \/ Retry(w) /\ UNCHANGED lost
       \/ Finish(w) /\ lost' = lost \cup {Problem}
    /\ UNCHANGED <<problem, doc, refiled>>

----------------------------------------------------------------------------
(* Gate 2: the documents.                                                  *)

FreshDocument == {d \in Documents : doc[d].status = "NONE"
                      /\ \A e \in Documents : e < d => doc[e].status # "NONE"}

FilesSent == MapThenSumSet(LAMBDA d : doc[d].file, Documents)

NextDocumentVersion ==
    Cardinality({doc[d].version : d \in Documents} \ {0}) + 1

\* The version is the highest that was read, plus one.
SubmitDocument(r) ==
    /\ problem.status = "ACCEPTED" /\ FreshDocument # {}
    /\ Begin(r, "submit_document", None, NextDocumentVersion)
    /\ UNCHANGED <<problem, doc, refiled>>

\* The job of an evaluation is a commit of its own.
QueueNext(r, d) == req' = [req EXCEPT ![r].op = "queue_evaluation", ![r].on = d, ![r].mem = None]

\* Mutant: the evaluation is dispatched before there is a file.
WriteDocumentMutant(r) ==
    /\ req[r].op = "submit_document"
    /\ \E d \in FreshDocument, f \in {0, 1} :
          /\ doc' = [doc EXCEPT ![d] = [status |-> "SUBMITTED", version |-> req[r].mem,
                                        file |-> f, evaluated |-> None]]
          /\ QueueNext(r, d)
    /\ UNCHANGED <<problem, refiled, raced, faults>>

\* With its file the document is evaluated at once, without it when the upload
\* is confirmed.
WriteDocument(r) ==
    /\ req[r].op = "submit_document"
    /\ \E d \in FreshDocument, f \in {0, 1} :
          /\ doc' = [doc EXCEPT ![d] = [status |-> "SUBMITTED", version |-> req[r].mem,
                                        file |-> f, evaluated |-> None]]
          /\ IF f = 0 THEN req' = [req EXCEPT ![r] = NoReq] ELSE QueueNext(r, d)
    /\ UNCHANGED <<problem, refiled, raced, faults>>

\* update_file_url asks for the student only, and for no status.
SetFile(r, d) ==
    /\ doc[d].status # "NONE" /\ FilesSent < MaxFiles
    /\ Begin(r, "set_file", d, None)
    /\ UNCHANGED <<problem, doc, refiled>>

WriteFile(r) ==
    LET d == req[r].on IN
    /\ req[r].op = "set_file"
    /\ FilesSent < MaxFiles
    /\ doc' = [doc EXCEPT ![d].file = @ + 1]
    /\ refiled' = IF doc[d].file = 0 THEN refiled ELSE refiled \cup {d}
    /\ QueueNext(r, d)
    /\ UNCHANGED <<problem, raced, faults>>

QueueEvaluation(r) ==
    /\ req[r].op = "queue_evaluation"
    /\ doc' = [doc EXCEPT ![req[r].on].status = "EVALUATING"]
    /\ EndPublishing(r, req[r].on, "evaluate_research_document")
    /\ UNCHANGED <<problem, refiled>>

\* GUIDE_REVIEWED, which is allowed too, is never written.
ReviewDocument(r, d) ==
    /\ doc[d].status = "EVALUATED"
    /\ Begin(r, "review_document", d, None)
    /\ UNCHANGED <<problem, doc, refiled>>

WriteDocumentReview(r) ==
    /\ req[r].op = "review_document"
    /\ \E s \in {"APPROVED", "REVISION_REQUESTED"} : doc' = [doc EXCEPT ![req[r].on].status = s]
    /\ End(r)
    /\ UNCHANGED <<problem, refiled>>

\* Whatever the status is, EVALUATING, and the file that was read.
StartDocument(w, m) ==
    LET d == msg[m].to IN
    /\ msg[m].task = "evaluate_research_document"
    /\ Take(w, m, "evaluate_research_document", "running", doc[d].file)
    /\ doc' = [doc EXCEPT ![d].status = "EVALUATING"]
    /\ UNCHANGED <<problem, refiled, again, lost, faults>>

CommitDocument(w) ==
    LET d == exec[w].to IN
    /\ In(w, "evaluate_research_document", "running")
    /\ doc' = [doc EXCEPT ![d].status = "EVALUATED", ![d].evaluated = exec[w].mem]
    /\ Finish(w)
    /\ UNCHANGED <<problem, refiled, lost, faults>>

FailDocument(w) ==
    /\ In(w, "evaluate_research_document", "running")
    /\ Fault
    /\ Goto(w, "failed", exec[w].mem)
    /\ UNCHANGED <<problem, doc, refiled, msg, again, lost>>

\* The except branch.
ResetDocument(w) ==
    /\ In(w, "evaluate_research_document", "failed")
    /\ doc' = [doc EXCEPT ![exec[w].to].status = "SUBMITTED"]
    /\ Retry(w) \/ Finish(w)
    /\ UNCHANGED <<problem, refiled, lost, faults>>

ResetDocumentFails(w) ==
    /\ In(w, "evaluate_research_document", "failed")
    /\ \/ Retry(w) /\ UNCHANGED lost
       \/ Finish(w) /\ lost' = lost \cup {exec[w].to}
    /\ UNCHANGED <<problem, doc, refiled, faults>>

----------------------------------------------------------------------------
ResearchRequest(r) ==
    \/ Propose(r) \/ WriteProposal(r) \/ Decide(r) \/ WriteDecision(r)
    \/ SubmitDocument(r) \/ WriteDocument(r) \/ WriteFile(r) \/ QueueEvaluation(r)
    \/ \E d \in Documents : SetFile(r, d) \/ ReviewDocument(r, d)
    \/ WriteDocumentReview(r)

ResearchTask(w) ==
    \/ \E m \in Slots : StartProposal(w, m) \/ StartDocument(w, m)
    \/ CommitProposal(w) \/ FailProposal(w)
    \/ CommitDocument(w) \/ FailDocument(w) \/ ResetDocument(w) \/ ResetDocumentFails(w)

ResearchNext ==
    \/ \E r \in Reqs : ResearchRequest(r) /\ UNCHANGED queue
    \/ \E w \in Workers : ResearchTask(w) /\ UNCHANGED <<req, raced>>
    \/ Environment /\ UNCHANGED <<problem, doc, refiled>>

ResearchFairness == \A w \in Workers : WF_researchVars(ResearchTask(w) /\ UNCHANGED <<req, raced>>)

ResearchSpec ==
    ResearchInit /\ [][ResearchNext]_researchVars /\ EnvironmentFairness /\ ResearchFairness
----------------------------------------------------------------------------
(* Properties.                                                             *)

\* What the guide approved is the evaluation of the file that the document
\* holds, and versions differ: unless requests overlapped, the evaluation was
\* repeated, or the student replaced a file that was there already.
ApprovedFileEvaluated ==
    \A d \in Documents :
        raced \/ d \in again \cup refiled
        \/ /\ doc[d].status = "APPROVED" => doc[d].evaluated = doc[d].file
           /\ doc[d].status \in {"EVALUATED", "APPROVED", "REVISION_REQUESTED"} => doc[d].file > 0
           /\ \A e \in Documents \ {d} : doc[d].version = 0 \/ doc[e].version # doc[d].version

\* What a guide approved stays approved, unless its evaluation is repeated,
\* requests overlap or the student sends a file once more.
ApprovalStands ==
    [][\A d \in Documents :
          doc[d].status = "APPROVED" =>
              doc'[d].status = "APPROVED" \/ raced \/ d \in again \cup refiled]_researchVars

\* The docstring: status changes by the guide's decision only, tasks write only
\* the AI's scores.
DecisionStands ==
    [][problem.status \in {"ACCEPTED", "REJECTED"} => problem'.status = problem.status]_researchVars
=============================================================================
