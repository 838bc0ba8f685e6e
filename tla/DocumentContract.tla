--------------------------- MODULE DocumentContract ---------------------------
(***************************************************************************)
(* What the services promise of a document that an AI task drafts and a    *)
(* human releases: a generation is asked for on a draft and gives it back  *)
(* as a draft, and what has been released stays released.  The stages of   *)
(* the documents are all this specification knows; "open" is a document    *)
(* about which a failure has voided the promise.                           *)
(***************************************************************************)
CONSTANT Docs

VARIABLE stage

Stages == {"absent", "draft", "generating", "released", "open"}

\* The moves a request or a task may make.
Allowed ==
    {<<"absent", "draft">>, <<"draft", "absent">>,
     <<"draft", "generating">>, <<"generating", "draft">>,
     <<"draft", "released">>}

ContractInit == stage = [d \in Docs |-> "absent"]

Move(d) ==
    \E s \in Stages :
        /\ s = "open" \/ <<stage[d], s>> \in Allowed
        /\ stage' = [stage EXCEPT ![d] = s]

\* Failures and overlapping requests may void several promises at once.
Void ==
    \E S \in SUBSET Docs :
        stage' = [d \in Docs |-> IF d \in S THEN "open" ELSE stage[d]]

ContractNext == Void \/ \E d \in Docs : Move(d)

ContractSpec == ContractInit /\ [][ContractNext]_stage
=============================================================================
