---------------------------- MODULE LearningPackage ----------------------------
(***************************************************************************)
(* M05: the learning packages of a syllabus unit, the requests on them and *)
(* the curate_learning_package and index_package_rag tasks.  The items an  *)
(* AI curation found are abstracted to one, "curated"; Notes are the items *)
(* faculty add.  item_count is kept beside the items, by hand.             *)
(***************************************************************************)
EXTENDS Backend, FiniteSetsExt

CONSTANTS
    Packages,   \* bound: ids 1..n, given out in order
    Notes       \* bound: items faculty may add to a package

ASSUME PackagesAssumption ==
    /\ Packages \subseteq Nat \ {0} /\ IsFiniteSet(Packages)
    /\ IsFiniteSet(Notes) /\ "curated" \notin Notes

ASSUME PackageNames ==
    None \notin Packages /\ None \notin {"curate", "index", "add", "remove", "bump"}

VARIABLES
    pkg,
    mixed   \* history: packages on which a request and a curation overlapped

pkgVars == <<pkg, mixed, backend>>

PackageStatus == {"PENDING", "CURATING", "READY", "OUTDATED"}

PackageOps == {"curate", "index", "add", "remove", "bump"}

Items == Notes \cup {"curated"}

NoPackage == [status |-> "NONE", items |-> {}, item_count |-> 0, qdrant_indexed |-> FALSE]

PackageTypeOK ==
    /\ pkg \in [Packages -> [status : PackageStatus \cup {"NONE"}, items : SUBSET Items,
                             item_count : Nat, qdrant_indexed : BOOLEAN]]
    /\ mixed \in SUBSET Packages
    /\ BackendTypeOK(PackageOps, {"curate_learning_package", "index_package_rag"}, Packages,
                     {"running", "failed"}, Nat \X (Items \cup {None}), Nat)

PackageInit ==
    /\ pkg = [p \in Packages |-> NoPackage]
    /\ mixed = {}
    /\ BackendInit

----------------------------------------------------------------------------
FreshPackage == {p \in Packages : pkg[p].status = "NONE"
                     /\ \A q \in Packages : q < p => pkg[q].status # "NONE"}

\* A curation updates the row first and commits at its very end: PENDING is all
\* the others see of CURATING, and their UPDATEs of the row wait.
Curating(p) == \E w \in Workers : exec[w].to = p /\ In(w, "curate_learning_package", "running")

Reading(r, op, p, item) ==
    /\ Begin(r, op, p, <<pkg[p].item_count, item>>)
    /\ mixed' = IF Curating(p) THEN mixed \cup {p} ELSE mixed
    /\ UNCHANGED pkg

----------------------------------------------------------------------------
(* Requests.                                                               *)

\* Every curation is a package of its own; as CURATING is never committed, the
\* 409 for a curation in flight never comes.
DispatchCuration(r) ==
    /\ FreshPackage # {}
    /\ \A p \in Packages : pkg[p].status # "CURATING"
    /\ Begin(r, "curate", None, None)
    /\ UNCHANGED <<pkg, mixed>>

WriteCuration(r) ==
    /\ req[r].op = "curate"
    /\ \E p \in FreshPackage :
          /\ pkg' = [pkg EXCEPT ![p].status = "PENDING"]
          /\ EndPublishing(r, p, "curate_learning_package")
    /\ UNCHANGED mixed

\* add_faculty_item and ingest_faculty_note: PENDING is allowed (_require_mutable).
AddItem(r, p) == pkg[p].status \in {"PENDING", "READY"} /\ Reading(r, "add", p, None)

\* The new item, and item_count as it was read, plus one.
WriteAdd(r) ==
    LET p == req[r].on IN
    /\ req[r].op = "add"
    /\ ~Curating(p)
    /\ \E n \in Notes \ pkg[p].items :
          pkg' = [pkg EXCEPT ![p].items = @ \cup {n}, ![p].item_count = req[r].mem[1] + 1]
    /\ End(r)
    /\ UNCHANGED mixed

RemoveItem(r, p) ==
    /\ pkg[p].status = "READY"
    /\ \E i \in pkg[p].items : Reading(r, "remove", p, i)

\* max(0, the count that was read minus one), even if the item is gone meanwhile.
WriteRemove(r) ==
    LET p == req[r].on IN
    /\ req[r].op = "remove"
    /\ ~Curating(p)
    /\ pkg' = [pkg EXCEPT ![p].items = @ \ {req[r].mem[2]},
                          ![p].item_count = Max({0, req[r].mem[1] - 1})]
    /\ End(r)
    /\ UNCHANGED mixed

DispatchIndexing(r, p) ==
    pkg[p].status = "READY" /\ Begin(r, "index", p, None) /\ UNCHANGED <<pkg, mixed>>

WriteIndexing(r) ==
    /\ req[r].op = "index"
    /\ EndPublishing(r, req[r].on, "index_package_rag")
    /\ UNCHANGED <<pkg, mixed>>

\* The hook of lock_syllabus.
BumpSyllabus(r) == Begin(r, "bump", None, None) /\ UNCHANGED <<pkg, mixed>>

\* Mutant: a package to be curated again goes back to PENDING.
WriteBumpMutant(r) ==
    /\ req[r].op = "bump"
    /\ pkg' = [p \in Packages |-> IF pkg[p].status # "READY" THEN pkg[p]
                                  ELSE [pkg[p] EXCEPT !.status = "PENDING"]]
    /\ End(r)
    /\ UNCHANGED mixed

\* The syllabus is locked: READY packages are superseded, in one UPDATE.
WriteBump(r) ==
    /\ req[r].op = "bump"
    /\ pkg' = [p \in Packages |-> IF pkg[p].status # "READY" THEN pkg[p]
                                  ELSE [pkg[p] EXCEPT !.status = "OUTDATED"]]
    /\ End(r)
    /\ UNCHANGED mixed

PackageRequest(r) ==
    \/ DispatchCuration(r) \/ WriteCuration(r) \/ WriteIndexing(r)
    \/ \E p \in Packages : AddItem(r, p) \/ RemoveItem(r, p) \/ DispatchIndexing(r, p)
    \/ WriteAdd(r) \/ WriteRemove(r) \/ BumpSyllabus(r) \/ WriteBump(r)

----------------------------------------------------------------------------
(* curate_learning_package: one transaction.                               *)

\* The guard takes PENDING and CURATING; the faculty's items are read once the
\* row is locked.
StartCuration(w, m) ==
    LET p == msg[m].to IN
    /\ ~Curating(p)
    /\ Take(w, m, "curate_learning_package",
            IF pkg[p].status \in {"PENDING", "CURATING"} THEN "running" ELSE "failed",
            Cardinality(pkg[p].items \cap Notes))
    /\ mixed' = IF \E r \in Reqs : req[r].on = p THEN mixed \cup {p} ELSE mixed
    /\ UNCHANGED <<pkg, again, lost, faults>>

\* READY with what the sources gave, nothing at all included.
CommitCuration(w) ==
    LET p == exec[w].to IN
    /\ In(w, "curate_learning_package", "running")
    /\ \E found \in SUBSET {"curated"} :
          pkg' = [pkg EXCEPT ![p].status = "READY",
                             ![p].items = IF found = {} THEN @ ELSE (@ \cap Notes) \cup found,
                             ![p].item_count = Cardinality(found) + exec[w].mem]
    /\ Finish(w)
    /\ UNCHANGED <<mixed, lost, faults>>

FailCuration(w) ==
    /\ In(w, "curate_learning_package", "running")
    /\ Fault
    /\ Goto(w, "failed", None)
    /\ UNCHANGED <<pkg, mixed, msg, again, lost>>

\* The except branch: PENDING, whatever the status is, unless that fails too.
ResetPackage(w) ==
    LET p == exec[w].to IN
    /\ In(w, "curate_learning_package", "failed")
    /\ ~Curating(p)
    /\ pkg' \in {pkg, [pkg EXCEPT ![p].status = "PENDING"]}
    /\ Retry(w) \/ Finish(w)
    /\ UNCHANGED <<mixed, lost, faults>>

----------------------------------------------------------------------------
(* index_package_rag: its guard was the request's.                         *)

StartIndexing(w, m) ==
    /\ Take(w, m, "index_package_rag", "running", None)
    /\ UNCHANGED <<pkg, mixed, again, lost, faults>>

\* An item that fails is skipped; the package is indexed all the same.
CommitIndexing(w) ==
    LET p == exec[w].to IN
    /\ In(w, "index_package_rag", "running")
    /\ ~Curating(p)
    /\ pkg' = [pkg EXCEPT ![p].qdrant_indexed = TRUE]
    /\ Finish(w)
    /\ UNCHANGED <<mixed, lost, faults>>

FailIndexing(w) ==
    /\ In(w, "index_package_rag", "running")
    /\ Fault
    /\ Retry(w) \/ Finish(w)
    /\ UNCHANGED <<pkg, mixed, lost>>

PackageTask(w) ==
    \/ \E m \in Slots : StartCuration(w, m) \/ StartIndexing(w, m)
    \/ CommitCuration(w) \/ FailCuration(w) \/ ResetPackage(w)
    \/ CommitIndexing(w) \/ FailIndexing(w)

----------------------------------------------------------------------------
PackageNext ==
    \/ \E r \in Reqs : PackageRequest(r) /\ UNCHANGED queue
    \/ \E w \in Workers : PackageTask(w) /\ UNCHANGED <<req, raced>>
    \/ Environment /\ UNCHANGED <<pkg, mixed>>

PackageSpec == PackageInit /\ [][PackageNext]_pkgVars
----------------------------------------------------------------------------
(* Properties.                                                             *)

PackageStage(p) ==
    IF p \in again THEN "open"
    ELSE CASE pkg[p].status = "NONE" -> "absent"
         [] pkg[p].status = "PENDING" -> "draft"
         [] pkg[p].status = "CURATING" -> "generating"
         [] OTHER -> "released"

PackageContract == INSTANCE DocumentContract
    WITH Docs <- Packages, stage <- [p \in Packages |-> PackageStage(p)]

\* Refinement: a package follows DocumentContract whatever requests overlap and
\* whatever fails, as long as its curation is not repeated: what is READY for
\* the students stays READY until a syllabus lock makes it OUTDATED.
PackageKeepsContract == PackageContract!ContractSpec

\* item_count is the number of the package's items, unless two requests, or a
\* request and the curation, overlapped: the service and the task both write
\* it from what they read earlier.  Only READY packages are ever indexed.
ItemCountRight ==
    \A p \in Packages :
        /\ raced \/ p \in mixed \cup again \/ pkg[p].item_count = Cardinality(pkg[p].items)
        /\ pkg[p].qdrant_indexed => pkg[p].status \in {"READY", "OUTDATED"} \/ p \in again
=============================================================================
