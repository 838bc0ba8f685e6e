----------------------------- MODULE Onboarding -----------------------------
(***************************************************************************)
(* The accounts of a tenant: the administrator's generation of students,   *)
(* the import of a file of students or faculty (with the enrollment of     *)
(* those whose section is known), each one transaction over what its       *)
(* preview found valid, and the accounts written one by one.  The table    *)
(* keeps e-mail addresses apart as they are spelled; the imports compare   *)
(* them in lower case, and compare identifiers, which nothing else does.   *)
(* Passwords, names and programs are left out.                             *)
(***************************************************************************)
EXTENDS Backend, Functions

CONSTANTS
    Boxes,        \* e-mail addresses in lower case
    Identifiers,
    MaxRows       \* bound: rows of a file

VARIABLES
    account,   \* by its e-mail address
    manual,    \* history: accounts an administrator created or edited one by one
    kept       \* history: no commit found an address taken that its preview had found free,
               \* but for overlaps

accounts == <<account, manual, kept>>

onboardingVars == <<accounts, backend>>

AccountOps == {"generate_students", "commit_file"}

ASSUME AccountNames == None \notin AccountOps \cup Identifiers

Email == [box : Boxes, upper : BOOLEAN]
NoAccount == [exists |-> FALSE, identifier |-> None]
Account(identifier) == [exists |-> TRUE, identifier |-> identifier]

\* What a request is about to write: an account for each of these addresses.
Inserts == UNION {[emails -> {Account(i) : i \in Identifiers \cup {None}}] : emails \in SUBSET Email}

AccountTypeOK ==
    /\ account \in [Email -> [exists : BOOLEAN, identifier : Identifiers \cup {None}]]
    /\ \A e \in Email : ~account[e].exists => account[e] = NoAccount
    /\ manual \subseteq Email
    /\ kept \in BOOLEAN
    /\ BackendTypeOK(AccountOps, {}, {}, {}, Inserts, {})

AccountInit ==
    /\ account = [e \in Email |-> NoAccount]
    /\ manual = {}
    /\ kept = TRUE

----------------------------------------------------------------------------
Existing == {e \in Email : account[e].exists}

\* LOWER(email) = ANY(...), identifier = ANY(...)
ExistingBoxes == {e.box : e \in Existing}
ExistingIdentifiers == {account[e].identifier : e \in Existing} \ {None}

\* Numbered students: the address is made of the number, in lower case, and of a
\* domain; whoever exists is skipped.
GenerateStudents(r) ==
    \E box \in [Identifiers -> Boxes] :
        LET new == {i \in Identifiers : i \notin ExistingIdentifiers /\ box[i] \notin ExistingBoxes} IN
        /\ IsInjective(box)
        /\ Begin(r, "generate_students", None,
                 [e \in {[box |-> box[i], upper |-> FALSE] : i \in new} |->
                     Account(CHOOSE i \in new : box[i] = e.box)])
        /\ UNCHANGED accounts

FileRow == [email : Email, identifier : Identifiers \cup {None}]

Files == UNION {[1..n -> FileRow] : n \in 1..MaxRows}

\* A row takes its address and identifier from the rows below it, valid or not.
FreeInFile(file, n) ==
    \A m \in 1..(n - 1) : /\ file[m].email.box # file[n].email.box
                          /\ file[n].identifier \in {None} \cup (Identifiers \ {file[m].identifier})

\* Mutant: addresses are compared as they are spelled.
FreeInTableMutant(row) == row.email \notin Existing /\ row.identifier \notin ExistingIdentifiers

FreeInTable(row) == row.email.box \notin ExistingBoxes /\ row.identifier \notin ExistingIdentifiers

\* The valid rows, in a file whose rows are in themselves complete.
PreviewFile(file) == {n \in DOMAIN file : FreeInFile(file, n) /\ FreeInTable(file[n])}

\* commit_students_csv.
CommitFile(r) ==
    \E file \in Files :
        LET valid == PreviewFile(file) IN
        /\ Begin(r, "commit_file", None,
                 [e \in {file[n].email : n \in valid} |->
                     Account(file[CHOOSE n \in valid : file[n].email = e].identifier)])
        /\ UNCHANGED accounts

\* One INSERT after the other in one transaction: an address that is taken by now
\* refuses them all.  (An INSERT that fails for another reason is Abandon's.)
WriteAccounts(r) ==
    LET new == req[r].mem
        free == DOMAIN new \cap Existing = {} IN
    /\ req[r].op # None
    /\ account' = IF free THEN [e \in Email |-> IF e \in DOMAIN new THEN new[e] ELSE account[e]]
                  ELSE account
    /\ kept' = (kept /\ (free \/ raced))
    /\ End(r)
    /\ UNCHANGED manual

----------------------------------------------------------------------------
(* One by one.  The address is compared as it is spelled, the identifier   *)
(* with nothing; the table repeats the comparison, so that check and write *)
(* are one step here.                                                      *)

ByHand(e, old, accounts0) ==
    /\ account' = accounts0
    /\ manual' = (manual \ old) \cup {e}
    /\ raced' = (raced \/ \E r \in Reqs : req[r] # NoReq)
    /\ UNCHANGED <<req, queue, faults, kept>>

CreateUser(e) ==
    /\ e \notin Existing
    /\ \E identifier \in Identifiers \cup {None} :
          ByHand(e, {}, [account EXCEPT ![e] = Account(identifier)])

\* The row of e gets another address or identifier.
UpdateAccount(e, f) ==
    /\ e \in Existing /\ (f = e \/ f \notin Existing)
    /\ \E identifier \in Identifiers \cup {account[e].identifier} :
          ByHand(f, {e}, [account EXCEPT ![e] = NoAccount,
                                         ![f] = Account(identifier)])

----------------------------------------------------------------------------
AccountNext ==
    \/ \E r \in Reqs : (GenerateStudents(r) \/ CommitFile(r) \/ WriteAccounts(r)) /\ UNCHANGED queue
    \/ \E e \in Email : CreateUser(e) \/ \E f \in Email : UpdateAccount(e, f)
    \/ Environment /\ UNCHANGED accounts

OnboardingSpec == AccountInit /\ BackendInit /\ [][AccountNext]_onboardingVars
----------------------------------------------------------------------------
(* Properties.                                                             *)

\* A preview keeps its promise, although the table's own rule is another one: a
\* commit whose statements succeed creates all accounts that were found valid, and
\* the table refuses none of them unless requests overlapped; and no two accounts
\* have one identifier or two spellings of one address, unless requests overlapped
\* or one of the two was written by hand.
OnboardingComplete ==
    /\ kept
    /\ \A e, f \in Existing :
          e # f /\ (e.box = f.box \/ (account[e].identifier = account[f].identifier
                                      /\ account[e].identifier # None))
          => raced \/ {e, f} \cap manual # {}
=============================================================================
