------------------------ MODULE InternalMarksProofs ------------------------
(***************************************************************************)
(* Type correctness of InternalMarks, the totals it stores and the lock,   *)
(* for any set of components, marks, maxima and requests.                  *)
(***************************************************************************)
EXTENDS InternalMarks, TLAPS

----------------------------------------------------------------------------
(* Type correctness.                                                       *)

\* An idle request, and one carrying a payload or a total, is well formed.
LEMMA RequestTypes ==
    /\ Idle \in Request
    /\ \A given \in Given, mx \in Maxima :
          /\ [Idle EXCEPT !.op = "create", !.given = given, !.max = mx] \in Request
          /\ [Idle EXCEPT !.op = "edit", !.given = given, !.max = mx] \in Request
    /\ \A given \in Given : [Idle EXCEPT !.op = "edit", !.given = given] \in Request
    /\ \A t \in Sums : [Idle EXCEPT !.op = "submit", !.total = t] \in Request
    /\ [Idle EXCEPT !.op = "lock"] \in Request
<1>1. Nothing \in Given
    BY DEF Nothing, Given
<1>2. Idle \in Request /\ [Idle EXCEPT !.op = "lock"] \in Request
    BY <1>1 DEF Idle, Request, Ops
<1>3. ASSUME NEW given \in Given, NEW mx \in Maxima
      PROVE  /\ [Idle EXCEPT !.op = "create", !.given = given, !.max = mx] \in Request
             /\ [Idle EXCEPT !.op = "edit", !.given = given, !.max = mx] \in Request
    BY DEF Idle, Request, Ops
<1>4. ASSUME NEW given \in Given
      PROVE  [Idle EXCEPT !.op = "edit", !.given = given] \in Request
    BY DEF Idle, Request, Ops
<1>5. ASSUME NEW t \in Sums
      PROVE  [Idle EXCEPT !.op = "submit", !.total = t] \in Request
    BY <1>1 DEF Idle, Request, Ops
<1> QED
    BY <1>2, <1>3, <1>4, <1>5

\* The components after an edit are components.
LEMMA OverlayType ==
    ASSUME TypeOK, NEW given \in Given
    PROVE  Overlay(given) \in Given
BY DEF TypeOK, Overlay, Given

\* A remembered total is a sum of components.
LEMMA RememberType ==
    ASSUME TypeOK, marks' \in Given, Remember
    PROVE  valid' \in SUBSET Sums
BY DEF TypeOK, Remember, Sums

\* A request that passed its checks is pending with a well-formed record.
LEMMA BeginType ==
    ASSUME TypeOK, NEW r \in Reqs, NEW a \in Request, Begin(r, a)
    PROVE  TypeOK'
BY DEF TypeOK, Begin, row

\* A request that answers is idle again.
LEMMA EndType ==
    ASSUME TypeOK, NEW r \in Reqs, End(r)
    PROVE  req' \in [Reqs -> Request]
BY RequestTypes DEF TypeOK, End

\* The row, the pending requests and the totals stay within what the code
\* stores: in particular a stored total is a sum of component marks.
THEOREM TypeCorrect == Spec => []TypeOK
<1>1. Init => TypeOK
    BY RequestTypes DEF Init, TypeOK, Nothing, Given
<1>2. TypeOK /\ [Next]_vars => TypeOK'
  <2> SUFFICES ASSUME TypeOK, [Next]_vars PROVE TypeOK'
    OBVIOUS
  <2>1. ASSUME NEW r \in Reqs, NEW given \in Given, NEW mx \in Maxima,
               CreateCheck(r, given, mx) \/ CreateOrUpdateCheck(r, given, mx)
        PROVE  TypeOK'
    BY <2>1, RequestTypes, BeginType DEF CreateCheck, CreateOrUpdateCheck
  <2>2. ASSUME NEW r \in Reqs, NEW given \in Given, UpdateCheck(r, given)
        PROVE  TypeOK'
    BY <2>2, RequestTypes, BeginType DEF UpdateCheck
  <2>3. ASSUME NEW r \in Reqs, SubmitCheck(r) \/ LockCheck(r)
        PROVE  TypeOK'
    <3>1. SumOf(marks) \in Sums
      BY DEF TypeOK, Sums
    <3> QED
      BY <2>3, <3>1, RequestTypes, BeginType DEF SubmitCheck, LockCheck
  <2>4. ASSUME NEW r \in Reqs, CreateWrite(r)
        PROVE  TypeOK'
    <3>1. req[r].given \in Given /\ req[r].max \in Maxima \cup {NoMark}
      BY DEF TypeOK, Request
    <3>2. CASE status = "NONE"
      <4>1. status' = "PENDING" /\ marks' \in Given /\ Remember
        BY <2>4, <3>1, <3>2 DEF CreateWrite
      <4>2. valid' \in SUBSET Sums
        BY <4>1, RememberType
      <4> QED
        BY <2>4, <3>1, <3>2, <4>1, <4>2, EndType
           DEF CreateWrite, TypeOK, InternalMarkStatus
    <3>3. CASE status # "NONE"
      BY <2>4, <3>3, EndType DEF CreateWrite, TypeOK, row
    <3> QED
      BY <3>2, <3>3
  <2>5. ASSUME NEW r \in Reqs, EditWrite(r)
        PROVE  TypeOK'
    <3>1. req[r].given \in Given /\ req[r].max \in Maxima \cup {NoMark}
      BY DEF TypeOK, Request
    <3>2. marks' \in Given
      BY <2>5, <3>1, OverlayType DEF EditWrite
    <3>3. valid' \in SUBSET Sums
      BY <2>5, <3>2, RememberType DEF EditWrite
    <3> QED
      BY <2>5, <3>1, <3>2, <3>3, EndType DEF EditWrite, TypeOK
  <2>6. ASSUME NEW r \in Reqs, SubmitWrite(r) \/ LockWrite(r) \/ Abandon(r)
        PROVE  TypeOK'
    <3>1. req[r].total \in Sums \cup {NoMark}
      BY DEF TypeOK, Request
    <3> QED
      BY <2>6, <3>1, EndType
         DEF SubmitWrite, LockWrite, Abandon, TypeOK, InternalMarkStatus, row
  <2>7. CASE UNCHANGED vars
    BY <2>7 DEF TypeOK, vars, row
  <2> QED
    BY <2>1, <2>2, <2>3, <2>4, <2>5, <2>6, <2>7 DEF Next
<1> QED
    BY <1>1, <1>2, PTL DEF Spec

----------------------------------------------------------------------------
(* The totals.  A total is computed when the row is read and stored later, *)
(* so the invariant carries it from the PENDING row through the pending    *)
(* submission, and from there through the pending lock.                    *)

TotalInv ==
    /\ TotalWasValid
    /\ status = "PENDING" /\ SumOf(marks) <= max => SumOf(marks) \in valid
    /\ \A r \in Reqs :
          /\ req[r].op = "submit" => req[r].total \in valid
          /\ req[r].op = "lock" => total \in valid

\* A check adds a pending request that is justified by the row it read.
LEMMA TotalCheck ==
    ASSUME TypeOK, TotalInv, NEW r \in Reqs,
           \/ \E given \in Given, mx \in Maxima :
                 CreateCheck(r, given, mx) \/ CreateOrUpdateCheck(r, given, mx)
           \/ \E given \in Given : UpdateCheck(r, given)
           \/ SubmitCheck(r) \/ LockCheck(r)
    PROVE  TotalInv'
<1> USE DEF TotalInv, TotalWasValid, TypeOK, Begin, Idle, row
<1>1. ASSUME NEW given \in Given, NEW mx \in Maxima,
             CreateCheck(r, given, mx) \/ CreateOrUpdateCheck(r, given, mx)
      PROVE  TotalInv'
    BY <1>1 DEF CreateCheck, CreateOrUpdateCheck
<1>2. ASSUME NEW given \in Given, UpdateCheck(r, given)
      PROVE  TotalInv'
    BY <1>2 DEF UpdateCheck
<1>3. CASE SubmitCheck(r)
    BY <1>3 DEF SubmitCheck
<1>4. CASE LockCheck(r)
    BY <1>4 DEF LockCheck
<1> QED
    BY <1>1, <1>2, <1>3, <1>4

\* Creating or editing a PENDING row remembers the total it then has.
LEMMA TotalRowWrite ==
    ASSUME TypeOK, TotalInv, NEW r \in Reqs, CreateWrite(r) \/ EditWrite(r)
    PROVE  TotalInv'
<1>1. valid \subseteq valid'
    BY DEF CreateWrite, EditWrite, Remember
<1>2. /\ total' = total
      /\ \A s \in Reqs : req'[s].op \in {req[s].op, "idle"} /\
                         (req'[s].op # "idle" => req'[s] = req[s])
    BY DEF CreateWrite, EditWrite, End, Idle, TypeOK, row
<1>3. status' \in {status, "PENDING"}
    BY DEF CreateWrite, EditWrite, row
<1>4. TotalWasValid'
    BY <1>1, <1>2, <1>3 DEF TotalInv, TotalWasValid
<1>5. \A s \in Reqs : /\ req'[s].op = "submit" => req'[s].total \in valid'
                      /\ req'[s].op = "lock" => total' \in valid'
    BY <1>1, <1>2 DEF TotalInv
<1>6. status' = "PENDING" /\ SumOf(marks') <= max' => SumOf(marks') \in valid'
  <2>1. CASE Remember
    BY <2>1 DEF Remember
  <2>2. CASE UNCHANGED <<row, valid>>
    BY <2>2 DEF TotalInv, row
  <2> QED
    BY <2>1, <2>2 DEF CreateWrite, EditWrite
<1> QED
    BY <1>4, <1>5, <1>6 DEF TotalInv

\* Every submitted or locked total is one the faculty's row had while PENDING
\* and within its maximum, for any number of overlapping or dying requests.
THEOREM TotalHolds == Spec => []TotalWasValid
<1>1. Init => TotalInv
    BY DEF Init, TotalInv, TotalWasValid, Idle
<1>2. TypeOK /\ TotalInv /\ [Next]_vars => TotalInv'
  <2> SUFFICES ASSUME TypeOK, TotalInv, [Next]_vars PROVE TotalInv'
    OBVIOUS
  <2>1. ASSUME NEW r \in Reqs, SubmitWrite(r)
        PROVE  TotalInv'
    BY <2>1 DEF SubmitWrite, TotalInv, TotalWasValid, TypeOK, End, Idle
  <2>2. ASSUME NEW r \in Reqs, LockWrite(r)
        PROVE  TotalInv'
    BY <2>2 DEF LockWrite, TotalInv, TotalWasValid, TypeOK, End, Idle
  <2>3. ASSUME NEW r \in Reqs, Abandon(r)
        PROVE  TotalInv'
    BY <2>3 DEF Abandon, TotalInv, TotalWasValid, TypeOK, End, Idle, row
  <2>4. CASE UNCHANGED vars
    BY <2>4 DEF TotalInv, TotalWasValid, vars, row
  <2> QED
    BY <2>1, <2>2, <2>3, <2>4, TotalCheck, TotalRowWrite DEF Next
<1>3. TotalInv => TotalWasValid
    BY DEF TotalInv
<1> QED
    BY <1>1, <1>2, <1>3, TypeCorrect, PTL DEF Spec

----------------------------------------------------------------------------
(* The lock.  While no two requests overlapped at most one is pending, and *)
(* none is once the row is locked: every check refuses a locked row.       *)

LockInv ==
    ~raced => /\ \A r, s \in Reqs : r # s => req[r].op = "idle" \/ req[s].op = "idle"
              /\ status = "DEAN_LOCKED" => \A r \in Reqs : req[r].op = "idle"

\* A request enters only alone, and only while the row is not locked.
LEMMA LockBegin ==
    ASSUME TypeOK, LockInv, NEW r \in Reqs, NEW a, Begin(r, a),
           status # "DEAN_LOCKED"
    PROVE  LockInv'
BY DEF LockInv, TypeOK, Begin, row

\* A request that answers leaves the others as they are.
LEMMA LockEnd ==
    ASSUME TypeOK, LockInv, NEW r \in Reqs, req[r].op # "idle", End(r), raced' = raced
    PROVE  LockInv'
BY DEF LockInv, TypeOK, End, Idle

\* Without overlapping requests a row the Dean has locked never changes again.
THEOREM LockHolds == Spec => LockedImmutable
<1>1. Init => LockInv
    BY DEF Init, LockInv, Idle
<1>2. TypeOK /\ LockInv /\ [Next]_vars => LockInv'
  <2> SUFFICES ASSUME TypeOK, LockInv, [Next]_vars PROVE LockInv'
    OBVIOUS
  <2>1. ASSUME NEW r \in Reqs, NEW given \in Given, NEW mx \in Maxima,
               CreateCheck(r, given, mx) \/ CreateOrUpdateCheck(r, given, mx)
        PROVE  LockInv'
    BY <2>1, LockBegin DEF CreateCheck, CreateOrUpdateCheck
  <2>2. ASSUME NEW r \in Reqs, NEW given \in Given, UpdateCheck(r, given)
        PROVE  LockInv'
    BY <2>2, LockBegin DEF UpdateCheck
  <2>3. ASSUME NEW r \in Reqs, SubmitCheck(r) \/ LockCheck(r)
        PROVE  LockInv'
    BY <2>3, LockBegin DEF SubmitCheck, LockCheck
  <2>4. ASSUME NEW r \in Reqs,
               \/ CreateWrite(r) \/ EditWrite(r) \/ SubmitWrite(r) \/ LockWrite(r)
               \/ Abandon(r)
        PROVE  LockInv'
    <3>1. req[r].op # "idle" /\ End(r) /\ raced' = raced
      BY <2>4 DEF CreateWrite, EditWrite, SubmitWrite, LockWrite, Abandon
    <3> QED
      BY <3>1, LockEnd
  <2>5. CASE UNCHANGED vars
    BY <2>5 DEF LockInv, vars, row
  <2> QED
    BY <2>1, <2>2, <2>3, <2>4, <2>5 DEF Next
<1>3. LockInv /\ [Next]_vars => [row' # row => raced \/ status # "DEAN_LOCKED"]_vars
  <2> SUFFICES ASSUME LockInv, Next, row' # row, ~raced, status = "DEAN_LOCKED"
               PROVE  FALSE
    BY DEF vars
  <2>1. PICK r \in Reqs : CreateWrite(r) \/ EditWrite(r) \/ SubmitWrite(r) \/ LockWrite(r)
    BY DEF Next, CreateCheck, CreateOrUpdateCheck, UpdateCheck, SubmitCheck, LockCheck,
           Begin, Abandon
  <2>2. req[r].op # "idle"
    BY <2>1 DEF CreateWrite, EditWrite, SubmitWrite, LockWrite
  <2> QED
    BY <2>2 DEF LockInv
<1> QED
    BY <1>1, <1>2, <1>3, TypeCorrect, PTL DEF Spec, LockedImmutable
=============================================================================
