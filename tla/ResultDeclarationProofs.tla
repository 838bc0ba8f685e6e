---------------------- MODULE ResultDeclarationProofs ----------------------
(***************************************************************************)
(* Proofs about ResultDeclaration, for any number of requests, courses,    *)
(* components and grace entries.  Whatever overlaps, every row keeps its   *)
(* type and a declaration has been through its gates.  As long as nothing  *)
(* overlaps, a LOCKED declaration is final, a LOCKED component keeps its   *)
(* marks, and results, grace log, grades and internal marks agree.         *)
(***************************************************************************)
EXTENDS ResultDeclaration, FiniteSetTheorems, TLAPS

----------------------------------------------------------------------------
(* The gates of a declaration, and that a LOCKED one is final.             *)

\* req is a function on Reqs; nothing else is asked of its values.
ReqFun == req = [r \in Reqs |-> req[r]]

\* What a pending request found at its check is still in gates when it writes.
PendingGates ==
    \A r \in Reqs :
        /\ req[r].op = "publish" => "verify" \in gates
        /\ req[r].op = "lock" => {"verify", "publish"} \subseteq gates

StatusOK == declared \in DeclarationStatus \cup {"NONE"}

GateInv == ReqFun /\ StatusOK /\ ResultGates /\ PendingGates

\* Fields set in a request leave its kind.
LEMMA AskedFields ==
    ASSUME NEW op
    PROVE  /\ Asked(op).op = op
           /\ \A f : [Asked(op) EXCEPT !.flag = f].op = op
           /\ \A k, x, y : [Asked(op) EXCEPT !.k = k, !.seenExt = x, !.newExt = y].op = op
           /\ \A x, y : [Asked(op) EXCEPT !.seen = x, !.new = y].op = op
           /\ \A k, x, y : [Asked(op) EXCEPT !.k = k, !.seen = x, !.new = y].op = op
           /\ \A l, x, y : [Asked(op) EXCEPT !.log = l, !.seen = x, !.new = y].op = op
           /\ \A x, y : [Asked(op) EXCEPT !.seenAll = x, !.newAll = y].op = op
  BY DEF Asked

\* The kinds of request a check can start, with the statuses it asks for.
Asks(op) ==
    CASE op \in {"update", "verify", "delete"} -> {"DRAFT"}
      [] op \in {"publish", "revert"}          -> {"VERIFIED"}
      [] op = "lock"                           -> {"PUBLISHED"}
      [] op \in {"grace", "revoke"}            -> {"DRAFT", "VERIFIED"}
      [] op \in {"external", "compute"}        -> {"DRAFT", "VERIFIED", "PUBLISHED"}
      [] OTHER                                 -> DeclarationStatus

Starts(r, a) ==
    /\ a.op \in Ops \ {"idle"}
    /\ declared \in Asks(a.op)
    /\ Begin(r, a)

\* A check starts a request of some kind, in a status its kind asks for.
LEMMA CheckStarts ==
    ASSUME NEW r \in Reqs, Check(r), StatusOK
    PROVE  \E a : Starts(r, a)
<1> USE DEF StatusOK
<1>0. ASSUME NEW a, a.op \in Ops \ {"idle"}, declared \in Asks(a.op), Begin(r, a)
      PROVE  \E b : Starts(r, b)
  BY <1>0 DEF Starts
<1>1. CASE UpdateCheck(r)
  <2> DEFINE a == [Asked("update") EXCEPT !.flag = ~required]
  <2>1. a.op = "update"
    BY AskedFields
  <2>2. declared = "DRAFT" /\ Begin(r, a)
    BY <1>1 DEF UpdateCheck
  <2> HIDE DEF a
  <2> QED
    BY <1>0, <2>1, <2>2 DEF Asks, Ops
<1>2. CASE VerifyCheck(r)
  BY <1>2, <1>0, AskedFields DEF VerifyCheck, Asks, Ops
<1>3. CASE PublishCheck(r)
  BY <1>3, <1>0, AskedFields DEF PublishCheck, Asks, Ops
<1>4. CASE LockCheck(r)
  BY <1>4, <1>0, AskedFields DEF LockCheck, Asks, Ops
<1>5. CASE RevertCheck(r)
  BY <1>5, <1>0, AskedFields DEF RevertCheck, Asks, Ops
<1>6. CASE DeleteCheck(r)
  BY <1>6, <1>0, AskedFields DEF DeleteCheck, Asks, Ops
<1>7. CASE ComputeCheck(r)
  <2> DEFINE a == [Asked("compute") EXCEPT
                    !.seen = result, !.new = [k \in Courses |-> ComputedRow(k)]]
  <2>1. a.op = "compute"
    BY AskedFields
  <2>2. declared \notin {"NONE", "LOCKED"} /\ Begin(r, a)
    BY <1>7 DEF ComputeCheck
  <2> HIDE DEF a
  <2> QED
    BY <1>0, <2>1, <2>2 DEF Asks, Ops, DeclarationStatus
<1>8. CASE SgpaCheck(r)
  <2> DEFINE a == [Asked("sgpa") EXCEPT
                    !.seenAll = overall,
                    !.newAll = IF \A k \in Courses :
                                     result[k].status \in {"NONE", "ABSENT", "PASS"}
                               THEN "PASS" ELSE "FAIL"]
  <2>1. a.op = "sgpa"
    BY AskedFields
  <2>2. declared # "NONE" /\ Begin(r, a)
    BY <1>8 DEF SgpaCheck
  <2> HIDE DEF a
  <2> QED
    BY <1>0, <2>1, <2>2 DEF Asks, Ops, DeclarationStatus
<1>9. CASE \E k \in Courses, x \in External : ExternalCheck(r, k, x)
  <2>0. PICK k \in Courses, x \in External : ExternalCheck(r, k, x)
    BY <1>9
  <2> DEFINE a == [Asked("external") EXCEPT
                    !.k = k, !.seenExt = external[k], !.newExt = x]
  <2>1. a.op = "external"
    BY AskedFields
  <2>2. declared \notin {"NONE", "LOCKED"} /\ Begin(r, a)
    BY <2>0 DEF ExternalCheck
  <2> HIDE DEF a
  <2> QED
    BY <1>0, <2>1, <2>2 DEF Asks, Ops, DeclarationStatus
<1>10. CASE \E k \in Courses, g \in MarkValues \ {0} : ApplyGraceCheck(r, k, g)
  <2>0. PICK k \in Courses, g \in MarkValues \ {0} : ApplyGraceCheck(r, k, g)
    BY <1>10
  <2> DEFINE a == [Asked("grace") EXCEPT
                    !.k = k, !.seen = result, !.new = [result EXCEPT ![k] = GracedRow(k, g)]]
  <2>1. a.op = "grace"
    BY AskedFields
  <2>2. declared \in {"DRAFT", "VERIFIED"} /\ Begin(r, a)
    BY <2>0 DEF ApplyGraceCheck
  <2> HIDE DEF a
  <2> QED
    BY <1>0, <2>1, <2>2 DEF Asks, Ops, DeclarationStatus
<1>11. CASE \E l \in Logs : RevokeGraceCheck(r, l)
  <2>0. PICK l \in Logs : RevokeGraceCheck(r, l)
    BY <1>11
  <2> DEFINE a == [Asked("revoke") EXCEPT
                    !.log = l, !.seen = result,
                    !.new = [result EXCEPT ![log[l].course].grace = NoMark]]
  <2>1. a.op = "revoke"
    BY AskedFields
  <2>2. declared \in {"DRAFT", "VERIFIED"} /\ Begin(r, a)
    BY <2>0 DEF RevokeGraceCheck
  <2> HIDE DEF a
  <2> QED
    BY <1>0, <2>1, <2>2 DEF Asks, Ops, DeclarationStatus
<1> QED
  BY <1>1, <1>2, <1>3, <1>4, <1>5, <1>6, <1>7, <1>8, <1>9, <1>10, <1>11 DEF Check

----------------------------------------------------------------------------
\* One request begins and leaves the declaration as it is.
LEMMA StartEffect ==
    ASSUME NEW r \in Reqs, NEW a, Starts(r, a), ReqFun
    PROVE  /\ ReqFun'
           /\ \A s \in Reqs : req'[s] = IF s = r THEN a ELSE req[s]
           /\ a.op \in Ops \ {"idle"} /\ declared \in Asks(a.op)
           /\ UNCHANGED <<declaration, gates, revoked>>
           /\ ~raced' => ~raced /\ \A s \in Reqs \ {r} : req[s].op = "idle"
  BY DEF Starts, Begin, ReqFun

\* A request that ends is idle, and the others stay as they are.
LEMMA EndEffect ==
    ASSUME NEW r \in Reqs, End(r), ReqFun
    PROVE  ReqFun' /\ \A s \in Reqs : req'[s] = IF s = r THEN Asked("idle") ELSE req[s]
  BY DEF End, ReqFun

\* The gates hold at the start.
LEMMA GateInit == Init => GateInv
  BY AskedFields DEF Init, DeclInit, GateInv, ReqFun, StatusOK, ResultGates, PendingGates

\* A request that begins found what its kind asks for.
LEMMA GateStart ==
    ASSUME GateInv, NEW r \in Reqs, NEW a, Starts(r, a)
    PROVE  GateInv'
<1>1. StatusOK' /\ ResultGates' /\ ReqFun'
  BY StartEffect DEF GateInv, StatusOK, ResultGates, declaration
<1>2. PendingGates'
  <2> SUFFICES ASSUME NEW s \in Reqs
               PROVE  /\ req'[s].op = "publish" => "verify" \in gates'
                      /\ req'[s].op = "lock" => {"verify", "publish"} \subseteq gates'
    BY DEF PendingGates
  <2>1. CASE s = r
    <3>1. a.op = "publish" => declared = "VERIFIED"
      BY StartEffect DEF GateInv, Asks
    <3>2. a.op = "lock" => declared = "PUBLISHED"
      BY StartEffect DEF GateInv, Asks
    <3> QED
      BY <2>1, <3>1, <3>2, StartEffect DEF GateInv, ResultGates
  <2>2. CASE s # r
    BY <2>2, StartEffect DEF GateInv, PendingGates
  <2> QED
    BY <2>1, <2>2
<1> QED
  BY <1>1, <1>2 DEF GateInv

\* A write either keeps the status, or sets it and its gate, or deletes.
LEMMA GateWrite ==
    ASSUME GateInv, NEW r \in Reqs, Write(r)
    PROVE  GateInv'
<1> USE DEF GateInv
<1>1. ASSUME End(r), UNCHANGED <<declared, gates>>
      PROVE  GateInv'
  BY <1>1, EndEffect, AskedFields DEF StatusOK, ResultGates, PendingGates
<1>2. CASE VerifyWrite(r)
  BY <1>2, EndEffect, AskedFields
  DEF VerifyWrite, DeclTransition, StatusOK, ResultGates, PendingGates, DeclarationStatus
<1>3. CASE PublishWrite(r)
  BY <1>3, EndEffect, AskedFields
  DEF PublishWrite, DeclTransition, StatusOK, ResultGates, PendingGates, DeclarationStatus
<1>4. CASE LockWrite(r)
  BY <1>4, EndEffect, AskedFields
  DEF LockWrite, DeclTransition, StatusOK, ResultGates, PendingGates, DeclarationStatus
<1>5. CASE RevertWrite(r)
  BY <1>5, EndEffect, AskedFields
  DEF RevertWrite, DeclTransition, StatusOK, ResultGates, PendingGates, DeclarationStatus
<1>6. CASE DeleteWrite(r)
  <2>1. CASE End(r) /\ UNCHANGED <<declared, gates>>
    BY <2>1, <1>1
  <2>2. CASE declared' = "NONE" /\ req' = [s \in Reqs |-> Asked("idle")]
    BY <2>2, AskedFields DEF ReqFun, StatusOK, ResultGates, PendingGates
  <2> QED
    BY <1>6, <2>1, <2>2 DEF DeleteWrite, WithoutRow
<1>7. CASE UpdateWrite(r)
  BY <1>7, <1>1 DEF UpdateWrite
<1>8. CASE ExternalWrite(r)
  BY <1>8, <1>1 DEF ExternalWrite
<1>9. CASE ComputeWrite(r)
  BY <1>9, <1>1 DEF ComputeWrite
<1>10. CASE ApplyGraceWrite(r)
  BY <1>10, <1>1 DEF ApplyGraceWrite
<1>11. CASE RevokeGraceWrite(r)
  BY <1>11, <1>1 DEF RevokeGraceWrite
<1>12. CASE SgpaWrite(r)
  BY <1>12, <1>1 DEF SgpaWrite
<1> QED
  BY <1>2, <1>3, <1>4, <1>5, <1>6, <1>7, <1>8, <1>9, <1>10, <1>11, <1>12 DEF Write

\* Every step keeps the gates.
LEMMA GateNext == GateInv /\ [Next]_vars => GateInv'
<1> SUFFICES ASSUME GateInv, [Next]_vars
             PROVE  GateInv'
  OBVIOUS
<1>1. ASSUME UNCHANGED <<declared, gates, req>>
      PROVE  GateInv'
  BY <1>1 DEF GateInv, ReqFun, StatusOK, ResultGates, PendingGates
<1>2. CASE CreateDeclaration
  BY <1>2 DEF CreateDeclaration, GateInv, ReqFun, StatusOK, ResultGates, PendingGates,
              DeclarationStatus
<1>3. ASSUME NEW r \in Reqs, Check(r)
      PROVE  GateInv'
  BY <1>3, CheckStarts, GateStart DEF GateInv
<1>4. ASSUME NEW r \in Reqs, Abandon(r)
      PROVE  GateInv'
  BY <1>4, EndEffect, AskedFields
  DEF Abandon, declaration, GateInv, StatusOK, ResultGates, PendingGates
<1>5. CASE ComponentNext
  BY <1>5, <1>1 DEF ComponentNext, declaration
<1>6. CASE UNCHANGED vars
  BY <1>6, <1>1 DEF vars, declVars, declaration
<1> QED
  BY <1>2, <1>3, <1>4, <1>5, <1>6, GateWrite DEF Next, DeclNext

\* Whatever requests overlap or fail, a declaration is VERIFIED, PUBLISHED or
\* LOCKED only after people have taken it through the gates before.
THEOREM GatesHold == Spec => []ResultGates
<1>1. Spec => []GateInv
  BY GateInit, GateNext, PTL DEF Spec
<1>2. GateInv => ResultGates
  BY DEF GateInv
<1> QED
  BY <1>1, <1>2, PTL

----------------------------------------------------------------------------
\* Without overlap a pending request is the only one, and the status is still
\* one that its check asked for.
Solo ==
    ~raced => \A r \in Reqs :
        req[r].op # "idle" =>
            declared \in Asks(req[r].op) /\ \A s \in Reqs \ {r} : req[s].op = "idle"

FinalInv == ReqFun /\ StatusOK /\ Solo

\* What a LOCKED declaration keeps.
Kept == <<declared, external, result, log>>

\* At the start no request is pending.
LEMMA SoloInit == Init => FinalInv
  BY AskedFields DEF Init, DeclInit, FinalInv, ReqFun, StatusOK, Solo

\* A request that begins alone found the status its kind asks for.
LEMMA SoloStart ==
    ASSUME FinalInv, NEW r \in Reqs, NEW a, Starts(r, a)
    PROVE  Solo'
<1> SUFFICES ASSUME ~raced', NEW s \in Reqs, req'[s].op # "idle"
             PROVE  declared' \in Asks(req'[s].op) /\ \A t \in Reqs \ {s} : req'[t].op = "idle"
  BY DEF Solo
<1>1. \A t \in Reqs \ {r} : req'[t].op = "idle"
  BY StartEffect DEF FinalInv
<1>2. s = r /\ req'[r] = a
  BY <1>1, StartEffect DEF FinalInv
<1>3. declared' \in Asks(a.op)
  BY StartEffect DEF FinalInv, declaration
<1> QED
  BY <1>1, <1>2, <1>3

\* Whoever writes was the only one: nobody is left.
LEMMA SoloEnd ==
    ASSUME FinalInv, NEW r \in Reqs, req[r].op # "idle", End(r), UNCHANGED raced
    PROVE  Solo'
<1> SUFFICES ASSUME ~raced
             PROVE  \A s \in Reqs : req'[s].op = "idle"
  BY DEF Solo
<1> QED
  BY EndEffect, AskedFields DEF FinalInv, Solo

\* A write of the one pending request leaves no other.
LEMMA SoloWrite ==
    ASSUME FinalInv, NEW r \in Reqs, Write(r)
    PROVE  req[r].op # "idle" /\ Solo'
<1>1. CASE DeleteWrite(r) /\ ~End(r)
  <2>1. req' = [s \in Reqs |-> Asked("idle")] /\ req[r].op = "delete"
    BY <1>1 DEF DeleteWrite, WithoutRow
  <2> QED
    BY <2>1, AskedFields DEF Solo
<1>2. CASE End(r)
  <2>1. req[r].op # "idle" /\ UNCHANGED raced
    BY DEF Write, UpdateWrite, VerifyWrite, PublishWrite, LockWrite, RevertWrite,
           DeclTransition, DeleteWrite, WithoutRow, ExternalWrite, ComputeWrite, ApplyGraceWrite,
           RevokeGraceWrite, SgpaWrite
  <2> QED
    BY <1>2, <2>1, SoloEnd
<1>3. End(r) \/ DeleteWrite(r)
  BY DEF Write, UpdateWrite, VerifyWrite, PublishWrite, LockWrite, RevertWrite,
         DeclTransition, ExternalWrite, ComputeWrite, ApplyGraceWrite,
         RevokeGraceWrite, SgpaWrite
<1> QED
  BY <1>1, <1>2, <1>3

\* Every step keeps the requests alone, as long as none overlap.
LEMMA SoloNext == GateInv /\ FinalInv /\ [Next]_vars => FinalInv'
<1> SUFFICES ASSUME GateInv, FinalInv, [Next]_vars
             PROVE  Solo'
  BY GateNext DEF GateInv, FinalInv
<1>1. ASSUME UNCHANGED <<declared, req>>, raced => raced'
      PROVE  Solo'
  BY <1>1 DEF FinalInv, Solo
<1>2. CASE CreateDeclaration
  <2>1. \A op : "NONE" \notin Asks(op)
    BY DEF Asks, DeclarationStatus
  <2> QED
    BY <1>2, <2>1 DEF CreateDeclaration, FinalInv, Solo
<1>3. ASSUME NEW r \in Reqs, Check(r)
      PROVE  Solo'
  BY <1>3, CheckStarts, SoloStart DEF FinalInv
<1>4. ASSUME NEW r \in Reqs, Abandon(r)
      PROVE  Solo'
  BY <1>4, SoloEnd DEF Abandon
<1>5. CASE ComponentNext
  BY <1>5, <1>1 DEF ComponentNext, declaration
<1>6. CASE UNCHANGED vars
  BY <1>6, <1>1 DEF vars, declVars, declaration
<1> QED
  BY <1>2, <1>3, <1>4, <1>5, <1>6, SoloWrite DEF Next, DeclNext

\* On a LOCKED declaration only compute_sgpa_cgpa still writes.
LEMMA LockedKeeps ==
    FinalInv /\ [Next]_vars => (Kept' # Kept => raced \/ declared # "LOCKED")
<1> SUFFICES ASSUME FinalInv, [Next]_vars, ~raced, declared = "LOCKED"
             PROVE  Kept' = Kept
  OBVIOUS
<1>1. CASE CreateDeclaration
  BY <1>1 DEF CreateDeclaration
<1>2. ASSUME NEW r \in Reqs, Check(r)
      PROVE  Kept' = Kept
  BY <1>2, CheckStarts DEF FinalInv, Starts, Begin, declaration, Kept
<1>3. ASSUME NEW r \in Reqs, Write(r)
      PROVE  Kept' = Kept
  <2>1. "LOCKED" \in Asks(req[r].op)
    BY <1>3, SoloWrite DEF FinalInv, Solo
  <2>2. req[r].op \notin {"update", "verify", "delete", "publish", "revert", "lock",
                          "grace", "revoke", "external", "compute"}
    BY <2>1 DEF Asks
  <2>3. SgpaWrite(r)
    BY <1>3, <2>2 DEF Write, UpdateWrite, VerifyWrite, PublishWrite, LockWrite, RevertWrite,
         DeclTransition, DeleteWrite, WithoutRow, ExternalWrite, ComputeWrite, ApplyGraceWrite,
         RevokeGraceWrite
  <2> QED
    BY <2>3 DEF SgpaWrite, Kept
<1>4. ASSUME NEW r \in Reqs, Abandon(r)
      PROVE  Kept' = Kept
  BY <1>4 DEF Abandon, declaration, Kept
<1>5. CASE ComponentNext
  BY <1>5 DEF ComponentNext, declaration, Kept
<1>6. CASE UNCHANGED vars
  BY <1>6 DEF vars, declVars, declaration, Kept
<1> QED
  BY <1>1, <1>2, <1>3, <1>4, <1>5, <1>6 DEF Next, DeclNext

\* As long as no requests overlap, a LOCKED declaration keeps its status, its
\* external marks, its subject results and its grace log for good.
THEOREM LockedHolds == Spec => LockedIsFinal
<1>1. Init => GateInv /\ FinalInv
  BY GateInit, SoloInit
<1>2. GateInv /\ FinalInv /\ [Next]_vars => (GateInv /\ FinalInv)'
  BY GateNext, SoloNext
<1>3. GateInv /\ FinalInv /\ [Next]_vars
          => [Kept' # Kept => raced \/ declared # "LOCKED"]_vars
  BY LockedKeeps
<1> QED
  BY <1>1, <1>2, <1>3, PTL DEF Spec, LockedIsFinal, Kept

----------------------------------------------------------------------------
(* Sums of marks over finite sets of components.                           *)

\* The sum of e over S, as the model writes it.
Total(e, S) == MapThenSumSet(LAMBDA c : e[c], S)

Picked(s) == CHOOSE x \in s : TRUE

\* The sum of e over s, by what f says of smaller sets.
SumStep(e, f, s) == IF s = {} THEN 0 ELSE e[Picked(s)] + f[s \ {Picked(s)}]

Sums(e, S, f) == f = [s \in SUBSET S |-> SumStep(e, f, s)]

\* Total is what the fold of the community modules defines.
LEMMA TotalDef ==
  ASSUME NEW e, NEW S
  PROVE  Total(e, S) = (CHOOSE f : Sums(e, S, f))[S]
BY DEF Total, MapThenSumSet, MapThenFoldSet, Sums, SumStep, Picked

\* A sum depends on the summands only.
LEMMA TotalCong ==
  ASSUME NEW e, NEW d, NEW S, \A c \in S : e[c] = d[c]
  PROVE  Total(e, S) = Total(d, S)
<1>1. \A f : Sums(e, S, f) <=> Sums(d, S, f)
  <2>1. \A f : \A s \in SUBSET S : SumStep(e, f, s) = SumStep(d, f, s)
    BY DEF SumStep, Picked
  <2> QED
    BY <2>1 DEF Sums
<1>2. (CHOOSE f : Sums(e, S, f)) = (CHOOSE f : Sums(d, S, f))
  BY <1>1
<1> QED
  BY <1>2, TotalDef

\* Every set that is not empty has the element the fold takes first.
LEMMA PickedIn == ASSUME NEW s, s # {} PROVE Picked(s) \in s
BY DEF Picked

\* Over a finite set the fold is defined: the sums up to each size exist, the
\* least size without them being impossible.
LEMMA SumsExist == ASSUME NEW e, NEW S, IsFiniteSet(S) PROVE \E f : Sums(e, S, f)
<1> DEFINE Small(n) == {s \in SUBSET S : Cardinality(s) <= n}
           Part(n, f) == f = [s \in Small(n) |-> SumStep(e, f, s)]
           Bad == {n \in Nat : ~\E f : Part(n, f)}
<1>1. \A s \in SUBSET S :
         IsFiniteSet(s) /\ Cardinality(s) \in Nat /\ Cardinality(s) <= Cardinality(S)
  BY FS_Subset, FS_CardinalityType
<1>2. \A s \in SUBSET S : s # {} =>
         s \ {Picked(s)} \in SUBSET S /\ Cardinality(s \ {Picked(s)}) = Cardinality(s) - 1
  BY <1>1, PickedIn, FS_RemoveElement
<1>3. Bad = {}
  <2> SUFFICES ASSUME Bad # {} PROVE FALSE
    OBVIOUS
  <2>1. PICK n \in Bad : \A m \in Bad : ~(<<m, n>> \in OpToRel(<, Nat))
    BY NatLessThanWellFounded, WFMin, Zenon
  <2>2. \A m \in Bad : ~(m < n)
    <3> SUFFICES ASSUME NEW m \in Bad, m < n PROVE FALSE
      OBVIOUS
    <3>1. <<m, n>> \in Nat \X Nat
      OBVIOUS
    <3>2. <<m, n>> \in OpToRel(<, Nat)
      BY <3>1, Zenon DEF OpToRel
    <3> QED
      BY <2>1, <3>2
  <2>3. CASE n = 0
    <3>1. Small(0) = {{}}
      <4>1. ASSUME NEW s \in SUBSET S, Cardinality(s) <= 0 PROVE s = {}
        <5>1. IsFiniteSet(s) /\ Cardinality(s) \in Nat
          BY <1>1
        <5>2. Cardinality(s) = 0
          BY <4>1, <5>1
        <5> QED
          BY <5>1, <5>2, FS_EmptySet
      <4>2. Cardinality({}) = 0
        BY FS_EmptySet
      <4>3. \A s \in SUBSET S : Cardinality(s) <= 0 <=> s = {}
        BY <4>1, <4>2
      <4> QED
        BY <4>3
    <3>2. Part(0, [s \in Small(0) |-> 0])
      BY <3>1 DEF SumStep
    <3> HIDE DEF Part
    <3> QED
      BY <2>3, <3>2
  <2>4. CASE n # 0
    <3>1. n - 1 \in Nat /\ n - 1 < n
      BY <2>4
    <3>2. n - 1 \notin Bad
      BY <2>2, <3>1
    <3>3. PICK f : Part(n - 1, f)
      BY <3>1, <3>2
    <3> DEFINE g == [s \in Small(n) |-> SumStep(e, f, s)]
    <3>4. \A s \in Small(n) : s # {} => s \ {Picked(s)} \in Small(n - 1)
      BY <1>1, <1>2, <3>1
    <3>5. \A s \in Small(n - 1) : s \in Small(n) /\ g[s] = f[s]
      <4>1. \A s \in Small(n - 1) : s \in Small(n)
        BY <1>1, <3>1
      <4>2. \A s \in Small(n - 1) : f[s] = SumStep(e, f, s)
        BY <3>3
      <4> QED
        BY <4>1, <4>2
    <3>6. \A s \in Small(n) : SumStep(e, g, s) = SumStep(e, f, s)
      <4> HIDE DEF g, Small
      <4> QED
        BY <3>4, <3>5 DEF SumStep
    <3>7. Part(n, g)
      BY <3>6
    <3> HIDE DEF Part, g
    <3> QED
      BY <3>7
  <2> QED
    BY <2>3, <2>4
<1>4. Cardinality(S) \in Nat /\ Small(Cardinality(S)) = SUBSET S
  BY <1>1
<1>5. PICK f : Part(Cardinality(S), f)
  BY <1>3, <1>4
<1> QED
  BY <1>4, <1>5 DEF Sums

\* The sum of natural numbers over a finite set is a natural number: there is
\* no smallest subset whose sum is not.
LEMMA TotalType ==
  ASSUME NEW e, NEW S, IsFiniteSet(S), \A c \in S : e[c] \in Nat
  PROVE  Total(e, S) \in Nat
<1> DEFINE f == CHOOSE g : Sums(e, S, g)
           Bad == {s \in SUBSET S : f[s] \notin Nat}
<1>1. Sums(e, S, f)
  BY SumsExist
<1> HIDE DEF f
<1>2. \A s \in SUBSET S : f[s] = SumStep(e, f, s)
  BY <1>1 DEF Sums
<1>3. Bad = {}
  <2> SUFFICES ASSUME Bad # {} PROVE FALSE
    OBVIOUS
  <2>1. IsWellFoundedOn(StrictSubsetOrdering(S), SUBSET S)
    BY FS_StrictSubsetOrderingWellFounded, FS_FiniteSubsetsOfFinite
  <2>2. PICK s \in Bad : \A t \in Bad : ~(<<t, s>> \in StrictSubsetOrdering(S))
    BY <2>1, WFMin
  <2>3. CASE s = {}
    <3>1. f[s] = 0
      BY <1>2, <2>3 DEF SumStep
    <3> QED
      BY <3>1
  <2>4. CASE s # {}
    <3>1. Picked(s) \in s
      BY <2>4, PickedIn
    <3>2. s \ {Picked(s)} \in SUBSET S /\ <<s \ {Picked(s)}, s>> \in StrictSubsetOrdering(S)
      BY <3>1 DEF StrictSubsetOrdering
    <3>3. f[s \ {Picked(s)}] \in Nat
      BY <2>2, <3>2
    <3>4. e[Picked(s)] \in Nat
      BY <3>1
    <3>5. f[s] = e[Picked(s)] + f[s \ {Picked(s)}]
      BY <1>2, <2>4 DEF SumStep
    <3>6. e[Picked(s)] + f[s \ {Picked(s)}] \in Nat
      BY <3>3, <3>4
    <3> QED
      BY <3>5, <3>6
  <2> QED
    BY <2>3, <2>4
<1> QED
  BY <1>3, TotalDef DEF f

----------------------------------------------------------------------------
(* Requests on components, rows, and what a flush writes.                  *)

\* The requests on the components.
LEMMA OnFields ==
    ASSUME NEW op, NEW c
    PROVE  /\ On(op, c).op = op /\ On(op, c).c = c
           /\ \A x, y : /\ [On(op, c) EXCEPT !.seen = x, !.new = y].op = op
                        /\ [On(op, c) EXCEPT !.seen = x, !.new = y].c = c
BY DEF On, MarksIdle

\* They are requests.
LEMMA OnTypes ==
    ASSUME NEW op \in MarksOps, NEW c \in Comps
    PROVE  /\ On(op, c) \in MarksRequest
           /\ \A x, y \in Marks :
                [On(op, c) EXCEPT !.seen = x, !.new = y] \in MarksRequest
<1>1. MarksIdle \in MarksRequest
    BY DEF MarksIdle, MarksRequest, Marks, MarksOps
<1>2. On(op, c) \in MarksRequest
    BY <1>1 DEF On, MarksRequest
<1>3. \A x, y \in Marks : [On(op, c) EXCEPT !.seen = x, !.new = y] \in MarksRequest
    BY <1>2 DEF MarksRequest
<1> QED
    BY <1>2, <1>3

\* A row is its six columns.
LEMMA RowFields ==
    ASSUME NEW row \in Row
    PROVE  /\ DOMAIN row = {"status", "internal", "external", "grace", "total", "outOf"}
           /\ row = [status |-> row.status, internal |-> row.internal, external |-> row.external,
                     grace |-> row.grace, total |-> row.total, outOf |-> row.outOf]
BY DEF Row

\* A flush of a row leaves a row.
LEMMA FlushType ==
    ASSUME NEW cur \in Row, NEW seen \in Row, NEW new \in Row
    PROVE  Flush(cur, seen, new) \in Row
<1> DEFINE F == Flush(cur, seen, new)
<1>1. DOMAIN cur = {"status", "internal", "external", "grace", "total", "outOf"}
    BY DEF Row
<1>2. F = [status |-> F.status, internal |-> F.internal, external |-> F.external,
                     grace |-> F.grace, total |-> F.total, outOf |-> F.outOf]
    BY <1>1 DEF Flush
<1>3. /\ F.status \in {cur.status, new.status}
      /\ F.internal \in {cur.internal, new.internal}
      /\ F.external \in {cur.external, new.external}
      /\ F.grace \in {cur.grace, new.grace}
      /\ F.total \in {cur.total, new.total}
      /\ F.outOf \in {cur.outOf, new.outOf}
    BY <1>1 DEF Flush
<1> HIDE DEF F
<1>4. F \in Row
    BY <1>2, <1>3 DEF Row
<1> QED
    BY <1>4 DEF F

\* A flush of what was read writes all that is new.
LEMMA FlushAll ==
    ASSUME NEW cur \in Row, NEW new \in Row
    PROVE  Flush(cur, cur, new) = new
<1>1. DOMAIN cur = DOMAIN new
    BY RowFields
<1>2. new = [f \in DOMAIN new |-> new[f]]
    BY RowFields DEF Row
<1>3. Flush(cur, cur, new) = [f \in DOMAIN new |-> new[f]]
    BY <1>1 DEF Flush
<1> QED
    BY <1>2, <1>3

----------------------------------------------------------------------------
(* The marks components below the declaration.                             *)

\* A pending request names its component.
Named == \A r \in MarksReqs : creq[r].op # "idle" => creq[r].c \in Comps

\* The status a pending request found its component in.
MarksAsks(op) ==
    CASE op \in {"publish", "delete"} -> {"DRAFT"}
      [] op = "lock"                  -> {"PUBLISHED"}
      [] op = "reopen"                -> {"LOCKED"}
      [] OTHER                        -> {"DRAFT", "PUBLISHED"}

MarksAlone ==
    ~craced => \A r \in MarksReqs :
        creq[r].op # "idle" =>
            /\ \A s \in MarksReqs \ {r} : creq[s].op = "idle"
            /\ creq[r].c \in Comps
            /\ cstatus[creq[r].c] \in MarksAsks(creq[r].op)

MarksChecks(r) ==
    \E c \in Comps :
        \/ PublishComponentCheck(r, c) \/ LockComponentCheck(r, c)
        \/ ReopenComponentCheck(r, c) \/ DeleteComponentCheck(r, c)
        \/ \E m \in Marks : EnterMarksCheck(r, c, m)

MarksWrites(r) ==
    \/ PublishComponentWrite(r) \/ LockComponentWrite(r)
    \/ ReopenComponentWrite(r) \/ DeleteComponentWrite(r)
    \/ EnterMarksWrite(r) \/ MarksAbandon(r)

StartsOn(r, a) ==
    /\ a \in MarksRequest
    /\ a.op # "idle" /\ a.c \in Comps
    /\ cstatus[a.c] \in MarksAsks(a.op)
    /\ MarksBegin(r, a)

\* A check starts a request on a component in a status its kind asks for.
LEMMA MarksCheckStarts ==
    ASSUME MarksTypeOK, NEW r \in MarksReqs, MarksChecks(r)
    PROVE  \E a : StartsOn(r, a)
<1>1. ASSUME NEW op \in {"publish", "lock", "reopen", "delete"}, NEW c \in Comps,
             cstatus[c] \in MarksAsks(op), MarksBegin(r, On(op, c))
      PROVE  \E a : StartsOn(r, a)
    <2>1. On(op, c) \in MarksRequest /\ On(op, c).op = op /\ On(op, c).c = c
      BY OnFields, OnTypes DEF MarksOps
    <2>2. StartsOn(r, On(op, c))
      BY <1>1, <2>1 DEF StartsOn
    <2> QED
      BY <2>2
<1>2. /\ MarksAsks("publish") = {"DRAFT"} /\ MarksAsks("delete") = {"DRAFT"}
      /\ MarksAsks("lock") = {"PUBLISHED"} /\ MarksAsks("reopen") = {"LOCKED"}
    BY DEF MarksAsks
<1>3. ASSUME NEW c \in Comps, PublishComponentCheck(r, c)
      PROVE  \E a : StartsOn(r, a)
    BY <1>1, <1>2, <1>3 DEF PublishComponentCheck
<1>4. ASSUME NEW c \in Comps, LockComponentCheck(r, c)
      PROVE  \E a : StartsOn(r, a)
    BY <1>1, <1>2, <1>4 DEF LockComponentCheck
<1>5. ASSUME NEW c \in Comps, ReopenComponentCheck(r, c)
      PROVE  \E a : StartsOn(r, a)
    BY <1>1, <1>2, <1>5 DEF ReopenComponentCheck
<1>6. ASSUME NEW c \in Comps, DeleteComponentCheck(r, c)
      PROVE  \E a : StartsOn(r, a)
    BY <1>1, <1>2, <1>6 DEF DeleteComponentCheck
<1>7. ASSUME NEW c \in Comps, NEW m \in Marks, EnterMarksCheck(r, c, m)
      PROVE  \E a : StartsOn(r, a)
    <2> DEFINE a == [On("enter", c) EXCEPT !.seen = entry[c], !.new = m]
    <2>1. entry[c] \in Marks /\ "enter" \in MarksOps
      BY DEF MarksTypeOK, MarksOps
    <2>2. a \in MarksRequest
      BY <2>1, OnTypes
    <2>3. a.op = "enter" /\ a.c = c
      BY OnFields
    <2>4. MarksBegin(r, a)
      BY <1>7 DEF EnterMarksCheck
    <2> HIDE DEF a
    <2>5. cstatus[c] \in {"DRAFT", "PUBLISHED"}
      BY <1>7 DEF EnterMarksCheck, Found, MarksTypeOK, ComponentStatus
    <2>6. StartsOn(r, a)
      BY <2>2, <2>3, <2>4, <2>5 DEF StartsOn, MarksAsks
    <2> QED
      BY <2>6
<1> QED
    BY <1>3, <1>4, <1>5, <1>6, <1>7 DEF MarksChecks

\* The writes of the components, by what they change.
LEMMA MarksWriteEffects ==
    ASSUME MarksTypeOK, NEW r \in MarksReqs, MarksWrites(r)
    PROVE  /\ creq[r].op # "idle" /\ MarksEnd(r) /\ UNCHANGED craced
           /\ \/ UNCHANGED <<cstatus, active, entry, reopened>>
              \/ /\ UNCHANGED <<active, entry>>
                 /\ \E s \in ComponentStatus :
                       /\ cstatus' = [cstatus EXCEPT ![creq[r].c] = s]
                       /\ \/ creq[r].op = "publish" /\ s = "PUBLISHED" /\ reopened' = reopened
                          \/ creq[r].op = "lock" /\ s = "LOCKED" /\ reopened' = reopened
                          \/ /\ creq[r].op = "reopen" /\ s = "PUBLISHED"
                             /\ reopened' = reopened \cup {creq[r].c}
              \/ /\ creq[r].op = "delete"
                 /\ active' = [active EXCEPT ![creq[r].c] = FALSE]
                 /\ UNCHANGED <<cstatus, entry, reopened>>
              \/ /\ creq[r].op = "enter"
                 /\ \E m \in Marks : entry' = [entry EXCEPT ![creq[r].c] = m]
                 /\ UNCHANGED <<cstatus, active, reopened>>
<1>1. CASE PublishComponentWrite(r) \/ LockComponentWrite(r) \/ ReopenComponentWrite(r)
    BY <1>1 DEF PublishComponentWrite, LockComponentWrite, ReopenComponentWrite, Transition,
                ComponentStatus
<1>2. CASE DeleteComponentWrite(r)
    BY <1>2 DEF DeleteComponentWrite
<1>3. CASE EnterMarksWrite(r)
    <2>1. creq[r].new \in Marks
      BY DEF MarksTypeOK, MarksRequest
    <2>2. CASE creq[r].c \in Comps
      <3>1. entry[creq[r].c] \in Marks
        BY <2>2 DEF MarksTypeOK
      <3> QED
        BY <1>3, <2>1, <3>1 DEF EnterMarksWrite
    <2>3. CASE creq[r].c \notin Comps
      <3>1. entry' = entry
        BY <1>3, <2>3 DEF EnterMarksWrite, MarksTypeOK
      <3> QED
        BY <1>3, <3>1 DEF EnterMarksWrite
    <2> QED
      BY <2>2, <2>3
<1>4. CASE MarksAbandon(r)
    BY <1>4 DEF MarksAbandon
<1> QED
    BY <1>1, <1>2, <1>3, <1>4 DEF MarksWrites

\* A step of the components creates one, checks, or writes.
LEMMA MarksCases ==
    ASSUME MarksNext
    PROVE  \/ \E c \in Comps : CreateComponent(c)
           \/ \E r \in MarksReqs : MarksChecks(r) \/ MarksWrites(r)
BY DEF MarksNext, MarksChecks, MarksWrites

\* The components keep their types.
LEMMA MarksTypeStep ==
    ASSUME MarksTypeOK, Named, MarksNext
    PROVE  MarksTypeOK' /\ Named'
<1>1. ASSUME NEW c \in Comps, CreateComponent(c)
      PROVE  MarksTypeOK' /\ Named'
    BY <1>1 DEF CreateComponent, MarksTypeOK, ComponentStatus, Named
<1>2. ASSUME NEW r \in MarksReqs, MarksChecks(r)
      PROVE  MarksTypeOK' /\ Named'
    <2>1. PICK a : StartsOn(r, a)
      BY <1>2, MarksCheckStarts
    <2> QED
      BY <2>1 DEF StartsOn, MarksBegin, MarksTypeOK, Named
<1>3. ASSUME NEW r \in MarksReqs, MarksWrites(r)
      PROVE  MarksTypeOK' /\ Named'
    <2>1. MarksIdle \in MarksRequest /\ MarksIdle.op = "idle"
      BY DEF MarksIdle, MarksRequest, Marks, MarksOps
    <2>2. creq' \in [MarksReqs -> MarksRequest] /\ Named'
      BY <1>3, <2>1, MarksWriteEffects DEF MarksEnd, MarksTypeOK, Named
    <2>3. cstatus' \in [Comps -> ComponentStatus \cup {"NONE"}] /\ craced' \in BOOLEAN
      BY <1>3, MarksWriteEffects DEF MarksTypeOK
    <2>4. active' \in [Comps -> BOOLEAN] /\ entry' \in [Comps -> Marks]
      BY <1>3, MarksWriteEffects DEF MarksTypeOK
    <2>5. creq[r].c \in Comps
      BY <1>3, MarksWriteEffects DEF Named
    <2>6. reopened' \in SUBSET Comps
      BY <1>3, <2>5, MarksWriteEffects DEF MarksTypeOK
    <2> QED
      BY <2>2, <2>3, <2>4, <2>6 DEF MarksTypeOK
<1> QED
    BY <1>1, <1>2, <1>3, MarksCases

\* Without overlap the one pending request finds its component as it did.
LEMMA MarksAloneStep ==
    ASSUME MarksTypeOK, Named, MarksAlone, MarksNext
    PROVE  (~craced' => ~craced) /\ MarksAlone'
<1>0. craced \in BOOLEAN
    BY DEF MarksTypeOK
<1>1. ASSUME NEW c \in Comps, CreateComponent(c)
      PROVE  (~craced' => ~craced) /\ MarksAlone'
    <2>1. craced' = craced /\ creq' = creq
      BY <1>1 DEF CreateComponent
    <2>2. \A d \in Comps : cstatus[d] # "NONE" => cstatus'[d] = cstatus[d]
      BY <1>1 DEF CreateComponent, MarksTypeOK
    <2>3. \A op : "NONE" \notin MarksAsks(op)
      BY DEF MarksAsks
    <2> QED
      BY <2>1, <2>2, <2>3 DEF MarksAlone
<1>2. ASSUME NEW r \in MarksReqs, MarksChecks(r)
      PROVE  (~craced' => ~craced) /\ MarksAlone'
    <2>1. PICK a : StartsOn(r, a)
      BY <1>2, MarksCheckStarts
    <2>2. /\ ~craced' => ~craced
          /\ ~craced' => \A s \in MarksReqs \ {r} : creq[s].op = "idle"
      BY <1>0, <2>1 DEF StartsOn, MarksBegin
    <2>3. \A s \in MarksReqs : creq'[s] = IF s = r THEN a ELSE creq[s]
      BY <2>1 DEF StartsOn, MarksBegin, MarksTypeOK
    <2>4. cstatus' = cstatus
      BY <2>1 DEF StartsOn, MarksBegin
    <2> QED
      BY <2>1, <2>2, <2>3, <2>4 DEF StartsOn, MarksAlone
<1>3. ASSUME NEW r \in MarksReqs, MarksWrites(r)
      PROVE  (~craced' => ~craced) /\ MarksAlone'
    <2>1. creq[r].op # "idle" /\ MarksEnd(r) /\ craced' = craced
      BY <1>3, MarksWriteEffects
    <2>2. \A s \in MarksReqs : creq'[s].op = IF s = r THEN "idle" ELSE creq[s].op
      BY <2>1 DEF MarksEnd, MarksTypeOK, MarksIdle
    <2> QED
      BY <2>1, <2>2 DEF MarksAlone
<1> QED
    BY <1>1, <1>2, <1>3, MarksCases

\* Without overlap a LOCKED component keeps its marks, and leaves that status
\* only to be reopened.
LEMMA LockedKept ==
    ASSUME MarksTypeOK, Named, MarksAlone, MarksNext, ~craced,
           NEW c \in Comps, cstatus[c] = "LOCKED"
    PROVE  /\ entry'[c] = entry[c] /\ active'[c] = active[c]
           /\ \/ cstatus'[c] = "LOCKED"
              \/ cstatus'[c] = "PUBLISHED" /\ c \in reopened'
<1>1. ASSUME NEW d \in Comps, CreateComponent(d)
      PROVE  entry' = entry /\ active' = active /\ cstatus'[c] = "LOCKED"
    BY <1>1 DEF CreateComponent, MarksTypeOK
<1>2. ASSUME NEW r \in MarksReqs, MarksChecks(r)
      PROVE  entry' = entry /\ active' = active /\ cstatus'[c] = "LOCKED"
    <2>1. UNCHANGED <<cstatus, active, entry>>
      BY <1>2, MarksCheckStarts DEF StartsOn, MarksBegin
    <2> QED
      BY <2>1
<1>3. ASSUME NEW r \in MarksReqs, MarksWrites(r)
      PROVE  /\ entry'[c] = entry[c] /\ active'[c] = active[c]
             /\ \/ cstatus'[c] = "LOCKED"
                \/ cstatus'[c] = "PUBLISHED" /\ c \in reopened'
    <2>1. creq[r].op # "idle"
      BY <1>3, MarksWriteEffects
    <2>2. creq[r].c \in Comps /\ cstatus[creq[r].c] \in MarksAsks(creq[r].op)
      BY <2>1 DEF MarksAlone
    <2>3. creq[r].c = c => creq[r].op = "reopen" \/ creq[r].op \notin
             {"publish", "lock", "delete", "enter"}
      BY <2>2 DEF MarksAsks
    <2>4. CASE creq[r].c # c
      BY <1>3, <2>4, MarksWriteEffects DEF MarksTypeOK
    <2>5. CASE creq[r].c = c
      BY <1>3, <2>3, <2>5, MarksWriteEffects DEF MarksTypeOK
    <2> QED
      BY <2>4, <2>5
<1> QED
    BY <1>1, <1>2, <1>3, MarksCases

\* No step opens a component again without remembering it.
LEMMA ReopenedGrows ==
    ASSUME MarksTypeOK, MarksNext
    PROVE  reopened \subseteq reopened'
<1>1. ASSUME NEW d \in Comps, CreateComponent(d)
      PROVE  reopened \subseteq reopened'
    BY <1>1 DEF CreateComponent
<1>2. ASSUME NEW r \in MarksReqs, MarksChecks(r)
      PROVE  reopened \subseteq reopened'
    BY <1>2, MarksCheckStarts DEF StartsOn, MarksBegin
<1>3. ASSUME NEW r \in MarksReqs, MarksWrites(r)
      PROVE  reopened \subseteq reopened'
    BY <1>3, MarksWriteEffects
<1> QED
    BY <1>1, <1>2, <1>3, MarksCases

\* A step of the declaration leaves the components alone.
LEMMA MarksUntouched ==
    ASSUME [Next]_vars
    PROVE  MarksNext \/ UNCHANGED marksVars
BY DEF Next, DeclNext, ComponentNext, vars

ComponentInv == MarksTypeOK /\ Named /\ MarksAlone

\* What every reachable state holds of the components and their requests.
LEMMA ComponentInvariant == Spec => []ComponentInv
<1>1. Init => ComponentInv
    <2> SUFFICES ASSUME MarksInit PROVE ComponentInv
      BY DEF Init
    <2>1. MarksIdle \in MarksRequest /\ MarksIdle.op = "idle"
      BY DEF MarksIdle, MarksRequest, Marks, MarksOps
    <2>2. MarksTypeOK
      BY <2>1 DEF MarksInit, MarksTypeOK, Marks
    <2>3. \A r \in MarksReqs : creq[r].op = "idle"
      BY <2>1 DEF MarksInit
    <2> QED
      BY <2>2, <2>3 DEF ComponentInv, Named, MarksAlone
<1>2. ComponentInv /\ [Next]_vars => ComponentInv'
    <2> SUFFICES ASSUME ComponentInv, [Next]_vars PROVE ComponentInv'
      OBVIOUS
    <2>1. CASE UNCHANGED marksVars
      BY <2>1 DEF ComponentInv, MarksTypeOK, Named, MarksAlone, marksVars
    <2>2. CASE MarksNext
      BY <2>2, MarksTypeStep, MarksAloneStep DEF ComponentInv
    <2> QED
      BY <2>1, <2>2, MarksUntouched
<1> QED
    BY <1>1, <1>2, PTL DEF Spec

\* The marks a LOCKED component holds stay, for any number of requests as long
\* as they do not overlap, and only a reopening takes it out of that status.
THEOREM LockedMarksHold == Spec => LockedMarksStay
<1>1. ComponentInv /\ [Next]_vars
        => [\A c \in Comps :
              cstatus[c] = "LOCKED" /\ ~craced =>
                 /\ entry'[c] = entry[c] /\ active'[c] = active[c]
                 /\ cstatus'[c] \in {"LOCKED", "PUBLISHED"}]_marksVars
    <2> SUFFICES ASSUME ComponentInv, [Next]_vars, ~UNCHANGED marksVars,
                        NEW c \in Comps, cstatus[c] = "LOCKED", ~craced
                 PROVE  /\ entry'[c] = entry[c] /\ active'[c] = active[c]
                        /\ cstatus'[c] \in {"LOCKED", "PUBLISHED"}
      OBVIOUS
    <2> QED
      BY MarksUntouched, LockedKept DEF ComponentInv
<1> QED
    BY <1>1, ComponentInvariant, PTL DEF Spec, LockedMarksStay

----------------------------------------------------------------------------
(* Type correctness of the declaration: what requests compute and carry.   *)

\* A request without data is a request that writes no row.
LEMMA AskedType ==
    ASSUME NEW op \in Ops
    PROVE  /\ Asked(op) \in Request /\ Asked(op).op = op
           /\ Asked(op).seen = NoResults /\ Asked(op).new = NoResults
           /\ NoResults \in [Courses -> Row]
<1>1. NoResult \in Row
    BY DEF NoResult, Row, MaybeNat, Marks
<1>2. NoResults \in [Courses -> Row]
    BY <1>1 DEF NoResults
<1>3. NoRow \in External
    BY DEF External
<1> QED
    BY <1>2, <1>3 DEF Asked, Request, Overall

\* What the checks change in the request they begin.
WithFlag(x, f) == [x EXCEPT !.flag = f]
WithMark(x, k, e, n) == [x EXCEPT !.k = k, !.seenExt = e, !.newExt = n]
WithAll(x, s, n) == [x EXCEPT !.seenAll = s, !.newAll = n]
WithRows(x, s, n) == [x EXCEPT !.seen = s, !.new = n]
WithCourse(x, k, s, n) == [x EXCEPT !.k = k, !.seen = s, !.new = n]
WithLog(x, l, s, n) == [x EXCEPT !.log = l, !.seen = s, !.new = n]

\* Each of them is a request of the same kind, with what was set.
LEMMA FlagFields ==
    ASSUME NEW x \in Request, NEW f \in BOOLEAN
    PROVE  /\ WithFlag(x, f) \in Request
           /\ WithFlag(x, f).op = x.op /\ WithFlag(x, f).new = x.new
BY DEF Request, WithFlag

\* As FlagFields, for external marks.
LEMMA MarkFields ==
    ASSUME NEW x \in Request, NEW k \in Courses, NEW e \in External, NEW n \in External
    PROVE  /\ WithMark(x, k, e, n) \in Request
           /\ WithMark(x, k, e, n).op = x.op /\ WithMark(x, k, e, n).new = x.new
           /\ WithMark(x, k, e, n).newExt = n
BY DEF Request, WithMark

\* As FlagFields, for the semester result.
LEMMA AllFields ==
    ASSUME NEW x \in Request, NEW s \in Overall, NEW n \in Overall
    PROVE  /\ WithAll(x, s, n) \in Request
           /\ WithAll(x, s, n).op = x.op /\ WithAll(x, s, n).new = x.new
BY DEF Request, WithAll

\* As FlagFields, for compute.
LEMMA RowsFields ==
    ASSUME NEW x \in Request, NEW s \in [Courses -> Row], NEW n \in [Courses -> Row]
    PROVE  /\ WithRows(x, s, n) \in Request
           /\ WithRows(x, s, n).op = x.op
           /\ WithRows(x, s, n).seen = s /\ WithRows(x, s, n).new = n
BY DEF Request, WithRows

\* As FlagFields, for grace.
LEMMA CourseFields ==
    ASSUME NEW x \in Request, NEW s \in [Courses -> Row], NEW n \in [Courses -> Row],
           NEW k \in Courses
    PROVE  /\ WithCourse(x, k, s, n) \in Request
           /\ WithCourse(x, k, s, n).op = x.op /\ WithCourse(x, k, s, n).k = k
           /\ WithCourse(x, k, s, n).seen = s /\ WithCourse(x, k, s, n).new = n
BY DEF Request, WithCourse

\* As FlagFields, for revoke.
LEMMA LogFields ==
    ASSUME NEW x \in Request, NEW s \in [Courses -> Row], NEW n \in [Courses -> Row],
           NEW l \in Logs
    PROVE  /\ WithLog(x, l, s, n) \in Request
           /\ WithLog(x, l, s, n).op = x.op /\ WithLog(x, l, s, n).log = l
           /\ WithLog(x, l, s, n).seen = s /\ WithLog(x, l, s, n).new = n
BY DEF Request, WithLog

\* Marks that are there are numbers, and the courses' components are finitely
\* many.
LEMMA Numbers ==
    /\ \A m \in MaybeNat \cup Marks : NumOf(m) \in Nat
    /\ MarkValues \subseteq Nat /\ NoMark \notin Nat
    /\ \A S \in SUBSET Comps : IsFiniteSet(S) /\ Cardinality(S) \in Nat
<1>1. MarkValues \subseteq Nat /\ NoMark \notin Nat
    BY ComponentAssumption
<1>2. IsFiniteSet(Comps)
    BY ComponentAssumption, FS_Product DEF Comps
<1>3. \A S \in SUBSET Comps : IsFiniteSet(S) /\ Cardinality(S) \in Nat
    BY <1>2, FS_Subset, FS_CardinalityType
<1> QED
    BY <1>1, <1>3 DEF NumOf, MaybeNat, Marks

\* The sum of the entries that count.
LEMMA InternalType ==
    ASSUME TypeOK, NEW k \in Courses
    PROVE  /\ InternalOf(k) \in MaybeNat
           /\ Counted(k) \in SUBSET Comps /\ IsFiniteSet(Counted(k))
           /\ \A c \in Counted(k) : entry[c] \in Nat
           /\ InternalOf(k) = IF Counted(k) = {} THEN NoMark ELSE Total(entry, Counted(k))
<1>1. Counted(k) \in SUBSET Comps
    BY DEF Counted
<1>2. \A c \in Counted(k) : entry[c] \in Nat
    BY Numbers DEF Counted, TypeOK, MarksTypeOK, Marks
<1>3. IsFiniteSet(Counted(k))
    BY <1>1, Numbers
<1>4. Total(entry, Counted(k)) \in Nat
    BY <1>2, <1>3, TotalType
<1>5. InternalOf(k) = IF Counted(k) = {} THEN NoMark ELSE Total(entry, Counted(k))
    BY DEF InternalOf, Total
<1> QED
    BY <1>1, <1>2, <1>3, <1>4, <1>5 DEF MaybeNat

\* A grade is a pass or a fail.
LEMMA GradedType == \A t, o : Graded(t, o) \in {"PASS", "FAIL"}
BY DEF Graded

\* What compute and grace make of a row is a row.
LEMMA ComputedType ==
    ASSUME TypeOK, NEW k \in Courses
    PROVE  ComputedRow(k) \in Row
<1> DEFINE out == MaxMark * (Cardinality(Counted(k)) + 1)
           sum == NumOf(InternalOf(k)) + NumOf(external[k]) + NumOf(result[k].grace)
           row(s, e, t) == [status |-> s, internal |-> InternalOf(k), external |-> e,
                            grace |-> result[k].grace, total |-> t, outOf |-> out]
<1>1. result[k] \in Row /\ result[k].grace \in Marks /\ external[k] \in External
    BY DEF TypeOK, DeclTypeOK, Row
<1>2. out \in Nat
    <2>1. Cardinality(Counted(k)) \in Nat /\ MaxMark \in Nat
      BY InternalType, Numbers, ComponentAssumption
    <2> QED
      BY <2>1
<1>3. InternalOf(k) \in MaybeNat
    BY InternalType
<1>4. \A s \in ResultStatus, e \in Marks, t \in MaybeNat : row(s, e, t) \in Row
    <2> HIDE DEF out
    <2> QED
      BY <1>1, <1>2, <1>3 DEF Row
<1>0. Absent \notin {NoMark, NoRow} /\ NoRow # NoMark
    BY DeclarationAssumption
<1>5. CASE external[k] = NoRow
    <2>1. ComputedRow(k) = result[k]
      BY <1>0, <1>5 DEF ComputedRow
    <2> QED
      BY <1>1, <2>1
<1>6. CASE external[k] = Absent /\ external[k] # NoRow
    <2>1. row("ABSENT", NoMark, NoMark) \in Row
      BY <1>4 DEF ResultStatus, Marks, MaybeNat
    <2>2. ComputedRow(k) = row("ABSENT", NoMark, NoMark)
      BY <1>0, <1>6 DEF ComputedRow
    <2> QED
      BY <2>1, <2>2
<1>7. CASE external[k] = NoMark /\ external[k] # NoRow /\ external[k] # Absent
    <2>1. row("PENDING", NoMark, NoMark) \in Row
      BY <1>4 DEF ResultStatus, Marks, MaybeNat
    <2>2. ComputedRow(k) = row("PENDING", NoMark, NoMark)
      BY <1>7 DEF ComputedRow
    <2> QED
      BY <2>1, <2>2
<1>8. CASE external[k] \notin {NoMark, NoRow, Absent}
    <2>1. external[k] \in Marks
      BY <1>1, <1>8 DEF External
    <2>2. sum \in Nat
      <3>1. NumOf(InternalOf(k)) \in Nat /\ NumOf(external[k]) \in Nat
            /\ NumOf(result[k].grace) \in Nat
        BY <1>1, <1>3, <2>1, Numbers
      <3> QED
        BY <3>1
    <2>3. row(Graded(sum, out), external[k], sum) \in Row
      BY <1>4, <2>1, <2>2, GradedType DEF ResultStatus, MaybeNat
    <2>4. ComputedRow(k) = row(Graded(sum, out), external[k], sum)
      BY <1>8 DEF ComputedRow
    <2> QED
      BY <2>3, <2>4
<1> QED
    BY <1>5, <1>6, <1>7, <1>8

\* What grace makes of a row is a row with those grace marks.
LEMMA GracedType ==
    ASSUME TypeOK, NEW k \in Courses, NEW g \in MarkValues
    PROVE  GracedRow(k, g) \in Row /\ GracedRow(k, g).grace = g
<1>1. result[k] \in Row /\ g \in Marks
    BY DEF TypeOK, DeclTypeOK, Marks
<1> DEFINE sum == NumOf(result[k].internal) + NumOf(result[k].external) + g
<1>2. sum \in Nat
    <2>1. NumOf(result[k].internal) \in Nat /\ NumOf(result[k].external) \in Nat /\ g \in Nat
      BY <1>1, Numbers DEF Row
    <2> QED
      BY <2>1
<1>3. Graded(sum, result[k].outOf) \in ResultStatus
    BY GradedType DEF ResultStatus
<1> HIDE DEF sum
<1>4. GracedRow(k, g) = IF result[k].total = NoMark THEN [result[k] EXCEPT !.grace = g]
                        ELSE [result[k] EXCEPT !.grace = g, !.total = sum,
                                               !.status = Graded(sum, result[k].outOf)]
    BY DEF GracedRow, sum
<1> QED
    BY <1>1, <1>2, <1>3, <1>4 DEF Row, MaybeNat

\* Every grace entry names its course, and every result has external marks.
Entered ==
    \A l \in Logs : log[l] # NoEntry =>
                       log[l].course \in Courses /\ log[l].marks \in MarkValues

Sourced == \A k \in Courses : result[k].status # "NONE" => external[k] # NoRow

\* What a pending request carries whatever overlaps it.
Carries(a) ==
    /\ a.op = "revoke" => a.log \in Logs /\ log[a.log] # NoEntry
    /\ a.op = "grace" => a.k \in Courses /\ a.new[a.k].grace \in MarkValues
    /\ a.op = "external" => a.newExt # NoRow
    /\ \A k \in Courses : a.new[k].status # "NONE" => external[k] # NoRow

\* What it computed from the rows, if they have not changed since.
Snapshot(a) ==
    /\ a.op \in {"compute", "grace", "revoke"} => a.seen = result
    /\ a.op = "compute" => a.new = [k \in Courses |-> ComputedRow(k)]
    /\ a.op = "grace" =>
          /\ ActiveLogs(a.k) = {}
          /\ a.new = [result EXCEPT ![a.k] = GracedRow(a.k, a.new[a.k].grace)]
    /\ a.op = "revoke" =>
          /\ ~log[a.log].revoked
          /\ a.new = [result EXCEPT ![log[a.log].course].grace = NoMark]

Opens(r, a) ==
    /\ a \in Request
    /\ a.op # "idle" /\ declared # "NONE"
    /\ Carries(a) /\ Snapshot(a)
    /\ Begin(r, a)

\* The requests that read no row open with what they carry.
LEMMA SimpleStart ==
    ASSUME NEW r \in Reqs, NEW a \in Request,
           a.op \notin {"idle", "compute", "grace", "revoke"},
           a.op = "external" => a.newExt # NoRow,
           declared # "NONE", a.new = NoResults, Begin(r, a)
    PROVE  Opens(r, a)
BY DEF Opens, Carries, Snapshot, NoResults, NoResult

\* A check carries what it read of the rows and what it made of it.
LEMMA CheckOpens ==
    ASSUME TypeOK, Entered, Sourced, NEW r \in Reqs, Check(r)
    PROVE  \E a : Opens(r, a)
<1>0. /\ result \in [Courses -> Row] /\ external \in [Courses -> External]
      /\ required \in BOOLEAN /\ overall \in Overall /\ log \in [Logs -> LogRow]
    BY DEF TypeOK, DeclTypeOK
<1>1. CASE VerifyCheck(r) \/ PublishCheck(r) \/ LockCheck(r) \/ RevertCheck(r) \/ DeleteCheck(r)
    <2>1. \E op \in {"verify", "publish", "lock", "revert", "delete"} :
             declared # "NONE" /\ Begin(r, Asked(op))
      BY <1>1 DEF VerifyCheck, PublishCheck, LockCheck, RevertCheck, DeleteCheck
    <2>2. PICK op \in {"verify", "publish", "lock", "revert", "delete"} :
             declared # "NONE" /\ Begin(r, Asked(op))
      BY <2>1
    <2>3. Asked(op) \in Request /\ Asked(op).op = op /\ Asked(op).new = NoResults
      BY AskedType DEF Ops
    <2> QED
      BY <2>2, <2>3, SimpleStart
<1>2. CASE UpdateCheck(r)
    <2> DEFINE a == WithFlag(Asked("update"), ~required)
    <2>1. Begin(r, a) /\ declared # "NONE"
      BY <1>2 DEF UpdateCheck, WithFlag
    <2>0. /\ Asked("update") \in Request
          /\ Asked("update").op = "update" /\ Asked("update").new = NoResults
      BY AskedType DEF Ops
    <2>2. a \in Request /\ a.op = "update" /\ a.new = NoResults
      BY <1>0, <2>0, FlagFields
    <2> HIDE DEF a
    <2> QED
      BY <2>1, <2>2, SimpleStart
<1>3. CASE SgpaCheck(r)
    <2> DEFINE n == IF \A k \in Courses : result[k].status \in {"NONE", "ABSENT", "PASS"}
                    THEN "PASS" ELSE "FAIL"
               a == WithAll(Asked("sgpa"), overall, n)
    <2>1. Begin(r, a) /\ declared # "NONE"
      BY <1>3 DEF SgpaCheck, WithAll
    <2>2. n \in Overall
      BY DEF Overall
    <2> HIDE DEF n
    <2>0. Asked("sgpa") \in Request /\ Asked("sgpa").op = "sgpa" /\ Asked("sgpa").new = NoResults
      BY AskedType DEF Ops
    <2>3. a \in Request /\ a.op = "sgpa" /\ a.new = NoResults
      BY <1>0, <2>2, <2>0, AllFields
    <2> HIDE DEF a
    <2> QED
      BY <2>1, <2>3, SimpleStart
<1>4. ASSUME NEW k \in Courses, NEW x \in External, ExternalCheck(r, k, x)
      PROVE  \E a : Opens(r, a)
    <2> DEFINE a == WithMark(Asked("external"), k, external[k], x)
    <2>1. Begin(r, a) /\ declared # "NONE" /\ x # NoRow
      BY <1>4 DEF ExternalCheck, WithMark
    <2>0. /\ Asked("external") \in Request
          /\ Asked("external").op = "external" /\ Asked("external").new = NoResults
      BY AskedType DEF Ops
    <2>2. a \in Request /\ a.op = "external" /\ a.new = NoResults /\ a.newExt = x
      BY <1>0, <2>0, MarkFields
    <2> HIDE DEF a
    <2> QED
      BY <2>1, <2>2, SimpleStart
<1>5. CASE ComputeCheck(r)
    <2> DEFINE n == [k \in Courses |-> ComputedRow(k)]
               a == WithRows(Asked("compute"), result, n)
    <2>1. Begin(r, a) /\ declared # "NONE"
      BY <1>5 DEF ComputeCheck, WithRows
    <2>2. n \in [Courses -> Row]
      BY ComputedType
    <2>3. \A k \in Courses : n[k] = ComputedRow(k)
      OBVIOUS
    <2> HIDE DEF n
    <2>0. /\ Asked("compute") \in Request
          /\ Asked("compute").op = "compute" /\ Asked("compute").new = NoResults
      BY AskedType DEF Ops
    <2>4. a \in Request /\ a.op = "compute" /\ a.seen = result /\ a.new = n
      BY <1>0, <2>2, <2>0, RowsFields
    <2> HIDE DEF a
    <2>5. \A k \in Courses : a.new[k].status # "NONE" => external[k] # NoRow
      <3> SUFFICES ASSUME NEW k \in Courses, external[k] = NoRow
                   PROVE  n[k].status = "NONE"
        BY <2>4
      <3>1. ComputedRow(k) = result[k]
        BY DeclarationAssumption DEF ComputedRow
      <3> QED
        BY <2>3, <3>1 DEF Sourced
    <2>6. Opens(r, a)
      BY <2>1, <2>4, <2>5 DEF Opens, Carries, Snapshot, n
    <2> QED
      BY <2>6
<1>6. ASSUME NEW k \in Courses, NEW g \in MarkValues \ {0}, ApplyGraceCheck(r, k, g)
      PROVE  \E a : Opens(r, a)
    <2> DEFINE n == [result EXCEPT ![k] = GracedRow(k, g)]
               a == WithCourse(Asked("grace"), k, result, n)
    <2>1. /\ Begin(r, a) /\ declared # "NONE"
          /\ result[k].status # "NONE" /\ ActiveLogs(k) = {}
      BY <1>6 DEF ApplyGraceCheck, WithCourse
    <2>2. /\ n \in [Courses -> Row] /\ n[k].grace = g
          /\ \A j \in Courses \ {k} : n[j] = result[j]
      BY <1>0, GracedType
    <2>3. n = [result EXCEPT ![k] = GracedRow(k, n[k].grace)]
      BY <2>2
    <2> HIDE DEF n
    <2>0. /\ Asked("grace") \in Request
          /\ Asked("grace").op = "grace" /\ Asked("grace").new = NoResults
      BY AskedType DEF Ops
    <2>4. a \in Request /\ a.op = "grace" /\ a.k = k /\ a.seen = result /\ a.new = n
      <3>1. result \in [Courses -> Row] /\ n \in [Courses -> Row]
        BY <1>0, <2>2
      <3> QED
        BY <2>0, <3>1, CourseFields
    <2> HIDE DEF a
    <2>5. \A j \in Courses : a.new[j].status # "NONE" => external[j] # NoRow
      BY <2>1, <2>2, <2>4 DEF Sourced
    <2>6. Opens(r, a)
      BY <2>1, <2>2, <2>3, <2>4, <2>5 DEF Opens, Carries, Snapshot
    <2> QED
      BY <2>6
<1>7. ASSUME NEW l \in Logs, RevokeGraceCheck(r, l)
      PROVE  \E a : Opens(r, a)
    <2> DEFINE k == log[l].course
               n == [result EXCEPT ![k].grace = NoMark]
               a == WithLog(Asked("revoke"), l, result, n)
    <2>1. /\ Begin(r, a) /\ declared # "NONE"
          /\ log[l] # NoEntry /\ ~log[l].revoked
      BY <1>7 DEF RevokeGraceCheck, WithLog
    <2>2. k \in Courses
      BY <2>1 DEF Entered
    <2> HIDE DEF k
    <2>3. n[k] \in Row /\ n[k].status = result[k].status
      BY <1>0, <2>2 DEF Row, Marks
    <2>4. n \in [Courses -> Row] /\ \A j \in Courses : n[j].status = result[j].status
      BY <1>0, <2>2, <2>3
    <2> HIDE DEF n
    <2>0. /\ Asked("revoke") \in Request
          /\ Asked("revoke").op = "revoke" /\ Asked("revoke").new = NoResults
      BY AskedType DEF Ops
    <2>5. a \in Request /\ a.op = "revoke" /\ a.log = l /\ a.seen = result /\ a.new = n
      BY <1>0, <2>4, <2>0, LogFields
    <2> HIDE DEF a
    <2>6. \A j \in Courses : a.new[j].status # "NONE" => external[j] # NoRow
      BY <2>4, <2>5 DEF Sourced
    <2>7. Opens(r, a)
      BY <2>1, <2>5, <2>6 DEF Opens, Carries, Snapshot, n, k
    <2> QED
      BY <2>7
<1> QED
    BY <1>1, <1>2, <1>3, <1>4, <1>5, <1>6, <1>7 DEF Check

Bearing == \A r \in Reqs : req[r].op # "idle" => Carries(req[r])

DeclInv == DeclTypeOK /\ Entered /\ Sourced /\ Bearing

\* A request that ends leaves the others as they are.
LEMMA EndType ==
    ASSUME DeclTypeOK, NEW r \in Reqs, End(r)
    PROVE  /\ req' \in [Reqs -> Request]
           /\ req'[r].op = "idle" /\ \A s \in Reqs \ {r} : req'[s] = req[s]
<1>1. Asked("idle") \in Request /\ Asked("idle").op = "idle"
    BY AskedType DEF Ops
<1> QED
    BY <1>1 DEF End, DeclTypeOK

\* A flush writes, of every row, what is there or what is new.
LEMMA FlushResultsType ==
    ASSUME DeclTypeOK, NEW r \in Reqs, FlushResults(r)
    PROVE  /\ result' \in [Courses -> Row]
           /\ \A k \in Courses : result'[k].status \in {result[k].status, req[r].new[k].status}
<1>1. /\ result \in [Courses -> Row]
      /\ req[r].seen \in [Courses -> Row] /\ req[r].new \in [Courses -> Row]
    BY DEF DeclTypeOK, Request
<1>2. \A k \in Courses : Flush(result[k], req[r].seen[k], req[r].new[k]) \in Row
    BY <1>1, FlushType
<1>3. \A k \in Courses : Flush(result[k], req[r].seen[k], req[r].new[k]).status
                            \in {result[k].status, req[r].new[k].status}
    <2> SUFFICES ASSUME NEW k \in Courses
                 PROVE  Flush(result[k], req[r].seen[k], req[r].new[k]).status
                            \in {result[k].status, req[r].new[k].status}
      OBVIOUS
    <2>1. "status" \in DOMAIN result[k]
      BY <1>1, RowFields
    <2> QED
      BY <2>1 DEF Flush
<1> QED
    BY <1>2, <1>3 DEF FlushResults

\* The writes that change neither the rows, nor the external marks, nor the log.
LEMMA PlainWrite ==
    ASSUME DeclInv, NEW r \in Reqs, End(r),
           declared' \in DeclarationStatus \cup {"NONE"}, required' \in BOOLEAN,
           overall' \in Overall, gates' \in SUBSET {"verify", "publish", "lock"},
           UNCHANGED <<external, result, log, raced>>,
           revoked' \in SUBSET Courses
    PROVE  DeclInv'
<1>1. DeclTypeOK'
    BY EndType DEF DeclInv, DeclTypeOK
<1>2. Entered' /\ Sourced'
    BY DEF DeclInv, Entered, Sourced
<1>3. Bearing'
    BY EndType DEF DeclInv, Bearing, Carries
<1> QED
    BY <1>1, <1>2, <1>3 DEF DeclInv

\* What the declaration holds, and what its requests carry, whatever overlaps.
LEMMA DeclWriteStep ==
    ASSUME DeclInv, NEW r \in Reqs, Write(r)
    PROVE  DeclInv'
<1>0. /\ DeclTypeOK /\ Entered /\ Sourced /\ Bearing
      /\ req[r] \in Request
    BY DEF DeclInv, DeclTypeOK
<1>1. CASE UpdateWrite(r)
    BY <1>0, <1>1, PlainWrite DEF UpdateWrite, DeclTypeOK, Request
<1>2. CASE VerifyWrite(r) \/ PublishWrite(r) \/ LockWrite(r) \/ RevertWrite(r)
    BY <1>0, <1>2, PlainWrite
       DEF VerifyWrite, PublishWrite, LockWrite, RevertWrite, DeclTransition, DeclTypeOK,
           DeclarationStatus
<1>3. CASE SgpaWrite(r)
    <2>1. overall' \in Overall
      BY <1>0, <1>3 DEF SgpaWrite, DeclTypeOK, Request
    <2> QED
      BY <1>0, <1>3, <2>1, PlainWrite DEF SgpaWrite, DeclTypeOK
<1>4. CASE DeleteWrite(r)
    <2>1. CASE UNCHANGED <<declared, external, result, overall, gates, revoked>> /\ End(r)
      BY <1>0, <1>4, <2>1, PlainWrite DEF DeleteWrite, WithoutRow, DeclTypeOK
    <2>2. CASE /\ declared' = "NONE"
               /\ external' = [k \in Courses |-> NoRow]
               /\ result' = NoResults
               /\ overall' = "NONE"
               /\ req' = [s \in Reqs |-> Asked("idle")]
               /\ gates' = {} /\ revoked' = {}
      <3>1. UNCHANGED <<required, log, raced>>
        BY <1>4 DEF DeleteWrite, WithoutRow
      <3>2. Asked("idle") \in Request /\ Asked("idle").op = "idle" /\ NoResults \in [Courses -> Row]
        BY AskedType DEF Ops
      <3>3. DeclTypeOK'
        BY <1>0, <2>2, <3>1, <3>2 DEF DeclTypeOK, External, Overall
      <3>4. Entered' /\ Sourced' /\ Bearing'
        BY <1>0, <2>2, <3>1, <3>2 DEF Entered, Sourced, Bearing, NoResults, NoResult
      <3> QED
        BY <3>3, <3>4 DEF DeclInv
    <2> QED
      BY <1>4, <2>1, <2>2 DEF DeleteWrite, WithoutRow
<1>5. CASE ExternalWrite(r)
    <2>1. /\ End(r) /\ UNCHANGED <<declared, required, result, overall, log, gates, raced, revoked>>
          /\ req[r].op = "external"
      BY <1>5 DEF ExternalWrite
    <2>2. req[r].newExt # NoRow /\ req[r].newExt \in External
      BY <1>0, <2>1 DEF Bearing, Carries, Request
    <2>3. \A k \in Courses : external'[k] \in {external[k], req[r].newExt}
      BY <1>0, <1>5 DEF ExternalWrite, DeclTypeOK
    <2>4. external' \in [Courses -> External]
      BY <1>0, <1>5, <2>2, <2>3 DEF ExternalWrite, DeclTypeOK
    <2>5. \A k \in Courses : external[k] # NoRow => external'[k] # NoRow
      BY <2>2, <2>3
    <2>6. DeclTypeOK'
      BY <1>0, <2>1, <2>4, EndType DEF DeclTypeOK
    <2>7. Entered' /\ Sourced' /\ Bearing'
      BY <1>0, <2>1, <2>5, EndType DEF Entered, Sourced, Bearing, Carries
    <2> QED
      BY <2>6, <2>7 DEF DeclInv
<1>6. CASE ComputeWrite(r)
    <2>1. /\ End(r) /\ UNCHANGED <<declared, required, external, overall, log, gates, raced>>
          /\ req[r].op = "compute" /\ revoked' \in SUBSET Courses
      BY <1>0, <1>6 DEF ComputeWrite, DeclTypeOK
    <2>2. /\ result' \in [Courses -> Row]
          /\ \A k \in Courses : result'[k].status \in {result[k].status, req[r].new[k].status}
      <3>1. result' = result \/ FlushResults(r)
        BY <1>6 DEF ComputeWrite
      <3> QED
        BY <1>0, <3>1, FlushResultsType DEF DeclTypeOK
    <2>3. \A k \in Courses : req[r].new[k].status # "NONE" => external[k] # NoRow
      BY <1>0, <2>1 DEF Bearing, Carries
    <2>4. DeclTypeOK'
      BY <1>0, <2>1, <2>2, EndType DEF DeclTypeOK
    <2>5. Entered' /\ Sourced' /\ Bearing'
      BY <1>0, <2>1, <2>2, <2>3, EndType DEF Entered, Sourced, Bearing, Carries
    <2> QED
      BY <2>4, <2>5 DEF DeclInv
<1>7. CASE ApplyGraceWrite(r)
    <2>1. /\ End(r) /\ UNCHANGED <<declared, required, external, overall, gates, raced>>
          /\ req[r].op = "grace" /\ FlushResults(r) /\ revoked' = revoked \ {req[r].k}
      BY <1>7 DEF ApplyGraceWrite
    <2>2. req[r].k \in Courses /\ req[r].new[req[r].k].grace \in MarkValues
          /\ \A k \in Courses : req[r].new[k].status # "NONE" => external[k] # NoRow
      BY <1>0, <2>1 DEF Bearing, Carries
    <2> DEFINE e == [course |-> req[r].k, revoked |-> FALSE,
                     marks |-> req[r].new[req[r].k].grace]
    <2>3. PICK l \in Logs : log[l] = NoEntry /\ log' = [log EXCEPT ![l] = e]
      BY <1>7 DEF ApplyGraceWrite
    <2>4. /\ e \in LogRow /\ e.course \in Courses /\ e.marks \in MarkValues
          /\ e # NoEntry
      BY <2>2, DeclarationAssumption DEF LogRow, NoEntry, Marks
    <2> HIDE DEF e
    <2>5. log' \in [Logs -> LogRow] /\ \A m \in Logs : log'[m] = IF m = l THEN e ELSE log[m]
      BY <1>0, <2>3, <2>4 DEF DeclTypeOK
    <2>6. DeclTypeOK'
      BY <1>0, <2>1, <2>5, EndType, FlushResultsType DEF DeclTypeOK
    <2>7. Entered' /\ Sourced'
      BY <1>0, <2>1, <2>2, <2>4, <2>5, FlushResultsType DEF Entered, Sourced
    <2>8. Bearing'
      <3>1. \A m \in Logs : log[m] # NoEntry => log'[m] # NoEntry
        BY <2>4, <2>5
      <3> QED
        BY <1>0, <2>1, <3>1, EndType DEF Bearing, Carries
    <2> QED
      BY <2>6, <2>7, <2>8 DEF DeclInv
<1>8. CASE RevokeGraceWrite(r)
    <2>1. /\ End(r) /\ UNCHANGED <<declared, required, external, overall, gates, raced>>
          /\ req[r].op = "revoke" /\ FlushResults(r)
          /\ revoked' = revoked \cup {log[req[r].log].course}
          /\ log' = [log EXCEPT ![req[r].log].revoked = TRUE]
      BY <1>8 DEF RevokeGraceWrite
    <2>2. req[r].log \in Logs /\ log[req[r].log] # NoEntry
          /\ \A k \in Courses : req[r].new[k].status # "NONE" => external[k] # NoRow
      BY <1>0, <2>1 DEF Bearing, Carries
    <2>3. log[req[r].log].course \in Courses
      BY <1>0, <2>2 DEF Entered
    <2>4. /\ log' \in [Logs -> LogRow]
          /\ \A m \in Logs : /\ log'[m].course = log[m].course
                             /\ log'[m].marks = log[m].marks
                             /\ m # req[r].log => log'[m] = log[m]
      <3> DEFINE l == req[r].log
                 e == [log[l] EXCEPT !.revoked = TRUE]
      <3>1. log \in [Logs -> LogRow] /\ log[l] \in LogRow
        BY <1>0, <2>2 DEF DeclTypeOK
      <3>2. e \in LogRow /\ e.course = log[l].course /\ e.marks = log[l].marks
        BY <3>1 DEF LogRow
      <3>3. log' = [log EXCEPT ![l] = e]
        BY <2>1
      <3> HIDE DEF e
      <3> QED
        BY <2>2, <3>1, <3>2, <3>3
    <2>5. DeclTypeOK'
      BY <1>0, <2>1, <2>3, <2>4, EndType, FlushResultsType DEF DeclTypeOK
    <2>6. \A m \in Logs : log'[m] # NoEntry <=> log[m] # NoEntry
      <3>1. NoEntry.course \notin Courses
        BY DeclarationAssumption DEF NoEntry
      <3>2. log'[req[r].log].course \in Courses
        BY <2>2, <2>3, <2>4
      <3>3. log'[req[r].log] # NoEntry
        BY <3>1, <3>2
      <3> QED
        BY <2>2, <2>4, <3>3
    <2>7. Entered' /\ Sourced'
      BY <1>0, <2>1, <2>2, <2>4, <2>6, FlushResultsType DEF Entered, Sourced
    <2>8. Bearing'
      BY <1>0, <2>1, <2>6, EndType DEF Bearing, Carries
    <2> QED
      BY <2>5, <2>7, <2>8 DEF DeclInv
<1> QED
    BY <1>1, <1>2, <1>3, <1>4, <1>5, <1>6, <1>7, <1>8 DEF Write

\* Every step keeps what the declaration holds and what its requests carry.
LEMMA DeclStep ==
    ASSUME MarksTypeOK, DeclInv, [Next]_vars
    PROVE  DeclInv'
<1>0. /\ DeclTypeOK /\ Entered /\ Sourced /\ Bearing
    BY DEF DeclInv
<1>1. CASE CreateDeclaration
    BY <1>0, <1>1 DEF CreateDeclaration, DeclInv, DeclTypeOK, Entered, Sourced, Bearing, Carries,
                      DeclarationStatus
<1>2. ASSUME NEW r \in Reqs, Check(r)
      PROVE  DeclInv'
    <2>1. PICK a : Opens(r, a)
      BY <1>0, <1>2, CheckOpens DEF TypeOK
    <2>2. /\ a \in Request /\ a.op # "idle" /\ Carries(a)
          /\ req' = [req EXCEPT ![r] = a] /\ raced' \in BOOLEAN
          /\ UNCHANGED <<declaration, gates, revoked>>
      BY <1>0, <2>1 DEF Opens, Begin, DeclTypeOK
    <2>3. req' \in [Reqs -> Request] /\ \A s \in Reqs : req'[s] = IF s = r THEN a ELSE req[s]
      BY <1>0, <2>2 DEF DeclTypeOK
    <2>4. DeclTypeOK'
      BY <1>0, <2>2, <2>3 DEF DeclTypeOK, declaration
    <2>5. Entered' /\ Sourced' /\ Bearing'
      BY <1>0, <2>2, <2>3 DEF Entered, Sourced, Bearing, Carries, declaration
    <2> QED
      BY <2>4, <2>5 DEF DeclInv
<1>3. ASSUME NEW r \in Reqs, Abandon(r)
      PROVE  DeclInv'
    BY <1>0, <1>3, PlainWrite DEF Abandon, declaration, DeclTypeOK
<1>4. CASE ComponentNext
    <2>1. UNCHANGED <<declaration, req, gates, revoked>> /\ raced' \in BOOLEAN
      BY <1>0, <1>4 DEF ComponentNext, DeclTypeOK
    <2> QED
      BY <1>0, <2>1 DEF DeclInv, DeclTypeOK, Entered, Sourced, Bearing, Carries, declaration
<1>5. CASE UNCHANGED vars
    BY <1>0, <1>5 DEF vars, declVars, declaration, DeclInv, DeclTypeOK, Entered, Sourced,
                      Bearing, Carries
<1> QED
    BY <1>1, <1>2, <1>3, <1>4, <1>5, DeclWriteStep DEF Next, DeclNext

\* It holds at the start.
LEMMA DeclStarts == Init => DeclInv
<1> SUFFICES ASSUME DeclInit PROVE DeclInv
    BY DEF Init
<1>1. Asked("idle") \in Request /\ Asked("idle").op = "idle" /\ NoResults \in [Courses -> Row]
    BY AskedType DEF Ops
<1>2. NoEntry \in LogRow
    BY DEF NoEntry, LogRow, Marks
<1>3. DeclTypeOK
    BY <1>1, <1>2 DEF DeclInit, DeclTypeOK, External, Overall
<1>4. Entered /\ Sourced /\ Bearing
    BY <1>1 DEF DeclInit, Entered, Sourced, Bearing, NoResults, NoResult
<1> QED
    BY <1>3, <1>4 DEF DeclInv

\* What every reachable state holds of the declaration and its requests.
LEMMA DeclInvariant == Spec => []DeclInv
<1>1. ComponentInv /\ DeclInv /\ [Next]_vars => DeclInv'
    BY DeclStep DEF ComponentInv
<1> QED
    BY <1>1, DeclStarts, ComponentInvariant, PTL DEF Spec

\* Every row has its columns' values: components, entries, results with their
\* totals, grace entries and pending requests, whatever overlaps.
THEOREM TypeCorrect == Spec => []TypeOK
<1>1. ComponentInv /\ DeclInv => TypeOK
    BY DEF ComponentInv, DeclInv, TypeOK
<1> QED
    BY <1>1, DeclInvariant, ComponentInvariant, PTL

----------------------------------------------------------------------------
(* Without overlap: what was read is still there, and the results agree.   *)

\* Without overlap the one pending request still finds everything as it read it.
Fresh ==
    ~raced => \A r \in Reqs :
        req[r].op # "idle" =>
            /\ declared # "NONE"
            /\ \A s \in Reqs \ {r} : req[s].op = "idle"
            /\ \A m \in MarksReqs : creq[m].op = "idle"
            /\ Snapshot(req[r])

\* Log entries of a course that are not revoked: at most one, and its marks are
\* the row's.
GraceAt(k) ==
    /\ \A l, m \in ActiveLogs(k) : l = m
    /\ result[k].grace # NoMark <=> ActiveLogs(k) # {}
    /\ \A l \in ActiveLogs(k) : result[k].grace = log[l].marks

AddsUpAt(k) ==
    result[k].status \in {"PASS", "FAIL"} =>
        /\ result[k].total # NoMark
        /\ k \notin revoked =>
             /\ result[k].total = NumOf(result[k].internal) + NumOf(result[k].external)
                                     + NumOf(result[k].grace)
             /\ result[k].status = Graded(result[k].total, result[k].outOf)

\* A set of LOCKED entries of the course adds up to the internal marks.
LockedSum(k) ==
    \E S \in SUBSET {c \in Comps : c[1] = k /\ cstatus[c] = "LOCKED"} :
        /\ \A c \in S : entry[c] # NoMark
        /\ result[k].internal = Total(entry, S)

LockedAt(k) ==
    result[k].internal # NoMark /\ (\A c \in reopened : c[1] # k) => LockedSum(k)

AgreedAt(k) == GraceAt(k) /\ AddsUpAt(k) /\ (~craced => LockedAt(k))

Agreeing == ~raced => \A k \in Courses : AgreedAt(k)

\* ComputedRow as a function of what it reads.
RowOf(old, int, n, ext) ==
    LET out == MaxMark * (n + 1)
        sum == NumOf(int) + NumOf(ext) + NumOf(old.grace)
        row(s, e, t) == [status |-> s, internal |-> int, external |-> e,
                         grace |-> old.grace, total |-> t, outOf |-> out]
    IN  CASE ext = NoRow  -> old
          [] ext = Absent -> row("ABSENT", NoMark, NoMark)
          [] ext = NoMark -> row("PENDING", NoMark, NoMark)
          [] OTHER        -> row(Graded(sum, out), ext, sum)

\* ComputedRow depends on the row, the external marks and the entries counted.
LEMMA ComputedKept ==
    ASSUME UNCHANGED <<external, result, entry>>, NEW k, Counted(k)' = Counted(k)
    PROVE  ComputedRow(k)' = ComputedRow(k)
<1>0. InternalOf(k)' = InternalOf(k)
    <2>1. InternalOf(k) = IF Counted(k) = {} THEN NoMark ELSE Total(entry, Counted(k))
      BY DEF InternalOf, Total
    <2>2. InternalOf(k)' = IF Counted(k)' = {} THEN NoMark ELSE Total(entry', Counted(k)')
      BY DEF InternalOf, Total, MapThenSumSet, MapThenFoldSet
    <2> QED
      BY <2>1, <2>2
<1>1. ComputedRow(k) = RowOf(result[k], InternalOf(k), Cardinality(Counted(k)), external[k])
    BY DEF ComputedRow, RowOf
<1>2. ComputedRow(k)' = RowOf(result'[k], InternalOf(k)', Cardinality(Counted(k)'), external'[k])
    BY DEF ComputedRow, RowOf
<1> QED
    BY <1>0, <1>1, <1>2

\* Creating a component changes no LOCKED one, so nothing that was computed.
LEMMA CreatedCounts ==
    ASSUME MarksTypeOK, NEW c \in Comps, CreateComponent(c), UNCHANGED declaration
    PROVE  \A k \in Courses : ComputedRow(k)' = ComputedRow(k)
<1>1. entry' = entry /\ UNCHANGED <<required, external, result>>
    BY DEF CreateComponent, declaration
<1>2. \A d \in Comps : cstatus'[d] = "LOCKED" <=> cstatus[d] = "LOCKED"
    BY DEF CreateComponent, MarksTypeOK
<1>3. \A k \in Courses : Counted(k)' = Counted(k)
    BY <1>1, <1>2 DEF Counted
<1> QED
    BY <1>1, <1>3, ComputedKept

\* A snapshot depends on what it was taken of.
LEMMA SnapshotKept ==
    ASSUME NEW a, Snapshot(a), UNCHANGED <<result, log>>,
           \A k \in Courses : ComputedRow(k)' = ComputedRow(k)
    PROVE  Snapshot(a)'
<1>1. \A k \in Courses \cup {a.k} : ActiveLogs(k)' = ActiveLogs(k)
    BY DEF ActiveLogs
<1>2. \A g : GracedRow(a.k, g)' = GracedRow(a.k, g)
    BY DEF GracedRow
<1>3. [k \in Courses |-> ComputedRow(k)]' = [k \in Courses |-> ComputedRow(k)]
    OBVIOUS
<1> QED
    BY <1>1, <1>2, <1>3 DEF Snapshot

\* A snapshot stays while the tables do.
LEMMA SnapshotSame ==
    ASSUME NEW a, Snapshot(a), UNCHANGED <<declaration, marksVars>>
    PROVE  Snapshot(a)'
<1>1. \A k \in Courses : Counted(k)' = Counted(k)
    BY DEF Counted, declaration, marksVars
<1>2. \A k \in Courses : ComputedRow(k)' = ComputedRow(k)
    BY <1>1, ComputedKept DEF declaration, marksVars
<1> QED
    BY <1>2, SnapshotKept DEF declaration

\* Every step that overlaps nothing leaves the pending request as it read.
LEMMA FreshStep ==
    ASSUME ComponentInv, DeclInv, Fresh, [Next]_vars, ~raced'
    PROVE  ~raced /\ Fresh'
<1>0. /\ raced \in BOOLEAN /\ MarksTypeOK /\ DeclTypeOK
      /\ Entered /\ Sourced /\ TypeOK
    BY DEF DeclInv, DeclTypeOK, ComponentInv, TypeOK
<1>1. CASE CreateDeclaration /\ UNCHANGED marksVars
    <2>1. declared = "NONE" /\ UNCHANGED <<req, raced>>
      BY <1>1 DEF CreateDeclaration
    <2>2. \A r \in Reqs : req'[r].op = "idle"
      BY <2>1 DEF Fresh
    <2> QED
      BY <2>1, <2>2 DEF Fresh
<1>2. ASSUME NEW r \in Reqs, Check(r), UNCHANGED marksVars
      PROVE  ~raced /\ Fresh'
    <2>1. PICK a : Opens(r, a)
      BY <1>0, <1>2, CheckOpens
    <2>2. /\ declared # "NONE" /\ Snapshot(a)
          /\ req' = [req EXCEPT ![r] = a]
          /\ UNCHANGED declaration
      BY <2>1 DEF Opens, Begin
    <2>3. ~raced /\ (\A s \in Reqs \ {r} : req[s].op = "idle")
          /\ \A m \in MarksReqs : creq[m].op = "idle"
      BY <1>0, <2>1 DEF Opens, Begin
    <2>4. Snapshot(a)'
      BY <1>2, <2>2, SnapshotSame
    <2>5. \A s \in Reqs : req'[s] = IF s = r THEN a ELSE req[s]
      BY <1>0, <2>2 DEF DeclTypeOK
    <2>6. declared' # "NONE" /\ \A m \in MarksReqs : creq'[m].op = "idle"
      BY <1>2, <2>2, <2>3 DEF declaration, marksVars
    <2> QED
      BY <2>3, <2>4, <2>5, <2>6 DEF Fresh
<1>3. ASSUME NEW r \in Reqs, req[r].op # "idle", End(r), raced' = raced
      PROVE  ~raced /\ Fresh'
    <2>1. \A s \in Reqs : req'[s].op = "idle"
      BY <1>0, <1>3, EndType DEF Fresh
    <2> QED
      BY <1>3, <2>1 DEF Fresh
<1>4. ASSUME NEW r \in Reqs, Write(r)
      PROVE  ~raced /\ Fresh'
    <2>1. req[r].op # "idle" /\ raced' = raced
      BY <1>4 DEF Write, UpdateWrite, VerifyWrite, PublishWrite, LockWrite, RevertWrite,
           DeclTransition, DeleteWrite, WithoutRow, ExternalWrite, ComputeWrite, ApplyGraceWrite,
           RevokeGraceWrite, SgpaWrite
    <2>2. End(r) \/ req' = [s \in Reqs |-> Asked("idle")]
      BY <1>4 DEF Write, UpdateWrite, VerifyWrite, PublishWrite, LockWrite, RevertWrite,
           DeclTransition, DeleteWrite, WithoutRow, ExternalWrite, ComputeWrite, ApplyGraceWrite,
           RevokeGraceWrite, SgpaWrite
    <2>3. CASE req' = [s \in Reqs |-> Asked("idle")]
      BY <2>1, <2>3, AskedType DEF Fresh, Ops
    <2> QED
      BY <1>3, <2>1, <2>2, <2>3
<1>5. ASSUME NEW r \in Reqs, Abandon(r)
      PROVE  ~raced /\ Fresh'
    BY <1>3, <1>5 DEF Abandon
<1>6. CASE ComponentNext
    <2>1. MarksNext /\ UNCHANGED <<declaration, req>>
          /\ raced' = (raced \/ (creq' # creq /\ \E s \in Reqs : req[s].op # "idle"))
      BY <1>6 DEF ComponentNext
    <2>2. ~raced /\ (creq' = creq \/ \A s \in Reqs : req[s].op = "idle")
      BY <1>0, <2>1
    <2>3. CASE \A s \in Reqs : req[s].op = "idle"
      BY <2>1, <2>2, <2>3 DEF Fresh
    <2>4. CASE creq' = creq
      <3>1. ASSUME NEW m \in MarksReqs, MarksChecks(m)
            PROVE  FALSE
        <4>1. PICK a : StartsOn(m, a)
          BY <1>0, <3>1, MarksCheckStarts
        <4>2. creq'[m] = a /\ a.op # "idle" /\ creq[m].op = "idle"
          BY <1>0, <4>1 DEF StartsOn, MarksBegin, MarksTypeOK
        <4> QED
          BY <2>4, <4>2
      <3>2. ASSUME NEW m \in MarksReqs, MarksWrites(m)
            PROVE  FALSE
        <4>1. creq[m].op # "idle" /\ MarksEnd(m)
          BY <1>0, <3>2, MarksWriteEffects
        <4>2. creq'[m].op = "idle"
          BY <1>0, <4>1 DEF MarksEnd, MarksTypeOK, MarksIdle
        <4> QED
          BY <2>4, <4>1, <4>2
      <3>3. PICK c \in Comps : CreateComponent(c)
        BY <2>1, <3>1, <3>2, MarksCases
      <3>4. \A k \in Courses : ComputedRow(k)' = ComputedRow(k)
        BY <1>0, <2>1, <3>3, CreatedCounts
      <3>5. UNCHANGED <<result, log, declared>>
        BY <2>1 DEF declaration
      <3>6. \A r \in Reqs : Snapshot(req[r]) => Snapshot(req[r])'
        BY <2>1, <3>4, <3>5, SnapshotKept
      <3> QED
        BY <2>1, <2>2, <2>4, <3>5, <3>6 DEF Fresh
    <2> QED
      BY <2>2, <2>3, <2>4
<1>7. CASE UNCHANGED vars
    <2>1. UNCHANGED <<declaration, marksVars, req, raced, declared, creq>>
      BY <1>7 DEF vars, declVars, declaration, marksVars
    <2>2. \A r \in Reqs : Snapshot(req[r]) => Snapshot(req[r])'
      BY <2>1, SnapshotSame
    <2> QED
      BY <2>1, <2>2 DEF Fresh
<1> QED
    BY <1>1, <1>2, <1>4, <1>5, <1>6, <1>7 DEF Next, DeclNext

\* A flush of what was read and is still there writes what is new.
LEMMA FlushNew ==
    ASSUME DeclTypeOK, NEW r \in Reqs, FlushResults(r), req[r].seen = result
    PROVE  result' = req[r].new
<1>1. result \in [Courses -> Row] /\ req[r].new \in [Courses -> Row]
    BY DEF DeclTypeOK, Request
<1>2. \A k \in Courses : Flush(result[k], result[k], req[r].new[k]) = req[r].new[k]
    BY <1>1, FlushAll
<1> QED
    BY <1>1, <1>2 DEF FlushResults

\* compute keeps the grace marks, and what it grades it adds up.
LEMMA ComputedFacts ==
    ASSUME TypeOK, NEW k \in Courses
    PROVE  /\ external[k] = NoRow => ComputedRow(k) = result[k]
           /\ ComputedRow(k).grace = result[k].grace
           /\ external[k] # NoRow => ComputedRow(k).internal = InternalOf(k)
           /\ external[k] # NoRow /\ ComputedRow(k).status \in {"PASS", "FAIL"} =>
                 /\ ComputedRow(k).total # NoMark
                 /\ ComputedRow(k).total = NumOf(ComputedRow(k).internal)
                        + NumOf(ComputedRow(k).external) + NumOf(ComputedRow(k).grace)
                 /\ ComputedRow(k).status
                        = Graded(ComputedRow(k).total, ComputedRow(k).outOf)
<1> DEFINE out == MaxMark * (Cardinality(Counted(k)) + 1)
           sum == NumOf(InternalOf(k)) + NumOf(external[k]) + NumOf(result[k].grace)
           row(s, e, t) == [status |-> s, internal |-> InternalOf(k), external |-> e,
                            grace |-> result[k].grace, total |-> t, outOf |-> out]
<1>1. /\ Absent \notin {NoMark, NoRow} /\ NoRow # NoMark
      /\ external[k] \in External /\ result[k].grace \in Marks
    BY DeclarationAssumption DEF TypeOK, DeclTypeOK, Row
<1>2. CASE external[k] = NoRow
    <2>1. ComputedRow(k) = result[k]
      BY <1>1, <1>2 DEF ComputedRow
    <2> QED
      BY <1>2, <2>1
<1>3. CASE external[k] = Absent
    <2>1. ComputedRow(k) = row("ABSENT", NoMark, NoMark)
      BY <1>1, <1>3 DEF ComputedRow
    <2> HIDE DEF out
    <2> QED
      BY <1>1, <1>3, <2>1
<1>4. CASE external[k] = NoMark
    <2>1. ComputedRow(k) = row("PENDING", NoMark, NoMark)
      BY <1>1, <1>4 DEF ComputedRow
    <2> HIDE DEF out
    <2> QED
      BY <1>1, <1>4, <2>1
<1>5. CASE external[k] \notin {NoMark, NoRow, Absent}
    <2>1. ComputedRow(k) = row(Graded(sum, out), external[k], sum)
      BY <1>5 DEF ComputedRow
    <2>2. NumOf(InternalOf(k)) \in Nat /\ NumOf(external[k]) \in Nat
          /\ NumOf(result[k].grace) \in Nat
      BY <1>1, <1>5, Numbers, InternalType DEF External
    <2>3. sum \in Nat
      BY <2>2
    <2>4. sum # NoMark
      BY <2>3, Numbers
    <2> HIDE DEF out
    <2> DEFINE new == ComputedRow(k)
    <2>5. /\ new.internal = InternalOf(k) /\ new.external = external[k]
          /\ new.grace = result[k].grace /\ new.total = sum
          /\ new.outOf = out /\ new.status = Graded(sum, out)
      BY <2>1
    <2> QED
      BY <1>5, <2>4, <2>5
<1> QED
    BY <1>2, <1>3, <1>4, <1>5

\* Grace marks are regraded into a total, and leave a row without one alone.
LEMMA GracedFacts ==
    ASSUME TypeOK, NEW k \in Courses, NEW g \in MarkValues
    PROVE  LET new == GracedRow(k, g) IN
           /\ new.grace = g /\ new.internal = result[k].internal
           /\ result[k].total = NoMark =>
                 new.status = result[k].status /\ new.total = NoMark
           /\ result[k].total # NoMark =>
                 /\ new.total # NoMark
                 /\ new.total = NumOf(new.internal) + NumOf(new.external) + NumOf(new.grace)
                 /\ new.status = Graded(new.total, new.outOf)
<1>1. /\ result[k] \in Row /\ g \in Nat
      /\ NumOf(result[k].internal) \in Nat /\ NumOf(result[k].external) \in Nat
      /\ NumOf(g) = g
    BY Numbers DEF TypeOK, DeclTypeOK, Row, NumOf
<1> DEFINE sum == NumOf(result[k].internal) + NumOf(result[k].external) + g
<1>2. sum \in Nat /\ sum # NoMark
    BY <1>1, Numbers
<1>3. CASE result[k].total = NoMark
    <2>1. GracedRow(k, g) = [result[k] EXCEPT !.grace = g]
      BY <1>3 DEF GracedRow
    <2> QED
      BY <1>1, <1>3, <2>1 DEF Row
<1>4. CASE result[k].total # NoMark
    <2> DEFINE new == GracedRow(k, g)
    <2>1. new = [result[k] EXCEPT !.grace = g, !.total = sum,
                                  !.status = Graded(sum, result[k].outOf)]
      BY <1>4 DEF GracedRow
    <2>2. /\ new.internal = result[k].internal /\ new.external = result[k].external
          /\ new.grace = g /\ new.total = sum
          /\ new.outOf = result[k].outOf /\ new.status = Graded(sum, result[k].outOf)
      <3> HIDE DEF sum
      <3> QED
        BY <1>1, <2>1 DEF Row
    <2> HIDE DEF new
    <2> QED
      BY <1>1, <1>2, <1>4, <2>2 DEF new
<1> QED
    BY <1>3, <1>4

\* The components of the course are as they were, and the internal marks too.
LEMMA LockedSame ==
    ASSUME NEW k \in Courses, LockedAt(k), UNCHANGED marksVars,
           result'[k].internal = result[k].internal
    PROVE  LockedAt(k)'
<1> SUFFICES ASSUME result[k].internal # NoMark, \A c \in reopened : c[1] # k
             PROVE  LockedSum(k)'
    BY DEF LockedAt, marksVars
<1>1. PICK S \in SUBSET {c \in Comps : c[1] = k /\ cstatus[c] = "LOCKED"} :
        /\ \A c \in S : entry[c] # NoMark
        /\ result[k].internal = Total(entry, S)
    BY DEF LockedAt, LockedSum
<1>2. entry' = entry /\ cstatus' = cstatus
    BY DEF marksVars
<1>3. Total(entry', S) = Total(entry, S)
    BY <1>2
<1> QED
    BY <1>1, <1>2, <1>3 DEF LockedSum

\* What a write leaves alone still agrees.
LEMMA SameRow ==
    ASSUME NEW k \in Courses, AgreedAt(k), UNCHANGED marksVars,
           result'[k] = result[k], ActiveLogs(k)' = ActiveLogs(k),
           \A l \in ActiveLogs(k) : log'[l].marks = log[l].marks,
           k \in revoked => k \in revoked'
    PROVE  AgreedAt(k)'
<1>1. GraceAt(k)'
    BY DEF AgreedAt, GraceAt
<1>2. AddsUpAt(k)'
    BY DEF AgreedAt, AddsUpAt
<1>3. ~craced' => LockedAt(k)'
    BY LockedSame DEF AgreedAt, marksVars
<1> QED
    BY <1>1, <1>2, <1>3 DEF AgreedAt

\* Writes that change no result, no log entry and no mark.
LEMMA SameRows ==
    ASSUME \A k \in Courses : AgreedAt(k),
           UNCHANGED <<result, log, revoked, marksVars>>
    PROVE  \A k \in Courses : AgreedAt(k)'
<1>1. \A k \in Courses : ActiveLogs(k)' = ActiveLogs(k)
    BY DEF ActiveLogs
<1> QED
    BY <1>1, SameRow

\* compute, by what it read: the log and the components are as they were, the
\* grace marks stay, and the rest follows from them.
LEMMA ComputeAgrees ==
    ASSUME TypeOK, Sourced, NEW k \in Courses, AgreedAt(k),
           UNCHANGED <<external, log, marksVars>>, result'[k] = ComputedRow(k)
    PROVE  AgreedAt(k)'
<1>1. ActiveLogs(k)' = ActiveLogs(k)
    BY DEF ActiveLogs
<1>2. GraceAt(k)'
    BY <1>1, ComputedFacts DEF AgreedAt, GraceAt
<1>3. CASE external[k] = NoRow
    <2>1. result'[k] = result[k] /\ result[k].status = "NONE"
      BY <1>3, ComputedFacts DEF Sourced
    <2>2. AddsUpAt(k)'
      BY <2>1 DEF AddsUpAt
    <2>3. ~craced' => LockedAt(k)'
      BY <2>1, LockedSame DEF AgreedAt, marksVars
    <2> QED
      BY <1>2, <2>2, <2>3 DEF AgreedAt
<1>4. CASE external[k] # NoRow
    <2>1. result'[k].internal = InternalOf(k)
      BY <1>4, ComputedFacts
    <2>2. AddsUpAt(k)'
      BY <1>4, ComputedFacts DEF AddsUpAt
    <2>3. LockedAt(k)'
      <3> SUFFICES ASSUME InternalOf(k) # NoMark
                   PROVE  LockedSum(k)'
        BY <2>1 DEF LockedAt
      <3>1. InternalOf(k) = Total(entry, Counted(k))
        BY InternalType
      <3>2. /\ Counted(k) \in SUBSET {c \in Comps : c[1] = k /\ cstatus[c] = "LOCKED"}
            /\ \A c \in Counted(k) : entry[c] # NoMark
        BY DEF Counted
      <3>3. entry' = entry /\ cstatus' = cstatus
        BY DEF marksVars
      <3>4. Total(entry', Counted(k)) = Total(entry, Counted(k))
        BY <3>3
      <3> QED
        BY <2>1, <3>1, <3>2, <3>3, <3>4 DEF LockedSum
    <2> QED
      BY <1>2, <2>2, <2>3 DEF AgreedAt
<1> QED
    BY <1>3, <1>4

\* The grace marks of the request's course go into its row and into a free log
\* entry.
LEMMA GraceAgrees ==
    ASSUME TypeOK, Entered, \A k \in Courses : AgreedAt(k), UNCHANGED marksVars,
           NEW j \in Courses, NEW g \in MarkValues, NEW l \in Logs,
           ActiveLogs(j) = {}, log[l] = NoEntry,
           log' = [log EXCEPT ![l] = [course |-> j, revoked |-> FALSE, marks |-> g]],
           result' = [result EXCEPT ![j] = GracedRow(j, g)],
           revoked' = revoked \ {j}
    PROVE  \A k \in Courses : AgreedAt(k)'
<1>1. result \in [Courses -> Row] /\ log \in [Logs -> LogRow]
    BY DEF TypeOK, DeclTypeOK
<1>2. /\ log'[l].course = j /\ ~log'[l].revoked /\ log'[l].marks = g
      /\ \A m \in Logs \ {l} : log'[m] = log[m]
      /\ log[l].course = NoCourse /\ NoCourse \notin Courses
    BY <1>1, DeclarationAssumption DEF NoEntry
<1>3. ASSUME NEW k \in Courses \ {j}
      PROVE  AgreedAt(k)'
    <2>1. ActiveLogs(k)' = ActiveLogs(k) /\ l \notin ActiveLogs(k)
      BY <1>2 DEF ActiveLogs
    <2>2. \A m \in ActiveLogs(k) : log'[m].marks = log[m].marks
      BY <1>2, <2>1 DEF ActiveLogs
    <2>3. result'[k] = result[k] /\ (k \in revoked => k \in revoked')
      BY <1>1
    <2> QED
      BY <2>1, <2>2, <2>3, SameRow
<1>4. AgreedAt(j)'
    <2>1. ActiveLogs(j)' = {l}
      BY <1>2 DEF ActiveLogs
    <2>2. result'[j] = GracedRow(j, g)
      BY <1>1
    <2>3. g # NoMark
      BY Numbers
    <2>4. GraceAt(j)'
      BY <1>2, <2>1, <2>2, <2>3, GracedFacts DEF GraceAt
    <2>5. AddsUpAt(j) /\ (~craced => LockedAt(j))
      BY DEF AgreedAt
    <2>6. AddsUpAt(j)'
      BY <2>2, <2>5, GracedFacts DEF AddsUpAt
    <2>7. ~craced' => LockedAt(j)'
      BY <2>2, <2>5, GracedFacts, LockedSame DEF marksVars
    <2> QED
      BY <2>4, <2>6, <2>7 DEF AgreedAt
<1> QED
    BY <1>3, <1>4

\* The grace marks of a log entry leave its row, and the course has no other.
LEMMA RevokeAgrees ==
    ASSUME TypeOK, \A k \in Courses : AgreedAt(k), UNCHANGED marksVars,
           NEW l \in Logs, NEW j \in Courses, log[l].course = j, ~log[l].revoked,
           log' = [log EXCEPT ![l].revoked = TRUE],
           result' = [result EXCEPT ![j].grace = NoMark],
           revoked' = revoked \cup {j}
    PROVE  \A k \in Courses : AgreedAt(k)'
<1>1. result \in [Courses -> Row] /\ log \in [Logs -> LogRow]
    BY DEF TypeOK, DeclTypeOK
<1>2. /\ log'[l].course = j /\ log'[l].revoked
      /\ \A m \in Logs \ {l} : log'[m] = log[m]
    BY <1>1 DEF LogRow
<1>3. ASSUME NEW k \in Courses \ {j}
      PROVE  AgreedAt(k)'
    <2>1. ActiveLogs(k)' = ActiveLogs(k) /\ l \notin ActiveLogs(k)
      BY <1>2 DEF ActiveLogs
    <2>2. \A m \in ActiveLogs(k) : log'[m].marks = log[m].marks
      BY <1>2, <2>1 DEF ActiveLogs
    <2>3. result'[k] = result[k] /\ (k \in revoked => k \in revoked')
      BY <1>1
    <2> QED
      BY <2>1, <2>2, <2>3, SameRow
<1>4. AgreedAt(j)'
    <2>1. GraceAt(j) /\ AddsUpAt(j) /\ (~craced => LockedAt(j))
      BY DEF AgreedAt
    <2>2. ActiveLogs(j)' = {}
      BY <1>2, <2>1 DEF ActiveLogs, GraceAt
    <2>3. /\ result'[j].grace = NoMark /\ result'[j].status = result[j].status
          /\ result'[j].total = result[j].total /\ result'[j].internal = result[j].internal
      BY <1>1 DEF Row
    <2>4. GraceAt(j)'
      BY <2>2, <2>3 DEF GraceAt
    <2>5. AddsUpAt(j)'
      BY <2>1, <2>3 DEF AddsUpAt
    <2>6. ~craced' => LockedAt(j)'
      BY <2>1, <2>3, LockedSame DEF marksVars
    <2> QED
      BY <2>4, <2>5, <2>6 DEF AgreedAt
<1> QED
    BY <1>3, <1>4

\* A step of the components leaves LOCKED entries alone, or reopens one.
LEMMA ComponentAgrees ==
    ASSUME ComponentInv, NEW k \in Courses, AgreedAt(k), MarksNext,
           UNCHANGED <<result, log, revoked>>
    PROVE  AgreedAt(k)'
<1>1. ActiveLogs(k)' = ActiveLogs(k)
    BY DEF ActiveLogs
<1>2. GraceAt(k)' /\ AddsUpAt(k)'
    BY <1>1 DEF AgreedAt, GraceAt, AddsUpAt
<1>3. ASSUME ~craced'
      PROVE  LockedAt(k)'
    <2>1. ~craced /\ reopened \subseteq reopened'
      BY <1>3, MarksAloneStep, ReopenedGrows DEF ComponentInv
    <2> SUFFICES ASSUME result[k].internal # NoMark, \A c \in reopened' : c[1] # k
                 PROVE  LockedSum(k)'
      BY DEF LockedAt
    <2>2. PICK S \in SUBSET {c \in Comps : c[1] = k /\ cstatus[c] = "LOCKED"} :
            /\ \A c \in S : entry[c] # NoMark
            /\ result[k].internal = Total(entry, S)
      BY <2>1 DEF AgreedAt, LockedAt, LockedSum
    <2>3. \A c \in S : cstatus'[c] = "LOCKED" /\ entry'[c] = entry[c]
      BY <2>1, <2>2, LockedKept DEF ComponentInv
    <2>4. Total(entry', S) = Total(entry, S)
      BY <2>3, TotalCong
    <2> QED
      BY <2>2, <2>3, <2>4 DEF LockedSum
<1> QED
    BY <1>2, <1>3 DEF AgreedAt

\* A write of the one pending request.
LEMMA WriteAgrees ==
    ASSUME ComponentInv, DeclInv, Fresh, ~raced, \A k \in Courses : AgreedAt(k),
           NEW r \in Reqs, Write(r), UNCHANGED marksVars
    PROVE  \A k \in Courses : AgreedAt(k)'
<1>0. /\ TypeOK /\ DeclTypeOK /\ Entered /\ Sourced /\ Bearing
    BY DEF DeclInv, ComponentInv, TypeOK
<1>1. CASE \/ UpdateWrite(r) \/ VerifyWrite(r) \/ PublishWrite(r) \/ LockWrite(r)
           \/ RevertWrite(r) \/ ExternalWrite(r) \/ SgpaWrite(r)
    <2>1. UNCHANGED <<result, log, revoked>>
      BY <1>1 DEF UpdateWrite, VerifyWrite, PublishWrite, LockWrite, RevertWrite,
                  DeclTransition, ExternalWrite, SgpaWrite
    <2> QED
      BY <2>1, SameRows
<1>2. CASE DeleteWrite(r)
    <2>1. CASE UNCHANGED <<result, log, revoked>>
      BY <2>1, SameRows
    <2>2. CASE /\ \A l \in Logs : log[l] = NoEntry
               /\ result' = NoResults /\ log' = log
      <3> SUFFICES ASSUME NEW k \in Courses
                   PROVE  AgreedAt(k)'
        OBVIOUS
      <3>1. \A l \in Logs : log'[l].course = NoCourse
        BY <2>2 DEF NoEntry
      <3>2. ActiveLogs(k)' = {}
        BY <3>1, DeclarationAssumption DEF ActiveLogs
      <3>3. /\ result'[k].grace = NoMark /\ result'[k].internal = NoMark
            /\ result'[k].status = "NONE"
        BY <2>2 DEF NoResults, NoResult
      <3>4. GraceAt(k)' /\ AddsUpAt(k)' /\ LockedAt(k)'
        BY <3>2, <3>3 DEF GraceAt, AddsUpAt, LockedAt
      <3> QED
        BY <3>4 DEF AgreedAt
    <2> QED
      BY <1>2, <2>1, <2>2 DEF DeleteWrite, WithoutRow
<1>3. CASE ComputeWrite(r)
    <2>1. /\ req[r].op = "compute" /\ UNCHANGED <<external, log>>
          /\ UNCHANGED <<result, revoked>> \/ FlushResults(r)
      BY <1>3 DEF ComputeWrite
    <2>2. req[r].seen = result /\ req[r].new = [k \in Courses |-> ComputedRow(k)]
      BY <2>1 DEF Fresh, Snapshot
    <2>3. CASE UNCHANGED <<result, revoked>>
      BY <2>1, <2>3, SameRows
    <2>4. CASE FlushResults(r)
      <3>1. result' = [k \in Courses |-> ComputedRow(k)]
        BY <1>0, <2>2, <2>4, FlushNew
      <3>2. \A k \in Courses : result'[k] = ComputedRow(k)
        BY <3>1
      <3> QED
        BY <1>0, <2>1, <3>2, ComputeAgrees
    <2> QED
      BY <2>1, <2>3, <2>4
<1>4. CASE ApplyGraceWrite(r)
    <2> DEFINE j == req[r].k
               g == req[r].new[j].grace
    <2>1. req[r].op = "grace" /\ FlushResults(r) /\ revoked' = revoked \ {j}
      BY <1>4 DEF ApplyGraceWrite
    <2>2. j \in Courses /\ g \in MarkValues
      BY <1>0, <2>1 DEF Bearing, Carries
    <2>3. /\ ActiveLogs(j) = {} /\ req[r].seen = result
          /\ req[r].new = [result EXCEPT ![j] = GracedRow(j, g)]
      BY <2>1 DEF Fresh, Snapshot
    <2>4. result' = [result EXCEPT ![j] = GracedRow(j, g)]
      BY <1>0, <2>1, <2>3, FlushNew
    <2>5. PICK l \in Logs :
             /\ log[l] = NoEntry
             /\ log' = [log EXCEPT ![l] = [course |-> j, revoked |-> FALSE, marks |-> g]]
      BY <1>4 DEF ApplyGraceWrite
    <2> HIDE DEF j, g
    <2> QED
      BY <1>0, <2>1, <2>2, <2>3, <2>4, <2>5, GraceAgrees
<1>5. CASE RevokeGraceWrite(r)
    <2> DEFINE l == req[r].log
               j == log[l].course
    <2>1. /\ req[r].op = "revoke" /\ FlushResults(r) /\ revoked' = revoked \cup {j}
          /\ log' = [log EXCEPT ![l].revoked = TRUE]
      BY <1>5 DEF RevokeGraceWrite
    <2>2. l \in Logs /\ log[l] # NoEntry
      BY <1>0, <2>1 DEF Bearing, Carries
    <2>3. j \in Courses
      BY <1>0, <2>2 DEF Entered
    <2>4. /\ ~log[l].revoked /\ req[r].seen = result
          /\ req[r].new = [result EXCEPT ![j].grace = NoMark]
      BY <2>1 DEF Fresh, Snapshot
    <2>5. result' = [result EXCEPT ![j].grace = NoMark]
      BY <1>0, <2>1, <2>4, FlushNew
    <2>6. log[l].course = j
      OBVIOUS
    <2> HIDE DEF l, j
    <2> QED
      BY <1>0, <2>1, <2>2, <2>3, <2>4, <2>5, <2>6, RevokeAgrees
<1> QED
    BY <1>1, <1>2, <1>3, <1>4, <1>5 DEF Write

\* Every step keeps the agreement, as long as no requests overlap.
LEMMA AgreeingStep ==
    ASSUME ComponentInv, DeclInv, Fresh, Agreeing, [Next]_vars
    PROVE  Agreeing'
<1> SUFFICES ASSUME ~raced'
             PROVE  \A k \in Courses : AgreedAt(k)'
    BY DEF Agreeing
<1>0. ~raced /\ \A k \in Courses : AgreedAt(k)
    BY FreshStep DEF Agreeing
<1>1. ASSUME NEW r \in Reqs, Write(r), UNCHANGED marksVars
      PROVE  \A k \in Courses : AgreedAt(k)'
    BY <1>0, <1>1, WriteAgrees
<1>2. CASE DeclNext /\ \A r \in Reqs : ~Write(r)
    <2>1. UNCHANGED <<result, log, revoked, marksVars>>
      <3>1. ASSUME CreateDeclaration
            PROVE  UNCHANGED <<result, log, revoked>>
        BY <3>1 DEF CreateDeclaration
      <3>2. ASSUME NEW r \in Reqs, Check(r)
            PROVE  UNCHANGED <<result, log, revoked>>
        <4>0. TypeOK /\ Entered /\ Sourced
          BY DEF DeclInv, ComponentInv, TypeOK
        <4>1. PICK a : Opens(r, a)
          BY <3>2, <4>0, CheckOpens
        <4> QED
          BY <4>1 DEF Opens, Begin, declaration
      <3>3. ASSUME NEW r \in Reqs, Abandon(r)
            PROVE  UNCHANGED <<result, log, revoked>>
        BY <3>3 DEF Abandon, declaration
      <3> QED
        BY <1>2, <3>1, <3>2, <3>3 DEF DeclNext
    <2> QED
      BY <1>0, <2>1, SameRows
<1>3. CASE ComponentNext
    <2>1. MarksNext /\ UNCHANGED <<result, log, revoked>>
      BY <1>3 DEF ComponentNext, declaration
    <2> QED
      BY <1>0, <2>1, ComponentAgrees
<1>4. CASE UNCHANGED vars
    <2>1. UNCHANGED <<result, log, revoked, marksVars>>
      BY <1>4 DEF vars, declVars, declaration
    <2> QED
      BY <1>0, <2>1, SameRows
<1> QED
    BY <1>1, <1>2, <1>3, <1>4 DEF Next, DeclNext

\* The agreement holds at the start.
LEMMA AgreeingStarts == Init => Fresh /\ Agreeing
<1> SUFFICES ASSUME Init
             PROVE  Fresh /\ \A k \in Courses : AgreedAt(k)
    BY DEF Agreeing
<1>1. Asked("idle").op = "idle"
    BY AskedType DEF Ops
<1>2. Fresh
    BY <1>1 DEF Fresh, Init, DeclInit
<1>3. ASSUME NEW k \in Courses
      PROVE  AgreedAt(k)
    <2>1. ActiveLogs(k) = {}
      BY DeclarationAssumption DEF Init, DeclInit, ActiveLogs, NoEntry
    <2>2. result[k].grace = NoMark /\ result[k].internal = NoMark /\ result[k].status = "NONE"
      BY DEF Init, DeclInit, NoResults, NoResult
    <2>3. GraceAt(k) /\ AddsUpAt(k) /\ LockedAt(k)
      BY <2>1, <2>2 DEF GraceAt, AddsUpAt, LockedAt
    <2> QED
      BY <2>3 DEF AgreedAt
<1> QED
    BY <1>2, <1>3

\* What holds at every course is what the run checks.
LEMMA AgreeingEnough == DeclInv /\ Agreeing => ResultsAgree
<1> SUFFICES ASSUME DeclInv, ~raced, \A k \in Courses : AgreedAt(k)
             PROVE  ResultsAgree
    BY DEF Agreeing, ResultsAgree, GraceMatchesLog, ResultsAddUp, OnlyLockedCounts
<1>1. GraceMatchesLog
    <2> SUFFICES ASSUME NEW k \in Courses
                 PROVE  Cardinality(ActiveLogs(k)) <= 1
      BY DEF GraceMatchesLog, AgreedAt, GraceAt
    <2>1. \A l, m \in ActiveLogs(k) : l = m
      BY DEF AgreedAt, GraceAt
    <2>2. CASE ActiveLogs(k) = {}
      BY <2>2, FS_EmptySet
    <2>3. CASE ActiveLogs(k) # {}
      <3>1. PICK l : ActiveLogs(k) = {l}
        BY <2>1, <2>3
      <3>2. Cardinality({l}) = 1
        BY FS_Singleton
      <3> QED
        BY <3>1, <3>2
    <2> QED
      BY <2>2, <2>3
<1>2. ResultsAddUp
    BY DEF ResultsAddUp, AgreedAt, AddsUpAt
<1>3. OnlyLockedCounts
    <2> SUFFICES ASSUME ~craced, NEW k \in Courses, result[k].internal # NoMark,
                        \A c \in reopened : c[1] # k
                 PROVE  \E S \in SUBSET {c \in Comps : c[1] = k /\ cstatus[c] = "LOCKED"} :
                           /\ \A c \in S : entry[c] # NoMark
                           /\ result[k].internal = MapThenSumSet(LAMBDA c : entry[c], S)
      BY DEF OnlyLockedCounts
    <2>1. LockedSum(k)
      BY DEF AgreedAt, LockedAt
    <2> QED
      BY <2>1 DEF LockedSum, Total
<1> QED
    BY <1>1, <1>2, <1>3 DEF ResultsAgree

\* Without overlap results, grace log, grades and LOCKED internal marks agree.
THEOREM AgreeHolds == Spec => []ResultsAgree
<1>1. ComponentInv /\ DeclInv /\ Fresh /\ Agreeing /\ [Next]_vars => (Fresh /\ Agreeing)'
    <2> SUFFICES ASSUME ComponentInv, DeclInv, Fresh, Agreeing, [Next]_vars
                 PROVE  Fresh' /\ Agreeing'
      OBVIOUS
    <2>1. raced' => Fresh'
      BY DEF Fresh
    <2> QED
      BY <2>1, AgreeingStep, FreshStep
<1>2. Spec => [](Fresh /\ Agreeing)
    BY <1>1, AgreeingStarts, ComponentInvariant, DeclInvariant, PTL DEF Spec
<1> QED
    BY <1>2, AgreeingEnough, DeclInvariant, PTL
=============================================================================
