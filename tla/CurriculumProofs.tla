--------------------------- MODULE CurriculumProofs ---------------------------
(***************************************************************************)
(* For any number of documents, requests, workers, messages and failures,  *)
(* a reviewed syllabus is compliant, the count of a learning package is    *)
(* right, syllabi, course kits and packages implement DocumentContract, and*)
(* the three stores agree on the files of uploads and exports.             *)
(* None of it is inductive, as the writes look at no status: the invariant *)
(* says what still holds when they come.  Its first part is about requests,*)
(* messages and workers alone; D is the set of a component's documents.    *)
(* The types of the four components are proved last, from those invariants.*)
(***************************************************************************)
EXTENDS Syllabus, CourseKit, LearningPackage, Exports, WellFoundedInduction, FiniteSetTheorems, TLAPS

\* A request between its check and its write.
Active(r) == req[r].op \notin {None, "publish"}

\* Without overlap there is one at most.
Solo == \A r, s \in Reqs : Active(r) /\ Active(s) => r = s

\* The publication, and the message, that ends a generation of d.
Asking(r, d) == req[r].op = "publish" /\ req[r].on = d
Queued(m, d) == msg[m].to = d
Busy(d) == (\E r \in Reqs : Asking(r, d)) \/ (\E m \in Slots : Queued(m, d))

\* A generation that is not repeated has one of them.
Single(D) == \A d \in D \ again :
    /\ \A r, s \in Reqs : Asking(r, d) /\ Asking(s, d) => r = s
    /\ \A m, n \in Slots : Queued(m, d) /\ Queued(n, d) => m = n
    /\ \A r \in Reqs, m \in Slots : ~(Asking(r, d) /\ Queued(m, d))

\* Its worker holds the message, which no other worker then has.
Held(D) == \A w \in Workers : \A d \in D \ again : exec[w].to = d =>
    /\ exec[w].slot \in Slots
    /\ msg[exec[w].slot].at = w
    /\ msg[exec[w].slot].to = d

Owned(D) == Solo /\ Single(D) /\ Held(D)

\* A step that starts no generation.
Quiet(D) == Owned(D)' /\ \A d \in D : Busy(d)' => Busy(d)

\* Records of the right shape over one set V: operations, tasks and phases are
\* told apart by their names, and version numbers not at all.
BackendShape(V, D) ==
    /\ req \in [Reqs -> [op : V, on : D \cup {None}, mem : V, task : V]]
    /\ msg \in [Slots -> [task : V, to : V, at : V, tries : V]]
    /\ exec \in [Workers -> [slot : V, task : V, to : V, phase : V, mem : V]]
    /\ raced \in BOOLEAN

\* The names and numbers that a step writes into them.
Words(D) ==
    UNION {D, Slots, Workers, {None, 0, "publish", "none", "queued", "idle", "running", "failed", "locked"},
           {msg[m].tries + 1 : m \in Slots}}
----------------------------------------------------------------------------
(* The shape.                                                              *)

\* A larger set of names is as good.
LEMMA ShapeGrows ==
    ASSUME NEW V, NEW D, BackendShape(V, D), NEW W, V \subseteq W
    PROVE  BackendShape(W, D)
BY DEF BackendShape

\* Requests begin, end and ask for a generation with records of that shape.
LEMMA RequestShape ==
    ASSUME NEW V, NEW D, BackendShape(V, D), Words(D) \subseteq V, UNCHANGED queue, NEW r \in Reqs,
           \/ \E o \in V, d \in D \cup {None}, x \in V : Begin(r, o, d, x)
           \/ End(r)
           \/ \E d \in D \cup {None}, t \in V : EndPublishing(r, d, t)
    PROVE  BackendShape(V, D)'
<1> DEFINE Req == [op : V, on : D \cup {None}, mem : V, task : V]
<1>1. None \in V /\ "publish" \in V
  BY DEF Words
<1>2. NoReq \in Req
  BY <1>1 DEF NoReq
<1>3. ASSUME NEW o \in V, NEW d \in D \cup {None}, NEW x \in V
      PROVE  [NoReq EXCEPT !.op = o, !.on = d, !.mem = x] \in Req
  BY <1>1 DEF NoReq
<1>4. ASSUME NEW d \in D \cup {None}, NEW t \in V
      PROVE  [NoReq EXCEPT !.op = "publish", !.on = d, !.task = t] \in Req
  BY <1>1 DEF NoReq
<1>5. \E q \in Req : req' = [req EXCEPT ![r] = q]
  <2> HIDE DEF Req
  <2> QED
    BY <1>2, <1>3, <1>4 DEF Begin, End, EndPublishing
<1>6. raced' \in BOOLEAN
  BY DEF Begin, End, EndPublishing, BackendShape
<1> QED
  BY <1>5, <1>6 DEF BackendShape, queue

\* So do the tasks,
LEMMA TaskShape ==
    ASSUME NEW V, NEW D, BackendShape(V, D), Words(D) \subseteq V, UNCHANGED <<req, raced>>,
           NEW w \in Workers,
           \/ \E m \in Slots, t \in V, p \in V, x \in V : Take(w, m, t, p, x)
           \/ \E p \in V, x \in V : Goto(w, p, x) /\ UNCHANGED msg
           \/ Finish(w)
           \/ Retry(w)
    PROVE  BackendShape(V, D)'
<1>1. /\ Workers \subseteq V /\ Slots \subseteq V /\ {None, 0, "none", "queued", "idle"} \subseteq V
      /\ \A m \in Slots : msg[m].tries + 1 \in V
  BY DEF Words
<1>2. NoMsg \in [task : V, to : V, at : V, tries : V]
  BY <1>1 DEF NoMsg
<1>3. Idle \in [slot : V, task : V, to : V, phase : V, mem : V]
  BY <1>1 DEF Idle
<1>4. ASSUME NEW m \in Slots, NEW t \in V, NEW p \in V, NEW x \in V, Take(w, m, t, p, x)
      PROVE  BackendShape(V, D)'
  BY <1>1, <1>4 DEF Take, BackendShape
<1>5. ASSUME NEW p \in V, NEW x \in V, Goto(w, p, x), UNCHANGED msg
      PROVE  BackendShape(V, D)'
  BY <1>5 DEF Goto, BackendShape
<1>6. CASE Finish(w)
  BY <1>2, <1>3, <1>6 DEF Finish, Acked, BackendShape
<1>7. CASE Retry(w)
  <2>1. PICK m : m = exec[w].slot
    OBVIOUS
  <2>2. ASSUME m \in Slots
        PROVE  [msg[m] EXCEPT !.at = "queued", !.tries = @ + 1] \in [task : V, to : V, at : V, tries : V]
    BY <1>1, <2>2 DEF BackendShape
  <2>3. msg' \in [Slots -> [task : V, to : V, at : V, tries : V]]
    BY <1>7, <2>1, <2>2 DEF Retry, BackendShape
  <2> QED
    BY <1>3, <1>7, <2>3 DEF Retry, BackendShape
<1> QED
  BY <1>4, <1>5, <1>6, <1>7

\* and what publishes, fails or is delivered again.
LEMMA EnvironmentShape ==
    ASSUME NEW V, NEW D, BackendShape(V, D), Words(D) \subseteq V, Environment
    PROVE  BackendShape(V, D)'
<1>1. /\ Workers \subseteq V /\ Slots \subseteq V /\ {None, 0, "none", "queued", "idle"} \subseteq V
      /\ D \subseteq V
  BY DEF Words
<1>2. NoMsg \in [task : V, to : V, at : V, tries : V]
  BY <1>1 DEF NoMsg
<1>3. Idle \in [slot : V, task : V, to : V, phase : V, mem : V]
  BY <1>1 DEF Idle
<1>4. NoReq \in [op : V, on : D \cup {None}, mem : V, task : V]
  BY <1>1 DEF NoReq
<1>5. ASSUME NEW r \in Reqs, Publish(r) PROVE BackendShape(V, D)'
  <2>1. PICK m \in Slots : msg' = [msg EXCEPT ![m] = [task |-> req[r].task, to |-> req[r].on,
                                                      at |-> "queued", tries |-> 0]]
    BY <1>5 DEF Publish
  <2>2. req[r].task \in V /\ req[r].on \in V
    BY <1>1 DEF BackendShape
  <2> QED
    BY <1>1, <1>4, <1>5, <2>1, <2>2 DEF Publish, End, BackendShape
<1>6. ASSUME NEW r \in Reqs, Abandon(r) PROVE BackendShape(V, D)'
  BY <1>4, <1>6 DEF Abandon, BackendShape
<1>7. ASSUME NEW w \in Workers, WorkerCrash(w) PROVE BackendShape(V, D)'
  BY <1>3, <1>7 DEF WorkerCrash, BackendShape
<1>8. ASSUME NEW w \in Workers, ProcessLost(w) PROVE BackendShape(V, D)'
  BY <1>2, <1>3, <1>8 DEF ProcessLost, Acked, BackendShape
<1>9. ASSUME NEW m \in Slots, Redeliver(m) PROVE BackendShape(V, D)'
  BY <1>1, <1>9 DEF Redeliver, BackendShape
<1> QED
  BY <1>5, <1>6, <1>7, <1>8, <1>9 DEF Environment

----------------------------------------------------------------------------
(* Who owns a generation.                                                  *)

\* A request that starts without overlap is the only one.
LEMMA BeginOwned ==
    ASSUME NEW V, NEW R, NEW D, BackendShape(V, R), Owned(D), ~raced', UNCHANGED queue,
           NEW r \in Reqs, NEW o, NEW d, NEW x, Begin(r, o, d, x), o \notin {None, "publish"}
    PROVE  /\ Quiet(D) /\ ~raced
           /\ req'[r].op = o /\ req'[r].on = d
           /\ \A s \in Reqs : Active(s)' => s = r
<1>1. /\ req' = [req EXCEPT ![r] = [NoReq EXCEPT !.op = o, !.on = d, !.mem = x]]
      /\ \A s \in Reqs \ {r} : ~Active(s)
      /\ UNCHANGED <<msg, exec, again, raced>>
  BY DEF Begin, Active, BackendShape, queue
<1>2. /\ req'[r].op = o /\ req'[r].on = d
      /\ \A s \in Reqs \ {r} : req'[s] = req[s]
  BY <1>1 DEF BackendShape, NoReq
<1>3. \A s \in Reqs : Active(s)' => s = r
  BY <1>1, <1>2 DEF Active
<1>4. \A s \in Reqs, e \in D : Asking(s, e)' => Asking(s, e)
  BY <1>2 DEF Asking
<1>5. Solo'
  BY <1>3 DEF Solo
<1>6. Single(D)' /\ Held(D)' /\ \A e \in D : Busy(e)' => Busy(e)
  BY <1>1, <1>4 DEF Owned, Single, Held, Busy, Queued
<1> QED
  BY <1>1, <1>2, <1>3, <1>5, <1>6 DEF Owned, Quiet

\* A request that ends leaves none between its check and its write.
LEMMA EndOwned ==
    ASSUME NEW V, NEW R, NEW D, BackendShape(V, R), None \notin D, Owned(D), UNCHANGED queue,
           NEW r \in Reqs, Active(r), End(r)
    PROVE  Quiet(D) /\ \A s \in Reqs : ~Active(s)'
<1>1. /\ req'[r] = NoReq
      /\ \A s \in Reqs \ {r} : req'[s] = req[s]
      /\ UNCHANGED <<msg, exec, again>>
  BY DEF End, BackendShape, queue
<1>2. \A s \in Reqs : ~Active(s)'
  BY <1>1 DEF Owned, Solo, Active, NoReq
<1>3. \A s \in Reqs, e \in D : Asking(s, e)' => Asking(s, e)
  BY <1>1 DEF Asking, NoReq
<1>4. Solo'
  BY <1>2 DEF Solo
<1>5. Single(D)' /\ Held(D)' /\ \A e \in D : Busy(e)' => Busy(e)
  BY <1>1, <1>3 DEF Owned, Single, Held, Busy, Queued
<1> QED
  BY <1>2, <1>4, <1>5 DEF Owned, Quiet

\* A request that asks for a generation of a document that is not busy makes it so.
LEMMA PublishingOwned ==
    ASSUME NEW V, NEW R, NEW D, BackendShape(V, R), Owned(D), UNCHANGED queue,
           NEW r \in Reqs, Active(r), NEW d, NEW t, EndPublishing(r, d, t),
           d \in D \ again => ~Busy(d)
    PROVE  Owned(D)' /\ (\A s \in Reqs : ~Active(s)') /\ \A e \in D : Busy(e)' => Busy(e) \/ e = d
<1>1. /\ req'[r].op = "publish" /\ req'[r].on = d
      /\ \A s \in Reqs \ {r} : req'[s] = req[s]
      /\ UNCHANGED <<msg, exec, again>>
  BY DEF EndPublishing, BackendShape, NoReq, queue
<1>2. \A s \in Reqs : ~Active(s)'
  BY <1>1 DEF Owned, Solo, Active
<1>3. \A s \in Reqs, e \in D : Asking(s, e)' <=> Asking(s, e) \/ (s = r /\ e = d)
  BY <1>1 DEF Asking, Active
<1>4. Solo'
  BY <1>2 DEF Solo
<1>5. Single(D)'
  BY <1>1, <1>3 DEF Owned, Single, Queued, Busy
<1>6. Held(D)' /\ \A e \in D : Busy(e)' => Busy(e) \/ e = d
  BY <1>1, <1>3 DEF Owned, Held, Busy, Queued
<1> QED
  BY <1>2, <1>4, <1>5, <1>6 DEF Owned

\* What publishes, fails or is delivered again starts none, and repeats one at most.
LEMMA EnvironmentOwned ==
    ASSUME NEW V, NEW R, NEW D, BackendShape(V, R), None \notin D, Owned(D), Environment
    PROVE  /\ Quiet(D) /\ UNCHANGED raced
           /\ \A s \in Reqs : Active(s)' => Active(s) /\ UNCHANGED req[s]
           /\ \E d : again \subseteq again' /\ again' \subseteq again \cup {d}
<1>1. ASSUME NEW r \in Reqs, Publish(r)
      PROVE  /\ Quiet(D) /\ UNCHANGED <<raced, again>>
             /\ \A s \in Reqs : Active(s)' => Active(s) /\ UNCHANGED req[s]
  <2>1. PICK m \in Slots : /\ msg[m].at = "none"
                           /\ msg' = [msg EXCEPT ![m] = [task |-> req[r].task, to |-> req[r].on,
                                                         at |-> "queued", tries |-> 0]]
    BY <1>1 DEF Publish
  <2>2. /\ req[r].op = "publish" /\ req'[r] = NoReq
        /\ \A s \in Reqs \ {r} : req'[s] = req[s]
        /\ UNCHANGED <<raced, exec, again>>
    BY <1>1 DEF Publish, End, BackendShape
  <2>3. /\ msg'[m].to = req[r].on /\ msg'[m].at = "queued"
        /\ \A n \in Slots \ {m} : msg'[n] = msg[n]
    BY <2>1 DEF BackendShape
  <2>4. \A s \in Reqs : /\ Active(s)' => Active(s) /\ s # r
                        /\ \A e \in D : Asking(s, e)' => Asking(s, e) /\ s # r
    BY <2>2 DEF Active, Asking, NoReq
  <2>5. \A n \in Slots, e \in D :
            Queued(n, e)' => (n # m /\ Queued(n, e)) \/ (n = m /\ Asking(r, e))
    BY <2>2, <2>3 DEF Queued, Asking
  <2>6. Solo'
    BY <2>2, <2>4 DEF Owned, Solo
  <2>7. Single(D)'
    BY <2>2, <2>4, <2>5 DEF Owned, Single
  <2>8. \A e \in D : Busy(e)' => Busy(e)
    BY <2>4, <2>5 DEF Busy
  <2>9. Held(D)'
    BY <2>1, <2>2, <2>3, BackendAssumption DEF Owned, Held
  <2> QED
    BY <2>2, <2>4, <2>6, <2>7, <2>8, <2>9 DEF Owned, Quiet
<1>2. ASSUME NEW r \in Reqs, Abandon(r)
      PROVE  /\ Quiet(D) /\ UNCHANGED <<raced, again>>
             /\ \A s \in Reqs : Active(s)' => Active(s) /\ UNCHANGED req[s]
  <2>1. /\ req'[r] = NoReq
        /\ \A s \in Reqs \ {r} : req'[s] = req[s]
        /\ UNCHANGED <<raced, msg, exec, again>>
    BY <1>2 DEF Abandon, BackendShape
  <2>2. \A s \in Reqs : /\ Active(s)' => Active(s) /\ s # r
                        /\ \A e \in D : Asking(s, e)' => Asking(s, e) /\ s # r
    BY <2>1 DEF Active, Asking, NoReq
  <2>3. Solo'
    BY <2>1, <2>2 DEF Owned, Solo
  <2>4. Single(D)' /\ Held(D)' /\ \A e \in D : Busy(e)' => Busy(e)
    BY <2>1, <2>2 DEF Owned, Single, Held, Busy, Queued
  <2> QED
    BY <2>1, <2>2, <2>3, <2>4 DEF Owned, Quiet
<1>3. ASSUME NEW w \in Workers, WorkerCrash(w) \/ ProcessLost(w)
      PROVE  Quiet(D) /\ UNCHANGED <<raced, again, req>>
  <2>1. /\ exec'[w] = Idle
        /\ \A v \in Workers \ {w} : exec'[v] = exec[v]
        /\ UNCHANGED <<req, raced, again>>
        /\ msg' \in {msg, Acked(w)}
    BY <1>3 DEF WorkerCrash, ProcessLost, BackendShape
  <2>2. \A n \in Slots : \/ msg'[n] = msg[n]
                         \/ n = exec[w].slot /\ msg[n].at = w /\ msg'[n] = NoMsg
    BY <2>1 DEF Acked, BackendShape
  <2>3. \A n \in Slots, e \in D : Queued(n, e)' => Queued(n, e)
    BY <2>2 DEF Queued, NoMsg
  <2>4. Solo'
    BY <2>1 DEF Owned, Solo, Active
  <2>5. Single(D)' /\ \A e \in D : Busy(e)' => Busy(e)
    BY <2>1, <2>3 DEF Owned, Single, Busy, Asking
  <2>6. Held(D)'
    BY <2>1, <2>2 DEF Owned, Held, Idle
  <2> QED
    BY <2>1, <2>4, <2>5, <2>6 DEF Owned, Quiet
<1>4. ASSUME NEW m \in Slots, Redeliver(m)
      PROVE  Quiet(D) /\ UNCHANGED <<raced, req>> /\ again' = again \cup {msg[m].to}
  <2>1. /\ msg'[m].to = msg[m].to
        /\ \A n \in Slots \ {m} : msg'[n] = msg[n]
        /\ again' = again \cup {msg[m].to}
        /\ UNCHANGED <<req, raced, exec>>
    BY <1>4 DEF Redeliver, BackendShape
  <2>2. \A n \in Slots, e \in D : Queued(n, e)' <=> Queued(n, e)
    BY <2>1 DEF Queued
  <2>3. Solo'
    BY <2>1 DEF Owned, Solo, Active
  <2>4. Single(D)' /\ \A e \in D : Busy(e)' => Busy(e)
    BY <2>1, <2>2 DEF Owned, Single, Busy, Asking
  <2>5. Held(D)'
    BY <2>1 DEF Owned, Held
  <2> QED
    BY <2>1, <2>3, <2>4, <2>5 DEF Owned, Quiet
<1>5. ASSUME UNCHANGED req, NEW s \in Reqs, Active(s)' PROVE Active(s) /\ UNCHANGED req[s]
  BY <1>5 DEF Active
<1> QED
  BY <1>1, <1>2, <1>3, <1>4, <1>5 DEF Environment

\* A task that is taken up, or goes on, holds its message.
LEMMA TaskOwned ==
    ASSUME NEW V, NEW R, NEW D, BackendShape(V, R), Owned(D), NEW w \in Workers, UNCHANGED <<req, again>>,
           \/ \E m \in Slots : \E t, p, x : Take(w, m, t, p, x)
           \/ (\E p, x : Goto(w, p, x)) /\ UNCHANGED msg
    PROVE  Quiet(D)
<1>1. Solo'
  BY DEF Owned, Solo, Active
<1>2. ASSUME NEW m \in Slots, NEW t, NEW p, NEW x, Take(w, m, t, p, x)
      PROVE  Quiet(D)
  <2>1. /\ msg[m].at = "queued" /\ msg'[m].at = w /\ msg'[m].to = msg[m].to
        /\ \A n \in Slots \ {m} : msg'[n] = msg[n]
    BY <1>2 DEF Take, BackendShape
  <2>2. /\ exec'[w].slot = m /\ exec'[w].to = msg[m].to
        /\ \A v \in Workers \ {w} : exec'[v] = exec[v]
    BY <1>2 DEF Take, BackendShape
  <2>3. \A n \in Slots, e \in D : Queued(n, e)' <=> Queued(n, e)
    BY <2>1 DEF Queued
  <2>4. Single(D)' /\ \A e \in D : Busy(e)' => Busy(e)
    BY <2>3 DEF Owned, Single, Busy, Asking
  <2>5. Held(D)'
    BY <2>1, <2>2, BackendAssumption DEF Owned, Held
  <2> QED
    BY <1>1, <2>4, <2>5 DEF Owned, Quiet
<1>3. ASSUME NEW p, NEW x, Goto(w, p, x), UNCHANGED msg
      PROVE  Quiet(D)
  <2>1. /\ exec'[w].to = exec[w].to /\ exec'[w].slot = exec[w].slot
        /\ \A v \in Workers \ {w} : exec'[v] = exec[v]
    <3>1. /\ exec'[w] = [exec[w] EXCEPT !.phase = p, !.mem = x]
          /\ \A v \in Workers \ {w} : exec'[v] = exec[v]
      BY <1>3 DEF Goto, BackendShape
    <3>2. exec[w] \in [slot : V, task : V, to : V, phase : V, mem : V]
      BY DEF BackendShape
    <3> QED
      BY <3>1, <3>2
  <2>2. Single(D)' /\ \A e \in D : Busy(e)' => Busy(e)
    BY <1>3 DEF Owned, Single, Busy, Asking, Queued
  <2>3. Held(D)'
    BY <1>3, <2>1 DEF Owned, Held
  <2> QED
    BY <1>1, <2>2, <2>3 DEF Owned, Quiet
<1> QED
  BY <1>2, <1>3

\* A task that ends takes the only message of its document with it; one that
\* will be retried makes its document one that is repeated.
LEMMA TaskEndOwned ==
    ASSUME NEW V, NEW R, NEW D, BackendShape(V, R), None \notin D, Owned(D), NEW w \in Workers,
           UNCHANGED req, Finish(w) \/ Retry(w), NEW d, d = exec[w].to
    PROVE  /\ Quiet(D)
           /\ again \subseteq again' /\ again' \subseteq again \cup {d}
           /\ d \in D \ again' => Busy(d) /\ ~Busy(d)'
<1>1. /\ exec'[w] = Idle
      /\ \A v \in Workers \ {w} : exec'[v] = exec[v]
  BY DEF Finish, Retry, BackendShape
<1>2. again \subseteq again' /\ again' \subseteq again \cup {d}
  BY DEF Finish, Retry
<1>3. \A n \in Slots : /\ msg[n].at # w => msg'[n] = msg[n]
                       /\ msg'[n].to \in {msg[n].to, None}
  <2>1. CASE Finish(w)
    BY <2>1 DEF Finish, Acked, NoMsg, BackendShape
  <2>2. CASE Retry(w)
    BY <2>2 DEF Retry, BackendShape
  <2> QED
    BY <2>1, <2>2
<1>4. ASSUME d \in D \ again'
      PROVE  Busy(d) /\ ~Busy(d)'
  <2>1. PICK s : s = exec[w].slot
    OBVIOUS
  <2>2. Finish(w)
    BY <1>4 DEF Finish, Retry
  <2>3. s \in Slots /\ msg[s].at = w /\ Queued(s, d)
    BY <1>2, <1>4, <2>1 DEF Owned, Held, Queued
  <2>4. msg'[s] = NoMsg
    BY <2>1, <2>2, <2>3 DEF Finish, Acked, BackendShape
  <2>5. \A n \in Slots : Queued(n, d) => n = s
    BY <1>2, <1>4, <2>3 DEF Owned, Single
  <2>6. \A n \in Slots : ~Queued(n, d)'
    BY <1>3, <1>4, <2>4, <2>5 DEF Queued, NoMsg
  <2>7. \A r \in Reqs : ~Asking(r, d)
    BY <1>2, <1>4, <2>3 DEF Owned, Single
  <2>8. \A r \in Reqs : ~Asking(r, d)'
    BY <2>7 DEF Asking
  <2> QED
    BY <2>3, <2>6, <2>8 DEF Busy
<1>5. \A n \in Slots, e \in D : Queued(n, e)' => Queued(n, e)
  BY <1>3 DEF Queued
<1>6. Solo'
  BY DEF Owned, Solo, Active
<1>7. Single(D)' /\ \A e \in D : Busy(e)' => Busy(e)
  BY <1>2, <1>5 DEF Owned, Single, Asking, Busy
<1>8. Held(D)'
  BY <1>1, <1>2, <1>3 DEF Owned, Held, Idle
<1> QED
  BY <1>2, <1>4, <1>6, <1>7, <1>8 DEF Owned, Quiet

----------------------------------------------------------------------------
(* Syllabi.                                                                *)

\* What the check of an operation found and its write relies on.
SyllabusStands(op, row) ==
    /\ op \in {"edit", "delete", "dispatch", "submit"} => row.status = "DRAFT"
    /\ op = "submit" => row.full
    /\ op = "approve" => row.status = "PENDING_REVIEW"
    /\ op = "lock" => row.status = "DEAN_APPROVED"
    /\ op = "unlock" => row.status = "DEAN_LOCKED"

SyllabusRow(V) ==
    [status : SyllabusStatus \cup {"NONE", "GONE"}, ver : V, from : V, full : BOOLEAN, edited : BOOLEAN]

SyllabusShape(V) == syl \in [Syllabi -> SyllabusRow(V)] /\ BackendShape(V, Syllabi)

\* It still holds at the write; a row in generation says so as long as the
\* generation is under way; a reviewed version is compliant.
SyllabusGood(d) ==
    /\ \A r \in Reqs : Active(r) /\ req[r].on = d => SyllabusStands(req[r].op, syl[d])
    /\ Busy(d) => syl[d].status = "AI_GENERATING"
    /\ syl[d].status \in Immutable => syl[d].full

SyllabusHolds == Owned(Syllabi) /\ \A d \in Syllabi \ again : SyllabusGood(d)

SyllabusInv == (\E V : SyllabusShape(V)) /\ (raced \/ SyllabusHolds)

\* A step of one document, which moves as the contract allows unless its promise
\* is void.
SyllabusMoves(d) ==
    /\ \A e \in Syllabi \ {d} : syl'[e] = syl[e]
    /\ again \subseteq again' /\ again' \subseteq again \cup {d}
    /\ d \in Syllabi \ again' =>
          \/ syl'[d].status = syl[d].status
          \/ syl[d].status = "NONE" /\ syl'[d].status = "DRAFT"
          \/ syl[d].status = "DRAFT" /\ syl'[d].status \in {"GONE", "AI_GENERATING"} \cup Immutable
          \/ syl[d].status = "AI_GENERATING" /\ syl'[d].status = "DRAFT"
          \/ syl[d].status \in Immutable /\ syl'[d].status \in Immutable

\* The names and numbers a step writes.
SyllabusWords == Words(Syllabi) \cup SyllabusOps \cup {"generate_syllabus", NextVersion}

\* The writes of a row, by the columns they set; no other row is touched.
LEMMA SyllabusRowKeeps ==
    ASSUME NEW V, syl \in [Syllabi -> SyllabusRow(V)], NEW d, NEW f \in BOOLEAN, NEW e \in BOOLEAN,
           NEW s \in SyllabusStatus \cup {"NONE", "GONE"},
           \/ UNCHANGED syl
           \/ syl' = [syl EXCEPT ![d].status = s]
           \/ syl' = [syl EXCEPT ![d].full = f, ![d].edited = e]
           \/ syl' = [syl EXCEPT ![d].status = s, ![d].edited = e]
           \/ syl' = [syl EXCEPT ![d].status = s, ![d].full = f, ![d].edited = e]
    PROVE  /\ syl' \in [Syllabi -> SyllabusRow(V)]
           /\ \A c \in Syllabi \ {d} : syl'[c] = syl[c]
<1>1. CASE d \notin Syllabi
  <2>1. syl' = syl
    BY <1>1
  <2> QED
    BY <2>1
<1>2. CASE d \in Syllabi
  <2>1. syl[d] \in SyllabusRow(V)
    BY <1>2
  <2>2. ASSUME NEW x \in SyllabusRow(V)
        PROVE  /\ [x EXCEPT !.status = s] \in SyllabusRow(V)
               /\ [x EXCEPT !.full = f] \in SyllabusRow(V)
               /\ [x EXCEPT !.edited = e] \in SyllabusRow(V)
    BY DEF SyllabusRow
  <2>3. /\ [syl[d] EXCEPT !.status = s] \in SyllabusRow(V)
        /\ [syl[d] EXCEPT !.full = f, !.edited = e] \in SyllabusRow(V)
        /\ [syl[d] EXCEPT !.status = s, !.edited = e] \in SyllabusRow(V)
        /\ [syl[d] EXCEPT !.status = s, !.full = f] \in SyllabusRow(V)
    BY <2>1, <2>2
  <2>4. [syl[d] EXCEPT !.status = s, !.full = f, !.edited = e] \in SyllabusRow(V)
    BY <2>2, <2>3
  <2>5. \E x \in SyllabusRow(V) : syl' = [syl EXCEPT ![d] = x]
    <3>1. CASE UNCHANGED syl
      BY <1>2, <2>1, <3>1
    <3>2. CASE syl' = [syl EXCEPT ![d].status = s]
      BY <1>2, <2>3, <3>2
    <3>3. CASE syl' = [syl EXCEPT ![d].full = f, ![d].edited = e]
      BY <1>2, <2>3, <3>3
    <3>4. CASE syl' = [syl EXCEPT ![d].status = s, ![d].edited = e]
      BY <1>2, <2>3, <3>4
    <3>5. CASE syl' = [syl EXCEPT ![d].status = s, ![d].full = f, ![d].edited = e]
      BY <1>2, <2>4, <3>5
    <3> QED
      BY <3>1, <3>2, <3>3, <3>4, <3>5
  <2> QED
    BY <1>2, <2>5
<1> QED
  BY <1>1, <1>2

\* Requests and tasks write rows of their shape, out of known names.
LEMMA SyllabusShapeStep ==
    ASSUME NEW V, SyllabusShape(V), SyllabusNext, NEW W, W = V \cup SyllabusWords
    PROVE  SyllabusShape(W)'
<1>1. syl \in [Syllabi -> SyllabusRow(W)] /\ BackendShape(W, Syllabi)
  BY ShapeGrows DEF SyllabusShape, SyllabusRow
<1>2. /\ Words(Syllabi) \subseteq W
      /\ SyllabusOps \cup {None, NextVersion, "generate_syllabus", "running", "failed", "locked"} \subseteq W
  BY DEF SyllabusWords, Words
<1>3. ASSUME NEW r \in Reqs, SyllabusRequest(r), UNCHANGED queue
      PROVE  SyllabusShape(W)'
  <2>1. PICK d : d = req[r].on
    OBVIOUS
  <2>2. d \in Syllabi \cup {None} /\ req[r].mem \in W
    BY <1>1, <2>1 DEF BackendShape
  <2>3. CASE (FacultyRequest(r) \/ DeanRequest(r)) /\ UNCHANGED syl
    <3>1. \E o \in W, e \in Syllabi \cup {None}, x \in W : Begin(r, o, e, x)
      BY <1>2, <2>3
      DEF FacultyRequest, DeanRequest, CreateSyllabus, EditSyllabus, DeleteSyllabus, ForkSyllabus,
          DispatchGeneration, SubmitForReview, ApproveSyllabus, RejectSyllabus, LockSyllabus,
          UnlockSyllabus, SyllabusOps
    <3>2. BackendShape(W, Syllabi)'
      BY <1>1, <1>2, <1>3, <3>1, RequestShape
    <3> QED
      BY <1>1, <2>3, <3>2 DEF SyllabusShape
  <2>4. ASSUME End(r) \/ EndPublishing(r, d, "generate_syllabus"), syl' \in [Syllabi -> SyllabusRow(W)]
        PROVE  SyllabusShape(W)'
    <3>1. BackendShape(W, Syllabi)'
      BY <1>1, <1>2, <1>3, <2>2, <2>4, RequestShape
    <3> QED
      BY <2>4, <3>1 DEF SyllabusShape
  <2>5. CASE WriteSyllabus(r)
    <3>1. \/ UNCHANGED syl
          \/ \E c \in Syllabi, e, f \in BOOLEAN, u \in W :
                syl' = [syl EXCEPT ![c] = [status |-> "DRAFT", ver |-> req[r].mem, from |-> u,
                                           full |-> f, edited |-> e]]
      <4>1. /\ (d # None /\ syl[d].full) \in BOOLEAN
            /\ (d # None /\ syl[d].edited) \in BOOLEAN
            /\ (IF d = None THEN 0 ELSE d) \in W
        BY <1>1, <1>2, <2>2 DEF SyllabusRow, Words
      <4> QED
        BY <2>1, <2>5, <4>1 DEF WriteSyllabus, FreshSyllabus
    <3>2. ASSUME NEW e \in BOOLEAN, NEW f \in BOOLEAN, NEW u \in W
          PROVE  [status |-> "DRAFT", ver |-> req[r].mem, from |-> u, full |-> f, edited |-> e]
                      \in SyllabusRow(W)
      BY <2>2 DEF SyllabusRow, SyllabusStatus
    <3>3. syl' \in [Syllabi -> SyllabusRow(W)]
      BY <1>1, <3>1, <3>2
    <3> QED
      BY <2>4, <2>5, <3>3 DEF WriteSyllabus
  <2>6. CASE WriteEdit(r) \/ WriteDelete(r) \/ WriteStatus(r) \/ WriteDispatch(r)
    <3>1. /\ {"GONE", "AI_GENERATING"} \cup Immutable \subseteq SyllabusStatus \cup {"NONE", "GONE"}
          /\ \A o \in DOMAIN Moved : Moved[o] \in SyllabusStatus \cup {"NONE", "GONE"}
      BY DEF SyllabusStatus, Immutable, Moved
    <3>2. \E s \in SyllabusStatus \cup {"NONE", "GONE"}, f, e \in BOOLEAN :
              \/ UNCHANGED syl
              \/ syl' = [syl EXCEPT ![d].status = s]
              \/ syl' = [syl EXCEPT ![d].full = f, ![d].edited = e]
              \/ syl' = [syl EXCEPT ![d].status = s, ![d].edited = e]
      BY <2>1, <2>6, <3>1 DEF WriteEdit, WriteDelete, WriteStatus, WriteDispatch, SetStatus
    <3>3. syl' \in [Syllabi -> SyllabusRow(W)]
      BY <1>1, <3>2, SyllabusRowKeeps
    <3> QED
      BY <2>1, <2>4, <2>6, <3>3 DEF WriteEdit, WriteDelete, WriteStatus, WriteDispatch
  <2> QED
    BY <1>3, <2>3, <2>5, <2>6 DEF SyllabusRequest
<1>4. ASSUME NEW w \in Workers, SyllabusTask(w), UNCHANGED <<req, raced>>
      PROVE  SyllabusShape(W)'
  <2>1. PICK d : d = exec[w].to
    OBVIOUS
  <2>2. \/ \E m \in Slots, t \in W, p \in W, x \in W : Take(w, m, t, p, x)
        \/ \E p \in W, x \in W : Goto(w, p, x) /\ UNCHANGED msg
        \/ Finish(w)
        \/ Retry(w)
    BY <1>2, <1>4
    DEF SyllabusTask, StartGeneration, CommitGeneration, FailGeneration, ResetSyllabus, ResetFails
  <2>3. BackendShape(W, Syllabi)'
    BY <1>1, <1>2, <1>4, <2>2, TaskShape
  <2>4. /\ "DRAFT" \in SyllabusStatus \cup {"NONE", "GONE"}
        /\ \E f \in BOOLEAN :
              \/ UNCHANGED syl
              \/ syl' = [syl EXCEPT ![d].status = "DRAFT"]
              \/ syl' = [syl EXCEPT ![d].status = "DRAFT", ![d].full = f, ![d].edited = FALSE]
    BY <1>4, <2>1
    DEF SyllabusTask, StartGeneration, CommitGeneration, FailGeneration, ResetSyllabus, ResetFails,
        SetStatus, SyllabusStatus
  <2>5. syl' \in [Syllabi -> SyllabusRow(W)]
    BY <1>1, <2>4, SyllabusRowKeeps
  <2> QED
    BY <2>3, <2>5 DEF SyllabusShape
<1>5. ASSUME Environment, UNCHANGED syl
      PROVE  SyllabusShape(W)'
  BY <1>1, <1>2, <1>5, EnvironmentShape DEF SyllabusShape
<1> QED
  BY <1>3, <1>4, <1>5 DEF SyllabusNext

\* Only the document of the step is to be looked at.
LEMMA SyllabusRest ==
    ASSUME SyllabusHolds, Owned(Syllabi)', again \subseteq again', NEW d,
           \A e \in Syllabi \ {d} :
               /\ syl'[e] = syl[e]
               /\ Busy(e)' => Busy(e)
               /\ \A s \in Reqs : Active(s)' /\ req'[s].on = e => Active(s) /\ req[s] = req'[s],
           d \in Syllabi \ again' => SyllabusGood(d)'
    PROVE  SyllabusHolds'
<1>1. ASSUME NEW e \in Syllabi \ again', e # d
      PROVE  SyllabusGood(e)'
  <2>1. SyllabusGood(e)
    BY <1>1 DEF SyllabusHolds
  <2> QED
    BY <1>1, <2>1 DEF SyllabusGood
<1> QED
  BY <1>1 DEF SyllabusHolds

\* Requests that start or write without overlap, and the moves they make.
LEMMA SyllabusRequestKeeps ==
    ASSUME NEW V, SyllabusShape(V), SyllabusHolds, ~raced',
           NEW r \in Reqs, SyllabusRequest(r), UNCHANGED queue
    PROVE  SyllabusHolds' /\ \E d : SyllabusMoves(d)
<1> USE SyllabiAssumption
<1>1. /\ syl \in [Syllabi -> SyllabusRow(V)] /\ BackendShape(V, Syllabi)
      /\ Owned(Syllabi) /\ \A d \in Syllabi \ again : SyllabusGood(d)
      /\ UNCHANGED again
  BY DEF SyllabusShape, SyllabusHolds, queue
<1>2. CASE (FacultyRequest(r) \/ DeanRequest(r)) /\ UNCHANGED syl
  <2>1. PICK o \in SyllabusOps, d \in Syllabi \cup {None} :
            (\E x : Begin(r, o, d, x)) /\ (d \in Syllabi => SyllabusStands(o, syl[d]))
    <3>1. CASE FacultyRequest(r)
      BY <3>1
      DEF FacultyRequest, CreateSyllabus, EditSyllabus, DeleteSyllabus, ForkSyllabus,
          DispatchGeneration, SubmitForReview, SyllabusOps, SyllabusStands
    <3>2. CASE DeanRequest(r)
      BY <3>2
      DEF DeanRequest, ApproveSyllabus, RejectSyllabus, LockSyllabus, UnlockSyllabus, SyllabusOps,
          SyllabusStands
    <3> QED
      BY <1>2, <3>1, <3>2
  <2>2. o \notin {None, "publish"}
    BY DEF SyllabusOps
  <2>3. /\ Quiet(Syllabi)
        /\ req'[r].op = o /\ req'[r].on = d
        /\ \A s \in Reqs : Active(s)' => s = r
    BY <1>1, <2>1, <2>2, BeginOwned
  <2>4. d \in Syllabi \ again' => SyllabusGood(d)'
    BY <1>1, <1>2, <2>1, <2>3 DEF SyllabusGood, Quiet
  <2>5. SyllabusHolds'
    BY <1>1, <1>2, <2>3, <2>4, SyllabusRest DEF Quiet
  <2> QED
    BY <1>1, <1>2, <2>5 DEF SyllabusMoves
<1>3. PICK d, o : d = req[r].on /\ o = req[r].op
  OBVIOUS
<1>4. ASSUME o \in SyllabusOps
      PROVE  Active(r) /\ (d \in Syllabi \ again => SyllabusStands(o, syl[d]) /\ SyllabusGood(d))
  BY <1>1, <1>3, <1>4 DEF SyllabusGood, Active, SyllabusOps
<1>5. ASSUME Active(r), End(r), NEW c, SyllabusMoves(c),
             c \in Syllabi \ again => /\ syl[c].status # "AI_GENERATING"
                                      /\ syl'[c].status \in Immutable => syl'[c].full
      PROVE  SyllabusHolds'
  <2>1. Quiet(Syllabi) /\ \A s \in Reqs : ~Active(s)'
    BY <1>1, <1>5, EndOwned
  <2>2. c \in Syllabi \ again' => SyllabusGood(c)'
    BY <1>1, <1>5, <2>1 DEF SyllabusGood, Quiet
  <2> QED
    BY <1>1, <1>5, <2>1, <2>2, SyllabusRest DEF Quiet, SyllabusMoves
<1>6. CASE WriteSyllabus(r)
  <2>1. Active(r) /\ End(r)
    BY <1>3, <1>4, <1>6 DEF WriteSyllabus, SyllabusOps
  <2>2. CASE UNCHANGED syl
    <3>1. SyllabusMoves(None)
      BY <1>1, <2>2 DEF SyllabusMoves
    <3> QED
      BY <1>5, <2>1, <3>1
  <2>3. ASSUME NEW c \in FreshSyllabus, NEW v, NEW u, NEW f, NEW e,
               syl' = [syl EXCEPT ![c] = [status |-> "DRAFT", ver |-> v, from |-> u,
                                          full |-> f, edited |-> e]]
        PROVE  SyllabusHolds' /\ SyllabusMoves(c)
    <3>1. /\ c \in Syllabi /\ syl[c].status = "NONE" /\ syl'[c].status = "DRAFT"
          /\ \A b \in Syllabi \ {c} : syl'[b] = syl[b]
      BY <1>1, <2>3 DEF FreshSyllabus
    <3>2. SyllabusMoves(c)
      BY <1>1, <3>1 DEF SyllabusMoves
    <3> QED
      BY <1>5, <2>1, <3>1, <3>2 DEF Immutable
  <2> QED
    BY <1>6, <2>2, <2>3 DEF WriteSyllabus
<1>7. CASE WriteEdit(r)
  <2>1. Active(r) /\ End(r) /\ (d \in Syllabi \ again => syl[d].status = "DRAFT")
    BY <1>3, <1>4, <1>7 DEF WriteEdit, SyllabusOps, SyllabusStands
  <2>2. UNCHANGED syl \/ \E f \in BOOLEAN : syl' = [syl EXCEPT ![d].full = f, ![d].edited = TRUE]
    BY <1>3, <1>7 DEF WriteEdit
  <2>3. ASSUME NEW f \in BOOLEAN, d \in Syllabi,
               syl' = [syl EXCEPT ![d].full = f, ![d].edited = TRUE]
        PROVE  syl'[d].status = syl[d].status
    <3>1. /\ syl[d] \in SyllabusRow(V)
          /\ syl'[d] = [syl[d] EXCEPT !.full = f, !.edited = TRUE]
      BY <1>1, <2>3
    <3> QED
      BY <3>1 DEF SyllabusRow
  <2>4. /\ \A e \in Syllabi \ {d} : syl'[e] = syl[e]
        /\ d \in Syllabi => syl'[d].status = syl[d].status
    BY <1>1, <2>2, <2>3
  <2>5. SyllabusMoves(d)
    BY <1>1, <2>4 DEF SyllabusMoves
  <2> QED
    BY <1>1, <1>5, <2>1, <2>4, <2>5 DEF Immutable
<1>8. CASE WriteDelete(r)
  <2>1. Active(r) /\ End(r) /\ (d \in Syllabi \ again => syl[d].status = "DRAFT")
    BY <1>3, <1>4, <1>8 DEF WriteDelete, SyllabusOps, SyllabusStands
  <2>2. /\ \A e \in Syllabi \ {d} : syl'[e] = syl[e]
        /\ d \in Syllabi => syl'[d].status \in {syl[d].status, "GONE"}
    BY <1>1, <1>3, <1>8 DEF WriteDelete, SetStatus, SyllabusRow
  <2>3. SyllabusMoves(d)
    BY <1>1, <2>1, <2>2 DEF SyllabusMoves
  <2> QED
    BY <1>1, <1>5, <2>1, <2>2, <2>3 DEF Immutable
<1>9. CASE WriteStatus(r)
  <2>1. /\ Active(r) /\ End(r) /\ o \in {"submit", "approve", "lock", "unlock"}
        /\ d \in Syllabi \ again => SyllabusStands(o, syl[d]) /\ SyllabusGood(d)
    BY <1>3, <1>4, <1>9 DEF WriteStatus, Moved, SyllabusOps
  <2>2. d \in Syllabi \ again => syl[d].full /\ syl[d].status \in {"DRAFT"} \cup Immutable
    BY <2>1 DEF SyllabusStands, SyllabusGood, Immutable
  <2>3. UNCHANGED syl \/ \E s \in Immutable : SetStatus(d, s)
    BY <1>3, <1>9, <2>1 DEF WriteStatus, Moved, Immutable
  <2>4. /\ \A e \in Syllabi \ {d} : syl'[e] = syl[e]
        /\ d \in Syllabi => /\ syl'[d].full = syl[d].full
                            /\ syl'[d].status \in {syl[d].status} \cup Immutable
    BY <1>1, <2>3 DEF SetStatus, SyllabusRow
  <2>5. SyllabusMoves(d)
    BY <1>1, <2>2, <2>4 DEF SyllabusMoves
  <2> QED
    BY <1>5, <2>1, <2>2, <2>4, <2>5 DEF Immutable
<1>10. CASE WriteDispatch(r)
  <2>1. Active(r) /\ (d \in Syllabi \ again => syl[d].status = "DRAFT" /\ SyllabusGood(d))
    BY <1>3, <1>4, <1>10 DEF WriteDispatch, SyllabusOps, SyllabusStands
  <2>2. \/ UNCHANGED syl /\ ~Exists(d)
        \/ syl' = [syl EXCEPT ![d].status = "AI_GENERATING", ![d].edited = FALSE]
    BY <1>3, <1>10 DEF WriteDispatch
  <2>3. ASSUME d \in Syllabi, syl' = [syl EXCEPT ![d].status = "AI_GENERATING", ![d].edited = FALSE]
        PROVE  syl'[d].status = "AI_GENERATING"
    <3>1. /\ syl[d] \in SyllabusRow(V)
          /\ syl'[d] = [syl[d] EXCEPT !.status = "AI_GENERATING", !.edited = FALSE]
      BY <1>1, <2>3
    <3> QED
      BY <3>1 DEF SyllabusRow
  <2>4. /\ \A e \in Syllabi \ {d} : syl'[e] = syl[e]
        /\ d \in Syllabi => \/ syl'[d].status = "AI_GENERATING"
                            \/ UNCHANGED syl /\ ~Exists(d)
    BY <1>1, <2>2, <2>3
  <2>5. d \in Syllabi \ again => syl'[d].status = "AI_GENERATING" /\ ~Busy(d)
    BY <2>1, <2>4 DEF Exists, SyllabusStatus, SyllabusGood
  <2>6. EndPublishing(r, d, "generate_syllabus")
    BY <1>3, <1>10 DEF WriteDispatch
  <2>7. /\ Owned(Syllabi)' /\ \A s \in Reqs : ~Active(s)'
        /\ \A e \in Syllabi : Busy(e)' => Busy(e) \/ e = d
    BY <1>1, <2>1, <2>5, <2>6, PublishingOwned
  <2>8. d \in Syllabi \ again' => SyllabusGood(d)'
    BY <1>1, <2>5, <2>7 DEF SyllabusGood, Immutable
  <2>9. SyllabusHolds'
    BY <1>1, <2>4, <2>7, <2>8, SyllabusRest
  <2>10. SyllabusMoves(d)
    BY <1>1, <2>1, <2>4, <2>5 DEF SyllabusMoves
  <2> QED
    BY <2>9, <2>10
<1> QED
  BY <1>2, <1>6, <1>7, <1>8, <1>9, <1>10 DEF SyllabusRequest

\* A task that is not repeated gives back the draft its message came with.
LEMMA SyllabusTaskKeeps ==
    ASSUME NEW V, SyllabusShape(V), SyllabusHolds, ~raced', NEW w \in Workers, SyllabusTask(w),
           UNCHANGED <<req, raced>>
    PROVE  SyllabusHolds' /\ \E d : SyllabusMoves(d)
<1> USE SyllabiAssumption
<1>1. /\ syl \in [Syllabi -> SyllabusRow(V)] /\ BackendShape(V, Syllabi)
      /\ Owned(Syllabi) /\ \A d \in Syllabi \ again : SyllabusGood(d)
      /\ \A s \in Reqs : Active(s)' => Active(s) /\ UNCHANGED req[s]
  BY DEF SyllabusShape, SyllabusHolds, Active
<1>2. CASE (\E m \in Slots : StartGeneration(w, m)) \/ FailGeneration(w)
  <2>1. /\ UNCHANGED <<syl, again>>
        /\ \/ \E m \in Slots : \E t, p, x : Take(w, m, t, p, x)
           \/ (\E p, x : Goto(w, p, x)) /\ UNCHANGED msg
    BY <1>2 DEF StartGeneration, FailGeneration
  <2>2. Quiet(Syllabi)
    BY <1>1, <2>1, TaskOwned
  <2>3. SyllabusHolds'
    BY <1>1, <2>1, <2>2, SyllabusRest DEF Quiet
  <2> QED
    BY <2>1, <2>3 DEF SyllabusMoves
<1>3. CASE CommitGeneration(w) \/ ResetSyllabus(w) \/ ResetFails(w)
  <2>1. PICK d : d = exec[w].to
    OBVIOUS
  <2>2. /\ Finish(w) \/ Retry(w)
        /\ \E f \in BOOLEAN :
              \/ UNCHANGED syl
              \/ syl' = [syl EXCEPT ![d].status = "DRAFT"]
              \/ syl' = [syl EXCEPT ![d].status = "DRAFT", ![d].full = f, ![d].edited = FALSE]
    BY <1>3, <2>1 DEF CommitGeneration, ResetSyllabus, ResetFails, SetStatus
  <2>3. ASSUME d \in Syllabi
        PROVE  UNCHANGED syl \/ syl'[d].status = "DRAFT"
    <3>1. PICK f \in BOOLEAN :
              \/ UNCHANGED syl
              \/ syl'[d] = [syl[d] EXCEPT !.status = "DRAFT"]
              \/ syl'[d] = [syl[d] EXCEPT !.status = "DRAFT", !.full = f, !.edited = FALSE]
      BY <1>1, <2>2, <2>3
    <3>2. syl[d] \in SyllabusRow(V)
      BY <1>1, <2>3
    <3> QED
      BY <3>1, <3>2 DEF SyllabusRow
  <2>4. \A e \in Syllabi \ {d} : syl'[e] = syl[e]
    BY <1>1, <2>2
  <2>5. /\ Quiet(Syllabi)
        /\ again \subseteq again' /\ again' \subseteq again \cup {d}
        /\ d \in Syllabi \ again' => Busy(d) /\ ~Busy(d)'
    BY <1>1, <2>1, <2>2, TaskEndOwned
  <2>6. d \in Syllabi \ again' => SyllabusGood(d) /\ syl[d].status = "AI_GENERATING"
    BY <1>1, <2>5 DEF SyllabusGood
  <2>7. d \in Syllabi \ again' => SyllabusGood(d)'
    BY <1>1, <2>3, <2>5, <2>6 DEF SyllabusGood, SyllabusStands, Immutable
  <2>8. SyllabusHolds'
    BY <1>1, <2>4, <2>5, <2>7, SyllabusRest DEF Quiet
  <2>9. SyllabusMoves(d)
    BY <2>3, <2>4, <2>5, <2>6 DEF SyllabusMoves
  <2> QED
    BY <2>8, <2>9
<1> QED
  BY <1>2, <1>3 DEF SyllabusTask

\* Every step without overlap keeps what holds and moves one document.
LEMMA SyllabusStepKeeps ==
    ASSUME NEW V, SyllabusShape(V), SyllabusHolds, ~raced', SyllabusNext
    PROVE  SyllabusHolds' /\ \E d : SyllabusMoves(d)
<1>1. ASSUME Environment, UNCHANGED syl
      PROVE  SyllabusHolds' /\ \E d : SyllabusMoves(d)
  <2>1. PICK d : /\ Quiet(Syllabi)
                 /\ again \subseteq again' /\ again' \subseteq again \cup {d}
                 /\ \A s \in Reqs : Active(s)' => Active(s) /\ UNCHANGED req[s]
    BY <1>1, SyllabiAssumption, EnvironmentOwned DEF SyllabusShape, SyllabusHolds
  <2>2. SyllabusMoves(d)
    BY <1>1, <2>1 DEF SyllabusMoves
  <2>3. ASSUME d \in Syllabi \ again' PROVE SyllabusGood(d)'
    BY <1>1, <2>1, <2>3 DEF SyllabusGood, SyllabusHolds, Quiet
  <2> QED
    BY <1>1, <2>1, <2>2, <2>3, SyllabusRest DEF Quiet
<1> QED
  BY <1>1, SyllabusRequestKeeps, SyllabusTaskKeeps DEF SyllabusNext

\* An overlap is remembered.
LEMMA SyllabusRacedStays ==
    ASSUME SyllabusNext, raced, raced \in BOOLEAN
    PROVE  raced'
<1>1. ASSUME NEW r \in Reqs, SyllabusRequest(r) PROVE raced'
  <2>1. ASSUME NEW o, NEW d, NEW x, Begin(r, o, d, x) PROVE raced'
    BY <2>1 DEF Begin
  <2>2. ASSUME NEW d, End(r) \/ EndPublishing(r, d, "generate_syllabus") PROVE raced'
    BY <2>2 DEF End, EndPublishing
  <2> QED
    BY <1>1, <2>1, <2>2
    DEF SyllabusRequest, FacultyRequest, DeanRequest, CreateSyllabus, EditSyllabus, DeleteSyllabus,
        ForkSyllabus, DispatchGeneration, SubmitForReview, ApproveSyllabus, RejectSyllabus,
        LockSyllabus, UnlockSyllabus, WriteSyllabus, WriteEdit, WriteDelete, WriteStatus, WriteDispatch
<1>2. ASSUME Environment PROVE raced'
  BY <1>2 DEF Environment, Publish, End, Abandon, WorkerCrash, ProcessLost, Redeliver
<1> QED
  BY <1>1, <1>2 DEF SyllabusNext

\* Nothing is asked for or under way at first.
LEMMA SyllabusInitHolds ==
    ASSUME SyllabusInit
    PROVE  SyllabusInv
<1>1. PICK V : V = {None, 0, "none", "idle"}
  OBVIOUS
<1>2. SyllabusShape(V)
  BY <1>1
  DEF SyllabusInit, BackendInit, Unused, NoReq, NoMsg, Idle, SyllabusShape, SyllabusRow, BackendShape
<1>3. /\ \A r \in Reqs : ~Active(r) /\ \A d \in Syllabi : ~Asking(r, d)
      /\ \A m \in Slots, d \in Syllabi : ~Queued(m, d)
      /\ \A w \in Workers : exec[w].to \notin Syllabi
      /\ \A d \in Syllabi : syl[d].status = "NONE"
  BY SyllabiAssumption
  DEF SyllabusInit, BackendInit, Unused, NoReq, NoMsg, Idle, Active, Asking, Queued
<1>4. SyllabusHolds
  BY <1>3 DEF SyllabusHolds, Owned, Solo, Single, Held, SyllabusGood, Busy, Immutable
<1> QED
  BY <1>2, <1>4 DEF SyllabusInv

\* The invariant is inductive: with an overlap only the shape is left of it.
LEMMA SyllabusNextHolds ==
    ASSUME SyllabusInv, [SyllabusNext]_sylVars
    PROVE  SyllabusInv'
<1>1. PICK V : SyllabusShape(V)
  BY DEF SyllabusInv
<1>2. CASE UNCHANGED sylVars
  <2>1. UNCHANGED <<syl, req, msg, exec, again, raced>>
    BY <1>2 DEF sylVars, backend, queue
  <2>2. SyllabusShape(V)'
    BY <1>1, <2>1 DEF SyllabusShape, BackendShape
  <2>3. SyllabusHolds => SyllabusHolds'
    BY <2>1 DEF SyllabusHolds, SyllabusGood, Owned, Solo, Single, Held, Busy, Active, Asking, Queued
  <2> QED
    BY <2>1, <2>2, <2>3 DEF SyllabusInv
<1>3. CASE SyllabusNext
  <2>1. PICK W : W = V \cup SyllabusWords
    OBVIOUS
  <2>2. SyllabusShape(W)'
    BY <1>1, <1>3, <2>1, SyllabusShapeStep
  <2>3. raced' \/ SyllabusHolds'
    BY <1>1, <1>3, SyllabusStepKeeps, SyllabusRacedStays DEF SyllabusInv, SyllabusShape, BackendShape
  <2> QED
    BY <2>2, <2>3 DEF SyllabusInv
<1> QED
  BY <1>2, <1>3

\* A version in review, approved or locked is one that passed its compliance
\* check: approvals and locks look at no outcomes and the generation at no status,
\* and it holds without an overlap or a repeated generation all the same.
THEOREM ReviewedCompliant == SyllabusSpec => []ReviewedIsCompliant
<1>1. SyllabusInv => ReviewedIsCompliant
  BY DEF SyllabusInv, SyllabusHolds, SyllabusGood, ReviewedIsCompliant
<1> QED
  BY <1>1, SyllabusInitHolds, SyllabusNextHolds, PTL DEF SyllabusSpec

\* Every step moves at most one document as DocumentContract allows, or voids.
LEMMA SyllabusStepImplements ==
    ASSUME SyllabusInv, SyllabusNext
    PROVE  SyllabusContract!ContractNext \/ UNCHANGED [d \in Syllabi |-> SyllabusStage(d)]
<1> DEFINE S == [d \in Syllabi |-> SyllabusStage(d)]
<1>1. PICK V : SyllabusShape(V)
  BY DEF SyllabusInv
<1>2. CASE raced'
  <2>1. \A d \in Syllabi : SyllabusStage(d)' = "open"
    BY <1>2 DEF SyllabusStage
  <2>2. S' = [d \in Syllabi |-> IF d \in Syllabi THEN "open" ELSE S[d]]
    BY <2>1
  <2>3. \E D \in SUBSET Syllabi : S' = [d \in Syllabi |-> IF d \in D THEN "open" ELSE S[d]]
    BY <2>2
  <2> QED
    BY <2>3 DEF SyllabusContract!ContractNext, SyllabusContract!Void
<1>3. CASE ~raced'
  <2>1. ~raced /\ SyllabusHolds
    BY <1>1, <1>3, SyllabusRacedStays DEF SyllabusInv, SyllabusShape, BackendShape
  <2>2. PICK d : SyllabusMoves(d)
    BY <1>1, <1>3, <2>1, SyllabusStepKeeps
  <2>3. \A e \in Syllabi \ {d} : SyllabusStage(e)' = SyllabusStage(e)
    BY <1>3, <2>1, <2>2 DEF SyllabusMoves, SyllabusStage, Exists
  <2>4. CASE d \in Syllabi
    <3> DEFINE old == SyllabusStage(d)
               new == SyllabusStage(d)'
    <3>1. \/ new \in {old, "open"}
          \/ <<old, new>> \in SyllabusContract!Allowed
      <4>1. CASE d \in again'
        BY <1>3, <4>1 DEF SyllabusStage
      <4>2. CASE d \notin again'
        <5>1. /\ d \notin again
              /\ \/ syl'[d].status = syl[d].status
                 \/ syl[d].status = "NONE" /\ syl'[d].status = "DRAFT"
                 \/ syl[d].status = "DRAFT" /\ syl'[d].status \in {"GONE", "AI_GENERATING"} \cup Immutable
                 \/ syl[d].status = "AI_GENERATING" /\ syl'[d].status = "DRAFT"
                 \/ syl[d].status \in Immutable /\ syl'[d].status \in Immutable
          BY <2>2, <2>4, <4>2 DEF SyllabusMoves
        <5>2. /\ old = IF ~Exists(d) THEN "absent"
                       ELSE IF syl[d].status = "DRAFT" THEN "draft"
                       ELSE IF syl[d].status = "AI_GENERATING" THEN "generating" ELSE "released"
              /\ new = IF syl'[d].status \notin SyllabusStatus THEN "absent"
                       ELSE IF syl'[d].status = "DRAFT" THEN "draft"
                       ELSE IF syl'[d].status = "AI_GENERATING" THEN "generating" ELSE "released"
          BY <1>3, <2>1, <4>2, <5>1 DEF SyllabusStage, Exists, SyllabusStatus
        <5> HIDE DEF old, new
        <5>3. \/ old = new
              \/ old = "absent" /\ new = "draft"
              \/ old = "draft" /\ new = "absent"
              \/ old = "draft" /\ new = "generating"
              \/ old = "generating" /\ new = "draft"
              \/ old = "draft" /\ new = "released"
          BY <5>1, <5>2 DEF Exists, SyllabusStatus, Immutable
        <5> QED
          BY <5>3 DEF SyllabusContract!Allowed
      <4> QED
        BY <4>1, <4>2
    <3>2. S' = [S EXCEPT ![d] = new]
      BY <2>3, <2>4
    <3>3. S[d] = old
      BY <2>4
    <3> HIDE DEF old, new, S
    <3>4. CASE new = old
      <4>1. \A e \in Syllabi : S[e] = S'[e]
        BY <3>2, <3>3, <3>4 DEF S
      <4> QED
        BY <4>1 DEF S
    <3>5. CASE new = "open" \/ <<S[d], new>> \in SyllabusContract!Allowed
      <4>1. new \in SyllabusContract!Stages
        BY <3>5 DEF SyllabusContract!Allowed, SyllabusContract!Stages
      <4>2. \E s \in SyllabusContract!Stages : /\ s = "open" \/ <<S[d], s>> \in SyllabusContract!Allowed
                                               /\ S' = [S EXCEPT ![d] = s]
        BY <3>2, <3>5, <4>1
      <4>3. SyllabusContract!Move(d)
        BY <4>2 DEF SyllabusContract!Move, S
      <4> QED
        BY <2>4, <4>3 DEF SyllabusContract!ContractNext
    <3> QED
      BY <3>1, <3>3, <3>4, <3>5
  <2>5. CASE d \notin Syllabi
    BY <2>3, <2>5
  <2> QED
    BY <2>4, <2>5
<1> QED
  BY <1>2, <1>3

\* The syllabi implement DocumentContract: without an overlap a generation starts
\* on a draft and gives one back, and what is in review stays released.
THEOREM SyllabusImplements == SyllabusSpec => SyllabusKeepsContract
<1>1. SyllabusInit => SyllabusContract!ContractInit
  BY DEF SyllabusInit, BackendInit, Unused, SyllabusStage, Exists, SyllabusStatus,
      SyllabusContract!ContractInit
<1>2. SyllabusInv /\ [SyllabusNext]_sylVars
          => [SyllabusContract!ContractNext]_([d \in Syllabi |-> SyllabusStage(d)])
  BY SyllabusStepImplements DEF sylVars, backend, queue, SyllabusStage, Exists
<1> QED
  BY <1>1, <1>2, SyllabusInitHolds, SyllabusNextHolds, PTL
  DEF SyllabusSpec, SyllabusKeepsContract, SyllabusContract!ContractSpec

----------------------------------------------------------------------------
(* Versions and edits of syllabi.                                          *)

\* What a step makes of a row: a new one, with the version that was read, or the
\* same with another status, other outcomes or other marks of an edit.
LEMMA SyllabusColumns ==
    ASSUME NEW V, SyllabusShape(V), SyllabusNext, NEW d \in Syllabi
    PROVE  \/ syl'[d] = syl[d]
           \/ \E r \in Reqs :
                 /\ WriteSyllabus(r) /\ UNCHANGED queue
                 /\ syl[d].status = "NONE" /\ syl'[d].status = "DRAFT"
                 /\ syl'[d].ver = req[r].mem
                 /\ syl'[d].from = IF req[r].on = None THEN 0 ELSE req[r].on
                 /\ \A e \in Syllabi \ {d} : syl'[e] = syl[e]
           \/ /\ Exists(d) /\ syl'[d].status # "NONE"
              /\ syl'[d].ver = syl[d].ver /\ syl'[d].from = syl[d].from
              /\ \/ /\ syl'[d].edited /\ syl'[d].status = syl[d].status
                    /\ \E r \in Reqs : WriteEdit(r) /\ UNCHANGED queue /\ req[r].on = d
                 \/ ~syl'[d].edited /\ syl'[d].status = "AI_GENERATING"
                 \/ syl'[d].edited = syl[d].edited /\ syl'[d].status \notin {"NONE", "AI_GENERATING"}
                 \/ \E w \in Workers : CommitGeneration(w) /\ exec[w].to = d
<1>1. syl \in [Syllabi -> SyllabusRow(V)] /\ syl[d] \in SyllabusRow(V)
  BY DEF SyllabusShape
\* A write of some columns leaves the others alone.
<1>2. ASSUME NEW c, NEW s, syl' = [syl EXCEPT ![c].status = s], syl'[d] # syl[d]
      PROVE  /\ c = d /\ syl'[d].status = s /\ syl'[d].edited = syl[d].edited
             /\ syl'[d].ver = syl[d].ver /\ syl'[d].from = syl[d].from
  <2>1. c = d
    BY <1>1, <1>2
  <2>2. syl'[d] = [syl[d] EXCEPT !.status = s]
    BY <1>1, <1>2, <2>1
  <2> QED
    BY <1>1, <2>1, <2>2 DEF SyllabusRow
<1>3. ASSUME NEW c, NEW f, syl' = [syl EXCEPT ![c].full = f, ![c].edited = TRUE], syl'[d] # syl[d]
      PROVE  /\ c = d /\ syl'[d].status = syl[d].status /\ syl'[d].edited
             /\ syl'[d].ver = syl[d].ver /\ syl'[d].from = syl[d].from
  <2>1. c = d
    BY <1>1, <1>3
  <2>2. syl'[d] = [syl[d] EXCEPT !.full = f, !.edited = TRUE]
    BY <1>1, <1>3, <2>1
  <2> QED
    BY <1>1, <2>1, <2>2 DEF SyllabusRow
<1>4. ASSUME NEW c, syl' = [syl EXCEPT ![c].status = "AI_GENERATING", ![c].edited = FALSE], syl'[d] # syl[d]
      PROVE  /\ c = d /\ syl'[d].status = "AI_GENERATING" /\ ~syl'[d].edited
             /\ syl'[d].ver = syl[d].ver /\ syl'[d].from = syl[d].from
  <2>1. c = d
    BY <1>1, <1>4
  <2>2. syl'[d] = [syl[d] EXCEPT !.status = "AI_GENERATING", !.edited = FALSE]
    BY <1>1, <1>4, <2>1
  <2> QED
    BY <1>1, <2>1, <2>2 DEF SyllabusRow
<1>5. ASSUME NEW c, NEW f, syl' = [syl EXCEPT ![c].status = "DRAFT", ![c].full = f, ![c].edited = FALSE],
             syl'[d] # syl[d]
      PROVE  /\ c = d /\ syl'[d].status = "DRAFT"
             /\ syl'[d].ver = syl[d].ver /\ syl'[d].from = syl[d].from
  <2>1. c = d
    BY <1>1, <1>5
  <2>2. syl'[d] = [syl[d] EXCEPT !.status = "DRAFT", !.full = f, !.edited = FALSE]
    BY <1>1, <1>5, <2>1
  <2> QED
    BY <1>1, <2>1, <2>2 DEF SyllabusRow
<1>6. CASE syl'[d] # syl[d] /\ \E r \in Reqs : SyllabusRequest(r) /\ UNCHANGED queue
  <2>1. PICK r \in Reqs : SyllabusRequest(r) /\ UNCHANGED queue
    BY <1>6
  <2>2. PICK c : c = req[r].on
    OBVIOUS
  <2>3. CASE WriteSyllabus(r)
    <3>1. PICK b \in FreshSyllabus : \E f, e :
              syl' = [syl EXCEPT ![b] = [status |-> "DRAFT", ver |-> req[r].mem,
                                         from |-> IF req[r].on = None THEN 0 ELSE req[r].on,
                                         full |-> f, edited |-> e]]
      BY <1>6, <2>3 DEF WriteSyllabus
    <3>2. b = d /\ syl[d].status = "NONE"
      BY <1>1, <1>6, <3>1 DEF FreshSyllabus
    <3> QED
      BY <1>1, <2>1, <2>3, <3>1, <3>2
  <2>4. CASE WriteEdit(r)
    <3>1. Exists(c) /\ \E f \in BOOLEAN : syl' = [syl EXCEPT ![c].full = f, ![c].edited = TRUE]
      BY <1>6, <2>2, <2>4 DEF WriteEdit
    <3> QED
      <4>1. PICK f : syl' = [syl EXCEPT ![c].full = f, ![c].edited = TRUE]
        BY <3>1
      <4>2. c = d /\ syl'[d].status = syl[d].status /\ syl'[d].edited
            /\ syl'[d].ver = syl[d].ver /\ syl'[d].from = syl[d].from
        BY <1>3, <1>6, <4>1
      <4>3. Exists(d) /\ syl'[d].status # "NONE" /\ req[r].on = d
        BY <2>2, <3>1, <4>2 DEF Exists, SyllabusStatus
      <4> QED
        BY <2>1, <2>4, <4>2, <4>3
  <2>5. CASE WriteDelete(r) \/ WriteStatus(r)
    <3>1. Exists(c) /\ \E s \in {"GONE"} \cup Immutable : SetStatus(c, s)
      BY <1>6, <2>2, <2>5 DEF WriteDelete, WriteStatus, Moved, Immutable
    <3> QED
      BY <1>2, <1>6, <3>1 DEF SetStatus, Immutable
  <2>6. CASE WriteDispatch(r)
    <3>1. Exists(c) /\ syl' = [syl EXCEPT ![c].status = "AI_GENERATING", ![c].edited = FALSE]
      BY <1>6, <2>2, <2>6 DEF WriteDispatch
    <3> QED
      BY <1>4, <1>6, <3>1
  <2> QED
    BY <1>6, <2>1, <2>3, <2>4, <2>5, <2>6 DEF SyllabusRequest
<1>7. CASE syl'[d] # syl[d] /\ \E w \in Workers : SyllabusTask(w)
  <2>1. PICK w \in Workers : SyllabusTask(w)
    BY <1>7
  <2>2. PICK c : c = exec[w].to
    OBVIOUS
  <2>3. CASE CommitGeneration(w)
    <3>1. Exists(c) /\ \E f \in BOOLEAN :
              syl' = [syl EXCEPT ![c].status = "DRAFT", ![c].full = f, ![c].edited = FALSE]
      BY <2>2, <2>3 DEF CommitGeneration
    <3> QED
      BY <1>5, <1>7, <2>2, <2>3, <3>1
  <2>4. CASE ResetSyllabus(w)
    <3>1. Exists(c) /\ SetStatus(c, "DRAFT")
      BY <1>7, <2>2, <2>4 DEF ResetSyllabus
    <3> QED
      BY <1>2, <1>7, <3>1 DEF SetStatus
  <2> QED
    BY <1>7, <2>1, <2>3, <2>4 DEF SyllabusTask, StartGeneration, FailGeneration, ResetFails
<1> QED
  BY <1>6, <1>7 DEF SyllabusNext

\* A set of naturals below a bound has its maximum.
LEMMA MaxOfBounded ==
    ASSUME NEW n \in Nat, NEW S, S \subseteq 0..n, S # {}
    PROVE  Max(S) \in S /\ \A x \in S : Max(S) >= x
<1> DEFINE T == {n - x : x \in S}
<1>0. S \subseteq Int /\ \A x \in S : 0 <= x /\ x <= n
  OBVIOUS
<1>1. T \subseteq Nat /\ T # {}
  <2>1. \A x \in S : n - x \in Nat
    BY <1>0
  <2> QED
    BY <2>1
<1>2. PICK y \in T : \A z \in T : ~(<<z, y>> \in OpToRel(<, Nat))
  BY <1>1, NatLessThanWellFounded, WFMin
<1>3. \A z \in T : ~(z < y)
  BY <1>1, <1>2 DEF OpToRel
<1>4. PICK m \in S : y = n - m
  OBVIOUS
<1>5. \A x \in S : m >= x
  <2>1. \A x \in S : n - x \in T
    OBVIOUS
  <2> HIDE DEF T
  <2>2. \A x \in S : x \in Int /\ m \in Int /\ ~(n - x < n - m)
    BY <1>0, <1>3, <1>4, <2>1
  <2> QED
    BY <2>2
<1> QED
  BY <1>5 DEF Max

\* Whatever overlaps, a new version is above the one it was made of.
CopiesLater ==
    /\ \E n \in Nat : \A d \in Syllabi : syl[d].ver \in 0..n
    /\ \A r \in Reqs : req[r].op \in {"create", "reject", "fork"} =>
          /\ req[r].mem \in Nat
          /\ req[r].on \in Syllabi => syl[req[r].on].status # "NONE" /\ syl[req[r].on].ver < req[r].mem
    /\ \A d, e \in Syllabi : Exists(e) /\ syl[e].from = d =>
          syl[d].status # "NONE" /\ syl[d].ver < syl[e].ver

\* Without overlap it is above all of them.
VersionsApart ==
    /\ \A d, e \in Syllabi : Exists(d) /\ Exists(e) /\ d # e => syl[d].ver # syl[e].ver
    /\ \A r \in Reqs : req[r].op \in {"create", "reject", "fork"} =>
          \A d \in Syllabi : Exists(d) => syl[d].ver < req[r].mem

\* A row that is being generated, or is not there, has no edits to lose.
EditsLast == \A d \in Syllabi \ again : syl[d].status \in {"NONE", "AI_GENERATING"} => ~syl[d].edited

\* With the invariant of the documents.
VersionsInv == SyllabusInv /\ CopiesLater /\ (raced \/ (VersionsApart /\ EditsLast))

\* The next version is above all that are there.
LEMMA NextVersionLast ==
    ASSUME CopiesLater
    PROVE  NextVersion \in Nat /\ \A d \in Syllabi : Exists(d) => syl[d].ver < NextVersion
<1> DEFINE S == {0} \cup {syl[d].ver : d \in {e \in Syllabi : Exists(e)}}
<1>1. PICK n \in Nat : \A d \in Syllabi : syl[d].ver \in 0..n
  BY DEF CopiesLater
<1>2. S \subseteq 0..n /\ S # {}
  BY <1>1
<1>3. Max(S) \in S /\ \A x \in S : Max(S) >= x
  BY <1>2, MaxOfBounded
<1>4. Max(S) \in Nat
  BY <1>2, <1>3
<1>5. NextVersion = 1 + Max(S)
  BY DEF NextVersion
<1> HIDE DEF S
<1>6. \A d \in Syllabi : Exists(d) => syl[d].ver \in S
  BY DEF S
<1> QED
  BY <1>1, <1>3, <1>4, <1>5, <1>6

\* The requests of a step: one begins, with the next version if it makes one, or some
\* are gone.
LEMMA SyllabusRequests ==
    ASSUME NEW V, SyllabusShape(V), SyllabusNext
    PROVE  \/ /\ UNCHANGED syl
              /\ \E r \in Reqs :
                    /\ \A s \in Reqs \ {r} : req'[s] = req[s]
                    /\ req'[r].op \in {"create", "reject", "fork"} =>
                          req'[r].mem = NextVersion /\ (req'[r].on \in Syllabi => Exists(req'[r].on))
           \/ \A s \in Reqs : req'[s].op \in {"create", "reject", "fork"} => req'[s] = req[s]
<1>1. BackendShape(V, Syllabi)
  BY DEF SyllabusShape
<1>2. ASSUME NEW r \in Reqs, SyllabusRequest(r), (FacultyRequest(r) \/ DeanRequest(r)) /\ UNCHANGED syl
      PROVE  /\ \A s \in Reqs \ {r} : req'[s] = req[s]
             /\ req'[r].op \in {"create", "reject", "fork"} =>
                   req'[r].mem = NextVersion /\ (req'[r].on \in Syllabi => Exists(req'[r].on))
  <2>1. PICK o, d, x :
            /\ Begin(r, o, d, x)
            /\ o \in {"create", "reject", "fork"} => x = NextVersion /\ (d \in Syllabi => Exists(d))
    <3>1. CASE FacultyRequest(r)
      BY <3>1, SyllabiAssumption
      DEF FacultyRequest, CreateSyllabus, EditSyllabus, DeleteSyllabus, ForkSyllabus,
          DispatchGeneration, SubmitForReview
    <3>2. CASE DeanRequest(r)
      BY <3>2
      DEF DeanRequest, ApproveSyllabus, RejectSyllabus, LockSyllabus, UnlockSyllabus, Exists, SyllabusStatus
    <3> QED
      BY <1>2, <3>1, <3>2
  <2>2. /\ req'[r].op = o /\ req'[r].on = d /\ req'[r].mem = x
        /\ \A s \in Reqs \ {r} : req'[s] = req[s]
    BY <1>1, <2>1 DEF Begin, BackendShape, NoReq
  <2> QED
    BY <2>1, <2>2 DEF Exists
<1>3. ASSUME NEW r \in Reqs, NEW d, End(r) \/ EndPublishing(r, d, "generate_syllabus")
      PROVE  \A s \in Reqs : req'[s].op \in {"create", "reject", "fork"} => req'[s] = req[s]
  <2>1. CASE End(r)
    BY <1>1, <2>1, SyllabiAssumption DEF End, BackendShape, NoReq, SyllabusOps
  <2>2. CASE EndPublishing(r, d, "generate_syllabus")
    <3>1. PICK n : n = [NoReq EXCEPT !.op = "publish", !.on = d, !.task = "generate_syllabus"]
      OBVIOUS
    <3>2. n.op = "publish"
      BY <3>1 DEF NoReq
    <3>3. req' = [req EXCEPT ![r] = n]
      BY <2>2, <3>1 DEF EndPublishing
    <3> QED
      BY <1>1, <3>2, <3>3 DEF BackendShape
  <2> QED
    BY <1>3, <2>1, <2>2
<1>4. ASSUME NEW r \in Reqs, SyllabusRequest(r), ~((FacultyRequest(r) \/ DeanRequest(r)) /\ UNCHANGED syl)
      PROVE  \A s \in Reqs : req'[s].op \in {"create", "reject", "fork"} => req'[s] = req[s]
  <2>1. \E d : End(r) \/ EndPublishing(r, d, "generate_syllabus")
    BY <1>4 DEF SyllabusRequest, WriteSyllabus, WriteEdit, WriteDelete, WriteStatus, WriteDispatch
  <2> QED
    BY <1>3, <2>1
<1>5. ASSUME Environment
      PROVE  \A s \in Reqs : req'[s].op \in {"create", "reject", "fork"} => req'[s] = req[s]
  <2>1. \A s \in Reqs : req'[s] = req[s] \/ req'[s] = NoReq
    BY <1>1, <1>5 DEF Environment, Publish, End, Abandon, WorkerCrash, ProcessLost, Redeliver, BackendShape
  <2> QED
    BY <2>1, SyllabiAssumption DEF NoReq, SyllabusOps
<1> QED
  BY <1>2, <1>4, <1>5 DEF SyllabusNext

\* Copies stay later than their sources,
LEMMA CopiesKeep ==
    ASSUME NEW V, SyllabusShape(V), CopiesLater, SyllabusNext
    PROVE  CopiesLater'
<1> USE SyllabiAssumption
<1>1. \A r \in Reqs : req[r].on \in Syllabi \cup {None}
  BY DEF SyllabusShape, BackendShape
\* A row that is there stays, with its version and its source.
<1>2. \A d \in Syllabi : syl[d].status # "NONE" =>
          /\ syl'[d].status # "NONE" /\ syl'[d].ver = syl[d].ver /\ syl'[d].from = syl[d].from
          /\ Exists(d)' => Exists(d)
  <2>1. ASSUME NEW d \in Syllabi, syl[d].status # "NONE"
        PROVE  /\ syl'[d].status # "NONE" /\ syl'[d].ver = syl[d].ver /\ syl'[d].from = syl[d].from
               /\ Exists(d)' => Exists(d)
    BY <2>1, SyllabusColumns DEF Exists
  <2> QED
    BY <2>1
<1>3. \A d \in Syllabi : syl[d].status = "NONE" =>
          \/ syl'[d] = syl[d]
          \/ \E r \in Reqs :
                /\ req[r].op \in {"create", "reject", "fork"}
                /\ syl'[d].ver = req[r].mem
                /\ syl'[d].from = IF req[r].on = None THEN 0 ELSE req[r].on
                /\ \A e \in Syllabi \ {d} : syl'[e] = syl[e]
  <2>1. ASSUME NEW d \in Syllabi, syl[d].status = "NONE", syl'[d] # syl[d]
        PROVE  \E r \in Reqs :
                /\ req[r].op \in {"create", "reject", "fork"}
                /\ syl'[d].ver = req[r].mem
                /\ syl'[d].from = IF req[r].on = None THEN 0 ELSE req[r].on
                /\ \A e \in Syllabi \ {d} : syl'[e] = syl[e]
    BY <2>1, SyllabusColumns DEF Exists, SyllabusStatus, WriteSyllabus
  <2> QED
    BY <2>1
<1>4. \E n \in Nat : \A d \in Syllabi : syl'[d].ver \in 0..n
  <2>1. PICK n \in Nat : \A d \in Syllabi : syl[d].ver \in 0..n
    BY DEF CopiesLater
  <2>2. CASE \E d \in Syllabi : syl[d].status = "NONE" /\ syl'[d] # syl[d]
    <3>1. PICK d \in Syllabi, r \in Reqs :
              /\ req[r].op \in {"create", "reject", "fork"}
              /\ syl'[d].ver = req[r].mem
              /\ \A e \in Syllabi \ {d} : syl'[e] = syl[e]
      BY <1>3, <2>2
    <3>2. PICK m \in Nat : m = req[r].mem
      BY <3>1 DEF CopiesLater
    <3>3. \A e \in Syllabi : syl'[e].ver \in 0..(n + m)
      BY <2>1, <3>1, <3>2
    <3>4. n + m \in Nat
      BY <2>1, <3>2
    <3> QED
      BY <3>3, <3>4
  <2>3. CASE \A d \in Syllabi : syl[d].status = "NONE" => syl'[d] = syl[d]
    BY <1>2, <2>1, <2>3
  <2> QED
    BY <2>2, <2>3
<1>5. \A d, e \in Syllabi : Exists(e)' /\ syl'[e].from = d =>
          syl'[d].status # "NONE" /\ syl'[d].ver < syl'[e].ver
  <2>1. ASSUME NEW d \in Syllabi, NEW e \in Syllabi, Exists(e)', syl'[e].from = d
        PROVE  syl'[d].status # "NONE" /\ syl'[d].ver < syl'[e].ver
    <3>1. CASE syl'[e] = syl[e] \/ syl[e].status # "NONE"
      <4>1. Exists(e) /\ syl[e].from = d /\ syl'[e].ver = syl[e].ver
        BY <1>2, <2>1, <3>1 DEF Exists
      <4> QED
        BY <1>2, <4>1 DEF CopiesLater
    <3>2. CASE syl[e].status = "NONE" /\ syl'[e] # syl[e]
      <4>1. PICK r \in Reqs :
                /\ req[r].op \in {"create", "reject", "fork"}
                /\ syl'[e].ver = req[r].mem
                /\ syl'[e].from = IF req[r].on = None THEN 0 ELSE req[r].on
        BY <1>3, <3>2
      <4>2. req[r].on = d
        BY <1>1, <2>1, <4>1
      <4> QED
        BY <1>2, <4>1, <4>2 DEF CopiesLater
    <3> QED
      BY <3>1, <3>2
  <2> QED
    BY <2>1
<1>6. \A r \in Reqs : req'[r].op \in {"create", "reject", "fork"} =>
          /\ req'[r].mem \in Nat
          /\ req'[r].on \in Syllabi => syl'[req'[r].on].status # "NONE" /\ syl'[req'[r].on].ver < req'[r].mem
  <2>1. ASSUME NEW r \in Reqs, req'[r] = req[r], req'[r].op \in {"create", "reject", "fork"}
        PROVE  /\ req'[r].mem \in Nat
               /\ req'[r].on \in Syllabi => syl'[req'[r].on].status # "NONE" /\ syl'[req'[r].on].ver < req'[r].mem
    BY <1>2, <2>1 DEF CopiesLater
  <2>2. ASSUME NEW r \in Reqs, UNCHANGED syl, req'[r].mem = NextVersion,
               req'[r].on \in Syllabi => Exists(req'[r].on)
        PROVE  /\ req'[r].mem \in Nat
               /\ req'[r].on \in Syllabi => syl'[req'[r].on].status # "NONE" /\ syl'[req'[r].on].ver < req'[r].mem
    BY <2>2, NextVersionLast DEF Exists, SyllabusStatus
  <2> QED
    BY <2>1, <2>2, SyllabusRequests
<1> QED
  BY <1>4, <1>5, <1>6 DEF CopiesLater

\* and without overlap the versions stay different,
LEMMA ApartKeeps ==
    ASSUME NEW V, SyllabusShape(V), CopiesLater, VersionsApart, Owned(Syllabi), SyllabusNext
    PROVE  VersionsApart'
<1> USE SyllabiAssumption
<1>1. \A d \in Syllabi :
          \/ Exists(d)' => Exists(d) /\ syl'[d].ver = syl[d].ver
          \/ \E r \in Reqs :
                /\ WriteSyllabus(r) /\ req[r].op \in {"create", "reject", "fork"}
                /\ syl'[d].ver = req[r].mem
                /\ \A e \in Syllabi \ {d} : syl'[e] = syl[e]
  <2>1. ASSUME NEW d \in Syllabi
        PROVE  \/ Exists(d)' => Exists(d) /\ syl'[d].ver = syl[d].ver
               \/ \E r \in Reqs :
                     /\ WriteSyllabus(r) /\ req[r].op \in {"create", "reject", "fork"}
                     /\ syl'[d].ver = req[r].mem
                     /\ \A e \in Syllabi \ {d} : syl'[e] = syl[e]
    BY <2>1, SyllabusColumns DEF Exists, WriteSyllabus
  <2> QED
    BY <2>1
<1>2. CASE \A d \in Syllabi : Exists(d)' => Exists(d) /\ syl'[d].ver = syl[d].ver
  <2>1. \A d, e \in Syllabi : Exists(d)' /\ Exists(e)' /\ d # e => syl'[d].ver # syl'[e].ver
    BY <1>2 DEF VersionsApart
  <2>2. ASSUME NEW r \in Reqs, req'[r].op \in {"create", "reject", "fork"}
        PROVE  \A d \in Syllabi : Exists(d)' => syl'[d].ver < req'[r].mem
    <3>1. CASE req'[r] = req[r]
      BY <1>2, <2>2, <3>1 DEF VersionsApart
    <3>2. CASE req'[r].mem = NextVersion
      BY <1>2, <3>2, NextVersionLast
    <3> QED
      BY <2>2, <3>1, <3>2, SyllabusRequests
  <2> QED
    BY <2>1, <2>2 DEF VersionsApart
<1>3. ASSUME NEW d \in Syllabi, NEW r \in Reqs, WriteSyllabus(r), req[r].op \in {"create", "reject", "fork"},
             syl'[d].ver = req[r].mem, \A e \in Syllabi \ {d} : syl'[e] = syl[e]
      PROVE  VersionsApart'
  <2>1. \A e \in Syllabi : Exists(e) => syl[e].ver < req[r].mem /\ syl[e].ver \in Nat
    BY <1>3 DEF VersionsApart, CopiesLater
  <2>2. req[r].mem \in Nat
    BY <1>3 DEF CopiesLater
  <2>3. \A e \in Syllabi \ {d} : Exists(e)' => syl'[e].ver # syl'[d].ver
    BY <1>3, <2>1, <2>2 DEF Exists
  <2>4. \A c, e \in Syllabi \ {d} : Exists(c)' /\ Exists(e)' /\ c # e => syl'[c].ver # syl'[e].ver
    BY <1>3 DEF VersionsApart, Exists
  <2>5. \A s \in Reqs \ {r} : ~Active(s)
    BY <1>3 DEF Owned, Solo, Active, SyllabusOps
  <2>6. End(r)
    BY <1>3 DEF WriteSyllabus
  <2>7. \A s \in Reqs : req'[s].op \notin {"create", "reject", "fork"}
    BY <2>5, <2>6 DEF End, NoReq, Active, SyllabusShape, BackendShape, SyllabusOps
  <2> QED
    BY <2>3, <2>4, <2>7 DEF VersionsApart
<1> QED
  BY <1>1, <1>2, <1>3

\* the edits last until the next generation, and no step of it takes them back.
LEMMA EditsKeep ==
    ASSUME NEW V, SyllabusShape(V), SyllabusHolds, EditsLast, SyllabusNext
    PROVE  /\ ~raced' => EditsLast'
           /\ \A d \in Syllabi \ again :
                 syl[d].edited /\ syl'[d].status \in Immutable \cup {"DRAFT"} => syl'[d].edited
<1> USE SyllabiAssumption
<1>1. ASSUME NEW w \in Workers, CommitGeneration(w), NEW d \in Syllabi \ again, exec[w].to = d
      PROVE  syl[d].status = "AI_GENERATING"
  <2>1. Busy(d)
    BY <1>1 DEF SyllabusHolds, Owned, Held, Busy, Queued
  <2> QED
    BY <1>1, <2>1 DEF SyllabusHolds, SyllabusGood
<1>2. ASSUME NEW d \in Syllabi \ again, syl[d].edited, syl'[d].status \in Immutable \cup {"DRAFT"}
      PROVE  syl'[d].edited
  <2>1. syl[d].status \notin {"NONE", "AI_GENERATING"}
    BY <1>2 DEF EditsLast
  <2> QED
    BY <1>1, <1>2, <2>1, SyllabusColumns DEF Immutable
<1>3. ASSUME NEW r \in Reqs, WriteEdit(r), NEW d \in Syllabi \ again, req[r].on = d
      PROVE  syl[d].status = "DRAFT"
  <2>1. Active(r) /\ req[r].op = "edit"
    BY <1>3 DEF WriteEdit, Active, SyllabusOps
  <2> QED
    BY <1>3, <2>1 DEF SyllabusHolds, SyllabusGood, SyllabusStands
<1>4. ASSUME ~raced', NEW d \in Syllabi \ again', syl'[d].status \in {"NONE", "AI_GENERATING"}
      PROVE  ~syl'[d].edited
  <2>1. d \notin again
    <3>1. again \subseteq again'
      BY <1>4, SyllabusStepKeeps DEF SyllabusMoves
    <3> QED
      BY <1>4, <3>1
  <2>2. syl[d] \in SyllabusRow(V)
    BY DEF SyllabusShape
  <2>3. CASE syl'[d] = syl[d]
    BY <1>4, <2>1, <2>3 DEF EditsLast
  <2>4. CASE \E w \in Workers : CommitGeneration(w) /\ exec[w].to = d
    <3>1. PICK w \in Workers : CommitGeneration(w) /\ exec[w].to = d
      BY <2>4
    <3>2. PICK f : syl' = [syl EXCEPT ![d].status = "DRAFT", ![d].full = f, ![d].edited = FALSE]
      BY <3>1 DEF CommitGeneration
    <3>3. syl'[d] = [syl[d] EXCEPT !.status = "DRAFT", !.full = f, !.edited = FALSE]
      BY <3>2 DEF SyllabusShape
    <3> QED
      BY <1>4, <2>2, <3>3 DEF SyllabusRow
  <2> QED
    BY <1>3, <1>4, <2>1, <2>3, <2>4, SyllabusColumns
<1> QED
  BY <1>2, <1>4 DEF EditsLast

\* All of it is inductive.
LEMMA VersionsInitHolds ==
    ASSUME SyllabusInit
    PROVE  VersionsInv
<1>1. SyllabusInv
  BY SyllabusInitHolds
<1>2. /\ \A d \in Syllabi : syl[d].ver = 0 /\ syl[d].from = 0 /\ syl[d].status = "NONE" /\ ~syl[d].edited
      /\ \A r \in Reqs : req[r].op = None
  BY DEF SyllabusInit, BackendInit, Unused, NoReq
<1>3. CopiesLater
  <2>1. \A d \in Syllabi : syl[d].ver \in 0..0
    BY <1>2
  <2>2. 0 \in Nat /\ \E n \in Nat : \A d \in Syllabi : syl[d].ver \in 0..n
    BY <2>1
  <2> QED
    BY <1>2, <2>2, SyllabiAssumption DEF CopiesLater, Exists, SyllabusStatus, SyllabusOps
<1>4. VersionsApart /\ EditsLast
  BY <1>2, SyllabiAssumption DEF VersionsApart, EditsLast, Exists, SyllabusStatus, SyllabusOps
<1> QED
  BY <1>1, <1>3, <1>4 DEF VersionsInv

\* and every step keeps it.
LEMMA VersionsNextHolds ==
    ASSUME VersionsInv, [SyllabusNext]_sylVars
    PROVE  VersionsInv'
<1>1. PICK V : SyllabusShape(V)
  BY DEF VersionsInv, SyllabusInv
<1>2. SyllabusInv'
  BY SyllabusNextHolds DEF VersionsInv
<1>3. CASE UNCHANGED sylVars
  <2>1. UNCHANGED <<syl, req, again, raced>>
    BY <1>3 DEF sylVars, backend, queue
  <2> QED
    BY <1>2, <2>1 DEF VersionsInv, CopiesLater, VersionsApart, EditsLast, Exists
<1>4. CASE SyllabusNext
  <2>1. CopiesLater'
    BY <1>1, <1>4, CopiesKeep DEF VersionsInv
  <2>2. ASSUME ~raced' PROVE VersionsApart' /\ EditsLast'
    <3>1. ~raced
      BY <1>1, <1>4, <2>2, SyllabusRacedStays DEF SyllabusShape, BackendShape
    <3>2. SyllabusHolds /\ CopiesLater /\ VersionsApart /\ EditsLast
      BY <3>1 DEF VersionsInv, SyllabusInv
    <3> QED
      BY <1>1, <1>4, <2>2, <3>2, ApartKeeps, EditsKeep DEF SyllabusHolds
  <2> QED
    BY <1>2, <2>1, <2>2 DEF VersionsInv
<1> QED
  BY <1>3, <1>4

\* It says what the property says.
LEMMA VersionsInvOrdered ==
    ASSUME VersionsInv
    PROVE  VersionsOrdered
BY DEF VersionsInv, CopiesLater, VersionsApart, VersionsOrdered

\* The live versions of a course differ without overlap, although no constraint of the
\* database says so, and a fork is always newer than its source, for any number of rows.
THEOREM VersionsOrderedAlways == SyllabusSpec => []VersionsOrdered
BY VersionsInitHolds, VersionsNextHolds, VersionsInvOrdered, PTL DEF SyllabusSpec

\* Nor does a step break the action property.
LEMMA SyllabusEditsStay ==
    ASSUME VersionsInv, [SyllabusNext]_sylVars
    PROVE  [\A d \in Syllabi : syl[d].edited /\ syl'[d].status \in Immutable \cup {"DRAFT"} =>
                syl'[d].edited \/ raced \/ d \in again]_sylVars
<1>1. PICK V : SyllabusShape(V)
  BY DEF VersionsInv, SyllabusInv
<1>2. CASE SyllabusNext /\ ~raced
  BY <1>1, <1>2, EditsKeep DEF VersionsInv, SyllabusInv
<1> QED
  BY <1>2

\* No step replaces what was edited since the last dispatch, unless its generation is
\* repeated or requests overlap.
THEOREM EditsStayAlways == SyllabusSpec => EditsStay
<1>1. VersionsInv /\ [SyllabusNext]_sylVars => VersionsInv'
  BY VersionsNextHolds
<1>2. VersionsInv /\ [SyllabusNext]_sylVars =>
        [\A d \in Syllabi : syl[d].edited /\ syl'[d].status \in Immutable \cup {"DRAFT"} =>
            syl'[d].edited \/ raced \/ d \in again]_sylVars
  BY SyllabusEditsStay
<1> QED
  BY <1>1, <1>2, VersionsInitHolds, PTL DEF SyllabusSpec, EditsStay

----------------------------------------------------------------------------
(* Course kits, along the same lines.                                      *)

\* What the check of an operation found and its write relies on.
KitStands(op, row) ==
    /\ op \in {"edit_kit", "delete_kit", "dispatch_kit", "publish_kit"} => row.status = "DRAFT"
    /\ op = "publish_kit" => row.full
    /\ op = "archive_kit" => row.status = "PUBLISHED"

KitRow(V) == [status : CourseKitStatus \cup {"NONE", "GONE"}, ver : V, from : V, full : BOOLEAN]

KitShape(V) == kit \in [Kits -> KitRow(V)] /\ BackendShape(V, Kits)

\* As of a syllabus, with publication for the review.
KitGood(k) ==
    /\ \A r \in Reqs : Active(r) /\ req[r].on = k => KitStands(req[r].op, kit[k])
    /\ Busy(k) => kit[k].status = "AI_GENERATING"
    /\ kit[k].status = "PUBLISHED" => kit[k].full

\* A kit is published, or found fit to be, while no other is.
KitsApart ==
    /\ \A j, k \in Kits : kit[j].status = "PUBLISHED" /\ kit[k].status = "PUBLISHED" => j = k
    /\ \A r \in Reqs : req[r].op = "publish_kit" =>
          \A j \in Kits \ {req[r].on} : kit[j].status # "PUBLISHED"

KitHolds == Owned(Kits) /\ KitsApart /\ \A k \in Kits \ again : KitGood(k)

KitInv == (\E V : KitShape(V)) /\ (raced \/ KitHolds)

\* A step of one kit, which moves as the contract allows unless its promise is void.
KitMoves(k) ==
    /\ \A j \in Kits \ {k} : kit'[j] = kit[j]
    /\ again \subseteq again' /\ again' \subseteq again \cup {k}
    /\ k \in Kits \ again' =>
          \/ kit'[k].status = kit[k].status
          \/ kit[k].status = "NONE" /\ kit'[k].status = "DRAFT"
          \/ kit[k].status = "DRAFT" /\ kit'[k].status \in {"GONE", "AI_GENERATING", "PUBLISHED"}
          \/ kit[k].status = "AI_GENERATING" /\ kit'[k].status = "DRAFT"
          \/ kit[k].status = "PUBLISHED" /\ kit'[k].status = "ARCHIVED"

\* The names and numbers a step writes.
KitWords == Words(Kits) \cup KitOps \cup {"generate_course_kit", 1, NextKitVersion}

\* The writes of a row, by the columns they set.
LEMMA KitRowKeeps ==
    ASSUME NEW V, kit \in [Kits -> KitRow(V)], NEW k, NEW f \in BOOLEAN,
           NEW s \in CourseKitStatus \cup {"NONE", "GONE"},
           \/ UNCHANGED kit
           \/ kit' = [kit EXCEPT ![k].status = s]
           \/ kit' = [kit EXCEPT ![k].full = f]
           \/ kit' = [kit EXCEPT ![k].status = s, ![k].full = f]
    PROVE  kit' \in [Kits -> KitRow(V)]
<1>1. CASE k \notin Kits
  <2>1. kit' = kit
    BY <1>1
  <2> QED
    BY <2>1
<1>2. CASE k \in Kits
  <2>1. ASSUME NEW x \in KitRow(V)
        PROVE  [x EXCEPT !.status = s] \in KitRow(V) /\ [x EXCEPT !.full = f] \in KitRow(V)
    BY DEF KitRow
  <2>2. /\ kit[k] \in KitRow(V)
        /\ [kit[k] EXCEPT !.status = s] \in KitRow(V)
        /\ [kit[k] EXCEPT !.full = f] \in KitRow(V)
        /\ [kit[k] EXCEPT !.status = s, !.full = f] \in KitRow(V)
    BY <1>2, <2>1
  <2>3. \E x \in KitRow(V) : kit' = [kit EXCEPT ![k] = x]
    <3>1. CASE UNCHANGED kit
      BY <1>2, <2>2, <3>1
    <3>2. CASE kit' = [kit EXCEPT ![k].status = s]
      BY <1>2, <2>2, <3>2
    <3>3. CASE kit' = [kit EXCEPT ![k].full = f]
      BY <1>2, <2>2, <3>3
    <3>4. CASE kit' = [kit EXCEPT ![k].status = s, ![k].full = f]
      BY <1>2, <2>2, <3>4
    <3> QED
      BY <3>1, <3>2, <3>3, <3>4
  <2> QED
    BY <1>2, <2>3
<1> QED
  BY <1>1, <1>2

\* Requests and tasks write rows of their shape, out of known names.
LEMMA KitShapeStep ==
    ASSUME NEW V, KitShape(V), KitNext, NEW W, W = V \cup KitWords
    PROVE  KitShape(W)'
<1>1. kit \in [Kits -> KitRow(W)] /\ BackendShape(W, Kits)
  BY ShapeGrows DEF KitShape, KitRow
<1>2. /\ Words(Kits) \subseteq W
      /\ KitOps \cup {None, 1, NextKitVersion, "generate_course_kit", "running", "failed", "locked"} \subseteq W
  BY DEF KitWords, Words
<1>3. ASSUME NEW r \in Reqs, KitRequest(r), UNCHANGED queue
      PROVE  KitShape(W)'
  <2>1. PICK k : k = req[r].on
    OBVIOUS
  <2>2. k \in Kits \cup {None} /\ req[r].mem \in W
    BY <1>1, <2>1 DEF BackendShape
  <2>3. CASE KitCheck(r) /\ UNCHANGED kit
    <3>1. \E o \in W, j \in Kits \cup {None}, x \in W : Begin(r, o, j, x)
      BY <1>2, <2>3
      DEF KitCheck, CreateKit, EditKit, DeleteKit, DispatchKit, PublishKit, ArchiveKit, ForkKit, KitOps
    <3>2. BackendShape(W, Kits)'
      BY <1>1, <1>2, <1>3, <3>1, RequestShape
    <3> QED
      BY <1>1, <2>3, <3>2 DEF KitShape
  <2>4. ASSUME End(r) \/ EndPublishing(r, k, "generate_course_kit"), kit' \in [Kits -> KitRow(W)]
        PROVE  KitShape(W)'
    <3>1. BackendShape(W, Kits)'
      BY <1>1, <1>2, <1>3, <2>2, <2>4, RequestShape
    <3> QED
      BY <2>4, <3>1 DEF KitShape
  <2>5. CASE WriteKit(r)
    <3>1. \/ UNCHANGED kit
          \/ \E j \in Kits, f \in BOOLEAN, u \in W :
                kit' = [kit EXCEPT ![j] = [status |-> "DRAFT", ver |-> req[r].mem, from |-> u, full |-> f]]
      <4>1. (k # None /\ kit[k].full) \in BOOLEAN /\ (IF k = None THEN 0 ELSE k) \in W
        BY <1>1, <1>2, <2>2 DEF KitRow, Words
      <4> QED
        BY <2>1, <2>5, <4>1 DEF WriteKit, FreshKit
    <3>2. ASSUME NEW f \in BOOLEAN, NEW u \in W
          PROVE  [status |-> "DRAFT", ver |-> req[r].mem, from |-> u, full |-> f] \in KitRow(W)
      BY <2>2 DEF KitRow, CourseKitStatus
    <3>3. kit' \in [Kits -> KitRow(W)]
      BY <1>1, <3>1, <3>2
    <3> QED
      BY <2>4, <2>5, <3>3 DEF WriteKit
  <2>6. CASE WriteKitEdit(r) \/ WriteKitDelete(r) \/ WriteKitStatus(r) \/ WriteKitDispatch(r)
    <3>1. /\ {"GONE", "AI_GENERATING"} \subseteq CourseKitStatus \cup {"NONE", "GONE"}
          /\ \A o \in DOMAIN KitMoved : KitMoved[o] \in CourseKitStatus \cup {"NONE", "GONE"}
      BY DEF CourseKitStatus, KitMoved
    <3>2. \E s \in CourseKitStatus \cup {"NONE", "GONE"}, f \in BOOLEAN :
              \/ UNCHANGED kit
              \/ kit' = [kit EXCEPT ![k].status = s]
              \/ kit' = [kit EXCEPT ![k].full = f]
      BY <2>1, <2>6, <3>1 DEF WriteKitEdit, WriteKitDelete, WriteKitStatus, WriteKitDispatch, SetKitStatus
    <3>3. kit' \in [Kits -> KitRow(W)]
      BY <1>1, <3>2, KitRowKeeps
    <3> QED
      BY <2>1, <2>4, <2>6, <3>3 DEF WriteKitEdit, WriteKitDelete, WriteKitStatus, WriteKitDispatch
  <2> QED
    BY <1>3, <2>3, <2>5, <2>6 DEF KitRequest
<1>4. ASSUME NEW w \in Workers, KitTask(w), UNCHANGED <<req, raced>>
      PROVE  KitShape(W)'
  <2>1. PICK k : k = exec[w].to
    OBVIOUS
  <2>2. \/ \E m \in Slots, t \in W, p \in W, x \in W : Take(w, m, t, p, x)
        \/ \E p \in W, x \in W : Goto(w, p, x) /\ UNCHANGED msg
        \/ Finish(w)
        \/ Retry(w)
    BY <1>2, <1>4 DEF KitTask, StartKit, CommitKit, FailKit, ResetKit, ResetKitFails
  <2>3. BackendShape(W, Kits)'
    BY <1>1, <1>2, <1>4, <2>2, TaskShape
  <2>4. /\ "DRAFT" \in CourseKitStatus \cup {"NONE", "GONE"}
        /\ \E f \in BOOLEAN :
              \/ UNCHANGED kit
              \/ kit' = [kit EXCEPT ![k].status = "DRAFT"]
              \/ kit' = [kit EXCEPT ![k].status = "DRAFT", ![k].full = f]
    BY <1>4, <2>1
    DEF KitTask, StartKit, CommitKit, FailKit, ResetKit, ResetKitFails, SetKitStatus, CourseKitStatus
  <2>5. kit' \in [Kits -> KitRow(W)]
    BY <1>1, <2>4, KitRowKeeps
  <2> QED
    BY <2>3, <2>5 DEF KitShape
<1>5. ASSUME Environment, UNCHANGED kit
      PROVE  KitShape(W)'
  BY <1>1, <1>2, <1>5, EnvironmentShape DEF KitShape
<1> QED
  BY <1>3, <1>4, <1>5 DEF KitNext

\* Only the kit of the step is to be looked at.
LEMMA KitRest ==
    ASSUME KitHolds, Owned(Kits)', KitsApart', again \subseteq again', NEW k,
           \A j \in Kits \ {k} :
               /\ kit'[j] = kit[j]
               /\ Busy(j)' => Busy(j)
               /\ \A s \in Reqs : Active(s)' /\ req'[s].on = j => Active(s) /\ req[s] = req'[s],
           k \in Kits \ again' => KitGood(k)'
    PROVE  KitHolds'
<1>1. ASSUME NEW j \in Kits \ again', j # k
      PROVE  KitGood(j)'
  <2>1. KitGood(j)
    BY <1>1 DEF KitHolds
  <2> QED
    BY <1>1, <2>1 DEF KitGood
<1> QED
  BY <1>1 DEF KitHolds

\* What publishes nothing and asks for no publication leaves the kits apart.
LEMMA ApartStays ==
    ASSUME KitsApart, NEW k,
           \A j \in Kits \ {k} : kit'[j] = kit[j],
           k \in Kits /\ kit'[k].status = "PUBLISHED" => kit[k].status = "PUBLISHED",
           \A s \in Reqs : req'[s].op = "publish_kit" => req[s] = req'[s]
    PROVE  KitsApart'
<1>1. \A j \in Kits : kit'[j].status = "PUBLISHED" => kit[j].status = "PUBLISHED"
  OBVIOUS
<1> QED
  BY <1>1 DEF KitsApart

\* Requests that start or write without overlap, and the moves they make.
LEMMA KitRequestKeeps ==
    ASSUME NEW V, KitShape(V), KitHolds, ~raced', NEW r \in Reqs, KitRequest(r), UNCHANGED queue
    PROVE  KitHolds' /\ \E k : KitMoves(k)
<1> USE KitsAssumption
<1>1. /\ kit \in [Kits -> KitRow(V)] /\ BackendShape(V, Kits)
      /\ Owned(Kits) /\ KitsApart /\ \A k \in Kits \ again : KitGood(k)
      /\ UNCHANGED again
  BY DEF KitShape, KitHolds, queue
<1>2. CASE KitCheck(r) /\ UNCHANGED kit
  <2>1. PICK o \in KitOps, k \in Kits \cup {None} :
            /\ \E x : Begin(r, o, k, x)
            /\ k \in Kits => KitStands(o, kit[k])
            /\ o = "publish_kit" => \A j \in Kits \ {k} : kit[j].status # "PUBLISHED"
    BY <1>2
    DEF KitCheck, CreateKit, EditKit, DeleteKit, DispatchKit, PublishKit, ArchiveKit, ForkKit, KitOps,
        KitStands
  <2>2. o \notin {None, "publish"}
    BY DEF KitOps
  <2>3. /\ Quiet(Kits)
        /\ req'[r].op = o /\ req'[r].on = k
        /\ \A s \in Reqs : Active(s)' => s = r
    BY <1>1, <2>1, <2>2, BeginOwned
  <2>4. k \in Kits \ again' => KitGood(k)'
    BY <1>1, <1>2, <2>1, <2>3 DEF KitGood, Quiet
  <2>5. KitsApart'
    <3>1. ASSUME NEW s \in Reqs, req'[s].op = "publish_kit"
          PROVE  Active(s)'
      BY <3>1 DEF Active, KitOps
    <3> QED
      BY <1>1, <1>2, <2>1, <2>3, <3>1 DEF KitsApart
  <2>6. KitHolds'
    BY <1>1, <1>2, <2>3, <2>4, <2>5, KitRest DEF Quiet
  <2> QED
    BY <1>1, <1>2, <2>6 DEF KitMoves
<1>3. PICK k, o : k = req[r].on /\ o = req[r].op
  OBVIOUS
<1>4. ASSUME o \in KitOps
      PROVE  Active(r) /\ (k \in Kits \ again => KitStands(o, kit[k]) /\ KitGood(k))
  BY <1>1, <1>3, <1>4 DEF KitGood, Active, KitOps
<1>5. ASSUME Active(r), End(r)
      PROVE  /\ Quiet(Kits) /\ \A s \in Reqs : ~Active(s)'
             /\ \A s \in Reqs : req'[s].op # "publish_kit"
  <2>1. Quiet(Kits) /\ \A s \in Reqs : ~Active(s)'
    BY <1>1, <1>5, EndOwned
  <2> QED
    BY <2>1 DEF Active, KitOps
<1>6. ASSUME Active(r), End(r), NEW j, KitMoves(j), KitsApart',
             j \in Kits \ again => /\ kit[j].status # "AI_GENERATING"
                                   /\ kit'[j].status = "PUBLISHED" => kit'[j].full
      PROVE  KitHolds'
  <2>1. j \in Kits \ again' => KitGood(j)'
    BY <1>1, <1>5, <1>6 DEF KitGood, Quiet
  <2> QED
    BY <1>1, <1>5, <1>6, <2>1, KitRest DEF Quiet, KitMoves
<1>7. CASE WriteKit(r)
  <2>1. Active(r) /\ End(r)
    BY <1>3, <1>4, <1>7 DEF WriteKit, KitOps
  <2>2. CASE UNCHANGED kit
    <3>1. KitMoves(None)
      BY <1>1, <2>2 DEF KitMoves
    <3>2. KitsApart'
      BY <1>1, <1>5, <2>1, <2>2 DEF KitsApart
    <3> QED
      BY <1>6, <2>1, <3>1, <3>2
  <2>3. ASSUME NEW j \in FreshKit, NEW v, NEW u, NEW f,
               kit' = [kit EXCEPT ![j] = [status |-> "DRAFT", ver |-> v, from |-> u, full |-> f]]
        PROVE  KitHolds' /\ KitMoves(j)
    <3>1. /\ j \in Kits /\ kit[j].status = "NONE" /\ kit'[j].status = "DRAFT"
          /\ \A i \in Kits \ {j} : kit'[i] = kit[i]
      BY <1>1, <2>3 DEF FreshKit
    <3>2. KitMoves(j)
      BY <1>1, <3>1 DEF KitMoves
    <3>3. KitsApart'
      BY <1>1, <1>5, <2>1, <3>1, ApartStays
    <3> QED
      BY <1>6, <2>1, <3>1, <3>2, <3>3
  <2> QED
    BY <1>7, <2>2, <2>3 DEF WriteKit
<1>8. CASE WriteKitEdit(r)
  <2>1. Active(r) /\ End(r) /\ (k \in Kits \ again => kit[k].status = "DRAFT")
    BY <1>3, <1>4, <1>8 DEF WriteKitEdit, KitOps, KitStands
  <2>2. UNCHANGED kit \/ \E f \in BOOLEAN : kit' = [kit EXCEPT ![k].full = f]
    BY <1>3, <1>8 DEF WriteKitEdit
  <2>3. /\ \A j \in Kits \ {k} : kit'[j] = kit[j]
        /\ k \in Kits => kit'[k].status = kit[k].status
    BY <1>1, <2>2 DEF KitRow
  <2>4. KitMoves(k) /\ KitsApart'
    BY <1>1, <1>5, <2>1, <2>3, ApartStays DEF KitMoves
  <2> QED
    BY <1>1, <1>6, <2>1, <2>3, <2>4
<1>9. CASE WriteKitDelete(r)
  <2>1. Active(r) /\ End(r) /\ (k \in Kits \ again => kit[k].status = "DRAFT")
    BY <1>3, <1>4, <1>9 DEF WriteKitDelete, KitOps, KitStands
  <2>2. /\ \A j \in Kits \ {k} : kit'[j] = kit[j]
        /\ k \in Kits => kit'[k].status \in {kit[k].status, "GONE"}
    BY <1>1, <1>3, <1>9 DEF WriteKitDelete, SetKitStatus, KitRow
  <2>3. KitMoves(k) /\ KitsApart'
    BY <1>1, <1>5, <2>1, <2>2, ApartStays DEF KitMoves
  <2> QED
    BY <1>1, <1>6, <2>1, <2>2, <2>3
<1>10. CASE WriteKitStatus(r)
  <2>1. /\ Active(r) /\ End(r) /\ o \in {"publish_kit", "archive_kit"}
        /\ k \in Kits \ again => KitStands(o, kit[k]) /\ KitGood(k)
    BY <1>3, <1>4, <1>10 DEF WriteKitStatus, KitMoved, KitOps
  <2>2. \/ UNCHANGED kit
        \/ o = "publish_kit" /\ SetKitStatus(k, "PUBLISHED")
        \/ o = "archive_kit" /\ SetKitStatus(k, "ARCHIVED")
    BY <1>3, <1>10, <2>1 DEF WriteKitStatus, KitMoved
  <2>3. /\ \A j \in Kits \ {k} : kit'[j] = kit[j]
        /\ k \in Kits => /\ kit'[k].full = kit[k].full
                         /\ \/ kit'[k].status = kit[k].status
                            \/ o = "publish_kit" /\ kit'[k].status = "PUBLISHED"
                            \/ o = "archive_kit" /\ kit'[k].status = "ARCHIVED"
    BY <1>1, <2>2 DEF SetKitStatus, KitRow
  <2>4. KitMoves(k)
    BY <1>1, <2>1, <2>3 DEF KitMoves, KitStands
  <2>5. KitsApart'
    <3>1. CASE o = "publish_kit"
      <4>1. \A j \in Kits \ {k} : kit'[j].status # "PUBLISHED"
        BY <1>1, <1>3, <2>3, <3>1 DEF KitsApart
      <4> QED
        BY <1>5, <2>1, <4>1 DEF KitsApart
    <3>2. CASE o # "publish_kit"
      BY <1>1, <1>5, <2>1, <2>3, <3>2, ApartStays
    <3> QED
      BY <3>1, <3>2
  <2> QED
    BY <1>6, <2>1, <2>3, <2>4, <2>5 DEF KitStands, KitGood
<1>11. CASE WriteKitDispatch(r)
  <2>1. Active(r) /\ (k \in Kits \ again => kit[k].status = "DRAFT" /\ KitGood(k))
    BY <1>3, <1>4, <1>11 DEF WriteKitDispatch, KitOps, KitStands
  <2>2. /\ \A j \in Kits \ {k} : kit'[j] = kit[j]
        /\ k \in Kits => \/ kit'[k].status = "AI_GENERATING"
                         \/ UNCHANGED kit /\ ~KitExists(k)
    BY <1>1, <1>3, <1>11 DEF WriteKitDispatch, SetKitStatus, KitRow
  <2>3. k \in Kits \ again => kit'[k].status = "AI_GENERATING" /\ ~Busy(k)
    BY <2>1, <2>2 DEF KitExists, CourseKitStatus, KitGood
  <2>4. EndPublishing(r, k, "generate_course_kit")
    BY <1>3, <1>11 DEF WriteKitDispatch
  <2>5. /\ Owned(Kits)' /\ \A s \in Reqs : ~Active(s)'
        /\ \A j \in Kits : Busy(j)' => Busy(j) \/ j = k
    BY <1>1, <2>1, <2>3, <2>4, PublishingOwned
  <2>6. k \in Kits \ again' => KitGood(k)'
    BY <1>1, <2>3, <2>5 DEF KitGood
  <2>7. \A s \in Reqs : req'[s].op # "publish_kit"
    BY <2>5 DEF Active, KitOps
  <2>8. KitsApart'
    BY <1>1, <2>2, <2>7, ApartStays
  <2>9. KitHolds'
    BY <1>1, <2>2, <2>5, <2>6, <2>8, KitRest
  <2>10. KitMoves(k)
    BY <1>1, <2>1, <2>2, <2>3 DEF KitMoves
  <2> QED
    BY <2>9, <2>10
<1> QED
  BY <1>2, <1>7, <1>8, <1>9, <1>10, <1>11 DEF KitRequest

\* A task that is not repeated gives back the draft its message came with.
LEMMA KitTaskKeeps ==
    ASSUME NEW V, KitShape(V), KitHolds, ~raced', NEW w \in Workers, KitTask(w), UNCHANGED <<req, raced>>
    PROVE  KitHolds' /\ \E k : KitMoves(k)
<1> USE KitsAssumption
<1>1. /\ kit \in [Kits -> KitRow(V)] /\ BackendShape(V, Kits)
      /\ Owned(Kits) /\ KitsApart /\ \A k \in Kits \ again : KitGood(k)
      /\ \A s \in Reqs : Active(s)' => Active(s) /\ UNCHANGED req[s]
  BY DEF KitShape, KitHolds, Active
<1>2. CASE (\E m \in Slots : StartKit(w, m)) \/ FailKit(w)
  <2>1. /\ UNCHANGED <<kit, again>>
        /\ \/ \E m \in Slots : \E t, p, x : Take(w, m, t, p, x)
           \/ (\E p, x : Goto(w, p, x)) /\ UNCHANGED msg
    BY <1>2 DEF StartKit, FailKit
  <2>2. Quiet(Kits)
    BY <1>1, <2>1, TaskOwned
  <2>3. KitsApart'
    BY <1>1, <2>1 DEF KitsApart
  <2>4. KitHolds'
    BY <1>1, <2>1, <2>2, <2>3, KitRest DEF Quiet
  <2> QED
    BY <2>1, <2>4 DEF KitMoves
<1>3. CASE CommitKit(w) \/ ResetKit(w) \/ ResetKitFails(w)
  <2>1. PICK k : k = exec[w].to
    OBVIOUS
  <2>2. /\ Finish(w) \/ Retry(w)
        /\ \E f \in BOOLEAN :
              \/ UNCHANGED kit
              \/ kit' = [kit EXCEPT ![k].status = "DRAFT"]
              \/ kit' = [kit EXCEPT ![k].status = "DRAFT", ![k].full = f]
    BY <1>3, <2>1 DEF CommitKit, ResetKit, ResetKitFails, SetKitStatus
  <2>3. ASSUME k \in Kits
        PROVE  UNCHANGED kit \/ kit'[k].status = "DRAFT"
    <3>1. PICK f \in BOOLEAN :
              \/ UNCHANGED kit
              \/ kit'[k] = [kit[k] EXCEPT !.status = "DRAFT"]
              \/ kit'[k] = [kit[k] EXCEPT !.status = "DRAFT", !.full = f]
      BY <1>1, <2>2, <2>3
    <3>2. kit[k] \in KitRow(V)
      BY <1>1, <2>3
    <3> QED
      BY <3>1, <3>2 DEF KitRow
  <2>4. \A j \in Kits \ {k} : kit'[j] = kit[j]
    BY <1>1, <2>2
  <2>5. /\ Quiet(Kits)
        /\ again \subseteq again' /\ again' \subseteq again \cup {k}
        /\ k \in Kits \ again' => Busy(k) /\ ~Busy(k)'
    BY <1>1, <2>1, <2>2, TaskEndOwned
  <2>6. k \in Kits \ again' => KitGood(k) /\ kit[k].status = "AI_GENERATING"
    BY <1>1, <2>5 DEF KitGood
  <2>7. k \in Kits \ again' => KitGood(k)'
    BY <1>1, <2>3, <2>5, <2>6 DEF KitGood, KitStands
  <2>8. KitsApart'
    BY <1>1, <2>3, <2>4, ApartStays
  <2>9. KitHolds'
    BY <1>1, <2>4, <2>5, <2>7, <2>8, KitRest DEF Quiet
  <2>10. KitMoves(k)
    BY <2>3, <2>4, <2>5, <2>6 DEF KitMoves
  <2> QED
    BY <2>9, <2>10
<1> QED
  BY <1>2, <1>3 DEF KitTask

\* Every step without overlap keeps what holds and moves one kit.
LEMMA KitStepKeeps ==
    ASSUME NEW V, KitShape(V), KitHolds, ~raced', KitNext
    PROVE  KitHolds' /\ \E k : KitMoves(k)
<1>1. ASSUME Environment, UNCHANGED kit
      PROVE  KitHolds' /\ \E k : KitMoves(k)
  <2>1. PICK k : /\ Quiet(Kits)
                 /\ again \subseteq again' /\ again' \subseteq again \cup {k}
                 /\ \A s \in Reqs : Active(s)' => Active(s) /\ UNCHANGED req[s]
    BY <1>1, KitsAssumption, EnvironmentOwned DEF KitShape, KitHolds
  <2>2. KitMoves(k)
    BY <1>1, <2>1 DEF KitMoves
  <2>3. ASSUME k \in Kits \ again' PROVE KitGood(k)'
    BY <1>1, <2>1, <2>3 DEF KitGood, KitHolds, Quiet
  <2>4. KitsApart'
    <3>1. ASSUME NEW s \in Reqs, req'[s].op = "publish_kit"
          PROVE  Active(s)'
      BY <3>1, KitsAssumption DEF Active, KitOps
    <3> QED
      BY <1>1, <2>1, <3>1, ApartStays DEF KitHolds
  <2> QED
    BY <1>1, <2>1, <2>2, <2>3, <2>4, KitRest DEF Quiet
<1> QED
  BY <1>1, KitRequestKeeps, KitTaskKeeps DEF KitNext

\* An overlap is remembered.
LEMMA KitRacedStays ==
    ASSUME KitNext, raced, raced \in BOOLEAN
    PROVE  raced'
<1>1. ASSUME NEW r \in Reqs, KitRequest(r) PROVE raced'
  <2>1. ASSUME NEW o, NEW k, NEW x, Begin(r, o, k, x) PROVE raced'
    BY <2>1 DEF Begin
  <2>2. ASSUME NEW k, End(r) \/ EndPublishing(r, k, "generate_course_kit") PROVE raced'
    BY <2>2 DEF End, EndPublishing
  <2> QED
    BY <1>1, <2>1, <2>2
    DEF KitRequest, KitCheck, CreateKit, EditKit, DeleteKit, DispatchKit, PublishKit, ArchiveKit, ForkKit,
        WriteKit, WriteKitEdit, WriteKitDelete, WriteKitStatus, WriteKitDispatch
<1>2. ASSUME Environment PROVE raced'
  BY <1>2 DEF Environment, Publish, End, Abandon, WorkerCrash, ProcessLost, Redeliver
<1> QED
  BY <1>1, <1>2 DEF KitNext

\* Nothing is asked for or under way at first.
LEMMA KitInitHolds ==
    ASSUME KitInit
    PROVE  KitInv
<1>1. PICK V : V = {None, 0, "none", "idle"}
  OBVIOUS
<1>2. KitShape(V)
  BY <1>1 DEF KitInit, BackendInit, UnusedKit, NoReq, NoMsg, Idle, KitShape, KitRow, BackendShape
<1>3. /\ \A r \in Reqs : req[r].op = None /\ ~Active(r) /\ \A k \in Kits : ~Asking(r, k)
      /\ \A m \in Slots, k \in Kits : ~Queued(m, k)
      /\ \A w \in Workers : exec[w].to \notin Kits
      /\ \A k \in Kits : kit[k].status = "NONE"
  BY KitsAssumption DEF KitInit, BackendInit, UnusedKit, NoReq, NoMsg, Idle, Active, Asking, Queued
<1>4. KitHolds
  BY <1>3, KitsAssumption DEF KitHolds, KitsApart, Owned, Solo, Single, Held, KitGood, Busy, KitOps
<1> QED
  BY <1>2, <1>4 DEF KitInv

\* The invariant is inductive: with an overlap only the shape is left of it.
LEMMA KitNextHolds ==
    ASSUME KitInv, [KitNext]_kitVars
    PROVE  KitInv'
<1>1. PICK V : KitShape(V)
  BY DEF KitInv
<1>2. CASE UNCHANGED kitVars
  <2>1. UNCHANGED <<kit, req, msg, exec, again, raced>>
    BY <1>2 DEF kitVars, backend, queue
  <2>2. KitShape(V)'
    BY <1>1, <2>1 DEF KitShape, BackendShape
  <2>3. KitHolds => KitHolds'
    BY <2>1
    DEF KitHolds, KitsApart, KitGood, Owned, Solo, Single, Held, Busy, Active, Asking, Queued
  <2> QED
    BY <2>1, <2>2, <2>3 DEF KitInv
<1>3. CASE KitNext
  <2>1. PICK W : W = V \cup KitWords
    OBVIOUS
  <2>2. KitShape(W)'
    BY <1>1, <1>3, <2>1, KitShapeStep
  <2>3. raced' \/ KitHolds'
    BY <1>1, <1>3, KitStepKeeps, KitRacedStays DEF KitInv, KitShape, BackendShape
  <2> QED
    BY <2>2, <2>3 DEF KitInv
<1> QED
  BY <1>2, <1>3

\* Without an overlap a unit has one published kit, and it passes its compliance
\* check unless its generation was repeated, though no constraint of the database
\* says so and publish_kit looks at the other kits only when it starts.
THEOREM PublishedKit == KitSpec => []OnePublishedKit
<1>1. KitInv => OnePublishedKit
  BY DEF KitInv, KitHolds, KitsApart, KitGood, OnePublishedKit
<1> QED
  BY <1>1, KitInitHolds, KitNextHolds, PTL DEF KitSpec

\* Every step moves at most one document as DocumentContract allows, or voids.
LEMMA KitStepImplements ==
    ASSUME KitInv, KitNext
    PROVE  KitContract!ContractNext \/ UNCHANGED [d \in Kits |-> KitStage(d)]
<1> DEFINE S == [d \in Kits |-> KitStage(d)]
<1>1. PICK V : KitShape(V)
  BY DEF KitInv
<1>2. CASE raced'
  <2>1. \A d \in Kits : KitStage(d)' = "open"
    BY <1>2 DEF KitStage
  <2>2. S' = [d \in Kits |-> IF d \in Kits THEN "open" ELSE S[d]]
    BY <2>1
  <2>3. \E D \in SUBSET Kits : S' = [d \in Kits |-> IF d \in D THEN "open" ELSE S[d]]
    BY <2>2
  <2> QED
    BY <2>3 DEF KitContract!ContractNext, KitContract!Void
<1>3. CASE ~raced'
  <2>1. ~raced /\ KitHolds
    BY <1>1, <1>3, KitRacedStays DEF KitInv, KitShape, BackendShape
  <2>2. PICK d : KitMoves(d)
    BY <1>1, <1>3, <2>1, KitStepKeeps
  <2>3. \A e \in Kits \ {d} : KitStage(e)' = KitStage(e)
    BY <1>3, <2>1, <2>2 DEF KitMoves, KitStage, KitExists
  <2>4. CASE d \in Kits
    <3> DEFINE old == KitStage(d)
               new == KitStage(d)'
    <3>1. \/ new \in {old, "open"}
          \/ <<old, new>> \in KitContract!Allowed
      <4>1. CASE d \in again'
        BY <1>3, <4>1 DEF KitStage
      <4>2. CASE d \notin again'
        <5>1. /\ d \notin again
              /\ \/ kit'[d].status = kit[d].status
                 \/ kit[d].status = "NONE" /\ kit'[d].status = "DRAFT"
                 \/ kit[d].status = "DRAFT" /\ kit'[d].status \in {"GONE", "AI_GENERATING", "PUBLISHED"}
                 \/ kit[d].status = "AI_GENERATING" /\ kit'[d].status = "DRAFT"
                 \/ kit[d].status = "PUBLISHED" /\ kit'[d].status = "ARCHIVED"
          BY <2>2, <2>4, <4>2 DEF KitMoves
        <5>2. /\ old = IF ~KitExists(d) THEN "absent"
                       ELSE IF kit[d].status = "DRAFT" THEN "draft"
                       ELSE IF kit[d].status = "AI_GENERATING" THEN "generating" ELSE "released"
              /\ new = IF kit'[d].status \notin CourseKitStatus THEN "absent"
                       ELSE IF kit'[d].status = "DRAFT" THEN "draft"
                       ELSE IF kit'[d].status = "AI_GENERATING" THEN "generating" ELSE "released"
          BY <1>3, <2>1, <4>2, <5>1 DEF KitStage, KitExists, CourseKitStatus
        <5> HIDE DEF old, new
        <5>3. \/ old = new
              \/ old = "absent" /\ new = "draft"
              \/ old = "draft" /\ new = "absent"
              \/ old = "draft" /\ new = "generating"
              \/ old = "generating" /\ new = "draft"
              \/ old = "draft" /\ new = "released"
          BY <5>1, <5>2 DEF KitExists, CourseKitStatus
        <5> QED
          BY <5>3 DEF KitContract!Allowed
      <4> QED
        BY <4>1, <4>2
    <3>2. S' = [S EXCEPT ![d] = new]
      BY <2>3, <2>4
    <3>3. S[d] = old
      BY <2>4
    <3> HIDE DEF old, new, S
    <3>4. CASE new = old
      <4>1. \A e \in Kits : S[e] = S'[e]
        BY <3>2, <3>3, <3>4 DEF S
      <4> QED
        BY <4>1 DEF S
    <3>5. CASE new = "open" \/ <<S[d], new>> \in KitContract!Allowed
      <4>1. new \in KitContract!Stages
        BY <3>5 DEF KitContract!Allowed, KitContract!Stages
      <4>2. \E s \in KitContract!Stages : /\ s = "open" \/ <<S[d], s>> \in KitContract!Allowed
                                          /\ S' = [S EXCEPT ![d] = s]
        BY <3>2, <3>5, <4>1
      <4>3. KitContract!Move(d)
        BY <4>2 DEF KitContract!Move, S
      <4> QED
        BY <2>4, <4>3 DEF KitContract!ContractNext
    <3> QED
      BY <3>1, <3>3, <3>4, <3>5
  <2>5. CASE d \notin Kits
    BY <2>3, <2>5
  <2> QED
    BY <2>4, <2>5
<1> QED
  BY <1>2, <1>3

\* The kits implement DocumentContract: what is published is never a draft again,
\* nor generated over, however the requests, the task and its retries fail.
THEOREM KitImplements == KitSpec => KitKeepsContract
<1>1. KitInit => KitContract!ContractInit
  BY DEF KitInit, BackendInit, UnusedKit, KitStage, KitExists, CourseKitStatus,
      KitContract!ContractInit
<1>2. KitInv /\ [KitNext]_kitVars
          => [KitContract!ContractNext]_([d \in Kits |-> KitStage(d)])
  BY KitStepImplements DEF kitVars, backend, queue, KitStage, KitExists
<1> QED
  BY <1>1, <1>2, KitInitHolds, KitNextHolds, PTL
  DEF KitSpec, KitKeepsContract, KitContract!ContractSpec

----------------------------------------------------------------------------
(* The same of some tasks alone, T, whatever overlaps: components with two  *)
(* tasks, or with promises that no overlap breaks.                          *)

Asks(T, r, d) == Asking(r, d) /\ req[r].task \in T
Carries(T, m, d) == Queued(m, d) /\ msg[m].task \in T
Occupied(T, d) == (\E r \in Reqs : Asks(T, r, d)) \/ (\E m \in Slots : Carries(T, m, d))

\* A task that is not repeated has one publication or one message,
Once(T, D) == \A d \in D \ again :
    /\ \A r, s \in Reqs : Asks(T, r, d) /\ Asks(T, s, d) => r = s
    /\ \A m, n \in Slots : Carries(T, m, d) /\ Carries(T, n, d) => m = n
    /\ \A r \in Reqs, m \in Slots : ~(Asks(T, r, d) /\ Carries(T, m, d))

\* which its worker holds.
Holding(T, D) == \A w \in Workers : \A d \in D \ again : exec[w].to = d /\ exec[w].task \in T =>
    /\ exec[w].slot \in Slots
    /\ msg[exec[w].slot].at = w
    /\ Carries(T, exec[w].slot, d)

Sole(T, D) == Once(T, D) /\ Holding(T, D)

\* A step that starts no task of T.
Calm(T, D) == Sole(T, D)' /\ \A d \in D : Occupied(T, d)' => Occupied(T, d)

\* A request that starts or ends asks for no task.
LEMMA RequestSole ==
    ASSUME NEW V, NEW R, NEW D, NEW T, BackendShape(V, R), Sole(T, D), UNCHANGED queue,
           NEW r \in Reqs,
           End(r) \/ \E o, d, x : Begin(r, o, d, x) /\ o # "publish"
    PROVE  Calm(T, D) /\ \A s \in Reqs \ {r} : req'[s] = req[s]
<1>1. req'[r].op # "publish" /\ \A s \in Reqs \ {r} : req'[s] = req[s]
  <2>1. CASE End(r)
    BY <2>1, BackendAssumption DEF End, NoReq, BackendShape
  <2>2. ASSUME NEW o, NEW d, NEW x, Begin(r, o, d, x), o # "publish"
        PROVE  req'[r].op # "publish" /\ \A s \in Reqs \ {r} : req'[s] = req[s]
    BY <2>2 DEF Begin, NoReq, BackendShape
  <2> QED
    BY <2>1, <2>2
<1>2. UNCHANGED <<msg, exec, again>>
  BY DEF queue
<1>3. \A s \in Reqs, e \in D : Asks(T, s, e)' => Asks(T, s, e)
  BY <1>1 DEF Asks, Asking
<1> QED
  BY <1>1, <1>2, <1>3 DEF Calm, Sole, Once, Holding, Occupied, Carries, Queued

\* One that asks for a task of T does so for a document that has none.
LEMMA PublishingSole ==
    ASSUME NEW V, NEW R, NEW D, NEW T, BackendShape(V, R), Sole(T, D), UNCHANGED queue,
           NEW r \in Reqs, req[r].op # "publish", NEW d, NEW t, EndPublishing(r, d, t),
           t \in T /\ d \in D \ again => ~Occupied(T, d)
    PROVE  /\ Sole(T, D)' /\ \A e \in D : Occupied(T, e)' => Occupied(T, e) \/ (e = d /\ t \in T)
           /\ req'[r] = [NoReq EXCEPT !.op = "publish", !.on = d, !.task = t]
           /\ \A s \in Reqs \ {r} : req'[s] = req[s]
<1>1. /\ req'[r] = [NoReq EXCEPT !.op = "publish", !.on = d, !.task = t]
      /\ \A s \in Reqs \ {r} : req'[s] = req[s]
      /\ UNCHANGED <<msg, exec, again>>
  BY DEF EndPublishing, BackendShape, queue
<1>2. req'[r].op = "publish" /\ req'[r].on = d /\ req'[r].task = t
  BY <1>1 DEF NoReq
<1>3. \A s \in Reqs, e \in D : Asks(T, s, e)' <=> Asks(T, s, e) \/ (s = r /\ e = d /\ t \in T)
  BY <1>1, <1>2 DEF Asks, Asking
<1>4. Once(T, D)'
  BY <1>1, <1>3 DEF Sole, Once, Carries, Queued, Occupied
<1>5. Holding(T, D)' /\ \A e \in D : Occupied(T, e)' => Occupied(T, e) \/ (e = d /\ t \in T)
  BY <1>1, <1>3 DEF Sole, Holding, Carries, Queued, Occupied
<1> QED
  BY <1>1, <1>4, <1>5 DEF Sole

\* A publication becomes a message, and what fails or is delivered again starts nothing.
LEMMA EnvironmentSole ==
    ASSUME NEW V, NEW R, NEW D, NEW T, BackendShape(V, R), None \notin D, Sole(T, D), Environment
    PROVE  Calm(T, D)
<1>1. ASSUME NEW r \in Reqs, Publish(r) PROVE Calm(T, D)
  <2>1. PICK m \in Slots : /\ msg[m].at = "none"
                           /\ msg' = [msg EXCEPT ![m] = [task |-> req[r].task, to |-> req[r].on,
                                                         at |-> "queued", tries |-> 0]]
    BY <1>1 DEF Publish
  <2>2. /\ req[r].op = "publish" /\ req'[r] = NoReq
        /\ \A s \in Reqs \ {r} : req'[s] = req[s]
        /\ UNCHANGED <<exec, again>>
    BY <1>1 DEF Publish, End, BackendShape
  <2>3. /\ msg'[m].to = req[r].on /\ msg'[m].task = req[r].task
        /\ \A n \in Slots \ {m} : msg'[n] = msg[n]
    BY <2>1 DEF BackendShape
  <2>4. \A s \in Reqs, e \in D : Asks(T, s, e)' => Asks(T, s, e) /\ s # r
    BY <2>2 DEF Asks, Asking, NoReq
  <2>5. \A n \in Slots, e \in D :
            Carries(T, n, e)' => (n # m /\ Carries(T, n, e)) \/ (n = m /\ Asks(T, r, e))
    BY <2>2, <2>3 DEF Carries, Queued, Asks, Asking
  <2>6. Once(T, D)'
    BY <2>2, <2>4, <2>5 DEF Sole, Once
  <2>7. \A e \in D : Occupied(T, e)' => Occupied(T, e)
    BY <2>4, <2>5 DEF Occupied
  <2>8. Holding(T, D)'
    BY <2>1, <2>2, <2>3, BackendAssumption DEF Sole, Holding, Carries, Queued
  <2> QED
    BY <2>6, <2>7, <2>8 DEF Sole, Calm
<1>2. ASSUME NEW r \in Reqs, Abandon(r) PROVE Calm(T, D)
  <2>1. /\ req'[r] = NoReq
        /\ \A s \in Reqs \ {r} : req'[s] = req[s]
        /\ UNCHANGED <<msg, exec, again>>
    BY <1>2 DEF Abandon, BackendShape
  <2>2. \A s \in Reqs, e \in D : Asks(T, s, e)' => Asks(T, s, e)
    BY <2>1 DEF Asks, Asking, NoReq
  <2> QED
    BY <2>1, <2>2 DEF Calm, Sole, Once, Holding, Occupied, Carries, Queued
<1>3. ASSUME NEW w \in Workers, WorkerCrash(w) \/ ProcessLost(w) PROVE Calm(T, D)
  <2>1. /\ exec'[w] = Idle
        /\ \A v \in Workers \ {w} : exec'[v] = exec[v]
        /\ UNCHANGED <<req, again>>
        /\ msg' \in {msg, Acked(w)}
    BY <1>3 DEF WorkerCrash, ProcessLost, BackendShape
  <2>2. \A n \in Slots : \/ msg'[n] = msg[n]
                         \/ n = exec[w].slot /\ msg[n].at = w /\ msg'[n] = NoMsg
    BY <2>1 DEF Acked, BackendShape
  <2>3. \A n \in Slots, e \in D : Carries(T, n, e)' => Carries(T, n, e) /\ msg'[n] = msg[n]
    BY <2>2 DEF Carries, Queued, NoMsg
  <2>4. Once(T, D)' /\ \A e \in D : Occupied(T, e)' => Occupied(T, e)
    BY <2>1, <2>3 DEF Sole, Once, Occupied, Asks, Asking
  <2>5. Holding(T, D)'
    BY <2>1, <2>2 DEF Sole, Holding, Idle, Carries, Queued
  <2> QED
    BY <2>4, <2>5 DEF Sole, Calm
<1>4. ASSUME NEW m \in Slots, Redeliver(m) PROVE Calm(T, D)
  <2>1. /\ msg'[m].to = msg[m].to /\ msg'[m].task = msg[m].task
        /\ \A n \in Slots \ {m} : msg'[n] = msg[n]
        /\ again' = again \cup {msg[m].to}
        /\ UNCHANGED <<req, exec>>
    BY <1>4 DEF Redeliver, BackendShape
  <2>2. \A n \in Slots, e \in D : Carries(T, n, e)' <=> Carries(T, n, e)
    BY <2>1 DEF Carries, Queued
  <2>3. Once(T, D)' /\ \A e \in D : Occupied(T, e)' => Occupied(T, e)
    BY <2>1, <2>2 DEF Sole, Once, Occupied, Asks, Asking
  <2>4. Holding(T, D)'
    BY <2>1 DEF Sole, Holding, Carries, Queued
  <2> QED
    BY <2>3, <2>4 DEF Sole, Calm
<1> QED
  BY <1>1, <1>2, <1>3, <1>4 DEF Environment

\* A worker takes a message, goes on, or ends with it.
LEMMA TaskSole ==
    ASSUME NEW V, NEW R, NEW D, NEW T, BackendShape(V, R), None \notin D, Sole(T, D), NEW w \in Workers,
           UNCHANGED req,
           \/ \E m \in Slots : \E t, p, x : Take(w, m, t, p, x) /\ UNCHANGED again
           \/ (\E p, x : Goto(w, p, x)) /\ UNCHANGED <<msg, again>>
           \/ Finish(w)
           \/ Retry(w)
    PROVE  Calm(T, D) /\ \A v \in Workers \ {w} : exec'[v] = exec[v]
<1>1. ASSUME NEW m \in Slots, NEW t, NEW p, NEW x, Take(w, m, t, p, x), UNCHANGED again
      PROVE  Calm(T, D) /\ \A v \in Workers \ {w} : exec'[v] = exec[v]
  <2>1. /\ msg[m].at = "queued" /\ msg'[m].at = w /\ msg'[m].to = msg[m].to /\ msg'[m].task = msg[m].task
        /\ msg[m].task = t
        /\ \A n \in Slots \ {m} : msg'[n] = msg[n]
        /\ exec'[w].slot = m /\ exec'[w].to = msg[m].to /\ exec'[w].task = t
        /\ \A v \in Workers \ {w} : exec'[v] = exec[v]
    BY <1>1 DEF Take, BackendShape
  <2>2. \A n \in Slots, e \in D : Carries(T, n, e)' <=> Carries(T, n, e)
    BY <2>1 DEF Carries, Queued
  <2>3. Once(T, D)' /\ \A e \in D : Occupied(T, e)' => Occupied(T, e)
    BY <1>1, <2>2 DEF Sole, Once, Occupied, Asks, Asking
  <2>4. Holding(T, D)'
    BY <1>1, <2>1, <2>2, BackendAssumption DEF Sole, Holding, Carries, Queued
  <2> QED
    BY <2>1, <2>3, <2>4 DEF Sole, Calm
<1>2. ASSUME NEW p, NEW x, Goto(w, p, x), UNCHANGED <<msg, again>>
      PROVE  Calm(T, D) /\ \A v \in Workers \ {w} : exec'[v] = exec[v]
  <2>1. /\ exec'[w].slot = exec[w].slot /\ exec'[w].to = exec[w].to /\ exec'[w].task = exec[w].task
        /\ \A v \in Workers \ {w} : exec'[v] = exec[v]
    BY <1>2 DEF Goto, BackendShape
  <2> QED
    BY <1>2, <2>1 DEF Calm, Sole, Once, Holding, Occupied, Carries, Queued, Asks, Asking
<1>3. CASE Finish(w)
  <2>1. /\ exec'[w] = Idle
        /\ \A v \in Workers \ {w} : exec'[v] = exec[v]
        /\ UNCHANGED again
    BY <1>3 DEF Finish, BackendShape
  <2>2. \A n \in Slots : \/ msg'[n] = msg[n]
                         \/ n = exec[w].slot /\ msg[n].at = w /\ msg'[n] = NoMsg
    BY <1>3 DEF Finish, Acked, BackendShape
  <2>3. \A n \in Slots, e \in D : Carries(T, n, e)' => Carries(T, n, e) /\ msg'[n] = msg[n]
    BY <2>2 DEF Carries, Queued, NoMsg
  <2>4. Once(T, D)' /\ \A e \in D : Occupied(T, e)' => Occupied(T, e)
    BY <2>1, <2>3 DEF Sole, Once, Occupied, Asks, Asking
  <2>5. Holding(T, D)'
    BY <2>1, <2>2 DEF Sole, Holding, Idle, Carries, Queued
  <2> QED
    BY <2>1, <2>4, <2>5 DEF Sole, Calm
<1>4. CASE Retry(w)
  <2>1. PICK m : m = exec[w].slot
    OBVIOUS
  <2>2. /\ exec'[w] = Idle
        /\ \A v \in Workers \ {w} : exec'[v] = exec[v]
        /\ again \subseteq again'
        /\ msg[m].at = w
    BY <1>4, <2>1 DEF Retry, BackendShape
  <2>3. \A n \in Slots : /\ msg'[n].to = msg[n].to /\ msg'[n].task = msg[n].task
                         /\ n # m => msg'[n] = msg[n]
    BY <1>4, <2>1 DEF Retry, BackendShape
  <2>4. \A n \in Slots, e \in D : Carries(T, n, e)' <=> Carries(T, n, e)
    BY <2>3 DEF Carries, Queued
  <2>5. Once(T, D)' /\ \A e \in D : Occupied(T, e)' => Occupied(T, e)
    BY <2>2, <2>4 DEF Sole, Once, Occupied, Asks, Asking
  <2>6. Holding(T, D)'
    BY <2>2, <2>3, <2>4 DEF Sole, Holding, Idle
  <2> QED
    BY <2>2, <2>5, <2>6 DEF Sole, Calm
<1> QED
  BY <1>1, <1>2, <1>3, <1>4

----------------------------------------------------------------------------
(* Learning packages.  Curations are what may not overlap, so it is Sole    *)
(* for them; the count of a package needs that requests do not either.      *)

Curation == {"curate_learning_package"}
Indexing == {"index_package_rag"}

PackageRow == [status : PackageStatus \cup {"NONE"}, items : SUBSET Items,
               item_count : Nat, qdrant_indexed : BOOLEAN]

PackageShape(V) == pkg \in [Packages -> PackageRow] /\ BackendShape(V, Packages)

PackageWords ==
    UNION {Words(Packages), PackageOps, Curation, Indexing, Nat, Nat \X (Items \cup {None}),
           {Cardinality(pkg[msg[m].to].items \cap Notes) : m \in Slots}}

\* A package that was READY once is not taken back, unless its curation is repeated.
Indexable(p) == p \in again \/ pkg[p].status \in {"READY", "OUTDATED"}

\* A package that is still curated is PENDING, and holds what faculty added.
PackageGood(p) ==
    /\ pkg[p].status # "CURATING"
    /\ pkg[p].qdrant_indexed => Indexable(p)
    /\ p \notin again =>
          /\ Occupied(Curation, p) => pkg[p].status = "PENDING"
          /\ pkg[p].status \in {"NONE", "PENDING"} => pkg[p].items \subseteq Notes

\* What requests, messages and tasks on a package can rely on.
PackageReqSound(r) ==
    /\ req[r].op \in {"add", "remove"} => req[r].on \in Packages /\ req[r].mem[1] \in Nat
    /\ req[r].op = "index" => req[r].on \in Packages /\ Indexable(req[r].on)
    /\ \A p \in Packages : Asks(Indexing, r, p) => Indexable(p)
PackageMsgSound(m) == \A p \in Packages : Carries(Indexing, m, p) => Indexable(p)
PackageExecSound(w) ==
    /\ \A p \in Packages : exec[w].to = p /\ exec[w].task \in Indexing => Indexable(p)
    /\ exec[w].to \in Packages /\ In(w, "curate_learning_package", "running") => exec[w].mem \in Nat

PackageSafe ==
    /\ Sole(Curation, Packages)
    /\ \A p \in Packages : PackageGood(p)
    /\ \A r \in Reqs : PackageReqSound(r)
    /\ \A m \in Slots : PackageMsgSound(m)
    /\ \A w \in Workers : PackageExecSound(w)

\* A request or a curation that will write the count has read the right one.
Counted(p) ==
    /\ pkg[p].item_count = Cardinality(pkg[p].items)
    /\ \A r \in Reqs : req[r].op \in {"add", "remove"} /\ req[r].on = p =>
          /\ req[r].mem[1] = pkg[p].item_count
          /\ req[r].op = "remove" => req[r].mem[2] \in pkg[p].items
    /\ \A w \in Workers : exec[w].to = p /\ In(w, "curate_learning_package", "running") =>
          /\ exec[w].mem = Cardinality(pkg[p].items \cap Notes)
          /\ \A r \in Reqs : req[r].op \in {"add", "remove"} => req[r].on # p

AllCounted == Solo /\ \A p \in Packages \ (again \cup mixed) : Counted(p)

\* The inductive invariant of the packages.
PackageInv == (\E V : PackageShape(V)) /\ PackageSafe /\ (raced \/ AllCounted)

\* Items are finite, and counted one by one.
LEMMA ItemsCounted ==
    ASSUME NEW I, I \subseteq Items
    PROVE  /\ Cardinality(I) \in Nat
           /\ \A n : n \notin I => Cardinality(I \cup {n}) = Cardinality(I) + 1
           /\ \A i \in I : Max({0, Cardinality(I) - 1}) = Cardinality(I \ {i})
<1>1. IsFiniteSet(I)
  <2>1. IsFiniteSet(Items)
    BY FS_AddElement, PackagesAssumption DEF Items
  <2> QED
    BY <2>1, FS_Subset
<1>2. Cardinality(I) \in Nat
  BY <1>1, FS_CardinalityType
<1>3. ASSUME NEW n, n \notin I PROVE Cardinality(I \cup {n}) = Cardinality(I) + 1
  BY <1>1, <1>3, FS_AddElement
<1>4. ASSUME NEW i \in I PROVE Max({0, Cardinality(I) - 1}) = Cardinality(I \ {i})
  <2>1. PICK k : k = Cardinality(I) - 1
    OBVIOUS
  <2>2. k \in Nat /\ Cardinality(I \ {i}) = k
    <3>1. Cardinality(I \ {i}) = k /\ IsFiniteSet(I \ {i})
      BY <1>1, <2>1, FS_RemoveElement
    <3> QED
      BY <3>1, FS_CardinalityType
  <2>3. PICK S : S = {0, k}
    OBVIOUS
  <2>4. S \subseteq 0..k /\ S # {}
    BY <2>2, <2>3
  <2>5. Max(S) \in S /\ \A x \in S : Max(S) >= x
    BY <2>2, <2>4, MaxOfBounded
  <2> QED
    BY <2>1, <2>2, <2>3, <2>5
<1> QED
  BY <1>2, <1>3, <1>4

\* What a step makes of a package.
LEMMA PackageColumns ==
    ASSUME NEW V, PackageShape(V), PackageSafe, PackageNext, NEW p \in Packages
    PROVE  /\ pkg'[p] \in PackageRow
           /\ \/ pkg'[p] = pkg[p]
              \/ \E r \in Reqs :
                    /\ WriteCuration(r) /\ EndPublishing(r, p, "curate_learning_package")
                    /\ pkg[p].status = "NONE" /\ pkg'[p] = [pkg[p] EXCEPT !.status = "PENDING"]
                    /\ \A q \in Packages \ {p} : pkg'[q] = pkg[q]
              \/ \E r \in Reqs :
                    /\ WriteAdd(r) /\ req[r].on = p
                    /\ \E n \in Notes \ pkg[p].items :
                          pkg'[p] = [pkg[p] EXCEPT !.items = @ \cup {n}, !.item_count = req[r].mem[1] + 1]
              \/ \E r \in Reqs :
                    /\ WriteRemove(r) /\ req[r].on = p
                    /\ pkg'[p] = [pkg[p] EXCEPT !.items = @ \ {req[r].mem[2]},
                                                !.item_count = Max({0, req[r].mem[1] - 1})]
              \/ pkg[p].status = "READY" /\ pkg'[p] = [pkg[p] EXCEPT !.status = "OUTDATED"]
              \/ \E w \in Workers :
                    /\ CommitCuration(w) /\ exec[w].to = p /\ UNCHANGED req
                    /\ \E found \in SUBSET {"curated"} :
                          pkg'[p] = [pkg[p] EXCEPT !.status = "READY",
                                                   !.items = IF found = {} THEN @ ELSE (@ \cap Notes) \cup found,
                                                   !.item_count = Cardinality(found) + exec[w].mem]
              \/ \E w \in Workers :
                    ResetPackage(w) /\ exec[w].to = p /\ pkg'[p] = [pkg[p] EXCEPT !.status = "PENDING"]
              \/ \E w \in Workers :
                    CommitIndexing(w) /\ exec[w].to = p /\ pkg'[p] = [pkg[p] EXCEPT !.qdrant_indexed = TRUE]
<1>1. pkg \in [Packages -> PackageRow] /\ pkg[p] \in PackageRow
  BY DEF PackageShape
<1>2. /\ pkg[p].items \subseteq Items /\ pkg[p].item_count \in Nat
  BY <1>1 DEF PackageRow
<1>3. ASSUME NEW q, NEW row, pkg' = [pkg EXCEPT ![q] = row], q # p
      PROVE  pkg'[p] = pkg[p]
  BY <1>1, <1>3
<1>4. CASE pkg' = pkg
  BY <1>1, <1>4
<1>5. ASSUME NEW r \in Reqs, WriteCuration(r), pkg'[p] # pkg[p]
      PROVE  /\ EndPublishing(r, p, "curate_learning_package")
             /\ pkg[p].status = "NONE" /\ pkg'[p] = [pkg[p] EXCEPT !.status = "PENDING"]
             /\ \A q \in Packages \ {p} : pkg'[q] = pkg[q]
  <2>1. PICK q \in FreshPackage : /\ pkg' = [pkg EXCEPT ![q].status = "PENDING"]
                                  /\ EndPublishing(r, q, "curate_learning_package")
    BY <1>5 DEF WriteCuration
  <2>2. q = p /\ q \in Packages /\ pkg[q].status = "NONE"
    BY <1>1, <1>5, <2>1 DEF FreshPackage
  <2> QED
    BY <1>1, <2>1, <2>2
<1>6. ASSUME NEW r \in Reqs, WriteAdd(r), pkg'[p] # pkg[p]
      PROVE  /\ req[r].on = p /\ req[r].mem[1] \in Nat
             /\ \E n \in Notes \ pkg[p].items :
                   pkg'[p] = [pkg[p] EXCEPT !.items = @ \cup {n}, !.item_count = req[r].mem[1] + 1]
  <2>1. PICK n \in Notes \ pkg[req[r].on].items :
            pkg' = [pkg EXCEPT ![req[r].on].items = @ \cup {n}, ![req[r].on].item_count = req[r].mem[1] + 1]
    BY <1>6 DEF WriteAdd
  <2>2. req[r].on = p
    BY <1>1, <1>6, <2>1
  <2>3. req[r].mem[1] \in Nat
    BY <1>6 DEF WriteAdd, PackageSafe, PackageReqSound
  <2>4. pkg'[p] = [pkg[p] EXCEPT !.items = @ \cup {n}, !.item_count = req[r].mem[1] + 1]
    BY <1>1, <2>1, <2>2
  <2> QED
    BY <2>1, <2>2, <2>3, <2>4
<1>7. ASSUME NEW r \in Reqs, WriteRemove(r), pkg'[p] # pkg[p]
      PROVE  /\ req[r].on = p /\ req[r].mem[1] \in Nat
             /\ pkg'[p] = [pkg[p] EXCEPT !.items = @ \ {req[r].mem[2]},
                                         !.item_count = Max({0, req[r].mem[1] - 1})]
  <2>1. pkg' = [pkg EXCEPT ![req[r].on].items = @ \ {req[r].mem[2]},
                           ![req[r].on].item_count = Max({0, req[r].mem[1] - 1})]
    BY <1>7 DEF WriteRemove
  <2>2. req[r].on = p
    BY <1>1, <1>7, <2>1
  <2>3. req[r].mem[1] \in Nat
    BY <1>7 DEF WriteRemove, PackageSafe, PackageReqSound
  <2> QED
    BY <1>1, <2>1, <2>2, <2>3
<1>8. ASSUME NEW r \in Reqs, WriteBump(r), pkg'[p] # pkg[p]
      PROVE  pkg[p].status = "READY" /\ pkg'[p] = [pkg[p] EXCEPT !.status = "OUTDATED"]
  BY <1>8 DEF WriteBump
<1>9. ASSUME NEW w \in Workers, CommitCuration(w), pkg'[p] # pkg[p]
      PROVE  /\ exec[w].to = p /\ exec[w].mem \in Nat
             /\ \E found \in SUBSET {"curated"} :
                   pkg'[p] = [pkg[p] EXCEPT !.status = "READY",
                                            !.items = IF found = {} THEN @ ELSE (@ \cap Notes) \cup found,
                                            !.item_count = Cardinality(found) + exec[w].mem]
  <2>1. PICK found \in SUBSET {"curated"} :
            pkg' = [pkg EXCEPT ![exec[w].to].status = "READY",
                               ![exec[w].to].items = IF found = {} THEN @ ELSE (@ \cap Notes) \cup found,
                               ![exec[w].to].item_count = Cardinality(found) + exec[w].mem]
    BY <1>9 DEF CommitCuration
  <2>2. exec[w].to = p
    BY <1>1, <1>9, <2>1
  <2>3. exec[w].mem \in Nat
    BY <1>9, <2>2 DEF CommitCuration, PackageSafe, PackageExecSound
  <2> QED
    BY <1>1, <2>1, <2>2, <2>3
<1>10. ASSUME NEW w \in Workers, ResetPackage(w), pkg'[p] # pkg[p]
       PROVE  exec[w].to = p /\ pkg'[p] = [pkg[p] EXCEPT !.status = "PENDING"]
  BY <1>1, <1>10 DEF ResetPackage
<1>11. ASSUME NEW w \in Workers, CommitIndexing(w), pkg'[p] # pkg[p]
       PROVE  exec[w].to = p /\ pkg'[p] = [pkg[p] EXCEPT !.qdrant_indexed = TRUE]
  BY <1>1, <1>11 DEF CommitIndexing
\* The new row has the columns of a row.
<1>12. ASSUME NEW s \in PackageStatus, NEW I \in SUBSET Items, NEW n \in Nat
       PROVE  /\ [pkg[p] EXCEPT !.status = s] \in PackageRow
              /\ [pkg[p] EXCEPT !.items = I, !.item_count = n] \in PackageRow
              /\ [pkg[p] EXCEPT !.status = s, !.items = I, !.item_count = n] \in PackageRow
              /\ [pkg[p] EXCEPT !.qdrant_indexed = TRUE] \in PackageRow
  BY <1>1 DEF PackageRow
<1>13. ASSUME NEW k \in Nat PROVE Max({0, k - 1}) \in Nat
  <2>1. PICK S : S = {0, k - 1}
    OBVIOUS
  <2>2. \E m \in S : \A x \in S : m >= x
    <3>1. CASE k = 0
      BY <2>1, <3>1
    <3>2. CASE k # 0
      BY <2>1, <3>2
    <3> QED
      BY <3>1, <3>2
  <2>3. Max(S) \in S /\ \A x \in S : Max(S) >= x
    BY <2>2 DEF Max
  <2> QED
    BY <2>1, <2>3
<1>14. \A found \in SUBSET {"curated"} : Cardinality(found) \in Nat /\ found \subseteq Items
  BY ItemsCounted DEF Items
<1>15. pkg'[p] \in PackageRow
  <2>1. CASE pkg'[p] = pkg[p]
    BY <1>1, <2>1
  <2>2. ASSUME NEW r \in Reqs, WriteCuration(r) \/ WriteBump(r), pkg'[p] # pkg[p]
        PROVE  pkg'[p] \in PackageRow
    <3>1. \E s \in PackageStatus : pkg'[p] = [pkg[p] EXCEPT !.status = s]
      BY <1>5, <1>8, <2>2 DEF PackageStatus
    <3> QED
      BY <1>1, <1>2, <1>12, <3>1
  <2>3. ASSUME NEW r \in Reqs, WriteAdd(r) \/ WriteRemove(r), pkg'[p] # pkg[p]
        PROVE  pkg'[p] \in PackageRow
    <3>1. \E I \in SUBSET Items, n \in Nat : pkg'[p] = [pkg[p] EXCEPT !.items = I, !.item_count = n]
      <4>1. CASE WriteAdd(r)
        <5>1. PICK n \in Notes \ pkg[p].items :
                  pkg'[p] = [pkg[p] EXCEPT !.items = @ \cup {n}, !.item_count = req[r].mem[1] + 1]
          BY <1>6, <2>3, <4>1
        <5>2. pkg[p].items \cup {n} \in SUBSET Items /\ req[r].mem[1] + 1 \in Nat
          <6>1. req[r].mem[1] \in Nat
            BY <1>6, <2>3, <4>1
          <6>2. n \in Items
            BY DEF Items
          <6>3. PICK k \in Nat : k = req[r].mem[1]
            BY <6>1
          <6> QED
            BY <1>2, <6>2, <6>3
        <5> QED
          BY <5>1, <5>2
      <4>2. CASE WriteRemove(r)
        <5>1. pkg[p].items \ {req[r].mem[2]} \in SUBSET Items /\ Max({0, req[r].mem[1] - 1}) \in Nat
          BY <1>2, <1>7, <1>13, <2>3, <4>2
        <5> QED
          BY <1>7, <2>3, <4>2, <5>1
      <4> QED
        BY <2>3, <4>1, <4>2
    <3> QED
      BY <1>12, <3>1 DEF PackageStatus
  <2>4. ASSUME NEW w \in Workers, CommitCuration(w), pkg'[p] # pkg[p]
        PROVE  pkg'[p] \in PackageRow
    <3>1. PICK found \in SUBSET {"curated"} :
              pkg'[p] = [pkg[p] EXCEPT !.status = "READY",
                                       !.items = IF found = {} THEN @ ELSE (@ \cap Notes) \cup found,
                                       !.item_count = Cardinality(found) + exec[w].mem]
      BY <1>9, <2>4
    <3>2. Cardinality(found) + exec[w].mem \in Nat
      <4>1. PICK k \in Nat : k = Cardinality(found)
        BY <1>14
      <4>2. PICK n \in Nat : n = exec[w].mem
        BY <1>9, <2>4
      <4> QED
        BY <4>1, <4>2
    <3>3. (IF found = {} THEN pkg[p].items ELSE (pkg[p].items \cap Notes) \cup found) \in SUBSET Items
      <4>1. found \subseteq Items
        BY <1>14
      <4> QED
        BY <1>2, <4>1
    <3>4. PICK I : I = IF found = {} THEN pkg[p].items ELSE (pkg[p].items \cap Notes) \cup found
      OBVIOUS
    <3>5. PICK n : n = Cardinality(found) + exec[w].mem
      OBVIOUS
    <3>6. I \in SUBSET Items /\ n \in Nat /\ "READY" \in PackageStatus
      BY <3>2, <3>3, <3>4, <3>5 DEF PackageStatus
    <3>7. pkg'[p] = [pkg[p] EXCEPT !.status = "READY", !.items = I, !.item_count = n]
      BY <3>1, <3>4, <3>5
    <3> QED
      BY <1>1, <3>6, <3>7 DEF PackageRow
  <2>5. ASSUME NEW w \in Workers, ResetPackage(w) \/ CommitIndexing(w), pkg'[p] # pkg[p]
        PROVE  pkg'[p] \in PackageRow
    BY <1>2, <1>10, <1>11, <1>12, <2>5 DEF PackageStatus
  <2> QED
    BY <2>1, <2>2, <2>3, <2>4, <2>5
    DEF PackageNext, PackageRequest, PackageTask, DispatchCuration, AddItem, RemoveItem, Reading,
        DispatchIndexing, WriteIndexing, BumpSyllabus, StartCuration, StartIndexing, FailCuration, FailIndexing
<1> QED
  BY <1>4, <1>5, <1>6, <1>7, <1>8, <1>9, <1>10, <1>11, <1>15
  DEF PackageNext, PackageRequest, PackageTask, DispatchCuration, AddItem, RemoveItem, Reading,
      DispatchIndexing, WriteIndexing, BumpSyllabus, StartCuration, StartIndexing, FailCuration, FailIndexing

\* A request begins with what it read of its package, writes, or asks for a task.
LEMMA PackageRequests ==
    ASSUME NEW V, PackageShape(V), NEW r \in Reqs, PackageRequest(r)
    PROVE  \/ \E o \in PackageOps, d \in Packages \cup {None} : \E x :
                 /\ Begin(r, o, d, x) /\ UNCHANGED pkg
                 /\ mixed' = mixed \/ mixed' = mixed \cup {d}
                 /\ o \in {"add", "remove"} =>
                       /\ d \in Packages
                       /\ \E i \in Items \cup {None} : x = <<pkg[d].item_count, i>> /\ (o = "remove" => i \in pkg[d].items)
                       /\ Curating(d) => d \in mixed'
                 /\ o \notin {"add", "remove"} => x = None
                 /\ o = "index" => d \in Packages /\ pkg[d].status = "READY"
           \/ (WriteAdd(r) \/ WriteRemove(r) \/ WriteBump(r)) /\ End(r)
           \/ WriteIndexing(r)
           \/ WriteCuration(r)
<1>1. CASE DispatchCuration(r) \/ BumpSyllabus(r)
  BY <1>1 DEF DispatchCuration, BumpSyllabus, PackageOps
<1>2. ASSUME NEW p \in Packages, AddItem(r, p)
      PROVE  \E i \in Items \cup {None} : /\ Begin(r, "add", p, <<pkg[p].item_count, i>>) /\ UNCHANGED pkg
                                          /\ mixed' = IF Curating(p) THEN mixed \cup {p} ELSE mixed
  BY <1>2 DEF AddItem, Reading
<1>3. ASSUME NEW p \in Packages, RemoveItem(r, p)
      PROVE  \E i \in pkg[p].items : /\ Begin(r, "remove", p, <<pkg[p].item_count, i>>) /\ UNCHANGED pkg
                                     /\ mixed' = IF Curating(p) THEN mixed \cup {p} ELSE mixed
  BY <1>3 DEF RemoveItem, Reading
<1>6. \A p \in Packages : pkg[p].items \subseteq Items
  BY DEF PackageShape, PackageRow
<1>4. ASSUME NEW p \in Packages, DispatchIndexing(r, p)
      PROVE  Begin(r, "index", p, None) /\ UNCHANGED <<pkg, mixed>> /\ pkg[p].status = "READY"
  BY <1>4 DEF DispatchIndexing
<1>5. CASE WriteAdd(r) \/ WriteRemove(r) \/ WriteBump(r)
  BY <1>5 DEF WriteAdd, WriteRemove, WriteBump
<1> QED
  <2>1. CASE \E p \in Packages : AddItem(r, p)
    <3>1. PICK p \in Packages : AddItem(r, p)
      BY <2>1
    <3>2. PICK i \in Items \cup {None} : /\ Begin(r, "add", p, <<pkg[p].item_count, i>>) /\ UNCHANGED pkg
                                         /\ mixed' = IF Curating(p) THEN mixed \cup {p} ELSE mixed
      BY <1>2, <3>1
    <3> QED
      BY <3>2 DEF PackageOps
  <2>2. CASE \E p \in Packages : RemoveItem(r, p)
    <3>1. PICK p \in Packages : RemoveItem(r, p)
      BY <2>2
    <3>2. PICK i \in pkg[p].items : /\ Begin(r, "remove", p, <<pkg[p].item_count, i>>) /\ UNCHANGED pkg
                                    /\ mixed' = IF Curating(p) THEN mixed \cup {p} ELSE mixed
      BY <1>3, <3>1
    <3>3. i \in Items \cup {None}
      BY <1>6
    <3> QED
      BY <3>2, <3>3 DEF PackageOps
  <2>3. CASE \E p \in Packages : DispatchIndexing(r, p)
    BY <1>4, <2>3 DEF PackageOps
  <2> QED
    BY <1>1, <1>5, <2>1, <2>2, <2>3 DEF PackageRequest

\* The shape is kept.
LEMMA PackageShapeStep ==
    ASSUME NEW V, PackageShape(V), PackageSafe, PackageNext, NEW W, W = V \cup PackageWords
    PROVE  PackageShape(W)'
<1>1. BackendShape(W, Packages)
  BY ShapeGrows DEF PackageShape
<1>2. /\ Words(Packages) \subseteq W
      /\ PackageOps \cup Curation \cup Indexing \cup Nat \cup (Nat \X (Items \cup {None})) \subseteq W
      /\ None \in W /\ {"running", "failed"} \subseteq W
      /\ \A m \in Slots : Cardinality(pkg[msg[m].to].items \cap Notes) \in W
  BY DEF PackageWords, Words
<1>3. pkg \in [Packages -> PackageRow] /\ \A p \in Packages : pkg[p].items \subseteq Items /\ pkg[p].item_count \in Nat
  BY DEF PackageShape, PackageRow
<1>4. pkg' \in [Packages -> PackageRow]
  <2> DEFINE Mapped == pkg' = [p \in Packages |-> pkg'[p]]
  <2>3. pkg = [p \in Packages |-> pkg[p]]
    BY <1>3
  <2>4. ASSUME NEW q, NEW x, pkg' = [pkg EXCEPT ![q].status = x] \/ pkg' = [pkg EXCEPT ![q].qdrant_indexed = x]
        PROVE  Mapped
    BY <2>3, <2>4
  <2>1. Mapped
    <3>1. UNCHANGED pkg => Mapped
      BY <2>3
    <3>2. ASSUME NEW r \in Reqs, WriteCuration(r) PROVE Mapped
      BY <2>4, <3>2 DEF WriteCuration
    <3>3. ASSUME NEW r \in Reqs, WriteAdd(r) PROVE Mapped
      BY <2>3, <3>3 DEF WriteAdd
    <3>4. ASSUME NEW r \in Reqs, WriteRemove(r) PROVE Mapped
      BY <2>3, <3>4 DEF WriteRemove
    <3>5. ASSUME NEW r \in Reqs, WriteBump(r) PROVE Mapped
      BY <3>5 DEF WriteBump
    <3>6. ASSUME NEW w \in Workers, CommitCuration(w) PROVE Mapped
      BY <2>3, <3>6 DEF CommitCuration
    <3>7. ASSUME NEW w \in Workers, ResetPackage(w) PROVE Mapped
      BY <2>3, <2>4, <3>7 DEF ResetPackage
    <3>8. ASSUME NEW w \in Workers, CommitIndexing(w) PROVE Mapped
      BY <2>4, <3>8 DEF CommitIndexing
    <3> HIDE DEF Mapped
    <3>9. ASSUME NEW r \in Reqs, PackageRequest(r) PROVE Mapped
      BY <3>1, <3>2, <3>3, <3>4, <3>5, <3>9
      DEF PackageRequest, DispatchCuration, AddItem, RemoveItem, Reading, DispatchIndexing, WriteIndexing, BumpSyllabus
    <3>10. ASSUME NEW w \in Workers, PackageTask(w) PROVE Mapped
      BY <3>1, <3>6, <3>7, <3>8, <3>10 DEF PackageTask, StartCuration, StartIndexing, FailCuration, FailIndexing
    <3> QED
      BY <3>1, <3>9, <3>10 DEF PackageNext
  <2>2. \A p \in Packages : pkg'[p] \in PackageRow
    BY PackageColumns
  <2> QED
    BY <2>1, <2>2
<1>5. ASSUME NEW r \in Reqs, PackageRequest(r), UNCHANGED queue
      PROVE  BackendShape(W, Packages)'
  <2>1. req[r].on \in Packages \cup {None}
    BY <1>1 DEF BackendShape
  <2>2. \/ \E o \in W, d \in Packages \cup {None}, x \in W : Begin(r, o, d, x)
        \/ End(r)
        \/ \E d \in Packages \cup {None}, t \in W : EndPublishing(r, d, t)
    <3>1. ASSUME NEW o \in PackageOps, NEW d \in Packages \cup {None}, NEW x, Begin(r, o, d, x),
                 /\ o \in {"add", "remove"} =>
                       d \in Packages /\ \E i \in Items \cup {None} : x = <<pkg[d].item_count, i>>
                 /\ o \notin {"add", "remove"} => x = None
          PROVE  \E y \in W, z \in W : Begin(r, y, d, z)
      <4>1. x \in W
        <5>1. CASE o \in {"add", "remove"}
          <6>1. x \in Nat \X (Items \cup {None})
            BY <1>3, <3>1, <5>1
          <6> QED
            BY <1>2, <6>1
        <5> QED
          BY <1>2, <3>1, <5>1
      <4> QED
        BY <1>2, <3>1, <4>1
    <3>2. CASE WriteIndexing(r)
      BY <1>2, <2>1, <3>2 DEF WriteIndexing, Indexing
    <3>3. CASE WriteCuration(r)
      BY <1>2, <3>3 DEF WriteCuration, FreshPackage, Curation
    <3> QED
      BY <1>5, <3>1, <3>2, <3>3, PackageRequests
  <2> QED
    BY <1>1, <1>2, <1>5, <2>2, RequestShape
<1>6. ASSUME NEW w \in Workers, PackageTask(w), UNCHANGED <<req, raced>>
      PROVE  BackendShape(W, Packages)'
  <2>1. ASSUME NEW m \in Slots, StartCuration(w, m) \/ StartIndexing(w, m)
        PROVE  \E t \in W, p \in W, x \in W : Take(w, m, t, p, x)
    <3>1. CASE StartIndexing(w, m)
      BY <1>2, <3>1 DEF StartIndexing, Indexing
    <3>2. CASE StartCuration(w, m)
      <4>1. PICK x : x = Cardinality(pkg[msg[m].to].items \cap Notes)
        OBVIOUS
      <4>2. \E p \in {"running", "failed"} : Take(w, m, "curate_learning_package", p, x)
        BY <3>2, <4>1 DEF StartCuration
      <4>3. x \in W /\ "curate_learning_package" \in W
        BY <1>2, <4>1 DEF Curation
      <4> QED
        BY <1>2, <4>2, <4>3
    <3> QED
      BY <2>1, <3>1, <3>2
  <2>2. \/ \E m \in Slots, t \in W, p \in W, x \in W : Take(w, m, t, p, x)
        \/ \E p \in W, x \in W : Goto(w, p, x) /\ UNCHANGED msg
        \/ Finish(w)
        \/ Retry(w)
    BY <1>2, <1>6, <2>1
    DEF PackageTask, CommitCuration, FailCuration, ResetPackage, CommitIndexing, FailIndexing
  <2> QED
    BY <1>1, <1>2, <1>6, <2>2, TaskShape
<1> QED
  BY <1>1, <1>2, <1>4, <1>5, <1>6, EnvironmentShape DEF PackageNext, PackageShape

\* What a step does to the messages' tasks, and who may curate.
LEMMA PackageSoleKeeps ==
    ASSUME NEW V, PackageShape(V), PackageSafe, PackageNext
    PROVE  /\ again \subseteq again' /\ mixed \subseteq mixed' /\ (raced => raced')
           /\ Sole(Curation, Packages)'
           /\ \A p \in Packages : Occupied(Curation, p)' =>
                 Occupied(Curation, p) \/ (pkg[p].status = "NONE" /\ pkg'[p].status = "PENDING")
<1>1. BackendShape(V, Packages) /\ Sole(Curation, Packages) /\ None \notin Packages
  BY PackageNames DEF PackageShape, PackageSafe
<1>2. ASSUME NEW r \in Reqs, PackageRequest(r), UNCHANGED queue
      PROVE  /\ again \subseteq again' /\ mixed \subseteq mixed' /\ (raced => raced')
             /\ Sole(Curation, Packages)'
             /\ \A p \in Packages : Occupied(Curation, p)' =>
                   Occupied(Curation, p) \/ (pkg[p].status = "NONE" /\ pkg'[p].status = "PENDING")
  <2>1. UNCHANGED <<msg, exec, again>>
    BY <1>2 DEF queue
  <2>2. ASSUME NEW o \in PackageOps, NEW d, NEW x, Begin(r, o, d, x) PROVE Calm(Curation, Packages) /\ (raced => raced')
    <3>1. o # "publish"
      BY DEF PackageOps
    <3>2. raced => raced'
      BY <2>2 DEF Begin
    <3> QED
      BY <1>1, <1>2, <2>2, <3>1, <3>2, RequestSole
  <2>3. CASE (WriteAdd(r) \/ WriteRemove(r) \/ WriteBump(r)) /\ End(r)
    <3>1. Calm(Curation, Packages)
      BY <1>1, <1>2, <2>3, RequestSole
    <3> QED
      BY <2>1, <2>3, <3>1 DEF Calm, WriteAdd, WriteRemove, WriteBump, End
  <2>4. CASE WriteIndexing(r)
    <3>1. EndPublishing(r, req[r].on, "index_package_rag") /\ req[r].op # "publish" /\ "index_package_rag" \notin Curation
      BY <2>4 DEF WriteIndexing, Curation
    <3>2. Sole(Curation, Packages)' /\ \A e \in Packages : Occupied(Curation, e)' => Occupied(Curation, e)
      BY <1>1, <1>2, <3>1, PublishingSole
    <3> QED
      BY <2>1, <2>4, <3>2 DEF WriteIndexing, EndPublishing
  <2>5. CASE WriteCuration(r)
    <3>1. PICK p \in FreshPackage : /\ pkg' = [pkg EXCEPT ![p].status = "PENDING"]
                                    /\ EndPublishing(r, p, "curate_learning_package")
      BY <2>5 DEF WriteCuration
    <3>2. p \in Packages /\ pkg[p].status = "NONE" /\ req[r].op # "publish" /\ pkg'[p].status = "PENDING"
      BY <2>5, <3>1 DEF WriteCuration, FreshPackage, PackageShape, PackageRow
    <3>3. p \notin again => ~Occupied(Curation, p)
      BY <3>2 DEF PackageSafe, PackageGood
    <3>5. PICK t : t = "curate_learning_package"
      OBVIOUS
    <3>6. EndPublishing(r, p, t)
      BY <3>1, <3>5
    <3>7. t \in Curation /\ p \in Packages \ again => ~Occupied(Curation, p)
      BY <3>3
    <3>8. UNCHANGED queue /\ req[r].op # "publish"
      BY <1>2, <3>2
    <3>9. Sole(Curation, Packages)'
      BY <1>1, <3>6, <3>7, <3>8, PublishingSole
    <3>10. \A e \in Packages : Occupied(Curation, e)' => Occupied(Curation, e) \/ (e = p /\ t \in Curation)
      BY <1>1, <3>6, <3>7, <3>8, PublishingSole, Zenon
    <3>4. \A e \in Packages : Occupied(Curation, e)' => Occupied(Curation, e) \/ e = p
      BY <3>10
    <3> QED
      BY <2>1, <2>5, <3>1, <3>2, <3>4, <3>9 DEF WriteCuration, EndPublishing
  <2>6. CASE \E o \in PackageOps, d \in Packages \cup {None} : \E x :
                Begin(r, o, d, x) /\ (mixed' = mixed \/ mixed' = mixed \cup {d})
    BY <2>1, <2>2, <2>6 DEF Calm
  <2> QED
    BY <1>2, <2>3, <2>4, <2>5, <2>6, PackageRequests DEF PackageShape
<1>3. ASSUME NEW w \in Workers, PackageTask(w), UNCHANGED <<req, raced>>
      PROVE  again \subseteq again' /\ mixed \subseteq mixed' /\ Calm(Curation, Packages)
  <2>1. \/ \E m \in Slots : \E t, p, x : Take(w, m, t, p, x) /\ UNCHANGED again
        \/ (\E p, x : Goto(w, p, x)) /\ UNCHANGED <<msg, again>>
        \/ Finish(w)
        \/ Retry(w)
    BY <1>3
    DEF PackageTask, StartCuration, StartIndexing, CommitCuration, FailCuration, ResetPackage, CommitIndexing, FailIndexing
  <2>2. again \subseteq again'
    BY <2>1 DEF Finish, Retry
  <2>3. mixed \subseteq mixed'
    BY <1>3
    DEF PackageTask, StartCuration, StartIndexing, CommitCuration, FailCuration, ResetPackage, CommitIndexing, FailIndexing
  <2> QED
    BY <1>1, <1>3, <2>1, <2>2, <2>3, TaskSole
<1>4. ASSUME Environment, UNCHANGED <<pkg, mixed>>
      PROVE  again \subseteq again' /\ Calm(Curation, Packages) /\ (raced => raced')
  <2>1. again \subseteq again' /\ (raced => raced')
    BY <1>4 DEF Environment, Publish, End, Abandon, WorkerCrash, ProcessLost, Redeliver
  <2> QED
    BY <1>1, <1>4, <2>1, EnvironmentSole
<1> QED
  BY <1>2, <1>3, <1>4 DEF PackageNext, Calm

\* A task that curates a package, and is not repeated, finds it PENDING.
LEMMA CurationPending ==
    ASSUME PackageSafe, NEW p \in Packages \ again, NEW w \in Workers, exec[w].to = p, exec[w].task \in Curation
    PROVE  pkg[p].status = "PENDING"
<1>1. Carries(Curation, exec[w].slot, p) /\ exec[w].slot \in Slots
  BY DEF PackageSafe, Sole, Holding
<1> QED
  BY <1>1 DEF PackageSafe, PackageGood, Occupied

\* Packages stay good, and what was READY stays so.
LEMMA PackageGoodKeeps ==
    ASSUME NEW V, PackageShape(V), PackageSafe, PackageNext, NEW p \in Packages
    PROVE  PackageGood(p)' /\ (Indexable(p) => Indexable(p)')
<1>1. /\ again \subseteq again'
      /\ Occupied(Curation, p)' => Occupied(Curation, p) \/ (pkg[p].status = "NONE" /\ pkg'[p].status = "PENDING")
  BY PackageSoleKeeps
<1>2. PackageGood(p) /\ pkg[p] \in PackageRow
  BY DEF PackageSafe, PackageShape
<1>3. CASE pkg'[p] = pkg[p]
  BY <1>1, <1>2, <1>3 DEF PackageGood, Indexable
<1>4. ASSUME NEW s, pkg'[p] = [pkg[p] EXCEPT !.status = s]
      PROVE  /\ pkg'[p].status = s /\ pkg'[p].items = pkg[p].items
             /\ pkg'[p].qdrant_indexed = pkg[p].qdrant_indexed
  BY <1>2, <1>4 DEF PackageRow
<1>5. CASE pkg[p].status = "NONE" /\ pkg'[p] = [pkg[p] EXCEPT !.status = "PENDING"]
  <2>1. /\ pkg'[p].status = "PENDING" /\ pkg'[p].items = pkg[p].items
        /\ pkg'[p].qdrant_indexed = pkg[p].qdrant_indexed
    BY <1>4, <1>5
  <2> QED
    BY <1>1, <1>2, <1>5, <2>1 DEF PackageGood, Indexable
<1>6. ASSUME NEW r \in Reqs, NEW n \in Notes, NEW k,
             pkg'[p] = [pkg[p] EXCEPT !.items = @ \cup {n}, !.item_count = k]
      PROVE  PackageGood(p)' /\ (Indexable(p) => Indexable(p)')
  <2>1. /\ pkg'[p].status = pkg[p].status /\ pkg'[p].items = pkg[p].items \cup {n}
        /\ pkg'[p].qdrant_indexed = pkg[p].qdrant_indexed
    BY <1>2, <1>6 DEF PackageRow
  <2> QED
    BY <1>1, <1>2, <2>1 DEF PackageGood, Indexable
<1>7. ASSUME NEW i, NEW k, pkg'[p] = [pkg[p] EXCEPT !.items = @ \ {i}, !.item_count = k]
      PROVE  PackageGood(p)' /\ (Indexable(p) => Indexable(p)')
  <2>1. /\ pkg'[p].status = pkg[p].status /\ pkg'[p].items \subseteq pkg[p].items
        /\ pkg'[p].qdrant_indexed = pkg[p].qdrant_indexed
    BY <1>2, <1>7 DEF PackageRow
  <2> QED
    BY <1>1, <1>2, <2>1 DEF PackageGood, Indexable
<1>8. CASE pkg[p].status = "READY" /\ pkg'[p] = [pkg[p] EXCEPT !.status = "OUTDATED"]
  <2>1. /\ pkg'[p].status = "OUTDATED" /\ pkg'[p].items = pkg[p].items
        /\ pkg'[p].qdrant_indexed = pkg[p].qdrant_indexed
    BY <1>4, <1>8
  <2> QED
    BY <1>1, <1>2, <1>8, <2>1 DEF PackageGood, Indexable
<1>9. ASSUME NEW w \in Workers, CommitCuration(w), exec[w].to = p, UNCHANGED req, NEW I, NEW k,
             pkg'[p] = [pkg[p] EXCEPT !.status = "READY", !.items = I, !.item_count = k]
      PROVE  PackageGood(p)' /\ (Indexable(p) => Indexable(p)')
  <2>1. pkg'[p].status = "READY" /\ pkg'[p].qdrant_indexed = pkg[p].qdrant_indexed
    BY <1>2, <1>9 DEF PackageRow
  <2>2. p \notin again' => ~Occupied(Curation, p)'
    <3>1. again' = again /\ msg' = Acked(w)
      BY <1>9 DEF CommitCuration, Finish
    <3>2. SUFFICES ASSUME p \notin again PROVE ~Occupied(Curation, p)'
      BY <3>1
    <3>3. PICK m : m = exec[w].slot
      OBVIOUS
    <3>4. m \in Slots /\ msg[m].at = w /\ Carries(Curation, m, p)
      BY <1>9, <3>2, <3>3 DEF CommitCuration, In, Curation, PackageSafe, Sole, Holding
    <3>5. (\A r \in Reqs : ~Asks(Curation, r, p)) /\ \A n \in Slots : Carries(Curation, n, p) => n = m
      BY <3>2, <3>4 DEF PackageSafe, Sole, Once
    <3>6. msg'[m] = NoMsg /\ \A n \in Slots \ {m} : msg'[n] = msg[n]
      BY <3>1, <3>3, <3>4 DEF Acked, PackageShape, BackendShape
    <3>7. ~Carries(Curation, m, p)'
      BY <3>6, PackageNames DEF Carries, Queued, NoMsg
    <3> QED
      BY <1>9, <3>5, <3>6, <3>7 DEF Occupied, Asks, Asking, Carries, Queued
  <2> QED
    BY <1>1, <1>2, <2>1, <2>2 DEF PackageGood, Indexable
<1>10. ASSUME NEW w \in Workers, ResetPackage(w), exec[w].to = p, pkg'[p] = [pkg[p] EXCEPT !.status = "PENDING"]
       PROVE  PackageGood(p)' /\ (Indexable(p) => Indexable(p)')
  <2>1. /\ pkg'[p].status = "PENDING" /\ pkg'[p].items = pkg[p].items
        /\ pkg'[p].qdrant_indexed = pkg[p].qdrant_indexed
    BY <1>4, <1>10
  <2>2. CASE p \in again'
    BY <1>2, <2>1, <2>2 DEF PackageGood, Indexable
  <2>3. CASE p \notin again'
    <3>1. p \in Packages \ again /\ exec[w].task \in Curation
      BY <1>1, <1>10, <2>3 DEF ResetPackage, In, Curation
    <3>2. pkg[p].status = "PENDING"
      BY <1>10, <3>1, CurationPending
    <3> QED
      BY <1>1, <1>2, <2>1, <3>2 DEF PackageGood, Indexable
  <2> QED
    BY <2>2, <2>3
<1>11. ASSUME NEW w \in Workers, CommitIndexing(w), exec[w].to = p, pkg'[p] = [pkg[p] EXCEPT !.qdrant_indexed = TRUE]
       PROVE  PackageGood(p)' /\ (Indexable(p) => Indexable(p)')
  <2>1. pkg'[p].status = pkg[p].status /\ pkg'[p].items = pkg[p].items
    BY <1>2, <1>11 DEF PackageRow
  <2>2. Indexable(p)
    BY <1>11 DEF CommitIndexing, In, Indexing, PackageSafe, PackageExecSound
  <2> QED
    BY <1>1, <1>2, <2>1, <2>2 DEF PackageGood, Indexable
<1>12. ASSUME NEW r \in Reqs, WriteAdd(r),
              \E n \in Notes \ pkg[p].items :
                 pkg'[p] = [pkg[p] EXCEPT !.items = @ \cup {n}, !.item_count = req[r].mem[1] + 1]
       PROVE  PackageGood(p)' /\ (Indexable(p) => Indexable(p)')
  <2>1. PICK k : k = req[r].mem[1] + 1
    OBVIOUS
  <2>2. \E n \in Notes : pkg'[p] = [pkg[p] EXCEPT !.items = @ \cup {n}, !.item_count = k]
    BY <1>12, <2>1
  <2> QED
    BY <1>6, <2>2
<1>13. ASSUME NEW r \in Reqs, WriteRemove(r),
              pkg'[p] = [pkg[p] EXCEPT !.items = @ \ {req[r].mem[2]}, !.item_count = Max({0, req[r].mem[1] - 1})]
       PROVE  PackageGood(p)' /\ (Indexable(p) => Indexable(p)')
  <2>1. PICK k, i : k = Max({0, req[r].mem[1] - 1}) /\ i = req[r].mem[2]
    OBVIOUS
  <2>2. pkg'[p] = [pkg[p] EXCEPT !.items = @ \ {i}, !.item_count = k]
    BY <1>13, <2>1
  <2> QED
    BY <1>7, <2>2
<1>14. ASSUME NEW w \in Workers, CommitCuration(w), exec[w].to = p, UNCHANGED req,
              \E found \in SUBSET {"curated"} :
                 pkg'[p] = [pkg[p] EXCEPT !.status = "READY",
                                          !.items = IF found = {} THEN @ ELSE (@ \cap Notes) \cup found,
                                          !.item_count = Cardinality(found) + exec[w].mem]
       PROVE  PackageGood(p)' /\ (Indexable(p) => Indexable(p)')
  <2>1. PICK found : pkg'[p] = [pkg[p] EXCEPT !.status = "READY",
                                              !.items = IF found = {} THEN @ ELSE (@ \cap Notes) \cup found,
                                              !.item_count = Cardinality(found) + exec[w].mem]
    BY <1>14
  <2>2. PICK I, k : /\ I = (IF found = {} THEN pkg[p].items ELSE (pkg[p].items \cap Notes) \cup found)
                    /\ k = Cardinality(found) + exec[w].mem
    OBVIOUS
  <2>3. pkg'[p] = [pkg[p] EXCEPT !.status = "READY", !.items = I, !.item_count = k]
    BY <2>1, <2>2
  <2> QED
    BY <1>9, <1>14, <2>3
<1>15. PackageNext /\ PackageSafe /\ PackageShape(V)
  OBVIOUS
<1> QED
  BY <1>3, <1>5, <1>8, <1>10, <1>11, <1>12, <1>13, <1>14, <1>15, PackageColumns

\* Requests, messages and tasks still find what they rely on.
LEMMA PackageSoundKeeps ==
    ASSUME NEW V, PackageShape(V), PackageSafe, PackageNext
    PROVE  /\ \A r \in Reqs : PackageReqSound(r)'
           /\ \A m \in Slots : PackageMsgSound(m)'
           /\ \A w \in Workers : PackageExecSound(w)'
<1>1. BackendShape(V, Packages)
  BY DEF PackageShape
<1>2. \A p \in Packages : Indexable(p) => Indexable(p)'
  BY PackageGoodKeeps
<1>3. ASSUME NEW r \in Reqs, req'[r] = req[r] PROVE PackageReqSound(r)'
  BY <1>2, <1>3 DEF PackageSafe, PackageReqSound, Asks, Asking
<1>4. ASSUME NEW r \in Reqs, req'[r] = NoReq PROVE PackageReqSound(r)'
  BY <1>4, PackageNames, BackendAssumption DEF PackageReqSound, Asks, Asking, NoReq
<1>5. ASSUME NEW m \in Slots, msg'[m].to = msg[m].to, msg'[m].task = msg[m].task PROVE PackageMsgSound(m)'
  BY <1>2, <1>5 DEF PackageSafe, PackageMsgSound, Carries, Queued
<1>6. ASSUME NEW m \in Slots, msg'[m] = NoMsg PROVE PackageMsgSound(m)'
  BY <1>6, PackageNames DEF PackageMsgSound, Carries, Queued, NoMsg
<1>7. ASSUME NEW w \in Workers, exec'[w] = exec[w] PROVE PackageExecSound(w)'
  BY <1>2, <1>7 DEF PackageSafe, PackageExecSound, In
<1>8. ASSUME NEW w \in Workers, exec'[w] = Idle PROVE PackageExecSound(w)'
  BY <1>8, PackageNames DEF PackageExecSound, In, Idle
<1>9. ASSUME NEW r \in Reqs, PackageRequest(r), UNCHANGED queue
      PROVE  /\ \A s \in Reqs : PackageReqSound(s)'
             /\ UNCHANGED <<msg, exec>>
  <2>1. UNCHANGED <<msg, exec>>
    BY <1>9 DEF queue
  <2>2. ASSUME NEW o \in PackageOps, NEW d \in Packages \cup {None}, NEW x, Begin(r, o, d, x),
               o \in {"add", "remove"} => d \in Packages /\ \E i : x = <<pkg[d].item_count, i>>,
               o = "index" => d \in Packages /\ pkg[d].status = "READY"
        PROVE  \A s \in Reqs : PackageReqSound(s)'
    <3>1. /\ req'[r].op = o /\ req'[r].on = d /\ req'[r].mem = x
          /\ \A s \in Reqs \ {r} : req'[s] = req[s]
      BY <1>1, <2>2 DEF Begin, BackendShape, NoReq
    <3>2. o # "publish"
      BY DEF PackageOps
    <3>3. o \in {"add", "remove"} => d \in Packages /\ x[1] \in Nat
      BY <2>2 DEF PackageShape, PackageRow
    <3>4. o = "index" => Indexable(d)'
      BY <1>2, <2>2 DEF Indexable
    <3>5. PackageReqSound(r)'
      BY <3>1, <3>2, <3>3, <3>4, <2>2 DEF PackageReqSound, Asks, Asking
    <3> QED
      BY <1>3, <3>1, <3>5
  <2>3. CASE End(r)
    <3>1. req'[r] = NoReq /\ \A s \in Reqs \ {r} : req'[s] = req[s]
      BY <1>1, <2>3 DEF End, BackendShape
    <3> QED
      BY <1>3, <1>4, <2>1, <3>1
  <2>7. None \notin Packages
    BY PackageNames
  <2>4. ASSUME NEW d, NEW t, EndPublishing(r, d, t), t \in Indexing => d \in Packages /\ Indexable(d)
        PROVE  \A s \in Reqs : PackageReqSound(s)'
    <3>1. PICK n : n = [NoReq EXCEPT !.op = "publish", !.on = d, !.task = t]
      OBVIOUS
    <3>2. n.op = "publish" /\ n.on = d /\ n.task = t
      BY <3>1 DEF NoReq
    <3>3. req'[r] = n /\ \A s \in Reqs \ {r} : req'[s] = req[s]
      BY <1>1, <2>4, <3>1 DEF EndPublishing, BackendShape
    <3>5. n.op \notin {"add", "remove", "index"}
      BY <3>2
    <3>6. \A p \in Packages : Asks(Indexing, r, p)' => p = d /\ t \in Indexing
      BY <3>2, <3>3 DEF Asks, Asking
    <3>4. PackageReqSound(r)'
      BY <1>2, <2>4, <3>3, <3>5, <3>6 DEF PackageReqSound
    <3> QED
      BY <1>3, <3>3, <3>4
  <2>5. CASE WriteIndexing(r)
    <3>1. EndPublishing(r, req[r].on, "index_package_rag") /\ req[r].op = "index" /\ PackageReqSound(r)
      BY <2>5 DEF WriteIndexing, PackageSafe
    <3>2. req[r].on \in Packages /\ Indexable(req[r].on)
      BY <3>1 DEF PackageReqSound
    <3> QED
      BY <2>1, <2>4, <3>1, <3>2
  <2>6. CASE WriteCuration(r)
    <3>1. PICK p : EndPublishing(r, p, "curate_learning_package")
      BY <2>6 DEF WriteCuration
    <3>2. "curate_learning_package" \notin Indexing
      BY DEF Indexing
    <3> QED
      BY <2>1, <2>4, <3>1, <3>2
  <2> QED
    BY <1>9, <2>1, <2>2, <2>3, <2>5, <2>6, PackageRequests
<1>10. ASSUME NEW w \in Workers, PackageTask(w), UNCHANGED <<req, raced>>
       PROVE  /\ \A m \in Slots : PackageMsgSound(m)'
              /\ \A v \in Workers : PackageExecSound(v)'
  <2>1. ASSUME NEW m \in Slots, NEW t, NEW p, NEW x, Take(w, m, t, p, x),
               msg[m].to \in Packages /\ t = "curate_learning_package" /\ p = "running" => x \in Nat
        PROVE  /\ \A n \in Slots : PackageMsgSound(n)'
               /\ \A v \in Workers : PackageExecSound(v)'
    <3>1. /\ exec'[w].task = t /\ exec'[w].phase = p /\ exec'[w].mem = x /\ exec'[w].to = msg[m].to
          /\ \A v \in Workers \ {w} : exec'[v] = exec[v]
          /\ \A n \in Slots : msg'[n].to = msg[n].to /\ msg'[n].task = msg[n].task
          /\ msg[m].task = t
      BY <1>1, <2>1 DEF Take, BackendShape
    <3>2. PackageExecSound(w)'
      BY <1>2, <2>1, <3>1 DEF PackageExecSound, In, PackageSafe, PackageMsgSound, Carries, Queued
    <3> QED
      BY <1>5, <1>7, <3>1, <3>2
  <2>2. ASSUME NEW x, Goto(w, "failed", x), UNCHANGED msg
        PROVE  /\ \A n \in Slots : PackageMsgSound(n)'
               /\ \A v \in Workers : PackageExecSound(v)'
    <3>1. /\ exec'[w].task = exec[w].task /\ exec'[w].phase = "failed" /\ exec'[w].to = exec[w].to
          /\ \A v \in Workers \ {w} : exec'[v] = exec[v]
      BY <1>1, <2>2 DEF Goto, BackendShape
    <3>2. PackageExecSound(w)'
      BY <1>2, <3>1 DEF PackageExecSound, In, PackageSafe
    <3> QED
      BY <1>5, <1>7, <2>2, <3>1, <3>2
  <2>3. CASE Finish(w)
    <3>1. exec'[w] = Idle /\ \A v \in Workers \ {w} : exec'[v] = exec[v]
      BY <1>1, <2>3 DEF Finish, BackendShape
    <3>2. \A n \in Slots : msg'[n] = msg[n] \/ msg'[n] = NoMsg
      BY <1>1, <2>3 DEF Finish, Acked, BackendShape
    <3> QED
      BY <1>5, <1>6, <1>7, <1>8, <3>1, <3>2
  <2>4. CASE Retry(w)
    <3>1. exec'[w] = Idle /\ \A v \in Workers \ {w} : exec'[v] = exec[v]
      BY <1>1, <2>4 DEF Retry, BackendShape
    <3>2. \A n \in Slots : msg'[n].to = msg[n].to /\ msg'[n].task = msg[n].task
      BY <1>1, <2>4 DEF Retry, BackendShape
    <3> QED
      BY <1>5, <1>7, <1>8, <3>1, <3>2
  <2>5. ASSUME NEW m \in Slots, StartCuration(w, m)
        PROVE  \E p, x : /\ Take(w, m, "curate_learning_package", p, x)
                         /\ msg[m].to \in Packages => x \in Nat
    <3>1. msg[m].to \in Packages => Cardinality(pkg[msg[m].to].items \cap Notes) \in Nat
      <4>1. ASSUME msg[m].to \in Packages PROVE pkg[msg[m].to].items \cap Notes \subseteq Items
        BY DEF Items
      <4> QED
        BY <4>1, ItemsCounted
    <3> QED
      BY <2>5, <3>1 DEF StartCuration
  <2>6. ASSUME NEW m \in Slots, StartIndexing(w, m)
        PROVE  Take(w, m, "index_package_rag", "running", None)
    BY <2>6 DEF StartIndexing
  <2> QED
    BY <1>10, <2>1, <2>2, <2>3, <2>4, <2>5, <2>6
    DEF PackageTask, CommitCuration, FailCuration, ResetPackage, CommitIndexing, FailIndexing
<1>11. ASSUME Environment
       PROVE  /\ \A r \in Reqs : PackageReqSound(r)'
              /\ \A m \in Slots : PackageMsgSound(m)'
              /\ \A w \in Workers : PackageExecSound(w)'
  <2>1. \A r \in Reqs : req'[r] = req[r] \/ req'[r] = NoReq
    BY <1>1, <1>11 DEF Environment, Publish, End, Abandon, WorkerCrash, ProcessLost, Redeliver, BackendShape
  <2>2. \A w \in Workers : exec'[w] = exec[w] \/ exec'[w] = Idle
    BY <1>1, <1>11 DEF Environment, Publish, Abandon, WorkerCrash, ProcessLost, Redeliver, BackendShape
  <2>3. \A m \in Slots :
            \/ msg'[m] = NoMsg
            \/ msg'[m].to = msg[m].to /\ msg'[m].task = msg[m].task
            \/ \E r \in Reqs : req[r].op = "publish" /\ msg'[m].to = req[r].on /\ msg'[m].task = req[r].task
    <3>1. ASSUME NEW r \in Reqs, Publish(r)
          PROVE  \E n \in Slots : /\ req[r].op = "publish" /\ msg'[n].to = req[r].on /\ msg'[n].task = req[r].task
                                  /\ \A m \in Slots \ {n} : msg'[m] = msg[m]
      <4>1. PICK n \in Slots : msg' = [msg EXCEPT ![n] = [task |-> req[r].task, to |-> req[r].on,
                                                         at |-> "queued", tries |-> 0]]
        BY <3>1 DEF Publish
      <4> QED
        BY <1>1, <3>1, <4>1 DEF Publish, BackendShape
    <3>2. ASSUME NEW r \in Reqs, Abandon(r) PROVE UNCHANGED msg
      BY <3>2 DEF Abandon
    <3>3. ASSUME NEW w \in Workers, WorkerCrash(w) \/ ProcessLost(w)
          PROVE  \A m \in Slots : msg'[m] = NoMsg \/ msg'[m] = msg[m]
      BY <1>1, <3>3 DEF WorkerCrash, ProcessLost, Acked, BackendShape
    <3>4. ASSUME NEW n \in Slots, Redeliver(n)
          PROVE  \A m \in Slots : msg'[m].to = msg[m].to /\ msg'[m].task = msg[m].task
      BY <1>1, <3>4 DEF Redeliver, BackendShape
    <3> QED
      BY <1>11, <3>1, <3>2, <3>3, <3>4 DEF Environment
  <2>4. ASSUME NEW m \in Slots, NEW r \in Reqs,
               req[r].op = "publish" /\ msg'[m].to = req[r].on /\ msg'[m].task = req[r].task
        PROVE  PackageMsgSound(m)'
    BY <1>2, <2>4 DEF PackageSafe, PackageReqSound, PackageMsgSound, Asks, Asking, Carries, Queued
  <2> QED
    BY <1>3, <1>4, <1>5, <1>6, <1>7, <1>8, <2>1, <2>2, <2>3, <2>4
<1> QED
  BY <1>3, <1>5, <1>7, <1>9, <1>10, <1>11 DEF PackageNext

\* What a step leaves of the counts: the items and the count of a package, what
\* requests on it read, and what curations of it did.
LEMMA CountedRest ==
    ASSUME NEW p \in Packages, Counted(p),
           pkg'[p].items = pkg[p].items, pkg'[p].item_count = pkg[p].item_count,
           \A r \in Reqs : req'[r].op \in {"add", "remove"} /\ req'[r].on = p => req'[r] = req[r],
           \A w \in Workers : exec'[w].to = p /\ In(w, "curate_learning_package", "running")' => exec'[w] = exec[w]
    PROVE  Counted(p)'
<1>1. ASSUME NEW r \in Reqs, req'[r].op \in {"add", "remove"}, req'[r].on = p
      PROVE  /\ req'[r].mem[1] = pkg'[p].item_count
             /\ req'[r].op = "remove" => req'[r].mem[2] \in pkg'[p].items
             /\ req'[r] = req[r]
  BY <1>1 DEF Counted
<1>2. ASSUME NEW w \in Workers, exec'[w].to = p, In(w, "curate_learning_package", "running")'
      PROVE  /\ exec'[w].mem = Cardinality(pkg'[p].items \cap Notes)
             /\ exec[w].to = p /\ In(w, "curate_learning_package", "running")
  BY <1>2 DEF Counted, In
<1>3. ASSUME NEW w \in Workers, exec'[w].to = p, In(w, "curate_learning_package", "running")',
             NEW r \in Reqs, req'[r].op \in {"add", "remove"}, req'[r].on = p
      PROVE  FALSE
  <2>1. req[r].op \in {"add", "remove"} /\ req[r].on = p
    BY <1>1, <1>3
  <2>2. exec[w].to = p /\ In(w, "curate_learning_package", "running")
    BY <1>2, <1>3
  <2> QED
    BY <2>1, <2>2 DEF Counted
<1>4. pkg'[p].item_count = Cardinality(pkg'[p].items)
  BY DEF Counted
<1> QED
  BY <1>1, <1>2, <1>3, <1>4 DEF Counted

\* A count that was right is right after a step of a request.
LEMMA RequestCounted ==
    ASSUME NEW V, PackageShape(V), PackageSafe, PackageNext, AllCounted, ~raced, ~raced',
           NEW r \in Reqs, PackageRequest(r), UNCHANGED queue
    PROVE  AllCounted'
<1>1. BackendShape(V, Packages) /\ pkg \in [Packages -> PackageRow] /\ \A p \in Packages : pkg[p].items \subseteq Items
  BY DEF PackageShape, PackageRow
<1>2. UNCHANGED <<msg, exec, again>> /\ Solo
  BY DEF queue, AllCounted
<1>3. again \subseteq again' /\ mixed \subseteq mixed'
  BY PackageSoleKeeps
<1>4. \A p \in Packages \ (again' \cup mixed') : Counted(p)
  BY <1>3 DEF AllCounted
<1>5. ASSUME NEW o \in PackageOps, NEW d \in Packages \cup {None}, NEW x, Begin(r, o, d, x), UNCHANGED pkg,
             o \in {"add", "remove"} =>
                /\ d \in Packages
                /\ \E i \in Items \cup {None} : x = <<pkg[d].item_count, i>> /\ (o = "remove" => i \in pkg[d].items)
                /\ Curating(d) => d \in mixed'
      PROVE  AllCounted'
  <2>1. /\ req'[r].op = o /\ req'[r].on = d /\ req'[r].mem = x
        /\ \A s \in Reqs \ {r} : req'[s] = req[s]
    BY <1>1, <1>5 DEF Begin, BackendShape, NoReq
  <2>2. \A s \in Reqs \ {r} : ~Active(s)
    BY <1>5 DEF Begin, Active
  <2>3. \A s \in Reqs : req'[s].op \in {"add", "remove"} => s = r
    BY <2>1, <2>2, BackendAssumption, PackageNames DEF Active
  <2>4. Solo'
    BY <2>1, <2>2 DEF Solo, Active
  <2>5. ASSUME NEW p \in Packages \ (again' \cup mixed') PROVE Counted(p)'
    <3>1. CASE o \in {"add", "remove"} /\ d = p
      <4>1. x[1] = pkg[p].item_count /\ (o = "remove" => x[2] \in pkg[p].items)
        BY <1>5, <3>1
      <4>2. \A w \in Workers : ~(exec[w].to = p /\ In(w, "curate_learning_package", "running"))
        BY <1>5, <2>5, <3>1 DEF Curating
      <4>3. pkg'[p].item_count = Cardinality(pkg'[p].items)
        BY <1>4, <1>5, <2>5 DEF Counted
      <4>4. \A w \in Workers : ~(exec'[w].to = p /\ In(w, "curate_learning_package", "running")')
        BY <1>2, <4>2 DEF In
      <4>5. \A s \in Reqs : req'[s].op \in {"add", "remove"} /\ req'[s].on = p =>
                /\ req'[s].mem[1] = pkg'[p].item_count
                /\ req'[s].op = "remove" => req'[s].mem[2] \in pkg'[p].items
        BY <1>5, <2>1, <2>3, <4>1
      <4> QED
        BY <4>3, <4>4, <4>5 DEF Counted
    <3>2. CASE ~(o \in {"add", "remove"} /\ d = p)
      <4>1. \A s \in Reqs : req'[s].op \in {"add", "remove"} /\ req'[s].on = p => req'[s] = req[s]
        BY <2>1, <3>2
      <4> QED
        BY <1>2, <1>4, <1>5, <2>5, <4>1, CountedRest
    <3> QED
      BY <3>1, <3>2
  <2> QED
    BY <2>4, <2>5 DEF AllCounted
\* Afterwards no request is between its check and its write.
<1>6. ASSUME Active(r), ~Active(r)', \A s \in Reqs \ {r} : req'[s] = req[s]
      PROVE  Solo' /\ \A s \in Reqs : req'[s].op \notin {"add", "remove"}
  <2>1. \A s \in Reqs : ~Active(s)'
    BY <1>2, <1>6 DEF Solo, Active
  <2> QED
    BY <2>1, BackendAssumption, PackageNames DEF Solo, Active
<1>7. ASSUME End(r), req[r].op \in PackageOps
      PROVE  Solo' /\ \A s \in Reqs : req'[s].op \notin {"add", "remove"}
  <2>1. Active(r)
    BY <1>7, PackageNames DEF Active, PackageOps
  <2>2. req'[r].op = None /\ \A s \in Reqs \ {r} : req'[s] = req[s]
    BY <1>1, <1>7 DEF End, BackendShape, NoReq
  <2> QED
    BY <1>6, <2>1, <2>2 DEF Active
<1>8. CASE WriteAdd(r)
  <2>1. End(r) /\ req[r].op = "add" /\ "add" \in PackageOps
    BY <1>8 DEF WriteAdd, PackageOps
  <2>2. Solo' /\ \A s \in Reqs : req'[s].op \notin {"add", "remove"}
    BY <1>7, <2>1
  <2>3. PICK n \in Notes \ pkg[req[r].on].items :
            pkg' = [pkg EXCEPT ![req[r].on].items = @ \cup {n}, ![req[r].on].item_count = req[r].mem[1] + 1]
    BY <1>8 DEF WriteAdd
  <2>4. ASSUME NEW p \in Packages \ (again' \cup mixed') PROVE Counted(p)'
    <3>1. CASE req[r].on = p
      <4>1. /\ req[r].mem[1] = pkg[p].item_count /\ pkg[p].item_count = Cardinality(pkg[p].items)
            /\ n \notin pkg[p].items
        BY <1>4, <2>1, <2>3, <2>4, <3>1 DEF Counted
      <4>2. pkg'[p] = [pkg[p] EXCEPT !.items = @ \cup {n}, !.item_count = req[r].mem[1] + 1]
        BY <1>1, <2>3, <3>1
      <4>3. PICK k : k = req[r].mem[1] + 1
        OBVIOUS
      <4>4. pkg'[p].items = pkg[p].items \cup {n} /\ pkg'[p].item_count = k
        BY <1>1, <4>2, <4>3 DEF PackageRow
      <4>5. Cardinality(pkg[p].items \cup {n}) = k
        BY <1>1, <4>1, <4>3, ItemsCounted
      <4>6. \A w \in Workers : ~(exec'[w].to = p /\ In(w, "curate_learning_package", "running")')
        BY <1>2, <1>8, <3>1 DEF WriteAdd, Curating, In
      <4> QED
        BY <2>2, <4>4, <4>5, <4>6 DEF Counted
    <3>2. CASE req[r].on # p
      <4>1. pkg'[p] = pkg[p]
        BY <1>1, <2>3, <3>2
      <4> QED
        BY <1>2, <1>4, <2>2, <2>4, <4>1, CountedRest
    <3> QED
      BY <3>1, <3>2
  <2> QED
    BY <2>2, <2>4 DEF AllCounted
<1>9. CASE WriteRemove(r)
  <2>1. End(r) /\ req[r].op = "remove" /\ "remove" \in PackageOps
    BY <1>9 DEF WriteRemove, PackageOps
  <2>2. Solo' /\ \A s \in Reqs : req'[s].op \notin {"add", "remove"}
    BY <1>7, <2>1
  <2>3. pkg' = [pkg EXCEPT ![req[r].on].items = @ \ {req[r].mem[2]},
                           ![req[r].on].item_count = Max({0, req[r].mem[1] - 1})]
    BY <1>9 DEF WriteRemove
  <2>4. ASSUME NEW p \in Packages \ (again' \cup mixed') PROVE Counted(p)'
    <3>1. CASE req[r].on = p
      <4>1. /\ req[r].mem[1] = Cardinality(pkg[p].items)
            /\ req[r].mem[2] \in pkg[p].items
        BY <1>4, <2>1, <2>4, <3>1 DEF Counted
      <4>2. pkg'[p] = [pkg[p] EXCEPT !.items = @ \ {req[r].mem[2]}, !.item_count = Max({0, req[r].mem[1] - 1})]
        BY <1>1, <2>3, <3>1
      <4>3. PICK k : k = Max({0, req[r].mem[1] - 1})
        OBVIOUS
      <4>4. pkg'[p].items = pkg[p].items \ {req[r].mem[2]} /\ pkg'[p].item_count = k
        BY <1>1, <4>2, <4>3 DEF PackageRow
      <4>5. Cardinality(pkg[p].items \ {req[r].mem[2]}) = k
        BY <1>1, <4>1, <4>3, ItemsCounted
      <4>6. \A w \in Workers : ~(exec'[w].to = p /\ In(w, "curate_learning_package", "running")')
        BY <1>2, <1>9, <3>1 DEF WriteRemove, Curating, In
      <4> QED
        BY <2>2, <4>4, <4>5, <4>6 DEF Counted
    <3>2. CASE req[r].on # p
      <4>1. pkg'[p] = pkg[p]
        BY <1>1, <2>3, <3>2
      <4> QED
        BY <1>2, <1>4, <2>2, <2>4, <4>1, CountedRest
    <3> QED
      BY <3>1, <3>2
  <2> QED
    BY <2>2, <2>4 DEF AllCounted
<1>10. ASSUME Solo', \A s \in Reqs : req'[s].op \notin {"add", "remove"},
              \A p \in Packages : pkg'[p].items = pkg[p].items /\ pkg'[p].item_count = pkg[p].item_count
       PROVE  AllCounted'
  <2>1. ASSUME NEW p \in Packages \ (again' \cup mixed') PROVE Counted(p)'
    BY <1>2, <1>4, <1>10, <2>1, CountedRest
  <2> QED
    BY <1>10, <2>1 DEF AllCounted
<1>11. CASE WriteBump(r)
  <2>1. End(r) /\ req[r].op = "bump" /\ "bump" \in PackageOps
    BY <1>11 DEF WriteBump, PackageOps
  <2>2. ASSUME NEW p \in Packages PROVE pkg'[p].items = pkg[p].items /\ pkg'[p].item_count = pkg[p].item_count
    <3>1. pkg'[p] = pkg[p] \/ pkg'[p] = [pkg[p] EXCEPT !.status = "OUTDATED"]
      BY <1>11 DEF WriteBump
    <3> QED
      BY <1>1, <3>1 DEF PackageRow
  <2> QED
    BY <1>7, <1>10, <2>1, <2>2
<1>12. ASSUME NEW d, NEW t, EndPublishing(r, d, t), req[r].op \in PackageOps
       PROVE  Solo' /\ \A s \in Reqs : req'[s].op \notin {"add", "remove"}
  <2>1. Active(r)
    BY <1>12, PackageNames DEF Active, PackageOps
  <2>2. PICK n : n = [NoReq EXCEPT !.op = "publish", !.on = d, !.task = t]
    OBVIOUS
  <2>3. n.op = "publish"
    BY <2>2 DEF NoReq
  <2>4. req'[r].op = "publish" /\ \A s \in Reqs \ {r} : req'[s] = req[s]
    BY <1>1, <1>12, <2>2, <2>3 DEF EndPublishing, BackendShape
  <2> QED
    BY <1>6, <2>1, <2>4 DEF Active
<1>13. CASE WriteIndexing(r)
  BY <1>10, <1>12, <1>13 DEF WriteIndexing, PackageOps
<1>14. CASE WriteCuration(r)
  <2>1. PICK q : pkg' = [pkg EXCEPT ![q].status = "PENDING"] /\ EndPublishing(r, q, "curate_learning_package")
    BY <1>14 DEF WriteCuration
  <2>2. ASSUME NEW p \in Packages PROVE pkg'[p].items = pkg[p].items /\ pkg'[p].item_count = pkg[p].item_count
    <3>1. pkg'[p] = pkg[p] \/ pkg'[p] = [pkg[p] EXCEPT !.status = "PENDING"]
      BY <1>1, <2>1
    <3> QED
      BY <1>1, <3>1 DEF PackageRow
  <2>3. req[r].op \in PackageOps
    BY <1>14 DEF WriteCuration, PackageOps
  <2> QED
    BY <1>10, <1>12, <2>1, <2>2, <2>3
<1> QED
  BY <1>5, <1>8, <1>9, <1>11, <1>13, <1>14, PackageRequests

\* And after a step of a task.
LEMMA TaskCounted ==
    ASSUME NEW V, PackageShape(V), PackageSafe, PackageNext, AllCounted,
           NEW w \in Workers, PackageTask(w), UNCHANGED <<req, raced>>
    PROVE  AllCounted'
<1>1. BackendShape(V, Packages) /\ pkg \in [Packages -> PackageRow] /\ \A p \in Packages : pkg[p].items \subseteq Items
  BY DEF PackageShape, PackageRow
<1>2. again \subseteq again' /\ mixed \subseteq mixed'
  BY PackageSoleKeeps
<1>3. SUFFICES ASSUME NEW p \in Packages \ (again' \cup mixed') PROVE Counted(p)'
  BY DEF AllCounted, Solo, Active
<1>4. Counted(p) /\ p \in Packages \ again
  BY <1>2 DEF AllCounted
<1>5. ASSUME \A v \in Workers \ {w} : exec'[v] = exec[v],
             ~(exec'[w].to = p /\ In(w, "curate_learning_package", "running")'),
             pkg'[p].items = pkg[p].items, pkg'[p].item_count = pkg[p].item_count
      PROVE  Counted(p)'
  <2>1. \A v \in Workers : exec'[v].to = p /\ In(v, "curate_learning_package", "running")' => exec'[v] = exec[v]
    BY <1>5
  <2> QED
    BY <1>4, <1>5, <2>1, CountedRest
<1>6. ASSUME Finish(w) \/ Retry(w)
      PROVE  /\ \A v \in Workers \ {w} : exec'[v] = exec[v]
             /\ ~(exec'[w].to = p /\ In(w, "curate_learning_package", "running")')
  <2>1. exec' = [exec EXCEPT ![w] = Idle]
    BY <1>6 DEF Finish, Retry
  <2>2. exec'[w] = Idle /\ \A v \in Workers \ {w} : exec'[v] = exec[v]
    BY <1>1, <2>1 DEF BackendShape
  <2> QED
    BY <2>2, PackageNames DEF Idle
<1>7. CASE FailCuration(w)
  <2>1. exec'[w].phase = "failed" /\ \A v \in Workers \ {w} : exec'[v] = exec[v]
    BY <1>1, <1>7 DEF FailCuration, Goto, BackendShape
  <2> QED
    BY <1>5, <1>7, <2>1 DEF FailCuration, In
<1>8. CASE ResetPackage(w) \/ CommitIndexing(w) \/ FailIndexing(w)
  <2>1. /\ Finish(w) \/ Retry(w)
        /\ \/ pkg' = pkg
           \/ pkg' = [pkg EXCEPT ![exec[w].to].status = "PENDING"]
           \/ pkg' = [pkg EXCEPT ![exec[w].to].qdrant_indexed = TRUE]
    BY <1>8 DEF ResetPackage, CommitIndexing, FailIndexing
  <2>2. \/ pkg'[p] = pkg[p] \/ pkg'[p] = [pkg[p] EXCEPT !.status = "PENDING"]
        \/ pkg'[p] = [pkg[p] EXCEPT !.qdrant_indexed = TRUE]
    BY <1>1, <2>1
  <2>3. pkg'[p].items = pkg[p].items /\ pkg'[p].item_count = pkg[p].item_count
    BY <1>1, <2>2 DEF PackageRow
  <2> QED
    BY <1>5, <1>6, <2>1, <2>3
<1>9. ASSUME NEW m \in Slots, NEW t, NEW f, NEW x, Take(w, m, t, f, x)
      PROVE  /\ exec'[w].to = msg[m].to /\ exec'[w].task = t /\ exec'[w].phase = f /\ exec'[w].mem = x
             /\ \A v \in Workers \ {w} : exec'[v] = exec[v]
  BY <1>1, <1>9 DEF Take, BackendShape
<1>10. ASSUME NEW m \in Slots, StartIndexing(w, m) PROVE Counted(p)'
  <2>1. exec'[w].task = "index_package_rag" /\ (\A v \in Workers \ {w} : exec'[v] = exec[v]) /\ UNCHANGED pkg
    BY <1>9, <1>10 DEF StartIndexing
  <2> QED
    BY <1>5, <2>1 DEF In
<1>11. ASSUME NEW m \in Slots, StartCuration(w, m) PROVE Counted(p)'
  <2>1. PICK f, x : /\ Take(w, m, "curate_learning_package", f, x)
                    /\ x = Cardinality(pkg[msg[m].to].items \cap Notes)
    BY <1>11 DEF StartCuration
  <2>2. /\ exec'[w].to = msg[m].to /\ exec'[w].mem = x /\ UNCHANGED pkg
        /\ \A v \in Workers \ {w} : exec'[v] = exec[v]
    BY <1>9, <1>11, <2>1 DEF StartCuration
  <2>3. CASE msg[m].to # p
    BY <1>5, <2>2, <2>3
  <2>4. CASE msg[m].to = p
    <3>1. \A r \in Reqs : req[r].on # p
      BY <1>11, <2>4 DEF StartCuration
    <3>2. \A v \in Workers \ {w} : ~(exec'[v].to = p /\ In(v, "curate_learning_package", "running")')
      BY <1>11, <2>2, <2>4 DEF StartCuration, Curating, In
    <3>3. pkg'[p].item_count = Cardinality(pkg'[p].items) /\ exec'[w].mem = Cardinality(pkg'[p].items \cap Notes)
      BY <1>4, <2>1, <2>2, <2>4 DEF Counted
    <3>4. \A r \in Reqs : req'[r].on # p
      BY <3>1
    <3> QED
      BY <3>2, <3>3, <3>4 DEF Counted
  <2> QED
    BY <2>3, <2>4
<1>12. CASE CommitCuration(w)
  <2>1. PICK found \in SUBSET {"curated"} :
            pkg' = [pkg EXCEPT ![exec[w].to].status = "READY",
                               ![exec[w].to].items = IF found = {} THEN @ ELSE (@ \cap Notes) \cup found,
                               ![exec[w].to].item_count = Cardinality(found) + exec[w].mem]
    BY <1>12 DEF CommitCuration
  <2>2. Finish(w) /\ In(w, "curate_learning_package", "running")
    BY <1>12 DEF CommitCuration
  <2>3. CASE exec[w].to # p
    <3>1. pkg'[p] = pkg[p]
      BY <1>1, <2>1, <2>3
    <3> QED
      BY <1>5, <1>6, <2>2, <3>1
  <2>4. CASE exec[w].to = p
    <3>1. /\ exec[w].mem = Cardinality(pkg[p].items \cap Notes)
          /\ \A r \in Reqs : req[r].op \in {"add", "remove"} => req[r].on # p
      BY <1>4, <2>2, <2>4 DEF Counted
    <3>2. PICK I, k : /\ I = (IF found = {} THEN pkg[p].items ELSE (pkg[p].items \cap Notes) \cup found)
                      /\ k = Cardinality(found) + exec[w].mem
      OBVIOUS
    <3>3. pkg'[p] = [pkg[p] EXCEPT !.status = "READY", !.items = I, !.item_count = k]
      BY <1>1, <2>1, <2>4, <3>2
    <3>4. pkg'[p].items = I /\ pkg'[p].item_count = k
      BY <1>1, <3>3 DEF PackageRow
    <3>5. Cardinality(I) = k
      <4>1. CASE found = {}
        <5>1. exec[w].task \in Curation
          BY <2>2 DEF In, Curation
        <5>2. pkg[p].status = "PENDING"
          BY <1>4, <2>4, <5>1, CurationPending
        <5>3. pkg[p].items \cap Notes = pkg[p].items
          BY <1>4, <5>2 DEF PackageSafe, PackageGood
        <5>4. Cardinality({}) = 0 /\ Cardinality(pkg[p].items) \in Nat
          BY <1>1, FS_EmptySet, ItemsCounted
        <5>5. I = pkg[p].items /\ k = 0 + exec[w].mem
          BY <3>2, <4>1, <5>4
        <5>6. exec[w].mem = Cardinality(pkg[p].items)
          BY <3>1, <5>3
        <5> QED
          BY <5>4, <5>5, <5>6
      <4>2. CASE found = {"curated"}
        <5>1. "curated" \notin pkg[p].items \cap Notes /\ pkg[p].items \cap Notes \subseteq Items
          BY <1>1, PackagesAssumption
        <5>2. Cardinality((pkg[p].items \cap Notes) \cup {"curated"}) = Cardinality(pkg[p].items \cap Notes) + 1
          BY <5>1, ItemsCounted
        <5>3. Cardinality({"curated"}) = 1 /\ Cardinality(pkg[p].items \cap Notes) \in Nat
          BY <5>1, FS_Singleton, ItemsCounted
        <5> QED
          BY <3>1, <3>2, <4>2, <5>2, <5>3
      <4> QED
        BY <4>1, <4>2
    <3>6. ASSUME NEW v \in Workers \ {w} PROVE ~(exec[v].to = p /\ In(v, "curate_learning_package", "running"))
      <4>1. SUFFICES ASSUME exec[v].to = p, In(v, "curate_learning_package", "running") PROVE FALSE
        OBVIOUS
      <4>2. exec[v].task \in Curation /\ exec[w].task \in Curation
        BY <2>2, <4>1 DEF In, Curation
      <4>3. PICK m \in Slots, n \in Slots : /\ msg[m].at = w /\ Carries(Curation, m, p)
                                            /\ msg[n].at = v /\ Carries(Curation, n, p)
        BY <1>4, <2>4, <4>1, <4>2 DEF PackageSafe, Sole, Holding
      <4>4. m = n
        BY <1>4, <4>3 DEF PackageSafe, Sole, Once
      <4> QED
        BY <4>3, <4>4
    <3>7. \A v \in Workers : ~(exec'[v].to = p /\ In(v, "curate_learning_package", "running")')
      BY <1>6, <2>2, <3>6 DEF In
    <3>8. \A r \in Reqs : ~(req'[r].op \in {"add", "remove"} /\ req'[r].on = p)
      BY <3>1
    <3> QED
      BY <3>4, <3>5, <3>7, <3>8 DEF Counted
  <2> QED
    BY <2>3, <2>4
<1> QED
  BY <1>7, <1>8, <1>10, <1>11, <1>12 DEF PackageTask

\* Nothing is asked for at the start.
LEMMA PackageInitHolds == PackageInit => PackageInv
<1> SUFFICES ASSUME PackageInit PROVE PackageInv
  OBVIOUS
<1>1. /\ req = [r \in Reqs |-> NoReq] /\ msg = [m \in Slots |-> NoMsg] /\ exec = [w \in Workers |-> Idle]
      /\ pkg = [p \in Packages |-> NoPackage]
  BY DEF PackageInit, BackendInit
<1>2. PackageShape(Words(Packages))
  <2>1. BackendShape(Words(Packages), Packages)
    BY BackendAssumption DEF PackageInit, BackendInit, BackendShape, Words, NoReq, NoMsg, Idle
  <2>2. NoPackage \in PackageRow
    BY DEF NoPackage, PackageRow
  <2> QED
    BY <1>1, <2>1, <2>2 DEF PackageShape
<1>3. /\ \A r \in Reqs : req[r].op = None /\ req[r].on = None
      /\ \A m \in Slots : msg[m].to = None
      /\ \A w \in Workers : exec[w].to = None /\ exec[w].task = None
      /\ \A p \in Packages : /\ pkg[p].status = "NONE" /\ pkg[p].items = {} /\ pkg[p].item_count = 0
                             /\ ~pkg[p].qdrant_indexed
  BY <1>1 DEF NoReq, NoMsg, Idle, NoPackage
<1>4. None \notin Packages /\ None \notin {"curate", "index", "add", "remove", "bump"} /\ None # "publish"
  BY BackendAssumption, PackageNames
<1>5. ASSUME NEW T, NEW p \in Packages
      PROVE  (\A r \in Reqs : ~Asks(T, r, p)) /\ \A m \in Slots : ~Carries(T, m, p)
  BY <1>3, <1>4 DEF Asks, Asking, Carries, Queued
<1>12. \A p \in Packages : /\ \A r \in Reqs : ~Asks(Curation, r, p) /\ ~Asks(Indexing, r, p)
                           /\ \A m \in Slots : ~Carries(Curation, m, p) /\ ~Carries(Indexing, m, p)
  BY <1>5
<1>6. Sole(Curation, Packages)
  BY <1>3, <1>4, <1>12 DEF Sole, Once, Holding
<1>7. \A p \in Packages : PackageGood(p)
  BY <1>3, <1>12 DEF PackageGood, Occupied
<1>8. \A r \in Reqs : PackageReqSound(r)
  BY <1>3, <1>4, <1>12 DEF PackageReqSound
<1>9. \A m \in Slots : PackageMsgSound(m)
  BY <1>12 DEF PackageMsgSound
<1>10. \A w \in Workers : PackageExecSound(w)
  BY <1>3, <1>4 DEF PackageExecSound
<1>11. AllCounted
  <2>1. ASSUME NEW p \in Packages PROVE Counted(p)
    BY <1>3, <1>4, FS_EmptySet DEF Counted
  <2> QED
    BY <1>3, <2>1 DEF AllCounted, Solo, Active
<1> QED
  BY <1>2, <1>6, <1>7, <1>8, <1>9, <1>10, <1>11 DEF PackageInv, PackageSafe

\* A failure or a delivery leaves the counts alone.
LEMMA EnvironmentCounted ==
    ASSUME NEW V, PackageShape(V), PackageSafe, PackageNext, AllCounted, Environment, UNCHANGED <<pkg, mixed>>
    PROVE  AllCounted'
<1>1. BackendShape(V, Packages)
  BY DEF PackageShape
<1>2. again \subseteq again'
  BY PackageSoleKeeps
<1>3. \A r \in Reqs : req'[r] = req[r] \/ req'[r] = NoReq
  BY <1>1 DEF Environment, Publish, End, Abandon, WorkerCrash, ProcessLost, Redeliver, BackendShape
<1>4. \A w \in Workers : exec'[w] = exec[w] \/ exec'[w] = Idle
  BY <1>1 DEF Environment, Publish, Abandon, WorkerCrash, ProcessLost, Redeliver, BackendShape
<1>5. \A r \in Reqs : req'[r] = req[r] \/ req'[r].op = None
  BY <1>3 DEF NoReq
<1>6. \A r \in Reqs : req'[r].op \in {"add", "remove"} => req'[r] = req[r]
  BY <1>5, PackageNames
<1>7. \A w \in Workers, p \in Packages : exec'[w].to = p => exec'[w] = exec[w]
  BY <1>4, PackageNames DEF Idle
<1>8. Solo'
  BY <1>5 DEF AllCounted, Solo, Active
<1>9. ASSUME NEW p \in Packages \ (again' \cup mixed') PROVE Counted(p)'
  BY <1>2, <1>6, <1>7, <1>9, CountedRest DEF AllCounted
<1> QED
  BY <1>8, <1>9 DEF AllCounted

\* The invariant is kept.
LEMMA PackageNextHolds ==
    ASSUME PackageInv, [PackageNext]_pkgVars
    PROVE  PackageInv'
<1>1. CASE UNCHANGED pkgVars
  <2>1. UNCHANGED <<pkg, mixed, req, msg, exec, again, raced, faults, lost>>
    BY <1>1 DEF pkgVars, backend, queue
  <2>2. ASSUME NEW V PROVE PackageShape(V)' <=> PackageShape(V)
    BY <2>1 DEF PackageShape, BackendShape
  <2>3. Sole(Curation, Packages)' <=> Sole(Curation, Packages)
    BY <2>1 DEF Sole, Once, Holding, Asks, Asking, Carries, Queued
  <2>4. \A p \in Packages : PackageGood(p)' <=> PackageGood(p)
    BY <2>1 DEF PackageGood, Indexable, Occupied, Asks, Asking, Carries, Queued
  <2>5. \A r \in Reqs : PackageReqSound(r)' <=> PackageReqSound(r)
    BY <2>1 DEF PackageReqSound, Indexable, Asks, Asking
  <2>6. \A m \in Slots : PackageMsgSound(m)' <=> PackageMsgSound(m)
    BY <2>1 DEF PackageMsgSound, Indexable, Carries, Queued
  <2>7. \A w \in Workers : PackageExecSound(w)' <=> PackageExecSound(w)
    BY <2>1 DEF PackageExecSound, Indexable, In
  <2>8. AllCounted' <=> AllCounted
    BY <2>1 DEF AllCounted, Solo, Active, Counted, In
  <2>9. (\E V : PackageShape(V))'
    BY <2>2 DEF PackageInv
  <2> QED
    BY <2>1, <2>3, <2>4, <2>5, <2>6, <2>7, <2>8, <2>9 DEF PackageInv, PackageSafe
<1>2. CASE PackageNext
  <2>1. PICK V : PackageShape(V)
    BY DEF PackageInv
  <2>2. PackageSafe
    BY DEF PackageInv
  <2>3. \E W : PackageShape(W)'
    <3>1. PICK W : W = V \cup PackageWords
      OBVIOUS
    <3> QED
      BY <1>2, <2>1, <2>2, <3>1, PackageShapeStep
  <2>4. PackageSafe'
    <3>1. Sole(Curation, Packages)'
      BY <1>2, <2>1, <2>2, PackageSoleKeeps
    <3>2. \A p \in Packages : PackageGood(p)'
      BY <1>2, <2>1, <2>2, PackageGoodKeeps
    <3>3. /\ \A r \in Reqs : PackageReqSound(r)'
          /\ \A m \in Slots : PackageMsgSound(m)'
          /\ \A w \in Workers : PackageExecSound(w)'
      BY <1>2, <2>1, <2>2, PackageSoundKeeps
    <3> QED
      BY <3>1, <3>2, <3>3 DEF PackageSafe
  <2>5. (raced \/ AllCounted)'
    <3>1. CASE raced'
      BY <3>1
    <3>2. CASE ~raced'
      <4>1. ~raced
        BY <1>2, <2>1, <2>2, <3>2, PackageSoleKeeps
      <4>2. AllCounted
        BY <4>1 DEF PackageInv
      <4> QED
        BY <1>2, <2>1, <2>2, <3>2, <4>1, <4>2, RequestCounted, TaskCounted, EnvironmentCounted DEF PackageNext
    <3> QED
      BY <3>1, <3>2
  <2> QED
    BY <2>3, <2>4, <2>5 DEF PackageInv
<1> QED
  BY <1>1, <1>2

\* item_count counts the items of a package unless requests, or one and the curation,
\* overlapped or the curation was repeated, and only what was READY is indexed.
THEOREM ItemCountAlways == PackageSpec => []ItemCountRight
<1>1. PackageInv => ItemCountRight
  BY DEF PackageInv, PackageSafe, PackageGood, Indexable, AllCounted, Counted, ItemCountRight
<1> QED
  BY <1>1, PackageInitHolds, PackageNextHolds, PTL DEF PackageSpec

\* Without repetition a step makes a package, or releases one.
LEMMA PackageMoves ==
    ASSUME NEW V, PackageShape(V), PackageSafe, PackageNext
    PROVE  \/ \A p \in Packages : PackageStage(p)' \in {PackageStage(p), "open"}
           \/ \E p \in Packages : /\ \A q \in Packages \ {p} : PackageStage(q)' = PackageStage(q)
                                  /\ \/ PackageStage(p) = "absent" /\ PackageStage(p)' = "draft"
                                     \/ PackageStage(p) = "draft" /\ PackageStage(p)' = "released"
<1>1. pkg \in [Packages -> PackageRow] /\ again \subseteq again'
  BY PackageSoleKeeps DEF PackageShape
<1>2. ASSUME NEW p \in Packages, p \notin again', pkg'[p].status = pkg[p].status
      PROVE  PackageStage(p)' = PackageStage(p)
  BY <1>1, <1>2 DEF PackageStage
<1>3. ASSUME NEW p \in Packages, PackageStage(p)' \notin {PackageStage(p), "open"}
      PROVE  p \notin again' /\ p \notin again /\ pkg'[p].status # pkg[p].status
  BY <1>1, <1>2, <1>3 DEF PackageStage
<1>4. SUFFICES ASSUME NEW p \in Packages, PackageStage(p)' \notin {PackageStage(p), "open"}
               PROVE  /\ \A q \in Packages \ {p} : PackageStage(q)' = PackageStage(q)
                      /\ \/ PackageStage(p) = "absent" /\ PackageStage(p)' = "draft"
                         \/ PackageStage(p) = "draft" /\ PackageStage(p)' = "released"
  OBVIOUS
<1>5. p \notin again' /\ p \notin again /\ pkg'[p].status # pkg[p].status /\ pkg[p] \in PackageRow
  BY <1>1, <1>3, <1>4
\* Nothing but a curation asked for or committed changes the stage.
<1>6. ASSUME NEW s, pkg'[p] = [pkg[p] EXCEPT !.status = s] PROVE pkg'[p].status = s
  BY <1>5, <1>6 DEF PackageRow
<1>7. \/ \E r \in Reqs : WriteCuration(r) /\ pkg[p].status = "NONE" /\ pkg'[p].status = "PENDING"
      \/ \E w \in Workers : CommitCuration(w) /\ exec[w].to = p
  <2>1. ASSUME NEW r \in Reqs, WriteAdd(r) PROVE pkg'[p].status = pkg[p].status
    BY <1>1, <2>1 DEF WriteAdd, PackageRow
  <2>2. ASSUME NEW r \in Reqs, WriteRemove(r) PROVE pkg'[p].status = pkg[p].status
    BY <1>1, <2>2 DEF WriteRemove, PackageRow
  <2>3. ~(pkg[p].status = "READY" /\ pkg'[p] = [pkg[p] EXCEPT !.status = "OUTDATED"])
    BY <1>4, <1>5, <1>6 DEF PackageStage
  <2>4. ASSUME NEW w \in Workers, ResetPackage(w), exec[w].to = p, pkg'[p] = [pkg[p] EXCEPT !.status = "PENDING"]
        PROVE  FALSE
    <3>1. exec[w].task \in Curation
      BY <2>4 DEF ResetPackage, In, Curation
    <3>2. pkg[p].status = "PENDING"
      BY <1>5, <2>4, <3>1, CurationPending
    <3> QED
      BY <1>5, <1>6, <2>4, <3>2
  <2>5. ASSUME NEW w \in Workers, pkg'[p] = [pkg[p] EXCEPT !.qdrant_indexed = TRUE] PROVE FALSE
    BY <1>5, <2>5 DEF PackageRow
  <2> QED
    BY <1>5, <1>6, <2>1, <2>2, <2>3, <2>4, <2>5, PackageColumns
<1>8. CASE \E r \in Reqs : WriteCuration(r) /\ pkg[p].status = "NONE" /\ pkg'[p].status = "PENDING"
  <2>1. PICK r \in Reqs : WriteCuration(r) /\ pkg[p].status = "NONE" /\ pkg'[p].status = "PENDING"
    BY <1>8
  <2>2. PICK d : pkg' = [pkg EXCEPT ![d].status = "PENDING"]
    BY <2>1 DEF WriteCuration
  <2>3. \A q \in Packages \ {p} : pkg'[q] = pkg[q]
    BY <1>1, <1>5, <2>2
  <2>4. req' # req
    <3>1. req[r].op = "curate" /\ \E e : EndPublishing(r, e, "curate_learning_package")
      BY <2>1 DEF WriteCuration
    <3>2. req'[r].op = "publish"
      <4>1. PICK e, n : /\ req' = [req EXCEPT ![r] = n]
                        /\ n = [NoReq EXCEPT !.op = "publish", !.on = e, !.task = "curate_learning_package"]
        BY <3>1 DEF EndPublishing
      <4>2. n.op = "publish"
        BY <4>1 DEF NoReq
      <4> QED
        BY <1>1, <4>1, <4>2 DEF PackageShape, BackendShape
    <3> QED
      BY <3>1, <3>2
  <2>5. again' = again
    BY <1>5, <2>4 DEF PackageNext, queue
  <2> QED
    BY <1>5, <2>1, <2>3, <2>5 DEF PackageStage
<1>9. CASE \E w \in Workers : CommitCuration(w) /\ exec[w].to = p
  <2>1. PICK w \in Workers : CommitCuration(w) /\ exec[w].to = p
    BY <1>9
  <2>2. again' = again /\ exec[w].task \in Curation
    BY <2>1 DEF CommitCuration, Finish, In, Curation
  <2>3. pkg[p].status = "PENDING"
    BY <1>5, <2>1, <2>2, CurationPending
  <2>4. PICK found :
            pkg' = [pkg EXCEPT ![exec[w].to].status = "READY",
                               ![exec[w].to].items = IF found = {} THEN @ ELSE (@ \cap Notes) \cup found,
                               ![exec[w].to].item_count = Cardinality(found) + exec[w].mem]
    BY <2>1 DEF CommitCuration
  <2>5. /\ \A q \in Packages \ {p} : pkg'[q] = pkg[q]
        /\ pkg'[p].status = "READY"
    BY <1>1, <2>1, <2>4 DEF PackageRow
  <2> QED
    BY <1>5, <2>2, <2>3, <2>5 DEF PackageStage
<1> QED
  BY <1>7, <1>8, <1>9

\* Every step moves at most one package as DocumentContract allows, or voids.
LEMMA PackageStepImplements ==
    ASSUME PackageInv, PackageNext
    PROVE  PackageContract!ContractNext \/ UNCHANGED [p \in Packages |-> PackageStage(p)]
<1> DEFINE S == [p \in Packages |-> PackageStage(p)]
<1>1. PICK V : PackageShape(V)
  BY DEF PackageInv
<1>2. PackageSafe
  BY DEF PackageInv
<1>3. CASE \A p \in Packages : PackageStage(p)' \in {PackageStage(p), "open"}
  <2>1. PICK D \in SUBSET Packages : D = {p \in Packages : PackageStage(p)' = "open"}
    OBVIOUS
  <2>2. \A p \in Packages : PackageStage(p)' = IF p \in D THEN "open" ELSE PackageStage(p)
    BY <1>3, <2>1
  <2>3. S' = [p \in Packages |-> IF p \in D THEN "open" ELSE S[p]]
    BY <2>2
  <2> QED
    BY <2>3 DEF PackageContract!ContractNext, PackageContract!Void
<1>4. ASSUME NEW p \in Packages, \A q \in Packages \ {p} : PackageStage(q)' = PackageStage(q),
             \/ PackageStage(p) = "absent" /\ PackageStage(p)' = "draft"
             \/ PackageStage(p) = "draft" /\ PackageStage(p)' = "released"
      PROVE  PackageContract!ContractNext
  <2>1. PICK s : s = PackageStage(p)'
    OBVIOUS
  <2>2. S' = [S EXCEPT ![p] = s] /\ S[p] = PackageStage(p)
    BY <1>4, <2>1
  <2>3. <<S[p], s>> \in PackageContract!Allowed /\ s \in PackageContract!Stages
    BY <1>4, <2>1, <2>2 DEF PackageContract!Allowed, PackageContract!Stages
  <2> HIDE DEF S
  <2>4. \E x \in PackageContract!Stages : /\ x = "open" \/ <<S[p], x>> \in PackageContract!Allowed
                                          /\ S' = [S EXCEPT ![p] = x]
    BY <2>2, <2>3
  <2>5. PackageContract!Move(p)
    BY <2>4 DEF PackageContract!Move, S
  <2> QED
    BY <2>5 DEF PackageContract!ContractNext
<1> QED
  BY <1>1, <1>2, <1>3, <1>4, PackageMoves

\* The learning packages implement DocumentContract whatever requests overlap: what is
\* READY stays released, unless its curation was repeated.
THEOREM PackageImplements == PackageSpec => PackageKeepsContract
<1>1. PackageInit => PackageContract!ContractInit
  BY DEF PackageInit, BackendInit, NoPackage, PackageStage, PackageContract!ContractInit
<1>2. PackageInv /\ [PackageNext]_pkgVars
          => [PackageContract!ContractNext]_([p \in Packages |-> PackageStage(p)])
  BY PackageStepImplements DEF pkgVars, backend, queue, PackageStage
<1> QED
  BY <1>1, <1>2, PackageInitHolds, PackageNextHolds, PTL
  DEF PackageSpec, PackageKeepsContract, PackageContract!ContractSpec

----------------------------------------------------------------------------
(* Files of uploads and exports: three stores, of which each write looks at *)
(* one only.  Overlap breaks nothing here, a message that is repeated only  *)
(* that a job has one file.                                                 *)

Exporting == {"export"}
FileRows == ExportJobs \cup Keys
FilesNext == UploadsNext \/ ExportsNext

JobRow == [status : Live \cup {"NONE", "SUCCESS", "FAILED"},
           format : Formats \cup {None}, result : ExportKeys \cup {None}]
ObjectRow == [there : BOOLEAN, job : ExportJobs \cup {None}, shows : SUBSET Reserved]

FilesShape(V) ==
    /\ job \in [ExportJobs -> JobRow]
    /\ object \in [Keys -> ObjectRow]
    /\ asset \in [Keys -> {"none", "live", "deleted"}]
    /\ faults \in Nat
    /\ BackendShape(V, FileRows)

\* The job was asked for, and its row written.
Asked(j) == j \in ExportJobs /\ job[j].status # "NONE"

\* What requests, messages and runs can rely on; a worker's message is the one it runs.
FilesReqSound(r) ==
    /\ req[r].op \in {"create_asset", "delete_asset"} => req[r].on \in Keys /\ object[req[r].on].there
    /\ req[r].op = "export" => req[r].mem \in Formats
    /\ req[r].op = "publish" => Asked(req[r].on) /\ req[r].task = "export"
FilesMsgSound(m) == msg[m].task = "export" => Asked(msg[m].to)
HoldsOwn(w) ==
    exec[w].slot \in Slots /\ msg[exec[w].slot].at = w => msg[exec[w].slot].to = exec[w].to
FilesExecSound(w) == exec[w].task = "export" =>
    /\ Asked(exec[w].to)
    /\ exec[w].phase \in {"put", "stored"} =>
          /\ exec[w].mem \in ExportKeys
          /\ object[exec[w].mem].there /\ object[exec[w].mem].job = exec[w].to
          /\ exec[w].phase = "stored" => asset[exec[w].mem] # "none"
    /\ exec[w].phase \notin {"put", "stored"} => exec[w].mem = None

\* A job that succeeded names a row of its own file.
JobGood(j) ==
    /\ Asked(j) => job[j].format \in Formats
    /\ job[j].status = "SUCCESS" =>
          /\ job[j].result \in ExportKeys
          /\ asset[job[j].result] # "none"
          /\ object[job[j].result].job = j

\* A row has its object; the file of an export has a row, or its run is still to
\* commit, or something failed; and it shows what its format allows.
FileGood(k) ==
    /\ asset[k] # "none" => object[k].there
    /\ k \in ExportKeys /\ object[k].there =>
          /\ Asked(object[k].job)
          /\ Running(k) \/ asset[k] # "none" \/ faults > 0
          /\ LET format == job[object[k].job].format IN
             /\ format.as = "handout" => object[k].shows = {}
             /\ format.dean => object[k].shows \cap {"answers", "rubrics"} = {}

\* A run of the job is still to put its file.
Ahead(j) ==
    \/ \E r \in Reqs : Asks(Exporting, r, j)
    \/ \E m \in Slots : Carries(Exporting, m, j) /\ msg[m].at = "queued"
    \/ \E w \in Workers : In(w, "export", "started") /\ exec[w].to = j

\* Files of the job.
FileOf(k, j) == k \in ExportKeys /\ object[k].there /\ object[k].job = j

\* A job that is not run again has one file, none before its run puts it.
OneFile(j) ==
    /\ \A k, i : FileOf(k, j) /\ FileOf(i, j) => k = i
    /\ Ahead(j) => \A k : ~FileOf(k, j)

FilesSafe ==
    /\ Sole(Exporting, ExportJobs)
    /\ \A j \in selected : Asked(j)
    /\ \A r \in Reqs : FilesReqSound(r)
    /\ \A m \in Slots : FilesMsgSound(m)
    /\ \A w \in Workers : FilesExecSound(w) /\ HoldsOwn(w)
    /\ \A j \in ExportJobs : JobGood(j)
    /\ \A k \in Keys : FileGood(k)
    /\ \A j \in ExportJobs \ again : OneFile(j)

\* The inductive invariant of the files.
FilesInv == (\E V : FilesShape(V)) /\ FilesSafe

\* What the three stores say is only added to.
FilesGrow ==
    /\ faults' \in Nat /\ faults <= faults'
    /\ \A j \in ExportJobs : Asked(j) => Asked(j)' /\ job'[j].format = job[j].format
    /\ \A k \in Keys : object[k].there =>
          object'[k].there /\ object'[k].job = object[k].job /\ object'[k].shows = object[k].shows
    /\ \A k \in Keys : asset[k] # "none" => asset'[k] # "none"
FilesTyped ==
    /\ job \in [ExportJobs -> JobRow]
    /\ object \in [Keys -> ObjectRow]
    /\ asset \in [Keys -> {"none", "live", "deleted"}]

\* The status that a task writes into the row of its job, or fails to.
LEMMA JobWritten ==
    ASSUME job \in [ExportJobs -> JobRow], faults \in Nat, NEW j \in ExportJobs,
           NEW s \in Live \cup {"SUCCESS", "FAILED"}, NEW key \in ExportKeys \cup {None}, WriteJob(j, s, key)
    PROVE  /\ job' \in [ExportJobs -> JobRow]
           /\ faults' \in Nat /\ faults <= faults'
           /\ \A i \in ExportJobs : i # j => job'[i] = job[i]
           /\ job'[j].format = job[j].format
           /\ \/ job'[j] = job[j]
              \/ job'[j].status = s /\ job'[j].result = IF key = None THEN job[j].result ELSE key
<1>1. PICK x : x = IF key = None THEN job[j].result ELSE key
  OBVIOUS
<1>2. job[j] \in JobRow /\ x \in ExportKeys \cup {None}
  BY <1>1 DEF JobRow
<1>3. PICK row : row = [job[j] EXCEPT !.status = s, !.result = x]
  OBVIOUS
<1>4. row \in JobRow /\ row.status = s /\ row.result = x /\ row.format = job[j].format
  BY <1>2, <1>3 DEF JobRow
<1>5. CASE job' = [job EXCEPT ![j].status = s, ![j].result = IF key = None THEN @ ELSE key] /\ UNCHANGED faults
  <2>1. job' = [job EXCEPT ![j] = row]
    BY <1>1, <1>3, <1>5
  <2>2. job'[j] = row /\ (\A i \in ExportJobs : i # j => job'[i] = job[i]) /\ job' \in [ExportJobs -> JobRow]
    BY <1>4, <2>1
  <2>3. faults' \in Nat /\ faults <= faults'
    BY <1>5
  <2> QED
    BY <1>1, <1>4, <2>2, <2>3
<1>6. CASE Fault /\ UNCHANGED job
  BY <1>6 DEF Fault
<1> QED
  BY <1>5, <1>6 DEF WriteJob

\* A step keeps the columns, and adds to what they say.
LEMMA FilesRowsStep ==
    ASSUME NEW V, FilesShape(V), FilesSafe, FilesNext
    PROVE  FilesTyped' /\ FilesGrow
<1>1. /\ job \in [ExportJobs -> JobRow] /\ object \in [Keys -> ObjectRow]
      /\ asset \in [Keys -> {"none", "live", "deleted"}] /\ faults \in Nat
  BY DEF FilesShape
<1>2. Fault \/ UNCHANGED faults => faults' \in Nat /\ faults <= faults'
  BY <1>1 DEF Fault
<1>3. ASSUME UNCHANGED <<job, object, asset>>, Fault \/ UNCHANGED faults PROVE FilesTyped' /\ FilesGrow
  BY <1>1, <1>2, <1>3 DEF FilesTyped, FilesGrow, Asked
<1>4. ASSUME UNCHANGED <<job, object, faults>>, asset' \in [Keys -> {"none", "live", "deleted"}],
             \A k \in Keys : asset[k] # "none" => asset'[k] # "none"
      PROVE  FilesTyped' /\ FilesGrow
  BY <1>1, <1>4 DEF FilesTyped, FilesGrow, Asked
<1>5. ASSUME UNCHANGED <<job, asset, faults>>, object' \in [Keys -> ObjectRow],
             \A k \in Keys : object[k].there =>
                object'[k].there /\ object'[k].job = object[k].job /\ object'[k].shows = object[k].shows
      PROVE  FilesTyped' /\ FilesGrow
  BY <1>1, <1>5 DEF FilesTyped, FilesGrow, Asked
<1>6. ASSUME UNCHANGED <<object, asset>>, faults' \in Nat, faults <= faults', job' \in [ExportJobs -> JobRow],
             \A j \in ExportJobs : Asked(j) => Asked(j)' /\ job'[j].format = job[j].format
      PROVE  FilesTyped' /\ FilesGrow
  BY <1>1, <1>6 DEF FilesTyped, FilesGrow
<1>7. ASSUME NEW j, Asked(j), NEW s \in Live \cup {"SUCCESS", "FAILED"}, NEW key \in ExportKeys \cup {None},
             WriteJob(j, s, key), UNCHANGED <<object, asset>>
      PROVE  FilesTyped' /\ FilesGrow
  <2>1. j \in ExportJobs /\ "NONE" \notin Live
    BY <1>7 DEF Asked, Live
  <2>2. \A i \in ExportJobs : Asked(i) => Asked(i)' /\ job'[i].format = job[i].format
    BY <1>1, <1>7, <2>1, JobWritten DEF Asked
  <2> QED
    BY <1>1, <1>6, <1>7, <2>1, <2>2, JobWritten
\* Requests.
<1>8. ASSUME NEW r \in Reqs,
             \/ \E k \in Keys : CreateAsset(r, k) \/ DeleteAsset(r, k)
             \/ \E format \in Formats : DispatchExport(r, format)
      PROVE  FilesTyped' /\ FilesGrow
  BY <1>3, <1>8 DEF CreateAsset, DeleteAsset, DispatchExport, Begin, files
<1>9. ASSUME NEW r \in Reqs, WriteAsset(r) \/ DeleteOnRequest(r) PROVE FilesTyped' /\ FilesGrow
  <2>1. UNCHANGED <<job, object, faults>>
    BY <1>9 DEF WriteAsset, DeleteOnRequest, End
  <2>2. /\ asset' \in [Keys -> {"none", "live", "deleted"}]
        /\ \A k \in Keys : asset[k] # "none" => asset'[k] # "none"
    BY <1>1, <1>9 DEF WriteAsset, DeleteOnRequest
  <2> QED
    BY <1>4, <2>1, <2>2
<1>10. ASSUME NEW r \in Reqs, WriteExportJob(r) PROVE FilesTyped' /\ FilesGrow
  <2>1. PICK j \in ExportJobs :
            /\ job[j] = NoJob
            /\ job' = [job EXCEPT ![j] = [NoJob EXCEPT !.status = "PENDING", !.format = req[r].mem]]
    BY <1>10 DEF WriteExportJob
  <2>2. req[r].mem \in Formats
    BY <1>10 DEF WriteExportJob, FilesSafe, FilesReqSound
  <2>7. PICK f \in Formats : f = req[r].mem
    BY <2>2
  <2>3. [NoJob EXCEPT !.status = "PENDING", !.format = f] \in JobRow /\ job[j].status = "NONE"
    <3>1. ASSUME NEW A, NEW B, NEW C, {"NONE", "PENDING"} \subseteq A, {f, None} \subseteq B, None \in C
          PROVE  [NoJob EXCEPT !.status = "PENDING", !.format = f] \in [status : A, format : B, result : C]
      BY <3>1 DEF NoJob
    <3>2. [NoJob EXCEPT !.status = "PENDING", !.format = f] \in JobRow
      BY <3>1 DEF JobRow, Live
    <3>3. job[j].status = "NONE"
      BY <2>1 DEF NoJob
    <3> QED
      BY <3>2, <3>3
  <2>4. job' \in [ExportJobs -> JobRow]
    BY <1>1, <2>1, <2>3, <2>7
  <2>5. \A i \in ExportJobs : Asked(i) => Asked(i)' /\ job'[i].format = job[i].format
    BY <1>1, <2>1, <2>3, <2>7 DEF Asked
  <2>6. UNCHANGED <<object, asset, faults>>
    BY <1>10 DEF WriteExportJob, EndPublishing
  <2> QED
    BY <1>1, <1>2, <1>6, <2>4, <2>5, <2>6
\* Uploads, and the document.
<1>11. ASSUME NEW u \in Uploads, PutUpload(u) PROVE FilesTyped' /\ FilesGrow
  <2>1. object' = [object EXCEPT ![u].there = TRUE] /\ UNCHANGED <<job, asset, faults>>
    BY <1>11 DEF PutUpload, backend
  <2>2. object' \in [Keys -> ObjectRow]
    BY <1>1, <2>1 DEF ObjectRow
  <2>3. \A k \in Keys : object[k].there =>
            object'[k].there /\ object'[k].job = object[k].job /\ object'[k].shows = object[k].shows
    BY <1>1, <2>1 DEF ObjectRow
  <2> QED
    BY <1>5, <2>1, <2>2, <2>3
<1>12. CASE DocumentChanges \/ SweepSelect \/ \E u \in Uploads : GenerateUploadUrl(u)
  BY <1>3, <1>12 DEF DocumentChanges, SweepSelect, GenerateUploadUrl, backend
<1>13. CASE SweepCommit
  <2>1. /\ job' = [j \in ExportJobs |-> IF j \in selected THEN [job[j] EXCEPT !.status = "FAILED"] ELSE job[j]]
        /\ UNCHANGED <<object, asset, faults>>
    BY <1>13 DEF SweepCommit, backend
  <2>2. \A j \in ExportJobs : /\ [job[j] EXCEPT !.status = "FAILED"] \in JobRow
                              /\ [job[j] EXCEPT !.status = "FAILED"].status # "NONE"
                              /\ [job[j] EXCEPT !.status = "FAILED"].format = job[j].format
    BY <1>1 DEF JobRow
  <2>3. job' \in [ExportJobs -> JobRow]
    BY <1>1, <2>1, <2>2
  <2>4. \A i \in ExportJobs : Asked(i) => Asked(i)' /\ job'[i].format = job[i].format
    BY <2>1, <2>2 DEF Asked
  <2> QED
    BY <1>1, <1>2, <1>6, <2>1, <2>3, <2>4
\* The task.
<1>14. ASSUME NEW w \in Workers, NEW m \in Slots, BeforeStart(w, m) PROVE FilesTyped' /\ FilesGrow
  <2>1. Asked(msg[m].to)
    BY <1>14 DEF BeforeStart, Take, FilesSafe, FilesMsgSound
  <2>2. WriteJob(msg[m].to, "RUNNING", None) /\ UNCHANGED <<object, asset>>
    BY <1>14 DEF BeforeStart
  <2> QED
    BY <1>7, <2>1, <2>2 DEF Live
<1>15. ASSUME NEW w \in Workers, OnSuccess(w) \/ OnFailure(w) PROVE FilesTyped' /\ FilesGrow
  <2>1. exec[w].task = "export" /\ FilesExecSound(w)
    BY <1>15 DEF OnSuccess, OnFailure, In, FilesSafe
  <2>2. Asked(exec[w].to)
    BY <2>1 DEF FilesExecSound
  <2>3. CASE OnSuccess(w)
    <3>1. exec[w].mem \in ExportKeys
      BY <2>1, <2>3 DEF FilesExecSound, OnSuccess, In
    <3>2. WriteJob(exec[w].to, "SUCCESS", exec[w].mem) /\ UNCHANGED <<object, asset>>
      BY <2>3 DEF OnSuccess
    <3> QED
      BY <1>7, <2>2, <3>1, <3>2
  <2>4. CASE OnFailure(w)
    <3>1. WriteJob(exec[w].to, "FAILED", None) /\ UNCHANGED <<object, asset>>
      BY <2>4 DEF OnFailure
    <3> QED
      BY <1>7, <2>2, <3>1
  <2> QED
    BY <1>15, <2>3, <2>4
<1>16. ASSUME NEW w \in Workers, PutExport(w), UNCHANGED <<req, raced>> PROVE FilesTyped' /\ FilesGrow
  <2>1. PICK k \in FreshKey, bare \in BOOLEAN :
            object' = [object EXCEPT ![k] = [there |-> TRUE, job |-> exec[w].to,
                                             shows |-> Shows(job[exec[w].to].format, bare)]]
    BY <1>16 DEF PutExport
  <2>2. k \in Keys /\ ~object[k].there
    BY DEF FreshKey, Keys
  <2>3. Asked(exec[w].to)
    BY <1>16 DEF PutExport, In, FilesSafe, FilesExecSound
  <2>4. \A f, b : Shows(f, b) \subseteq Reserved
    BY DEF Shows, PptxShows, PdfShows, HandoutShows, Reserved
  <2>5. object' \in [Keys -> ObjectRow]
    BY <1>1, <2>1, <2>2, <2>3, <2>4 DEF ObjectRow, Asked
  <2>6. \A i \in Keys : object[i].there =>
            object'[i].there /\ object'[i].job = object[i].job /\ object'[i].shows = object[i].shows
    BY <1>1, <2>1, <2>2
  <2> QED
    BY <1>5, <1>16, <2>5, <2>6 DEF PutExport
<1>17. ASSUME NEW w \in Workers, CommitExport(w) PROVE FilesTyped' /\ FilesGrow
  <2>1. asset' = [asset EXCEPT ![exec[w].mem] = "live"] /\ UNCHANGED <<job, object, faults>>
    BY <1>17 DEF CommitExport
  <2> QED
    BY <1>1, <1>4, <2>1
<1>18. ASSUME NEW w \in Workers, RefuseExport(w) \/ FailExport(w) \/ OnRetry(w) PROVE FilesTyped' /\ FilesGrow
  BY <1>3, <1>18 DEF RefuseExport, FailExport, OnRetry, files
<1>19. CASE Environment /\ UNCHANGED files
  <2>1. Fault \/ UNCHANGED faults
    BY <1>19 DEF Environment, Publish, End, Abandon, WorkerCrash, ProcessLost, Redeliver
  <2> QED
    BY <1>3, <1>19, <2>1 DEF files
<1>20. \A k : k \in Uploads \/ k \in ExportKeys => k \in Keys
  BY DEF Keys
<1> QED
  BY <1>8, <1>9, <1>10, <1>11, <1>12, <1>13, <1>14, <1>15, <1>16, <1>17, <1>18, <1>19, <1>20
  DEF FilesNext, UploadsNext, ExportsNext, Sweep, ExportTask

\* The names that a step writes into requests, messages and tasks.
FileWords ==
    UNION {Words(FileRows), {"create_asset", "delete_asset", "export"},
           {"started", "put", "stored", "raised", "refused"}, Formats, ExportKeys}

\* What requests and tasks do to these.
LEMMA FileRequests ==
    ASSUME NEW r \in Reqs,
           \/ WriteAsset(r) \/ DeleteOnRequest(r) \/ WriteExportJob(r)
           \/ \E k \in Keys : CreateAsset(r, k) \/ DeleteAsset(r, k)
           \/ \E format \in Formats : DispatchExport(r, format)
    PROVE  /\ UNCHANGED queue
           /\ \/ End(r)
              \/ \E k \in Keys : /\ Begin(r, "create_asset", k, None) \/ Begin(r, "delete_asset", k, None)
                                 /\ object[k].there \/ asset[k] # "none"
              \/ \E f \in Formats : Begin(r, "export", None, f)
              \/ /\ req[r].op = "export"
                 /\ \E j \in ExportJobs : job[j] = NoJob /\ EndPublishing(r, j, "export")
BY DEF WriteAsset, DeleteOnRequest, WriteExportJob, CreateAsset, DeleteAsset, DispatchExport

LEMMA FileTasks ==
    ASSUME NEW w \in Workers, ExportTask(w)
    PROVE  \/ \E k \in ExportKeys : Goto(w, "put", k) /\ UNCHANGED <<msg, again>>
           \/ Goto(w, "refused", None) /\ UNCHANGED <<msg, again>>
           \/ Goto(w, "stored", exec[w].mem) /\ UNCHANGED <<msg, again>>
           \/ Goto(w, "raised", None) /\ UNCHANGED <<msg, again>>
           \/ Finish(w)
           \/ Retry(w)
BY DEF ExportTask, PutExport, RefuseExport, CommitExport, FailExport, OnSuccess, OnRetry, OnFailure, FreshKey

\* A step is one of these, a failure, or one that leaves requests and tasks alone.
LEMMA FilesSteps ==
    ASSUME FilesNext
    PROVE  \/ \E r \in Reqs :
                 \/ WriteAsset(r) \/ DeleteOnRequest(r) \/ WriteExportJob(r)
                 \/ \E k \in Keys : CreateAsset(r, k) \/ DeleteAsset(r, k)
                 \/ \E format \in Formats : DispatchExport(r, format)
           \/ \E w \in Workers : ExportTask(w) /\ UNCHANGED <<req, raced>>
           \/ \E w \in Workers, m \in Slots : BeforeStart(w, m)
           \/ Environment /\ UNCHANGED files
           \/ DocumentChanges \/ Sweep \/ \E u \in Uploads : GenerateUploadUrl(u) \/ PutUpload(u)
<1>1. \A k : k \in Uploads \/ k \in ExportKeys => k \in Keys
  BY DEF Keys
<1> QED
  BY <1>1 DEF FilesNext, UploadsNext, ExportsNext

\* The shape is kept,
LEMMA FilesShapeStep ==
    ASSUME NEW V, FilesShape(V), FilesSafe, FilesNext, NEW W, W = V \cup FileWords
    PROVE  FilesShape(W)'
<1>1. BackendShape(W, FileRows)
  BY ShapeGrows DEF FilesShape
<1>2. /\ Words(FileRows) \subseteq W /\ Formats \cup ExportKeys \subseteq W /\ None \in W
      /\ {"create_asset", "delete_asset", "export", "started", "put", "stored", "raised", "refused"} \subseteq W
      /\ Keys \subseteq FileRows /\ ExportJobs \subseteq FileRows
  BY DEF FileWords, Words, FileRows
<1>3. ASSUME NEW r \in Reqs, UNCHANGED queue,
             \/ End(r)
             \/ \E k \in Keys : Begin(r, "create_asset", k, None) \/ Begin(r, "delete_asset", k, None)
             \/ \E f \in Formats : Begin(r, "export", None, f)
             \/ \E j \in ExportJobs : EndPublishing(r, j, "export")
      PROVE  BackendShape(W, FileRows)'
  <2>1. \/ \E o \in W, d \in FileRows \cup {None}, x \in W : Begin(r, o, d, x)
        \/ End(r)
        \/ \E d \in FileRows \cup {None}, t \in W : EndPublishing(r, d, t)
    BY <1>2, <1>3
  <2> QED
    BY <1>1, <1>2, <1>3, <2>1, RequestShape
<1>4. ASSUME NEW w \in Workers, ExportTask(w), UNCHANGED <<req, raced>>
      PROVE  BackendShape(W, FileRows)'
  <2>1. exec[w].mem \in W
    BY <1>1 DEF BackendShape
  <2>2. \/ \E p \in W, x \in W : Goto(w, p, x) /\ UNCHANGED msg
        \/ Finish(w)
        \/ Retry(w)
    BY <1>2, <1>4, <2>1, FileTasks
  <2> QED
    BY <1>1, <1>2, <1>4, <2>2, TaskShape
<1>5. ASSUME NEW w \in Workers, NEW m \in Slots, BeforeStart(w, m)
      PROVE  BackendShape(W, FileRows)'
  <2>1. Take(w, m, "export", "started", None) /\ UNCHANGED <<req, raced>>
    BY <1>5 DEF BeforeStart
  <2> QED
    BY <1>1, <1>2, <2>1, TaskShape
<1>6. ASSUME Environment PROVE BackendShape(W, FileRows)'
  BY <1>1, <1>2, <1>6, EnvironmentShape
<1>7. ASSUME UNCHANGED backend PROVE BackendShape(W, FileRows)'
  BY <1>1, <1>7 DEF BackendShape, backend, queue
<1>8. BackendShape(W, FileRows)'
  BY <1>3, <1>4, <1>5, <1>6, <1>7, FilesSteps, FileRequests
  DEF DocumentChanges, Sweep, SweepSelect, SweepCommit, GenerateUploadUrl, PutUpload
<1> QED
  BY <1>8, FilesRowsStep DEF FilesShape, FilesTyped, FilesGrow

\* and that a job has one publication or one message.
LEMMA FilesSoleStep ==
    ASSUME NEW V, FilesShape(V), FilesSafe, FilesNext
    PROVE  Sole(Exporting, ExportJobs)'
<1>1. BackendShape(V, FileRows) /\ Sole(Exporting, ExportJobs) /\ None \notin ExportJobs
  BY ExportNames DEF FilesShape, FilesSafe
<1>2. ASSUME NEW r \in Reqs, UNCHANGED queue,
             \/ End(r)
             \/ \E k \in Keys : Begin(r, "create_asset", k, None) \/ Begin(r, "delete_asset", k, None)
             \/ \E f \in Formats : Begin(r, "export", None, f)
      PROVE  Sole(Exporting, ExportJobs)'
  <2>1. End(r) \/ \E o, d, x : Begin(r, o, d, x) /\ o # "publish"
    BY <1>2
  <2> QED
    BY <1>1, <1>2, <2>1, RequestSole DEF Calm
<1>3. ASSUME NEW r \in Reqs, UNCHANGED queue, req[r].op = "export", NEW j \in ExportJobs, job[j] = NoJob,
             EndPublishing(r, j, "export")
      PROVE  Sole(Exporting, ExportJobs)'
  <2>1. ~Asked(j)
    BY <1>3 DEF Asked, NoJob
  <2>2. ~Occupied(Exporting, j)
    BY <2>1 DEF Occupied, Asks, Asking, Carries, Queued, Exporting, FilesSafe, FilesReqSound, FilesMsgSound
  <2> QED
    BY <1>1, <1>3, <2>2, PublishingSole
<1>4. ASSUME NEW w \in Workers, UNCHANGED req,
             ExportTask(w) \/ \E m \in Slots : BeforeStart(w, m)
      PROVE  Sole(Exporting, ExportJobs)'
  <2>1. \/ \E m \in Slots : \E t, p, x : Take(w, m, t, p, x) /\ UNCHANGED again
        \/ (\E p, x : Goto(w, p, x)) /\ UNCHANGED <<msg, again>>
        \/ Finish(w)
        \/ Retry(w)
    BY <1>4, FileTasks DEF BeforeStart
  <2> QED
    BY <1>1, <1>4, <2>1, TaskSole DEF Calm
<1>5. CASE Environment
  BY <1>1, <1>5, EnvironmentSole DEF Calm
<1>6. CASE UNCHANGED backend
  BY <1>1, <1>6 DEF Sole, Once, Holding, Asks, Asking, Carries, Queued, backend, queue
<1>7. ASSUME NEW w \in Workers, NEW m \in Slots, BeforeStart(w, m) PROVE UNCHANGED req
  BY <1>7 DEF BeforeStart
<1>8. CASE DocumentChanges \/ Sweep \/ \E u \in Uploads : GenerateUploadUrl(u) \/ PutUpload(u)
  BY <1>6, <1>8 DEF DocumentChanges, Sweep, SweepSelect, SweepCommit, GenerateUploadUrl, PutUpload
<1> QED
  BY <1>2, <1>3, <1>4, <1>5, <1>7, <1>8, FilesSteps, FileRequests

\* What requests and messages rely on still holds,
LEMMA FilesReqStep ==
    ASSUME NEW V, FilesShape(V), FilesSafe, FilesNext, NEW s \in Reqs
    PROVE  FilesReqSound(s)'
<1>1. BackendShape(V, FileRows) /\ FilesReqSound(s) /\ FilesGrow
  BY FilesRowsStep DEF FilesShape, FilesSafe
<1>2. ASSUME req'[s] = req[s] PROVE FilesReqSound(s)'
  BY <1>1, <1>2 DEF FilesReqSound, FilesGrow, Asked
<1>3. ASSUME req'[s] = NoReq PROVE FilesReqSound(s)'
  BY <1>3, ExportNames, BackendAssumption DEF FilesReqSound, NoReq
<1>4. ASSUME NEW r \in Reqs, NEW o, NEW d, NEW x, Begin(r, o, d, x), o # "publish",
             o \in {"create_asset", "delete_asset"} => d \in Keys /\ object[d].there,
             o = "export" => x \in Formats
      PROVE  FilesReqSound(s)'
  <2>1. CASE s = r
    <3>1. req'[s].op = o /\ req'[s].on = d /\ req'[s].mem = x
      BY <1>1, <1>4, <2>1 DEF Begin, NoReq, BackendShape
    <3> QED
      BY <1>1, <1>4, <3>1 DEF FilesReqSound, FilesGrow
  <2>2. CASE s # r
    BY <1>1, <1>2, <1>4, <2>2 DEF Begin, BackendShape
  <2> QED
    BY <2>1, <2>2
<1>5. ASSUME NEW r \in Reqs, WriteExportJob(r) PROVE FilesReqSound(s)'
  <2>1. PICK j \in ExportJobs :
            /\ job[j] = NoJob
            /\ job' = [job EXCEPT ![j] = [NoJob EXCEPT !.status = "PENDING", !.format = req[r].mem]]
            /\ EndPublishing(r, j, "export")
    BY <1>5 DEF WriteExportJob
  <2>2. Asked(j)'
    <3>1. job \in [ExportJobs -> JobRow]
      BY DEF FilesShape
    <3>2. [NoJob EXCEPT !.status = "PENDING", !.format = req[r].mem].status = "PENDING"
      BY DEF NoJob
    <3> QED
      BY <2>1, <3>1, <3>2 DEF Asked
  <2>3. CASE s = r
    <3>1. req'[s].op = "publish" /\ req'[s].on = j /\ req'[s].task = "export"
      BY <1>1, <2>1, <2>3 DEF EndPublishing, NoReq, BackendShape
    <3> QED
      BY <2>2, <3>1 DEF FilesReqSound
  <2>4. CASE s # r
    BY <1>1, <1>2, <2>1, <2>4 DEF EndPublishing, BackendShape
  <2> QED
    BY <2>3, <2>4
<1>6. ASSUME NEW r \in Reqs, End(r) PROVE FilesReqSound(s)'
  BY <1>1, <1>2, <1>3, <1>6 DEF End, BackendShape
<1>7. \A k \in Keys : object[k].there \/ asset[k] # "none" => object[k].there
  BY DEF FilesSafe, FileGood
<1>8. ASSUME NEW r \in Reqs,
             \/ WriteAsset(r) \/ DeleteOnRequest(r)
             \/ \E k \in Keys : CreateAsset(r, k) \/ DeleteAsset(r, k)
             \/ \E format \in Formats : DispatchExport(r, format)
      PROVE  FilesReqSound(s)'
  <2>1. \/ End(r)
        \/ \E k \in Keys : /\ Begin(r, "create_asset", k, None) \/ Begin(r, "delete_asset", k, None)
                           /\ object[k].there \/ asset[k] # "none"
        \/ \E f \in Formats : Begin(r, "export", None, f)
    BY <1>8 DEF WriteAsset, DeleteOnRequest, CreateAsset, DeleteAsset, DispatchExport
  <2> QED
    BY <1>4, <1>6, <1>7, <2>1
<1>9. CASE Environment
  BY <1>1, <1>2, <1>3, <1>9
  DEF Environment, Publish, End, Abandon, WorkerCrash, ProcessLost, Redeliver, BackendShape
<1>10. ASSUME UNCHANGED req PROVE FilesReqSound(s)'
  BY <1>2, <1>10
<1> QED
  BY <1>5, <1>8, <1>9, <1>10, FilesSteps
  DEF BeforeStart, DocumentChanges, Sweep, SweepSelect, SweepCommit, GenerateUploadUrl, PutUpload, backend

LEMMA FilesMsgStep ==
    ASSUME NEW V, FilesShape(V), FilesSafe, FilesNext, NEW n \in Slots
    PROVE  FilesMsgSound(n)'
<1>1. BackendShape(V, FileRows) /\ FilesMsgSound(n) /\ FilesGrow
  BY FilesRowsStep DEF FilesShape, FilesSafe
<1>2. ASSUME msg'[n].task = msg[n].task /\ msg'[n].to = msg[n].to PROVE FilesMsgSound(n)'
  BY <1>1, <1>2 DEF FilesMsgSound, FilesGrow, Asked
<1>3. ASSUME msg'[n] = NoMsg PROVE FilesMsgSound(n)'
  BY <1>3, ExportNames DEF FilesMsgSound, NoMsg
<1>4. ASSUME NEW r \in Reqs, Publish(r) PROVE FilesMsgSound(n)'
  <2>1. PICK m \in Slots : msg' = [msg EXCEPT ![m] = [task |-> req[r].task, to |-> req[r].on,
                                                      at |-> "queued", tries |-> 0]]
    BY <1>4 DEF Publish
  <2>2. Asked(req[r].on)
    BY <1>4 DEF Publish, FilesSafe, FilesReqSound
  <2>3. CASE n = m
    <3>1. msg'[n].to = req[r].on
      BY <1>1, <2>1, <2>3 DEF BackendShape
    <3> QED
      BY <1>1, <2>2, <3>1 DEF FilesMsgSound, FilesGrow, Asked
  <2>4. CASE n # m
    BY <1>1, <1>2, <2>1, <2>4 DEF BackendShape
  <2> QED
    BY <2>3, <2>4
<1>5. ASSUME NEW w \in Workers, msg' = Acked(w) PROVE FilesMsgSound(n)'
  <2>1. msg'[n] = msg[n] \/ msg'[n] = NoMsg
    BY <1>1, <1>5 DEF Acked, BackendShape
  <2> QED
    BY <1>2, <1>3, <2>1
<1>6. ASSUME NEW m, NEW x, msg' = [msg EXCEPT ![m].at = x] PROVE FilesMsgSound(n)'
  BY <1>1, <1>2, <1>6 DEF BackendShape
<1>7. ASSUME NEW w \in Workers, Retry(w) PROVE FilesMsgSound(n)'
  <2>1. PICK m : m = exec[w].slot
    OBVIOUS
  <2>2. msg'[n].task = msg[n].task /\ msg'[n].to = msg[n].to
    BY <1>1, <1>7, <2>1 DEF Retry, BackendShape
  <2> QED
    BY <1>2, <2>2
<1>8. ASSUME UNCHANGED msg PROVE FilesMsgSound(n)'
  BY <1>2, <1>8
<1>9. CASE Environment
  BY <1>4, <1>5, <1>6, <1>8, <1>9 DEF Environment, Abandon, WorkerCrash, ProcessLost, Redeliver
<1>10. ASSUME NEW w \in Workers, ExportTask(w) PROVE FilesMsgSound(n)'
  BY <1>5, <1>7, <1>8, <1>10, FileTasks DEF Finish
<1>11. ASSUME NEW w \in Workers, NEW m \in Slots, BeforeStart(w, m) PROVE FilesMsgSound(n)'
  BY <1>6, <1>11 DEF BeforeStart, Take
<1>12. ASSUME NEW r \in Reqs,
              \/ WriteAsset(r) \/ DeleteOnRequest(r) \/ WriteExportJob(r)
              \/ \E k \in Keys : CreateAsset(r, k) \/ DeleteAsset(r, k)
              \/ \E format \in Formats : DispatchExport(r, format)
       PROVE  FilesMsgSound(n)'
  BY <1>8, <1>12, FileRequests DEF queue
<1> QED
  BY <1>8, <1>9, <1>10, <1>11, <1>12, FilesSteps
  DEF DocumentChanges, Sweep, SweepSelect, SweepCommit, GenerateUploadUrl, PutUpload, backend, queue

\* and what a run has put and stored is there.
LEMMA FilesExecStep ==
    ASSUME NEW V, FilesShape(V), FilesSafe, FilesNext, NEW v \in Workers
    PROVE  FilesExecSound(v)'
<1>1. BackendShape(V, FileRows) /\ FilesExecSound(v) /\ FilesGrow
  BY FilesRowsStep DEF FilesShape, FilesSafe
<1>2. ASSUME exec'[v] = exec[v] PROVE FilesExecSound(v)'
  <2>1. exec[v].mem \in ExportKeys => exec[v].mem \in Keys
    BY DEF Keys
  <2> QED
    BY <1>1, <1>2, <2>1 DEF FilesExecSound, FilesGrow, Asked
<1>3. ASSUME exec'[v] = Idle PROVE FilesExecSound(v)'
  BY <1>3, ExportNames DEF FilesExecSound, Idle
<1>4. ASSUME NEW w \in Workers, NEW m \in Slots, BeforeStart(w, m) PROVE FilesExecSound(v)'
  <2>1. Asked(msg[m].to)
    BY <1>4 DEF BeforeStart, Take, FilesSafe, FilesMsgSound
  <2>2. Take(w, m, "export", "started", None)
    BY <1>4 DEF BeforeStart
  <2>3. CASE v = w
    <3>1. exec'[v].task = "export" /\ exec'[v].to = msg[m].to /\ exec'[v].phase = "started" /\ exec'[v].mem = None
      BY <1>1, <2>2, <2>3 DEF Take, BackendShape
    <3> QED
      BY <1>1, <2>1, <3>1 DEF FilesExecSound, FilesGrow, Asked
  <2>4. CASE v # w
    BY <1>1, <1>2, <2>2, <2>4 DEF Take, BackendShape
  <2> QED
    BY <2>3, <2>4
<1>5. ASSUME NEW w \in Workers, w # v, ExportTask(w) PROVE FilesExecSound(v)'
  <2>1. exec'[v] = exec[v]
    BY <1>1, <1>5, FileTasks DEF Goto, Finish, Retry, BackendShape
  <2> QED
    BY <1>2, <2>1
<1>6. CASE OnSuccess(v) \/ OnRetry(v) \/ OnFailure(v)
  BY <1>1, <1>3, <1>6 DEF OnSuccess, OnRetry, OnFailure, Finish, Retry, BackendShape
<1>7. ASSUME NEW p, NEW x, Goto(v, p, x), exec[v].task = "export",
             p \in {"put", "stored"} => x \in ExportKeys /\ object'[x].there /\ object'[x].job = exec[v].to,
             p = "stored" => asset'[x] # "none",
             p \notin {"put", "stored"} => x = None
      PROVE  FilesExecSound(v)'
  <2>1. exec'[v].task = "export" /\ exec'[v].to = exec[v].to /\ exec'[v].phase = p /\ exec'[v].mem = x
    BY <1>1, <1>7 DEF Goto, BackendShape
  <2>2. Asked(exec[v].to)'
    BY <1>1, <1>7, <2>1 DEF FilesExecSound, FilesGrow, Asked
  <2> QED
    BY <1>7, <2>1, <2>2 DEF FilesExecSound, Asked
<1>8. CASE RefuseExport(v) \/ FailExport(v)
  BY <1>7, <1>8 DEF RefuseExport, FailExport, In
<1>9. CASE PutExport(v)
  <2>1. PICK k \in FreshKey, bare \in BOOLEAN :
            /\ object' = [object EXCEPT ![k] = [there |-> TRUE, job |-> exec[v].to,
                                                shows |-> Shows(job[exec[v].to].format, bare)]]
            /\ Goto(v, "put", k)
    BY <1>9 DEF PutExport
  <2>2. k \in ExportKeys /\ k \in Keys /\ object \in [Keys -> ObjectRow]
    BY DEF FreshKey, Keys, FilesShape
  <2>3. object'[k].there /\ object'[k].job = exec[v].to
    BY <2>1, <2>2
  <2> QED
    BY <1>7, <1>9, <2>1, <2>2, <2>3 DEF PutExport, In
<1>10. CASE CommitExport(v)
  <2>1. /\ exec[v].task = "export" /\ exec[v].mem \in ExportKeys
        /\ object[exec[v].mem].there /\ object[exec[v].mem].job = exec[v].to
    BY <1>1, <1>10 DEF CommitExport, In, FilesExecSound
  <2>2. exec[v].mem \in Keys /\ asset \in [Keys -> {"none", "live", "deleted"}]
    BY <2>1 DEF Keys, FilesShape
  <2>3. asset'[exec[v].mem] # "none" /\ UNCHANGED object
    BY <1>10, <2>2 DEF CommitExport
  <2> QED
    BY <1>7, <1>10, <2>1, <2>3 DEF CommitExport
<1>11. CASE Environment
  <2>1. exec'[v] = exec[v] \/ exec'[v] = Idle
    BY <1>1, <1>11 DEF Environment, Publish, Abandon, WorkerCrash, ProcessLost, Redeliver, BackendShape
  <2> QED
    BY <1>2, <1>3, <2>1
<1>12. ASSUME UNCHANGED exec PROVE FilesExecSound(v)'
  BY <1>2, <1>12
<1>13. ASSUME NEW w \in Workers, ExportTask(w) PROVE FilesExecSound(v)'
  BY <1>5, <1>6, <1>8, <1>9, <1>10, <1>13 DEF ExportTask
<1> QED
  BY <1>4, <1>11, <1>12, <1>13, FilesSteps, FileRequests
  DEF DocumentChanges, Sweep, SweepSelect, SweepCommit, GenerateUploadUrl, PutUpload, backend, queue

\* A sweep reads jobs that were asked for.
LEMMA SelectedStep ==
    ASSUME NEW V, FilesShape(V), FilesSafe, FilesNext
    PROVE  \A j \in selected' : Asked(j)'
<1>1. FilesGrow /\ \A j \in selected : Asked(j)
  BY FilesRowsStep DEF FilesSafe
<1>2. \A j \in selected' : Asked(j)
  <2>1. CASE SweepSelect
    BY <2>1 DEF SweepSelect, Asked, Live
  <2>2. CASE selected' \in {selected, {}}
    BY <1>1, <2>2
  <2> QED
    BY <2>1, <2>2
    DEF FilesNext, UploadsNext, ExportsNext, ExportTask, Sweep, SweepCommit, WriteAsset, DeleteOnRequest,
        WriteExportJob, CreateAsset, DeleteAsset, DispatchExport, BeforeStart, PutExport, RefuseExport,
        CommitExport, FailExport, OnSuccess, OnRetry, OnFailure, DocumentChanges, GenerateUploadUrl, PutUpload,
        files
<1> QED
  BY <1>1, <1>2 DEF FilesGrow, Asked

\* A job succeeds with what its run stored.
LEMMA JobGoodStep ==
    ASSUME NEW V, FilesShape(V), FilesSafe, FilesNext, NEW i \in ExportJobs
    PROVE  JobGood(i)'
<1>1. /\ job \in [ExportJobs -> JobRow] /\ faults \in Nat /\ FilesGrow /\ JobGood(i)
      /\ \A k \in ExportKeys : k \in Keys
      /\ \A k \in Keys : asset[k] # "none" => object[k].there
  BY FilesRowsStep DEF FilesShape, FilesSafe, FileGood, Keys
<1>2. ASSUME Asked(i)' => job'[i].format \in Formats,
             job'[i].status = "SUCCESS" =>
                /\ job'[i].result \in ExportKeys
                /\ asset[job'[i].result] # "none"
                /\ object[job'[i].result].job = i
      PROVE  JobGood(i)'
  BY <1>1, <1>2 DEF JobGood, FilesGrow
<1>3. ASSUME job'[i] = job[i] PROVE JobGood(i)'
  BY <1>1, <1>2, <1>3 DEF JobGood, Asked
<1>4. ASSUME Asked(i), job'[i].format = job[i].format, job'[i].status \in {"RUNNING", "FAILED"}
      PROVE  JobGood(i)'
  BY <1>1, <1>2, <1>4 DEF JobGood
<1>5. ASSUME NEW r \in Reqs, WriteExportJob(r) PROVE JobGood(i)'
  <2>1. PICK j \in ExportJobs :
            job' = [job EXCEPT ![j] = [NoJob EXCEPT !.status = "PENDING", !.format = req[r].mem]]
    BY <1>5 DEF WriteExportJob
  <2>2. req[r].mem \in Formats
    BY <1>5 DEF WriteExportJob, FilesSafe, FilesReqSound
  <2>3. PICK row : row = [NoJob EXCEPT !.status = "PENDING", !.format = req[r].mem]
    OBVIOUS
  <2>4. row.status = "PENDING" /\ row.format = req[r].mem
    BY <2>3 DEF NoJob
  <2>5. job'[i] = IF i = j THEN row ELSE job[i]
    BY <1>1, <2>1, <2>3
  <2> QED
    BY <1>2, <1>3, <2>2, <2>4, <2>5
<1>6. CASE SweepCommit
  <2>1. job'[i] = IF i \in selected THEN [job[i] EXCEPT !.status = "FAILED"] ELSE job[i]
    BY <1>6 DEF SweepCommit
  <2>2. /\ [job[i] EXCEPT !.status = "FAILED"].status = "FAILED"
        /\ [job[i] EXCEPT !.status = "FAILED"].format = job[i].format
    BY <1>1 DEF JobRow
  <2>3. i \in selected => Asked(i)
    BY DEF FilesSafe
  <2> QED
    BY <1>3, <1>4, <2>1, <2>2, <2>3
<1>7. ASSUME NEW w \in Workers, NEW m \in Slots, BeforeStart(w, m) PROVE JobGood(i)'
  <2>1. Asked(msg[m].to) /\ msg[m].to \in ExportJobs
    BY <1>7 DEF BeforeStart, Take, FilesSafe, FilesMsgSound, Asked
  <2>2. WriteJob(msg[m].to, "RUNNING", None)
    BY <1>7 DEF BeforeStart
  <2>3. \/ job'[i] = job[i]
        \/ Asked(i) /\ job'[i].format = job[i].format /\ job'[i].status = "RUNNING"
    BY <1>1, <2>1, <2>2, JobWritten DEF Live
  <2> QED
    BY <1>3, <1>4, <2>3
<1>8. ASSUME NEW w \in Workers, OnFailure(w) PROVE JobGood(i)'
  <2>1. Asked(exec[w].to) /\ exec[w].to \in ExportJobs
    BY <1>8 DEF OnFailure, In, FilesSafe, FilesExecSound, Asked
  <2>2. WriteJob(exec[w].to, "FAILED", None)
    BY <1>8 DEF OnFailure
  <2>3. \/ job'[i] = job[i]
        \/ Asked(i) /\ job'[i].format = job[i].format /\ job'[i].status = "FAILED"
    BY <1>1, <2>1, <2>2, JobWritten
  <2> QED
    BY <1>3, <1>4, <2>3
<1>9. ASSUME NEW w \in Workers, OnSuccess(w) PROVE JobGood(i)'
  <2>1. /\ Asked(exec[w].to) /\ exec[w].to \in ExportJobs
        /\ exec[w].mem \in ExportKeys /\ object[exec[w].mem].job = exec[w].to /\ asset[exec[w].mem] # "none"
    BY <1>9 DEF OnSuccess, In, FilesSafe, FilesExecSound, Asked
  <2>2. PICK k \in ExportKeys : k = exec[w].mem
    BY <2>1
  <2>3. WriteJob(exec[w].to, "SUCCESS", k) /\ k # None
    BY <1>9, <2>2, ExportNames DEF OnSuccess
  <2>4. \/ job'[i] = job[i]
        \/ /\ i = exec[w].to /\ job'[i].format = job[i].format
           /\ job'[i].status = "SUCCESS" /\ job'[i].result = k
    <3>1. PICK j \in ExportJobs : j = exec[w].to
      BY <2>1
    <3>2. WriteJob(j, "SUCCESS", k)
      BY <2>3, <3>1
    <3>3. /\ \A e \in ExportJobs : e # j => job'[e] = job[e]
          /\ job'[j].format = job[j].format
          /\ \/ job'[j] = job[j]
             \/ job'[j].status = "SUCCESS" /\ job'[j].result = IF k = None THEN job[j].result ELSE k
      BY <1>1, <3>2, JobWritten
    <3> QED
      BY <2>3, <3>1, <3>3
  <2>5. CASE job'[i] = job[i]
    BY <1>3, <2>5
  <2>6. CASE i = exec[w].to /\ job'[i].format = job[i].format /\ job'[i].result = k
    <3>1. job'[i].format \in Formats
      BY <1>1, <2>1, <2>6 DEF JobGood
    <3>2. job'[i].result \in ExportKeys /\ asset[job'[i].result] # "none" /\ object[job'[i].result].job = i
      BY <2>1, <2>2, <2>6
    <3> QED
      BY <1>2, <3>1, <3>2
  <2> QED
    BY <2>4, <2>5, <2>6
<1>10. ASSUME UNCHANGED job PROVE JobGood(i)'
  BY <1>3, <1>10
<1> QED
  BY <1>5, <1>6, <1>7, <1>8, <1>9, <1>10
  DEF FilesNext, UploadsNext, ExportsNext, ExportTask, Sweep, SweepSelect, WriteAsset, DeleteOnRequest,
      CreateAsset, DeleteAsset, DispatchExport, PutExport, RefuseExport,
      CommitExport, FailExport, OnRetry, DocumentChanges, GenerateUploadUrl, PutUpload, files

\* A file shows what its format allows.
LEMMA ShowsRight ==
    ASSUME NEW format \in Formats, NEW bare \in BOOLEAN
    PROVE  /\ format.as = "handout" => Shows(format, bare) = {}
           /\ format.dean => Shows(format, bare) \cap {"answers", "rubrics"} = {}
<1>1. CASE format.as = "handout"
  BY <1>1 DEF Shows, HandoutShows
<1>2. CASE format.as = "pdf"
  BY <1>2 DEF Shows, PdfShows
<1>3. CASE format.as = "pptx"
  BY <1>3 DEF Shows, PptxShows
<1> QED
  BY <1>1, <1>2, <1>3 DEF Formats

\* A run holds on to its file until its row is stored, or something fails.
LEMMA RunningStep ==
    ASSUME NEW V, FilesShape(V), FilesSafe, FilesNext, NEW k \in ExportKeys, Running(k)
    PROVE  Running(k)' \/ asset'[k] # "none" \/ faults' > 0
<1>1. /\ BackendShape(V, FileRows) /\ faults \in Nat /\ FilesGrow /\ k \in Keys
  BY FilesRowsStep DEF FilesShape, Keys
<1>2. PICK v \in Workers : exec[v].task = "export" /\ exec[v].mem = k
  BY DEF Running
<1>3. exec[v].phase \in {"put", "stored"} /\ (exec[v].phase = "stored" => asset[k] # "none") /\ k # None
  BY <1>2, ExportNames DEF FilesSafe, FilesExecSound
<1>4. ASSUME exec'[v].task = "export", exec'[v].mem = k PROVE Running(k)'
  BY <1>4 DEF Running
<1>5. Fault => faults' > 0
  BY <1>1 DEF Fault
<1>6. asset[k] # "none" => asset'[k] # "none"
  BY <1>1 DEF FilesGrow
<1>7. ASSUME NEW w \in Workers, ExportTask(w)
      PROVE  Running(k)' \/ asset'[k] # "none" \/ faults' > 0
  <2>1. CASE w # v
    <3>1. exec'[v] = exec[v]
      BY <1>1, <1>7, <2>1, FileTasks DEF Goto, Finish, Retry, BackendShape
    <3> QED
      BY <1>2, <1>4, <3>1
  <2>2. CASE w = v /\ CommitExport(w)
    <3>1. exec'[v].task = "export" /\ exec'[v].mem = k
      BY <1>1, <1>2, <2>2 DEF CommitExport, Goto, BackendShape
    <3> QED
      BY <1>4, <3>1
  <2>3. CASE w = v /\ FailExport(w)
    BY <1>5, <2>3 DEF FailExport
  <2>4. CASE w = v /\ OnSuccess(w)
    BY <1>3, <1>6, <2>4 DEF OnSuccess, In
  <2>5. CASE w = v /\ (PutExport(w) \/ RefuseExport(w) \/ OnRetry(w) \/ OnFailure(w))
    BY <1>3, <2>5 DEF PutExport, RefuseExport, OnRetry, OnFailure, In
  <2> QED
    BY <1>7, <2>1, <2>2, <2>3, <2>4, <2>5 DEF ExportTask
<1>8. ASSUME NEW w \in Workers, NEW m \in Slots, BeforeStart(w, m) PROVE Running(k)'
  <2>1. v # w
    BY <1>2, <1>8, ExportNames DEF BeforeStart, Take, Idle
  <2>2. exec'[v] = exec[v]
    BY <1>1, <1>8, <2>1 DEF BeforeStart, Take, BackendShape
  <2> QED
    BY <1>2, <1>4, <2>2
<1>9. ASSUME UNCHANGED exec PROVE Running(k)'
  BY <1>2, <1>4, <1>9
<1>10. CASE Environment
  BY <1>5, <1>9, <1>10 DEF Environment, Publish, Abandon, WorkerCrash, ProcessLost, Redeliver
<1> QED
  BY <1>7, <1>8, <1>9, <1>10, FilesSteps, FileRequests
  DEF DocumentChanges, Sweep, SweepSelect, SweepCommit, GenerateUploadUrl, PutUpload, backend, queue

\* A row comes after its object, the object of an export after its job.
LEMMA FileGoodStep ==
    ASSUME NEW V, FilesShape(V), FilesSafe, FilesNext, NEW k \in Keys
    PROVE  FileGood(k)'
<1>1. /\ object \in [Keys -> ObjectRow] /\ asset \in [Keys -> {"none", "live", "deleted"}]
      /\ faults \in Nat /\ FilesGrow /\ FileGood(k) /\ BackendShape(V, FileRows)
      /\ \A i \in ExportKeys : i \in Keys
  BY FilesRowsStep DEF FilesShape, FilesSafe, Keys
<1>2. asset'[k] # "none" => asset[k] # "none" \/ object[k].there
  <2>1. ASSUME NEW r \in Reqs, WriteAsset(r) \/ DeleteOnRequest(r)
        PROVE  asset'[k] # "none" => asset[k] # "none" \/ object[k].there
    <3>1. req[r].on \in Keys /\ object[req[r].on].there
      BY <2>1 DEF WriteAsset, DeleteOnRequest, FilesSafe, FilesReqSound
    <3> QED
      BY <1>1, <2>1, <3>1 DEF WriteAsset, DeleteOnRequest
  <2>2. ASSUME NEW w \in Workers, CommitExport(w)
        PROVE  asset'[k] # "none" => asset[k] # "none" \/ object[k].there
    <3>1. exec[w].mem \in Keys /\ object[exec[w].mem].there
      BY <1>1, <2>2 DEF CommitExport, In, FilesSafe, FilesExecSound
    <3> QED
      BY <1>1, <2>2, <3>1 DEF CommitExport
  <2>3. CASE UNCHANGED asset
    BY <2>3
  <2> QED
    BY <2>1, <2>2, <2>3
    DEF FilesNext, UploadsNext, ExportsNext, ExportTask, Sweep, SweepSelect, SweepCommit, WriteExportJob,
        CreateAsset, DeleteAsset, DispatchExport, BeforeStart, PutExport, RefuseExport, FailExport, OnSuccess,
        OnRetry, OnFailure, DocumentChanges, GenerateUploadUrl, PutUpload, files
<1>3. asset'[k] # "none" => object'[k].there
  BY <1>1, <1>2 DEF FilesGrow, FileGood
<1>4. ASSUME k \in ExportKeys, object[k].there PROVE FileGood(k)'
  <2>1. Asked(object[k].job) /\ object[k].job \in ExportJobs
    BY <1>1, <1>4 DEF FileGood, Asked
  <2>2. /\ object'[k].job = object[k].job /\ object'[k].shows = object[k].shows
        /\ Asked(object[k].job)' /\ job'[object[k].job].format = job[object[k].job].format
    BY <1>1, <1>4, <2>1 DEF FilesGrow, Asked
  <2>3. Running(k)' \/ asset'[k] # "none" \/ faults' > 0
    <3>1. CASE Running(k)
      BY <1>4, <3>1, RunningStep
    <3>2. CASE asset[k] # "none"
      BY <1>1, <3>2 DEF FilesGrow
    <3>3. CASE faults > 0
      BY <1>1, <3>3 DEF FilesGrow
    <3> QED
      BY <1>1, <1>4, <3>1, <3>2, <3>3 DEF FileGood
  <2>4. LET format == job[object[k].job].format IN
            /\ format.as = "handout" => object[k].shows = {}
            /\ format.dean => object[k].shows \cap {"answers", "rubrics"} = {}
    BY <1>1, <1>4 DEF FileGood
  <2>5. Asked(object[k].job)'
    BY <2>1, <2>2 DEF Asked
  <2> QED
    BY <1>3, <2>2, <2>3, <2>4, <2>5 DEF FileGood
<1>5. ASSUME NEW w \in Workers, PutExport(w), ~object[k].there, object'[k].there
      PROVE  FileGood(k)'
  <2>1. PICK i \in FreshKey, bare \in BOOLEAN :
            /\ object' = [object EXCEPT ![i] = [there |-> TRUE, job |-> exec[w].to,
                                                shows |-> Shows(job[exec[w].to].format, bare)]]
            /\ Goto(w, "put", i)
    BY <1>5 DEF PutExport
  <2>2. i = k
    BY <1>1, <1>5, <2>1
  <2>3. exec[w].task = "export" /\ Asked(exec[w].to) /\ exec[w].to \in ExportJobs
    BY <1>5 DEF PutExport, In, FilesSafe, FilesExecSound, Asked
  <2>4. PICK f \in Formats : f = job[exec[w].to].format
    BY <2>3 DEF FilesSafe, JobGood
  <2>5. object'[k].job = exec[w].to /\ object'[k].shows = Shows(f, bare)
    BY <1>1, <2>1, <2>2, <2>4
  <2>6. UNCHANGED job
    BY <1>5 DEF PutExport
  <2>7. Asked(object[k].job)'
    BY <2>3, <2>5, <2>6 DEF Asked
  <2>8. Running(k)'
    BY <1>1, <2>1, <2>2, <2>3 DEF Running, Goto, BackendShape
  <2>9. /\ f.as = "handout" => object'[k].shows = {}
        /\ f.dean => object'[k].shows \cap {"answers", "rubrics"} = {}
    BY <2>5, ShowsRight
  <2>10. job'[object'[k].job].format = f
    BY <2>4, <2>5, <2>6
  <2> QED
    BY <1>3, <2>7, <2>8, <2>9, <2>10 DEF FileGood
<1>6. ASSUME k \in ExportKeys, ~object[k].there, object'[k].there
      PROVE  \E w \in Workers : PutExport(w)
  <2>1. CASE UNCHANGED object
    BY <1>6, <2>1
  <2>2. ASSUME NEW u \in Uploads, PutUpload(u) PROVE FALSE
    BY <1>1, <1>6, <2>2, ExportNames DEF PutUpload, ObjectRow
  <2> QED
    BY <2>1, <2>2
    DEF FilesNext, UploadsNext, ExportsNext, ExportTask, Sweep, SweepSelect, SweepCommit, WriteExportJob,
        WriteAsset, DeleteOnRequest, CommitExport,
        CreateAsset, DeleteAsset, DispatchExport, BeforeStart, RefuseExport, FailExport, OnSuccess,
        OnRetry, OnFailure, DocumentChanges, GenerateUploadUrl, files
<1> QED
  BY <1>3, <1>4, <1>5, <1>6 DEF FileGood

\* A worker's message stays the one it runs.
LEMMA HoldsOwnStep ==
    ASSUME NEW V, FilesShape(V), FilesSafe, FilesNext, NEW v \in Workers
    PROVE  HoldsOwn(v)'
<1>1. BackendShape(V, FileRows) /\ HoldsOwn(v) /\ None \notin Slots /\ {"none", "queued"} \cap Workers = {}
  BY BackendAssumption DEF FilesShape, FilesSafe
<1>2. ASSUME exec'[v].slot = exec[v].slot, exec'[v].to = exec[v].to,
             \A n \in Slots : msg'[n].at = v => msg'[n] = msg[n]
      PROVE  HoldsOwn(v)'
  BY <1>1, <1>2 DEF HoldsOwn
<1>3. ASSUME exec'[v] = Idle PROVE HoldsOwn(v)'
  BY <1>1, <1>3 DEF HoldsOwn, Idle
<1>4. ASSUME NEW w \in Workers, NEW m \in Slots, NEW t, NEW p, NEW x, Take(w, m, t, p, x) PROVE HoldsOwn(v)'
  BY <1>1, <1>4 DEF Take, HoldsOwn, BackendShape
<1>5. ASSUME NEW w \in Workers, NEW p, NEW x, Goto(w, p, x), UNCHANGED msg PROVE HoldsOwn(v)'
  BY <1>1, <1>2, <1>5 DEF Goto, BackendShape
<1>6. ASSUME NEW w \in Workers, msg' = Acked(w) PROVE \A n \in Slots : msg'[n].at = v => msg'[n] = msg[n]
  BY <1>1, <1>6 DEF Acked, NoMsg, BackendShape
<1>7. ASSUME NEW w \in Workers, exec' = [exec EXCEPT ![w] = Idle],
             \A n \in Slots : msg'[n].at = v => msg'[n] = msg[n]
      PROVE  HoldsOwn(v)'
  BY <1>1, <1>2, <1>3, <1>7 DEF BackendShape
<1>8. ASSUME NEW w \in Workers, Retry(w) PROVE HoldsOwn(v)'
  <2>1. PICK m : m = exec[w].slot
    OBVIOUS
  <2>2. \A n \in Slots : msg'[n].at = v => msg'[n] = msg[n]
    BY <1>1, <1>8, <2>1 DEF Retry, BackendShape
  <2> QED
    BY <1>7, <1>8, <2>2 DEF Retry
<1>9. ASSUME NEW m \in Slots, NEW row, row.at = "queued" \/ row.at = "none", msg' = [msg EXCEPT ![m] = row],
             UNCHANGED exec
      PROVE  HoldsOwn(v)'
  BY <1>1, <1>2, <1>9 DEF BackendShape
<1>10. CASE Environment
  <2>1. ASSUME NEW r \in Reqs, Publish(r) PROVE HoldsOwn(v)'
    BY <1>9, <2>1 DEF Publish
  <2>2. ASSUME NEW m \in Slots, Redeliver(m) PROVE HoldsOwn(v)'
    <3>1. \A n \in Slots : msg'[n].at = v => msg'[n] = msg[n]
      BY <1>1, <2>2 DEF Redeliver, BackendShape
    <3> QED
      BY <1>2, <2>2, <3>1 DEF Redeliver
  <2> QED
    BY <1>2, <1>6, <1>7, <1>10, <2>1, <2>2 DEF Environment, Abandon, WorkerCrash, ProcessLost
<1>11. ASSUME NEW w \in Workers, ExportTask(w) PROVE HoldsOwn(v)'
  BY <1>5, <1>6, <1>7, <1>8, <1>11, FileTasks DEF Finish
<1>12. ASSUME NEW w \in Workers, NEW m \in Slots, BeforeStart(w, m) PROVE HoldsOwn(v)'
  BY <1>4, <1>12 DEF BeforeStart
<1>13. ASSUME UNCHANGED <<msg, exec>> PROVE HoldsOwn(v)'
  BY <1>2, <1>13
<1> QED
  BY <1>10, <1>11, <1>12, <1>13, FilesSteps, FileRequests
  DEF DocumentChanges, Sweep, SweepSelect, SweepCommit, GenerateUploadUrl, PutUpload, backend, queue

\* No step takes back a repetition, or puts a run ahead of a job that it did not ask for.
LEMMA AheadStep ==
    ASSUME NEW V, FilesShape(V), FilesSafe, FilesNext, NEW j \in ExportJobs \ again', Ahead(j)'
    PROVE  j \notin again /\ (Ahead(j) \/ ~Asked(j))
<1>1. /\ BackendShape(V, FileRows) /\ j # None /\ j \in ExportJobs
      /\ {"none", "queued"} \cap Workers = {}
  BY BackendAssumption, ExportNames DEF FilesShape
<1>2. \/ \E r \in Reqs : Asks(Exporting, r, j)'
      \/ \E m \in Slots : Carries(Exporting, m, j)' /\ msg'[m].at = "queued"
      \/ \E w \in Workers : exec'[w].task = "export" /\ exec'[w].phase = "started" /\ exec'[w].to = j
  BY DEF Ahead, In
<1> DEFINE Goal == j \notin again /\ (Ahead(j) \/ ~Asked(j))
\* What did not change was ahead already.
<1>3. ASSUME NEW r \in Reqs, req'[r] = req[r], Asks(Exporting, r, j)' PROVE Ahead(j)
  BY <1>3 DEF Ahead, Asks, Asking
<1>4. ASSUME NEW m \in Slots, msg[m].to = j, msg[m].task = "export", msg[m].at = "queued" PROVE Ahead(j)
  BY <1>4 DEF Ahead, Carries, Queued, Exporting
<1>5. ASSUME NEW w \in Workers, exec[w].task = "export", exec[w].phase = "started", exec[w].to = j PROVE Ahead(j)
  BY <1>5 DEF Ahead, In
<1>6. ASSUME NEW r \in Reqs, req'[r] = NoReq PROVE ~Asks(Exporting, r, j)'
  BY <1>1, <1>6 DEF Asks, Asking, NoReq
<1>7. ASSUME UNCHANGED again, \A m \in Slots : msg'[m] = msg[m] \/ msg'[m].at # "queued",
             \A r \in Reqs : Asks(Exporting, r, j)' => req'[r] = req[r],
             \A w \in Workers : exec'[w] = exec[w] \/ exec'[w].phase # "started"
      PROVE  Goal
  BY <1>2, <1>3, <1>4, <1>5, <1>7 DEF Carries, Queued, Exporting
<1> HIDE DEF Goal
<1>8. ASSUME NEW r \in Reqs, UNCHANGED queue,
             End(r) \/ \E o, d, x : Begin(r, o, d, x) /\ o # "publish"
      PROVE  Goal
  <2>1. \A s \in Reqs : Asks(Exporting, s, j)' => req'[s] = req[s]
    <3>1. CASE End(r)
      BY <1>1, <1>6, <1>8, <3>1 DEF End, BackendShape
    <3>2. ASSUME NEW o, NEW d, NEW x, Begin(r, o, d, x), o # "publish", NEW s \in Reqs, Asks(Exporting, s, j)'
          PROVE  req'[s] = req[s]
      <4>1. req'[r].op = o /\ (\A q \in Reqs \ {r} : req'[q] = req[q])
        BY <1>1, <3>2 DEF Begin, BackendShape, NoReq
      <4> QED
        BY <3>2, <4>1 DEF Asks, Asking
    <3> QED
      BY <1>8, <3>1, <3>2
  <2> QED
    BY <1>7, <1>8, <2>1 DEF queue
<1>9. ASSUME NEW r \in Reqs, UNCHANGED queue, NEW i \in ExportJobs, job[i] = NoJob, EndPublishing(r, i, "export")
      PROVE  Goal
  <2>1. CASE i = j
    BY <1>9, <2>1 DEF Goal, Asked, NoJob, queue
  <2>2. CASE i # j
    <3>1. \A s \in Reqs : Asks(Exporting, s, j)' => req'[s] = req[s]
      BY <1>1, <1>9, <2>2 DEF EndPublishing, BackendShape, NoReq, Asks, Asking
    <3> QED
      BY <1>7, <1>9, <3>1 DEF queue
  <2> QED
    BY <2>1, <2>2
<1>10. ASSUME NEW w \in Workers, NEW m \in Slots, Take(w, m, "export", "started", None), UNCHANGED <<req, again>>
       PROVE  Goal
  <2>1. /\ msg[m].at = "queued" /\ msg[m].task = "export"
        /\ msg'[m].at = w /\ \A n \in Slots \ {m} : msg'[n] = msg[n]
        /\ exec'[w].to = msg[m].to /\ \A v \in Workers \ {w} : exec'[v] = exec[v]
    BY <1>1, <1>10 DEF Take, BackendShape
  <2>2. CASE msg[m].to = j
    BY <1>4, <1>10, <2>1, <2>2 DEF Goal
  <2>3. CASE msg[m].to # j
    <3>1. \A n \in Slots : Carries(Exporting, n, j)' /\ msg'[n].at = "queued" => msg'[n] = msg[n]
      BY <1>1, <2>1
    <3>2. \A v \in Workers : exec'[v].to = j => exec'[v] = exec[v]
      BY <2>1, <2>3
    <3> QED
      BY <1>2, <1>3, <1>4, <1>5, <1>10, <3>1, <3>2 DEF Goal, Carries, Queued, Exporting
  <2> QED
    BY <2>2, <2>3
<1>11. ASSUME NEW w \in Workers, NEW p, NEW x, Goto(w, p, x), p # "started", UNCHANGED <<req, msg, again>>
       PROVE  Goal
  BY <1>1, <1>7, <1>11 DEF Goto, BackendShape
<1>12. ASSUME NEW w \in Workers, msg' = Acked(w) \/ UNCHANGED msg, exec' = [exec EXCEPT ![w] = Idle],
              UNCHANGED <<req, again>>
       PROVE  Goal
  <2>1. \A m \in Slots : msg'[m] = msg[m] \/ msg'[m].at # "queued"
    BY <1>1, <1>12 DEF Acked, NoMsg, BackendShape
  <2>2. \A v \in Workers : exec'[v] = exec[v] \/ exec'[v].phase # "started"
    BY <1>1, <1>12 DEF Idle, BackendShape
  <2> QED
    BY <1>7, <1>12, <2>1, <2>2
<1>13. ASSUME NEW w \in Workers, Retry(w), UNCHANGED req PROVE Goal
  <2>1. PICK m : m = exec[w].slot
    OBVIOUS
  <2>2. /\ msg[m].at = w /\ again' = again \cup {exec[w].to}
        /\ msg' = [msg EXCEPT ![m].at = "queued", ![m].tries = @ + 1]
        /\ exec' = [exec EXCEPT ![w] = Idle]
    BY <1>13, <2>1 DEF Retry
  <2>3. HoldsOwn(w)
    BY DEF FilesSafe
  <2>4. m \in Slots => msg'[m].to = exec[w].to
    BY <1>1, <2>1, <2>2, <2>3 DEF HoldsOwn, BackendShape
  <2>5. \A n \in Slots : Carries(Exporting, n, j)' => msg'[n] = msg[n]
    BY <1>1, <2>2, <2>4 DEF Carries, Queued, BackendShape
  <2>6. \A v \in Workers : exec'[v] = exec[v] \/ exec'[v].phase # "started"
    BY <1>1, <2>2 DEF Idle, BackendShape
  <2> QED
    BY <1>2, <1>3, <1>4, <1>5, <1>13, <2>2, <2>5, <2>6 DEF Goal, Carries, Queued, Exporting
<1>14. ASSUME NEW r \in Reqs, Publish(r) PROVE Goal
  <2>1. PICK m \in Slots : msg' = [msg EXCEPT ![m] = [task |-> req[r].task, to |-> req[r].on,
                                                      at |-> "queued", tries |-> 0]]
    BY <1>14 DEF Publish
  <2>2. /\ req[r].op = "publish" /\ req'[r] = NoReq /\ \A s \in Reqs \ {r} : req'[s] = req[s]
        /\ UNCHANGED <<exec, again>>
    BY <1>1, <1>14 DEF Publish, End, BackendShape
  <2>3. /\ msg'[m].to = req[r].on /\ msg'[m].task = req[r].task
        /\ \A n \in Slots \ {m} : msg'[n] = msg[n]
    BY <1>1, <2>1 DEF BackendShape
  <2>4. Carries(Exporting, m, j)' => Asks(Exporting, r, j)
    BY <2>2, <2>3 DEF Carries, Queued, Asks, Asking
  <2>5. Asks(Exporting, r, j) => Ahead(j)
    BY DEF Ahead
  <2>6. \A s \in Reqs : Asks(Exporting, s, j)' => req'[s] = req[s]
    BY <1>6, <2>2
  <2> QED
    BY <1>2, <1>3, <1>4, <1>5, <2>2, <2>3, <2>4, <2>5, <2>6 DEF Goal, Carries, Queued, Exporting
<1>15. ASSUME NEW m \in Slots, Redeliver(m) PROVE Goal
  <2>1. /\ msg'[m].to = msg[m].to /\ \A n \in Slots \ {m} : msg'[n] = msg[n]
        /\ again' = again \cup {msg[m].to} /\ UNCHANGED <<req, exec>>
    BY <1>1, <1>15 DEF Redeliver, BackendShape
  <2>2. \A n \in Slots : Carries(Exporting, n, j)' => msg'[n] = msg[n]
    BY <2>1 DEF Carries, Queued
  <2> QED
    BY <1>2, <1>3, <1>4, <1>5, <2>1, <2>2 DEF Goal, Carries, Queued, Exporting
<1>16. ASSUME NEW r \in Reqs, Abandon(r) PROVE Goal
  <2>1. \A s \in Reqs : Asks(Exporting, s, j)' => req'[s] = req[s]
    BY <1>1, <1>6, <1>16 DEF Abandon, BackendShape
  <2> QED
    BY <1>7, <1>16, <2>1 DEF Abandon
<1>17. ASSUME UNCHANGED backend PROVE Goal
  BY <1>7, <1>17 DEF backend, queue
<1>18. ASSUME Environment PROVE Goal
  BY <1>12, <1>14, <1>15, <1>16, <1>18 DEF Environment, WorkerCrash, ProcessLost
<1>19. ASSUME NEW w \in Workers, ExportTask(w), UNCHANGED req PROVE Goal
  BY <1>11, <1>12, <1>13, <1>19, FileTasks DEF Finish
<1>20. ASSUME NEW r \in Reqs, UNCHANGED queue,
              \/ End(r)
              \/ \E k \in Keys : Begin(r, "create_asset", k, None) \/ Begin(r, "delete_asset", k, None)
              \/ \E f \in Formats : Begin(r, "export", None, f)
              \/ \E i \in ExportJobs : job[i] = NoJob /\ EndPublishing(r, i, "export")
       PROVE  Goal
  BY <1>8, <1>9, <1>20
<1>21. ASSUME NEW w \in Workers, NEW m \in Slots, BeforeStart(w, m) PROVE Goal
  BY <1>10, <1>21 DEF BeforeStart
<1>22. Goal
  BY <1>17, <1>18, <1>19, <1>20, <1>21, FilesSteps, FileRequests
  DEF DocumentChanges, Sweep, SweepSelect, SweepCommit, GenerateUploadUrl, PutUpload
<1> QED
  BY <1>22 DEF Goal

\* No step takes a repetition back.
LEMMA FilesAgainStep ==
    ASSUME FilesNext
    PROVE  again \subseteq again'
<1>1. ASSUME NEW w \in Workers, ExportTask(w) PROVE again \subseteq again'
  BY <1>1, FileTasks DEF Finish, Retry
<1>2. CASE Environment
  BY <1>2 DEF Environment, Publish, Abandon, WorkerCrash, ProcessLost, Redeliver
<1>3. CASE UNCHANGED again
  BY <1>3
<1> QED
  BY <1>1, <1>2, <1>3, FilesSteps, FileRequests
  DEF BeforeStart, DocumentChanges, Sweep, SweepSelect, SweepCommit, GenerateUploadUrl, PutUpload, backend, queue

\* The run that is ahead puts the file, and then none is.
LEMMA OneFileStep ==
    ASSUME NEW V, FilesShape(V), FilesSafe, FilesNext, NEW j \in ExportJobs \ again'
    PROVE  OneFile(j)'
<1>1. /\ BackendShape(V, FileRows) /\ object \in [Keys -> ObjectRow] /\ j \in ExportJobs
      /\ j \notin again /\ OneFile(j)
      /\ \A k \in ExportKeys : k \in Keys
  BY FilesAgainStep DEF FilesShape, FilesSafe, Keys
<1>2. ASSUME \A k : FileOf(k, j)' => FileOf(k, j) PROVE OneFile(j)'
  <2>1. ~Asked(j) => \A k : ~FileOf(k, j)
    BY <1>1 DEF FilesSafe, FileGood, FileOf
  <2>2. Ahead(j)' => \A k : ~FileOf(k, j)
    BY <1>1, <2>1, AheadStep DEF OneFile
  <2>3. \A k, i : FileOf(k, j) /\ FileOf(i, j) => k = i
    BY <1>1 DEF OneFile
  <2> QED
    BY <1>2, <2>2, <2>3 DEF OneFile
<1>3. ASSUME NEW w \in Workers, PutExport(w), UNCHANGED <<req, raced>> PROVE OneFile(j)'
  <2>1. PICK k \in FreshKey, bare \in BOOLEAN :
            /\ object' = [object EXCEPT ![k] = [there |-> TRUE, job |-> exec[w].to,
                                                shows |-> Shows(job[exec[w].to].format, bare)]]
            /\ Goto(w, "put", k)
    BY <1>3 DEF PutExport
  <2>2. object'[k].job = exec[w].to /\ \A i \in Keys \ {k} : object'[i] = object[i]
    BY <1>1, <2>1 DEF FreshKey
  <2>3. CASE exec[w].to # j
    BY <1>1, <1>2, <2>2, <2>3 DEF FileOf
  <2>4. CASE exec[w].to = j
    <3>1. In(w, "export", "started")
      BY <1>3 DEF PutExport
    <3>2. Ahead(j)
      BY <2>4, <3>1 DEF Ahead
    <3>3. \A i : FileOf(i, j)' => i = k
      BY <1>1, <2>2, <3>2 DEF OneFile, FileOf
    <3>4. /\ exec[w].slot \in Slots /\ msg[exec[w].slot].at = w /\ Carries(Exporting, exec[w].slot, j)
          /\ \A m, n \in Slots : Carries(Exporting, m, j) /\ Carries(Exporting, n, j) => m = n
          /\ \A r \in Reqs, m \in Slots : ~(Asks(Exporting, r, j) /\ Carries(Exporting, m, j))
          /\ \A v \in Workers : exec[v].to = j /\ exec[v].task \in Exporting =>
                exec[v].slot \in Slots /\ msg[exec[v].slot].at = v /\ Carries(Exporting, exec[v].slot, j)
      <4>1. Sole(Exporting, ExportJobs)
        BY DEF FilesSafe
      <4> QED
        BY <1>1, <2>4, <3>1, <4>1 DEF Sole, Once, Holding, In, Exporting
    <3>5. UNCHANGED <<req, msg>> /\ exec'[w].phase = "put" /\ \A v \in Workers \ {w} : exec'[v] = exec[v]
      BY <1>1, <1>3, <2>1 DEF PutExport, Goto, BackendShape
    <3>6. \A r \in Reqs : ~Asks(Exporting, r, j)'
      BY <3>4, <3>5 DEF Asks, Asking
    <3>7. \A m \in Slots : ~(Carries(Exporting, m, j)' /\ msg'[m].at = "queued")
      <4>1. w # "queued"
        BY BackendAssumption
      <4> QED
        BY <3>4, <3>5, <4>1 DEF Carries, Queued
    <3>8. \A v \in Workers : ~(exec'[v].task = "export" /\ exec'[v].phase = "started" /\ exec'[v].to = j)
      <4>1. SUFFICES ASSUME NEW v \in Workers \ {w}, exec[v].task = "export", exec[v].to = j PROVE FALSE
        BY <3>5
      <4>2. exec[v].slot = exec[w].slot /\ msg[exec[v].slot].at = v
        BY <3>4, <4>1 DEF Exporting
      <4> QED
        BY <3>4, <4>2
    <3>9. ~Ahead(j)'
      BY <3>6, <3>7, <3>8 DEF Ahead, In
    <3> QED
      BY <3>3, <3>9 DEF OneFile
  <2> QED
    BY <2>3, <2>4
<1>4. ASSUME UNCHANGED object PROVE OneFile(j)'
  BY <1>2, <1>4 DEF FileOf
<1>5. ASSUME NEW u \in Uploads, PutUpload(u) PROVE OneFile(j)'
  <2>1. \A k \in ExportKeys : object'[k] = object[k]
    BY <1>1, <1>5, ExportNames DEF PutUpload
  <2> QED
    BY <1>2, <2>1 DEF FileOf
<1> QED
  BY <1>3, <1>4, <1>5
  DEF FilesNext, UploadsNext, ExportsNext, ExportTask, Sweep, SweepSelect, SweepCommit, WriteExportJob,
      WriteAsset, DeleteOnRequest, CommitExport,
      CreateAsset, DeleteAsset, DispatchExport, BeforeStart, RefuseExport, FailExport, OnSuccess,
      OnRetry, OnFailure, DocumentChanges, GenerateUploadUrl, files

\* It is an invariant,
LEMMA FilesInitHolds ==
    ASSUME ExportsInit
    PROVE  FilesInv
<1>1. \E V : FilesShape(V)
  <2>1. NoJob \in JobRow /\ NoObject \in ObjectRow
    BY DEF NoJob, JobRow, NoObject, ObjectRow
  <2>2. /\ job \in [ExportJobs -> JobRow] /\ object \in [Keys -> ObjectRow]
        /\ asset \in [Keys -> {"none", "live", "deleted"}] /\ faults \in Nat
    BY <2>1 DEF ExportsInit, BackendInit
  <2>3. BackendShape({None, "none", "idle", 0}, FileRows)
    BY DEF ExportsInit, BackendInit, BackendShape, NoReq, NoMsg, Idle
  <2> QED
    BY <2>2, <2>3 DEF FilesShape
<1>2. /\ \A r \in Reqs : req[r].op = None /\ \A e \in ExportJobs : ~Asks(Exporting, r, e)
      /\ \A m \in Slots : msg[m].task = None /\ \A e \in ExportJobs : ~Carries(Exporting, m, e)
      /\ \A w \in Workers : exec[w].task = None /\ exec[w].slot = None /\ exec[w].to = None
  BY ExportNames DEF ExportsInit, BackendInit, NoReq, NoMsg, Idle, Asks, Asking, Carries, Queued
<1>3. /\ \A j \in ExportJobs : job[j].status = "NONE"
      /\ \A k \in Keys : ~object[k].there /\ asset[k] = "none"
      /\ selected = {}
  BY DEF ExportsInit, NoJob, NoObject
<1>4. Sole(Exporting, ExportJobs)
  BY <1>2, ExportNames DEF Sole, Once, Holding
<1>5. /\ \A r \in Reqs : FilesReqSound(r)
      /\ \A m \in Slots : FilesMsgSound(m)
      /\ \A w \in Workers : FilesExecSound(w) /\ HoldsOwn(w)
  BY <1>2, ExportNames, BackendAssumption DEF FilesReqSound, FilesMsgSound, FilesExecSound, HoldsOwn
<1>6. /\ \A j \in ExportJobs : JobGood(j) /\ OneFile(j)
      /\ \A k \in Keys : FileGood(k)
  BY <1>3 DEF JobGood, Asked, OneFile, FileOf, FileGood, Keys
<1> QED
  BY <1>1, <1>3, <1>4, <1>5, <1>6 DEF FilesInv, FilesSafe

LEMMA FilesNextHolds ==
    ASSUME FilesInv, [FilesNext]_<<files, backend>>
    PROVE  FilesInv'
<1>1. PICK V : FilesShape(V)
  BY DEF FilesInv
<1>2. CASE FilesNext
  <2>1. FilesSafe
    BY DEF FilesInv
  <2>2. PICK W : W = V \cup FileWords
    OBVIOUS
  <2>3. FilesShape(W)'
    BY <1>1, <1>2, <2>1, <2>2, FilesShapeStep
  <2>4. \A w \in Workers : FilesExecSound(w)' /\ HoldsOwn(w)'
    BY <1>1, <1>2, <2>1, FilesExecStep, HoldsOwnStep
  <2>5. (\A r \in Reqs : FilesReqSound(r)') /\ (\A m \in Slots : FilesMsgSound(m)')
    BY <1>1, <1>2, <2>1, FilesReqStep, FilesMsgStep
  <2>6. (\A j \in ExportJobs : JobGood(j)') /\ (\A k \in Keys : FileGood(k)')
    BY <1>1, <1>2, <2>1, JobGoodStep, FileGoodStep
  <2>7. \A j \in ExportJobs \ again' : OneFile(j)'
    BY <1>1, <1>2, <2>1, OneFileStep
  <2>8. Sole(Exporting, ExportJobs)' /\ \A j \in selected' : Asked(j)'
    BY <1>1, <1>2, <2>1, FilesSoleStep, SelectedStep
  <2>9. FilesSafe'
    BY <2>4, <2>5, <2>6, <2>7, <2>8 DEF FilesSafe
  <2> QED
    BY <2>3, <2>9 DEF FilesInv
<1>3. CASE UNCHANGED <<files, backend>>
  <2>1. FilesShape(V)'
    BY <1>1, <1>3 DEF FilesShape, BackendShape, files, backend, queue
  <2>2. FilesSafe'
    BY <1>3 DEF FilesInv, FilesSafe, files, backend, queue, Sole, Once, Holding, Asks, Asking, Carries, Queued,
        FilesReqSound, FilesMsgSound, FilesExecSound, HoldsOwn, JobGood, FileGood, Running, OneFile, FileOf,
        Ahead, Asked, In
  <2> QED
    BY <2>1, <2>2 DEF FilesInv
<1> QED
  BY <1>2, <1>3

\* of which the promise is a part.
LEMMA FilesInvAgree ==
    ASSUME FilesInv
    PROVE  FilesAgree
<1>1. /\ \A k \in Keys : FileGood(k)
      /\ \A j \in ExportJobs : JobGood(j)
      /\ \A j \in ExportJobs \ again : OneFile(j)
      /\ \A k \in ExportKeys : k \in Keys
  BY DEF FilesInv, FilesSafe, Keys
<1>2. \A k \in Keys : asset[k] # "none" => object[k].there
  BY <1>1 DEF FileGood
<1>3. \A j \in ExportJobs : job[j].status = "SUCCESS" =>
          asset[job[j].result] # "none" /\ object[job[j].result].job = j
  BY <1>1 DEF JobGood
<1>4. ASSUME NEW k \in ExportKeys, object[k].there
      PROVE  /\ Running(k) \/ asset[k] # "none" \/ faults > 0
             /\ LET format == job[object[k].job].format IN
                /\ format.as = "handout" => object[k].shows = {}
                /\ format.dean => object[k].shows \cap {"answers", "rubrics"} = {}
  BY <1>1, <1>4 DEF FileGood
<1>5. ASSUME NEW k \in ExportKeys, NEW i \in ExportKeys \ {k},
             object[k].there, object[i].there, object[k].job = object[i].job
      PROVE  object[k].job \in again
  <2>1. object[k].job \in ExportJobs
    BY <1>1, <1>5 DEF FileGood, Asked
  <2>2. FileOf(k, object[k].job) /\ FileOf(i, object[k].job)
    BY <1>5 DEF FileOf
  <2> QED
    BY <1>1, <1>5, <2>1, <2>2 DEF OneFile
<1> QED
  BY <1>2, <1>3, <1>4, <1>5 DEF FilesAgree

----------------------------------------------------------------------------
(* Types: what a step of the backend keeps, then the rows of each component *)
(* and what its requests and tasks have read.                              *)

\* A request that publishes, a message under way and a task that runs are on a row.
OnRows(T, R) ==
    /\ \A r \in Reqs : req[r].op = "publish" => req[r].on \in R /\ req[r].task \in T
    /\ \A m \in Slots : msg[m].at # "none" => msg[m].to \in R
    /\ \A w \in Workers : exec[w] # Idle => exec[w].to \in R

\* The types of the backend, with what keeps them.
QueueTyped(O, T, R, P, X, N) == BackendTypeOK(O, T, R, P, X, N) /\ OnRows(T, R)

\* A fault is counted, or there is none.
LEMMA FaultTyped ==
    ASSUME faults \in 0..MaxFaults, Fault \/ UNCHANGED faults
    PROVE  faults' \in 0..MaxFaults
  BY BackendAssumption DEF Fault

\* A request that begins, goes on or ends.
LEMMA RequestTyped ==
    ASSUME NEW O, NEW T, NEW R, NEW P, NEW X, NEW N, QueueTyped(O, T, R, P, X, N), UNCHANGED queue,
           NEW r \in Reqs
    PROVE  /\ \A o \in O \ {"publish"}, d \in R \cup {None}, x \in X \cup {None} :
                 Begin(r, o, d, x) => QueueTyped(O, T, R, P, X, N)'
           /\ \A a \in [op : O, on : R \cup {None}, mem : X \cup {None}, task : T \cup {None}] :
                 a.op # "publish" /\ req' = [req EXCEPT ![r] = a] /\ UNCHANGED <<raced, faults>> =>
                    QueueTyped(O, T, R, P, X, N)'
           /\ End(r) => QueueTyped(O, T, R, P, X, N)'
           /\ \A d \in R, t \in T : EndPublishing(r, d, t) => QueueTyped(O, T, R, P, X, N)'
<1> DEFINE Rec == [op : O \cup {None, "publish"}, on : R \cup {None}, mem : X \cup {None}, task : T \cup {None}]
<1>0. UNCHANGED <<msg, exec, again, lost>>
  BY DEF queue
<1>1. req \in [Reqs -> Rec] /\ faults \in 0..MaxFaults /\ raced \in BOOLEAN
  BY DEF QueueTyped, BackendTypeOK
<1>2. None # "publish"
  BY BackendAssumption
<1>3. ASSUME NEW a \in Rec, req' = [req EXCEPT ![r] = a], a.op = "publish" => a.on \in R /\ a.task \in T,
             faults' \in 0..MaxFaults, raced' \in BOOLEAN
      PROVE  QueueTyped(O, T, R, P, X, N)'
  <2>1. req' \in [Reqs -> Rec]
    BY <1>1, <1>3
  <2>2. \A s \in Reqs : req'[s].op = "publish" => req'[s].on \in R /\ req'[s].task \in T
    BY <1>1, <1>3 DEF QueueTyped, OnRows
  <2> QED
    BY <1>0, <1>3, <2>1, <2>2 DEF QueueTyped, BackendTypeOK, OnRows
<1>4. ASSUME NEW o \in O \ {"publish"}, NEW d \in R \cup {None}, NEW x \in X \cup {None}, Begin(r, o, d, x)
      PROVE  QueueTyped(O, T, R, P, X, N)'
  <2>1. faults' \in 0..MaxFaults /\ raced' \in BOOLEAN
    BY <1>1, <1>4, FaultTyped DEF Begin
  <2>2. PICK a : a = [NoReq EXCEPT !.op = o, !.on = d, !.mem = x]
    OBVIOUS
  <2>3. a \in Rec /\ a.op = o /\ req' = [req EXCEPT ![r] = a]
    BY <1>4, <2>2 DEF Begin, NoReq
  <2> QED
    BY <1>3, <2>1, <2>2, <2>3
<1>5. ASSUME NEW a \in [op : O, on : R \cup {None}, mem : X \cup {None}, task : T \cup {None}],
             a.op # "publish", req' = [req EXCEPT ![r] = a], UNCHANGED <<raced, faults>>
      PROVE  QueueTyped(O, T, R, P, X, N)'
  <2>1. a \in Rec
    OBVIOUS
  <2> QED
    BY <1>1, <1>3, <1>5, <2>1
<1>6. ASSUME End(r) PROVE QueueTyped(O, T, R, P, X, N)'
  <2>1. NoReq \in Rec /\ NoReq.op # "publish"
    BY <1>2 DEF NoReq
  <2> QED
    BY <1>1, <1>3, <1>6, <2>1 DEF End
<1>7. ASSUME NEW d \in R, NEW t \in T, EndPublishing(r, d, t)
      PROVE  QueueTyped(O, T, R, P, X, N)'
  <2>1. PICK a : a = [NoReq EXCEPT !.op = "publish", !.on = d, !.task = t]
    OBVIOUS
  <2>2. a \in Rec /\ a.on = d /\ a.task = t /\ req' = [req EXCEPT ![r] = a]
    BY <1>7, <2>1 DEF EndPublishing, NoReq
  <2> QED
    BY <1>1, <1>3, <1>7, <2>2 DEF EndPublishing
<1> QED
  BY <1>4, <1>5, <1>6, <1>7

\* A task that is taken, goes on, ends or is retried.
LEMMA TaskTyped ==
    ASSUME NEW O, NEW T, NEW R, NEW P, NEW X, NEW N, QueueTyped(O, T, R, P, X, N), UNCHANGED <<req, raced>>,
           Fault \/ UNCHANGED faults, lost' \in SUBSET R, NEW w \in Workers
    PROVE  /\ \A m \in Slots, t \in T, p \in P, x \in N \cup {None} :
                 Take(w, m, t, p, x) /\ UNCHANGED again => QueueTyped(O, T, R, P, X, N)'
           /\ \A p \in P, x \in N \cup {None} :
                 Goto(w, p, x) /\ exec[w] # Idle /\ UNCHANGED <<msg, again>> => QueueTyped(O, T, R, P, X, N)'
           /\ Finish(w) => QueueTyped(O, T, R, P, X, N)'
           /\ Retry(w) /\ exec[w] # Idle => QueueTyped(O, T, R, P, X, N)'
<1> DEFINE Msg == [task : T \cup {None}, to : R \cup {None}, at : {"none", "queued"} \cup Workers, tries : 0..MaxRetries]
<1> DEFINE Run == [slot : Slots \cup {None}, task : T \cup {None}, to : R \cup {None},
                   phase : P \cup {"idle"}, mem : N \cup {None}]
<1>1. msg \in [Slots -> Msg] /\ exec \in [Workers -> Run] /\ faults' \in 0..MaxFaults /\ again \in SUBSET R
  BY FaultTyped DEF QueueTyped, BackendTypeOK
<1>2. Idle \in Run /\ NoMsg \in Msg /\ NoMsg.at = "none" /\ "none" \notin Workers /\ "queued" # "none"
  BY BackendAssumption DEF Idle, NoMsg
<1>3. ASSUME msg' \in [Slots -> Msg], \A m \in Slots : msg'[m].at # "none" => msg'[m].to \in R,
             NEW a \in Run, exec' = [exec EXCEPT ![w] = a], a # Idle => a.to \in R, again' \in SUBSET R
      PROVE  QueueTyped(O, T, R, P, X, N)'
  <2>1. exec' \in [Workers -> Run]
    BY <1>1, <1>3
  <2>2. \A v \in Workers : exec'[v] # Idle => exec'[v].to \in R
    BY <1>1, <1>3 DEF QueueTyped, OnRows
  <2>3. Idle' = Idle
    BY DEF Idle
  <2> QED
    BY <1>1, <1>3, <2>1, <2>2, <2>3 DEF QueueTyped, BackendTypeOK, OnRows
<1>4. ASSUME NEW m \in Slots, NEW t \in T, NEW p \in P, NEW x \in N \cup {None}, Take(w, m, t, p, x), UNCHANGED again
      PROVE  QueueTyped(O, T, R, P, X, N)'
  <2>1. msg[m].to \in R
    BY <1>2, <1>4 DEF Take, QueueTyped, OnRows
  <2>2. msg' \in [Slots -> Msg] /\ \A n \in Slots : msg'[n].at # "none" => msg'[n].to \in R
    BY <1>1, <1>4, <2>1 DEF Take, QueueTyped, OnRows
  <2>3. [slot |-> m, task |-> t, to |-> msg[m].to, phase |-> p, mem |-> x] \in Run
    BY <2>1
  <2> QED
    BY <1>1, <1>3, <1>4, <2>1, <2>2, <2>3 DEF Take
<1>5. ASSUME NEW p \in P, NEW x \in N \cup {None}, Goto(w, p, x), exec[w] # Idle, UNCHANGED <<msg, again>>
      PROVE  QueueTyped(O, T, R, P, X, N)'
  <2>1. exec[w].to \in R
    BY <1>5 DEF QueueTyped, OnRows
  <2>2. exec' = [exec EXCEPT ![w] = [exec[w] EXCEPT !.phase = p, !.mem = x]]
    BY <1>5 DEF Goto
  <2>3. [exec[w] EXCEPT !.phase = p, !.mem = x] \in Run /\ [exec[w] EXCEPT !.phase = p, !.mem = x].to = exec[w].to
    <3>1. exec[w] \in Run
      BY <1>1
    <3>2. ASSUME NEW a \in Run
          PROVE  [a EXCEPT !.phase = p, !.mem = x] \in Run /\ [a EXCEPT !.phase = p, !.mem = x].to = a.to
      OBVIOUS
    <3> QED
      BY <3>1, <3>2
  <2>4. \A n \in Slots : msg'[n].at # "none" => msg'[n].to \in R
    BY <1>5 DEF QueueTyped, OnRows
  <2> QED
    BY <1>1, <1>3, <1>5, <2>1, <2>2, <2>3, <2>4
<1>6. ASSUME Finish(w) PROVE QueueTyped(O, T, R, P, X, N)'
  <2>1. msg' \in [Slots -> Msg] /\ \A n \in Slots : msg'[n].at # "none" => msg'[n].to \in R
    BY <1>1, <1>2, <1>6 DEF Finish, Acked, QueueTyped, OnRows
  <2> QED
    BY <1>1, <1>2, <1>3, <1>6, <2>1 DEF Finish
<1>7. ASSUME Retry(w), exec[w] # Idle PROVE QueueTyped(O, T, R, P, X, N)'
  <2>1. exec[w].to \in R
    BY <1>7 DEF QueueTyped, OnRows
  <2>2. PICK m : m = exec[w].slot
    OBVIOUS
  <2>3. msg[m].at = w /\ msg[m].tries < MaxRetries
        /\ msg' = [msg EXCEPT ![m].at = "queued", ![m].tries = @ + 1]
    BY <1>7, <2>2 DEF Retry
  <2>4. m \in Slots => msg[m].tries + 1 \in 0..MaxRetries
    BY <1>1, <2>3, BackendAssumption
  <2>5. msg' \in [Slots -> Msg]
    <3>1. ASSUME NEW a \in Msg, a.tries + 1 \in 0..MaxRetries
          PROVE  [a EXCEPT !.at = "queued", !.tries = @ + 1] \in Msg
      BY <3>1
    <3>2. m \in Slots => [msg[m] EXCEPT !.at = "queued", !.tries = @ + 1] \in Msg
      BY <1>1, <2>4, <3>1
    <3>3. msg' = [msg EXCEPT ![m] = [msg[m] EXCEPT !.at = "queued", !.tries = @ + 1]]
      BY <2>3
    <3> QED
      BY <1>1, <3>2, <3>3
  <2>6. \A n \in Slots : msg'[n].at # "none" => msg'[n].to \in R
    BY <1>1, <1>2, <2>3 DEF QueueTyped, OnRows
  <2> QED
    BY <1>1, <1>2, <1>3, <1>7, <2>1, <2>5, <2>6 DEF Retry
<1> QED
  BY <1>4, <1>5, <1>6, <1>7

\* What publishes, fails or is delivered again.
LEMMA EnvironmentTyped ==
    ASSUME NEW O, NEW T, NEW R, NEW P, NEW X, NEW N, QueueTyped(O, T, R, P, X, N), Environment
    PROVE  QueueTyped(O, T, R, P, X, N)'
<1> DEFINE Rec == [op : O \cup {None, "publish"}, on : R \cup {None}, mem : X \cup {None}, task : T \cup {None}]
<1> DEFINE Msg == [task : T \cup {None}, to : R \cup {None}, at : {"none", "queued"} \cup Workers, tries : 0..MaxRetries]
<1>1. req \in [Reqs -> Rec] /\ msg \in [Slots -> Msg] /\ raced \in BOOLEAN
      /\ faults \in 0..MaxFaults /\ again \in SUBSET R /\ lost \in SUBSET R
  BY DEF QueueTyped, BackendTypeOK
<1>2. NoReq \in Rec /\ NoReq.op # "publish" /\ "none" \notin Workers
  BY BackendAssumption DEF NoReq
<1>3. ASSUME NEW r \in Reqs, Publish(r) \/ Abandon(r), msg' \in [Slots -> Msg],
             \A m \in Slots : msg'[m].at # "none" => msg'[m].to \in R
      PROVE  QueueTyped(O, T, R, P, X, N)'
  <2>1. req' = [req EXCEPT ![r] = NoReq] /\ UNCHANGED <<raced, exec, again>>
    BY <1>3 DEF Publish, End, Abandon
  <2>2. req' \in [Reqs -> Rec] /\ \A s \in Reqs : req'[s].op = "publish" => req'[s].on \in R /\ req'[s].task \in T
    BY <1>1, <1>2, <2>1 DEF QueueTyped, OnRows
  <2>3. lost' \in SUBSET R /\ faults' \in 0..MaxFaults
    <3>1. req[r].op = "publish" => req[r].on \in R
      BY DEF QueueTyped, OnRows
    <3> QED
      BY <1>1, <1>3, <3>1, FaultTyped DEF Publish, End, Abandon
  <2>4. Idle' = Idle
    BY DEF Idle
  <2> QED
    BY <1>1, <1>3, <2>1, <2>2, <2>3, <2>4 DEF QueueTyped, BackendTypeOK, OnRows
<1>4. ASSUME NEW r \in Reqs, Publish(r) PROVE QueueTyped(O, T, R, P, X, N)'
  <2>1. req[r].on \in R /\ req[r].task \in T
    BY <1>4 DEF Publish, QueueTyped, OnRows
  <2>2. PICK m \in Slots : msg' = [msg EXCEPT ![m] = [task |-> req[r].task, to |-> req[r].on,
                                                      at |-> "queued", tries |-> 0]]
    BY <1>4 DEF Publish
  <2>3. 0 \in 0..MaxRetries
    BY BackendAssumption
  <2>4. [task |-> req[r].task, to |-> req[r].on, at |-> "queued", tries |-> 0] \in Msg
    BY <2>1, <2>3
  <2>5. msg' \in [Slots -> Msg] /\ \A n \in Slots : msg'[n].at # "none" => msg'[n].to \in R
    BY <1>1, <2>1, <2>2, <2>4 DEF QueueTyped, OnRows
  <2> QED
    BY <1>3, <1>4, <2>5
<1>5. ASSUME NEW r \in Reqs, Abandon(r) PROVE QueueTyped(O, T, R, P, X, N)'
  <2>1. msg' \in [Slots -> Msg] /\ \A n \in Slots : msg'[n].at # "none" => msg'[n].to \in R
    BY <1>1, <1>5 DEF Abandon, QueueTyped, OnRows
  <2> QED
    BY <1>3, <1>5, <2>1
<1>6. ASSUME NEW w \in Workers, WorkerCrash(w) \/ ProcessLost(w) PROVE QueueTyped(O, T, R, P, X, N)'
  <2>1. exec[w].to \in R /\ Fault /\ UNCHANGED <<req, raced, again>> /\ exec' = [exec EXCEPT ![w] = Idle]
    BY <1>6 DEF WorkerCrash, ProcessLost, QueueTyped, OnRows
  <2>2. NoMsg \in Msg /\ NoMsg.at = "none"
    BY BackendAssumption DEF NoMsg
  <2>3. msg' \in [Slots -> Msg] /\ \A n \in Slots : msg'[n].at # "none" => msg'[n].to \in R
    BY <1>1, <1>6, <2>2 DEF WorkerCrash, ProcessLost, Acked, QueueTyped, OnRows
  <2>4. lost' \in SUBSET R
    BY <1>1, <1>6, <2>1 DEF WorkerCrash, ProcessLost
  <2>5. faults' \in 0..MaxFaults
    BY <1>1, <2>1, FaultTyped
  <2>6. exec' \in [Workers -> [slot : Slots \cup {None}, task : T \cup {None}, to : R \cup {None},
                               phase : P \cup {"idle"}, mem : N \cup {None}]]
        /\ \A v \in Workers : exec'[v] # Idle' => exec'[v].to \in R
    BY <2>1 DEF QueueTyped, BackendTypeOK, OnRows, Idle
  <2> QED
    BY <1>1, <2>1, <2>3, <2>4, <2>5, <2>6 DEF QueueTyped, BackendTypeOK, OnRows
<1>7. ASSUME NEW m \in Slots, Redeliver(m) PROVE QueueTyped(O, T, R, P, X, N)'
  <2>1. msg[m].to \in R /\ msg' = [msg EXCEPT ![m].at = "queued"] /\ UNCHANGED <<req, raced, exec, lost>>
        /\ again' = again \cup {msg[m].to}
    BY <1>2, <1>7 DEF Redeliver, QueueTyped, OnRows
  <2>2. msg' \in [Slots -> Msg] /\ \A n \in Slots : msg'[n].at # "none" => msg'[n].to \in R
    BY <1>1, <2>1 DEF QueueTyped, OnRows
  <2>3. again' \in SUBSET R
    BY <1>1, <2>1
  <2>4. faults' \in 0..MaxFaults
    BY <1>1, <1>7, FaultTyped DEF Redeliver
  <2>5. Idle' = Idle
    BY DEF Idle
  <2> QED
    BY <1>1, <2>1, <2>2, <2>3, <2>4, <2>5 DEF QueueTyped, BackendTypeOK, OnRows
<1> QED
  BY <1>4, <1>5, <1>6, <1>7 DEF Environment

\* A behaviour starts with nothing under way.
LEMMA InitTyped ==
    ASSUME NEW O, NEW T, NEW R, NEW P, NEW X, NEW N, BackendInit
    PROVE  QueueTyped(O, T, R, P, X, N)
<1>1. NoReq \in [op : O \cup {None, "publish"}, on : R \cup {None}, mem : X \cup {None}, task : T \cup {None}]
      /\ NoReq.op # "publish"
  BY BackendAssumption DEF NoReq
<1>2. NoMsg \in [task : T \cup {None}, to : R \cup {None}, at : {"none", "queued"} \cup Workers, tries : 0..MaxRetries]
      /\ NoMsg.at = "none"
  BY BackendAssumption DEF NoMsg
<1>3. Idle \in [slot : Slots \cup {None}, task : T \cup {None}, to : R \cup {None},
                phase : P \cup {"idle"}, mem : N \cup {None}]
  BY DEF Idle
<1>4. 0 \in 0..MaxFaults
  BY BackendAssumption
<1> QED
  BY <1>1, <1>2, <1>3, <1>4 DEF BackendInit, QueueTyped, BackendTypeOK, OnRows

\* What becomes of the requests: one begins, or goes on, or some are over.
LEMMA RequestsOver ==
    ASSUME NEW O, NEW T, NEW R, NEW P, NEW X, NEW N, QueueTyped(O, T, R, P, X, N)
    PROVE  /\ \A r \in Reqs : \A o, d, x : Begin(r, o, d, x) =>
                 /\ \A s \in Reqs \ {r} : req'[s] = req[s]
                 /\ req'[r].op = o /\ req'[r].on = d /\ req'[r].mem = x
           /\ \A r \in Reqs : End(r) => \A s \in Reqs : req'[s] = req[s] \/ req'[s].op = None
           /\ \A r \in Reqs : \A d, t : EndPublishing(r, d, t) =>
                 \A s \in Reqs : req'[s] = req[s] \/ req'[s].op = "publish"
           /\ Environment => \A s \in Reqs : req'[s] = req[s] \/ req'[s].op = None
<1>1. DOMAIN req = Reqs /\ req = [s \in Reqs |-> req[s]]
  BY DEF QueueTyped, BackendTypeOK
<1>2. ASSUME NEW r \in Reqs, NEW o, NEW d, NEW x, Begin(r, o, d, x)
      PROVE  /\ \A s \in Reqs \ {r} : req'[s] = req[s]
             /\ req'[r].op = o /\ req'[r].on = d /\ req'[r].mem = x
  BY <1>1, <1>2 DEF Begin, NoReq
<1>3. ASSUME NEW r \in Reqs, End(r) PROVE \A s \in Reqs : req'[s] = req[s] \/ req'[s].op = None
  BY <1>1, <1>3 DEF End, NoReq
<1>4. ASSUME NEW r \in Reqs, NEW d, NEW t, EndPublishing(r, d, t)
      PROVE  \A s \in Reqs : req'[s] = req[s] \/ req'[s].op = "publish"
  <2>1. PICK a : a = [NoReq EXCEPT !.op = "publish", !.on = d, !.task = t]
    OBVIOUS
  <2>2. a.op = "publish" /\ req' = [req EXCEPT ![r] = a]
    BY <1>4, <2>1 DEF EndPublishing, NoReq
  <2> QED
    BY <1>1, <2>2
<1>5. ASSUME Environment PROVE \A s \in Reqs : req'[s] = req[s] \/ req'[s].op = None
  BY <1>1, <1>3, <1>5 DEF Environment, Publish, Abandon, WorkerCrash, ProcessLost, Redeliver, NoReq
<1> QED
  BY <1>2, <1>3, <1>4, <1>5

\* What becomes of the messages: one is taken, goes or is back, or is a request's.
LEMMA MessagesCarry ==
    ASSUME NEW O, NEW T, NEW R, NEW P, NEW X, NEW N, QueueTyped(O, T, R, P, X, N), NEW m \in Slots,
           \/ \E w \in Workers : Finish(w) \/ Retry(w) \/ UNCHANGED msg \/ \E s, t, p, x : Take(w, s, t, p, x)
           \/ Environment
    PROVE  \/ msg'[m].at = "none"
           \/ msg[m].at # "none" /\ msg'[m].task = msg[m].task /\ msg'[m].to = msg[m].to
           \/ \E r \in Reqs : req[r].op = "publish" /\ msg'[m].task = req[r].task /\ msg'[m].to = req[r].on
<1> DEFINE Kept == \/ msg'[m].at = "none"
                   \/ msg[m].at # "none" /\ msg'[m].task = msg[m].task /\ msg'[m].to = msg[m].to
<1>1. DOMAIN msg = Slots /\ msg = [s \in Slots |-> msg[s]]
      /\ DOMAIN msg[m] = {"task", "to", "at", "tries"}
  BY DEF QueueTyped, BackendTypeOK
<1>2. ASSUME UNCHANGED msg PROVE Kept
  BY <1>2
<1>3. ASSUME NEW w \in Workers, msg' = Acked(w) PROVE Kept
  BY <1>1, <1>3 DEF Acked, NoMsg
<1>4. ASSUME NEW w \in Workers, Retry(w) PROVE Kept
  <2>1. PICK s : s = exec[w].slot
    OBVIOUS
  <2>2. msg[s].at = w /\ msg' = [msg EXCEPT ![s].at = "queued", ![s].tries = @ + 1]
    BY <1>4, <2>1 DEF Retry
  <2>3. w # "none"
    BY <1>4, BackendAssumption
  <2>4. CASE s # m
    BY <1>1, <2>2, <2>4
  <2>5. CASE s = m
    <3>1. PICK a : a = [msg[m] EXCEPT !.at = "queued", !.tries = @ + 1]
      OBVIOUS
    <3>2. msg' = [msg EXCEPT ![m] = a]
      BY <1>1, <2>2, <2>5, <3>1
    <3>3. a.task = msg[m].task /\ a.to = msg[m].to
      BY <1>1, <3>1
    <3> QED
      BY <1>1, <2>2, <2>3, <2>5, <3>2, <3>3
  <2> QED
    BY <2>4, <2>5
<1>5. ASSUME NEW s, NEW a, a # "none" => msg[s].at # "none", msg' = [msg EXCEPT ![s].at = a] PROVE Kept
  BY <1>1, <1>5
<1>6. ASSUME NEW w, NEW s, NEW t, NEW p, NEW x, Take(w, s, t, p, x) PROVE Kept
  BY <1>5, <1>6 DEF Take
<1>7. ASSUME NEW s \in Slots, Redeliver(s) PROVE Kept
  BY <1>5, <1>7, BackendAssumption DEF Redeliver
<1>8. ASSUME NEW r \in Reqs, Publish(r)
      PROVE  Kept \/ (req[r].op = "publish" /\ msg'[m].task = req[r].task /\ msg'[m].to = req[r].on)
  <2>1. PICK s \in Slots : msg' = [msg EXCEPT ![s] = [task |-> req[r].task, to |-> req[r].on,
                                                      at |-> "queued", tries |-> 0]]
    BY <1>8 DEF Publish
  <2>2. req[r].op = "publish"
    BY <1>8 DEF Publish
  <2> QED
    BY <1>1, <2>1, <2>2
<1>9. CASE Environment
  <2>1. ASSUME NEW r \in Reqs, Abandon(r) PROVE Kept
    BY <1>2, <2>1 DEF Abandon
  <2>2. ASSUME NEW w \in Workers, WorkerCrash(w) \/ ProcessLost(w) PROVE Kept
    BY <1>2, <1>3, <2>2 DEF WorkerCrash, ProcessLost
  <2> QED
    BY <1>7, <1>8, <1>9, <2>1, <2>2 DEF Environment
<1> QED
  BY <1>2, <1>3, <1>4, <1>6, <1>9 DEF Finish

\* A subset of what is finite has no more elements, and fewer if one is missing.
LEMMA Counting ==
    ASSUME NEW D, IsFiniteSet(D), NEW A \in SUBSET D, NEW B \in SUBSET D, A \subseteq B
    PROVE  /\ Cardinality(A) \in Nat /\ Cardinality(B) \in Nat /\ Cardinality(D) \in Nat
           /\ Cardinality(A) <= Cardinality(B) /\ Cardinality(B) <= Cardinality(D)
           /\ A # B => Cardinality(A) + 1 <= Cardinality(B)
<1>1. IsFiniteSet(B) /\ Cardinality(B) <= Cardinality(D)
  BY FS_Subset
<1>2. IsFiniteSet(A) /\ Cardinality(A) <= Cardinality(B) /\ (Cardinality(B) = Cardinality(A) => B = A)
  BY <1>1, FS_Subset
<1>3. Cardinality(A) \in Nat /\ Cardinality(B) \in Nat /\ Cardinality(D) \in Nat
  BY <1>1, <1>2, FS_CardinalityType
<1> QED
  BY <1>1, <1>2, <1>3

----------------------------------------------------------------------------
(* Syllabi.                                                                *)

SyllabusUsed == {d \in Syllabi : syl[d].status # "NONE"}

\* A version is at most the number of rows there have been, or the next one.
SyllabusTypes ==
    /\ QueueTyped(SyllabusOps, {"generate_syllabus"}, Syllabi, {"running", "failed"}, 1..Cardinality(Syllabi), {"locked"})
    /\ \A d \in Syllabi : syl[d].ver \in 0..Cardinality(SyllabusUsed) /\ syl[d].from \in {0} \cup Syllabi
    /\ \A r \in Reqs :
          /\ req[r].op = "dispatch" => req[r].on \in Syllabi
          /\ req[r].op \in {"create", "reject", "fork"} => req[r].mem \in 1..(Cardinality(SyllabusUsed) + 1)

\* The requests that begin, and what they read.
LEMMA SyllabusChecks ==
    ASSUME NEW r \in Reqs, FacultyRequest(r) \/ DeanRequest(r)
    PROVE  \E o \in SyllabusOps, d \in Syllabi \cup {None} : \E x :
              /\ Begin(r, o, d, x)
              /\ o = "dispatch" => d \in Syllabi
              /\ IF o \in {"create", "reject", "fork"} THEN x = NextVersion /\ FreshSyllabus # {} ELSE x = None
<1>1. CASE FacultyRequest(r)
  BY <1>1 DEF FacultyRequest, CreateSyllabus, EditSyllabus, DeleteSyllabus, ForkSyllabus,
              DispatchGeneration, SubmitForReview, SyllabusOps
<1>2. CASE DeanRequest(r)
  BY <1>2 DEF DeanRequest, ApproveSyllabus, RejectSyllabus, LockSyllabus, UnlockSyllabus, SyllabusOps
<1> QED
  BY <1>1, <1>2

\* The next version.
LEMMA NextVersionTyped ==
    ASSUME \A d \in Syllabi : syl[d].ver \in 0..Cardinality(SyllabusUsed)
    PROVE  /\ NextVersion \in 1..(Cardinality(SyllabusUsed) + 1)
           /\ FreshSyllabus # {} => NextVersion \in 1..Cardinality(Syllabi)
<1> DEFINE S == {0} \cup {syl[d].ver : d \in {e \in Syllabi : Exists(e)}}
<1>1. SyllabusUsed \in SUBSET Syllabi
  BY DEF SyllabusUsed
<1>2. Cardinality(SyllabusUsed) \in Nat /\ Cardinality(Syllabi) \in Nat
      /\ (SyllabusUsed # Syllabi => Cardinality(SyllabusUsed) + 1 <= Cardinality(Syllabi))
  BY <1>1, Counting, SyllabiAssumption
<1>3. S \subseteq 0..Cardinality(SyllabusUsed) /\ S # {}
  BY <1>2
<1>4. Max(S) \in S
  BY <1>2, <1>3, MaxOfBounded
<1>5. Max(S) \in 0..Cardinality(SyllabusUsed)
  BY <1>3, <1>4
<1>6. NextVersion = 1 + Max(S)
  BY DEF NextVersion
<1>7. FreshSyllabus # {} => SyllabusUsed # Syllabi
  BY DEF FreshSyllabus, SyllabusUsed
<1> HIDE DEF S
<1> QED
  BY <1>2, <1>5, <1>6, <1>7

LEMMA SyllabusTypesInit ==
    ASSUME SyllabusInit
    PROVE  SyllabusTypes
<1>1. QueueTyped(SyllabusOps, {"generate_syllabus"}, Syllabi, {"running", "failed"}, 1..Cardinality(Syllabi), {"locked"})
  BY InitTyped DEF SyllabusInit
<1>2. SyllabusUsed = {} /\ \A d \in Syllabi : syl[d].ver = 0 /\ syl[d].from = 0
  BY DEF SyllabusInit, SyllabusUsed, Unused
<1>3. Cardinality(SyllabusUsed) = 0
  BY <1>2, FS_EmptySet
<1>4. \A r \in Reqs : req[r].op = None
  BY DEF SyllabusInit, BackendInit, NoReq
<1> QED
  BY <1>1, <1>2, <1>3, <1>4, SyllabiAssumption DEF SyllabusTypes, SyllabusOps

LEMMA SyllabusTypesNext ==
    ASSUME SyllabusInv, SyllabusTypes, SyllabusNext
    PROVE  SyllabusTypes'
<1> DEFINE Is == QueueTyped(SyllabusOps, {"generate_syllabus"}, Syllabi, {"running", "failed"}, 1..Cardinality(Syllabi), {"locked"})
<1>0. PICK V : SyllabusShape(V)
  BY DEF SyllabusInv
<1>1. Is /\ None \notin SyllabusOps /\ "publish" \notin SyllabusOps
  BY SyllabiAssumption DEF SyllabusTypes, SyllabusOps
<1>2. SyllabusUsed \in SUBSET Syllabi /\ SyllabusUsed' \in SUBSET Syllabi /\ SyllabusUsed \subseteq SyllabusUsed'
  BY <1>0, SyllabusColumns DEF SyllabusUsed
<1>3. /\ Cardinality(SyllabusUsed) \in Nat /\ Cardinality(SyllabusUsed') \in Nat
      /\ Cardinality(SyllabusUsed) <= Cardinality(SyllabusUsed')
      /\ SyllabusUsed # SyllabusUsed' => Cardinality(SyllabusUsed) + 1 <= Cardinality(SyllabusUsed')
  BY <1>2, Counting, SyllabiAssumption
<1>4. ASSUME NEW r \in Reqs, SyllabusRequest(r), UNCHANGED queue
      PROVE  /\ Is'
             /\ \A s \in Reqs :
                   \/ req'[s] = req[s] \/ req'[s].op \in {None, "publish"}
                   \/ /\ req'[s].op = "dispatch" => req'[s].on \in Syllabi
                      /\ req'[s].op \in {"create", "reject", "fork"} =>
                            req'[s].mem \in 1..(Cardinality(SyllabusUsed) + 1)
  <2>1. CASE FacultyRequest(r) \/ DeanRequest(r)
    <3>1. PICK o \in SyllabusOps, d \in Syllabi \cup {None} : \E x :
              /\ Begin(r, o, d, x)
              /\ o = "dispatch" => d \in Syllabi
              /\ IF o \in {"create", "reject", "fork"} THEN x = NextVersion /\ FreshSyllabus # {} ELSE x = None
      BY <2>1, SyllabusChecks
    <3>2. PICK x :
              /\ Begin(r, o, d, x)
              /\ o = "dispatch" => d \in Syllabi
              /\ IF o \in {"create", "reject", "fork"} THEN x = NextVersion /\ FreshSyllabus # {} ELSE x = None
      BY <3>1
    <3>3. x \in 1..Cardinality(Syllabi) \cup {None}
          /\ (o \in {"create", "reject", "fork"} => x \in 1..(Cardinality(SyllabusUsed) + 1))
      BY <3>2, NextVersionTyped DEF SyllabusTypes
    <3>4. Is'
      BY <1>1, <1>4, <3>2, <3>3, RequestTyped
    <3> QED
      BY <1>1, <3>2, <3>3, <3>4, RequestsOver
  <2>2. CASE End(r)
    BY <1>1, <1>4, <2>2, RequestTyped, RequestsOver
  <2>3. CASE WriteDispatch(r)
    <3>1. req[r].on \in Syllabi /\ EndPublishing(r, req[r].on, "generate_syllabus")
      BY <2>3 DEF WriteDispatch, SyllabusTypes
    <3> QED
      BY <1>1, <1>4, <3>1, RequestTyped, RequestsOver
  <2> QED
    BY <1>4, <2>1, <2>2, <2>3 DEF SyllabusRequest, WriteSyllabus, WriteEdit, WriteDelete, WriteStatus
<1>5. ASSUME NEW w \in Workers, SyllabusTask(w), UNCHANGED <<req, raced>>
      PROVE  Is'
  <2>1. lost' \in SUBSET Syllabi /\ (Fault \/ UNCHANGED faults)
    <3>1. lost \in SUBSET Syllabi
      BY <1>1 DEF QueueTyped, BackendTypeOK
    <3>2. exec[w] # Idle => exec[w].to \in Syllabi
      BY <1>1 DEF QueueTyped, OnRows
    <3>3. In(w, "generate_syllabus", "failed") => exec[w] # Idle
      BY DEF In, Idle
    <3> QED
      BY <1>5, <3>1, <3>2, <3>3
      DEF SyllabusTask, StartGeneration, CommitGeneration, FailGeneration, ResetSyllabus, ResetFails
  <2>2. In(w, "generate_syllabus", "running") \/ In(w, "generate_syllabus", "failed") => exec[w] # Idle
    BY DEF In, Idle
  <2>3. \/ \E m \in Slots, p \in {"running", "failed"}, x \in {"locked", None} :
              Take(w, m, "generate_syllabus", p, x) /\ UNCHANGED again
        \/ Goto(w, "failed", None) /\ exec[w] # Idle /\ UNCHANGED <<msg, again>>
        \/ Finish(w)
        \/ Retry(w) /\ exec[w] # Idle
    BY <1>5, <2>2
    DEF SyllabusTask, StartGeneration, CommitGeneration, FailGeneration, ResetSyllabus, ResetFails
  <2> QED
    BY <1>1, <1>5, <2>1, <2>3, TaskTyped
<1>6. ASSUME Environment PROVE Is' /\ \A s \in Reqs : req'[s] = req[s] \/ req'[s].op = None
  BY <1>1, <1>6, EnvironmentTyped, RequestsOver
<1>7. Is' /\ \A s \in Reqs :
                \/ req'[s] = req[s] \/ req'[s].op \in {None, "publish"}
                \/ /\ req'[s].op = "dispatch" => req'[s].on \in Syllabi
                   /\ req'[s].op \in {"create", "reject", "fork"} =>
                         req'[s].mem \in 1..(Cardinality(SyllabusUsed) + 1)
  BY <1>4, <1>5, <1>6 DEF SyllabusNext
<1>8. ASSUME NEW s \in Reqs
      PROVE  /\ req'[s].op = "dispatch" => req'[s].on \in Syllabi
             /\ req'[s].op \in {"create", "reject", "fork"} =>
                   req'[s].mem \in 1..(Cardinality(SyllabusUsed') + 1)
  BY <1>1, <1>3, <1>7 DEF SyllabusTypes, SyllabusOps
<1>9. ASSUME NEW d \in Syllabi
      PROVE  syl'[d].ver \in 0..Cardinality(SyllabusUsed') /\ syl'[d].from \in {0} \cup Syllabi
  <2>1. syl[d].ver \in 0..Cardinality(SyllabusUsed) /\ syl[d].from \in {0} \cup Syllabi
    BY DEF SyllabusTypes
  <2>2. CASE syl'[d].ver = syl[d].ver /\ syl'[d].from = syl[d].from
    BY <1>3, <2>1, <2>2
  <2>3. ASSUME NEW r \in Reqs, WriteSyllabus(r), syl[d].status = "NONE", syl'[d].status = "DRAFT",
               syl'[d].ver = req[r].mem, syl'[d].from = IF req[r].on = None THEN 0 ELSE req[r].on
        PROVE  syl'[d].ver \in 0..Cardinality(SyllabusUsed') /\ syl'[d].from \in {0} \cup Syllabi
    <3>1. req[r].mem \in 1..(Cardinality(SyllabusUsed) + 1)
      BY <2>3 DEF SyllabusTypes, WriteSyllabus
    <3>2. d \in SyllabusUsed' /\ d \notin SyllabusUsed
      BY <2>3 DEF SyllabusUsed
    <3>3. req[r].on \in Syllabi \cup {None}
      BY <1>1 DEF QueueTyped, BackendTypeOK
    <3> QED
      BY <1>3, <2>3, <3>1, <3>2, <3>3
  <2> QED
    BY <1>0, <2>2, <2>3, SyllabusColumns
<1> QED
  BY <1>7, <1>8, <1>9 DEF SyllabusTypes

LEMMA SyllabusTypesCorrect ==
    ASSUME SyllabusInv, SyllabusTypes
    PROVE  SyllabusTypeOK
<1>1. PICK V : syl \in [Syllabi -> SyllabusRow(V)]
  BY DEF SyllabusInv, SyllabusShape
<1>2. \A d \in Syllabi : syl[d].ver \in 0..Cardinality(Syllabi)
  <2>1. SyllabusUsed \in SUBSET Syllabi
    BY DEF SyllabusUsed
  <2>2. /\ Cardinality(SyllabusUsed) \in Nat /\ Cardinality(Syllabi) \in Nat
        /\ Cardinality(SyllabusUsed) <= Cardinality(Syllabi)
    BY <2>1, Counting, SyllabiAssumption
  <2> QED
    BY <2>2 DEF SyllabusTypes
<1>3. \A d \in Syllabi : syl[d].from \in {0} \cup Syllabi
  BY DEF SyllabusTypes
<1>4. syl \in [Syllabi -> [status : SyllabusStatus \cup {"NONE", "GONE"},
                           ver : 0..Cardinality(Syllabi), from : {0} \cup Syllabi,
                           full : BOOLEAN, edited : BOOLEAN]]
  BY <1>1, <1>2, <1>3 DEF SyllabusRow
<1> QED
  BY <1>4 DEF SyllabusTypes, SyllabusTypeOK, QueueTyped

----------------------------------------------------------------------------
(* Course kits.                                                            *)

KitUsed == {k \in Kits : kit[k].status # "NONE"}

\* A version is at most the number of rows there have been, or the next one.
KitTypes ==
    /\ QueueTyped(KitOps, {"generate_course_kit"}, Kits, {"running", "failed"}, 1..Cardinality(Kits), {"locked"})
    /\ \A k \in Kits : kit[k].ver \in 0..Cardinality(KitUsed) /\ kit[k].from \in {0} \cup Kits
    /\ \A r \in Reqs :
          /\ req[r].op = "dispatch_kit" => req[r].on \in Kits
          /\ req[r].op \in {"create_kit", "fork_kit"} => req[r].mem \in 1..(Cardinality(KitUsed) + 1)

\* What a step does to the version and the source of a kit.
LEMMA KitColumns ==
    ASSUME NEW V, KitShape(V), KitNext, NEW k \in Kits
    PROVE  /\ kit[k].status # "NONE" => kit'[k].status # "NONE"
           /\ \/ kit'[k].ver = kit[k].ver /\ kit'[k].from = kit[k].from
              \/ \E r \in Reqs :
                    /\ WriteKit(r) /\ kit[k].status = "NONE" /\ kit'[k].status = "DRAFT"
                    /\ kit'[k].ver = req[r].mem
                    /\ kit'[k].from = IF req[r].on = None THEN 0 ELSE req[r].on
<1> DEFINE Same == (kit[k].status # "NONE" => kit'[k].status # "NONE")
                   /\ kit'[k].ver = kit[k].ver /\ kit'[k].from = kit[k].from
<1>1. kit \in [Kits -> KitRow(V)] /\ kit[k] \in KitRow(V)
  BY DEF KitShape
<1>2. ASSUME NEW j, NEW s, s # "NONE", kit' = [kit EXCEPT ![j].status = s] PROVE Same
  BY <1>1, <1>2 DEF KitRow
<1>3. ASSUME NEW j, NEW f, kit' = [kit EXCEPT ![j].full = f] PROVE Same
  BY <1>1, <1>3 DEF KitRow
<1>4. ASSUME NEW j, NEW s, NEW f, s # "NONE", kit' = [kit EXCEPT ![j].status = s, ![j].full = f] PROVE Same
  <2>1. CASE j = k
    <3>1. kit'[k] = [kit[k] EXCEPT !.status = s, !.full = f]
      BY <1>1, <1>4, <2>1
    <3> QED
      BY <1>1, <1>4, <3>1 DEF KitRow
  <2>2. CASE j # k
    BY <1>1, <1>4, <2>2
  <2> QED
    BY <2>1, <2>2
<1>5. CASE \E r \in Reqs : KitRequest(r)
  <2>1. PICK r \in Reqs : KitRequest(r)
    BY <1>5
  <2>2. CASE WriteKit(r)
    <3>1. CASE UNCHANGED kit
      BY <3>1
    <3>2. CASE \E b \in FreshKit : \E f :
              kit' = [kit EXCEPT ![b] = [status |-> "DRAFT", ver |-> req[r].mem,
                                         from |-> IF req[r].on = None THEN 0 ELSE req[r].on, full |-> f]]
      <4>1. PICK b \in FreshKit : \E f :
              kit' = [kit EXCEPT ![b] = [status |-> "DRAFT", ver |-> req[r].mem,
                                         from |-> IF req[r].on = None THEN 0 ELSE req[r].on, full |-> f]]
        BY <3>2
      <4>2. b \in Kits /\ kit[b].status = "NONE"
        BY DEF FreshKit
      <4> QED
        BY <1>1, <2>2, <4>1, <4>2
    <3> QED
      BY <2>2, <3>1, <3>2 DEF WriteKit
  <2>3. CASE WriteKitEdit(r)
    BY <1>3, <2>3 DEF WriteKitEdit
  <2>4. CASE WriteKitDelete(r) \/ WriteKitStatus(r) \/ WriteKitDispatch(r)
    <3>1. UNCHANGED kit \/ \E s \in {"GONE", "PUBLISHED", "ARCHIVED", "AI_GENERATING"} : SetKitStatus(req[r].on, s)
      BY <2>4 DEF WriteKitDelete, WriteKitStatus, WriteKitDispatch, KitMoved
    <3> QED
      BY <1>2, <3>1 DEF SetKitStatus
  <2>5. CASE KitCheck(r) /\ UNCHANGED kit
    BY <2>5
  <2> QED
    BY <2>1, <2>2, <2>3, <2>4, <2>5 DEF KitRequest
<1>6. CASE \E w \in Workers : KitTask(w)
  <2>1. PICK w \in Workers : KitTask(w)
    BY <1>6
  <2>2. CASE CommitKit(w)
    BY <1>4, <2>2 DEF CommitKit
  <2>3. CASE ResetKit(w)
    BY <1>2, <2>3 DEF ResetKit, SetKitStatus
  <2> QED
    BY <2>1, <2>2, <2>3 DEF KitTask, StartKit, FailKit, ResetKitFails
<1>7. CASE UNCHANGED kit
  BY <1>7
<1> QED
  BY <1>5, <1>6, <1>7 DEF KitNext

\* The requests that begin, and what they read.
LEMMA KitChecks ==
    ASSUME NEW r \in Reqs, KitCheck(r)
    PROVE  \E o \in KitOps, k \in Kits \cup {None} : \E x :
              /\ Begin(r, o, k, x)
              /\ o = "dispatch_kit" => k \in Kits
              /\ IF o \in {"create_kit", "fork_kit"} THEN x \in {1, NextKitVersion} /\ FreshKit # {} ELSE x = None
  BY DEF KitCheck, CreateKit, EditKit, DeleteKit, DispatchKit, PublishKit, ArchiveKit, ForkKit, KitOps

\* The next version.
LEMMA NextKitVersionTyped ==
    ASSUME \A k \in Kits : kit[k].ver \in 0..Cardinality(KitUsed)
    PROVE  /\ {1, NextKitVersion} \subseteq 1..(Cardinality(KitUsed) + 1)
           /\ FreshKit # {} => {1, NextKitVersion} \subseteq 1..Cardinality(Kits)
<1> DEFINE S == {0} \cup {kit[k].ver : k \in {j \in Kits : KitExists(j)}}
<1>1. KitUsed \in SUBSET Kits
  BY DEF KitUsed
<1>2. Cardinality(KitUsed) \in Nat /\ Cardinality(Kits) \in Nat
      /\ (KitUsed # Kits => Cardinality(KitUsed) + 1 <= Cardinality(Kits))
  BY <1>1, Counting, KitsAssumption
<1>3. S \subseteq 0..Cardinality(KitUsed) /\ S # {}
  BY <1>2
<1>4. Max(S) \in S
  BY <1>2, <1>3, MaxOfBounded
<1>5. Max(S) \in 0..Cardinality(KitUsed)
  BY <1>3, <1>4
<1>6. NextKitVersion = 1 + Max(S)
  BY DEF NextKitVersion
<1>7. FreshKit # {} => KitUsed # Kits
  BY DEF FreshKit, KitUsed
<1> HIDE DEF S
<1> QED
  BY <1>2, <1>5, <1>6, <1>7

LEMMA KitTypesInit ==
    ASSUME KitInit
    PROVE  KitTypes
<1>1. QueueTyped(KitOps, {"generate_course_kit"}, Kits, {"running", "failed"}, 1..Cardinality(Kits), {"locked"})
  BY InitTyped DEF KitInit
<1>2. KitUsed = {} /\ \A k \in Kits : kit[k].ver = 0 /\ kit[k].from = 0
  BY DEF KitInit, KitUsed, UnusedKit
<1>3. Cardinality(KitUsed) = 0
  BY <1>2, FS_EmptySet
<1>4. \A r \in Reqs : req[r].op = None
  BY DEF KitInit, BackendInit, NoReq
<1> QED
  BY <1>1, <1>2, <1>3, <1>4, KitsAssumption DEF KitTypes, KitOps

LEMMA KitTypesNext ==
    ASSUME KitInv, KitTypes, KitNext
    PROVE  KitTypes'
<1> DEFINE Is == QueueTyped(KitOps, {"generate_course_kit"}, Kits, {"running", "failed"}, 1..Cardinality(Kits), {"locked"})
<1>0. PICK V : KitShape(V)
  BY DEF KitInv
<1>1. Is /\ None \notin KitOps /\ "publish" \notin KitOps
  BY KitsAssumption DEF KitTypes, KitOps
<1>2. KitUsed \in SUBSET Kits /\ KitUsed' \in SUBSET Kits /\ KitUsed \subseteq KitUsed'
  BY <1>0, KitColumns DEF KitUsed
<1>3. /\ Cardinality(KitUsed) \in Nat /\ Cardinality(KitUsed') \in Nat
      /\ Cardinality(KitUsed) <= Cardinality(KitUsed')
      /\ KitUsed # KitUsed' => Cardinality(KitUsed) + 1 <= Cardinality(KitUsed')
  BY <1>2, Counting, KitsAssumption
<1>4. ASSUME NEW r \in Reqs, KitRequest(r), UNCHANGED queue
      PROVE  /\ Is'
             /\ \A s \in Reqs :
                   \/ req'[s] = req[s] \/ req'[s].op \in {None, "publish"}
                   \/ /\ req'[s].op = "dispatch_kit" => req'[s].on \in Kits
                      /\ req'[s].op \in {"create_kit", "fork_kit"} =>
                            req'[s].mem \in 1..(Cardinality(KitUsed) + 1)
  <2>1. CASE KitCheck(r)
    <3>1. PICK o \in KitOps, k \in Kits \cup {None} : \E x :
              /\ Begin(r, o, k, x)
              /\ o = "dispatch_kit" => k \in Kits
              /\ IF o \in {"create_kit", "fork_kit"} THEN x \in {1, NextKitVersion} /\ FreshKit # {} ELSE x = None
      BY <2>1, KitChecks
    <3>2. PICK x :
              /\ Begin(r, o, k, x)
              /\ o = "dispatch_kit" => k \in Kits
              /\ IF o \in {"create_kit", "fork_kit"} THEN x \in {1, NextKitVersion} /\ FreshKit # {} ELSE x = None
      BY <3>1
    <3>3. x \in 1..Cardinality(Kits) \cup {None}
          /\ (o \in {"create_kit", "fork_kit"} => x \in 1..(Cardinality(KitUsed) + 1))
      BY <3>2, NextKitVersionTyped DEF KitTypes
    <3>4. Is'
      BY <1>1, <1>4, <3>2, <3>3, RequestTyped
    <3> QED
      BY <1>1, <3>2, <3>3, <3>4, RequestsOver
  <2>2. CASE End(r)
    BY <1>1, <1>4, <2>2, RequestTyped, RequestsOver
  <2>3. CASE WriteKitDispatch(r)
    <3>1. req[r].on \in Kits /\ EndPublishing(r, req[r].on, "generate_course_kit")
      BY <2>3 DEF WriteKitDispatch, KitTypes
    <3> QED
      BY <1>1, <1>4, <3>1, RequestTyped, RequestsOver
  <2> QED
    BY <1>4, <2>1, <2>2, <2>3 DEF KitRequest, WriteKit, WriteKitEdit, WriteKitDelete, WriteKitStatus
<1>5. ASSUME NEW w \in Workers, KitTask(w), UNCHANGED <<req, raced>>
      PROVE  Is'
  <2>1. lost' \in SUBSET Kits /\ (Fault \/ UNCHANGED faults)
    <3>1. lost \in SUBSET Kits
      BY <1>1 DEF QueueTyped, BackendTypeOK
    <3>2. exec[w] # Idle => exec[w].to \in Kits
      BY <1>1 DEF QueueTyped, OnRows
    <3>3. In(w, "generate_course_kit", "failed") => exec[w] # Idle
      BY DEF In, Idle
    <3> QED
      BY <1>5, <3>1, <3>2, <3>3 DEF KitTask, StartKit, CommitKit, FailKit, ResetKit, ResetKitFails
  <2>2. In(w, "generate_course_kit", "running") \/ In(w, "generate_course_kit", "failed") => exec[w] # Idle
    BY DEF In, Idle
  <2>3. \/ \E m \in Slots, p \in {"running", "failed"}, x \in {"locked", None} :
              Take(w, m, "generate_course_kit", p, x) /\ UNCHANGED again
        \/ Goto(w, "failed", None) /\ exec[w] # Idle /\ UNCHANGED <<msg, again>>
        \/ Finish(w)
        \/ Retry(w) /\ exec[w] # Idle
    BY <1>5, <2>2 DEF KitTask, StartKit, CommitKit, FailKit, ResetKit, ResetKitFails
  <2> QED
    BY <1>1, <1>5, <2>1, <2>3, TaskTyped
<1>6. ASSUME Environment PROVE Is' /\ \A s \in Reqs : req'[s] = req[s] \/ req'[s].op = None
  BY <1>1, <1>6, EnvironmentTyped, RequestsOver
<1>7. Is' /\ \A s \in Reqs :
                \/ req'[s] = req[s] \/ req'[s].op \in {None, "publish"}
                \/ /\ req'[s].op = "dispatch_kit" => req'[s].on \in Kits
                   /\ req'[s].op \in {"create_kit", "fork_kit"} =>
                         req'[s].mem \in 1..(Cardinality(KitUsed) + 1)
  BY <1>4, <1>5, <1>6 DEF KitNext
<1>8. ASSUME NEW s \in Reqs
      PROVE  /\ req'[s].op = "dispatch_kit" => req'[s].on \in Kits
             /\ req'[s].op \in {"create_kit", "fork_kit"} =>
                   req'[s].mem \in 1..(Cardinality(KitUsed') + 1)
  BY <1>1, <1>3, <1>7 DEF KitTypes, KitOps
<1>9. ASSUME NEW k \in Kits
      PROVE  kit'[k].ver \in 0..Cardinality(KitUsed') /\ kit'[k].from \in {0} \cup Kits
  <2>1. kit[k].ver \in 0..Cardinality(KitUsed) /\ kit[k].from \in {0} \cup Kits
    BY DEF KitTypes
  <2>2. CASE kit'[k].ver = kit[k].ver /\ kit'[k].from = kit[k].from
    BY <1>3, <2>1, <2>2
  <2>3. ASSUME NEW r \in Reqs, WriteKit(r), kit[k].status = "NONE", kit'[k].status = "DRAFT",
               kit'[k].ver = req[r].mem, kit'[k].from = IF req[r].on = None THEN 0 ELSE req[r].on
        PROVE  kit'[k].ver \in 0..Cardinality(KitUsed') /\ kit'[k].from \in {0} \cup Kits
    <3>1. req[r].mem \in 1..(Cardinality(KitUsed) + 1)
      BY <2>3 DEF KitTypes, WriteKit
    <3>2. k \in KitUsed' /\ k \notin KitUsed
      BY <2>3 DEF KitUsed
    <3>3. req[r].on \in Kits \cup {None}
      BY <1>1 DEF QueueTyped, BackendTypeOK
    <3> QED
      BY <1>3, <2>3, <3>1, <3>2, <3>3
  <2> QED
    BY <1>0, <2>2, <2>3, KitColumns
<1> QED
  BY <1>7, <1>8, <1>9 DEF KitTypes

LEMMA KitTypesCorrect ==
    ASSUME KitInv, KitTypes
    PROVE  KitTypeOK
<1>1. PICK V : kit \in [Kits -> KitRow(V)]
  BY DEF KitInv, KitShape
<1>2. \A k \in Kits : kit[k].ver \in 0..Cardinality(Kits)
  <2>1. KitUsed \in SUBSET Kits
    BY DEF KitUsed
  <2>2. /\ Cardinality(KitUsed) \in Nat /\ Cardinality(Kits) \in Nat
        /\ Cardinality(KitUsed) <= Cardinality(Kits)
    BY <2>1, Counting, KitsAssumption
  <2> QED
    BY <2>2 DEF KitTypes
<1>3. \A k \in Kits : kit[k].from \in {0} \cup Kits
  BY DEF KitTypes
<1>4. kit \in [Kits -> [status : CourseKitStatus \cup {"NONE", "GONE"},
                        ver : 0..Cardinality(Kits), from : {0} \cup Kits, full : BOOLEAN]]
  BY <1>1, <1>2, <1>3 DEF KitRow
<1> QED
  BY <1>4 DEF KitTypes, KitTypeOK, QueueTyped

----------------------------------------------------------------------------
(* Learning packages.                                                      *)

PackageTypes ==
    /\ QueueTyped(PackageOps, {"curate_learning_package", "index_package_rag"}, Packages,
                  {"running", "failed"}, Nat \X (Items \cup {None}), Nat)
    /\ mixed \in SUBSET Packages

LEMMA PackageTypesInit ==
    ASSUME PackageInit
    PROVE  PackageTypes
  BY InitTyped DEF PackageInit, PackageTypes

LEMMA PackageTypesNext ==
    ASSUME PackageInv, PackageTypes, PackageNext
    PROVE  PackageTypes'
<1> DEFINE Is == QueueTyped(PackageOps, {"curate_learning_package", "index_package_rag"}, Packages,
                            {"running", "failed"}, Nat \X (Items \cup {None}), Nat)
<1>0. PICK V : PackageShape(V)
  BY DEF PackageInv
<1>1. Is /\ "publish" \notin PackageOps
  BY DEF PackageTypes, PackageOps
<1>2. \A p \in Packages : pkg[p].item_count \in Nat /\ pkg[p].items \subseteq Items
  BY <1>0 DEF PackageShape, PackageRow
<1>3. ASSUME NEW r \in Reqs, PackageRequest(r), UNCHANGED queue
      PROVE  Is'
  <2>1. CASE \E o \in PackageOps, d \in Packages \cup {None} : \E x :
                /\ Begin(r, o, d, x)
                /\ o \in {"add", "remove"} =>
                      d \in Packages /\ \E i \in Items \cup {None} : x = <<pkg[d].item_count, i>>
                /\ o \notin {"add", "remove"} => x = None
    <3>1. PICK o \in PackageOps, d \in Packages \cup {None} : \E x :
                /\ Begin(r, o, d, x)
                /\ o \in {"add", "remove"} =>
                      d \in Packages /\ \E i \in Items \cup {None} : x = <<pkg[d].item_count, i>>
                /\ o \notin {"add", "remove"} => x = None
      BY <2>1
    <3>2. \E x \in (Nat \X (Items \cup {None})) \cup {None} : Begin(r, o, d, x)
      BY <1>2, <3>1
    <3> QED
      BY <1>1, <1>3, <3>2, RequestTyped
  <2>2. CASE End(r)
    BY <1>1, <1>3, <2>2, RequestTyped
  <2>3. CASE WriteIndexing(r)
    <3>1. req[r].on \in Packages /\ EndPublishing(r, req[r].on, "index_package_rag")
      BY <2>3 DEF WriteIndexing, PackageInv, PackageSafe, PackageReqSound
    <3> QED
      BY <1>1, <1>3, <3>1, RequestTyped
  <2>4. CASE WriteCuration(r)
    <3>1. \E p \in Packages : EndPublishing(r, p, "curate_learning_package")
      BY <2>4 DEF WriteCuration, FreshPackage
    <3> QED
      BY <1>1, <1>3, <3>1, RequestTyped
  <2> QED
    BY <1>0, <1>3, <2>1, <2>2, <2>3, <2>4, PackageRequests
<1>4. ASSUME NEW w \in Workers, PackageTask(w), UNCHANGED <<req, raced>>
      PROVE  Is'
  <2>1. lost \in SUBSET Packages /\ UNCHANGED lost /\ (Fault \/ UNCHANGED faults)
    BY <1>1, <1>4
    DEF QueueTyped, BackendTypeOK, PackageTask, StartCuration, StartIndexing, CommitCuration, FailCuration,
        ResetPackage, CommitIndexing, FailIndexing
  <2>2. ASSUME NEW t, NEW p \in {"running", "failed"}, In(w, t, p) PROVE exec[w] # Idle
    BY <2>2 DEF In, Idle
  <2>3. ASSUME NEW m \in Slots, StartCuration(w, m)
        PROVE  \E p \in {"running", "failed"}, x \in Nat :
                  Take(w, m, "curate_learning_package", p, x) /\ UNCHANGED again
    <3>1. msg[m].to \in Packages
      BY <1>1, <2>3 DEF StartCuration, Take, QueueTyped, OnRows
    <3>2. Cardinality(pkg[msg[m].to].items \cap Notes) \in Nat
      <4>1. IsFiniteSet(pkg[msg[m].to].items \cap Notes)
        BY FS_Subset, PackagesAssumption
      <4> QED
        BY <4>1, FS_CardinalityType
    <3> QED
      BY <2>3, <3>2 DEF StartCuration
  <2>4. ASSUME NEW m \in Slots, StartIndexing(w, m)
        PROVE  Take(w, m, "index_package_rag", "running", None) /\ UNCHANGED again
    BY <2>4 DEF StartIndexing
  <2>5. CASE FailCuration(w)
    BY <1>1, <1>4, <2>1, <2>2, <2>5, TaskTyped DEF FailCuration
  <2>6. CASE CommitCuration(w) \/ ResetPackage(w) \/ CommitIndexing(w) \/ FailIndexing(w)
    <3>1. Finish(w) \/ (Retry(w) /\ exec[w] # Idle)
      BY <2>2, <2>6 DEF CommitCuration, ResetPackage, CommitIndexing, FailIndexing
    <3> QED
      BY <1>1, <1>4, <2>1, <3>1, TaskTyped
  <2>7. CASE \E m \in Slots : StartCuration(w, m) \/ StartIndexing(w, m)
    BY <1>1, <1>4, <2>1, <2>3, <2>4, <2>7, TaskTyped
  <2> QED
    BY <1>4, <2>5, <2>6, <2>7 DEF PackageTask
<1>5. ASSUME Environment PROVE Is'
  BY <1>1, <1>5, EnvironmentTyped
<1>6. mixed' \in SUBSET Packages
  <2>1. mixed \in SUBSET Packages
    BY DEF PackageTypes
  <2>2. ASSUME NEW r \in Reqs, PackageRequest(r)
        PROVE  mixed' = mixed \/ \E p \in Packages : mixed' = mixed \cup {p}
    <3>1. CASE \E p \in Packages : AddItem(r, p) \/ RemoveItem(r, p)
      <4>1. PICK p \in Packages : AddItem(r, p) \/ RemoveItem(r, p)
        BY <3>1
      <4> QED
        BY <4>1 DEF AddItem, RemoveItem, Reading
    <3> QED
      BY <2>2, <3>1
      DEF PackageRequest, DispatchCuration, WriteCuration, WriteIndexing, DispatchIndexing, WriteAdd, WriteRemove,
          BumpSyllabus, WriteBump
  <2>3. ASSUME NEW w \in Workers, PackageTask(w)
        PROVE  mixed' = mixed \/ \E p \in Packages : mixed' = mixed \cup {p}
    <3>1. ASSUME NEW m \in Slots, StartCuration(w, m)
          PROVE  mixed' = mixed \/ \E p \in Packages : mixed' = mixed \cup {p}
      <4>1. msg[m].to \in Packages
        BY <1>1, <3>1 DEF StartCuration, Take, QueueTyped, OnRows
      <4> QED
        BY <3>1, <4>1 DEF StartCuration
    <3> QED
      BY <2>3, <3>1
      DEF PackageTask, StartIndexing, CommitCuration, FailCuration, ResetPackage, CommitIndexing, FailIndexing
  <2> QED
    BY <2>1, <2>2, <2>3 DEF PackageNext
<1> QED
  BY <1>3, <1>4, <1>5, <1>6 DEF PackageNext, PackageTypes

LEMMA PackageTypesCorrect ==
    ASSUME PackageInv, PackageTypes
    PROVE  PackageTypeOK
  BY DEF PackageInv, PackageShape, PackageRow, PackageTypes, PackageTypeOK, QueueTyped

----------------------------------------------------------------------------
(* Files.                                                                  *)

FilesTypes ==
    /\ QueueTyped({"export", "create_asset", "delete_asset"}, {"export"}, FileRows,
                  {"started", "put", "stored", "raised", "refused"}, Formats, ExportKeys)
    /\ document \in BOOLEAN /\ urls \subseteq Uploads

LEMMA FilesTypesInit ==
    ASSUME ExportsInit
    PROVE  FilesTypes
  BY InitTyped DEF ExportsInit, FilesTypes

LEMMA FilesTypesNext ==
    ASSUME FilesInv, FilesTypes, FilesNext
    PROVE  FilesTypes'
<1> DEFINE Is == QueueTyped({"export", "create_asset", "delete_asset"}, {"export"}, FileRows,
                            {"started", "put", "stored", "raised", "refused"}, Formats, ExportKeys)
<1>1. Is /\ Keys \subseteq FileRows /\ ExportJobs \subseteq FileRows
  BY DEF FilesTypes, FileRows
<1>2. ASSUME NEW r \in Reqs, UNCHANGED queue,
             \/ End(r)
             \/ \E k \in Keys : Begin(r, "create_asset", k, None) \/ Begin(r, "delete_asset", k, None)
             \/ \E f \in Formats : Begin(r, "export", None, f)
             \/ \E j \in ExportJobs : EndPublishing(r, j, "export")
      PROVE  Is'
  <2>1. \A f : f \in Formats => f \in Formats \cup {None}
    OBVIOUS
  <2>2. CASE End(r)
    BY <1>1, <1>2, <2>2, RequestTyped
  <2>3. CASE \E k \in Keys : Begin(r, "create_asset", k, None) \/ Begin(r, "delete_asset", k, None)
    BY <1>1, <1>2, <2>3, RequestTyped
  <2>4. CASE \E f \in Formats : Begin(r, "export", None, f)
    BY <1>1, <1>2, <2>1, <2>4, RequestTyped
  <2>5. CASE \E j \in ExportJobs : EndPublishing(r, j, "export")
    BY <1>1, <1>2, <2>5, RequestTyped
  <2> QED
    BY <1>2, <2>2, <2>3, <2>4, <2>5
<1>3. ASSUME NEW r \in Reqs,
             \/ WriteAsset(r) \/ DeleteOnRequest(r) \/ WriteExportJob(r)
             \/ \E k \in Keys : CreateAsset(r, k) \/ DeleteAsset(r, k)
             \/ \E format \in Formats : DispatchExport(r, format)
      PROVE  Is'
  <2>1. /\ UNCHANGED queue
        /\ \/ End(r)
           \/ \E k \in Keys : Begin(r, "create_asset", k, None) \/ Begin(r, "delete_asset", k, None)
           \/ \E f \in Formats : Begin(r, "export", None, f)
           \/ \E j \in ExportJobs : EndPublishing(r, j, "export")
    BY <1>3, FileRequests
  <2> QED
    BY <1>2, <2>1
<1>4. lost \in SUBSET FileRows
  BY <1>1 DEF QueueTyped, BackendTypeOK
<1>5. ASSUME NEW w \in Workers, ExportTask(w), UNCHANGED <<req, raced>>
      PROVE  Is'
  <2>1. UNCHANGED lost /\ (Fault \/ UNCHANGED faults) /\ exec[w] # Idle
    BY <1>5
    DEF ExportTask, PutExport, RefuseExport, CommitExport, FailExport, OnSuccess, OnRetry, OnFailure, WriteJob, In, Idle
  <2>2. exec[w].mem \in ExportKeys \cup {None}
    BY <1>1 DEF QueueTyped, BackendTypeOK
  <2>3. \/ \E p \in {"put", "refused", "stored", "raised"}, k \in ExportKeys \cup {None} :
              Goto(w, p, k) /\ UNCHANGED <<msg, again>>
        \/ Finish(w) \/ Retry(w)
    BY <1>5, <2>2, FileTasks
  <2> QED
    BY <1>1, <1>4, <1>5, <2>1, <2>3, TaskTyped
<1>6. ASSUME NEW w \in Workers, NEW m \in Slots, BeforeStart(w, m)
      PROVE  Is'
  <2>1. Take(w, m, "export", "started", None) /\ UNCHANGED <<req, raced, again, lost>> /\ (Fault \/ UNCHANGED faults)
    BY <1>6 DEF BeforeStart, WriteJob
  <2> QED
    BY <1>1, <1>4, <2>1, TaskTyped
<1>7. ASSUME Environment PROVE Is'
  BY <1>1, <1>7, EnvironmentTyped
<1>8. ASSUME UNCHANGED backend PROVE Is'
  BY <1>1, <1>8 DEF backend, queue, QueueTyped, BackendTypeOK, OnRows, Idle
<1>9. Is'
  BY <1>3, <1>5, <1>6, <1>7, <1>8, FilesSteps
  DEF DocumentChanges, Sweep, SweepSelect, SweepCommit, GenerateUploadUrl, PutUpload
<1>10. (document' = document \/ document' = ~document) /\ (urls' = urls \/ \E u \in Uploads : urls' = urls \cup {u})
  <2>1. ASSUME NEW w \in Workers, ExportTask(w)
        PROVE  UNCHANGED <<document, urls>>
    BY <2>1
    DEF ExportTask, PutExport, RefuseExport, CommitExport, FailExport, OnSuccess, OnRetry, OnFailure, files
  <2> QED
    BY <2>1, FilesSteps
    DEF files, DocumentChanges, Sweep, SweepSelect, SweepCommit, GenerateUploadUrl, PutUpload, BeforeStart,
        WriteAsset, DeleteOnRequest, WriteExportJob, CreateAsset, DeleteAsset, DispatchExport
<1>11. document' \in BOOLEAN
  BY <1>10 DEF FilesTypes
<1>12. urls' \subseteq Uploads
  BY <1>10 DEF FilesTypes
<1> QED
  BY <1>9, <1>11, <1>12 DEF FilesTypes

LEMMA FilesTypesCorrect ==
    ASSUME FilesInv, FilesTypes
    PROVE  ExportsTypeOK
<1>1. \A j \in selected : j \in ExportJobs
  BY DEF FilesInv, FilesSafe, Asked
<1>2. PICK V : FilesShape(V)
  BY DEF FilesInv
<1> QED
  BY <1>1, <1>2 DEF FilesShape, FilesTypes, ExportsTypeOK, QueueTyped, FileRows, JobRow, ObjectRow
=============================================================================
