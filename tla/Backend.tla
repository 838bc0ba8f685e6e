------------------------------- MODULE Backend -------------------------------
(***************************************************************************)
(* What the services of Vidya share: API requests that check a row in one  *)
(* statement and write it in a later one, the broker and the heavy workers *)
(* (acks_late), and the failures both are exposed to.  A component EXTENDS *)
(* this module, keeps its rows in variables of its own and builds its      *)
(* actions from the parts below.                                           *)
(*                                                                         *)
(* A request: req[r] is the operation, the row it is on, what its check    *)
(* read and the task it still has to publish.  A message: msg[m] is the    *)
(* task, the row it is for, where it is ("none", "queued", or the worker   *)
(* holding it) and the retries behind it.                                  *)
(***************************************************************************)
EXTENDS Naturals, FiniteSets

CONSTANTS
    Reqs,        \* concurrent API requests
    Workers,     \* Celery worker processes
    Slots,       \* bound: messages in flight at once
    None,        \* no row, no operation, nothing remembered
    MaxRetries,  \* max_retries of the tasks
    MaxFaults    \* bound: crashes, failing requests and tasks, early redeliveries and
                 \* overlapping requests, all told

ASSUME BackendAssumption ==
    /\ MaxRetries \in Nat
    /\ MaxFaults \in Nat
    /\ {"none", "queued"} \cap Workers = {}
    /\ None \notin Slots \cup {"publish"}

VARIABLES
    req,     \* the API requests between their check and their write
    msg,     \* the messages
    exec,    \* what each worker runs, how far it got and what it remembers
    faults,
    raced,   \* history: two requests overlapped
    again,   \* history: rows whose message was retried or redelivered
    lost     \* history: rows whose last message vanished unprocessed

queue == <<msg, exec, again, lost>>
backend == <<req, raced, queue, faults>>

NoReq == [op |-> None, on |-> None, mem |-> None, task |-> None]
NoMsg == [task |-> None, to |-> None, at |-> "none", tries |-> 0]
Idle == [slot |-> None, task |-> None, to |-> None, phase |-> "idle", mem |-> None]

\* What a component's requests and tasks are, the rows they are on, how far a
\* task gets, and what a request and a task remember.
BackendTypeOK(Ops, Tasks, Rows, Phases, Read, Noted) ==
    /\ req \in [Reqs -> [op : Ops \cup {None, "publish"}, on : Rows \cup {None},
                         mem : Read \cup {None}, task : Tasks \cup {None}]]
    /\ msg \in [Slots -> [task : Tasks \cup {None}, to : Rows \cup {None},
                          at : {"none", "queued"} \cup Workers, tries : 0..MaxRetries]]
    /\ exec \in [Workers -> [slot : Slots \cup {None}, task : Tasks \cup {None},
                             to : Rows \cup {None}, phase : Phases \cup {"idle"}, mem : Noted \cup {None}]]
    /\ faults \in 0..MaxFaults
    /\ raced \in BOOLEAN
    /\ again \in SUBSET Rows /\ lost \in SUBSET Rows

BackendInit ==
    /\ req = [r \in Reqs |-> NoReq]
    /\ msg = [m \in Slots |-> NoMsg]
    /\ exec = [w \in Workers |-> Idle]
    /\ faults = 0
    /\ raced = FALSE
    /\ again = {} /\ lost = {}

----------------------------------------------------------------------------
(* Requests.                                                               *)

Fault == faults < MaxFaults /\ faults' = faults + 1

\* The check of op on a row has passed; mem is what it read for later.
Begin(r, op, on, mem) ==
    /\ req[r] = NoReq
    /\ req' = [req EXCEPT ![r] = [NoReq EXCEPT !.op = op, !.on = on, !.mem = mem]]
    /\ IF \E s \in Reqs \ {r} : req[s].op \notin {None, "publish"}
       THEN Fault /\ raced' = TRUE
       ELSE UNCHANGED <<raced, faults>>

\* COMMIT or ROLLBACK, and the response.
End(r) == req' = [req EXCEPT ![r] = NoReq] /\ UNCHANGED <<raced, faults>>

\* COMMIT, with a message still to be published.
EndPublishing(r, on, task) ==
    /\ req' = [req EXCEPT ![r] = [NoReq EXCEPT !.op = "publish", !.on = on, !.task = task]]
    /\ UNCHANGED <<raced, faults>>

\* task.delay(...)
Publish(r) ==
    /\ req[r].op = "publish"
    /\ \E m \in Slots :
          /\ msg[m].at = "none"
          /\ msg' = [msg EXCEPT ![m] = [task |-> req[r].task, to |-> req[r].on,
                                        at |-> "queued", tries |-> 0]]
    /\ End(r)
    /\ UNCHANGED <<exec, again, lost>>

\* The API process dies, or a statement fails: the transaction is rolled back,
\* and a message that was still to be published never is.
Abandon(r) ==
    /\ req[r] # NoReq
    /\ Fault
    /\ lost' = IF req[r].op = "publish" THEN lost \cup {req[r].on} ELSE lost
    /\ req' = [req EXCEPT ![r] = NoReq]
    /\ UNCHANGED <<raced, msg, exec, again>>

----------------------------------------------------------------------------
(* Workers.                                                                *)

\* Worker w takes message m of a task and enters a phase.
Take(w, m, task, phase, mem) ==
    /\ exec[w] = Idle
    /\ msg[m].at = "queued" /\ msg[m].task = task
    /\ msg' = [msg EXCEPT ![m].at = w]
    /\ exec' = [exec EXCEPT ![w] = [slot |-> m, task |-> task, to |-> msg[m].to,
                                    phase |-> phase, mem |-> mem]]

In(w, task, phase) == exec[w].task = task /\ exec[w].phase = phase

Goto(w, phase, mem) == exec' = [exec EXCEPT ![w].phase = phase, ![w].mem = mem]

Acked(w) == [msg EXCEPT ![exec[w].slot] = IF @.at = w THEN NoMsg ELSE @]

\* The task returns, or raises what is not retried.
Finish(w) ==
    /\ msg' = Acked(w)
    /\ exec' = [exec EXCEPT ![w] = Idle]
    /\ UNCHANGED again

\* The task raises one of autoretry_for with retries left: a new message.
Retry(w) ==
    LET m == exec[w].slot IN
    /\ msg[m].at = w
    /\ msg[m].tries < MaxRetries
    /\ msg' = [msg EXCEPT ![m].at = "queued", ![m].tries = @ + 1]
    /\ exec' = [exec EXCEPT ![w] = Idle]
    /\ again' = again \cup {exec[w].to}

\* The container of a worker dies: its message stays unacknowledged.
WorkerCrash(w) ==
    /\ exec[w] # Idle
    /\ Fault
    /\ exec' = [exec EXCEPT ![w] = Idle]
    /\ UNCHANGED <<req, raced, msg, again, lost>>

\* The pool process dies: the worker acknowledges the message for it.
ProcessLost(w) ==
    /\ exec[w] # Idle
    /\ Fault
    /\ msg' = Acked(w)
    /\ lost' = lost \cup {exec[w].to}
    /\ exec' = [exec EXCEPT ![w] = Idle]
    /\ UNCHANGED <<req, raced, again>>

\* The worker died, or the visibility timeout passed while it still works (a fault).
Redeliver(m) ==
    /\ msg[m].at \in Workers
    /\ \/ exec[msg[m].at].slot # m /\ UNCHANGED faults
       \/ exec[msg[m].at].slot = m /\ Fault
    /\ msg' = [msg EXCEPT ![m].at = "queued"]
    /\ again' = again \cup {msg[m].to}
    /\ UNCHANGED <<req, raced, exec, lost>>

Environment ==
    \/ \E r \in Reqs : Publish(r) \/ Abandon(r)
    \/ \E w \in Workers : WorkerCrash(w) \/ ProcessLost(w)
    \/ \E m \in Slots : Redeliver(m)

\* A request that committed publishes (SF: Slots is a bound of the model, the
\* queue has none), and the broker gives a dead worker's message back.
EnvironmentFairness ==
    /\ \A r \in Reqs : SF_backend(Publish(r))
    /\ \A m \in Slots : WF_backend(Redeliver(m))
=============================================================================
