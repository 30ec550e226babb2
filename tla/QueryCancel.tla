----------------------------- MODULE QueryCancel -----------------------------
(***************************************************************************)
(* How a running database query is interrupted.                            *)
(*                                                                         *)
(* Before a worker runs a query with Database.fetchall_interruptable() it  *)
(* queues a "cancel-pg-query" job for its connection, due in a day, and    *)
(* removes it once it has the results.  To interrupt the worker, the API   *)
(* (WorkerManager.request_interrupt) or the SIGTERM handler                *)
(* (WorkerManager.abort) makes that job due; the delegator then starts a   *)
(* QueryCanceller, which asks PostgreSQL to cancel whatever the connections*)
(* of that name are doing.                                                 *)
(*                                                                         *)
(* One worker that runs up to MaxQueries queries in turn; the delegator is *)
(* reduced to this one job.  Module WorkerManager has it in full.          *)
(***************************************************************************)
EXTENDS Integers

CONSTANTS
    MaxQueries,      \* bound: interruptible queries the worker makes
    CanTimeOut,      \* a query may run for longer than interruptable_timeout
    CancellerFails   \* the QueryCanceller may raise an exception

ASSUME QueryCancelAssumption ==
    /\ MaxQueries \in Nat
    /\ CanTimeOut \in BOOLEAN
    /\ CancellerFails \in BOOLEAN

VARIABLES
    row,        \* the cancel job: its state, and whether it is due
    worker,     \* the worker: pc, the number of the query, its connection
    overdue,    \* the query has taken longer than interruptable_timeout
    interrupted,\* worker.interrupted # INTERRUPT_NONE
    seen,       \* the delegator's snapshot has the cancel job
    canceller,  \* the QueryCanceller: where it is, and the connection it saw
    api,        \* request_interrupt(), called by the API worker
    handler     \* abort(), called by SIGTERM in the main thread

vars == <<row, worker, overdue, interrupted, seen, canceller, api, handler>>

NoRow == [state |-> "absent", due |-> FALSE]

\* "sent" and "resent": PostgreSQL runs the query for the first time, or again
\* after reconnecting; "cancelled" and "recancelled": it cancelled that one.
Running == worker.pc \in {"sent", "resent"}

CancelJob == [state: {"absent", "queued", "claimed", "parked"}, due: BOOLEAN]

QueryWorker ==
    [pc: {"ready", "queued", "sent", "cancelled", "resent", "recancelled",
          "fetched", "interrupted", "failed", "done"},
     query: Nat, conn: Nat]

QueryCanceller == [pc: {"none", "new", "kill", "finish"}, conn: Nat]

TypeOK ==
    /\ row \in CancelJob
    /\ worker \in QueryWorker
    /\ overdue \in BOOLEAN
    /\ interrupted \in BOOLEAN
    /\ seen \in BOOLEAN
    /\ canceller \in QueryCanceller
    /\ api \in {"idle", "look", "claim", "release", "returned", "crashed"}
    /\ handler \in {"idle", "claim", "release", "wait", "returned", "crashed"}

Init ==
    /\ row = NoRow
    /\ worker = [pc |-> "ready", query |-> 0, conn |-> 0]
    /\ overdue = FALSE
    /\ interrupted = FALSE
    /\ seen = FALSE
    /\ canceller = [pc |-> "none", conn |-> 0]
    /\ api = "idle"
    /\ handler = "idle"

-----------------------------------------------------------------------------
(* The worker: fetchall_interruptable()                                    *)

Goto(pc) == worker' = [worker EXCEPT !.pc = pc]

\* A cancel job that is there already is kept as it is.
AddCancelJob ==
    /\ worker.pc = "ready"
    /\ ~interrupted
    /\ worker.query < MaxQueries
    /\ worker' = [worker EXCEPT !.pc = "queued", !.query = @ + 1]
    /\ row' = IF row.state = "absent" THEN [state |-> "queued", due |-> FALSE]
                                      ELSE row
    /\ UNCHANGED <<overdue, interrupted, seen, canceller, api, handler>>

SendQuery ==
    /\ worker.pc = "queued"
    /\ Goto("sent")
    /\ UNCHANGED <<row, overdue, interrupted, seen, canceller, api, handler>>

QueryDone ==
    /\ Running
    /\ Goto("fetched")
    /\ UNCHANGED <<row, overdue, interrupted, seen, canceller, api, handler>>

\* Any other exception, or failing to connect again, gets past the code that
\* removes the cancel job, and ends the worker.
QueryFails ==
    /\ Running \/ worker.pc = "cancelled"
    /\ Goto("failed")
    /\ UNCHANGED <<row, overdue, interrupted, seen, canceller, api, handler>>

\* A connection that is lost is made again once, and the query repeated.
LoseConnection ==
    /\ worker.pc = "sent"
    /\ worker' = [worker EXCEPT !.pc = "resent", !.conn = @ + 1]
    /\ UNCHANGED <<row, overdue, interrupted, seen, canceller, api, handler>>

\* _execute_query() catches psycopg2.OperationalError, and QueryCanceledError
\* is one: it connects again and repeats the query.
Reconnect ==
    /\ worker.pc = "cancelled"
    /\ worker' = [worker EXCEPT !.pc = "resent", !.conn = @ + 1]
    /\ UNCHANGED <<row, overdue, interrupted, seen, canceller, api, handler>>

\* Only when it is cancelled again does the error get out.
QueryInterrupted ==
    /\ worker.pc = "recancelled"
    /\ Goto("interrupted")
    /\ UNCHANGED <<row, overdue, interrupted, seen, canceller, api, handler>>

\* Mutant: the cancel job is left behind.
Mut_RemoveCancelJob ==
    /\ worker.pc = "fetched"
    /\ overdue' = FALSE
    /\ Goto("ready")
    /\ UNCHANGED <<row, interrupted, seen, canceller, api, handler>>

\* interruptable_job.finish(), whatever has become of that job
RemoveCancelJob ==
    /\ worker.pc = "fetched"
    /\ row' = NoRow
    /\ overdue' = FALSE
    /\ Goto("ready")
    /\ UNCHANGED <<interrupted, seen, canceller, api, handler>>

\* The worker looks at its flag between queries, or has made them all.
WorkerDone ==
    /\ worker.pc = "ready"
    /\ interrupted \/ worker.query = MaxQueries
    /\ Goto("done")
    /\ UNCHANGED <<row, overdue, interrupted, seen, canceller, api, handler>>

\* interruptable_timeout passes for the query.
TimeOut ==
    /\ CanTimeOut
    /\ worker.pc \in {"sent", "resent"}
    /\ ~overdue
    /\ overdue' = TRUE
    /\ row' = IF row.state = "absent" THEN row ELSE [row EXCEPT !.due = TRUE]
    /\ UNCHANGED <<worker, interrupted, seen, canceller, api, handler>>

-----------------------------------------------------------------------------
(* The delegator, in the main thread, and the QueryCanceller it starts     *)

\* A signal handler has the main thread to itself; when it returns, `looping`
\* is False and the delegator only ends the pass it was in.
Look ==
    /\ handler = "idle"
    /\ ~seen
    /\ row.state = "queued" /\ row.due
    /\ seen' = TRUE
    /\ UNCHANGED <<row, worker, overdue, interrupted, canceller, api, handler>>

\* claim() asks that the row be unclaimed, not that it be due.
Claim ==
    /\ handler \in {"idle", "returned"}
    /\ seen
    /\ seen' = FALSE
    /\ IF row.state = "queued" /\ canceller.pc = "none"
       THEN /\ row' = [row EXCEPT !.state = "claimed"]
            /\ canceller' = [pc |-> "new", conn |-> 0]
       ELSE UNCHANGED <<row, canceller>>
    /\ UNCHANGED <<worker, overdue, interrupted, api, handler>>

\* The connections of that name in pg_stat_activity, idle ones included; a
\* worker that ends closes its own.
FindConnection ==
    /\ canceller.pc = "new"
    /\ canceller' = IF worker.pc \in {"failed", "done"}
                    THEN [canceller EXCEPT !.pc = "finish"]
                    ELSE [pc |-> "kill", conn |-> worker.conn]
    /\ UNCHANGED <<row, worker, overdue, interrupted, seen, api, handler>>

\* pg_cancel_backend() cancels what that connection runs at this moment.
CancelQuery ==
    /\ canceller.pc = "kill"
    /\ canceller' = [canceller EXCEPT !.pc = "finish"]
    /\ IF Running /\ worker.conn = canceller.conn
       THEN Goto(IF worker.pc = "sent" THEN "cancelled" ELSE "recancelled")
       ELSE UNCHANGED worker
    /\ UNCHANGED <<row, overdue, interrupted, seen, api, handler>>

\* Mutant: the cancel job is not finished.
Mut_FinishCancelling ==
    /\ canceller.pc = "finish"
    /\ canceller' = [pc |-> "none", conn |-> 0]
    /\ UNCHANGED <<row, worker, overdue, interrupted, seen, api, handler>>

FinishCancelling ==
    /\ canceller.pc = "finish"
    /\ row' = NoRow
    /\ canceller' = [pc |-> "none", conn |-> 0]
    /\ UNCHANGED <<worker, overdue, interrupted, seen, api, handler>>

\* The cancel job is parked (module JobQueue), if it is still there.
CancellerCrashes ==
    /\ CancellerFails
    /\ canceller.pc # "none"
    /\ row' = IF row.state = "absent" THEN row ELSE [row EXCEPT !.state = "parked"]
    /\ canceller' = [pc |-> "none", conn |-> 0]
    /\ UNCHANGED <<worker, overdue, interrupted, seen, api, handler>>

-----------------------------------------------------------------------------
(* WorkerManager.request_interrupt(), in the API worker's thread           *)

\* The job's worker is in the pool.
CallApi ==
    /\ api = "idle"
    /\ worker.pc # "done"
    /\ api' = "look"
    /\ UNCHANGED <<row, worker, overdue, interrupted, seen, canceller, handler>>

\* No cancel job left: the worker is told. A claimed one: look again.
ApiLooks ==
    /\ api = "look"
    /\ \/ row.state = "absent" /\ api' = "returned" /\ interrupted' = TRUE
       \/ row.state = "claimed" /\ UNCHANGED <<api, interrupted>>
       \/ /\ row.state \in {"queued", "parked"}
          /\ api' = "claim"
          /\ UNCHANGED interrupted
    /\ UNCHANGED <<row, worker, overdue, seen, canceller, handler>>

\* JobClaimedException if the row changed hands or went away: nothing in the
\* API worker catches it.
ApiClaims ==
    /\ api = "claim"
    /\ IF row.state = "queued"
       THEN api' = "release" /\ row' = [row EXCEPT !.state = "claimed"]
       ELSE api' = "crashed" /\ UNCHANGED row
    /\ UNCHANGED <<worker, overdue, interrupted, seen, canceller, handler>>

MakeDue ==
    row' = IF row.state = "absent" THEN row
                                   ELSE [state |-> "queued", due |-> TRUE]

ApiReleases ==
    /\ api = "release"
    /\ api' = "look"
    /\ MakeDue
    /\ UNCHANGED <<worker, overdue, interrupted, seen, canceller, handler>>

-----------------------------------------------------------------------------
(* WorkerManager.abort(), the SIGTERM handler                              *)

Sigterm ==
    /\ handler = "idle"
    /\ handler' = IF row.state = "absent" THEN "wait" ELSE "claim"
    /\ UNCHANGED <<row, worker, overdue, interrupted, seen, canceller, api>>

\* claim() is called for claimed jobs too.
HandlerClaims ==
    /\ handler = "claim"
    /\ IF row.state = "queued"
       THEN handler' = "release" /\ row' = [row EXCEPT !.state = "claimed"]
       ELSE handler' = "crashed" /\ UNCHANGED row
    /\ UNCHANGED <<worker, overdue, interrupted, seen, canceller, api>>

HandlerReleases ==
    /\ handler = "release"
    /\ handler' = "wait"
    /\ MakeDue
    /\ UNCHANGED <<worker, overdue, interrupted, seen, canceller, api>>

\* Then looping is set to False, and loop() interrupts the worker.
HandlerReturns ==
    /\ handler = "wait"
    /\ row.state = "absent"
    /\ handler' = "returned"
    /\ interrupted' = TRUE
    /\ UNCHANGED <<row, worker, overdue, seen, canceller, api>>

-----------------------------------------------------------------------------
Worker ==
    \/ AddCancelJob \/ SendQuery \/ Reconnect \/ QueryInterrupted
    \/ RemoveCancelJob \/ WorkerDone
Delegator == Look \/ Claim
Canceller == FindConnection \/ CancelQuery \/ FinishCancelling
Api == ApiLooks \/ ApiClaims \/ ApiReleases
Handler == HandlerClaims \/ HandlerReleases \/ HandlerReturns

Next ==
    \/ Worker \/ QueryDone \/ QueryFails \/ LoseConnection \/ TimeOut
    \/ Delegator \/ Canceller \/ CancellerCrashes
    \/ CallApi \/ Api
    \/ Sigterm \/ Handler

Spec == Init /\ [][Next]_vars

\* Every thread keeps going; a query may take as long as it likes.
Fairness ==
    /\ WF_vars(Worker)
    /\ WF_vars(Delegator)
    /\ WF_vars(Canceller)
    /\ WF_vars(Api)
    /\ WF_vars(Handler)

FairSpec == Spec /\ Fairness

\* Queries that do not fail end by themselves too.
EndingSpec == FairSpec /\ WF_vars(QueryDone)

-----------------------------------------------------------------------------
(* Properties                                                              *)

\* A claim on the cancel job is always in somebody's hands: the canceller's, or
\* those of whoever claims it only to make it due. Finishing, releasing and
\* parking go by the job's name, so that a canceller of an earlier query, the
\* API and the worker may all act on the row of the next one.
ClaimHeld ==
    row.state = "claimed" =>
        canceller.pc # "none" \/ api = "release" \/ handler = "release"

\* A query that fails, or is cancelled by a canceller that then crashes, has
\* nobody who removes its cancel job.
LeftBehind ==
    /\ worker.pc \in {"failed", "interrupted"}
    /\ row.state # "absent"
    /\ canceller.pc = "none"

\* request_interrupt() and abort() wait in a loop until there are no cancel
\* jobs. Where queries end, neither waits for ever, whatever is queued,
\* cancelled or parked meanwhile, unless the job is left behind: then abort()
\* has stopped the delegator that would have it carried out, and
\* request_interrupt() may claim it each time the delegator is about to.
ApiAnswers == api = "look" ~> api \in {"returned", "crashed"} \/ LeftBehind

HandlerEnds == handler = "claim" ~> handler \in {"returned", "crashed"} \/ LeftBehind

-----------------------------------------------------------------------------
(* Statements of the code's comments that the code does not keep           *)

\* common/lib/database.py, fetchall_interruptable(): "that job will be executed
\* immediately, to cancel the database query. If this happens, a
\* DatabaseQueryInterruptedException will be raised".
CancelledIsInterrupted ==
    [][worker.pc = "cancelled" => worker'.pc \in {"cancelled", "interrupted"}]_vars

\* The same: "Before running the query, a job is queued to cancel the query
\* after a set amount of time."
QueryHasCancelJob == worker.pc = "sent" => row.state # "absent"

\* backend/lib/manager.py, abort(): "this will make all these jobs immediately
\* claimable, i.e. queries will get cancelled asap".
ShutdownCancelsQueries == (handler = "wait" /\ Running) ~> ~Running

\* The same: "Stop looping the delegator, clean up, and prepare for shutdown".
ShutdownGoesOn == handler = "claim" ~> handler = "returned"

\* The same: "wait until all cancel jobs are completed".
CancelJobsCompleted == handler = "wait" ~> handler = "returned"

\* backend/lib/manager.py, request_interrupt(): "The worker for the given Job
\* object is searched for and if it exists, its `request_interrupt()` method is
\* called."
InterruptDelivered == api = "look" ~> interrupted
=============================================================================
