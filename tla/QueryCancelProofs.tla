-------------------------- MODULE QueryCancelProofs --------------------------
(***************************************************************************)
(* A claim on the cancel job never outlives whoever made it: ClaimHeld is  *)
(* inductive relative to TypeOK, for any number of queries, whether or not *)
(* queries time out and cancellers crash.                                  *)
(***************************************************************************)
EXTENDS QueryCancel, TLAPS

Inv == TypeOK /\ ClaimHeld

\* The cancel job may change hands, become due, or come and go.
LEMMA CancelJobType ==
    ASSUME row \in CancelJob
    PROVE  /\ NoRow \in CancelJob
           /\ NoRow.state = "absent"
           /\ [state |-> "queued", due |-> FALSE] \in CancelJob
           /\ [state |-> "queued", due |-> TRUE] \in CancelJob
           /\ \A s \in {"claimed", "parked"} :
                 /\ [row EXCEPT !.state = s] \in CancelJob
                 /\ [row EXCEPT !.state = s].state = s
           /\ [row EXCEPT !.due = TRUE] \in CancelJob
           /\ [row EXCEPT !.due = TRUE].state = row.state
  BY DEF CancelJob, NoRow

\* A canceller starts, finds a connection, cancels its query and ends.
LEMMA CancellerType ==
    ASSUME canceller \in QueryCanceller
    PROVE  /\ [canceller EXCEPT !.pc = "finish"] \in QueryCanceller
           /\ \A n \in Nat : [pc |-> "kill", conn |-> n] \in QueryCanceller
           /\ [pc |-> "new", conn |-> 0] \in QueryCanceller
           /\ [pc |-> "none", conn |-> 0] \in QueryCanceller
           /\ [canceller EXCEPT !.pc = "finish"].pc = "finish"
           /\ [pc |-> "new", conn |-> 0].pc = "new"
  BY DEF QueryCanceller

\* The worker begins a query, or connects again.
LEMMA QueryWorkerType ==
    ASSUME worker \in QueryWorker
    PROVE  /\ worker.conn \in Nat
           /\ \A pc \in {"sent", "cancelled", "resent", "recancelled", "fetched",
                         "ready", "interrupted", "failed", "done"} :
                 [worker EXCEPT !.pc = pc] \in QueryWorker
           /\ [worker EXCEPT !.pc = "queued", !.query = @ + 1] \in QueryWorker
           /\ [worker EXCEPT !.pc = "resent", !.conn = @ + 1] \in QueryWorker
<1>1. worker.query + 1 \in Nat /\ worker.conn + 1 \in Nat
  BY DEF QueryWorker
<1>2. \A n \in Nat :
         /\ [worker EXCEPT !.pc = "queued", !.query = n] \in QueryWorker
         /\ [worker EXCEPT !.pc = "resent", !.conn = n] \in QueryWorker
  BY DEF QueryWorker
<1>3. /\ worker.conn \in Nat
      /\ \A pc \in {"sent", "cancelled", "resent", "recancelled", "fetched",
                    "ready", "interrupted", "failed", "done"} :
            [worker EXCEPT !.pc = pc] \in QueryWorker
  BY DEF QueryWorker
<1> QED  BY <1>1, <1>2, <1>3

\* The worker has no reason to claim the job: its steps only add or remove it.
LEMMA WorkerKeepsClaim ==
    ASSUME Inv, Worker \/ QueryDone \/ QueryFails \/ LoseConnection \/ TimeOut
    PROVE  Inv'
<1> USE CancelJobType, CancellerType, QueryWorkerType
    DEF Inv, TypeOK, ClaimHeld, Running, Goto
<1>1. CASE AddCancelJob
  <2>1. worker' \in QueryWorker
    BY <1>1, QueryWorkerType DEF AddCancelJob
  <2>2. row' \in CancelJob /\ (row'.state = "claimed" => row.state = "claimed")
    BY <1>1, CancelJobType DEF AddCancelJob
  <2> QED  BY <1>1, <2>1, <2>2 DEF AddCancelJob
<1>2. CASE SendQuery  BY <1>2 DEF SendQuery
<1>3. CASE Reconnect
  BY <1>3, QueryWorkerType DEF Reconnect
<1>4. CASE QueryInterrupted  BY <1>4 DEF QueryInterrupted
<1>5. CASE RemoveCancelJob  BY <1>5 DEF RemoveCancelJob
<1>6. CASE WorkerDone  BY <1>6 DEF WorkerDone
<1>7. CASE QueryDone  BY <1>7 DEF QueryDone
<1>8. CASE TimeOut
  BY <1>8, CancelJobType DEF TimeOut
<1>9. CASE QueryFails  BY <1>9 DEF QueryFails
<1>10. CASE LoseConnection
  BY <1>10, QueryWorkerType DEF LoseConnection
<1> QED  BY <1>1, <1>2, <1>3, <1>4, <1>5, <1>6, <1>7, <1>8, <1>9, <1>10 DEF Worker

\* The delegator claims the job for a canceller, which gives it up by finishing
\* it or by crashing.
LEMMA CancellerKeepsClaim ==
    ASSUME Inv, Delegator \/ Canceller \/ CancellerCrashes
    PROVE  Inv'
<1> USE CancelJobType, CancellerType, QueryWorkerType
    DEF Inv, TypeOK, ClaimHeld, Running, Goto
<1>1. CASE Look  BY <1>1 DEF Look
<1>2. CASE Claim
  <2>1. CASE row.state = "queued" /\ canceller.pc = "none"
    <3>1. row' = [row EXCEPT !.state = "claimed"]
          /\ canceller' = [pc |-> "new", conn |-> 0]
      BY <1>2, <2>1 DEF Claim
    <3> QED  BY <1>2, <2>1, <3>1 DEF Claim
  <2>2. CASE ~(row.state = "queued" /\ canceller.pc = "none")
    BY <1>2, <2>2 DEF Claim
  <2> QED  BY <2>1, <2>2
<1>3. CASE FindConnection  BY <1>3 DEF FindConnection
<1>4. CASE CancelQuery  BY <1>4 DEF CancelQuery
<1>5. CASE FinishCancelling  BY <1>5 DEF FinishCancelling
<1>6. CASE CancellerCrashes  BY <1>6 DEF CancellerCrashes
<1> QED  BY <1>1, <1>2, <1>3, <1>4, <1>5, <1>6 DEF Delegator, Canceller

\* The API and the SIGTERM handler claim the job for the one step it takes to
\* release it again.
LEMMA InterruptKeepsClaim ==
    ASSUME Inv, CallApi \/ Api \/ Sigterm \/ Handler
    PROVE  Inv'
<1> USE CancelJobType, CancellerType, QueryWorkerType
    DEF Inv, TypeOK, ClaimHeld, MakeDue
<1>1. CASE CallApi  BY <1>1 DEF CallApi
<1>2. CASE ApiLooks  BY <1>2 DEF ApiLooks
<1>3. CASE ApiClaims  BY <1>3 DEF ApiClaims
<1>4. CASE ApiReleases  BY <1>4 DEF ApiReleases
<1>5. CASE Sigterm  BY <1>5 DEF Sigterm
<1>6. CASE HandlerClaims  BY <1>6 DEF HandlerClaims
<1>7. CASE HandlerReleases  BY <1>7 DEF HandlerReleases
<1>8. CASE HandlerReturns  BY <1>8 DEF HandlerReturns
<1> QED  BY <1>1, <1>2, <1>3, <1>4, <1>5, <1>6, <1>7, <1>8 DEF Api, Handler

\* No claim on the cancel job is ever left without an owner.
THEOREM ClaimAlwaysHeld == Spec => []ClaimHeld
<1>1. Init => Inv
  <2>1. /\ NoRow \in CancelJob
        /\ NoRow.state = "absent"
        /\ [pc |-> "ready", query |-> 0, conn |-> 0] \in QueryWorker
        /\ [pc |-> "none", conn |-> 0] \in QueryCanceller
    BY DEF NoRow, CancelJob, QueryWorker, QueryCanceller
  <2> QED  BY <2>1 DEF Init, Inv, TypeOK, ClaimHeld
<1>2. Inv /\ [Next]_vars => Inv'
  <2> SUFFICES ASSUME Inv, [Next]_vars PROVE Inv'
    OBVIOUS
  <2>1. CASE UNCHANGED vars
    BY <2>1 DEF vars, Inv, TypeOK, ClaimHeld
  <2>2. CASE Next
    BY <2>2, WorkerKeepsClaim, CancellerKeepsClaim, InterruptKeepsClaim
    DEF Next
  <2> QED  BY <2>1, <2>2
<1>3. Inv => ClaimHeld
  BY DEF Inv
<1> QED  BY <1>1, <1>2, <1>3, PTL DEF Spec
=============================================================================
