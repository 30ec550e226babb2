---------------------------- MODULE JobLifecycle ----------------------------
(***************************************************************************)
(* What the job queue and the worker manager together promise about jobs,  *)
(* without processes, handles or time: jobs of one queue run one at a      *)
(* time, a job only runs once it is claimed and was waiting before that,   *)
(* and nobody stops working on a job that still bears their claim, unless  *)
(* the whole back-end goes down.  Module WorkerManager implements this.    *)
(***************************************************************************)
CONSTANTS Job, QueueId, QueueOf

VARIABLES
    status,     \* the state of each job's row
    running     \* jobs some thread is at work on

vars == <<status, running>>

Exists(j) == status[j] # "absent"

Init ==
    /\ status = [j \in Job |-> "absent"]
    /\ running = {}

SetStatus(j, s) == status' = [status EXCEPT ![j] = s]

Add(j) == ~Exists(j) /\ SetStatus(j, "queued") /\ UNCHANGED running

\* A user may delete a job at any time, also while it runs.
Remove(j) == Exists(j) /\ SetStatus(j, "absent") /\ UNCHANGED running

Start(j) ==
    /\ status[j] = "queued"
    /\ \A k \in running : QueueOf[k] # QueueOf[j]
    /\ SetStatus(j, "claimed")
    /\ running' = running \cup {j}

Requeue(j) == Exists(j) /\ SetStatus(j, "queued") /\ UNCHANGED running

Park(j) ==
    /\ j \in running
    /\ Exists(j)
    /\ SetStatus(j, "parked")
    /\ UNCHANGED running

Stop(j) ==
    /\ j \in running
    /\ status[j] # "claimed"
    /\ running' = running \ {j}
    /\ UNCHANGED status

GoDown == running' = {} /\ UNCHANGED status

Boot ==
    /\ running = {}
    /\ status' = [j \in Job |-> IF Exists(j) THEN "queued" ELSE "absent"]
    /\ UNCHANGED running

Next ==
    \/ \E j \in Job : \/ Add(j) \/ Remove(j) \/ Start(j) \/ Requeue(j)
                      \/ Park(j) \/ Stop(j)
    \/ GoDown \/ Boot

Spec == Init /\ [][Next]_vars
=============================================================================
