------------------------------ MODULE JobQueue ------------------------------
(***************************************************************************)
(* The `jobs` table and the operations of Job (common/lib/job.py) and      *)
(* JobQueue (common/lib/queue.py) on it, as operators on a table value.    *)
(*                                                                         *)
(* A row is identified by (jobtype, remote_id), which the database keeps   *)
(* unique; a member of Job stands for such a pair. Every UPDATE and DELETE *)
(* of a Job object names that pair and never the row's serial `id`, so an  *)
(* object that outlives its row acts on whatever row replaced it: handles  *)
(* keep the id and the attempts they were read with.                       *)
(*                                                                         *)
(* Timestamps are reduced to what the queries ask of them:                 *)
(*   state    "absent": no row; "queued": timestamp_claimed = 0;           *)
(*            "claimed": timestamp_claimed > 0; "parked": STATUS_PARKED    *)
(*   delayed  timestamp_after has not passed                               *)
(*   resting  the row recurs and timestamp_lastclaimed + interval has not  *)
(*            passed                                                       *)
(* `attempts` saturates at AttemptCap: the code compares it with 0, 1, 2.  *)
(***************************************************************************)
EXTENDS Integers

CONSTANTS
    Job,          \* (jobtype, remote_id) pairs
    QueueId,      \* values of the queue_id column
    QueueOf,      \* queue_id of a job: get_queue_id() of its worker
    Recurring,    \* jobs with interval > 0
    AttemptCap    \* `attempts` is not told apart beyond this value

ASSUME JobQueueAssumption ==
    /\ QueueOf \in [Job -> QueueId]
    /\ Recurring \subseteq Job
    /\ AttemptCap \in Nat

State == {"absent", "queued", "claimed", "parked"}

Row == [state: State, delayed: BOOLEAN, resting: BOOLEAN,
        attempts: 0 .. AttemptCap, id: Nat]

Table == [Job -> Row]

\* What a Job object remembers of its row, and its is_finished flag.
Handle == [key: Job, id: Nat, attempts: 0 .. AttemptCap,
           finished: BOOLEAN]

NoRow == [state |-> "absent", delayed |-> FALSE, resting |-> FALSE,
          attempts |-> 0, id |-> 0]

Exists(t, j) == t[j].state # "absent"

\* Mutant: attempts are counted down.
Mut_Counted(n) == n - 1

Counted(n) == IF n < AttemptCap THEN n + 1 ELSE AttemptCap

-----------------------------------------------------------------------------
\* Job.get_by_ID and Job.get_by_remote_ID: a copy of the row.
GetJob(t, j) == [key |-> j, id |-> t[j].id, attempts |-> t[j].attempts,
                 finished |-> FALSE]

\* JobQueue.get_all_jobs with restrict_claimable.
Claimable(t) ==
    {j \in Job : t[j].state = "queued" /\ ~t[j].delayed /\ ~t[j].resting}

\* JobQueue.add_job: INSERT ... ON CONFLICT (jobtype, remote_id) DO NOTHING.
AddJob(t, j, id, delayed) ==
    IF Exists(t, j) THEN t
    ELSE [t EXCEPT ![j] = [NoRow EXCEPT !.state = "queued", !.id = id,
                                        !.delayed = delayed]]

\* Mutant: parked and deleted jobs can be claimed.
Mut_CanClaim(t, h) == t[h.key].state # "claimed"

\* Job.claim updates the row only while timestamp_claimed = 0; otherwise it
\* raises JobClaimedException. Neither timestamp_after nor the interval is
\* looked at again.
CanClaim(t, h) == t[h.key].state = "queued"

Claim(t, h) ==
    [t EXCEPT ![h.key] = [@ EXCEPT !.state = "claimed",
                                   !.resting = h.key \in Recurring]]

\* Job.finish: the row is deleted, or made claimable again if it recurs.
Finish(t, h, delete) ==
    IF h.key \notin Recurring \/ delete
    THEN [t EXCEPT ![h.key] = NoRow]
    ELSE IF Exists(t, h.key)
    THEN [t EXCEPT ![h.key] = [@ EXCEPT !.state = "queued", !.attempts = 0]]
    ELSE t

\* Job.release: attempts are counted from the handle, not from the row.
Release(t, h, delayed, increment) ==
    IF Exists(t, h.key)
    THEN [t EXCEPT ![h.key] =
              [@ EXCEPT !.state = "queued",
                        !.delayed = delayed,
                        !.attempts = IF increment THEN Counted(h.attempts)
                                     ELSE t[h.key].attempts]]
    ELSE t

\* Job.park
Park(t, h) ==
    IF Exists(t, h.key)
    THEN [t EXCEPT ![h.key] = [@ EXCEPT !.state = "parked",
                                        !.attempts = Counted(h.attempts)]]
    ELSE t

\* Mutant: only parked jobs are released.
Mut_ReleaseAll(t) ==
    [j \in Job |-> IF t[j].state = "parked" THEN [t[j] EXCEPT !.state = "queued"]
                                            ELSE t[j]]

\* JobQueue.release_all: claimed and parked rows alike.
ReleaseAll(t) ==
    [j \in Job |-> IF Exists(t, j) THEN [t[j] EXCEPT !.state = "queued"]
                                   ELSE t[j]]

\* Time passes a row's timestamp_after, or the end of its interval.
DelayOver(t, j) == [t EXCEPT ![j].delayed = FALSE]
IntervalOver(t, j) == [t EXCEPT ![j].resting = FALSE]
=============================================================================
