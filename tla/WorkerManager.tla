---------------------------- MODULE WorkerManager ----------------------------
(***************************************************************************)
(* The back-end process: the delegator loop of WorkerManager in the main   *)
(* thread (backend/lib/manager.py), one thread per running worker          *)
(* (backend/lib/worker.py), the internal API worker, and the web front-end *)
(* that queues, cancels, deletes and retries jobs through the shared       *)
(* `jobs` table and the API.  The process can be told to stop (SIGTERM, or *)
(* Ctrl-C when it is not a daemon), be killed, and be started again.       *)
(*                                                                         *)
(* Every step is one statement on the database or one access to memory the *)
(* threads share; what a worker computes is left out.                      *)
(***************************************************************************)
EXTENDS JobQueue, FiniteSets

CONSTANTS
    Worker,            \* worker threads
    Api,               \* the job of the internal API worker
    Processor,         \* jobs run by a BasicProcessor
    Scraper,           \* jobs run by a BasicHTTPScraper
    Ensured,           \* jobs that ensure_job() asks for at every start
    Known,             \* jobs whose type is a loaded module
    MaxJobsPerQueue,   \* MAX_JOBS_PER_QUEUE
    Daemon,            \* as_daemon: SIGTERM is handled, there is no Ctrl-C
    MaxId,             \* bound: jobs are submitted while ids are below it
    MaxStarts,         \* bound: times the back-end is started
    MaxRequests        \* bound: requests to delete, nuke or retry a job

ASSUME WorkerManagerAssumption ==
    /\ Api \in Ensured
    /\ Ensured \subseteq Known
    /\ Known \subseteq Job
    /\ Api \notin Recurring
    /\ Processor \subseteq Job \ (Ensured \cup Recurring)
    /\ Scraper \subseteq Job \ (Processor \cup {Api})
    /\ MaxJobsPerQueue \in Nat \ {0}
    /\ Daemon \in BOOLEAN
    /\ IsFiniteSet(Worker)
    /\ {MaxId, MaxStarts, MaxRequests} \subseteq Nat

VARIABLES
    jobs,       \* the jobs table
    nextId,     \* the table's id sequence
    datasets,   \* processor jobs queued so far; DataSet.get_key() salts a key
                \* with the time, so such a job is never queued twice
    main,       \* where the main thread is
    looping,    \* WorkerManager.looping
    ensuring,   \* jobs still to be ensured during start-up
    snapshot,   \* handles delegate() has yet to look at
    starting,   \* the worker between its creation and worker_pool.append()
    toStop,     \* workers loop() has yet to interrupt
    pool,       \* worker_pool
    thread,     \* the worker threads
    web,        \* one request being handled by the web front-end
    call,       \* the cancel-job request sent to the API
    starts,     \* times the back-end was started
    asked       \* requests the front-end began to handle

vars == <<jobs, nextId, datasets, main, looping, ensuring, snapshot, starting,
          toStop, pool, thread, web, call, starts, asked>>

table == <<jobs, nextId, datasets>>
manager == <<main, looping, ensuring, snapshot, starting, toStop, pool>>
bounds == <<starts, asked>>
outside == <<web, call, bounds>>

-----------------------------------------------------------------------------
\* BasicWorker.INTERRUPT_NONE, INTERRUPT_RETRY and INTERRUPT_CANCEL
None == 0
Retry == 1
Cancel == 2

\* A thread is "new" until start(), runs work(), has "returned" from it, does
\* the clean-up of run()'s `finally`, and is "dead" until it is reaped.
ThreadState == {"none", "new", "run", "returned", "cleanup", "dead"}

Thread == [state: ThreadState, job: Handle, interrupted: {None, Retry, Cancel}]

NoJob == [key |-> Api, id |-> 0, attempts |-> 0, finished |-> FALSE]
Idle == [state |-> "none", job |-> NoJob, interrupted |-> None]
Alive(w) == thread[w].state \in {"new", "run", "returned", "cleanup"}
JobOf(w) == thread[w].job.key
QueueOfWorker(w) == QueueOf[JobOf(w)]
Pooled == UNION {pool[q] : q \in QueueId}
IsOver(w) == thread[w].state \in {"none", "dead"}

Delegating == {"snapshot", "reap", "assign", "start", "append"}
Stopping == {"interrupt", "join", "stopapi", "joinapi", "exit"}
MainState == {"down", "boot"} \cup Delegating \cup Stopping

Request == [op: {"none", "delete", "nuke", "retry"},
            step: {"none", "call", "wait", "write"}, job: Handle]

NoRequest == [op |-> "none", step |-> "none", job |-> NoJob]

TypeOK ==
    /\ jobs \in Table
    /\ nextId \in Nat \ {0}
    /\ datasets \subseteq Processor
    /\ main \in MainState
    /\ looping \in BOOLEAN
    /\ ensuring \subseteq Ensured
    /\ snapshot \subseteq Handle
    /\ starting \subseteq Worker
    /\ toStop \subseteq Worker
    /\ pool \in [QueueId -> SUBSET Worker]
    /\ thread \in [Worker -> Thread]
    /\ web \in Request
    /\ call \subseteq Job
    /\ starts \in 0 .. MaxStarts
    /\ asked \in 0 .. MaxRequests

Init ==
    /\ jobs = [j \in Job |-> NoRow]
    /\ nextId = 1
    /\ datasets = {}
    /\ main = "down"
    /\ looping = FALSE
    /\ ensuring = {}
    /\ snapshot = {}
    /\ starting = {}
    /\ toStop = {}
    /\ pool = [q \in QueueId |-> {}]
    /\ thread = [w \in Worker |-> Idle]
    /\ web = NoRequest
    /\ call = {}
    /\ starts = 0
    /\ asked = 0

-----------------------------------------------------------------------------
(* Start-up (backend/bootstrap.py, WorkerManager.__init__)                 *)

\* release_all() runs before anything else touches the queue.
Boot ==
    /\ main = "down"
    /\ starts < MaxStarts
    /\ starts' = starts + 1
    /\ jobs' = ReleaseAll(jobs)
    /\ main' = "boot"
    /\ looping' = TRUE
    /\ ensuring' = Ensured
    /\ UNCHANGED <<nextId, datasets, snapshot, starting, toStop, pool, thread,
                   web, call, asked>>

BootEnsure(j) ==
    /\ main = "boot"
    /\ j \in ensuring
    /\ ensuring' = ensuring \ {j}
    /\ jobs' = AddJob(jobs, j, nextId, FALSE)
    /\ nextId' = IF Exists(jobs, j) THEN nextId ELSE nextId + 1
    /\ UNCHANGED <<datasets, main, looping, snapshot, starting, toStop, pool,
                   thread, outside>>

\* `while self.looping`: one more pass of delegate(), or on to shutting down.
NextPass == main' = IF looping THEN "snapshot" ELSE "interrupt"

BootDone ==
    /\ main = "boot"
    /\ ensuring = {}
    /\ NextPass
    /\ toStop' = {}
    /\ UNCHANGED <<table, looping, ensuring, snapshot, starting, pool, thread,
                   outside>>

-----------------------------------------------------------------------------
(* WorkerManager.delegate                                                  *)

TakeSnapshot ==
    /\ main = "snapshot"
    /\ snapshot' = {GetJob(jobs, j) : j \in Claimable(jobs)}
    /\ main' = "reap"
    /\ UNCHANGED <<table, looping, ensuring, starting, toStop, pool, thread,
                   outside>>

\* Mutant: ended workers are left in the pool.
Mut_ReapLate ==
    /\ main = "reap"
    /\ main' = "assign"
    /\ UNCHANGED <<table, looping, ensuring, snapshot, starting, toStop, pool,
                   thread, outside>>

\* Mutant: a worker whose work() has returned is taken for dead.
Mut_ReapEarly ==
    /\ main = "reap"
    /\ pool' = [q \in QueueId |-> {w \in pool[q] : thread[w].state = "run"}]
    /\ thread' = [w \in Worker |-> IF IsOver(w) THEN Idle ELSE thread[w]]
    /\ main' = "assign"
    /\ UNCHANGED <<table, looping, ensuring, snapshot, starting, toStop,
                   outside>>

\* Finished threads are joined and leave the pool; their ids are used again.
Reap ==
    /\ main = "reap"
    /\ LET gone == {w \in Pooled : thread[w].state = "dead"}
       IN  /\ pool' = [q \in QueueId |-> pool[q] \ gone]
           /\ thread' = [w \in Worker |-> IF w \in gone THEN Idle
                                                        ELSE thread[w]]
    /\ main' = "assign"
    /\ UNCHANGED <<table, looping, ensuring, snapshot, starting, toStop,
                   outside>>

\* The handle whose turn it is: jobs come ordered by timestamp.
Turn(h) == h \in snapshot /\ \A other \in snapshot : h.id <= other.id

\* Mutant: one job too many per queue.
Mut_HasSlot(h) == Cardinality(pool[QueueOf[h.key]]) <= MaxJobsPerQueue

HasSlot(h) == Cardinality(pool[QueueOf[h.key]]) < MaxJobsPerQueue

\* The job is of an unknown type, its queue is busy, or claim() raises
\* JobClaimedException.
SkipJob(h) ==
    /\ main = "assign"
    /\ Turn(h)
    /\ h.key \notin Known \/ ~HasSlot(h) \/ ~CanClaim(jobs, h)
    /\ snapshot' = snapshot \ {h}
    /\ UNCHANGED <<table, main, looping, ensuring, starting, toStop, pool,
                   thread, outside>>

\* claim() and the worker object it is created for
ClaimJob(h, w) ==
    /\ main = "assign"
    /\ Turn(h)
    /\ h.key \in Known
    /\ HasSlot(h)
    /\ CanClaim(jobs, h)
    /\ thread[w].state = "none"
    /\ jobs' = Claim(jobs, h)
    /\ thread' = [thread EXCEPT ![w] = [Idle EXCEPT !.state = "new",
                                                    !.job = h]]
    /\ starting' = {w}
    /\ snapshot' = snapshot \ {h}
    /\ main' = "start"
    /\ UNCHANGED <<nextId, datasets, looping, ensuring, toStop, pool, outside>>

StartWorker(w) ==
    /\ main = "start"
    /\ w \in starting
    /\ thread' = [thread EXCEPT ![w].state = "run"]
    /\ main' = "append"
    /\ UNCHANGED <<table, looping, ensuring, snapshot, starting, toStop, pool,
                   outside>>

AppendWorker(w) ==
    /\ main = "append"
    /\ w \in starting
    /\ pool' = [pool EXCEPT ![QueueOfWorker(w)] = @ \cup {w}]
    /\ starting' = {}
    /\ main' = "assign"
    /\ UNCHANGED <<table, looping, ensuring, snapshot, toStop, thread, outside>>

\* The one-second sleep, after which loop() looks at `looping` again.
EndPass ==
    /\ main = "assign"
    /\ snapshot = {}
    /\ NextPass
    /\ toStop' = IF looping THEN {} ELSE {w \in Pooled : JobOf(w) # Api}
    /\ UNCHANGED <<table, looping, ensuring, snapshot, starting, pool, thread,
                   outside>>

-----------------------------------------------------------------------------
(* Shutting down (WorkerManager.abort and the second half of loop())       *)

\* The handler runs in the main thread, so the pass it interrupts goes on
\* when it returns. Interruptible queries are left to module QueryCancel.
Sigterm ==
    /\ Daemon
    /\ main \in {"boot"} \cup Delegating
    /\ looping
    /\ looping' = FALSE
    /\ UNCHANGED <<table, main, ensuring, snapshot, starting, toStop, pool,
                   thread, outside>>

\* Ctrl-C abandons the pass wherever it is, a claimed job's worker included:
\* not started, it never will be; started, it is not in the pool.
KeyboardInterrupt ==
    /\ ~Daemon
    /\ main \in Delegating
    /\ looping' = FALSE
    /\ main' = "interrupt"
    /\ snapshot' = {}
    /\ starting' = {}
    /\ toStop' = {w \in Pooled : JobOf(w) # Api}
    /\ thread' = [w \in Worker |-> IF thread[w].state = "new" THEN Idle
                                                              ELSE thread[w]]
    /\ UNCHANGED <<table, ensuring, pool, outside>>

Interrupt(w, level) == thread' = [thread EXCEPT ![w].interrupted = level]

InterruptWorker(w) ==
    /\ main = "interrupt"
    /\ w \in toStop
    /\ Interrupt(w, Retry)
    /\ toStop' = toStop \ {w}
    /\ UNCHANGED <<table, main, looping, ensuring, snapshot, starting, pool,
                   outside>>

AllInterrupted ==
    /\ main = "interrupt"
    /\ toStop = {}
    /\ main' = "join"
    /\ UNCHANGED <<table, looping, ensuring, snapshot, starting, toStop, pool,
                   thread, outside>>

\* Mutant: the API is stopped without waiting for the others.
Mut_JoinWorkers ==
    /\ main = "join"
    /\ main' = "stopapi"
    /\ UNCHANGED <<table, looping, ensuring, snapshot, starting, toStop, pool,
                   thread, outside>>

JoinWorkers ==
    /\ main = "join"
    /\ \A w \in Pooled : JobOf(w) # Api => IsOver(w)
    /\ main' = "stopapi"
    /\ UNCHANGED <<table, looping, ensuring, snapshot, starting, toStop, pool,
                   thread, outside>>

\* Mutant: the API worker is not interrupted.
Mut_StopApi ==
    /\ main = "stopapi"
    /\ main' = "joinapi"
    /\ UNCHANGED <<table, looping, ensuring, snapshot, starting, toStop, pool,
                   thread, outside>>

StopApi ==
    /\ main = "stopapi"
    /\ thread' = [w \in Worker |-> IF w \in Pooled
                                   THEN [thread[w] EXCEPT !.interrupted = Retry]
                                   ELSE thread[w]]
    /\ main' = "joinapi"
    /\ UNCHANGED <<table, looping, ensuring, snapshot, starting, toStop, pool,
                   outside>>

JoinApi ==
    /\ main = "joinapi"
    /\ \A w \in Pooled : IsOver(w)
    /\ main' = "exit"
    /\ UNCHANGED <<table, looping, ensuring, snapshot, starting, toStop, pool,
                   thread, outside>>

\* All that the process holds in memory is gone.
ProcessEnds ==
    /\ main' = "down"
    /\ looping' = FALSE
    /\ ensuring' = {}
    /\ snapshot' = {}
    /\ starting' = {}
    /\ toStop' = {}
    /\ pool' = [q \in QueueId |-> {}]
    /\ thread' = [w \in Worker |-> Idle]
    /\ call' = {}
    /\ UNCHANGED <<table, web, bounds>>

\* The interpreter waits for threads that are still running, pooled or not.
Exit ==
    /\ main = "exit"
    /\ \A w \in Worker : IsOver(w)
    /\ ProcessEnds

\* SIGKILL, by `4cat-daemon.py force-stop` or by anything else
Kill ==
    /\ main # "down"
    /\ ProcessEnds

-----------------------------------------------------------------------------
(* BasicWorker.run, and what a worker's work() does about its job          *)

SetThread(w, state) == thread' = [thread EXCEPT ![w].state = state]

\* job.finish() sets is_finished on the Job object as well.
FinishJob(w, state) ==
    /\ jobs' = Finish(jobs, thread[w].job, FALSE)
    /\ thread' = [thread EXCEPT ![w].state = state, ![w].job.finished = TRUE]

ReleaseJob(w, state) ==
    /\ jobs' = Release(jobs, thread[w].job, TRUE, TRUE)
    /\ SetThread(w, state)

\* work() finishes the job itself. What happens to work() after that makes no
\* difference: mark_job_after_crash() leaves a finished job alone.
WorkFinishes(w) ==
    /\ thread[w].state = "run"
    /\ JobOf(w) # Api
    /\ FinishJob(w, "returned")
    /\ UNCHANGED <<nextId, datasets, manager, outside>>

\* work() returns without having decided anything about the job. The API
\* worker only does so when interrupted.
WorkReturns(w) ==
    /\ thread[w].state = "run"
    /\ JobOf(w) \notin Processor
    /\ JobOf(w) = Api => thread[w].interrupted # None
    /\ SetThread(w, "returned")
    /\ UNCHANGED <<table, manager, outside>>

\* work() releases the job to try again later and returns: a processor whose
\* source dataset is not finished, a scraper with attempts to spare.
WorkReleases(w) ==
    /\ thread[w].state = "run"
    /\ \/ JobOf(w) \in Processor
       \/ JobOf(w) \in Scraper /\ thread[w].job.attempts <= 2
    /\ ReleaseJob(w, "returned")
    /\ UNCHANGED <<nextId, datasets, manager, outside>>

\* Mutant: a cancelled worker leaves its job alone.
Mut_WorkInterrupted(w) ==
    /\ thread[w].state = "run"
    /\ JobOf(w) # Api
    /\ \/ thread[w].interrupted = Retry /\ ReleaseJob(w, "cleanup")
       \/ thread[w].interrupted = Cancel /\ SetThread(w, "cleanup")
                                         /\ UNCHANGED jobs
    /\ UNCHANGED <<nextId, datasets, manager, outside>>

\* A WorkerInterruptedException. BasicProcessor.work() catches it, calls
\* abort() and returns; any other worker leaves it to run().
WorkInterrupted(w) ==
    /\ thread[w].state = "run"
    /\ JobOf(w) # Api
    /\ LET then == IF JobOf(w) \in Processor THEN "returned" ELSE "cleanup"
       IN  \/ thread[w].interrupted = Retry /\ ReleaseJob(w, then)
           \/ thread[w].interrupted = Cancel /\ FinishJob(w, then)
    /\ UNCHANGED <<nextId, datasets, manager, outside>>

\* Mutant: a crashed job is left claimed.
Mut_WorkCrashes(w) ==
    /\ thread[w].state = "run"
    /\ SetThread(w, "cleanup")
    /\ UNCHANGED <<table, manager, outside>>

\* Any other exception: mark_job_after_crash()
WorkCrashes(w) ==
    /\ thread[w].state = "run"
    /\ jobs' = Park(jobs, thread[w].job)
    /\ SetThread(w, "cleanup")
    /\ UNCHANGED <<nextId, datasets, manager, outside>>

\* `if not self.job.is_finished: self.job.finish()` after work() returned
RunFinishes(w) ==
    /\ thread[w].state = "returned"
    /\ IF thread[w].job.finished
       THEN SetThread(w, "cleanup") /\ UNCHANGED jobs
       ELSE FinishJob(w, "cleanup")
    /\ UNCHANGED <<nextId, datasets, manager, outside>>

\* Mutant: a job that is not finished is released while cleaning up.
Mut_CleanUp(w) ==
    /\ thread[w].state = "cleanup"
    /\ IF thread[w].job.finished
       THEN SetThread(w, "dead") /\ UNCHANGED jobs
       ELSE ReleaseJob(w, "dead")
    /\ UNCHANGED <<nextId, datasets, manager, outside>>

CleanUp(w) ==
    /\ thread[w].state = "cleanup"
    /\ SetThread(w, "dead")
    /\ UNCHANGED <<table, manager, outside>>

WorkerStep(w) ==
    \/ WorkFinishes(w) \/ WorkReturns(w) \/ WorkReleases(w)
    \/ WorkInterrupted(w) \/ WorkCrashes(w) \/ RunFinishes(w) \/ CleanUp(w)

\* The API worker's thread accepts requests until it is interrupted; a
\* request it accepted before that is still answered.
ApiListens == \E w \in Worker : thread[w].state = "run" /\ JobOf(w) = Api

\* After the API's answer a "nuke" leaves the job to its worker.
WebDone == IF web.op = "nuke" THEN NoRequest ELSE [web EXCEPT !.step = "write"]

\* The cancel-job request: WorkerManager.request_interrupt() looks for a
\* pooled worker whose job has the id of the row found just now.
ApiCancels(j) ==
    /\ ApiListens
    /\ j \in call
    /\ call' = call \ {j}
    /\ web' = IF web.step = "wait" /\ web.job.key = j THEN WebDone ELSE web
    /\ \/ /\ \E w \in Pooled : /\ Exists(jobs, j)
                               /\ thread[w].job.id = jobs[j].id
                               /\ Interrupt(w, Cancel)
       \/ /\ ~\E w \in Pooled : /\ Exists(jobs, j)
                                /\ thread[w].job.id = jobs[j].id
          /\ UNCHANGED thread
    /\ UNCHANGED <<table, manager, bounds>>

-----------------------------------------------------------------------------
(* The front-end: add_job(), and requests that read a row, may call the    *)
(* API, and then write the row they read                                   *)

\* A job's first run may be put off (claim_after), as for 4chan images.
Submit(j) ==
    /\ j \notin Ensured \cup datasets
    /\ ~Exists(jobs, j)
    /\ nextId <= MaxId
    /\ \E delayed \in BOOLEAN : /\ delayed => j \in Scraper
                               /\ jobs' = AddJob(jobs, j, nextId, delayed)
    /\ nextId' = nextId + 1
    /\ datasets' = datasets \cup ({j} \cap Processor)
    /\ UNCHANGED <<manager, thread, outside>>

\* DataSet.delete(), for a processor's job, calls the API only if the row it
\* read is claimed; the job page's delete_job() and nuke_dataset() call it in
\* any case.
RequestDelete(j, op) ==
    /\ web = NoRequest
    /\ asked < MaxRequests
    /\ asked' = asked + 1
    /\ Exists(jobs, j)
    /\ op = "nuke" => j \in Processor
    /\ \E step \in {"call", "write"} :
           /\ step = "write" => /\ op = "delete"
                                /\ j \in Processor
                                /\ jobs[j].state # "claimed"
           /\ web' = [op |-> op, step |-> step, job |-> GetJob(jobs, j)]
    /\ UNCHANGED <<table, manager, thread, call, starts>>

\* call_api(): the connection is accepted, or refused
SendCall ==
    /\ web.step = "call"
    /\ \/ /\ ApiListens
          /\ call' = call \cup {web.job.key}
          /\ web' = [web EXCEPT !.step = "wait"]
       \/ /\ ~ApiListens
          /\ web' = WebDone
          /\ UNCHANGED call
    /\ UNCHANGED <<table, manager, thread, bounds>>

\* No answer in 15 seconds; the API may still get to the request.
CallTimesOut ==
    /\ web.step = "wait"
    /\ web' = WebDone
    /\ UNCHANGED <<table, manager, thread, call, bounds>>

\* job.finish(delete=True), with the row read at the start of the request
DeleteJob ==
    /\ web.op = "delete"
    /\ web.step = "write"
    /\ jobs' = Finish(jobs, web.job, TRUE)
    /\ web' = NoRequest
    /\ UNCHANGED <<nextId, datasets, manager, thread, call, bounds>>

\* retry_job(): parked jobs only, by the row that was read
RequestRetry(j) ==
    /\ web = NoRequest
    /\ asked < MaxRequests
    /\ asked' = asked + 1
    /\ jobs[j].state = "parked"
    /\ web' = [op |-> "retry", step |-> "write", job |-> GetJob(jobs, j)]
    /\ UNCHANGED <<table, manager, thread, call, starts>>

RetryJob ==
    /\ web.op = "retry"
    /\ jobs' = Release(jobs, web.job, FALSE, FALSE)
    /\ web' = NoRequest
    /\ UNCHANGED <<nextId, datasets, manager, thread, call, bounds>>

TimePasses(j) ==
    /\ \/ jobs[j].delayed /\ jobs' = DelayOver(jobs, j)
       \/ jobs[j].resting /\ jobs' = IntervalOver(jobs, j)
    /\ UNCHANGED <<nextId, datasets, manager, thread, outside>>

-----------------------------------------------------------------------------
Start == Boot \/ (\E j \in Job : BootEnsure(j)) \/ BootDone

Delegate ==
    \/ TakeSnapshot \/ Reap \/ EndPass
    \/ \E h \in snapshot : SkipJob(h)
    \/ \E h \in snapshot, w \in Worker : ClaimJob(h, w)
    \/ \E w \in Worker : StartWorker(w) \/ AppendWorker(w)

ShutDown ==
    \/ \E w \in Worker : InterruptWorker(w)
    \/ AllInterrupted \/ JoinWorkers \/ StopApi \/ JoinApi \/ Exit

Stop == Sigterm \/ KeyboardInterrupt \/ Kill

Web ==
    \/ \E j \in Job : \/ Submit(j) \/ RequestRetry(j)
                      \/ \E op \in {"delete", "nuke"} : RequestDelete(j, op)
    \/ SendCall \/ CallTimesOut \/ DeleteJob \/ RetryJob

Next ==
    \/ Start \/ Delegate \/ ShutDown \/ Stop \/ Web
    \/ \E w \in Worker : WorkerStep(w)
    \/ \E j \in Job : ApiCancels(j) \/ TimePasses(j)

Spec == Init /\ [][Next]_vars

\* The main thread never stands still, threads that were started end, and so
\* do delays. A worker may run for long, but not for ever: this is assumed of
\* every worker but the API's, which ends when it is interrupted.
WorkerEnds(w) ==
    WorkFinishes(w) \/ WorkReturns(w) \/ RunFinishes(w) \/ CleanUp(w)

Fairness ==
    /\ WF_vars((\E j \in Job : BootEnsure(j)) \/ BootDone)
    /\ WF_vars(Delegate)
    /\ WF_vars(ShutDown)
    /\ \A w \in Worker : WF_vars(WorkerEnds(w))
    /\ \A j \in Job : WF_vars(TimePasses(j))

FairSpec == Spec /\ Fairness

-----------------------------------------------------------------------------
(* Properties                                                              *)

\* At most MAX_JOBS_PER_QUEUE threads work on the jobs of one queue, those not
\* yet in the pool and those a shutdown no longer waits for included.
\* delegate() only counts the pool, which it fills after starting a thread and
\* empties from an earlier look at the table.
AliveIn(q) == {w \in Worker : Alive(w) /\ QueueOfWorker(w) = q}

OneWorkerPerQueue ==
    \A q \in QueueId : Cardinality(AliveIn(q)) <= MaxJobsPerQueue

\* Why that holds, inductively: while the manager delegates it knows every live
\* thread, because it either is about to append it or has it in the pool.
PoolBounded ==
    \A q \in QueueId : Cardinality(pool[q]) <= MaxJobsPerQueue

\* The worker being started found a free slot, and nothing else is started.
SlotIsFree ==
    /\ starting # {} => main \in {"start", "append"}
    /\ \A w \in starting :
          /\ starting = {w}
          /\ Cardinality(pool[QueueOfWorker(w)]) < MaxJobsPerQueue
          /\ main = "start" => thread[w].state = "new"

NoThreadBeforeLoop == main \in {"down", "boot"} => \A w \in Worker : ~Alive(w)

LiveThreadsKnown ==
    main \in Delegating =>
        \A w \in Worker :
            Alive(w) => w \in starting \/ w \in pool[QueueOfWorker(w)]

SlotInv ==
    /\ TypeOK
    /\ PoolBounded
    /\ SlotIsFree
    /\ NoThreadBeforeLoop
    /\ LiveThreadsKnown
    /\ OneWorkerPerQueue

\* While the back-end is up every claimed job is in the hands of a thread that
\* will still give it up: no way out of BasicWorker.run() leaves a claim
\* behind, which would hide the job until the next restart, and nothing does
\* that an earlier process claimed.  Ctrl-C may leave one until the process
\* has ended.
Holds(w, j) ==
    /\ thread[w].state \in {"new", "run", "returned"}
    /\ JobOf(w) = j
    /\ ~thread[w].job.finished

ClaimHasWorker ==
    (main = "boot" \/ main \in Delegating \/ (Daemon /\ main # "down")) =>
        \A j \in Job : jobs[j].state = "claimed" => \E w \in Worker : Holds(w, j)

\* A crashed job is not run again until a restart or until someone asks for
\* it (Job.park): neither a second crash, nor an old handle, nor the job's own
\* thread releases it.
ParkedUntilRetried ==
    [][\A j \in Job :
          /\ jobs[j].state = "parked"
          /\ jobs'[j].state \in {"queued", "claimed"}
          => main = "down" \/ web.op = "retry"]_vars

\* loop() stops the API only after every other worker it knows of has ended,
\* so that it can be asked which worker hangs during a shutdown.
ApiStopsLast ==
    [][\A w \in Worker :
          /\ Alive(w) /\ JobOf(w) = Api
          /\ thread[w].interrupted # Retry /\ thread'[w].interrupted = Retry
          => \A v \in Pooled : Alive(v) => JobOf(v) = Api]_vars

\* The manager implements the lifecycle of jobs (MAX_JOBS_PER_QUEUE = 1).
Lifecycle ==
    INSTANCE JobLifecycle
    WITH status <- [j \in Job |-> jobs[j].state],
         running <- {JobOf(w) : w \in {v \in Worker : Alive(v)}}

ImplementsLifecycle == Lifecycle!Spec

\* A queued job of a known type is claimed, or deleted, unless the back-end is
\* stopped first: nothing in its queue is passed over for ever. (A recurring
\* job keeps its place in the order, and would take every turn of its queue if
\* it ran for longer than its interval.)
Undisturbed(j) == \A k \in Recurring \ {j} : QueueOf[k] # QueueOf[j]

EveryJobGetsItsTurn ==
    \A j \in Known :
        Undisturbed(j) /\ jobs[j].state = "queued" /\ looping
        ~> (jobs[j].state # "queued" \/ ~looping)

\* Once asked to stop, the back-end stops: workers started by the rest of the
\* pass that SIGTERM interrupted are told and waited for too.
StopsWhenAsked == (main # "down" /\ ~looping) ~> (main = "down")

-----------------------------------------------------------------------------
(* Statements of the code's comments that the code does not keep           *)

\* backend/lib/processor.py, abort(): "we release instead of finish, since
\* interrupting is just that - the job should resume at a later point".
\* A job waiting in the queue only disappears when somebody deletes it.
ReleasedJobKept ==
    [][\A j \in Job :
          /\ jobs[j].state = "queued" /\ jobs'[j].state = "absent"
          => web.op = "delete" /\ web.step = "write"]_vars

\* common/lib/dataset.py, delete(): the API is asked first so as not to end up
\* "leaving the worker running uninterrupted".
DeletedJobInterrupted ==
    [][/\ web.op = "delete" /\ web.step = "write" /\ web' = NoRequest
       => \A w \in Worker :
             /\ thread[w].state = "run"
             /\ JobOf(w) = web.job.key /\ thread[w].job.id = web.job.id
             /\ JobOf(w) \in Processor
             => thread[w].interrupted = Cancel]_vars

\* backend/lib/worker.py, INTERRUPT_CANCEL: "interrupted, but should be
\* cancelled". Nothing turns that into a retry.
CancelIsFinal ==
    [][\A w \in Worker :
          /\ thread[w].interrupted = Cancel /\ thread'[w].state # "none"
          /\ JobOf(w) # Api
          => thread'[w].interrupted = Cancel]_vars

\* common/lib/queue.py, add_job(): claim_after is the "absolute timestamp after
\* which job may be claimed".
DelayRespected ==
    [][\A j \in Job :
          jobs[j].state = "queued" /\ jobs'[j].state = "claimed"
          => ~jobs[j].delayed]_vars

\* backend/lib/worker.py, mark_job_after_crash(): "recurring jobs are released
\* so they retry on their next interval".
RecurringNotParked == \A j \in Recurring : jobs[j].state # "parked"
=============================================================================
