------------------------------- MODULE Restart -------------------------------
(***************************************************************************)
(* Restarting and upgrading 4CAT from within: the worker 'restart-4cat'.   *)
(*                                                                         *)
(* Whoever wants a restart makes a lock file and queues a job.  The job's  *)
(* worker starts a script and waits to be interrupted by it: the script    *)
(* stops the back-end, maybe upgrades it, and starts it again.  The job was*)
(* released when its worker was interrupted, so that it is run again; from *)
(* its attempts the worker sees that this has happened, and then restarts  *)
(* the front-end, removes the lock file and finishes.                      *)
(*                                                                         *)
(* The jobs are those of type restart-4cat: they share a queue, which has  *)
(* room for one worker.  A job's id tells a row from the one that replaces *)
(* it.  Left out are logs and versions, what the script does other than to *)
(* stop and start the back-end, other workers (they keep a back-end from   *)
(* stopping), a back-end killed by anything but the script, which leaves a *)
(* pid file that makes the next script fail, and the deletion of the job   *)
(* by an administrator (module WorkerManager).                             *)
(***************************************************************************)
EXTENDS JobQueue, FiniteSets, Sequences

CONSTANTS
    Upgrade,        \* the jobs that upgrade as well
    Requester,      \* those that ask: the web tool, the extension manager
    Docker,         \* the front-end has a container of its own
    Failures,       \* scripts fail, workers crash
    Stuck,          \* a back-end may hang before it interrupts its workers
    Admin,          \* crashed jobs are retried by hand
    MaxRequests,    \* bound: restarts asked for
    MaxManual,      \* bound: times the back-end is stopped by hand
    MaxStarts,      \* bound: times that it is started
    MaxScripts      \* bound: scripts started

ASSUME RestartAssumption ==
    /\ Job # {}
    /\ Recurring = {}
    /\ Upgrade \subseteq Job
    /\ IsFiniteSet(Requester)
    /\ {Docker, Failures, Stuck, Admin} \subseteq BOOLEAN
    /\ {MaxRequests, MaxManual, MaxScripts} \subseteq Nat
    /\ MaxStarts \in Nat \ {0}

VARIABLES
    jobs,       \* the jobs table
    lock,       \* restart.lock: "none" if there is none, "empty", or a "token"
    backend,    \* "up", "asked" to stop, "stopping" its workers, or "down"
    starts,     \* which start of the back-end was the last
    worker,     \* the worker of the back-end that runs a restart job, if any
    scripts,    \* the scripts that have been started, in that order
    requester,  \* how far a requester is
    overlap,    \* history: since there was last nothing to restart, somebody has
                \* looked for the lock file between another's look and making it
    requests,   \* counter, the id that the next row will have less one
    manual      \* counter

vars == <<jobs, lock, backend, starts, worker, scripts, requester, overlap,
          requests, manual>>

outside == <<requester, overlap, requests, manual>>

AnyJob == CHOOSE j \in Job : TRUE

NoWorker == [pc |-> "none", interrupted |-> FALSE, script |-> 0,
             job |-> [key |-> AnyJob, id |-> 0, attempts |-> 0,
                      finished |-> FALSE]]
Satisfied == [pc |-> "idle", job |-> AnyJob]

RestartRow ==
    [state: State, delayed: BOOLEAN, resting: {FALSE},
     attempts: 0..AttemptCap, id: 0..MaxRequests]
RestartHandle ==
    [key: Job, id: 0..MaxRequests, attempts: 0..AttemptCap, finished: BOOLEAN]
RestartWorker ==
    [pc: {"none", "lock", "script", "wait", "upgrade", "ask", "unlock",
          "finish"},
     interrupted: BOOLEAN, script: 0..MaxScripts, job: RestartHandle]
Script ==
    [job: Job, id: 0..MaxRequests, stops: 0..MaxStarts,
     pc: {"begun", "stopping", "stopped", "ended"}]

TypeOK ==
    /\ jobs \in [Job -> RestartRow]
    /\ lock \in {"none", "empty", "token"}
    /\ backend \in {"up", "asked", "stopping", "down"}
    /\ starts \in 1..MaxStarts
    /\ worker \in RestartWorker
    /\ worker.script <= Len(scripts)
    /\ scripts \in Seq(Script)
    /\ Len(scripts) <= MaxScripts
    /\ requester \in
        [Requester -> [pc: {"idle", "checked", "locked"}, job: Job]]
    /\ overlap \in BOOLEAN
    /\ requests \in 0..MaxRequests
    /\ manual \in 0..MaxManual

Init ==
    /\ jobs = [j \in Job |-> NoRow]
    /\ lock = "none"
    /\ backend = "up"
    /\ starts = 1
    /\ worker = NoWorker
    /\ scripts = <<>>
    /\ requester = [r \in Requester |-> Satisfied]
    /\ overlap = FALSE
    /\ requests = 0
    /\ manual = 0

-----------------------------------------------------------------------------
(* Asking for a restart: trigger_restart(), and ExtensionManipulator       *)

\* The bound
MayAsk ==
    requests + Cardinality({r \in Requester : requester[r].pc # "idle"})
        < MaxRequests

\* A restart has yet to remove its lock
Unfinished(j) ==
    Exists(jobs, j) /\ ~(worker.pc = "finish" /\ worker.job.key = j)

AtRest ==
    /\ \A j \in Job : ~Unfinished(j)
    /\ \A r \in Requester : requester[r].pc = "idle"

Looked ==
    overlap' = (~AtRest /\ (overlap \/ \E q \in Requester : requester[q].pc = "checked"))

\* Mutant of CheckLock: nobody looks for the lock file
Mut_CheckLock(r, j) ==
    /\ requester[r].pc = "idle"
    /\ MayAsk
    /\ Looked
    /\ requester' = [requester EXCEPT ![r] = [pc |-> "checked", job |-> j]]
    /\ UNCHANGED <<jobs, lock, backend, starts, worker, scripts, requests,
                   manual>>

CheckLock(r, j) ==
    /\ requester[r].pc = "idle"
    /\ MayAsk
    /\ lock = "none"
    /\ Looked
    /\ requester' = [requester EXCEPT ![r] = [pc |-> "checked", job |-> j]]
    /\ UNCHANGED <<jobs, lock, backend, starts, worker, scripts, requests,
                   manual>>

TouchLock(r) ==
    /\ requester[r].pc = "checked"
    /\ lock' = IF lock = "none" THEN "empty" ELSE lock
    /\ requester' = [requester EXCEPT ![r].pc = "locked"]
    /\ UNCHANGED <<jobs, backend, starts, worker, scripts, overlap, requests,
                   manual>>

QueueRestart(r) ==
    /\ requester[r].pc = "locked"
    /\ requests' = requests + 1
    /\ jobs' = AddJob(jobs, requester[r].job, requests + 1, FALSE)
    /\ requester' = [requester EXCEPT ![r] = Satisfied]
    /\ UNCHANGED <<lock, backend, starts, worker, scripts, overlap, manual>>

-----------------------------------------------------------------------------
(* The worker                                                              *)

Goto(pc) == worker' = [worker EXCEPT !.pc = pc]

\* A first attempt begins a restart, a later one checks what came of it
FirstStep(h) ==
    IF h.attempts = 0 THEN "lock"
    ELSE IF Docker /\ h.key \in Upgrade THEN "upgrade" ELSE "ask"

\* A pass of the delegator that is under way is completed after SIGTERM
ClaimJob(j) ==
    /\ backend \in {"up", "asked"}
    /\ worker.pc = "none"
    /\ j \in Claimable(jobs)
    /\ LET h == GetJob(jobs, j) IN
        /\ jobs' = Claim(jobs, h)
        /\ worker' = [NoWorker EXCEPT !.pc = FirstStep(h), !.job = h]
    /\ UNCHANGED <<lock, backend, starts, scripts, outside>>

\* An exception parks the job; the lock file stays
Crash ==
    /\ jobs' = Park(jobs, worker.job)
    /\ worker' = NoWorker
    /\ UNCHANGED <<lock, backend, starts, scripts, outside>>

WorkerCrashes ==
    /\ Failures
    /\ worker.pc \in {"lock", "script", "upgrade", "ask"}
    /\ Crash

WriteLock ==
    /\ worker.pc = "lock"
    /\ lock' = "token"
    /\ Goto("script")
    /\ UNCHANGED <<jobs, backend, starts, scripts, outside>>

StartScript ==
    /\ worker.pc = "script"
    /\ Len(scripts) < MaxScripts
    /\ scripts' = Append(scripts,
            [job |-> worker.job.key, id |-> worker.job.id, stops |-> 0,
             pc |-> "begun"])
    /\ worker' = [worker EXCEPT !.pc = "wait", !.script = Len(scripts) + 1]
    /\ UNCHANGED <<jobs, lock, backend, starts, outside>>

\* The script has ended without stopping the back-end
ScriptFailed ==
    /\ worker.pc = "wait"
    /\ scripts[worker.script].pc = "ended"
    /\ Goto("unlock")
    /\ UNCHANGED <<jobs, lock, backend, starts, scripts, outside>>

\* Mutant of Interrupted: the attempt is not counted
Mut_Interrupted ==
    /\ worker.pc = "wait"
    /\ worker.interrupted
    /\ jobs' = Release(jobs, worker.job, TRUE, FALSE)
    /\ worker' = NoWorker
    /\ UNCHANGED <<lock, backend, starts, scripts, outside>>

\* The worker notices that the back-end is being stopped
Interrupted ==
    /\ worker.pc = "wait"
    /\ worker.interrupted
    /\ jobs' = Release(jobs, worker.job, TRUE, TRUE)
    /\ worker' = NoWorker
    /\ UNCHANGED <<lock, backend, starts, scripts, outside>>

\* The front-end's container is upgraded if it accepts the token
UpgradeFrontend ==
    /\ worker.pc = "upgrade"
    /\ IF lock = "none" THEN Crash
       ELSE /\ \/ lock = "token" /\ Goto("ask")
               \/ (lock = "empty" \/ Failures) /\ Goto("unlock")
            /\ UNCHANGED <<jobs, lock, backend, starts, scripts, outside>>

\* The front-end is asked to restart and waited for, for a minute at most
AskFrontend ==
    /\ worker.pc = "ask"
    /\ IF lock = "none" THEN Crash
       ELSE /\ Goto("unlock")
            /\ UNCHANGED <<jobs, lock, backend, starts, scripts, outside>>

\* Mutant of Unlock: the lock file stays
Mut_Unlock ==
    /\ worker.pc = "unlock"
    /\ Goto("finish")
    /\ UNCHANGED <<jobs, lock, backend, starts, scripts, outside>>

Unlock ==
    /\ worker.pc = "unlock"
    /\ IF lock = "none" THEN Crash
       ELSE /\ lock' = "none"
            /\ Goto("finish")
            /\ UNCHANGED <<jobs, backend, starts, scripts, outside>>

FinishJob ==
    /\ worker.pc = "finish"
    /\ jobs' = Finish(jobs, worker.job, FALSE)
    /\ worker' = NoWorker
    /\ UNCHANGED <<lock, backend, starts, scripts, outside>>

-----------------------------------------------------------------------------
(* The back-end                                                            *)

InterruptWorkers ==
    /\ backend = "asked"
    /\ backend' = "stopping"
    /\ worker' = [worker EXCEPT !.interrupted = worker.pc # "none"]
    /\ UNCHANGED <<jobs, lock, starts, scripts, outside>>

Exit ==
    /\ backend = "stopping"
    /\ worker.pc = "none"
    /\ backend' = "down"
    /\ UNCHANGED <<jobs, lock, starts, worker, scripts, outside>>

\* What was claimed or has crashed is claimable again, its attempts unchanged
Boot ==
    /\ backend = "down"
    /\ starts < MaxStarts
    /\ backend' = "up"
    /\ starts' = starts + 1
    /\ jobs' = ReleaseAll(jobs)

DelayPasses(j) ==
    /\ jobs[j].delayed
    /\ jobs' = DelayOver(jobs, j)
    /\ UNCHANGED <<lock, backend, starts, worker, scripts, outside>>

-----------------------------------------------------------------------------
(* The script: force-restart of the daemon, or migrate.py                  *)

SetScript(s, pc) == scripts' = [scripts EXCEPT ![s].pc = pc]

AskToStop(s) ==
    /\ scripts[s].pc = "begun"
    /\ IF backend = "down" THEN SetScript(s, "stopped") /\ UNCHANGED backend
       ELSE /\ backend' = IF backend = "up" THEN "asked" ELSE backend
            /\ scripts' = [scripts EXCEPT ![s].pc = "stopping",
                                          ![s].stops = starts]
    /\ UNCHANGED <<jobs, lock, starts, worker, outside>>

HasStopped(s) ==
    /\ scripts[s].pc = "stopping"
    /\ backend = "down" \/ starts # scripts[s].stops
    /\ SetScript(s, "stopped")
    /\ UNCHANGED <<jobs, lock, backend, starts, worker, outside>>

\* A minute later, a worker that looks for interruptions has seen its own, and
\* only waiting for the front-end takes that long
AfterAMinute ==
    LET lasting == {"none", "upgrade", "ask"} IN
    \/ backend = "stopping" /\ worker.pc \in lasting
    \/ Stuck /\ backend = "asked" /\ worker.pc \in lasting \cup {"wait"}

\* A back-end that is still there after a minute is killed
KillBackend(s) ==
    /\ scripts[s].pc = "stopping"
    /\ starts = scripts[s].stops
    /\ AfterAMinute
    /\ backend' = "down"
    /\ worker' = NoWorker
    /\ SetScript(s, "stopped")
    /\ UNCHANGED <<jobs, lock, starts, outside>>

StartBackend(s) ==
    /\ scripts[s].pc = "stopped"
    /\ IF backend = "down" THEN Boot ELSE UNCHANGED <<backend, starts, jobs>>
    /\ SetScript(s, "ended")
    /\ UNCHANGED <<lock, worker, outside>>

ScriptFails(s) ==
    /\ Failures
    /\ \/ scripts[s].pc = "begun"
       \/ scripts[s].pc = "stopped" /\ scripts[s].job \in Upgrade
    /\ SetScript(s, "ended")
    /\ UNCHANGED <<jobs, lock, backend, starts, worker, outside>>

-----------------------------------------------------------------------------
(* People                                                                  *)

StopByHand ==
    /\ manual < MaxManual
    /\ backend = "up"
    /\ backend' = "asked"
    /\ manual' = manual + 1
    /\ UNCHANGED <<jobs, lock, starts, worker, scripts, requester, overlap,
                   requests>>

StartByHand ==
    /\ Boot
    /\ UNCHANGED <<lock, worker, scripts, outside>>

RetryJob(j) ==
    /\ Admin
    /\ jobs[j].state = "parked"
    /\ jobs' = Release(jobs, GetJob(jobs, j), FALSE, FALSE)
    /\ UNCHANGED <<lock, backend, starts, worker, scripts, outside>>

-----------------------------------------------------------------------------
Request(r) ==
    \/ \E j \in Job : CheckLock(r, j)
    \/ TouchLock(r)
    \/ QueueRestart(r)

Work ==
    \/ \E j \in Job : ClaimJob(j)
    \/ WriteLock
    \/ StartScript
    \/ ScriptFailed
    \/ Interrupted
    \/ UpgradeFrontend
    \/ AskFrontend
    \/ Unlock
    \/ FinishJob

Shutdown == InterruptWorkers \/ Exit

RunScript(s) == AskToStop(s) \/ HasStopped(s) \/ StartBackend(s)

Next ==
    \/ \E r \in Requester : Request(r)
    \/ Work \/ WorkerCrashes
    \/ Shutdown
    \/ \E s \in DOMAIN scripts :
        RunScript(s) \/ KillBackend(s) \/ ScriptFails(s)
    \/ StopByHand \/ StartByHand
    \/ \E j \in Job : DelayPasses(j) \/ RetryJob(j)

Spec == Init /\ [][Next]_vars

\* Workers, scripts and the shutdown go on; nobody is relied on to start the
\* back-end by hand, or to ask for anything
FairSpec ==
    /\ Spec
    /\ WF_vars(Work)
    /\ WF_vars(Shutdown)
    /\ \A s \in 1..MaxScripts : WF_vars(s \in DOMAIN scripts /\ RunScript(s))
    /\ \A j \in Job : WF_vars(DelayPasses(j))
    /\ \A r \in Requester : WF_vars(TouchLock(r) \/ QueueRestart(r))

-----------------------------------------------------------------------------
(* Properties                                                              *)

\* A restart is begun once: the back-end that it has started does not begin it
\* again, whoever else stops and starts the back-end meanwhile.
RestartsOnce ==
    \A s, t \in DOMAIN scripts : scripts[s].id = scripts[t].id => s = t

\* There is one restart at a time, from its request until its lock is removed,
\* whoever asks and whatever crashes, is retried or is stopped, unless requests
\* overlapped: two looked for the lock file before either had made it.
OneRestart ==
    Cardinality({j \in Job : Unfinished(j)}) > 1 => overlap

\* What the lock file is for (work(): "prevent multiple restarts running at the
\* same time"); false for requests that overlap.
NoSimultaneousRestarts == Cardinality({j \in Job : Unfinished(j)}) <= 1

\* The front-end is only restarted, and told of success, when a script has
\* been started for it: "Restart worker resumed after restarting 4CAT, restart
\* successful."
ResumedWasBegun ==
    worker.pc \in {"ask", "upgrade"} =>
        \E s \in DOMAIN scripts : scripts[s].id = worker.job.id

\* The lock file belongs to somebody ("A restart is already in progress. Wait
\* for it to complete.")
LockHasJob ==
    lock # "none" =>
        \/ \E j \in Job : Exists(jobs, j)
        \/ \E r \in Requester : requester[r].pc = "locked"

\* No restart is in progress forever: the lock file is removed, unless a worker
\* crashed, of this restart or of one beside it, or the script left the back-end
\* stopped.
RestartEnds ==
    (lock # "none" /\ \E j \in Job : Unfinished(j)) ~>
        \/ lock = "none"
        \/ \E j \in Job : jobs[j].state = "parked"
        \/ /\ backend = "down"
           /\ \A s \in DOMAIN scripts : scripts[s].pc = "ended"
=============================================================================
