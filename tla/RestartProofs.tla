---------------------------- MODULE RestartProofs ----------------------------
(***************************************************************************)
(* Theorems about Restart for every number of jobs, requests, starts and   *)
(* scripts: restarts are begun once, whatever crashes, unless a back-end   *)
(* hangs; and there is one at a time, unless requests overlap.             *)
(***************************************************************************)
EXTENDS Restart, FiniteSetTheorems, TLAPS

Rows == [Job -> RestartRow]

-----------------------------------------------------------------------------
(* The operations on the table, in the terms of this module                *)

\* Counting an attempt gives a number of attempts, and not 0 unless the counter
\* has room for nothing else.
LEMMA CountedRange ==
    ASSUME NEW n \in 0..AttemptCap
    PROVE  /\ Counted(n) \in 0..AttemptCap
           /\ AttemptCap > 0 => Counted(n) > 0
  BY JobQueueAssumption DEF Counted

\* The constants are as assumed.
LEMMA Bounds ==
    /\ MaxRequests \in Nat /\ MaxManual \in Nat /\ MaxScripts \in Nat
    /\ MaxStarts \in Nat /\ MaxStarts > 0
    /\ AttemptCap \in Nat
    /\ AnyJob \in Job
    /\ Recurring = {}
    /\ IsFiniteSet(Requester)
  BY RestartAssumption, JobQueueAssumption DEF AnyJob

\* A row that is not there, and a worker that is not.
LEMMA NothingType ==
    /\ NoRow \in RestartRow /\ NoRow.state = "absent"
    /\ NoWorker \in RestartWorker
    /\ NoWorker.pc = "none" /\ NoWorker.script = 0
  <1>1. AnyJob \in Job /\ 0 \in 0..MaxRequests /\ 0 \in 0..AttemptCap
        /\ 0 \in 0..MaxScripts
    BY Bounds
  <1>2. NoRow \in RestartRow /\ NoRow.state = "absent"
    BY <1>1 DEF NoRow, RestartRow, State
  <1>3. [key |-> AnyJob, id |-> 0, attempts |-> 0, finished |-> FALSE]
            \in RestartHandle
    BY <1>1 DEF RestartHandle
  <1>4. QED
    BY <1>1, <1>2, <1>3 DEF NoWorker, RestartWorker

\* A handle has the identifier and the attempts of its row.
LEMMA GetJobRow ==
    ASSUME NEW t \in Rows, NEW j \in Job
    PROVE  /\ GetJob(t, j) \in RestartHandle
           /\ GetJob(t, j).key = j
           /\ GetJob(t, j).id = t[j].id
           /\ GetJob(t, j).attempts = t[j].attempts
  BY DEF GetJob, RestartHandle, Rows, RestartRow

\* add_job() adds a row if there is none.
LEMMA AddJobRow ==
    ASSUME NEW t \in Rows, NEW j \in Job, NEW id \in 0..MaxRequests
    PROVE  /\ AddJob(t, j, id, FALSE) \in Rows
           /\ AddJob(t, j, id, FALSE)[j].state # "absent"
           /\ \A i \in Job : i # j => AddJob(t, j, id, FALSE)[i] = t[i]
           /\ t[j].state # "absent" => AddJob(t, j, id, FALSE) = t
           /\ t[j].state = "absent" =>
                /\ AddJob(t, j, id, FALSE)[j].id = id
                /\ AddJob(t, j, id, FALSE)[j].attempts = 0
  <1> DEFINE row == [NoRow EXCEPT !.state = "queued", !.id = id,
                                  !.delayed = FALSE]
  <1>1. /\ row \in RestartRow /\ row.state = "queued"
        /\ row.id = id /\ row.attempts = 0
    BY NothingType DEF NoRow, RestartRow, State
  <1> HIDE DEF row
  <1>2. AddJob(t, j, id, FALSE) =
            IF t[j].state # "absent" THEN t ELSE [t EXCEPT ![j] = row]
    BY DEF AddJob, row, Exists
  <1>3. QED
    BY <1>1, <1>2 DEF Rows, Exists

\* claim() changes the state of one row.
LEMMA ClaimRow ==
    ASSUME NEW t \in Rows, NEW h \in RestartHandle, CanClaim(t, h)
    PROVE  /\ Claim(t, h) \in Rows
           /\ \A i \in Job : i # h.key => Claim(t, h)[i] = t[i]
           /\ Claim(t, h)[h.key].state = "claimed"
           /\ Claim(t, h)[h.key].id = t[h.key].id
           /\ Claim(t, h)[h.key].attempts = t[h.key].attempts
           /\ \A i \in Job : Claim(t, h)[i].state # "absent" <=>
                t[i].state # "absent"
  <1>1. h.key \in Job /\ t[h.key] \in RestartRow
    BY DEF RestartHandle, Rows
  <1> DEFINE row == [t[h.key] EXCEPT !.state = "claimed", !.resting = FALSE]
  <1>2. /\ row \in RestartRow /\ row.state = "claimed"
        /\ row.id = t[h.key].id /\ row.attempts = t[h.key].attempts
    BY <1>1 DEF RestartRow, State
  <1>3. (h.key \in Recurring) = FALSE
    BY Bounds
  <1>4. Claim(t, h) = [t EXCEPT ![h.key] = row]
    BY <1>3 DEF Claim
  <1> HIDE DEF row
  <1>5. QED
    BY <1>1, <1>2, <1>4 DEF Rows, Exists, CanClaim

\* finish() removes the row.
LEMMA FinishRow ==
    ASSUME NEW t \in Rows, NEW h \in RestartHandle
    PROVE  /\ Finish(t, h, FALSE) \in Rows
           /\ \A i \in Job : i # h.key => Finish(t, h, FALSE)[i] = t[i]
           /\ Finish(t, h, FALSE)[h.key].state = "absent"
  <1>1. h.key \in Job
    BY DEF RestartHandle
  <1>2. Finish(t, h, FALSE) = [t EXCEPT ![h.key] = NoRow]
    BY Bounds DEF Finish
  <1>3. QED
    BY <1>1, <1>2, NothingType DEF Rows, Exists

\* release() and park() leave rows their identifiers, and count an attempt, or
\* leave the row its own number.
LEMMA ReleaseRow ==
    ASSUME NEW t \in Rows, NEW h \in RestartHandle, NEW d \in BOOLEAN,
           NEW inc \in BOOLEAN
    PROVE  /\ Release(t, h, d, inc) \in Rows
           /\ \A i \in Job : i # h.key => Release(t, h, d, inc)[i] = t[i]
           /\ \A i \in Job : Release(t, h, d, inc)[i].state # "absent" <=>
                t[i].state # "absent"
           /\ \A i \in Job : Release(t, h, d, inc)[i].id = t[i].id
           /\ Release(t, h, d, inc)[h.key].attempts \in
                {t[h.key].attempts, Counted(h.attempts)}
           /\ inc /\ t[h.key].state # "absent" =>
                Release(t, h, d, inc)[h.key].attempts = Counted(h.attempts)
  <1> DEFINE tries == IF inc THEN Counted(h.attempts) ELSE t[h.key].attempts
             row == [t[h.key] EXCEPT !.state = "queued", !.delayed = d,
                                     !.attempts = tries]
  <1>1. h.key \in Job /\ t[h.key] \in RestartRow
    BY DEF RestartHandle, Rows
  <1>2. tries \in 0..AttemptCap
    BY <1>1, CountedRange DEF RestartHandle, RestartRow
  <1>3. /\ tries \in {t[h.key].attempts, Counted(h.attempts)}
        /\ inc => tries = Counted(h.attempts)
    OBVIOUS
  <1>4. Release(t, h, d, inc) =
            IF t[h.key].state # "absent" THEN [t EXCEPT ![h.key] = row] ELSE t
    BY DEF Release, Exists
  <1> HIDE DEF tries
  <1>5. /\ row \in RestartRow /\ row.state = "queued"
        /\ row.id = t[h.key].id /\ row.attempts = tries
    BY <1>1, <1>2 DEF RestartRow, State
  <1> HIDE DEF row
  <1>6. QED
    BY <1>1, <1>3, <1>4, <1>5 DEF Rows, Exists

\* The same of a release by hand, which counts no attempt.
LEMMA RetryRow ==
    ASSUME NEW t \in Rows, NEW j \in Job
    PROVE  LET u == Release(t, GetJob(t, j), FALSE, FALSE) IN
           /\ u \in Rows
           /\ \A i \in Job : i # j => u[i] = t[i]
           /\ \A i \in Job : u[i].state # "absent" <=> t[i].state # "absent"
           /\ \A i \in Job : /\ u[i].id = t[i].id
                              /\ u[i].attempts = t[i].attempts
  <1> DEFINE row == [t[j] EXCEPT !.state = "queued", !.delayed = FALSE,
                                 !.attempts = t[j].attempts]
  <1>1. t[j] \in RestartRow
    BY DEF Rows
  <1>2. GetJob(t, j).key = j
    BY DEF GetJob
  <1>3. Release(t, GetJob(t, j), FALSE, FALSE) =
            IF t[j].state # "absent" THEN [t EXCEPT ![j] = row] ELSE t
    BY <1>2 DEF Release, Exists
  <1>4. /\ row \in RestartRow /\ row.state = "queued"
        /\ row.id = t[j].id /\ row.attempts = t[j].attempts
    BY <1>1 DEF RestartRow, State
  <1> HIDE DEF row
  <1>5. QED
    BY <1>3, <1>4 DEF Rows

\* park() leaves rows their identifiers, and counts the attempt.
LEMMA ParkRow ==
    ASSUME NEW t \in Rows, NEW h \in RestartHandle
    PROVE  /\ Park(t, h) \in Rows
           /\ \A i \in Job : i # h.key => Park(t, h)[i] = t[i]
           /\ \A i \in Job : Park(t, h)[i].state # "absent" <=>
                t[i].state # "absent"
           /\ \A i \in Job : Park(t, h)[i].id = t[i].id
           /\ t[h.key].state # "absent" =>
                Park(t, h)[h.key].attempts = Counted(h.attempts)
  <1> DEFINE tries == Counted(h.attempts)
             row == [t[h.key] EXCEPT !.state = "parked", !.attempts = tries]
  <1>1. h.key \in Job /\ t[h.key] \in RestartRow
    BY DEF RestartHandle, Rows
  <1>2. tries \in 0..AttemptCap
    BY CountedRange DEF RestartHandle
  <1>3. Park(t, h) =
            IF t[h.key].state # "absent" THEN [t EXCEPT ![h.key] = row] ELSE t
    BY DEF Park, Exists
  <1> HIDE DEF tries
  <1>4. /\ row \in RestartRow /\ row.state = "parked"
        /\ row.id = t[h.key].id /\ row.attempts = tries
    BY <1>1, <1>2 DEF RestartRow, State
  <1> HIDE DEF row
  <1>5. QED
    BY <1>1, <1>3, <1>4 DEF Rows, Exists, tries

\* A start, and the passing of time, leave the rows their identifiers and their
\* attempts.
LEMMA ReleaseAllRow ==
    ASSUME NEW t \in Rows
    PROVE  /\ ReleaseAll(t) \in Rows
           /\ \A i \in Job : ReleaseAll(t)[i].state # "absent" <=>
                t[i].state # "absent"
           /\ \A i \in Job : /\ ReleaseAll(t)[i].id = t[i].id
                              /\ ReleaseAll(t)[i].attempts = t[i].attempts
  <1>1. ASSUME NEW i \in Job
        PROVE  /\ [t[i] EXCEPT !.state = "queued"] \in RestartRow
               /\ [t[i] EXCEPT !.state = "queued"].state = "queued"
               /\ [t[i] EXCEPT !.state = "queued"].id = t[i].id
               /\ [t[i] EXCEPT !.state = "queued"].attempts = t[i].attempts
    BY DEF Rows, RestartRow, State
  <1>2. QED
    BY <1>1 DEF ReleaseAll, Rows, Exists

LEMMA DelayOverRow ==
    ASSUME NEW t \in Rows, NEW j \in Job
    PROVE  /\ DelayOver(t, j) \in Rows
           /\ \A i \in Job : /\ DelayOver(t, j)[i].state = t[i].state
                             /\ DelayOver(t, j)[i].id = t[i].id
                             /\ DelayOver(t, j)[i].attempts = t[i].attempts
           /\ \A i \in Job : DelayOver(t, j)[i].state # "absent" <=>
                t[i].state # "absent"
  <1>1. /\ [t[j] EXCEPT !.delayed = FALSE] \in RestartRow
        /\ [t[j] EXCEPT !.delayed = FALSE].state = t[j].state
        /\ [t[j] EXCEPT !.delayed = FALSE].id = t[j].id
        /\ [t[j] EXCEPT !.delayed = FALSE].attempts = t[j].attempts
    BY DEF Rows, RestartRow
  <1>2. DelayOver(t, j) = [t EXCEPT ![j] = [t[j] EXCEPT !.delayed = FALSE]]
    BY DEF DelayOver
  <1>3. QED
    BY <1>1, <1>2 DEF Rows, Exists

-----------------------------------------------------------------------------
(* Type correctness                                                        *)

Asking == {r \in Requester : requester[r].pc # "idle"}

\* The identifiers suffice for those that are asking.
RequestsFit == requests + Cardinality(Asking) <= MaxRequests

TypeInv == TypeOK /\ RequestsFit

\* Steps that leave the requesters alone.
LEMMA FitUnchanged ==
    ASSUME RequestsFit, UNCHANGED <<requester, requests>>
    PROVE  RequestsFit'
  BY DEF RequestsFit, Asking

\* The worker goes on to another stage.
LEMMA GotoType ==
    ASSUME worker \in RestartWorker,
           NEW pc \in {"lock", "script", "wait", "upgrade", "ask", "unlock",
                       "finish"}
    PROVE  LET w == [worker EXCEPT !.pc = pc] IN
           /\ w \in RestartWorker
           /\ w.pc = pc /\ w.script = worker.script /\ w.job = worker.job
  BY DEF RestartWorker

\* A script goes on to another stage.
LEMMA SetScriptType ==
    ASSUME scripts \in Seq(Script), NEW s \in DOMAIN scripts,
           NEW pc \in {"begun", "stopping", "stopped", "ended"}
    PROVE  LET u == [scripts EXCEPT ![s].pc = pc] IN
           /\ u \in Seq(Script) /\ Len(u) = Len(scripts)
           /\ DOMAIN u = DOMAIN scripts
           /\ \A t \in DOMAIN scripts : u[t].id = scripts[t].id
  <1>1. scripts[s] \in Script
    OBVIOUS
  <1>2. /\ [scripts[s] EXCEPT !.pc = pc] \in Script
        /\ [scripts[s] EXCEPT !.pc = pc].id = scripts[s].id
    BY <1>1 DEF Script
  <1>3. QED
    BY <1>2

LEMMA TypeInit == Init => TypeInv
  <1> SUFFICES ASSUME Init PROVE TypeInv
    OBVIOUS
  <1>1. Asking = {}
    BY DEF Init, Asking, Satisfied
  <1>2. RequestsFit
    BY <1>1, Bounds, FS_EmptySet DEF RequestsFit, Init
  <1>3. jobs \in Rows
    BY NothingType DEF Init, Rows
  <1>4. requester \in
            [Requester -> [pc: {"idle", "checked", "locked"}, job: Job]]
    BY Bounds DEF Init, Satisfied
  <1>5. overlap \in BOOLEAN
    BY DEF Init
  <1>6. QED
    BY <1>2, <1>3, <1>4, <1>5, Bounds, NothingType DEF Init, TypeInv, TypeOK, Rows

\* Asking for a restart keeps the types.
LEMMA TypeRequest ==
    ASSUME TypeInv, NEW r \in Requester, Request(r)
    PROVE  TypeInv'
  <1>1. IsFiniteSet(Asking) /\ Cardinality(Asking) \in Nat
    BY Bounds, FS_Subset, FS_CardinalityType DEF Asking
  <1>2. ASSUME NEW j \in Job, CheckLock(r, j) PROVE TypeInv'
    <2>1. requester' \in
            [Requester -> [pc: {"idle", "checked", "locked"}, job: Job]]
      BY <1>2 DEF CheckLock, TypeInv, TypeOK
    <2>2. Asking' = Asking \cup {r} /\ r \notin Asking
      BY <1>2 DEF CheckLock, Asking, TypeInv, TypeOK
    <2>3. Cardinality(Asking') = Cardinality(Asking) + 1
      BY <1>1, <2>2, FS_AddElement
    <2>4. requests + Cardinality(Asking) < MaxRequests
      BY <1>2 DEF CheckLock, MayAsk, Asking
    <2>5. requests \in Nat /\ requests' = requests
      BY <1>2, Bounds DEF CheckLock, TypeInv, TypeOK
    <2>6. RequestsFit'
      BY <1>1, <2>3, <2>4, <2>5, Bounds DEF RequestsFit
    <2>7. QED
      BY <1>2, <2>1, <2>6 DEF CheckLock, Looked, TypeInv, TypeOK
  <1>3. CASE TouchLock(r)
    <2>1. requester' \in
            [Requester -> [pc: {"idle", "checked", "locked"}, job: Job]]
      BY <1>3 DEF TouchLock, TypeInv, TypeOK
    <2>2. Asking' = Asking /\ requests' = requests
      BY <1>3 DEF TouchLock, Asking, TypeInv, TypeOK
    <2>3. RequestsFit'
      BY <2>2 DEF TypeInv, RequestsFit
    <2>4. QED
      BY <1>3, <2>1, <2>3 DEF TouchLock, TypeInv, TypeOK
  <1>4. CASE QueueRestart(r)
    <2>1. Satisfied \in [pc: {"idle", "checked", "locked"}, job: Job]
          /\ Satisfied.pc = "idle"
      BY Bounds DEF Satisfied
    <2>2. requester' \in
            [Requester -> [pc: {"idle", "checked", "locked"}, job: Job]]
      BY <1>4, <2>1 DEF QueueRestart, TypeInv, TypeOK
    <2>3. r \in Asking /\ Asking' = Asking \ {r}
      BY <1>4, <2>1 DEF QueueRestart, Asking, TypeInv, TypeOK
    <2>4. Cardinality(Asking') = Cardinality(Asking) - 1
      BY <1>1, <2>3, FS_RemoveElement
    <2>5. Cardinality(Asking) > 0
      BY <1>1, <2>3, FS_EmptySet
    <2>6. requests \in Nat /\ requests' = requests + 1
      BY <1>4, Bounds DEF QueueRestart, TypeInv, TypeOK
    <2>7. RequestsFit' /\ requests' \in 0..MaxRequests
      BY <1>1, <2>4, <2>5, <2>6, Bounds DEF TypeInv, RequestsFit
    <2>8. jobs' \in Rows
      BY <1>4, <2>2, <2>6, <2>7, AddJobRow
      DEF QueueRestart, TypeInv, TypeOK, Rows
    <2>9. QED
      BY <1>4, <2>2, <2>7, <2>8 DEF QueueRestart, TypeInv, TypeOK, Rows
  <1>5. QED
    BY <1>2, <1>3, <1>4 DEF Request

\* The worker ends, having done something to the table.
LEMMA WorkerGone ==
    ASSUME TypeInv, jobs' \in Rows, worker' = NoWorker,
           UNCHANGED <<lock, backend, starts, scripts, outside>>
    PROVE  TypeInv'
  <1>1. worker' \in RestartWorker /\ worker'.script <= Len(scripts)
    BY NothingType DEF TypeInv, TypeOK
  <1>2. RequestsFit'
    BY FitUnchanged DEF TypeInv, outside
  <1>3. QED
    BY <1>1, <1>2 DEF TypeInv, TypeOK, Rows, outside

\* The end of a worker by an exception keeps the types.
LEMMA TypeCrash ==
    ASSUME TypeInv, Crash
    PROVE  TypeInv'
  <1>1. jobs' \in Rows
    BY ParkRow DEF Crash, TypeInv, TypeOK, Rows, RestartWorker
  <1>2. QED
    BY <1>1, WorkerGone DEF Crash

\* The worker's steps keep the types.
LEMMA TypeWork ==
    ASSUME TypeInv, Work \/ WorkerCrashes
    PROVE  TypeInv'
  <1> USE DEF outside, TypeInv
  <1>0. /\ worker \in RestartWorker /\ worker.job \in RestartHandle
        /\ worker.script <= Len(scripts) /\ jobs \in Rows
        /\ Len(scripts) \in Nat /\ scripts \in Seq(Script)
    BY DEF TypeOK, RestartWorker, Rows
  <1>1. ASSUME NEW j \in Job, ClaimJob(j) PROVE TypeInv'
    <2> DEFINE h == GetJob(jobs, j)
    <2>1. h \in RestartHandle /\ h.key = j /\ CanClaim(jobs, h)
      BY <1>0, <1>1, GetJobRow DEF ClaimJob, Claimable, CanClaim
    <2>2. jobs' \in Rows
      BY <1>0, <1>1, <2>1, ClaimRow DEF ClaimJob
    <2>3. FirstStep(h) \in {"lock", "upgrade", "ask"}
      BY DEF FirstStep
    <2>4. worker' = [NoWorker EXCEPT !.pc = FirstStep(h), !.job = h]
      BY <1>1 DEF ClaimJob
    <2> HIDE DEF h
    <2>5. worker' \in RestartWorker /\ worker'.script = 0
      BY <2>1, <2>3, <2>4, NothingType DEF RestartWorker
    <2>6. QED
      BY <1>0, <1>1, <2>2, <2>5, FitUnchanged DEF ClaimJob, TypeOK, Rows
  <1>2. CASE WriteLock
    BY <1>0, <1>2, GotoType, FitUnchanged DEF WriteLock, Goto, TypeOK
  <1>3. CASE StartScript
    <2> DEFINE new == [job |-> worker.job.key, id |-> worker.job.id,
                       stops |-> 0, pc |-> "begun"]
    <2>1. new \in Script
      BY <1>0, Bounds DEF Script, RestartHandle
    <2>2. scripts' = Append(scripts, new)
      BY <1>3 DEF StartScript
    <2> HIDE DEF new
    <2>3. /\ scripts' \in Seq(Script)
          /\ Len(scripts') = Len(scripts) + 1
      BY <1>0, <2>1, <2>2
    <2>4. Len(scripts) + 1 \in 0..MaxScripts
      BY <1>0, <1>3, Bounds DEF StartScript
    <2>5. /\ worker' = [worker EXCEPT !.pc = "wait",
                                       !.script = Len(scripts) + 1]
          /\ worker' \in RestartWorker /\ worker'.script = Len(scripts) + 1
      BY <1>0, <1>3, <2>4 DEF StartScript, RestartWorker
    <2>6. QED
      BY <1>0, <1>3, <2>3, <2>4, <2>5, Bounds, FitUnchanged
      DEF StartScript, TypeOK
  <1>4. CASE ScriptFailed
    BY <1>0, <1>4, GotoType, FitUnchanged DEF ScriptFailed, Goto, TypeOK
  <1>5. CASE Interrupted
    <2>1. jobs' \in Rows
      BY <1>0, <1>5, ReleaseRow DEF Interrupted
    <2>2. QED
      BY <1>5, <2>1, WorkerGone DEF Interrupted
  <1>6. CASE UpgradeFrontend
    <2>1. CASE Crash
      BY <2>1, TypeCrash
    <2>2. CASE ~Crash
      <3>1. PICK pc \in {"ask", "unlock"} : worker' = [worker EXCEPT !.pc = pc]
        BY <1>6, <2>2 DEF UpgradeFrontend, Goto
      <3>2. UNCHANGED <<jobs, lock, backend, starts, scripts, outside>>
        BY <1>6, <2>2 DEF UpgradeFrontend
      <3>3. QED
        BY <1>0, <3>1, <3>2, GotoType, FitUnchanged DEF TypeOK
    <2>3. QED
      BY <2>1, <2>2
  <1>7. CASE AskFrontend
    <2>1. CASE Crash
      BY <2>1, TypeCrash
    <2>2. CASE ~Crash
      <3>1. /\ worker' = [worker EXCEPT !.pc = "unlock"]
            /\ UNCHANGED <<jobs, lock, backend, starts, scripts, outside>>
        BY <1>7, <2>2 DEF AskFrontend, Goto
      <3>2. QED
        BY <1>0, <3>1, GotoType, FitUnchanged DEF TypeOK
    <2>3. QED
      BY <2>1, <2>2
  <1>8. CASE Unlock
    <2>1. CASE Crash
      BY <2>1, TypeCrash
    <2>2. CASE ~Crash
      <3>1. /\ worker' = [worker EXCEPT !.pc = "finish"]
            /\ lock' = "none"
            /\ UNCHANGED <<jobs, backend, starts, scripts, outside>>
        BY <1>8, <2>2 DEF Unlock, Goto
      <3>2. QED
        BY <1>0, <3>1, GotoType, FitUnchanged DEF TypeOK
    <2>3. QED
      BY <2>1, <2>2
  <1>9. CASE FinishJob
    <2>1. jobs' \in Rows
      BY <1>0, <1>9, FinishRow DEF FinishJob
    <2>2. QED
      BY <1>9, <2>1, WorkerGone DEF FinishJob
  <1>10. CASE WorkerCrashes
    BY <1>10, TypeCrash DEF WorkerCrashes
  <1>11. QED
    BY <1>1, <1>2, <1>3, <1>4, <1>5, <1>6, <1>7, <1>8, <1>9, <1>10 DEF Work

\* The scripts, the shutdown and people keep the types.
LEMMA TypeBoot ==
    ASSUME TypeOK, Boot
    PROVE  jobs' \in Rows /\ starts' \in 1..MaxStarts /\ backend' = "up"
  <1>1. jobs' \in Rows
    BY ReleaseAllRow DEF Boot, TypeOK, Rows
  <1>2. QED
    BY <1>1, Bounds DEF Boot, TypeOK

LEMMA TypeScript ==
    ASSUME TypeInv, NEW s \in DOMAIN scripts,
           RunScript(s) \/ KillBackend(s) \/ ScriptFails(s)
    PROVE  TypeInv'
  <1> USE DEF outside, TypeInv
  <1>0. /\ scripts \in Seq(Script) /\ Len(scripts) \in Nat
        /\ worker.script <= Len(scripts) /\ worker \in RestartWorker
        /\ jobs \in Rows
    BY DEF TypeOK, Rows
  <1>1. CASE AskToStop(s)
    <2>1. CASE backend = "down"
      BY <1>0, <1>1, <2>1, SetScriptType, FitUnchanged
      DEF AskToStop, SetScript, TypeOK
    <2>2. CASE backend # "down"
      <3> DEFINE u == [scripts[s] EXCEPT !.pc = "stopping", !.stops = starts]
      <3>1. scripts[s] \in Script /\ starts \in 0..MaxStarts
        BY <1>0, Bounds DEF TypeOK
      <3>2. u \in Script
        BY <3>1 DEF Script
      <3>3. scripts' = [scripts EXCEPT ![s] = u]
        BY <1>0, <1>1, <2>2 DEF AskToStop
      <3> HIDE DEF u
      <3>4. scripts' \in Seq(Script) /\ Len(scripts') = Len(scripts)
        BY <1>0, <3>2, <3>3
      <3>5. QED
        BY <1>0, <1>1, <2>2, <3>4, FitUnchanged DEF AskToStop, TypeOK
    <2>3. QED
      BY <2>1, <2>2
  <1>2. CASE HasStopped(s)
    BY <1>0, <1>2, SetScriptType, FitUnchanged DEF HasStopped, SetScript, TypeOK
  <1>3. CASE StartBackend(s)
    BY <1>0, <1>3, TypeBoot, SetScriptType, FitUnchanged
    DEF StartBackend, SetScript, TypeOK, Rows
  <1>4. CASE KillBackend(s)
    <2>1. worker' \in RestartWorker /\ worker'.script <= Len(scripts)
      BY <1>0, <1>4, NothingType DEF KillBackend
    <2>2. scripts' \in Seq(Script) /\ Len(scripts') = Len(scripts)
      BY <1>0, <1>4, SetScriptType DEF KillBackend, SetScript
    <2>3. QED
      BY <1>4, <2>1, <2>2, FitUnchanged DEF KillBackend, TypeOK
  <1>5. CASE ScriptFails(s)
    BY <1>0, <1>5, SetScriptType, FitUnchanged
    DEF ScriptFails, SetScript, TypeOK
  <1>6. QED
    BY <1>1, <1>2, <1>3, <1>4, <1>5 DEF RunScript

LEMMA TypeOther ==
    ASSUME TypeInv,
           \/ Shutdown
           \/ StopByHand \/ StartByHand
           \/ \E j \in Job : DelayPasses(j) \/ RetryJob(j)
    PROVE  TypeInv'
  <1> USE DEF outside, TypeInv
  <1>0. worker \in RestartWorker /\ jobs \in Rows
    BY DEF TypeOK, Rows
  <1>1. CASE InterruptWorkers
    <2>1. [worker EXCEPT !.interrupted = worker.pc # "none"] \in RestartWorker
          /\ [worker EXCEPT !.interrupted = worker.pc # "none"].script
                = worker.script
      BY <1>0 DEF RestartWorker
    <2>2. QED
      BY <1>1, <2>1, FitUnchanged DEF InterruptWorkers, TypeOK
  <1>2. CASE Exit
    BY <1>2, FitUnchanged DEF Exit, TypeOK
  <1>3. CASE StopByHand
    <2>1. manual' \in 0..MaxManual
      BY <1>3, Bounds DEF StopByHand, TypeOK
    <2>2. QED
      BY <1>3, <2>1, FitUnchanged DEF StopByHand, TypeOK
  <1>4. CASE StartByHand
    BY <1>4, TypeBoot, FitUnchanged DEF StartByHand, TypeOK, Rows
  <1>5. ASSUME NEW j \in Job, DelayPasses(j) PROVE TypeInv'
    BY <1>0, <1>5, DelayOverRow, FitUnchanged DEF DelayPasses, TypeOK, Rows
  <1>6. ASSUME NEW j \in Job, RetryJob(j) PROVE TypeInv'
    <2>1. jobs' \in Rows
      BY <1>0, <1>6, RetryRow DEF RetryJob
    <2>2. QED
      BY <1>6, <2>1, FitUnchanged DEF RetryJob, TypeOK, Rows
  <1>7. QED
    BY <1>1, <1>2, <1>3, <1>4, <1>5, <1>6 DEF Shutdown

LEMMA TypeStep == TypeInv /\ [Next]_vars => TypeInv'
  <1> SUFFICES ASSUME TypeInv, [Next]_vars PROVE TypeInv'
    OBVIOUS
  <1>1. CASE UNCHANGED vars
    BY <1>1 DEF vars, TypeInv, TypeOK, RequestsFit, Asking
  <1>2. CASE Next
    BY <1>2, TypeRequest, TypeWork, TypeScript, TypeOther DEF Next
  <1>3. QED
    BY <1>1, <1>2

\* The variables of Restart keep their types, and requests are never numbered
\* beyond the bound.
THEOREM RestartTypeCorrect == Spec => []TypeOK
  <1>1. TypeInv => TypeOK
    BY DEF TypeInv
  <1>2. QED
    BY <1>1, TypeInit, TypeStep, PTL DEF Spec

-----------------------------------------------------------------------------
(* A restart is begun once                                                 *)

\* What is numbered has been numbered by a request.
IdsGiven ==
    /\ \A j \in Job : Exists(jobs, j) => jobs[j].id \in 1..requests
    /\ \A s \in DOMAIN scripts : scripts[s].id \in 0..requests

IdsDiffer ==
    \A i, j \in Job :
        Exists(jobs, i) /\ Exists(jobs, j) /\ jobs[i].id = jobs[j].id => i = j

\* The worker has a claim on the row that it was made for, and its handle says
\* of it what it says of itself.
WorkerHolds ==
    worker.pc # "none" =>
        LET row == jobs[worker.job.key] IN
        /\ row.state = "claimed"
        /\ row.id = worker.job.id
        /\ row.attempts = worker.job.attempts

\* The back-end has no worker when it is down.
DownIdle == backend = "down" => worker.pc = "none"

\* A first attempt begins a restart, a later one checks what came of it.
AttemptsTell ==
    /\ worker.pc \in {"lock", "script"} => worker.job.attempts = 0
    /\ worker.pc \in {"upgrade", "ask"} => worker.job.attempts > 0

\* The worker has started the script of its restart, or found it started.
Begun(j) ==
    /\ worker.pc \in {"wait", "upgrade", "ask", "unlock", "finish"}
    /\ worker.job.key = j

\* A row without attempts, unless it is that worker's, has had no script.
NoScriptYet ==
    \A j \in Job :
        Exists(jobs, j) /\ jobs[j].attempts = 0 /\ ~Begun(j) =>
            \A s \in DOMAIN scripts : scripts[s].id # jobs[j].id

OnceInv ==
    /\ TypeInv
    /\ IdsGiven /\ IdsDiffer
    /\ WorkerHolds /\ DownIdle /\ AttemptsTell
    /\ NoScriptYet /\ RestartsOnce

\* What the invariant says of the table depends on its rows' identifiers and
\* attempts: a step that adds none, and lowers none that is not the worker's,
\* keeps them.
LEMMA RowsKept ==
    ASSUME OnceInv,
           \A j \in Job :
               Exists(jobs, j)' => /\ Exists(jobs, j)
                                   /\ jobs'[j].id = jobs[j].id
                                   /\ jobs'[j].attempts = 0 /\ ~Begun(j)' =>
                                        jobs[j].attempts = 0 /\ ~Begun(j),
           DOMAIN scripts' = DOMAIN scripts,
           \A s \in DOMAIN scripts : scripts'[s].id = scripts[s].id,
           requests' = requests
    PROVE  IdsGiven' /\ IdsDiffer' /\ NoScriptYet' /\ RestartsOnce'
  BY DEF OnceInv, IdsGiven, IdsDiffer, NoScriptYet, RestartsOnce

LEMMA OnceInit == Init => OnceInv
  <1> SUFFICES ASSUME Init PROVE OnceInv
    OBVIOUS
  <1>1. \A j \in Job : ~Exists(jobs, j)
    BY NothingType DEF Init, Exists
  <1>2. worker.pc = "none" /\ DOMAIN scripts = {}
    BY NothingType DEF Init
  <1>3. QED
    BY <1>1, <1>2, TypeInit
    DEF OnceInv, IdsGiven, IdsDiffer, WorkerHolds, DownIdle, AttemptsTell,
        NoScriptYet, RestartsOnce

\* A request adds a row that no script has been started for.
LEMMA OnceRequest ==
    ASSUME OnceInv, NEW r \in Requester, Request(r)
    PROVE  OnceInv'
  <1>0. TypeInv'
    BY TypeRequest DEF OnceInv
  <1>1. CASE UNCHANGED <<jobs, backend, worker, scripts, requests>>
    BY <1>0, <1>1
    DEF OnceInv, IdsGiven, IdsDiffer, WorkerHolds, DownIdle, AttemptsTell,
        NoScriptYet, Begun, RestartsOnce
  <1>2. CASE QueueRestart(r)
    <2> DEFINE j == requester[r].job
               id == requests + 1
    <2>1. /\ j \in Job /\ id \in 0..MaxRequests /\ jobs \in Rows
          /\ jobs' = AddJob(jobs, j, id, FALSE)
      BY <1>0, <1>2, Bounds DEF QueueRestart, OnceInv, TypeInv, TypeOK, Rows
    <2>a. /\ requests \in Nat /\ id = requests + 1 /\ requests' = id
          /\ UNCHANGED <<backend, worker, scripts>>
      BY <1>2, Bounds DEF QueueRestart, OnceInv, TypeInv, TypeOK
    <2> HIDE DEF j, id
    <2>2. \A i \in Job : i # j => jobs'[i] = jobs[i]
      BY <2>1, AddJobRow
    <2>b. jobs[j].state # "absent" => jobs' = jobs
      BY <2>1, AddJobRow
    <2>c. jobs[j].state = "absent" => jobs'[j].id = id /\ jobs'[j].attempts = 0
      BY <2>1, AddJobRow
    <2>3. CASE jobs[j].state # "absent"
      <3>1. jobs' = jobs /\ requests < requests'
        BY <2>a, <2>b, <2>3
      <3>2. IdsGiven'
        BY <2>a, <3>1 DEF OnceInv, IdsGiven, Exists
      <3>3. QED
        BY <1>0, <2>a, <3>1, <3>2
        DEF OnceInv, IdsDiffer, WorkerHolds, DownIdle, AttemptsTell,
            NoScriptYet, Begun, RestartsOnce, Exists
    <2>4. CASE jobs[j].state = "absent"
      <3>1. /\ \A i \in Job : i # j => jobs'[i] = jobs[i]
            /\ jobs'[j].id = id
        BY <2>2, <2>4, <2>c
      <3>2. /\ \A i \in Job : Exists(jobs, i) => jobs[i].id # id
            /\ \A s \in DOMAIN scripts : scripts[s].id # id
        BY <2>a DEF OnceInv, IdsGiven
      <3>3. IdsGiven'
        BY <2>a, <3>1 DEF OnceInv, IdsGiven, Exists
      <3>4. IdsDiffer'
        BY <3>1, <3>2 DEF OnceInv, IdsDiffer, Exists
      <3>5. WorkerHolds'
        BY <2>1, <2>a, <2>4, <3>1
        DEF OnceInv, TypeInv, TypeOK, RestartWorker, RestartHandle, WorkerHolds
      <3>6. NoScriptYet'
        BY <2>a, <3>1, <3>2 DEF OnceInv, NoScriptYet, Begun, Exists
      <3>7. QED
        BY <1>0, <2>a, <3>3, <3>4, <3>5, <3>6
        DEF OnceInv, DownIdle, AttemptsTell, RestartsOnce
    <2>5. QED
      BY <2>3, <2>4
  <1>3. QED
    BY <1>1, <1>2 DEF Request, CheckLock, TouchLock

\* The worker ends: its job's row has counted the attempt, or is gone.
LEMMA OnceGone ==
    ASSUME OnceInv, TypeInv', worker.pc # "none",
           worker' = NoWorker,
           UNCHANGED <<backend, scripts, requests>>,
           \A i \in Job : i # worker.job.key => jobs'[i] = jobs[i],
           \/ jobs'[worker.job.key].state = "absent"
           \/ /\ jobs'[worker.job.key].attempts > 0
              /\ jobs'[worker.job.key].id = jobs[worker.job.key].id
    PROVE  OnceInv'
  <1> DEFINE k == worker.job.key
  <1>1. /\ k \in Job /\ jobs[k].state # "absent"
        /\ ~Begun(k)'
    BY NothingType
    DEF OnceInv, TypeInv, TypeOK, RestartWorker, RestartHandle, WorkerHolds,
        Begun
  <1>2. \A j \in Job : j # k => ~Begun(j)
    BY DEF Begun
  <1>3. \A j \in Job :
            Exists(jobs, j)' => /\ Exists(jobs, j)
                                /\ jobs'[j].id = jobs[j].id
                                /\ jobs'[j].attempts = 0 /\ ~Begun(j)' =>
                                     jobs[j].attempts = 0 /\ ~Begun(j)
    BY <1>1, <1>2 DEF Exists
  <1>4. IdsGiven' /\ IdsDiffer' /\ NoScriptYet' /\ RestartsOnce'
    BY <1>3, RowsKept
  <1>5. WorkerHolds' /\ DownIdle' /\ AttemptsTell'
    BY NothingType DEF WorkerHolds, DownIdle, AttemptsTell
  <1>6. QED
    BY <1>4, <1>5 DEF OnceInv

\* An exception counts the attempt.
LEMMA OnceCrash ==
    ASSUME OnceInv, TypeInv', AttemptCap > 0, worker.pc # "none", Crash
    PROVE  OnceInv'
  <1>1. /\ worker.job \in RestartHandle /\ jobs \in Rows
        /\ jobs' = Park(jobs, worker.job)
        /\ jobs[worker.job.key].state # "absent"
    BY DEF Crash, OnceInv, TypeInv, TypeOK, RestartWorker, Rows, WorkerHolds
  <1>2. \A i \in Job : i # worker.job.key => jobs'[i] = jobs[i]
    BY <1>1, ParkRow
  <1>3. jobs'[worker.job.key].attempts = Counted(worker.job.attempts)
    BY <1>1, ParkRow
  <1>4. jobs'[worker.job.key].id = jobs[worker.job.key].id
    BY <1>1, ParkRow DEF RestartHandle
  <1>5. Counted(worker.job.attempts) > 0
    BY <1>1, CountedRange DEF RestartHandle
  <1>6. QED
    BY <1>2, <1>3, <1>4, <1>5, OnceGone DEF Crash, outside

\* The worker goes on, having left the table alone.
LEMMA OnceGoto ==
    ASSUME OnceInv, TypeInv', worker.pc # "none", backend # "down",
           NEW pc \in {"lock", "script", "wait", "upgrade", "ask", "unlock",
                       "finish"},
           pc \in {"lock", "script"} => worker.pc \in {"lock", "script"},
           pc \in {"upgrade", "ask"} => worker.pc \in {"upgrade", "ask"},
           worker' = [worker EXCEPT !.pc = pc],
           UNCHANGED <<jobs, backend, scripts, requests>>
    PROVE  OnceInv'
  <1>1. worker'.pc = pc /\ worker'.job = worker.job
    BY GotoType DEF OnceInv, TypeInv, TypeOK
  <1>2. \A j \in Job : Begun(j) => Begun(j)'
    BY <1>1 DEF Begun
  <1>3. NoScriptYet'
    BY <1>2 DEF OnceInv, NoScriptYet, Exists
  <1>4. QED
    BY <1>1, <1>3
    DEF OnceInv, IdsGiven, IdsDiffer, WorkerHolds, DownIdle, AttemptsTell,
        RestartsOnce, Exists

LEMMA OnceWork ==
    ASSUME OnceInv, AttemptCap > 0, Work \/ WorkerCrashes
    PROVE  OnceInv'
  <1>a. TypeInv'
    BY TypeWork DEF OnceInv
  <1>b. /\ worker \in RestartWorker /\ worker.job \in RestartHandle
        /\ worker.job.key \in Job
        /\ jobs \in Rows /\ scripts \in Seq(Script)
        /\ worker.pc # "none" => backend # "down"
    BY DEF OnceInv, TypeInv, TypeOK, RestartWorker, RestartHandle, Rows,
           DownIdle
  <1>1. ASSUME NEW j \in Job, ClaimJob(j) PROVE OnceInv'
    <2> DEFINE h == GetJob(jobs, j)
    <2>1. /\ h \in RestartHandle /\ h.key = j /\ CanClaim(jobs, h)
          /\ h.id = jobs[j].id /\ h.attempts = jobs[j].attempts
      BY <1>1, <1>b, GetJobRow DEF ClaimJob, Claimable, CanClaim
    <2>2. /\ jobs' = Claim(jobs, h)
          /\ worker' = [NoWorker EXCEPT !.pc = FirstStep(h), !.job = h]
          /\ worker.pc = "none" /\ backend # "down"
          /\ UNCHANGED <<backend, scripts, requests>>
      BY <1>1 DEF ClaimJob, outside
    <2> HIDE DEF h
    <2>3. \A i \in Job : i # j => jobs'[i] = jobs[i]
      BY <1>b, <2>1, <2>2, ClaimRow
    <2>4. /\ jobs'[j].state = "claimed" /\ jobs'[j].id = jobs[j].id
          /\ jobs'[j].attempts = jobs[j].attempts
      BY <1>b, <2>1, <2>2, ClaimRow
    <2>5. worker'.pc = FirstStep(h) /\ worker'.job = h
      BY <2>2, NothingType DEF RestartWorker
    <2>6. jobs[j].state # "absent" /\ \A i \in Job : ~Begun(i)
      BY <2>1, <2>2 DEF CanClaim, Begun
    <2>7. \A i \in Job :
            Exists(jobs, i)' => /\ Exists(jobs, i)
                                /\ jobs'[i].id = jobs[i].id
                                /\ jobs'[i].attempts = 0 /\ ~Begun(i)' =>
                                     jobs[i].attempts = 0 /\ ~Begun(i)
      BY <2>3, <2>4, <2>6 DEF Exists
    <2>8. IdsGiven' /\ IdsDiffer' /\ NoScriptYet' /\ RestartsOnce'
      BY <2>2, <2>7, RowsKept
    <2>9. AttemptsTell'
      BY <2>1, <2>5 DEF AttemptsTell, FirstStep, RestartHandle
    <2>10. QED
      BY <1>a, <2>1, <2>2, <2>4, <2>5, <2>8, <2>9
      DEF OnceInv, WorkerHolds, DownIdle
  <1>2. CASE WriteLock
    BY <1>2, <1>a, <1>b, OnceGoto DEF WriteLock, Goto, outside
  <1>3. CASE StartScript
    <2> DEFINE new == [job |-> worker.job.key, id |-> worker.job.id,
                       stops |-> 0, pc |-> "begun"]
               k == worker.job.key
               n == Len(scripts) + 1
    <2>1. /\ scripts' = Append(scripts, new) /\ new.id = worker.job.id
          /\ worker.pc = "script" /\ backend # "down"
          /\ worker' = [worker EXCEPT !.pc = "wait", !.script = n]
          /\ UNCHANGED <<jobs, backend, requests>>
      BY <1>3, <1>b DEF StartScript, outside
    <2>2. /\ worker'.pc = "wait" /\ worker'.job = worker.job
      BY <1>b, <2>1 DEF RestartWorker
    <2> HIDE DEF new
    <2>3. /\ DOMAIN scripts' = DOMAIN scripts \cup {n}
          /\ n \notin DOMAIN scripts
          /\ \A s \in DOMAIN scripts : scripts'[s] = scripts[s]
          /\ scripts'[n].id = worker.job.id
      BY <1>b, <2>1
    <2>4. /\ jobs[k].state = "claimed" /\ jobs[k].id = worker.job.id
          /\ jobs[k].attempts = 0
      BY <2>1 DEF OnceInv, WorkerHolds, AttemptsTell
    <2>5. \A s \in DOMAIN scripts : scripts[s].id # worker.job.id
      BY <1>b, <2>1, <2>4 DEF OnceInv, NoScriptYet, Begun, Exists
    <2>6. RestartsOnce'
      BY <2>3, <2>5 DEF OnceInv, RestartsOnce
    <2>7. worker.job.id \in 1..requests
      BY <1>b, <2>4 DEF OnceInv, IdsGiven, Exists
    <2>8. IdsGiven' /\ IdsDiffer'
      BY <2>1, <2>3, <2>7, Bounds
      DEF OnceInv, TypeInv, TypeOK, IdsGiven, IdsDiffer, Exists
    <2>9. /\ Begun(k)'
          /\ \A j \in Job : j # k => ~Begun(j)
      BY <2>2 DEF Begun
    <2>10. \A j \in Job : j # k /\ Exists(jobs, j) => jobs[j].id # worker.job.id
      BY <1>b, <2>4 DEF OnceInv, IdsDiffer, Exists
    <2>11. NoScriptYet'
      BY <2>1, <2>3, <2>9, <2>10 DEF OnceInv, NoScriptYet, Exists
    <2>12. QED
      BY <1>a, <2>1, <2>2, <2>4, <2>6, <2>8, <2>11
      DEF OnceInv, WorkerHolds, DownIdle, AttemptsTell
  <1>4. CASE ScriptFailed
    BY <1>4, <1>a, <1>b, OnceGoto DEF ScriptFailed, Goto, outside
  <1>5. CASE Interrupted
    <2>1. /\ jobs' = Release(jobs, worker.job, TRUE, TRUE)
          /\ jobs[worker.job.key].state # "absent"
      BY <1>5 DEF Interrupted, OnceInv, WorkerHolds
    <2>2. \A i \in Job : i # worker.job.key => jobs'[i] = jobs[i]
      BY <1>b, <2>1, ReleaseRow
    <2>3. jobs'[worker.job.key].attempts = Counted(worker.job.attempts)
      BY <1>b, <2>1, ReleaseRow
    <2>4. jobs'[worker.job.key].id = jobs[worker.job.key].id
      BY <1>b, <2>1, ReleaseRow
    <2>5. Counted(worker.job.attempts) > 0
      BY <1>b, CountedRange DEF RestartHandle
    <2>6. QED
      BY <1>5, <1>a, <2>2, <2>3, <2>4, <2>5, OnceGone DEF Interrupted, outside
  <1>6. CASE UpgradeFrontend
    <2>1. CASE Crash
      BY <1>6, <1>a, <2>1, OnceCrash DEF UpgradeFrontend
    <2>2. CASE ~Crash
      BY <1>6, <1>a, <1>b, <2>2, OnceGoto DEF UpgradeFrontend, Goto, outside
    <2>3. QED
      BY <2>1, <2>2
  <1>7. CASE AskFrontend
    BY <1>7, <1>a, <1>b, OnceCrash, OnceGoto DEF AskFrontend, Goto, outside
  <1>8. CASE Unlock
    BY <1>8, <1>a, <1>b, OnceCrash, OnceGoto DEF Unlock, Goto, outside
  <1>9. CASE FinishJob
    <2>1. jobs' = Finish(jobs, worker.job, FALSE)
      BY <1>9 DEF FinishJob
    <2>2. \A i \in Job : i # worker.job.key => jobs'[i] = jobs[i]
      BY <1>b, <2>1, FinishRow
    <2>3. jobs'[worker.job.key].state = "absent"
      BY <1>b, <2>1, FinishRow
    <2>4. QED
      BY <1>9, <1>a, <2>2, <2>3, OnceGone DEF FinishJob, outside
  <1>10. CASE WorkerCrashes
    BY <1>10, <1>a, OnceCrash DEF WorkerCrashes
  <1>11. QED
    BY <1>1, <1>2, <1>3, <1>4, <1>5, <1>6, <1>7, <1>8, <1>9, <1>10 DEF Work

\* A step of a script leaves the scripts their identifiers.
LEMMA SameScripts ==
    ASSUME TypeInv, NEW s \in DOMAIN scripts,
           RunScript(s) \/ KillBackend(s) \/ ScriptFails(s)
    PROVE  /\ DOMAIN scripts' = DOMAIN scripts
           /\ \A t \in DOMAIN scripts : scripts'[t].id = scripts[t].id
  <1>0. scripts \in Seq(Script) /\ scripts[s] \in Script
    BY DEF TypeInv, TypeOK
  <1>1. ASSUME NEW pc \in {"stopped", "ended"}, SetScript(s, pc)
        PROVE  /\ DOMAIN scripts' = DOMAIN scripts
               /\ \A t \in DOMAIN scripts : scripts'[t].id = scripts[t].id
    BY <1>0, <1>1, SetScriptType DEF SetScript
  <1>2. CASE AskToStop(s) /\ backend # "down"
    <2> DEFINE u == [scripts[s] EXCEPT !.pc = "stopping", !.stops = starts]
    <2>1. u.id = scripts[s].id
      BY <1>0 DEF Script
    <2>2. scripts' = [scripts EXCEPT ![s] = u]
      BY <1>0, <1>2 DEF AskToStop
    <2> HIDE DEF u
    <2>3. QED
      BY <1>0, <2>1, <2>2
  <1>3. CASE ~(AskToStop(s) /\ backend # "down")
    <2>1. SetScript(s, "stopped") \/ SetScript(s, "ended")
      BY <1>3
      DEF RunScript, AskToStop, HasStopped, StartBackend, KillBackend,
          ScriptFails
    <2>2. QED
      BY <1>1, <2>1
  <1>4. QED
    BY <1>2, <1>3

\* The worker is left alone, and so is its row.
LEMMA OnceAside ==
    ASSUME OnceInv, TypeInv',
           \A j \in Job : /\ Exists(jobs, j)' <=> Exists(jobs, j)
                          /\ jobs'[j].id = jobs[j].id
                          /\ jobs'[j].attempts = 0 => jobs[j].attempts = 0,
           worker.pc # "none" =>
               /\ backend' # "down"
               /\ jobs'[worker.job.key].state = jobs[worker.job.key].state
               /\ jobs'[worker.job.key].attempts
                    = jobs[worker.job.key].attempts,
           worker'.pc = worker.pc, worker'.job = worker.job,
           DOMAIN scripts' = DOMAIN scripts,
           \A s \in DOMAIN scripts : scripts'[s].id = scripts[s].id,
           requests' = requests
    PROVE  OnceInv'
  <1>1. \A j \in Job : Begun(j)' <=> Begun(j)
    BY DEF Begun
  <1>2. IdsGiven' /\ IdsDiffer' /\ NoScriptYet' /\ RestartsOnce'
    BY <1>1, RowsKept
  <1>3. worker.pc # "none" => worker.job.key \in Job
    BY DEF OnceInv, TypeInv, TypeOK, RestartWorker, RestartHandle
  <1>4. WorkerHolds' /\ DownIdle' /\ AttemptsTell'
    BY <1>3 DEF OnceInv, WorkerHolds, DownIdle, AttemptsTell
  <1>5. QED
    BY <1>2, <1>4 DEF OnceInv

\* A back-end starts with no worker, and with the rows' attempts.
LEMMA OnceBoot ==
    ASSUME OnceInv, TypeInv', Boot,
           DOMAIN scripts' = DOMAIN scripts,
           \A s \in DOMAIN scripts : scripts'[s].id = scripts[s].id,
           UNCHANGED <<worker, requests>>
    PROVE  OnceInv'
  <1>1. jobs \in Rows /\ jobs' = ReleaseAll(jobs) /\ worker.pc = "none"
    BY DEF Boot, OnceInv, TypeInv, TypeOK, Rows, DownIdle
  <1>2. \A j \in Job : Exists(jobs, j)' <=> Exists(jobs, j)
    BY <1>1, ReleaseAllRow DEF Exists
  <1>3. \A j \in Job : jobs'[j].id = jobs[j].id
                       /\ jobs'[j].attempts = jobs[j].attempts
    BY <1>1, ReleaseAllRow
  <1>4. QED
    BY <1>1, <1>2, <1>3, OnceAside

\* The scripts: a back-end that does not hang is killed when its worker has
\* been claimed for a later attempt, or is none.
LEMMA OnceScript ==
    ASSUME OnceInv, ~Stuck, NEW s \in DOMAIN scripts,
           RunScript(s) \/ KillBackend(s) \/ ScriptFails(s)
    PROVE  OnceInv'
  <1>1. TypeInv'
    BY TypeScript DEF OnceInv
  <1>2. /\ DOMAIN scripts' = DOMAIN scripts
        /\ \A t \in DOMAIN scripts : scripts'[t].id = scripts[t].id
    BY SameScripts DEF OnceInv
  <1>3. CASE KillBackend(s)
    <2>1. /\ UNCHANGED <<jobs, requests>> /\ worker' = NoWorker
          /\ worker.pc \in {"none", "upgrade", "ask"}
      BY <1>3 DEF KillBackend, AfterAMinute, outside
    <2>2. worker.pc # "none" => jobs[worker.job.key].attempts # 0
      BY <2>1
      DEF OnceInv, TypeInv, TypeOK, RestartWorker, RestartHandle,
          AttemptsTell, WorkerHolds
    <2>3. \A j \in Job : jobs[j].attempts = 0 => ~Begun(j)
      BY <2>1, <2>2 DEF Begun
    <2>4. \A j \in Job :
            Exists(jobs, j)' => /\ Exists(jobs, j)
                                /\ jobs'[j].id = jobs[j].id
                                /\ jobs'[j].attempts = 0 /\ ~Begun(j)' =>
                                     jobs[j].attempts = 0 /\ ~Begun(j)
      BY <2>1, <2>3 DEF Exists
    <2>5. IdsGiven' /\ IdsDiffer' /\ NoScriptYet' /\ RestartsOnce'
      BY <1>2, <2>1, <2>4, RowsKept
    <2>6. WorkerHolds' /\ DownIdle' /\ AttemptsTell'
      BY <2>1, NothingType DEF WorkerHolds, DownIdle, AttemptsTell
    <2>7. QED
      BY <1>1, <2>5, <2>6 DEF OnceInv
  <1>4. CASE StartBackend(s) /\ backend = "down"
    BY <1>1, <1>2, <1>4, OnceBoot DEF StartBackend, outside
  <1>5. CASE ~KillBackend(s) /\ ~(StartBackend(s) /\ backend = "down")
    <2>1. UNCHANGED <<jobs, worker, requests>>
      BY <1>5
      DEF RunScript, AskToStop, HasStopped, StartBackend, ScriptFails, outside
    <2>2. backend' = "down" => backend = "down"
      BY <1>5
      DEF RunScript, AskToStop, HasStopped, StartBackend, ScriptFails
    <2>3. worker.pc # "none" => backend' # "down"
      BY <2>2 DEF OnceInv, DownIdle
    <2>4. QED
      BY <1>1, <1>2, <2>1, <2>3, OnceAside DEF Exists
  <1>6. QED
    BY <1>3, <1>4, <1>5

LEMMA OnceOther ==
    ASSUME OnceInv, AttemptCap > 0,
           \/ Shutdown
           \/ StopByHand \/ StartByHand
           \/ \E j \in Job : DelayPasses(j) \/ RetryJob(j)
    PROVE  OnceInv'
  <1>a. TypeInv'
    BY TypeOther DEF OnceInv
  <1>b. /\ jobs \in Rows /\ worker \in RestartWorker
        /\ worker.job.key \in Job
        /\ worker.pc # "none" => backend # "down"
        /\ worker.pc # "none" => jobs[worker.job.key].state = "claimed"
    BY DEF OnceInv, TypeInv, TypeOK, Rows, RestartWorker, RestartHandle,
           DownIdle, WorkerHolds
  <1>1. CASE InterruptWorkers
    <2>1. worker'.pc = worker.pc /\ worker'.job = worker.job
      BY <1>b, <1>1 DEF InterruptWorkers, RestartWorker
    <2>2. UNCHANGED <<jobs, scripts, requests>> /\ backend' # "down"
      BY <1>1 DEF InterruptWorkers, outside
    <2>3. QED
      BY <1>a, <2>1, <2>2, OnceAside DEF Exists
  <1>2. CASE Exit
    BY <1>a, <1>2, OnceAside DEF Exit, Exists, outside
  <1>3. CASE StopByHand
    BY <1>a, <1>3, OnceAside DEF StopByHand, Exists
  <1>4. CASE StartByHand
    BY <1>a, <1>4, OnceBoot DEF StartByHand, outside
  <1>5. ASSUME NEW j \in Job, DelayPasses(j) PROVE OnceInv'
    <2>1. /\ jobs' = DelayOver(jobs, j)
          /\ UNCHANGED <<backend, worker, scripts, requests>>
      BY <1>5 DEF DelayPasses, outside
    <2>2. \A i \in Job : /\ jobs'[i].state = jobs[i].state
                         /\ jobs'[i].id = jobs[i].id
                         /\ jobs'[i].attempts = jobs[i].attempts
      BY <1>b, <2>1, DelayOverRow
    <2>3. \A i \in Job : Exists(jobs, i)' <=> Exists(jobs, i)
      BY <2>2 DEF Exists
    <2>4. QED
      BY <1>a, <1>b, <2>1, <2>2, <2>3, OnceAside
  <1>6. ASSUME NEW j \in Job, RetryJob(j) PROVE OnceInv'
    <2>1. jobs' = Release(jobs, GetJob(jobs, j), FALSE, FALSE)
      BY <1>6 DEF RetryJob
    <2>2. /\ jobs[j].state = "parked"
          /\ UNCHANGED <<backend, worker, scripts, requests>>
      BY <1>6 DEF RetryJob, outside
    <2>3. \A i \in Job : i # j => jobs'[i] = jobs[i]
      BY <1>b, <2>1, RetryRow
    <2>4. \A i \in Job : /\ jobs'[i].id = jobs[i].id
                         /\ jobs'[i].attempts = jobs[i].attempts
      BY <1>b, <2>1, RetryRow
    <2>5. \A i \in Job : jobs'[i].state # "absent" <=>
                            jobs[i].state # "absent"
      BY <1>b, <2>1, RetryRow
    <2>6. \A i \in Job : Exists(jobs, i)' <=> Exists(jobs, i)
      BY <2>5 DEF Exists
    <2>7. worker.pc # "none" => worker.job.key # j
      BY <1>b, <2>2
    <2>8. QED
      BY <1>a, <1>b, <2>2, <2>3, <2>4, <2>6, <2>7, OnceAside
  <1>7. QED
    BY <1>1, <1>2, <1>3, <1>4, <1>5, <1>6 DEF Shutdown

LEMMA OnceStep ==
    ASSUME ~Stuck, AttemptCap > 0
    PROVE  OnceInv /\ [Next]_vars => OnceInv'
  <1> SUFFICES ASSUME OnceInv, [Next]_vars PROVE OnceInv'
    OBVIOUS
  <1>1. CASE UNCHANGED vars
    <2>1. TypeInv'
      BY TypeStep DEF OnceInv
    <2>2. QED
      BY <1>1, <2>1
      DEF vars, OnceInv, IdsGiven, IdsDiffer, WorkerHolds, DownIdle,
          AttemptsTell, NoScriptYet, Begun, RestartsOnce, Exists
  <1>2. CASE Next
    BY <1>2, OnceRequest, OnceWork, OnceScript, OnceOther DEF Next
  <1>3. QED
    BY <1>1, <1>2

\* A restart is begun once, however often its back-end and its worker end and
\* are started again: attempts are counted when a worker is interrupted or
\* crashes, and a worker that is killed was beyond its first.
THEOREM RestartsOnceAlways ==
    ASSUME ~Stuck, AttemptCap > 0
    PROVE  Spec => []RestartsOnce
  <1>1. OnceInv /\ [Next]_vars => OnceInv'
    BY OnceStep
  <1>2. OnceInv => RestartsOnce
    BY DEF OnceInv
  <1>3. QED
    BY <1>1, <1>2, OnceInit, PTL DEF Spec

-----------------------------------------------------------------------------
(* One restart at a time                                                   *)

\* Without requests that overlap: while a restart is in progress the lock file is
\* there, whoever has seen that it was not has seen the end of the last restart,
\* and nobody else asks until there is a lock file again.
Locked == lock = "none" => \A j \in Job : ~Unfinished(j)

Asked ==
    \A r \in Requester : requester[r].pc # "idle" =>
        /\ \A j \in Job : ~Unfinished(j)
        /\ requester[r].pc = "locked" => lock # "none"

OneAsks ==
    \A q, r \in Requester :
        requester[q].pc # "idle" /\ requester[r].pc # "idle" => q = r

Alone == \A i, j \in Job : Unfinished(i) /\ Unfinished(j) => i = j

Single == Locked /\ Asked /\ OneAsks /\ Alone

AloneInv == TypeInv /\ WorkerHolds /\ DownIdle /\ (overlap \/ Single)

\* No restart begins, and none ends.
LEMMA AloneKept ==
    ASSUME AloneInv, TypeInv',
           \A j \in Job : Unfinished(j)' => Unfinished(j),
           UNCHANGED <<requester, overlap>>, lock' = lock \/ lock' # "none",
           WorkerHolds' /\ DownIdle'
    PROVE  AloneInv'
  BY DEF AloneInv, Single, Locked, Asked, OneAsks, Alone

\* Who asks does so when no restart is in progress, and alone or at the same time
\* as another.
LEMMA AloneRequest ==
    ASSUME AloneInv, NEW r \in Requester, Request(r)
    PROVE  AloneInv'
  <1>1. TypeInv'
    BY TypeRequest DEF AloneInv
  <1>2. requester \in
            [Requester -> [pc: {"idle", "checked", "locked"}, job: Job]]
    BY DEF AloneInv, TypeInv, TypeOK
  <1>3. ASSUME NEW j \in Job, CheckLock(r, j) PROVE AloneInv'
    <2>1. /\ UNCHANGED <<jobs, lock, backend, worker>> /\ lock = "none"
          /\ requester'[r].pc = "checked"
          /\ \A q \in Requester \ {r} : requester'[q] = requester[q]
      BY <1>2, <1>3 DEF CheckLock
    <2>2. WorkerHolds' /\ DownIdle'
      BY <2>1 DEF AloneInv, WorkerHolds, DownIdle
    <2>3. ASSUME ~overlap' PROVE Single'
      <3>1. /\ \A i \in Job : ~Unfinished(i)
            /\ \A q \in Requester : requester[q].pc = "idle"
        <4>1. CASE AtRest
          BY <4>1 DEF AtRest
        <4>2. CASE ~AtRest
          <5>1. /\ ~overlap
                /\ \A q \in Requester : requester[q].pc # "checked"
            BY <1>3, <2>3, <4>2 DEF CheckLock, Looked
          <5>2. Locked /\ Asked
            BY <5>1 DEF AloneInv, Single
          <5>3. \A q \in Requester : requester[q].pc # "locked"
            BY <2>1, <5>2 DEF Asked
          <5>4. QED
            BY <1>2, <2>1, <5>1, <5>2, <5>3 DEF Locked
        <4>3. QED
          BY <4>1, <4>2
      <3>2. \A i \in Job : ~Unfinished(i)'
        BY <2>1, <3>1 DEF Unfinished, Exists
      <3>3. \A q \in Requester : requester'[q].pc # "idle" => q = r
        BY <2>1, <3>1
      <3>4. QED
        BY <2>1, <3>2, <3>3 DEF Single, Locked, Asked, OneAsks, Alone
    <2>4. QED
      BY <1>1, <2>2, <2>3 DEF AloneInv
  <1>4. CASE TouchLock(r)
    <2>1. /\ UNCHANGED <<jobs, backend, worker, overlap>> /\ lock' # "none"
          /\ requester[r].pc = "checked"
          /\ \A q \in Requester : requester'[q].pc # "idle" => requester[q].pc # "idle"
      BY <1>2, <1>4 DEF TouchLock
    <2>2. WorkerHolds' /\ DownIdle'
      BY <2>1 DEF AloneInv, WorkerHolds, DownIdle
    <2>3. \A j \in Job : Unfinished(j)' => Unfinished(j)
      BY <2>1 DEF Unfinished, Exists
    <2>4. Single => Single'
      BY <2>1, <2>3 DEF Single, Locked, Asked, OneAsks, Alone
    <2>5. QED
      BY <1>1, <2>1, <2>2, <2>4 DEF AloneInv
  <1>5. CASE QueueRestart(r)
    <2> DEFINE k == requester[r].job
    <2>1. /\ k \in Job /\ jobs \in Rows /\ requests + 1 \in 0..MaxRequests
          /\ jobs' = AddJob(jobs, k, requests + 1, FALSE)
      BY <1>1, <1>2, <1>5 DEF QueueRestart, AloneInv, TypeInv, TypeOK, Rows
    <2>2. /\ UNCHANGED <<lock, backend, worker, overlap>>
          /\ requester[r].pc = "locked" /\ requester'[r].pc = "idle"
          /\ \A q \in Requester \ {r} : requester'[q] = requester[q]
      BY <1>2, <1>5 DEF QueueRestart, Satisfied
    <2> HIDE DEF k
    <2>3. \A i \in Job : i # k => jobs'[i] = jobs[i]
      BY <2>1, AddJobRow
    <2>4. jobs[k].state # "absent" => jobs' = jobs
      BY <2>1, AddJobRow
    <2>5. WorkerHolds' /\ DownIdle'
      BY <2>1, <2>2, <2>3, <2>4
      DEF AloneInv, WorkerHolds, DownIdle, TypeInv, TypeOK, RestartWorker,
          RestartHandle
    <2>6. ASSUME Single PROVE Single'
      <3>1. lock' # "none" /\ \A i \in Job : ~Unfinished(i)
        BY <2>2, <2>6 DEF Single, Asked
      <3>2. \A i \in Job : i # k => ~Unfinished(i)'
        BY <2>2, <2>3, <3>1 DEF Unfinished, Exists
      <3>3. \A q \in Requester : requester'[q].pc = "idle"
        BY <2>2, <2>6 DEF Single, OneAsks
      <3>4. QED
        BY <3>1, <3>2, <3>3 DEF Single, Locked, Asked, OneAsks, Alone
    <2>7. QED
      BY <1>1, <2>2, <2>5, <2>6 DEF AloneInv
  <1>6. QED
    BY <1>3, <1>4, <1>5 DEF Request

\* The worker ends before it has removed the lock, or has its row deleted.
LEMMA AloneGone ==
    ASSUME AloneInv, TypeInv', worker.pc # "none",
           worker' = NoWorker, UNCHANGED <<requester, overlap, lock>>,
           \A i \in Job : i # worker.job.key => jobs'[i] = jobs[i],
           worker.pc # "finish" \/ jobs'[worker.job.key].state = "absent"
    PROVE  AloneInv'
  <1>1. worker.job.key \in Job /\ jobs[worker.job.key].state # "absent"
    BY DEF AloneInv, TypeInv, TypeOK, RestartWorker, RestartHandle, WorkerHolds
  <1>2. \A j \in Job : Unfinished(j)' => Unfinished(j)
    BY <1>1 DEF Unfinished, Exists
  <1>3. WorkerHolds' /\ DownIdle'
    BY NothingType DEF WorkerHolds, DownIdle
  <1>4. QED
    BY <1>2, <1>3, AloneKept

\* The worker goes on with its restart.
LEMMA AloneGoto ==
    ASSUME AloneInv, TypeInv', worker.pc \notin {"none", "finish"},
           worker'.job = worker.job,
           UNCHANGED <<jobs, backend, requester, overlap>>,
           lock' = lock \/ lock' # "none"
    PROVE  AloneInv'
  <1>1. \A j \in Job : Unfinished(j)' => Unfinished(j)
    BY DEF Unfinished, Exists
  <1>2. WorkerHolds' /\ DownIdle'
    BY DEF AloneInv, WorkerHolds, DownIdle
  <1>3. QED
    BY <1>1, <1>2, AloneKept

LEMMA AloneCrash ==
    ASSUME AloneInv, TypeInv', worker.pc \notin {"none", "finish"}, Crash
    PROVE  AloneInv'
  <1>1. /\ worker.job \in RestartHandle /\ jobs \in Rows
        /\ jobs' = Park(jobs, worker.job)
    BY DEF Crash, AloneInv, TypeInv, TypeOK, RestartWorker, Rows
  <1>2. \A i \in Job : i # worker.job.key => jobs'[i] = jobs[i]
    BY <1>1, ParkRow
  <1>3. QED
    BY <1>2, AloneGone DEF Crash, outside

LEMMA AloneWork ==
    ASSUME AloneInv, Work \/ WorkerCrashes
    PROVE  AloneInv'
  <1>a. TypeInv'
    BY TypeWork DEF AloneInv
  <1>b. /\ worker \in RestartWorker /\ worker.job \in RestartHandle
        /\ worker.job.key \in Job /\ jobs \in Rows
    BY DEF AloneInv, TypeInv, TypeOK, RestartWorker, RestartHandle, Rows
  <1>1. ASSUME NEW j \in Job, ClaimJob(j) PROVE AloneInv'
    <2> DEFINE h == GetJob(jobs, j)
    <2>1. /\ h \in RestartHandle /\ h.key = j /\ CanClaim(jobs, h)
          /\ h.id = jobs[j].id /\ h.attempts = jobs[j].attempts
      BY <1>1, <1>b, GetJobRow DEF ClaimJob, Claimable, CanClaim
    <2>2. /\ jobs' = Claim(jobs, h)
          /\ worker' = [NoWorker EXCEPT !.pc = FirstStep(h), !.job = h]
          /\ worker.pc = "none" /\ backend # "down"
          /\ UNCHANGED <<backend, lock, requester, overlap>>
      BY <1>1 DEF ClaimJob, outside
    <2> HIDE DEF h
    <2>3. /\ jobs'[j].state = "claimed" /\ jobs'[j].id = jobs[j].id
          /\ jobs'[j].attempts = jobs[j].attempts
      BY <1>b, <2>1, <2>2, ClaimRow
    <2>4. \A i \in Job : jobs'[i].state # "absent" <=> jobs[i].state # "absent"
      BY <1>b, <2>1, <2>2, ClaimRow
    <2>5. worker'.pc = FirstStep(h) /\ worker'.job = h
      BY <2>2, NothingType DEF RestartWorker
    <2>6. \A i \in Job : Unfinished(i)' => Unfinished(i)
      BY <2>2, <2>4 DEF Unfinished, Exists
    <2>7. WorkerHolds' /\ DownIdle'
      BY <2>1, <2>2, <2>3, <2>5 DEF WorkerHolds, DownIdle
    <2>8. QED
      BY <1>a, <2>2, <2>6, <2>7, AloneKept
  <1>2. CASE WriteLock
    BY <1>2, <1>a, <1>b, AloneGoto, GotoType DEF WriteLock, Goto, outside
  <1>3. CASE StartScript
    <2>1. worker'.job = worker.job
      BY <1>3, <1>b DEF StartScript, RestartWorker
    <2>2. QED
      BY <1>3, <1>a, <2>1, AloneGoto DEF StartScript, outside
  <1>4. CASE ScriptFailed
    BY <1>4, <1>a, <1>b, AloneGoto, GotoType DEF ScriptFailed, Goto, outside
  <1>5. CASE Interrupted
    <2>1. jobs' = Release(jobs, worker.job, TRUE, TRUE)
      BY <1>5 DEF Interrupted
    <2>2. \A i \in Job : i # worker.job.key => jobs'[i] = jobs[i]
      BY <1>b, <2>1, ReleaseRow
    <2>3. QED
      BY <1>5, <1>a, <2>2, AloneGone DEF Interrupted, outside
  <1>6. CASE UpgradeFrontend
    <2>1. CASE Crash
      BY <1>6, <1>a, <2>1, AloneCrash DEF UpgradeFrontend
    <2>2. CASE ~Crash
      <3>1. PICK pc \in {"ask", "unlock"} : worker' = [worker EXCEPT !.pc = pc]
        BY <1>6, <2>2 DEF UpgradeFrontend, Goto
      <3>2. worker'.job = worker.job
        BY <1>b, <3>1, GotoType
      <3>3. QED
        BY <1>6, <1>a, <2>2, <3>2, AloneGoto DEF UpgradeFrontend, outside
    <2>3. QED
      BY <2>1, <2>2
  <1>7. CASE AskFrontend
    BY <1>7, <1>a, <1>b, AloneCrash, AloneGoto, GotoType
    DEF AskFrontend, Goto, outside
  <1>8. CASE Unlock
    <2>1. CASE Crash
      BY <1>8, <1>a, <2>1, AloneCrash DEF Unlock
    <2>2. CASE ~Crash
      <3> DEFINE k == worker.job.key
      <3>1. /\ worker.pc = "unlock" /\ lock' = "none"
            /\ worker' = [worker EXCEPT !.pc = "finish"]
            /\ UNCHANGED <<jobs, backend, requester, overlap>>
        BY <1>8, <2>2 DEF Unlock, Goto, outside
      <3>2. worker'.pc = "finish" /\ worker'.job = worker.job
        BY <1>b, <3>1, GotoType
      <3>3. Unfinished(k)
        BY <3>1 DEF AloneInv, WorkerHolds, Unfinished, Exists
      <3>4. WorkerHolds' /\ DownIdle'
        BY <3>1, <3>2 DEF AloneInv, WorkerHolds, DownIdle
      <3>5. ASSUME Single PROVE Single'
        <4>1. \A j \in Job : ~Unfinished(j)'
          BY <1>b, <3>1, <3>2, <3>3, <3>5 DEF Single, Alone, Unfinished, Exists
        <4>2. \A r \in Requester : requester'[r].pc = "idle"
          BY <1>b, <3>1, <3>3, <3>5 DEF Single, Asked
        <4>3. QED
          BY <4>1, <4>2 DEF Single, Locked, Asked, OneAsks, Alone
      <3>6. QED
        BY <1>a, <3>1, <3>4, <3>5 DEF AloneInv
    <2>3. QED
      BY <2>1, <2>2
  <1>9. CASE FinishJob
    <2>1. jobs' = Finish(jobs, worker.job, FALSE)
      BY <1>9 DEF FinishJob
    <2>2. \A i \in Job : i # worker.job.key => jobs'[i] = jobs[i]
      BY <1>b, <2>1, FinishRow
    <2>3. jobs'[worker.job.key].state = "absent"
      BY <1>b, <2>1, FinishRow
    <2>4. QED
      BY <1>9, <1>a, <2>2, <2>3, AloneGone DEF FinishJob, outside
  <1>10. CASE WorkerCrashes
    BY <1>10, <1>a, AloneCrash DEF WorkerCrashes
  <1>11. QED
    BY <1>1, <1>2, <1>3, <1>4, <1>5, <1>6, <1>7, <1>8, <1>9, <1>10 DEF Work

\* The worker and its row are left alone, and no row is added.
LEMMA AloneAside ==
    ASSUME AloneInv, TypeInv',
           \A j \in Job : Exists(jobs, j)' => Exists(jobs, j),
           worker.pc # "none" =>
               /\ backend' # "down"
               /\ jobs'[worker.job.key] = jobs[worker.job.key],
           worker'.pc = worker.pc, worker'.job = worker.job,
           UNCHANGED <<lock, requester, overlap>>
    PROVE  AloneInv'
  <1>1. \A j \in Job : Unfinished(j)' => Unfinished(j)
    BY DEF Unfinished
  <1>2. WorkerHolds' /\ DownIdle'
    BY DEF AloneInv, WorkerHolds, DownIdle
  <1>3. QED
    BY <1>1, <1>2, AloneKept

LEMMA AloneBoot ==
    ASSUME AloneInv, TypeInv', Boot, UNCHANGED <<worker, lock, requester, overlap>>
    PROVE  AloneInv'
  <1>1. jobs \in Rows /\ jobs' = ReleaseAll(jobs) /\ worker.pc = "none"
    BY DEF Boot, AloneInv, TypeInv, TypeOK, Rows, DownIdle
  <1>2. \A j \in Job : Exists(jobs, j)' => Exists(jobs, j)
    BY <1>1, ReleaseAllRow DEF Exists
  <1>3. QED
    BY <1>1, <1>2, AloneAside

\* A script does not kill a back-end whose worker has removed the lock.
LEMMA AloneScript ==
    ASSUME AloneInv, NEW s \in DOMAIN scripts,
           RunScript(s) \/ KillBackend(s) \/ ScriptFails(s)
    PROVE  AloneInv'
  <1>1. TypeInv'
    BY TypeScript DEF AloneInv
  <1>2. CASE KillBackend(s)
    <2>1. /\ UNCHANGED <<jobs, lock, requester, overlap>> /\ worker' = NoWorker
          /\ worker.pc # "finish"
      BY <1>2 DEF KillBackend, AfterAMinute, outside
    <2>2. \A j \in Job : Unfinished(j)' => Unfinished(j)
      BY <2>1 DEF Unfinished, Exists
    <2>3. WorkerHolds' /\ DownIdle'
      BY <2>1, NothingType DEF WorkerHolds, DownIdle
    <2>4. QED
      BY <1>1, <2>1, <2>2, <2>3, AloneKept
  <1>3. CASE StartBackend(s) /\ backend = "down"
    BY <1>1, <1>3, AloneBoot DEF StartBackend, outside
  <1>4. CASE ~KillBackend(s) /\ ~(StartBackend(s) /\ backend = "down")
    <2>1. UNCHANGED <<jobs, worker, lock, requester, overlap>>
      BY <1>4
      DEF RunScript, AskToStop, HasStopped, StartBackend, ScriptFails, outside
    <2>2. backend' = "down" => backend = "down"
      BY <1>4
      DEF RunScript, AskToStop, HasStopped, StartBackend, ScriptFails
    <2>3. worker.pc # "none" => backend' # "down"
      BY <2>2 DEF AloneInv, DownIdle
    <2>4. QED
      BY <1>1, <2>1, <2>3, AloneAside DEF Exists
  <1>5. QED
    BY <1>2, <1>3, <1>4

LEMMA AloneOther ==
    ASSUME AloneInv,
           \/ Shutdown
           \/ StopByHand \/ StartByHand
           \/ \E j \in Job : DelayPasses(j) \/ RetryJob(j)
    PROVE  AloneInv'
  <1>a. TypeInv'
    BY TypeOther DEF AloneInv
  <1>b. /\ jobs \in Rows /\ worker \in RestartWorker
        /\ worker.job.key \in Job
        /\ worker.pc # "none" => backend # "down"
        /\ worker.pc # "none" => jobs[worker.job.key].state = "claimed"
    BY DEF AloneInv, TypeInv, TypeOK, Rows, RestartWorker, RestartHandle,
           DownIdle, WorkerHolds
  <1>1. CASE InterruptWorkers
    <2>1. worker'.pc = worker.pc /\ worker'.job = worker.job
      BY <1>b, <1>1 DEF InterruptWorkers, RestartWorker
    <2>2. UNCHANGED <<jobs, lock, requester, overlap>> /\ backend' # "down"
      BY <1>1 DEF InterruptWorkers, outside
    <2>3. QED
      BY <1>a, <2>1, <2>2, AloneAside DEF Exists
  <1>2. CASE Exit
    BY <1>a, <1>2, AloneAside DEF Exit, Exists, outside
  <1>3. CASE StopByHand
    BY <1>a, <1>3, AloneAside DEF StopByHand, Exists
  <1>4. CASE StartByHand
    BY <1>a, <1>4, AloneBoot DEF StartByHand, outside
  <1>5. ASSUME NEW j \in Job, DelayPasses(j) PROVE AloneInv'
    <2>1. /\ jobs' = DelayOver(jobs, j)
          /\ UNCHANGED <<backend, worker, lock, requester, overlap>>
      BY <1>5 DEF DelayPasses, outside
    <2>2. \A i \in Job : /\ jobs'[i].state = jobs[i].state
                         /\ jobs'[i].id = jobs[i].id
                         /\ jobs'[i].attempts = jobs[i].attempts
      BY <1>b, <2>1, DelayOverRow
    <2>3. \A i \in Job : Unfinished(i)' => Unfinished(i)
      BY <2>1, <2>2 DEF Unfinished, Exists
    <2>4. WorkerHolds' /\ DownIdle'
      BY <1>b, <2>1, <2>2 DEF AloneInv, WorkerHolds, DownIdle
    <2>5. QED
      BY <1>a, <2>1, <2>3, <2>4, AloneKept
  <1>6. ASSUME NEW j \in Job, RetryJob(j) PROVE AloneInv'
    <2>1. jobs' = Release(jobs, GetJob(jobs, j), FALSE, FALSE)
      BY <1>6 DEF RetryJob
    <2>2. /\ jobs[j].state = "parked"
          /\ UNCHANGED <<backend, worker, lock, requester, overlap>>
      BY <1>6 DEF RetryJob, outside
    <2>3. \A i \in Job : i # j => jobs'[i] = jobs[i]
      BY <1>b, <2>1, RetryRow
    <2>4. \A i \in Job : jobs'[i].state # "absent" <=>
                            jobs[i].state # "absent"
      BY <1>b, <2>1, RetryRow
    <2>5. \A i \in Job : Exists(jobs, i)' => Exists(jobs, i)
      BY <2>4 DEF Exists
    <2>6. worker.pc # "none" => worker.job.key # j
      BY <1>b, <2>2
    <2>7. QED
      BY <1>a, <1>b, <2>2, <2>3, <2>5, <2>6, AloneAside
  <1>7. QED
    BY <1>1, <1>2, <1>3, <1>4, <1>5, <1>6 DEF Shutdown

LEMMA AloneInit == Init => AloneInv
  <1> SUFFICES ASSUME Init PROVE AloneInv
    OBVIOUS
  <1>1. /\ \A j \in Job : ~Unfinished(j)
        /\ \A r \in Requester : requester[r].pc = "idle"
        /\ worker.pc = "none"
    BY NothingType DEF Init, Exists, Unfinished, Satisfied
  <1>2. QED
    BY <1>1, TypeInit
    DEF AloneInv, WorkerHolds, DownIdle, Single, Locked, Asked, OneAsks, Alone

\* OneRestart: the lock file keeps restarts apart, for any number of requesters
\* and requests and whatever crashes, hangs or is retried, except for requests
\* of which one looked for the file before the other, which had looked for it
\* too, had made it.
THEOREM OneRestartAtATime == Spec => []OneRestart
  <1>1. AloneInv /\ [Next]_vars => AloneInv'
    <2> SUFFICES ASSUME AloneInv, [Next]_vars PROVE AloneInv'
      OBVIOUS
    <2>1. CASE UNCHANGED vars
      <3>1. TypeInv'
        BY TypeStep DEF AloneInv
      <3>2. QED
        BY <2>1, <3>1
        DEF vars, AloneInv, WorkerHolds, DownIdle, Single, Locked, Asked,
            OneAsks, Alone, Unfinished, Exists
    <2>2. CASE Next
      BY <2>2, AloneRequest, AloneWork, AloneScript, AloneOther DEF Next
    <2>3. QED
      BY <2>1, <2>2
  <1>2. AloneInv => OneRestart
    <2> DEFINE U == {j \in Job : Unfinished(j)}
    <2> SUFFICES ASSUME AloneInv, ~overlap PROVE ~(Cardinality(U) > 1)
      BY DEF OneRestart
    <2>1. CASE U = {}
      BY <2>1, FS_EmptySet
    <2>2. CASE U # {}
      <3>1. PICK j \in Job : Unfinished(j)
        BY <2>2
      <3>2. U = {j}
        BY <3>1 DEF AloneInv, Single, Alone
      <3>3. Cardinality({j}) = 1
        BY FS_Singleton
      <3>4. QED
        BY <3>2, <3>3
    <2>3. QED
      BY <2>1, <2>2
  <1>3. QED
    BY <1>1, <1>2, AloneInit, PTL DEF Spec

=============================================================================
