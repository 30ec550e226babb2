------------------------------ MODULE Pipeline ------------------------------
(***************************************************************************)
(* Datasets and the processors that make them (backend/lib/processor.py,   *)
(* backend/lib/preset.py, backend/lib/search.py, common/lib/dataset.py).   *)
(*                                                                         *)
(* A dataset is made by one job, run by a BasicProcessor: it loads the     *)
(* dataset and its source, processes it, declares it finished, creates and *)
(* queues the dataset that is to follow, and copies the result of the last *)
(* dataset of a preset's pipeline to the preset. Meanwhile users queue and *)
(* delete datasets, and the back-end stops, is killed and starts again.    *)
(*                                                                         *)
(* A step is one statement on the database, or a piece of work that shares *)
(* nothing. Jobs go by module JobQueue; the delegator and run() of module  *)
(* WorkerManager are reduced to what they do to one dataset's job, of      *)
(* which at most one worker is alive (WorkerManager!OneWorkerPerQueue).    *)
(***************************************************************************)
EXTENDS JobQueue, Sequences

CONSTANTS
    NoDataset,   \* no parent, no preset
    Parent,      \* key_parent of a dataset
    Preset,      \* datasets made by a ProcessorPreset
    Follow,      \* the keys the dataset queued by a dataset's processor may get:
                 \* its parameter "next", or a preset's pipeline; a key is new
                 \* each time, as it depends on the time
    PresetOf,    \* the preset the pipeline of which a dataset is part of
    Suffix,      \* the extension of a dataset's result file, which its row has
    MaxStarts,   \* bound: times the back-end is started
    MayFail,     \* processors raise exceptions
    MayStop,     \* the back-end is told to stop
    MayKill,     \* the back-end is killed
    MayDelete,   \* users delete datasets
    MayQueue     \* users queue processors for datasets that are not finished

\* The jobs are those of datasets: a job's remote_id is the dataset's key.
Dataset == Job
Key == Dataset \cup {NoDataset}
Followers == UNION {Follow[d] : d \in Dataset}

ASSUME PipelineAssumption ==
    /\ NoDataset \notin Job
    /\ Recurring = {}
    /\ Parent \in [Job -> Job \cup {NoDataset}]
    /\ Preset \subseteq Job
    /\ Follow \in [Job -> SUBSET Job]
    /\ \A d \in Job : \A n \in Follow[d] : Parent[n] = d
    /\ PresetOf \in [Job -> Preset \cup {NoDataset}]
    /\ MaxStarts \in Nat \ {0}
    /\ {MayFail, MayStop, MayKill, MayDelete, MayQueue} \subseteq BOOLEAN

\* A dataset's parent is made before it, so that one goes up to a dataset that
\* has none; and one that belongs to its parent's pipeline is made by that.
ASSUME TreeAssumption ==
    /\ \A S \in SUBSET Job : S # {} => \E d \in S : Parent[d] \notin S
    /\ \A d \in Job : Parent[d] \in Preset /\ PresetOf[d] = Parent[d]
                      => d \in Follow[Parent[d]]

VARIABLES
    jobs,       \* the jobs table
    datasets,   \* the datasets table: is_finished, and whether num_rows > 0
    file,       \* the result files: whose they are, and their extensions
    worker,     \* the worker of a dataset's job
    deleting,   \* DataSet.delete() of a dataset and its children: a call stack
    backend,    \* whether the back-end runs
    starts      \* times it was started

vars == <<jobs, datasets, file, worker, deleting, backend, starts>>

Idle == [pc |-> "none", interrupted |-> "no", finished |-> FALSE, rows |-> 0,
         next |-> NoDataset]

\* `finished` and `rows` are is_finished and num_rows of the worker's DataSet
\* object; while that is attached, `finished` is is_finished of the object for
\* the preset. `next` is the dataset it has created to follow.
Worker ==
    [pc: {"none", "load", "begin", "process", "written", "after", "create",
          "created", "attach", "copy", "declare", "finish", "mail", "return"},
     interrupted: {"no", "retry", "cancel"}, finished: BOOLEAN, rows: {0, 1},
     next: Key]

\* get_results_path(), for the row's extension or another
ResultFile(d, suffix) == <<d, suffix>>
OwnFile(d) == ResultFile(d, Suffix[d])

ResultFiles == Dataset \X {Suffix[d] : d \in Dataset}

TypeOK ==
    /\ jobs \in Table
    /\ datasets \in
           [Dataset -> {"none", "open", "empty", "full", "deleted"}]
    /\ file \subseteq ResultFiles
    /\ worker \in [Dataset -> Worker]
    /\ deleting \in Seq([key: Dataset, children: SUBSET Dataset,
                          step: {"children", "row"}])
    /\ backend \in {"up", "stopping", "down"}
    /\ starts \in 1 .. MaxStarts

InTable(d) == d # NoDataset /\ datasets[d] \in {"open", "empty", "full"}
Finished(d) == d # NoDataset /\ datasets[d] \in {"empty", "full"}
Children(d) == {c \in Dataset : Parent[c] = d /\ InTable(c)}

Init ==
    /\ jobs = [d \in Dataset |-> NoRow]
    /\ datasets = [d \in Dataset |-> "none"]
    /\ file = {}
    /\ worker = [d \in Dataset |-> Idle]
    /\ deleting = <<>>
    /\ backend = "up"
    /\ starts = 1

-----------------------------------------------------------------------------
(* The front-end queues a dataset, the delegator claims its job            *)

\* The dataset and its job are made by one request; nothing looks at the
\* dataset between the two.
QueueDataset(d) ==
    /\ d \notin Followers
    /\ datasets[d] = "none"
    /\ Parent[d] # NoDataset =>
           /\ InTable(Parent[d])
           /\ MayQueue \/ Finished(Parent[d])
    /\ datasets' = [datasets EXCEPT ![d] = "open"]
    /\ jobs' = AddJob(jobs, d, 1, FALSE)
    /\ UNCHANGED <<file, worker, deleting, backend, starts>>

ClaimJob(d) ==
    /\ backend = "up"
    /\ worker[d].pc = "none"
    /\ d \in Claimable(jobs)
    /\ jobs' = Claim(jobs, GetJob(jobs, d))
    /\ worker' = [worker EXCEPT ![d] = [Idle EXCEPT !.pc = "load"]]
    /\ UNCHANGED <<datasets, file, deleting, backend, starts>>

-----------------------------------------------------------------------------
(* BasicProcessor.work                                                     *)

Goto(d, pc) == worker' = [worker EXCEPT ![d].pc = pc]
Ends(d) == worker' = [worker EXCEPT ![d] = Idle]

FinishJob(d) == jobs' = Finish(jobs, GetJob(jobs, d), FALSE)
ReleaseJob(d) == jobs' = Release(jobs, GetJob(jobs, d), TRUE, TRUE)
ParkJob(d) == jobs' = Park(jobs, GetJob(jobs, d))

Underlying(d) ==
    Parent[d] \in Preset /\ InTable(Parent[d]) /\ ~Finished(Parent[d])

\* source_dataset: the parent, or for an unfinished preset the first dataset
\* above it that is not one. A dataset that is gone raises DataSetException.
Source(d) ==
    LET above[p \in Key] ==
            IF p \in Preset /\ InTable(p) /\ ~Finished(p)
            THEN above[Parent[p]] ELSE p
    IN  above[Parent[d]]

Orphaned(d) ==
    \/ ~InTable(d)
    \/ Parent[d] # NoDataset /\ ~InTable(Source(d))

\* A preset's pipeline runs while the preset is not finished.
SourceReady(d) ==
    Parent[d] = NoDataset \/ Underlying(d) \/ Finished(Source(d))

\* Mutant: a processor does not look whether its source is finished.
Mut_Load(d) ==
    /\ worker[d].pc = "load"
    /\ ~Orphaned(d)
    /\ worker' = [worker EXCEPT ![d].pc = "begin", ![d].finished = Finished(d)]
    /\ UNCHANGED <<jobs, datasets, file, deleting, backend, starts>>

Load(d) ==
    /\ worker[d].pc = "load"
    /\ ~Orphaned(d)
    /\ SourceReady(d)
    /\ worker' = [worker EXCEPT ![d].pc = "begin", ![d].finished = Finished(d)]
    /\ UNCHANGED <<jobs, datasets, file, deleting, backend, starts>>

\* The dataset or its source has been deleted.
LoadNothing(d) ==
    /\ worker[d].pc = "load"
    /\ Orphaned(d)
    /\ FinishJob(d)
    /\ Ends(d)
    /\ UNCHANGED <<datasets, file, deleting, backend, starts>>

\* "not finished yet - retry after a while": the job is released and work()
\* returns.
Wait(d) ==
    /\ worker[d].pc = "load"
    /\ ~Orphaned(d)
    /\ ~SourceReady(d)
    /\ ReleaseJob(d)
    /\ Goto(d, "return")
    /\ UNCHANGED <<datasets, file, deleting, backend, starts>>

\* abort(): clean_up_on_error() removes the result file, whatever it is.
Abort(d) ==
    /\ file' = file \ {OwnFile(d)}
    /\ \/ worker[d].interrupted = "retry" /\ ReleaseJob(d) /\ Goto(d, "return")
       \/ worker[d].interrupted = "cancel" /\ FinishJob(d) /\ Ends(d)

\* The options are those for the parent; if that is gone by now, the worker
\* crashes.
ParentGone(d) == Parent[d] # NoDataset /\ ~InTable(Parent[d])

Begin(d) ==
    /\ worker[d].pc = "begin"
    /\ worker[d].interrupted = "no"
    /\ ~worker[d].finished
    /\ ~ParentGone(d)
    /\ Goto(d, "process")
    /\ UNCHANGED <<jobs, datasets, file, deleting, backend, starts>>

BeginOrphan(d) ==
    /\ worker[d].pc = "begin"
    /\ ParentGone(d)
    /\ ParkJob(d)
    /\ Ends(d)
    /\ UNCHANGED <<datasets, file, deleting, backend, starts>>

\* "dataset already finished, job shouldn't be open anymore"
DropJob(d) ==
    /\ worker[d].pc = "begin"
    /\ worker[d].interrupted = "no"
    /\ worker[d].finished
    /\ ~ParentGone(d)
    /\ FinishJob(d)
    /\ Ends(d)
    /\ UNCHANGED <<datasets, file, deleting, backend, starts>>

\* Interrupted: before process(), whether or not the dataset is finished, or
\* in process(), if that looks at the flag
Interrupted(d) ==
    /\ \/ worker[d].pc = "begin" /\ ~ParentGone(d)
       \/ worker[d].pc \in {"process", "written"} /\ d \notin Preset
    /\ Abort(d)
    /\ UNCHANGED <<datasets, deleting, backend, starts>>

\* process() of any other processor writes its results, if it has any...
Process(d) ==
    /\ worker[d].pc = "process"
    /\ d \notin Preset
    /\ \E rows \in {0, 1} :
           /\ worker' = [worker EXCEPT ![d].pc = "written", ![d].rows = rows]
           /\ file' = IF rows > 0 THEN file \cup {OwnFile(d)} ELSE file
    /\ UNCHANGED <<jobs, datasets, deleting, backend, starts>>

\* DataSet.finish(): an UPDATE, of no row if the dataset has been deleted
FinishDataset(d, rows) ==
    datasets' = IF InTable(d)
                THEN [datasets EXCEPT ![d] = IF rows > 0 THEN "full" ELSE "empty"]
                ELSE datasets

\* ... and finishes the dataset, or leaves that to after_process().
DatasetDone(d) ==
    /\ worker[d].pc = "written"
    /\ FinishDataset(d, worker[d].rows)
    /\ Goto(d, "after")
    /\ UNCHANGED <<jobs, file, deleting, backend, starts>>

\* The next processor needs rows, and to be compatible with the result.
Continue(d) ==
    /\ worker[d].pc = "after"
    /\ Follow[d] # {}
    /\ worker[d].rows > 0
    /\ Goto(d, "create")
    /\ UNCHANGED <<jobs, datasets, file, deleting, backend, starts>>

\* Mutant: a processor that cannot go on does not attach its result.
Mut_Complete(d) ==
    /\ worker[d].pc = "after"
    /\ Goto(d, IF Follow[d] = {} THEN "attach" ELSE "finish")
    /\ UNCHANGED <<jobs, datasets, file, deleting, backend, starts>>

\* Nothing is to follow; or it cannot, and the preset is finished with what
\* there is: its key is looked up in the parameters of what was to follow.
Complete(d) ==
    /\ worker[d].pc = "after"
    /\ Goto(d, "attach")
    /\ UNCHANGED <<jobs, datasets, file, deleting, backend, starts>>

\* The dataset has gone: the look for what is to follow ends at once, and no
\* preset's key is looked up.
Halt(d) ==
    /\ worker[d].pc = "after"
    /\ Follow[d] # {}
    /\ ~InTable(d)
    /\ Goto(d, "finish")
    /\ UNCHANGED <<jobs, datasets, file, deleting, backend, starts>>

\* The dataset of the next processor, or the first of a preset's pipeline. The
\* latter has the file extension its processor wants for its parent dataset:
\* without that, DataSet() raises after it has inserted the row.
Create(d, n) ==
    /\ worker[d].pc = IF d \in Preset THEN "process" ELSE "create"
    /\ datasets[n] = "none"
    /\ datasets' = [datasets EXCEPT ![n] = "open"]
    /\ IF d \in Preset /\ ~InTable(d)
       THEN ParkJob(d) /\ Ends(d) /\ file' = file \ {OwnFile(d)}
       ELSE /\ worker' = [worker EXCEPT ![d].pc = "created", ![d].next = n]
            /\ UNCHANGED <<jobs, file>>
    /\ UNCHANGED <<deleting, backend, starts>>

\* Mutant: a dataset with a follow-up attaches its result as well.
Mut_Queue(d) ==
    /\ worker[d].pc = "created"
    /\ jobs' = AddJob(jobs, worker[d].next, 1, FALSE)
    /\ Goto(d, "attach")
    /\ UNCHANGED <<datasets, file, deleting, backend, starts>>

Queue(d) ==
    /\ worker[d].pc = "created"
    /\ jobs' = AddJob(jobs, worker[d].next, 1, FALSE)
    /\ Goto(d, "finish")
    /\ UNCHANGED <<datasets, file, deleting, backend, starts>>

\* The dataset to attach the result to is loaded, if there is one.
Attach(d) ==
    /\ worker[d].pc = "attach"
    /\ LET surrogate == PresetOf[d]
       IN  IF InTable(surrogate)
           THEN worker' = [worker EXCEPT ![d].pc = "copy",
                                         ![d].finished = Finished(surrogate)]
           ELSE Goto(d, "finish")
    /\ UNCHANGED <<jobs, datasets, file, deleting, backend, starts>>

\* Mutant: the result file is not copied.
Mut_CopyResult(d) ==
    /\ worker[d].pc = "copy"
    /\ Goto(d, "declare")
    /\ UNCHANGED <<jobs, datasets, file, deleting, backend, starts>>

\* The copy gets the extension of the original. The object for the preset is
\* told so, its row in the table is not.
CopyResult(d) ==
    /\ worker[d].pc = "copy"
    /\ file' = IF OwnFile(d) \in file
               THEN file \cup {ResultFile(PresetOf[d], Suffix[d])} ELSE file
    /\ Goto(d, "declare")
    /\ UNCHANGED <<jobs, datasets, deleting, backend, starts>>

\* DataSet.finish() refuses if the preset was finished when it was loaded.
FinishSurrogate(d) ==
    /\ worker[d].pc = "declare"
    /\ IF worker[d].finished THEN UNCHANGED datasets
       ELSE FinishDataset(PresetOf[d], worker[d].rows)
    /\ Goto(d, "finish")
    /\ UNCHANGED <<jobs, file, deleting, backend, starts>>

\* A preset is done when its pipeline is queued; any other worker may have an
\* e-mail to send.
WorkFinishes(d) ==
    /\ worker[d].pc = "finish"
    /\ FinishJob(d)
    /\ IF d \in Preset THEN Ends(d) ELSE Goto(d, "mail")
    /\ UNCHANGED <<datasets, file, deleting, backend, starts>>

MailSent(d) ==
    /\ worker[d].pc = "mail"
    /\ Ends(d)
    /\ UNCHANGED <<jobs, datasets, file, deleting, backend, starts>>

\* BasicWorker.run, after work() returned with the job not finished
RunFinishes(d) ==
    /\ worker[d].pc = "return"
    /\ FinishJob(d)
    /\ Ends(d)
    /\ UNCHANGED <<datasets, file, deleting, backend, starts>>

\* An exception: in process() or after_process() the result file is removed.
\* A job that has been finished stays finished.
Fails(d) ==
    /\ MayFail
    /\ worker[d].pc \notin {"none", "return"}
    /\ file' = IF worker[d].pc \in {"load", "begin"} THEN file
                                                     ELSE file \ {OwnFile(d)}
    /\ IF worker[d].pc = "mail" THEN UNCHANGED jobs ELSE ParkJob(d)
    /\ Ends(d)
    /\ UNCHANGED <<datasets, deleting, backend, starts>>

-----------------------------------------------------------------------------
(* DataSet.delete                                                          *)

Call(d) == [key |-> d, children |-> Children(d), step |-> "children"]
Top == Head(deleting)

DeleteDataset(d) ==
    /\ MayDelete
    /\ deleting = <<>>
    /\ InTable(d)
    /\ deleting' = <<Call(d)>>
    /\ UNCHANGED <<jobs, datasets, file, worker, backend, starts>>

\* A child that was read and is gone by now raises DataSetException.
DeleteChild(c) ==
    /\ deleting # <<>>
    /\ Top.step = "children"
    /\ c \in Top.children
    /\ LET rest == <<[Top EXCEPT !.children = @ \ {c}]>> \o Tail(deleting)
       IN  deleting' = IF InTable(c) THEN <<Call(c)>> \o rest ELSE rest
    /\ UNCHANGED <<jobs, datasets, file, worker, backend, starts>>

\* A running worker is interrupted through the API, if that answers in time.
DeleteJob ==
    /\ deleting # <<>>
    /\ Top.step = "children" /\ Top.children = {}
    /\ jobs' = Finish(jobs, GetJob(jobs, Top.key), TRUE)
    /\ \/ UNCHANGED worker
       \/ /\ jobs[Top.key].state = "claimed"
          /\ worker[Top.key].pc # "none"
          /\ worker' = [worker EXCEPT ![Top.key].interrupted = "cancel"]
    /\ deleting' = <<[Top EXCEPT !.step = "row"]>> \o Tail(deleting)
    /\ UNCHANGED <<datasets, file, backend, starts>>

\* The row and then the result file
DeleteRow ==
    /\ deleting # <<>>
    /\ Top.step = "row"
    /\ datasets' = [datasets EXCEPT ![Top.key] = "deleted"]
    /\ file' = file \ {OwnFile(Top.key)}
    /\ deleting' = Tail(deleting)
    /\ UNCHANGED <<jobs, worker, backend, starts>>

-----------------------------------------------------------------------------
(* The back-end stops, is killed and starts (module WorkerManager)         *)

Stop ==
    /\ MayStop
    /\ backend = "up"
    /\ backend' = "stopping"
    /\ worker' = [d \in Dataset |-> IF worker[d].pc = "none" THEN Idle
                                    ELSE [worker[d] EXCEPT !.interrupted = "retry"]]
    /\ UNCHANGED <<jobs, datasets, file, deleting, starts>>

Stopped ==
    /\ backend = "stopping"
    /\ \A d \in Dataset : worker[d].pc = "none"
    /\ backend' = "down"
    /\ UNCHANGED <<jobs, datasets, file, worker, deleting, starts>>

Kill ==
    /\ MayKill
    /\ backend # "down"
    /\ backend' = "down"
    /\ worker' = [d \in Dataset |-> Idle]
    /\ UNCHANGED <<jobs, datasets, file, deleting, starts>>

Boot ==
    /\ backend = "down"
    /\ starts < MaxStarts
    /\ starts' = starts + 1
    /\ backend' = "up"
    /\ jobs' = ReleaseAll(jobs)
    /\ UNCHANGED <<datasets, file, worker, deleting>>

TimePasses(d) ==
    /\ jobs[d].delayed
    /\ jobs' = DelayOver(jobs, d)
    /\ UNCHANGED <<datasets, file, worker, deleting, backend, starts>>

-----------------------------------------------------------------------------
\* What a worker does unless something goes wrong
Work(d) ==
    \/ Load(d) \/ LoadNothing(d) \/ Wait(d)
    \/ Begin(d) \/ BeginOrphan(d) \/ DropJob(d)
    \/ Process(d) \/ DatasetDone(d)
    \/ Continue(d) \/ Complete(d) \/ Halt(d)
    \/ (\E n \in Follow[d] : Create(d, n)) \/ Queue(d)
    \/ Attach(d) \/ CopyResult(d) \/ FinishSurrogate(d)
    \/ WorkFinishes(d) \/ MailSent(d) \/ RunFinishes(d)

Delete == (\E c \in Dataset : DeleteChild(c)) \/ DeleteJob \/ DeleteRow

Next ==
    \/ \E d \in Dataset :
          \/ QueueDataset(d) \/ ClaimJob(d) \/ TimePasses(d)
          \/ Work(d) \/ Interrupted(d) \/ Fails(d)
          \/ DeleteDataset(d)
    \/ Delete
    \/ Stop \/ Stopped \/ Kill \/ Boot

Spec == Init /\ [][Next]_vars

\* A queue's turn comes (WorkerManager!EveryJobGetsItsTurn), and a processor
\* that is not interrupted and does not fail ends.
Fairness ==
    \A d \in Dataset :
        /\ WF_vars(ClaimJob(d))
        /\ WF_vars(TimePasses(d))
        /\ WF_vars(Work(d))

FairSpec == Spec /\ Fairness

-----------------------------------------------------------------------------
(* Properties                                                              *)

\* A preset's dataset is only declared finished by the end of its pipeline,
\* which may come early: by a processor that has nothing to follow it, however
\* often the preset and its pipeline were started again.
PresetEndsPipeline ==
    [][\A p \in Preset :
          datasets[p] = "open" /\ datasets'[p] \in {"empty", "full"}
          => \E d \in Dataset :
                 /\ PresetOf[d] = p
                 /\ worker[d].pc = "declare" /\ worker'[d].pc # "declare"
                 /\ Children(d) \cap Follow[d] = {}]_vars

\* A failure of e keeps d waiting: e is d, what it was made from, or part of the
\* pipeline of a preset among these.
HoldsUp(e, d) ==
    LET above[x \in Dataset] ==
            {x} \cup IF Parent[x] = NoDataset THEN {} ELSE above[Parent[x]]
    IN  e \in above[d] \/ PresetOf[e] \in above[d]

\* Whatever is queued, with presets waiting for their pipelines, pipelines for
\* one another, and processors that yield nothing or do not fit, gets finished
\* in the end, unless the job of something it waits for has failed and stays
\* parked: nobody waits for a dataset that nobody makes.
EveryDatasetFinishes ==
    \A d \in Dataset :
        datasets[d] = "open" ~>
            \/ datasets[d] # "open"
            \/ \E e \in Dataset : jobs[e].state = "parked" /\ HoldsUp(e, d)

\* However the back-end is killed, a dataset with rows has its file, and a
\* preset has one that a dataset of its pipeline had: a job that runs again
\* leaves a finished dataset alone. (Under which name: see ResultFileExists.)
ResultKept ==
    \A d \in Dataset :
        datasets[d] = "full" =>
            \/ OwnFile(d) \in file
            \/ \E e \in Dataset :
                   PresetOf[e] = d /\ ResultFile(d, Suffix[e]) \in file

\* The unfinished presets that source_dataset goes past.
PresetsPassed(d) ==
    LET passed[p \in Key] ==
            IF p \in Preset /\ InTable(p) /\ ~Finished(p)
            THEN {p} \cup passed[Parent[p]] ELSE {}
    IN  passed[Parent[d]]

\* No processor starts on data that is not complete: its source is finished,
\* or has been deleted meanwhile. The processors of a preset's pipeline do not
\* look, because their preset did, or the preset that it is part of. (What a
\* user queues for a preset that is not finished does not look either, so that
\* all that starts above or below it has to be excepted: see
\* OnlyUnderlyingSkipsPreset.)
SourceComplete ==
    [][\A d \in Dataset :
          /\ worker[d].pc = "begin" /\ worker'[d].pc = "process"
          /\ Parent[d] # NoDataset
          /\ \A e \in {d} \cup PresetsPassed(d) :
                 Underlying(e) => PresetOf[e] = Parent[e]
          => Finished(Source(d)) \/ ~InTable(Source(d))]_vars

-----------------------------------------------------------------------------
(* Statements of the code's comments that the code does not keep           *)

\* common/lib/dataset.py, check_dataset_finished(): "if this method returns a
\* path, a file with the complete results for this dataset will exist at that
\* location."
ResultFileExists == \A d \in Dataset : datasets[d] = "full" => OwnFile(d) \in file

\* backend/lib/processor.py, work(): "dataset already finished, job shouldn't
\* be open anymore". Were that so, its preset would not be waiting for it.
DroppedJobIsDone ==
    \A d \in Dataset :
        /\ worker[d].pc = "begin" /\ worker[d].finished
        /\ PresetOf[d] # NoDataset /\ Children(d) = {}
        => datasets[PresetOf[d]] # "open"

\* backend/lib/processor.py, work(): "not finished yet - retry after a while".
RetriedAfterAWhile ==
    \A d \in Dataset : worker[d].pc = "return" ~> datasets[d] # "open"

\* common/lib/dataset.py, delete(): "Delete the dataset, and all its children".
DeleteRemovesTree ==
    [][deleting # <<>> /\ deleting' = <<>>
       => \A d \in Dataset : datasets'[d] = "open" /\ Parent[d] # NoDataset
                              => datasets'[Parent[d]] # "deleted"]_vars

\* backend/lib/processor.py, work(): the dataset above a preset is used "since
\* that is where any underlying processors should get their data from".
OnlyUnderlyingSkipsPreset ==
    \A d \in Dataset :
        worker[d].pc = "begin" /\ Underlying(d) => PresetOf[d] = Parent[d]
=============================================================================
