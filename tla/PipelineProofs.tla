---------------------------- MODULE PipelineProofs ----------------------------
(***************************************************************************)
(* Theorems about Pipeline for any datasets, presets and follow-ups: its   *)
(* types, that a preset is finished by the end of its pipeline, that a     *)
(* dataset with rows has its file, and that no processor starts on a       *)
(* source that is not finished.                                            *)
(***************************************************************************)
EXTENDS Pipeline, JobQueueProofs

-----------------------------------------------------------------------------
(* Type correctness                                                        *)

Frame == [key: Dataset, children: SUBSET Dataset, step: {"children", "row"}]
Status == {"none", "open", "empty", "full", "deleted"}

\* A worker queues the dataset that it has created, and copies its result to the
\* preset that it belongs to.
NextCreated ==
    \A d \in Dataset : /\ worker[d].pc = "created" => worker[d].next \in Job
                       /\ worker[d].pc = "copy" => PresetOf[d] \in Dataset

Types ==
    /\ jobs \in Table
    /\ datasets \in [Dataset -> Status]
    /\ file \subseteq ResultFiles
    /\ worker \in [Dataset -> Worker]
    /\ deleting \in Seq(Frame)
    /\ backend \in {"up", "stopping", "down"}
    /\ starts \in 1 .. MaxStarts

TypeInv == Types /\ NextCreated

\* No worker, and one that starts, are workers.
LEMMA IdleType == Idle \in Worker /\ [Idle EXCEPT !.pc = "load"] \in Worker
  BY DEF Idle, Worker, Key

\* The types hold initially...
LEMMA TypeInit == Init => TypeInv
  <1> SUFFICES ASSUME Init PROVE TypeInv
    OBVIOUS
  <1>1. jobs \in Table
    BY NoRowType DEF Init, Table, Dataset
  <1>2. worker \in [Dataset -> Worker]
    BY IdleType DEF Init
  <1>3. datasets \in [Dataset -> Status]
    BY DEF Init, Status
  <1>4. starts \in 1 .. MaxStarts
    BY PipelineAssumption DEF Init
  <1>5. deleting \in Seq(Frame)
    BY DEF Init
  <1>6. Types
    BY <1>1, <1>2, <1>3, <1>4, <1>5 DEF Init, Types
  <1>7. NextCreated
    BY DEF Init, NextCreated, Idle
  <1>8. QED
    BY <1>6, <1>7 DEF TypeInv, Types

\* What a worker does to its job keeps the table well-formed.
LEMMA JobTypes ==
    ASSUME Types, NEW d \in Dataset
    PROVE  /\ FinishJob(d) => jobs' \in Table
           /\ ReleaseJob(d) => jobs' \in Table
           /\ ParkJob(d) => jobs' \in Table
  <1>1. jobs \in Table /\ GetJob(jobs, d) \in Handle
    BY GetJobType DEF Types, Dataset
  <1>2. FinishJob(d) => jobs' \in Table
    BY <1>1, FinishType DEF FinishJob
  <1>3. ReleaseJob(d) => jobs' \in Table
    BY <1>1, ReleaseType DEF ReleaseJob
  <1>4. ParkJob(d) => jobs' \in Table
    BY <1>1, ParkType DEF ParkJob
  <1>5. QED
    BY <1>2, <1>3, <1>4

\* One worker goes on, and creates nothing by that.
LEMMA WorkerTypes ==
    ASSUME TypeInv, NEW d \in Dataset,
           \/ Ends(d)
           \/ \E pc \in {"begin", "process", "after", "create", "attach",
                         "declare", "finish", "mail", "return"} : Goto(d, pc)
    PROVE  worker' \in [Dataset -> Worker] /\ NextCreated'
  <1>1. worker \in [Dataset -> Worker] /\ NextCreated
    BY DEF TypeInv, Types
  <1>2. CASE Ends(d)
    BY <1>1, <1>2, IdleType DEF Ends, NextCreated, Idle
  <1>3. ASSUME NEW pc \in {"begin", "process", "after", "create", "attach",
                           "declare", "finish", "mail", "return"}, Goto(d, pc)
        PROVE  worker' \in [Dataset -> Worker] /\ NextCreated'
    BY <1>1, <1>3 DEF Goto, Worker, NextCreated
  <1>4. QED
    BY <1>2, <1>3

\* Finishing a dataset keeps the types.
LEMMA FinishTypes ==
    ASSUME Types, NEW d, NEW rows, FinishDataset(d, rows)
    PROVE  datasets' \in [Dataset -> Status]
  BY DEF FinishDataset, Types, Status

\* The steps of a worker that leave datasets alone.
LEMMA TypeWork ==
    ASSUME TypeInv, NEW d \in Dataset,
           \/ Load(d) \/ LoadNothing(d) \/ Wait(d)
           \/ Begin(d) \/ BeginOrphan(d) \/ DropJob(d) \/ Process(d)
           \/ Continue(d) \/ Complete(d) \/ Halt(d) \/ Queue(d)
           \/ WorkFinishes(d) \/ MailSent(d) \/ RunFinishes(d)
    PROVE  TypeInv'
  <1>0. Types /\ NextCreated /\ worker \in [Dataset -> Worker]
    BY DEF TypeInv, Types
  <1>1. ASSUME UNCHANGED <<datasets, deleting, backend, starts>>,
               file' \subseteq ResultFiles,
               jobs' \in Table, worker' \in [Dataset -> Worker], NextCreated'
        PROVE  TypeInv'
    BY <1>0, <1>1 DEF TypeInv, Types
  <1>a. jobs \in Table /\ file \subseteq ResultFiles
    BY <1>0 DEF Types
  <1>2. CASE Load(d)
    <2>1. Finished(d) \in BOOLEAN
      BY DEF Finished
    <2>2. worker' \in [Dataset -> Worker] /\ NextCreated'
      BY <1>0, <1>2, <2>1 DEF Load, Worker, NextCreated
    <2>3. QED
      BY <1>1, <1>2, <1>a, <2>2 DEF Load
  <1>3. CASE LoadNothing(d) \/ BeginOrphan(d) \/ DropJob(d) \/ RunFinishes(d)
    BY <1>0, <1>1, <1>3, <1>a, JobTypes, WorkerTypes
    DEF LoadNothing, BeginOrphan, DropJob, RunFinishes
  <1>4. CASE Wait(d) \/ WorkFinishes(d)
    BY <1>0, <1>1, <1>4, <1>a, JobTypes, WorkerTypes DEF Wait, WorkFinishes
  <1>5. CASE Begin(d) \/ Continue(d) \/ Complete(d) \/ Halt(d) \/ MailSent(d)
    BY <1>1, <1>5, <1>a, WorkerTypes
    DEF Begin, Continue, Complete, Halt, MailSent
  <1>6. CASE Process(d)
    <2>1. PICK rows \in {0, 1} :
              /\ worker' = [worker EXCEPT ![d].pc = "written", ![d].rows = rows]
              /\ file' = IF rows > 0 THEN file \cup {OwnFile(d)} ELSE file
      BY <1>6 DEF Process
    <2>2. worker' \in [Dataset -> Worker]
      <3>1. [worker[d] EXCEPT !.pc = "written", !.rows = rows] \in Worker
        BY <1>0 DEF Worker
      <3>2. QED
        BY <1>0, <2>1, <3>1
    <2>3. \A e \in Dataset : worker'[e].pc \in {"created", "copy"}
                             => worker'[e] = worker[e]
      BY <1>0, <2>1 DEF Worker
    <2>4. NextCreated'
      BY <1>0, <2>3 DEF NextCreated
    <2>5. file' \subseteq ResultFiles
      BY <1>a, <2>1 DEF OwnFile, ResultFile, ResultFiles
    <2>6. QED
      BY <1>1, <1>6, <1>a, <2>2, <2>4, <2>5 DEF Process
  <1>7. CASE Queue(d)
    <2>1. worker[d].next \in Job
      BY <1>0, <1>7 DEF Queue, NextCreated
    <2>2. jobs' \in Table
      BY <1>7, <1>a, <2>1, AddJobType DEF Queue
    <2>3. QED
      BY <1>1, <1>7, <1>a, <2>2, WorkerTypes DEF Queue
  <1>8. QED
    BY <1>2, <1>3, <1>4, <1>5, <1>6, <1>7

\* Those that finish or create datasets, or remove the result file.
LEMMA TypeResult ==
    ASSUME TypeInv, NEW d \in Dataset,
           \/ DatasetDone(d) \/ (\E n \in Follow[d] : Create(d, n))
           \/ Attach(d) \/ CopyResult(d) \/ FinishSurrogate(d)
           \/ Interrupted(d) \/ Fails(d)
    PROVE  TypeInv'
  <1>0. /\ Types /\ NextCreated /\ worker \in [Dataset -> Worker]
        /\ jobs \in Table /\ file \subseteq ResultFiles
        /\ datasets \in [Dataset -> Status]
    BY DEF TypeInv, Types
  <1>1. ASSUME UNCHANGED <<deleting, backend, starts>>,
               datasets' \in [Dataset -> Status], file' \subseteq ResultFiles,
               jobs' \in Table, worker' \in [Dataset -> Worker], NextCreated'
        PROVE  TypeInv'
    BY <1>0, <1>1 DEF TypeInv, Types, Status
  <1>2. CASE DatasetDone(d)
    BY <1>0, <1>1, <1>2, FinishTypes, WorkerTypes DEF DatasetDone
  <1>3. ASSUME NEW n \in Follow[d], Create(d, n) PROVE TypeInv'
    <2>1. n \in Job
      BY PipelineAssumption DEF Dataset
    <2>2. datasets' \in [Dataset -> Status]
      BY <1>0, <1>3, <2>1 DEF Create, Status
    <2>3. CASE d \in Preset /\ ~InTable(d)
      BY <1>0, <1>1, <1>3, <2>2, <2>3, JobTypes, WorkerTypes DEF Create
    <2>4. CASE ~(d \in Preset /\ ~InTable(d))
      <3>1. worker' = [worker EXCEPT ![d].pc = "created", ![d].next = n]
        BY <1>3, <2>4 DEF Create
      <3>2. [worker[d] EXCEPT !.pc = "created", !.next = n] \in Worker
        <4>1. worker[d] \in Worker /\ n \in Key
          BY <1>0, <2>1 DEF Key, Dataset
        <4>2. QED
          BY <4>1 DEF Worker
      <3>3. worker' \in [Dataset -> Worker]
        BY <1>0, <3>1, <3>2
      <3>4. NextCreated'
        BY <1>0, <2>1, <3>1 DEF Worker, NextCreated
      <3>5. QED
        BY <1>0, <1>1, <1>3, <2>2, <2>4, <3>3, <3>4 DEF Create
    <2>5. QED
      BY <2>3, <2>4
  <1>4. CASE Attach(d) \/ CopyResult(d) \/ FinishSurrogate(d)
    <2>1. CASE Attach(d)
      <3>1. Finished(PresetOf[d]) \in BOOLEAN
        BY DEF Finished
      <3>2. InTable(PresetOf[d]) => PresetOf[d] \in Dataset
        BY PipelineAssumption DEF InTable, Dataset
      <3>3. worker' \in [Dataset -> Worker] /\ NextCreated'
        <4>1. CASE InTable(PresetOf[d])
          BY <1>0, <2>1, <3>1, <3>2, <4>1 DEF Attach, Worker, NextCreated
        <4>2. CASE ~InTable(PresetOf[d])
          BY <2>1, <4>2, WorkerTypes DEF Attach
        <4>3. QED
          BY <4>1, <4>2
      <3>4. QED
        BY <1>0, <1>1, <2>1, <3>3 DEF Attach
    <2>2. CASE CopyResult(d)
      <3>1. PresetOf[d] \in Dataset
        BY <1>0, <2>2 DEF CopyResult, NextCreated
      <3>2. file' \subseteq ResultFiles
        BY <1>0, <2>2, <3>1 DEF CopyResult, ResultFile, ResultFiles
      <3>3. QED
        BY <1>0, <1>1, <2>2, <3>2, WorkerTypes DEF CopyResult
    <2>3. CASE FinishSurrogate(d)
      <3>1. datasets' \in [Dataset -> Status]
        BY <1>0, <2>3, FinishTypes DEF FinishSurrogate
      <3>2. QED
        BY <1>0, <1>1, <2>3, <3>1, WorkerTypes DEF FinishSurrogate
    <2>4. QED
      BY <1>4, <2>1, <2>2, <2>3
  <1>5. CASE Interrupted(d)
    <2>1. jobs' \in Table
      BY <1>0, <1>5, JobTypes DEF Interrupted, Abort
    <2>2. worker' \in [Dataset -> Worker] /\ NextCreated'
      BY <1>5, WorkerTypes DEF Interrupted, Abort
    <2>3. QED
      BY <1>0, <1>1, <1>5, <2>1, <2>2 DEF Interrupted, Abort
  <1>6. CASE Fails(d)
    <2>1. jobs' \in Table
      BY <1>0, <1>6, JobTypes DEF Fails
    <2>2. worker' \in [Dataset -> Worker] /\ NextCreated'
      BY <1>6, WorkerTypes DEF Fails
    <2>3. QED
      BY <1>0, <1>1, <1>6, <2>1, <2>2 DEF Fails
  <1>7. QED
    BY <1>2, <1>3, <1>4, <1>5, <1>6

\* Queueing, claiming and time keep the types.
LEMMA TypeQueue ==
    ASSUME TypeInv, NEW d \in Dataset,
           QueueDataset(d) \/ ClaimJob(d) \/ TimePasses(d)
    PROVE  TypeInv'
  <1>0. /\ Types /\ NextCreated /\ worker \in [Dataset -> Worker]
        /\ jobs \in Table /\ GetJob(jobs, d) \in Handle
        /\ datasets \in [Dataset -> Status]
    BY GetJobType DEF TypeInv, Types, Dataset
  <1>1. CASE QueueDataset(d)
    <2>1. jobs' \in Table
      BY <1>0, <1>1, AddJobType DEF QueueDataset, Dataset
    <2>2. datasets' \in [Dataset -> Status]
      BY <1>0, <1>1 DEF QueueDataset, Status
    <2>3. QED
      BY <1>0, <1>1, <2>1, <2>2 DEF QueueDataset, TypeInv, NextCreated, Types
  <1>2. CASE ClaimJob(d)
    <2>1. jobs' \in Table
      BY <1>0, <1>2, ClaimType DEF ClaimJob
    <2>2. worker' \in [Dataset -> Worker]
      BY <1>0, <1>2, IdleType DEF ClaimJob
    <2>3. NextCreated'
      <3>1. [Idle EXCEPT !.pc = "load"].pc = "load"
        BY DEF Idle
      <3>2. QED
        BY <1>0, <1>2, <3>1 DEF ClaimJob, NextCreated
    <2>4. QED
      BY <1>0, <1>2, <2>1, <2>2, <2>3 DEF ClaimJob, TypeInv, Types
  <1>3. CASE TimePasses(d)
    <2>1. jobs' \in Table
      BY <1>0, <1>3, TimeType DEF TimePasses, Dataset
    <2>2. QED
      BY <1>0, <1>3, <2>1 DEF TimePasses, TypeInv, NextCreated, Types
  <1>4. QED
    BY <1>1, <1>2, <1>3

\* Deleting keeps the types.
LEMMA TypeDelete ==
    ASSUME TypeInv, Delete \/ \E d \in Dataset : DeleteDataset(d)
    PROVE  TypeInv'
  <1>0. /\ Types /\ NextCreated /\ worker \in [Dataset -> Worker]
        /\ jobs \in Table /\ datasets \in [Dataset -> Status]
        /\ file \subseteq ResultFiles /\ deleting \in Seq(Frame)
    BY DEF TypeInv, Types
  <1>1. \A d \in Dataset : Call(d) \in Frame
    BY DEF Call, Children, Frame
  <1>2. deleting # <<>> => Top \in Frame /\ Tail(deleting) \in Seq(Frame)
    BY <1>0 DEF Top
  <1>3. ASSUME NEW d \in Dataset, DeleteDataset(d) PROVE TypeInv'
    <2>1. deleting' \in Seq(Frame)
      BY <1>1, <1>3 DEF DeleteDataset
    <2>2. QED
      BY <1>0, <1>3, <2>1 DEF DeleteDataset, TypeInv, NextCreated, Types
  <1>4. ASSUME NEW c \in Dataset, DeleteChild(c) PROVE TypeInv'
    <2> DEFINE rest == <<[Top EXCEPT !.children = @ \ {c}]>> \o Tail(deleting)
    <2>1. [Top EXCEPT !.children = @ \ {c}] \in Frame
      BY <1>2, <1>4 DEF DeleteChild, Frame
    <2>2. rest \in Seq(Frame)
      BY <1>2, <1>4, <2>1 DEF DeleteChild
    <2>3. deleting' = IF InTable(c) THEN <<Call(c)>> \o rest ELSE rest
      BY <1>4 DEF DeleteChild
    <2> HIDE DEF rest
    <2>4. deleting' \in Seq(Frame)
      BY <1>1, <2>2, <2>3
    <2>5. QED
      BY <1>0, <1>4, <2>4 DEF DeleteChild, TypeInv, NextCreated, Types
  <1>5. CASE DeleteJob
    <2>1. Top.key \in Dataset /\ Top \in Frame /\ Tail(deleting) \in Seq(Frame)
      BY <1>2, <1>5 DEF DeleteJob, Frame
    <2>2. jobs' \in Table
      <3>1. GetJob(jobs, Top.key) \in Handle
        BY <1>0, <2>1, GetJobType DEF Dataset
      <3>2. QED
        BY <1>0, <1>5, <3>1, FinishType DEF DeleteJob
    <2>3. worker' \in [Dataset -> Worker] /\ NextCreated'
      <3>1. CASE UNCHANGED worker
        BY <1>0, <3>1 DEF NextCreated
      <3>2. CASE worker' = [worker EXCEPT ![Top.key].interrupted = "cancel"]
        <4>1. [worker[Top.key] EXCEPT !.interrupted = "cancel"] \in Worker
          BY <1>0, <2>1 DEF Worker
        <4>2. worker' \in [Dataset -> Worker]
          BY <1>0, <3>2, <4>1
        <4>3. \A d \in Dataset : /\ worker'[d].pc = worker[d].pc
                                 /\ worker'[d].next = worker[d].next
          BY <1>0, <3>2 DEF Worker
        <4>4. QED
          BY <1>0, <4>2, <4>3 DEF NextCreated
      <3>3. QED
        BY <1>5, <3>1, <3>2 DEF DeleteJob
    <2>4. deleting' \in Seq(Frame)
      <3>1. [Top EXCEPT !.step = "row"] \in Frame
        BY <2>1 DEF Frame
      <3>2. QED
        BY <1>5, <2>1, <3>1 DEF DeleteJob
    <2>5. QED
      BY <1>0, <1>5, <2>2, <2>3, <2>4 DEF DeleteJob, TypeInv, Types
  <1>6. CASE DeleteRow
    <2>1. deleting' \in Seq(Frame) /\ file' \subseteq ResultFiles
      BY <1>0, <1>2, <1>6 DEF DeleteRow
    <2>2. datasets' \in [Dataset -> Status]
      BY <1>0, <1>6 DEF DeleteRow, Status
    <2>3. QED
      BY <1>0, <1>6, <2>1, <2>2 DEF DeleteRow, TypeInv, NextCreated, Types
  <1>7. QED
    BY <1>3, <1>4, <1>5, <1>6 DEF Delete

\* So does the back-end's going down and up.
LEMMA TypeBackend ==
    ASSUME TypeInv, Stop \/ Stopped \/ Kill \/ Boot
    PROVE  TypeInv'
  <1>0. /\ Types /\ NextCreated /\ worker \in [Dataset -> Worker]
        /\ jobs \in Table /\ starts \in 1 .. MaxStarts /\ MaxStarts \in Nat
    BY PipelineAssumption DEF TypeInv, Types
  <1>1. CASE Stop
    <2>1. worker' \in [Dataset -> Worker]
      <3>1. \A d \in Dataset :
               [worker[d] EXCEPT !.interrupted = "retry"] \in Worker
        BY <1>0 DEF Worker
      <3>2. QED
        BY <1>0, <1>1, <3>1, IdleType DEF Stop
    <2>2. NextCreated'
      <3>1. \A d \in Dataset : /\ worker[d] \in Worker
                               /\ worker'[d].pc \in {"created", "copy"} =>
                                    /\ worker'[d].next = worker[d].next
                                    /\ worker[d].pc = worker'[d].pc
        BY <1>0, <1>1 DEF Stop, Idle, Worker
      <3>2. QED
        BY <1>0, <3>1 DEF NextCreated
    <2>3. QED
      BY <1>0, <1>1, <2>1, <2>2 DEF Stop, TypeInv, Types
  <1>2. CASE Stopped
    BY <1>0, <1>2 DEF Stopped, TypeInv, NextCreated, Types
  <1>3. CASE Kill
    <2>1. worker' \in [Dataset -> Worker] /\ NextCreated'
      BY <1>3, IdleType DEF Kill, NextCreated, Idle
    <2>2. QED
      BY <1>0, <1>3, <2>1 DEF Kill, TypeInv, Types
  <1>4. CASE Boot
    <2>1. jobs' \in Table
      BY <1>0, <1>4, ReleaseAllType DEF Boot
    <2>2. starts' \in 1 .. MaxStarts
      BY <1>0, <1>4 DEF Boot
    <2>3. QED
      BY <1>0, <1>4, <2>1, <2>2 DEF Boot, TypeInv, NextCreated, Types
  <1>5. QED
    BY <1>1, <1>2, <1>3, <1>4

\* ... and every step keeps them.
LEMMA TypeNext ==
    ASSUME TypeInv, [Next]_vars
    PROVE  TypeInv'
  <1>1. CASE UNCHANGED vars
    BY <1>1 DEF vars, TypeInv, Types, NextCreated
  <1>2. QED
    BY <1>1, TypeWork, TypeResult, TypeQueue, TypeDelete, TypeBackend
    DEF Next, Work

\* Jobs, datasets, workers and the stack of deletions keep their types,
\* whatever fails, stops, is killed or deleted.
THEOREM PipelineTypeCorrect == Spec => []TypeOK
  <1>1. TypeInv => TypeOK
    BY DEF TypeInv, Types, TypeOK, Status, Frame
  <1>2. QED
    BY <1>1, TypeInit, TypeNext, PTL DEF Spec

-----------------------------------------------------------------------------
(* A preset is finished by the end of its pipeline                         *)

\* What no worker has processed anew has not been followed by anything; what
\* was followed is finished, or gone.
Unfollowed(d) == \A n \in Follow[d] : datasets[n] = "none"
Done(d) == datasets[d] \notin {"none", "open"}
Anew(d) == worker[d].pc = "begin" /\ ~worker[d].finished
Producing(d) ==
    worker[d].pc \in {"process", "written", "after", "create", "attach", "copy",
                      "declare"}

FollowInv ==
    \A d \in Dataset \ Preset :
        /\ ~Done(d) => Unfollowed(d)
        /\ Anew(d) \/ Producing(d) => Unfollowed(d)
        /\ worker[d].pc \in {"after", "create", "created", "attach", "copy",
                            "declare"} => Done(d)

\* A preset's own worker never gets to where results are.
PresetInv ==
    \A d \in Preset :
        worker[d].pc \notin {"written", "after", "create", "attach", "copy",
                             "declare"}

\* Nobody works on, or deletes, what was never created.
RanInv ==
    \A d \in Dataset :
        worker[d].pc \notin {"none", "load", "return"} => datasets[d] # "none"

StackInv ==
    \A i \in 1 .. Len(deleting) : datasets[deleting[i].key] # "none"

PipelineInv == TypeInv /\ FollowInv /\ PresetInv /\ RanInv /\ StackInv

\* What a step may do to a dataset.
Created(e) == datasets[e] = "none" /\ datasets'[e] = "open"
GetsDone(e) == InTable(e) /\ datasets'[e] \in {"empty", "full"}
GetsDeleted(e) == datasets[e] # "none" /\ datasets'[e] = "deleted"

DatasetStep(e) ==
    \/ datasets'[e] = datasets[e]
    \/ QueueDataset(e) /\ Created(e)
    \/ (\E d \in Dataset : e \in Follow[d] /\ Create(d, e)) /\ Created(e)
    \/ DatasetDone(e) /\ GetsDone(e)
    \/ (\E d \in Dataset : FinishSurrogate(d) /\ PresetOf[d] = e) /\ GetsDone(e)
    \/ DeleteRow /\ GetsDeleted(e)

\* Nothing else happens to a dataset...
LEMMA DatasetsStep ==
    ASSUME TypeInv, StackInv, [Next]_vars, NEW e \in Dataset
    PROVE  DatasetStep(e)
  <1>0. datasets \in [Dataset -> Status] /\ deleting \in Seq(Frame)
    BY DEF TypeInv, Types
  <1>1. CASE UNCHANGED datasets
    BY <1>1 DEF DatasetStep
  <1>2. ASSUME NEW d \in Dataset, QueueDataset(d) PROVE DatasetStep(e)
    BY <1>0, <1>2 DEF QueueDataset, DatasetStep, Created
  <1>3. ASSUME NEW d \in Dataset, NEW n \in Follow[d], Create(d, n)
        PROVE  DatasetStep(e)
    <2>1. /\ datasets[n] = "none"
          /\ datasets' = [datasets EXCEPT ![n] = "open"]
      BY <1>3 DEF Create
    <2>2. CASE e = n
      <3>1. Created(e)
        BY <1>0, <2>1, <2>2 DEF Created
      <3>2. QED
        BY <1>3, <2>2, <3>1 DEF DatasetStep
    <2>3. CASE e # n
      BY <1>0, <2>1, <2>3 DEF DatasetStep
    <2>4. QED
      BY <2>2, <2>3
  <1>4. ASSUME NEW d, NEW rows, FinishDataset(d, rows)
        PROVE  datasets'[e] = datasets[e] \/ (e = d /\ GetsDone(e))
    BY <1>0, <1>4 DEF FinishDataset, GetsDone
  <1>5. ASSUME NEW d \in Dataset, DatasetDone(d) PROVE DatasetStep(e)
    <2>1. FinishDataset(d, worker[d].rows)
      BY <1>5 DEF DatasetDone
    <2>2. QED
      BY <1>4, <1>5, <2>1 DEF DatasetStep
  <1>6. ASSUME NEW d \in Dataset, FinishSurrogate(d) PROVE DatasetStep(e)
    <2>1. UNCHANGED datasets \/ FinishDataset(PresetOf[d], worker[d].rows)
      BY <1>6 DEF FinishSurrogate
    <2>2. QED
      BY <1>1, <1>4, <1>6, <2>1 DEF DatasetStep
  <1>7. CASE DeleteRow
    <2>1. Top.key = deleting[1].key /\ 1 \in 1 .. Len(deleting)
      BY <1>0, <1>7 DEF DeleteRow, Top
    <2>2. datasets[Top.key] # "none"
      BY <2>1 DEF StackInv
    <2>3. datasets' = [datasets EXCEPT ![Top.key] = "deleted"]
      BY <1>7 DEF DeleteRow
    <2>4. QED
      BY <1>0, <1>7, <2>2, <2>3 DEF DatasetStep, GetsDeleted
  <1>8. QED
    BY <1>1, <1>2, <1>3, <1>5, <1>6, <1>7
    DEF Next, vars, Work, Delete, ClaimJob, TimePasses, Load, LoadNothing, Wait,
        Begin, BeginOrphan, DropJob, Process, Continue, Complete, Halt, Queue,
        Attach, CopyResult, WorkFinishes, MailSent, RunFinishes, Interrupted,
        Fails, DeleteDataset, DeleteChild, DeleteJob, Stop, Stopped, Kill, Boot

\* What a step may do to a worker.
Moves(e, from, to) == worker[e].pc = from /\ worker'[e].pc = to

WorkerStep(e) ==
    \/ /\ worker'[e].pc = worker[e].pc
       /\ worker[e].pc = "begin" => worker'[e].finished = worker[e].finished
    \/ worker'[e].pc \in {"none", "load", "return"}
    \/ /\ Load(e) /\ worker'[e].pc = "begin"
       /\ worker'[e].finished = Finished(e)
    \/ Anew(e) /\ Moves(e, "begin", "process")
    \/ e \notin Preset /\ Moves(e, "process", "written")
    \/ DatasetDone(e) /\ Moves(e, "written", "after")
    \/ Moves(e, "after", "create") \/ Moves(e, "after", "attach")
    \/ Moves(e, "attach", "copy") \/ Moves(e, "copy", "declare")
    \/ \E n \in Follow[e] : Create(e, n) /\ worker'[e].pc = "created"
    \/ /\ worker'[e].pc \in {"finish", "mail"}
       /\ worker[e].pc \notin {"none", "load", "return"}

\* ... or to a worker.
LEMMA WorkersStep ==
    ASSUME TypeInv, [Next]_vars, NEW e \in Dataset
    PROVE  WorkerStep(e)
  <1>0. worker \in [Dataset -> Worker]
    BY DEF TypeInv, Types
  <1>1. CASE UNCHANGED worker
    BY <1>1 DEF WorkerStep
  <1>2. ASSUME NEW d \in Dataset, NEW pc, Goto(d, pc)
        PROVE  /\ e # d => worker'[e] = worker[e]
               /\ worker'[d].pc = pc
    BY <1>0, <1>2 DEF Goto, Worker
  <1>3. ASSUME NEW d \in Dataset, Ends(d)
        PROVE  worker'[e].pc \in {"none"} \/ worker'[e] = worker[e]
    BY <1>0, <1>3 DEF Ends, Idle
  <1>4. ASSUME NEW d \in Dataset, ClaimJob(d) PROVE WorkerStep(e)
    <2>1. [Idle EXCEPT !.pc = "load"].pc = "load"
      BY DEF Idle
    <2>2. QED
      BY <1>0, <1>4, <2>1 DEF ClaimJob, WorkerStep
  <1>5. ASSUME NEW d \in Dataset, Load(d) PROVE WorkerStep(e)
    BY <1>0, <1>5 DEF Load, WorkerStep, Worker
  <1>6. ASSUME NEW d \in Dataset,
               \/ LoadNothing(d) \/ BeginOrphan(d) \/ DropJob(d)
               \/ MailSent(d) \/ RunFinishes(d) \/ Fails(d)
        PROVE  WorkerStep(e)
    <2>1. Ends(d)
      BY <1>6 DEF LoadNothing, BeginOrphan, DropJob, MailSent, RunFinishes,
                  Fails
    <2>2. QED
      BY <1>3, <2>1 DEF WorkerStep
  <1>7. ASSUME NEW d \in Dataset, Wait(d) \/ Interrupted(d) PROVE WorkerStep(e)
    <2>1. Goto(d, "return") \/ Ends(d)
      BY <1>7 DEF Wait, Interrupted, Abort
    <2>2. QED
      BY <1>2, <1>3, <2>1 DEF WorkerStep
  <1>8. ASSUME NEW d \in Dataset, Begin(d) PROVE WorkerStep(e)
    BY <1>2, <1>8 DEF Begin, WorkerStep, Anew, Moves
  <1>9. ASSUME NEW d \in Dataset, Process(d) PROVE WorkerStep(e)
    <2>1. PICK rows \in {0, 1} :
              worker' = [worker EXCEPT ![d].pc = "written", ![d].rows = rows]
      BY <1>9 DEF Process
    <2>2. /\ e # d => worker'[e] = worker[e]
          /\ worker'[d].pc = "written"
      BY <1>0, <2>1 DEF Worker
    <2>3. QED
      BY <1>9, <2>2 DEF Process, WorkerStep, Moves
  <1>10. ASSUME NEW d \in Dataset, DatasetDone(d) PROVE WorkerStep(e)
    BY <1>2, <1>10 DEF DatasetDone, WorkerStep, Moves
  <1>11. ASSUME NEW d \in Dataset, Continue(d) \/ Complete(d)
         PROVE  WorkerStep(e)
    BY <1>2, <1>11 DEF Continue, Complete, WorkerStep, Moves
  <1>12. ASSUME NEW d \in Dataset, NEW n \in Follow[d], Create(d, n)
         PROVE  WorkerStep(e)
    <2>1. CASE Ends(d)
      BY <1>3, <2>1 DEF WorkerStep
    <2>2. CASE worker' = [worker EXCEPT ![d].pc = "created", ![d].next = n]
      <3>1. /\ e # d => worker'[e] = worker[e]
            /\ worker'[d].pc = "created"
        BY <1>0, <2>2 DEF Worker
      <3>2. QED
        BY <1>12, <3>1 DEF WorkerStep
    <2>3. QED
      BY <1>12, <2>1, <2>2 DEF Create
  <1>13. ASSUME NEW d \in Dataset,
                Queue(d) \/ Halt(d) \/ FinishSurrogate(d) \/ WorkFinishes(d)
         PROVE  WorkerStep(e)
    <2>1. /\ worker[d].pc \notin {"none", "load", "return"}
          /\ Goto(d, "finish") \/ Goto(d, "mail") \/ Ends(d)
      BY <1>13 DEF Queue, Halt, FinishSurrogate, WorkFinishes
    <2>2. QED
      BY <1>2, <1>3, <2>1 DEF WorkerStep
  <1>18. ASSUME NEW d \in Dataset, Attach(d) \/ CopyResult(d)
         PROVE  WorkerStep(e)
    <2>1. CASE Goto(d, "finish") \/ CopyResult(d)
      BY <1>2, <1>18, <2>1 DEF Attach, CopyResult, WorkerStep, Moves
    <2>2. CASE Attach(d) /\ ~Goto(d, "finish")
      <3>1. /\ e # d => worker'[e] = worker[e]
            /\ worker[d].pc = "attach" /\ worker'[d].pc = "copy"
        BY <1>0, <2>2 DEF Attach, Worker
      <3>2. QED
        BY <3>1 DEF WorkerStep, Moves
    <2>3. QED
      BY <1>18, <2>1, <2>2
  <1>14. CASE DeleteJob
    <2>1. ASSUME worker' = [worker EXCEPT ![Top.key].interrupted = "cancel"]
          PROVE  /\ worker'[e].pc = worker[e].pc
                 /\ worker'[e].finished = worker[e].finished
      BY <1>0, <2>1 DEF Worker
    <2>2. QED
      BY <1>1, <1>14, <2>1 DEF DeleteJob, WorkerStep
  <1>15. CASE Stop
    BY <1>0, <1>15 DEF Stop, WorkerStep, Idle, Worker
  <1>16. CASE Kill
    BY <1>16 DEF Kill, WorkerStep, Idle
  <1>17. QED
    BY <1>1, <1>4, <1>5, <1>6, <1>7, <1>8, <1>9, <1>10, <1>11, <1>12, <1>13,
       <1>14, <1>15, <1>16, <1>18
    DEF Next, vars, Work, Delete, QueueDataset, TimePasses, DeleteDataset,
        DeleteChild, DeleteRow, Stopped, Boot

\* The invariant holds initially.
LEMMA PipelineInit == Init => PipelineInv
  <1> SUFFICES ASSUME Init PROVE PipelineInv
    OBVIOUS
  <1>1. TypeInv
    BY TypeInit
  <1>2. /\ \A d \in Dataset : worker[d].pc = "none" /\ datasets[d] = "none"
        /\ deleting = <<>>
    BY DEF Init, Idle
  <1>3. \A d \in Dataset : Follow[d] \subseteq Dataset
    BY PipelineAssumption DEF Dataset
  <1>4. FollowInv
    BY <1>2, <1>3 DEF FollowInv, Unfollowed, Anew, Producing
  <1>5. PresetInv
    BY <1>2, PipelineAssumption DEF PresetInv, Dataset
  <1>6. RanInv /\ StackInv
    BY <1>2 DEF RanInv, StackInv
  <1>7. QED
    BY <1>1, <1>4, <1>5, <1>6 DEF PipelineInv

\* What is created, and what is done, stays so.
LEMMA StaysDone ==
    ASSUME TypeInv, StackInv, [Next]_vars, NEW e \in Dataset
    PROVE  /\ datasets[e] # "none" => datasets'[e] # "none"
           /\ Done(e) => Done(e)'
  BY DatasetsStep
  DEF DatasetStep, Created, GetsDone, GetsDeleted, Done, InTable

\* What is worked on was created.
LEMMA RanNext ==
    ASSUME PipelineInv, [Next]_vars
    PROVE  RanInv'
  <1> SUFFICES ASSUME NEW e \in Dataset,
                      worker'[e].pc \notin {"none", "load", "return"}
               PROVE  datasets'[e] # "none"
    BY DEF RanInv
  <1>1. TypeInv /\ StackInv /\ RanInv
    BY DEF PipelineInv
  <1>2. CASE Load(e)
    BY <1>1, <1>2, StaysDone DEF Load, Orphaned, InTable
  <1>3. CASE worker[e].pc \notin {"none", "load", "return"}
    BY <1>1, <1>3, StaysDone DEF RanInv
  <1>4. WorkerStep(e)
    BY <1>1, WorkersStep
  <1>5. QED
    BY <1>2, <1>3, <1>4 DEF WorkerStep, Anew, Moves, Create

\* The stack of deletions only grows by datasets that are there.
LEMMA StackNext ==
    ASSUME PipelineInv, [Next]_vars
    PROVE  StackInv'
  <1>0. /\ TypeInv /\ StackInv /\ deleting \in Seq(Frame) /\ TypeInv'
        /\ deleting' \in Seq(Frame)
    BY TypeNext DEF PipelineInv, TypeInv, Types
  <1>1. ASSUME \A i \in 1 .. Len(deleting') :
                   \/ \E j \in 1 .. Len(deleting) :
                          deleting'[i].key = deleting[j].key
                   \/ InTable(deleting'[i].key)
        PROVE  StackInv'
    <2> SUFFICES ASSUME NEW i \in 1 .. Len(deleting')
                 PROVE  datasets'[deleting'[i].key] # "none"
      BY DEF StackInv
    <2>1. deleting'[i].key \in Dataset
      <3>1. deleting'[i] \in Frame
        BY <1>0
      <3>2. QED
        BY <3>1 DEF Frame
    <2>2. datasets[deleting'[i].key] # "none"
      BY <1>1 DEF StackInv, InTable, PipelineInv
    <2>3. QED
      BY <1>0, <2>1, <2>2, StaysDone
  <1>2. CASE UNCHANGED deleting
    BY <1>1, <1>2
  <1>3. ASSUME NEW d \in Dataset, DeleteDataset(d) PROVE StackInv'
    BY <1>1, <1>3 DEF DeleteDataset, Call
  <1>4. ASSUME deleting # <<>>
        PROVE  /\ Len(deleting) \in Nat /\ Len(deleting) > 0
               /\ Len(Tail(deleting)) = Len(deleting) - 1
               /\ Tail(deleting) \in Seq(Frame) /\ Top = deleting[1]
               /\ \A i \in 1 .. Len(deleting) - 1 :
                     Tail(deleting)[i] = deleting[i + 1]
    BY <1>0, <1>4 DEF Top
  <1>5. ASSUME NEW top, deleting # <<>>, top \in Frame, top.key = Top.key,
               NEW i \in 1 .. Len(<<top>> \o Tail(deleting))
        PROVE  \E j \in 1 .. Len(deleting) :
                  (<<top>> \o Tail(deleting))[i].key = deleting[j].key
    <2>1. CASE i = 1
      <3>1. (<<top>> \o Tail(deleting))[i] = top
        BY <1>4, <1>5, <2>1
      <3>2. QED
        BY <1>4, <1>5, <3>1
    <2>2. CASE i # 1
      <3>1. /\ i \in 2 .. Len(deleting)
            /\ (<<top>> \o Tail(deleting))[i] = Tail(deleting)[i - 1]
        BY <1>4, <1>5, <2>2
      <3>2. Tail(deleting)[i - 1] = deleting[i]
        BY <1>4, <1>5, <3>1
      <3>3. QED
        BY <1>4, <1>5, <3>1, <3>2
    <2>3. QED
      BY <2>1, <2>2
  <1>6. ASSUME NEW c \in Dataset, DeleteChild(c) PROVE StackInv'
    <2> DEFINE top == [Top EXCEPT !.children = @ \ {c}]
               rest == <<top>> \o Tail(deleting)
    <2>1. deleting # <<>> /\ Top \in Frame
      BY <1>0, <1>6 DEF DeleteChild, Top
    <2>2. top \in Frame /\ top.key = Top.key
      BY <2>1 DEF Frame
    <2>3. deleting' = IF InTable(c) THEN <<Call(c)>> \o rest ELSE rest
      BY <1>6 DEF DeleteChild
    <2> HIDE DEF top
    <2>4. rest \in Seq(Frame)
      BY <1>4, <2>1, <2>2
    <2>5. \A i \in 1 .. Len(rest) :
            \E j \in 1 .. Len(deleting) : rest[i].key = deleting[j].key
      BY <1>5, <2>1, <2>2
    <2> HIDE DEF rest
    <2>6. CASE ~InTable(c)
      BY <1>1, <2>3, <2>5, <2>6
    <2>7. CASE InTable(c)
      <3>1. Call(c) \in Frame /\ Call(c).key = c
        BY DEF Call, Children, Frame
      <3>2. ASSUME NEW i \in 1 .. Len(deleting')
            PROVE  deleting'[i] = Call(c)
                   \/ \E k \in 1 .. Len(rest) : deleting'[i] = rest[k]
        <4>1. /\ deleting' = <<Call(c)>> \o rest
              /\ Len(deleting') = Len(rest) + 1 /\ Len(rest) \in Nat
          BY <2>3, <2>4, <2>7, <3>1
        <4>2. CASE i = 1
          BY <2>4, <3>1, <4>1, <4>2
        <4>3. CASE i # 1
          <5>1. deleting'[i] = rest[i - 1] /\ i - 1 \in 1 .. Len(rest)
            BY <2>4, <3>1, <3>2, <4>1, <4>3
          <5>2. QED
            BY <5>1
        <4>4. QED
          BY <4>2, <4>3
      <3>3. QED
        BY <1>1, <2>5, <2>7, <3>1, <3>2
    <2>8. QED
      BY <2>6, <2>7
  <1>7. CASE DeleteJob
    <2> DEFINE top == [Top EXCEPT !.step = "row"]
    <2>1. deleting # <<>> /\ Top \in Frame
      BY <1>0, <1>7 DEF DeleteJob, Top
    <2>2. top \in Frame /\ top.key = Top.key
      BY <2>1 DEF Frame
    <2>3. deleting' = <<top>> \o Tail(deleting)
      BY <1>7 DEF DeleteJob
    <2> HIDE DEF top
    <2>4. \A i \in 1 .. Len(deleting') :
            \E j \in 1 .. Len(deleting) : deleting'[i].key = deleting[j].key
      BY <1>5, <2>1, <2>2, <2>3
    <2>5. QED
      BY <1>1, <2>4
  <1>8. CASE DeleteRow
    <2>1. deleting # <<>> /\ deleting' = Tail(deleting)
      BY <1>8 DEF DeleteRow
    <2>2. \A i \in 1 .. Len(deleting') :
            i + 1 \in 1 .. Len(deleting) /\ deleting'[i] = deleting[i + 1]
      BY <1>4, <2>1
    <2>3. QED
      BY <1>1, <2>2
  <1>9. QED
    BY <1>2, <1>3, <1>6, <1>7, <1>8
    DEF Next, vars, Work, Delete, QueueDataset, ClaimJob, TimePasses, Load,
        LoadNothing, Wait, Begin, BeginOrphan, DropJob, Process, DatasetDone,
        Continue, Complete, Halt, Create, Queue, Attach, CopyResult,
        FinishSurrogate, WorkFinishes, MailSent, RunFinishes, Interrupted, Fails,
        Stop, Stopped, Kill, Boot

\* A preset's worker is done when its pipeline is queued.
LEMMA PresetNext ==
    ASSUME PipelineInv, [Next]_vars
    PROVE  PresetInv'
  <1> SUFFICES ASSUME NEW e \in Preset
               PROVE  worker'[e].pc
                         \notin {"written", "after", "create", "attach",
                                 "copy", "declare"}
    BY DEF PresetInv
  <1>1. e \in Dataset /\ PresetInv /\ TypeInv
    BY PipelineAssumption DEF PipelineInv, Dataset
  <1>2. WorkerStep(e)
    BY <1>1, WorkersStep
  <1>3. QED
    BY <1>1, <1>2 DEF WorkerStep, PresetInv, Moves

\* Only a dataset's own worker creates what follows it.
LEMMA WhoFollows ==
    ASSUME PipelineInv, [Next]_vars, NEW d \in Dataset \ Preset, Unfollowed(d)
    PROVE  \/ Unfollowed(d)'
           \/ Done(d) /\ worker[d].pc = "create" /\ worker'[d].pc = "created"
  <1>0. /\ TypeInv /\ StackInv /\ FollowInv /\ worker \in [Dataset -> Worker]
        /\ d \in Dataset /\ Follow[d] \subseteq Dataset
    BY PipelineAssumption DEF PipelineInv, TypeInv, Types, Dataset
  <1>1. ASSUME NEW n \in Follow[d], datasets'[n] # "none"
        PROVE  Create(d, n)
    <2>1. datasets[n] = "none" /\ n \in Dataset
      BY <1>0 DEF Unfollowed
    <2>2. DatasetStep(n)
      BY <1>0, <2>1, DatasetsStep
    <2>3. ~QueueDataset(n)
      BY <1>0, <1>1 DEF QueueDataset, Followers
    <2>4. PICK c \in Dataset : n \in Follow[c] /\ Create(c, n)
      BY <1>1, <2>1, <2>2, <2>3 DEF DatasetStep, GetsDone, GetsDeleted, InTable
    <2>5. Parent[n] = c /\ Parent[n] = d
      BY <1>0, <2>4, PipelineAssumption DEF Dataset
    <2>6. QED
      BY <2>4, <2>5
  <1>2. CASE \A n \in Follow[d] : datasets'[n] = "none"
    BY <1>2 DEF Unfollowed
  <1>3. ASSUME NEW n \in Follow[d], Create(d, n)
        PROVE  Done(d) /\ worker[d].pc = "create" /\ worker'[d].pc = "created"
    <2>1. /\ worker[d].pc = "create"
          /\ worker' = [worker EXCEPT ![d].pc = "created", ![d].next = n]
      BY <1>3 DEF Create
    <2>2. worker'[d].pc = "created"
      BY <1>0, <2>1 DEF Worker
    <2>3. Done(d)
      BY <1>0, <2>1 DEF FollowInv
    <2>4. QED
      BY <2>1, <2>2, <2>3
  <1>4. QED
    BY <1>1, <1>2, <1>3

\* Nothing follows what is processed anew.
LEMMA FollowNext ==
    ASSUME PipelineInv, [Next]_vars
    PROVE  FollowInv'
  <1>0. TypeInv /\ StackInv /\ RanInv /\ FollowInv
    BY DEF PipelineInv
  <1> SUFFICES ASSUME NEW d \in Dataset \ Preset
               PROVE  /\ ~Done(d)' => Unfollowed(d)'
                      /\ Anew(d)' \/ Producing(d)' => Unfollowed(d)'
                      /\ worker'[d].pc \in {"after", "create", "created",
                                            "attach", "copy", "declare"}
                         => Done(d)'
    BY DEF FollowInv
  <1>1. WorkerStep(d)
    BY <1>0, WorkersStep
  <1>2. Done(d) => Done(d)'
    BY <1>0, StaysDone
  <1>3. ~Done(d)' => Unfollowed(d)'
    BY <1>0, <1>2, WhoFollows DEF FollowInv
  <1>4. ASSUME Anew(d)' \/ Producing(d)' PROVE Unfollowed(d)'
    <2>1. CASE Anew(d) \/ Producing(d)
      <3>1. Unfollowed(d)
        BY <1>0, <2>1 DEF FollowInv
      <3>2. worker'[d].pc # "created"
        BY <1>4 DEF Anew, Producing
      <3>3. QED
        BY <3>1, <3>2, WhoFollows
    <2>2. CASE Load(d) /\ worker'[d].finished = Finished(d)
                       /\ worker'[d].pc = "begin"
      <3>1. ~Finished(d) /\ InTable(d)
        BY <1>4, <2>2 DEF Anew, Producing, Load, Orphaned
      <3>2. ~Done(d) /\ worker[d].pc = "load"
        BY <2>2, <3>1 DEF Finished, InTable, Done, Load
      <3>3. Unfollowed(d)
        BY <1>0, <3>2 DEF FollowInv
      <3>4. QED
        BY <3>2, <3>3, WhoFollows
    <2>3. QED
      BY <1>1, <1>4, <2>1, <2>2 DEF WorkerStep, Anew, Producing, Moves
  <1>5. ASSUME worker'[d].pc \in {"after", "create", "created", "attach", "copy",
                                  "declare"}
        PROVE  Done(d)'
    <2>1. CASE worker[d].pc \in {"after", "create", "created", "attach", "copy",
                                "declare"}
      BY <1>0, <1>2, <2>1 DEF FollowInv
    <2>2. CASE DatasetDone(d) /\ worker[d].pc = "written"
      <3>1. datasets \in [Dataset -> Status] /\ datasets[d] # "none"
        BY <1>0, <2>2 DEF RanInv, TypeInv, Types
      <3>2. CASE InTable(d)
        <4>1. datasets'[d] \in {"empty", "full"}
          BY <2>2, <3>1, <3>2 DEF DatasetDone, FinishDataset
        <4>2. QED
          BY <4>1 DEF Done
      <3>3. CASE ~InTable(d)
        <4>1. datasets[d] \notin {"none", "open", "empty", "full"}
          BY <3>1, <3>3, PipelineAssumption DEF InTable, Dataset
        <4>2. QED
          BY <1>2, <4>1 DEF Done
      <3>4. QED
        BY <3>2, <3>3
    <2>3. ASSUME NEW n \in Follow[d], Create(d, n) PROVE Done(d)'
      <3>1. worker[d].pc = "create"
        BY <2>3 DEF Create
      <3>2. QED
        BY <2>1, <3>1
    <2>4. QED
      BY <1>1, <1>5, <2>1, <2>2, <2>3 DEF WorkerStep, Moves
  <1>6. QED
    BY <1>3, <1>4, <1>5

\* The invariant is inductive.
LEMMA PipelineNext ==
    ASSUME PipelineInv, [Next]_vars
    PROVE  PipelineInv'
  BY TypeNext, RanNext, StackNext, PresetNext, FollowNext DEF PipelineInv

\* However the back-end is stopped, killed and started, and whatever fails or is
\* deleted, a preset is declared finished by a worker of its pipeline that has
\* nothing to follow it.
THEOREM PresetAlwaysEndsPipeline == Spec => PresetEndsPipeline
  <1>1. PipelineInv /\ [Next]_vars =>
          [\A p \in Preset :
              datasets[p] = "open" /\ datasets'[p] \in {"empty", "full"}
              => \E d \in Dataset :
                     /\ PresetOf[d] = p
                     /\ worker[d].pc = "declare" /\ worker'[d].pc # "declare"
                     /\ Children(d) \cap Follow[d] = {}]_vars
    <2> SUFFICES ASSUME PipelineInv, [Next]_vars, NEW p \in Preset,
                        datasets[p] = "open", datasets'[p] \in {"empty", "full"}
                 PROVE  \E d \in Dataset :
                     /\ PresetOf[d] = p
                     /\ worker[d].pc = "declare" /\ worker'[d].pc # "declare"
                     /\ Children(d) \cap Follow[d] = {}
      OBVIOUS
    <2>0. /\ p \in Dataset /\ TypeInv /\ StackInv /\ FollowInv /\ PresetInv
          /\ worker \in [Dataset -> Worker]
      BY PipelineAssumption DEF PipelineInv, Dataset, TypeInv, Types
    <2>1. DatasetStep(p) /\ ~DatasetDone(p)
      BY <2>0, DatasetsStep DEF DatasetDone, PresetInv
    <2>2. PICK d \in Dataset : FinishSurrogate(d) /\ PresetOf[d] = p
      BY <2>1 DEF DatasetStep, Created, GetsDeleted
    <2>3. worker[d].pc = "declare" /\ worker'[d].pc = "finish"
      BY <2>0, <2>2 DEF FinishSurrogate, Goto, Worker
    <2>4. Unfollowed(d)
      BY <2>0, <2>3 DEF PresetInv, FollowInv, Producing
    <2>5. Children(d) \cap Follow[d] = {}
      BY <2>4 DEF Unfollowed, Children, InTable
    <2>6. QED
      BY <2>2, <2>3, <2>5
  <1>2. QED
    BY <1>1, PipelineInit, PipelineNext, PTL DEF Spec, PresetEndsPipeline

-----------------------------------------------------------------------------
(* A dataset with rows has its file                                        *)

\* A preset has the file of a dataset of its pipeline, or any dataset its own.
HasResult(e) ==
    \/ OwnFile(e) \in file
    \/ \E x \in Dataset : PresetOf[x] = e /\ ResultFile(e, Suffix[x]) \in file

\* What a worker has rows of is written, and copied before that is declared;
\* nobody aborts a worker.
FileInv ==
    /\ deleting = <<>>
    /\ \A d \in Dataset :
          /\ worker[d].interrupted = "no"
          /\ worker[d].rows > 0 => OwnFile(d) \in file
          /\ worker[d].pc = "declare" /\ worker[d].rows > 0
             => ResultFile(PresetOf[d], Suffix[d]) \in file
    /\ \A d \in Dataset : /\ datasets[d] = "full" => HasResult(d)
                          /\ datasets[d] # "deleted"

\* No dataset has rows initially.
LEMMA FileInit == Init => FileInv
  BY DEF Init, FileInv, Idle

\* A worker that goes on as it was, or has not just copied its result.
SameRows(e) ==
    /\ worker'[e].interrupted = worker[e].interrupted
    /\ worker'[e].rows = worker[e].rows
    /\ worker'[e].pc = "declare" => worker[e].pc = "declare"

\* A worker that goes on keeps its rows, one that ends has none.
LEMMA RowsStep ==
    ASSUME TypeInv, NEW d \in Dataset, NEW e \in Dataset,
           Ends(d) \/ (\E pc : pc # "declare" /\ Goto(d, pc))
    PROVE  \/ SameRows(e)
           \/ e = d /\ worker'[e].interrupted = "no" /\ worker'[e].rows = 0
  <1>0. worker \in [Dataset -> Worker]
    BY DEF TypeInv, Types
  <1>1. CASE Ends(d)
    BY <1>0, <1>1 DEF Ends, Idle, SameRows
  <1>2. CASE \E pc : pc # "declare" /\ Goto(d, pc)
    BY <1>0, <1>2 DEF Goto, Worker, SameRows
  <1>3. QED
    BY <1>1, <1>2

\* Where nobody aborts a worker, no file is removed that is needed.
LEMMA FileNext ==
    ASSUME ~MayFail, ~MayStop, ~MayDelete, PipelineInv, FileInv, [Next]_vars
    PROVE  FileInv'
  <1>0. /\ worker \in [Dataset -> Worker] /\ datasets \in [Dataset -> Status]
        /\ deleting = <<>>
        /\ \A d \in Dataset :
              /\ worker[d].interrupted = "no"
              /\ worker[d].rows > 0 => OwnFile(d) \in file
              /\ worker[d].pc = "declare" /\ worker[d].rows > 0
                 => ResultFile(PresetOf[d], Suffix[d]) \in file
        /\ \A d \in Dataset : /\ datasets[d] = "full" => HasResult(d)
                              /\ datasets[d] # "deleted"
        /\ RanInv /\ TypeInv /\ StackInv
    BY DEF PipelineInv, TypeInv, Types, FileInv
  <1>a. \A e \in Dataset : datasets'[e] # "deleted"
    <2>1. ~DeleteRow
      BY <1>0 DEF DeleteRow
    <2>2. \A e \in Dataset : DatasetStep(e)
      BY <1>0, DatasetsStep
    <2>3. QED
      BY <1>0, <2>1, <2>2 DEF DatasetStep, Created, GetsDone
  <1>1. ASSUME UNCHANGED deleting, file \subseteq file',
               \A e \in Dataset :
                  /\ \/ SameRows(e)
                     \/ worker'[e].interrupted = "no" /\ worker'[e].rows = 0
                     \/ /\ worker'[e].interrupted = "no" /\ OwnFile(e) \in file'
                        /\ worker'[e].pc # "declare"
                  /\ datasets'[e] = "full" => datasets[e] = "full" \/ HasResult(e)'
        PROVE  FileInv'
    <2>1. \A e \in Dataset : HasResult(e) => HasResult(e)'
      BY <1>1 DEF HasResult
    <2>2. \A e \in Dataset : datasets'[e] = "full" => HasResult(e)'
      BY <1>0, <1>1, <2>1
    <2>3. ASSUME NEW e \in Dataset
          PROVE  /\ worker'[e].interrupted = "no"
                 /\ worker'[e].rows > 0 => OwnFile(e) \in file'
                 /\ worker'[e].pc = "declare" /\ worker'[e].rows > 0
                    => ResultFile(PresetOf[e], Suffix[e]) \in file'
      BY <1>0, <1>1 DEF SameRows
    <2> HIDE DEF HasResult
    <2>4. QED
      BY <1>0, <1>a, <1>1, <2>2, <2>3 DEF FileInv, OwnFile, ResultFile
  <1>2. ASSUME NEW d \in Dataset, UNCHANGED <<deleting, file>>,
               Ends(d) \/ (\E pc : pc # "declare" /\ Goto(d, pc)),
               \A e \in Dataset :
                  datasets'[e] = "full" => datasets[e] = "full" \/ HasResult(e)
        PROVE  FileInv'
    <2>1. \A e \in Dataset :
             \/ SameRows(e)
             \/ worker'[e].interrupted = "no" /\ worker'[e].rows = 0
      BY <1>0, <1>2, RowsStep
    <2>2. \A e \in Dataset : HasResult(e) => HasResult(e)'
      BY <1>2 DEF HasResult
    <2>3. QED
      BY <1>1, <1>2, <2>1, <2>2
  <1>3. ASSUME NEW d \in Dataset,
               \/ LoadNothing(d) \/ Wait(d) \/ Begin(d) \/ BeginOrphan(d)
               \/ DropJob(d) \/ Continue(d) \/ Complete(d) \/ Halt(d) \/ Queue(d)
               \/ WorkFinishes(d) \/ MailSent(d) \/ RunFinishes(d)
        PROVE  FileInv'
    <2>1. UNCHANGED <<datasets, deleting, file>>
      BY <1>3 DEF LoadNothing, Wait, Begin, BeginOrphan, DropJob, Continue,
                  Complete, Halt, Queue, WorkFinishes, MailSent, RunFinishes
    <2>2. Ends(d) \/ (\E pc : pc # "declare" /\ Goto(d, pc))
      BY <1>3 DEF LoadNothing, Wait, Begin, BeginOrphan, DropJob, Continue,
                  Complete, Halt, Queue, WorkFinishes, MailSent, RunFinishes
    <2>3. QED
      BY <1>2, <2>1, <2>2
  <1>4. ASSUME NEW d \in Dataset, Load(d) PROVE FileInv'
    <2>1. UNCHANGED <<datasets, deleting, file>>
      BY <1>4 DEF Load
    <2>2. \A e \in Dataset : SameRows(e)
      BY <1>0, <1>4 DEF Load, Worker, SameRows
    <2>3. QED
      BY <1>1, <2>1, <2>2
  <1>5. ASSUME NEW d \in Dataset, Process(d) PROVE FileInv'
    <2>1. PICK rows \in {0, 1} :
              /\ worker' = [worker EXCEPT ![d].pc = "written", ![d].rows = rows]
              /\ file' = IF rows > 0 THEN file \cup {OwnFile(d)} ELSE file
      BY <1>5 DEF Process
    <2>2. \A e \in Dataset :
             /\ worker'[e].interrupted = worker[e].interrupted
             /\ worker'[e].rows = IF e = d THEN rows ELSE worker[e].rows
             /\ worker'[e].pc = IF e = d THEN "written" ELSE worker[e].pc
      BY <1>0, <2>1 DEF Worker
    <2>3. rows = 0 \/ OwnFile(d) \in file'
      BY <2>1
    <2>4. UNCHANGED <<datasets, deleting>> /\ file \subseteq file'
      BY <1>5, <2>1 DEF Process
    <2>5. QED
      BY <1>0, <1>1, <2>2, <2>3, <2>4 DEF SameRows
  <1>6. ASSUME NEW d \in Dataset, DatasetDone(d) PROVE FileInv'
    <2>1. FinishDataset(d, worker[d].rows)
      BY <1>6 DEF DatasetDone
    <2>2. \A e \in Dataset :
             datasets'[e] = "full" => datasets[e] = "full" \/ HasResult(e)
      BY <1>0, <2>1 DEF FinishDataset, HasResult
    <2>3. QED
      BY <1>2, <1>6, <2>2 DEF DatasetDone
  <1>7. ASSUME NEW d \in Dataset, NEW n \in Follow[d], Create(d, n)
        PROVE  FileInv'
    <2>1. /\ datasets' = [datasets EXCEPT ![n] = "open"]
          /\ UNCHANGED deleting
      BY <1>7 DEF Create
    <2>2. \A e \in Dataset : datasets'[e] = "full" => datasets[e] = "full"
      BY <1>0, <2>1
    <2>3. InTable(d)
      <3>1. worker[d].pc \in {"process", "create"}
        BY <1>7 DEF Create
      <3>2. datasets[d] \notin {"none", "deleted"} /\ d # NoDataset
        BY <1>0, <3>1, PipelineAssumption DEF RanInv, Dataset
      <3>3. QED
        BY <1>0, <3>2 DEF InTable, Status
    <2>4. /\ worker' = [worker EXCEPT ![d].pc = "created", ![d].next = n]
          /\ UNCHANGED file
      BY <1>7, <2>3 DEF Create
    <2>5. \A e \in Dataset : SameRows(e)
      BY <1>0, <2>4 DEF Worker, SameRows
    <2>6. QED
      BY <1>1, <2>1, <2>2, <2>4, <2>5
  <1>8. ASSUME NEW d \in Dataset, Attach(d) PROVE FileInv'
    <2>1. UNCHANGED <<datasets, deleting, file>>
      BY <1>8 DEF Attach
    <2>2. CASE InTable(PresetOf[d])
      <3>1. \A e \in Dataset : SameRows(e)
        BY <1>0, <1>8, <2>2 DEF Attach, Worker, SameRows
      <3>2. QED
        BY <1>1, <2>1, <3>1
    <2>3. CASE ~InTable(PresetOf[d])
      BY <1>2, <1>8, <2>1, <2>3 DEF Attach
    <2>4. QED
      BY <2>2, <2>3
  <1>14. ASSUME NEW d \in Dataset, CopyResult(d) PROVE FileInv'
    <2>1. /\ UNCHANGED <<datasets, deleting>> /\ file \subseteq file'
          /\ OwnFile(d) \in file => ResultFile(PresetOf[d], Suffix[d]) \in file'
      BY <1>14 DEF CopyResult
    <2>2. \A e \in Dataset : /\ worker'[e].interrupted = worker[e].interrupted
                             /\ worker'[e].rows = worker[e].rows
                             /\ e # d => worker'[e].pc = worker[e].pc
      BY <1>0, <1>14 DEF CopyResult, Goto, Worker
    <2>3. \A e \in Dataset : HasResult(e) => HasResult(e)'
      BY <2>1 DEF HasResult, OwnFile, ResultFile
    <2>4. \A e \in Dataset : OwnFile(e) \in file => OwnFile(e) \in file'
      BY <2>1 DEF OwnFile, ResultFile
    <2>5. \A e \in Dataset : worker'[e].pc = "declare" /\ worker'[e].rows > 0
                             => ResultFile(PresetOf[e], Suffix[e]) \in file'
      BY <1>0, <2>1, <2>2
    <2> HIDE DEF HasResult, OwnFile, ResultFile
    <2>6. QED
      BY <1>0, <1>a, <2>1, <2>2, <2>3, <2>4, <2>5
      DEF FileInv, OwnFile, ResultFile
  <1>15. ASSUME NEW d \in Dataset, FinishSurrogate(d) PROVE FileInv'
    <2>1. UNCHANGED datasets \/ FinishDataset(PresetOf[d], worker[d].rows)
      BY <1>15 DEF FinishSurrogate
    <2>2. worker[d].rows > 0 /\ PresetOf[d] \in Dataset => HasResult(PresetOf[d])
      BY <1>0, <1>15 DEF FinishSurrogate, HasResult
    <2>3. \A e \in Dataset :
             datasets'[e] = "full" => datasets[e] = "full" \/ HasResult(e)
      BY <1>0, <2>1, <2>2 DEF FinishDataset
    <2>4. QED
      BY <1>2, <1>15, <2>3 DEF FinishSurrogate
  <1>9. ASSUME NEW d \in Dataset, QueueDataset(d) PROVE FileInv'
    <2>1. \A e \in Dataset : datasets'[e] = "full" => datasets[e] = "full"
      BY <1>0, <1>9 DEF QueueDataset
    <2>2. QED
      BY <1>1, <1>9, <2>1 DEF QueueDataset, SameRows
  <1>10. ASSUME NEW d \in Dataset, ClaimJob(d) PROVE FileInv'
    <2>1. /\ [Idle EXCEPT !.pc = "load"].rows = 0
          /\ [Idle EXCEPT !.pc = "load"].interrupted = "no"
      BY DEF Idle
    <2>2. \A e \in Dataset :
             \/ SameRows(e)
             \/ worker'[e].interrupted = "no" /\ worker'[e].rows = 0
      BY <1>0, <1>10, <2>1 DEF ClaimJob, SameRows
    <2>3. QED
      BY <1>1, <1>10, <2>2 DEF ClaimJob
  <1>11. ~(\E d \in Dataset : Interrupted(d) \/ Fails(d) \/ DeleteDataset(d))
         /\ ~Delete /\ ~Stop
    BY <1>0 DEF Interrupted, Abort, Fails, DeleteDataset, Delete, DeleteChild,
                DeleteJob, DeleteRow, Stop
  <1>12. CASE Kill
    <2>1. \A e \in Dataset : /\ worker'[e].interrupted = "no"
                             /\ worker'[e].rows = 0
      BY <1>12 DEF Kill, Idle
    <2>2. QED
      BY <1>1, <1>12, <2>1 DEF Kill
  <1>13. CASE \/ Stopped \/ Boot \/ UNCHANGED vars
              \/ \E d \in Dataset : TimePasses(d)
    BY <1>1, <1>13 DEF Stopped, Boot, vars, TimePasses, SameRows
  <1>16. QED
    BY <1>3, <1>4, <1>5, <1>6, <1>7, <1>8, <1>9, <1>10, <1>11, <1>12, <1>13,
       <1>14, <1>15
    DEF Next, Work

\* Where no processor fails or is interrupted, a dataset that is declared to
\* have rows has its file, or a preset that of a dataset of its pipeline, however
\* often the back-end is killed.
THEOREM ResultAlwaysKept ==
    ASSUME ~MayFail, ~MayStop, ~MayDelete
    PROVE  Spec => []ResultKept
  <1> DEFINE Inv == PipelineInv /\ FileInv
  <1>1. Init => Inv
    BY PipelineInit, FileInit
  <1>2. Inv /\ [Next]_vars => Inv'
    BY PipelineNext, FileNext
  <1>3. Inv => ResultKept
    BY DEF FileInv, HasResult, ResultKept
  <1> HIDE DEF Inv
  <1>4. QED
    BY <1>1, <1>2, <1>3, PTL DEF Spec

\* Then it is the one that its row names, for any dataset but a preset whose
\* pipeline may end with a result of another kind than its own.
THEOREM SameSuffixSameFile ==
    ASSUME ResultKept, NEW d \in Dataset, datasets[d] = "full",
           \A e \in Dataset : PresetOf[e] = d => Suffix[e] = Suffix[d]
    PROVE  OwnFile(d) \in file
  BY DEF ResultKept, OwnFile

-----------------------------------------------------------------------------
(* No processor starts on data that is not complete                        *)

\* The presets that source_dataset goes past.
Open == {p \in Preset : InTable(p) /\ ~Finished(p)}

\* What source_dataset's walk returns from p: the datasets at which it may stop
\* and that are in every set that holds p and, with an open preset, its parent.
Stops(p) ==
    {q \in Key \ Open :
        \A S \in SUBSET Key :
            p \in S /\ (\A x \in S \cap Open : Parent[x] \in S) => q \in S}

OneOf(S) == CHOOSE q : q \in S

\* The walk is well-defined.
LEMMA AboveExists ==
    \E f : f = [p \in Key |-> IF p \in Open THEN f[Parent[p]] ELSE p]
  <1> DEFINE f == [p \in Key |-> OneOf(Stops(p))]
  <1>0. /\ \A p \in Open : p \in Key /\ Parent[p] \in Key
        /\ Open \subseteq Key
    BY PipelineAssumption DEF Open, Key, Dataset
  <1>1. ASSUME NEW p \in Key \ Open PROVE Stops(p) = {p}
    <2>1. \A q \in Stops(p) : q = p
      <3>1. {p} \in SUBSET Key /\ \A x \in {p} \cap Open : Parent[x] \in {p}
        BY <1>1
      <3>2. QED
        BY <3>1 DEF Stops
    <2>2. p \in Stops(p)
      BY <1>1 DEF Stops
    <2>3. QED
      BY <2>1, <2>2
  <1>2. ASSUME NEW p \in Open PROVE Stops(p) = Stops(Parent[p])
    <2>1. ASSUME NEW q \in Stops(Parent[p]) PROVE q \in Stops(p)
      BY <1>0, <1>2, <2>1 DEF Stops
    <2>2. ASSUME NEW q \in Stops(p) PROVE q \in Stops(Parent[p])
      <3>1. SUFFICES ASSUME NEW S \in SUBSET Key, Parent[p] \in S,
                            \A x \in S \cap Open : Parent[x] \in S
                     PROVE  q \in S
        BY <2>2 DEF Stops
      <3>2. /\ S \cup {p} \in SUBSET Key
            /\ \A x \in (S \cup {p}) \cap Open : Parent[x] \in S \cup {p}
        BY <1>0, <1>2, <3>1
      <3>3. q \in S \cup {p} /\ q \notin Open
        BY <2>2, <3>2 DEF Stops
      <3>4. QED
        BY <1>2, <3>3
    <2>3. QED
      BY <2>1, <2>2
  <1>3. \A p \in Key : f[p] = IF p \in Open THEN f[Parent[p]] ELSE p
    <2>1. ASSUME NEW p \in Open PROVE f[p] = f[Parent[p]]
      BY <1>0, <1>2, <2>1
    <2>2. ASSUME NEW p \in Key \ Open PROVE f[p] = p
      BY <1>1, <2>2 DEF OneOf
    <2>3. QED
      BY <2>1, <2>2
  <1>4. f = [p \in Key |-> IF p \in Open THEN f[Parent[p]] ELSE p]
    BY <1>3
  <1>5. QED
    BY <1>4

\* source_dataset is the parent, or what it is for an open preset that is the
\* parent, and so on.
LEMMA SourceIs ==
    \E f : /\ f = [p \in Key |-> IF p \in Open THEN f[Parent[p]] ELSE p]
           /\ \A d \in Dataset : Source(d) = f[Parent[d]]
  <1> DEFINE above[p \in Key] ==
                 IF p \in Preset /\ InTable(p) /\ ~Finished(p)
                 THEN above[Parent[p]] ELSE p
  <1>1. \A p : p \in Preset /\ InTable(p) /\ ~Finished(p) <=> p \in Open
    BY DEF Open
  <1>2. above = CHOOSE f : f = [p \in Key |->
                     IF p \in Preset /\ InTable(p) /\ ~Finished(p)
                     THEN f[Parent[p]] ELSE p]
    OBVIOUS
  <1>3. \A d \in Dataset : Source(d) = above[Parent[d]]
    BY DEF Source
  <1>4. above = [p \in Key |-> IF p \in Preset /\ InTable(p) /\ ~Finished(p)
                               THEN above[Parent[p]] ELSE p]
    BY <1>2, AboveExists, <1>1
  <1> HIDE DEF above
  <1>5. above = [p \in Key |-> IF p \in Open THEN above[Parent[p]] ELSE p]
    BY <1>4, <1>1
  <1>6. QED
    BY <1>3, <1>5

\* It is the parent itself unless that is an open preset...
LEMMA SourceIsParent ==
    ASSUME NEW d \in Dataset, Parent[d] \notin Open
    PROVE  Source(d) = Parent[d]
  BY SourceIs, PipelineAssumption DEF Key, Dataset

\* ... and the walk keeps to any set that open presets do not lead out of.
LEMMA SourceIn ==
    ASSUME NEW d \in Dataset, NEW S \in SUBSET Key,
           \A x \in S \cap Open : Parent[x] \in S,
           Parent[d] \in S
    PROVE  Source(d) \in S \ Open
  <1>1. PICK f : /\ f = [p \in Key |-> IF p \in Open THEN f[Parent[p]] ELSE p]
                 /\ Source(d) = f[Parent[d]]
    BY SourceIs
  <1>2. \A x \in S : f[x] = IF x \in Open THEN f[Parent[x]] ELSE x
    BY <1>1
  <1> DEFINE Lost == {x \in S \cap Open : f[x] \notin S \ Open}
  <1>3. Lost \in SUBSET Dataset
    BY PipelineAssumption DEF Open, Dataset
  <1>4. ASSUME NEW x \in Lost PROVE Parent[x] \in Lost
    BY <1>2
  <1>5. Lost = {}
    BY <1>3, <1>4, TreeAssumption DEF Dataset
  <1>6. QED
    BY <1>1, <1>2, <1>5

\* The presets that source_dataset goes past, from p on: those that are in every
\* set that holds p and, with an open preset, its parent.
Passed(p) ==
    {q \in Open :
        \A S \in SUBSET Key :
            p \in S /\ (\A x \in S \cap Open : Parent[x] \in S) => q \in S}

LEMMA PassedExists ==
    \E f : f = [p \in Key |-> IF p \in Open THEN {p} \cup f[Parent[p]] ELSE {}]
  <1> DEFINE f == [p \in Key |-> Passed(p)]
  <1>0. /\ \A p \in Open : p \in Key /\ Parent[p] \in Key
        /\ Open \subseteq Key
    BY PipelineAssumption DEF Open, Key, Dataset
  <1>1. ASSUME NEW p \in Key \ Open PROVE Passed(p) = {}
    <2>1. {p} \in SUBSET Key /\ \A x \in {p} \cap Open : Parent[x] \in {p}
      BY <1>1
    <2>2. QED
      BY <1>1, <2>1 DEF Passed
  <1>2. ASSUME NEW p \in Open PROVE Passed(p) = {p} \cup Passed(Parent[p])
    <2>1. p \in Passed(p)
      BY <1>2 DEF Passed
    <2>2. ASSUME NEW q \in Passed(Parent[p]) PROVE q \in Passed(p)
      BY <1>0, <1>2, <2>2 DEF Passed
    <2>3. ASSUME NEW q \in Passed(p), q # p PROVE q \in Passed(Parent[p])
      <3>1. SUFFICES ASSUME NEW S \in SUBSET Key, Parent[p] \in S,
                            \A x \in S \cap Open : Parent[x] \in S
                     PROVE  q \in S
        BY <2>3 DEF Passed
      <3>2. /\ S \cup {p} \in SUBSET Key
            /\ \A x \in (S \cup {p}) \cap Open : Parent[x] \in S \cup {p}
        BY <1>0, <1>2, <3>1
      <3>3. q \in S \cup {p}
        BY <2>3, <3>2 DEF Passed
      <3>4. QED
        BY <2>3, <3>3
    <2>4. QED
      BY <2>1, <2>2, <2>3
  <1>3. \A p \in Key : f[p] = IF p \in Open THEN {p} \cup f[Parent[p]] ELSE {}
    BY <1>0, <1>1, <1>2
  <1>4. f = [p \in Key |-> IF p \in Open THEN {p} \cup f[Parent[p]] ELSE {}]
    BY <1>3
  <1>5. QED
    BY <1>4

LEMMA PassedIs ==
    \E f : /\ f = [p \in Key |-> IF p \in Open THEN {p} \cup f[Parent[p]] ELSE {}]
           /\ \A d \in Dataset : PresetsPassed(d) = f[Parent[d]]
  <1> DEFINE passed[p \in Key] ==
                 IF p \in Preset /\ InTable(p) /\ ~Finished(p)
                 THEN {p} \cup passed[Parent[p]] ELSE {}
  <1>1. \A p : p \in Preset /\ InTable(p) /\ ~Finished(p) <=> p \in Open
    BY DEF Open
  <1>2. passed = CHOOSE f : f = [p \in Key |->
                     IF p \in Preset /\ InTable(p) /\ ~Finished(p)
                     THEN {p} \cup f[Parent[p]] ELSE {}]
    OBVIOUS
  <1>3. \A d \in Dataset : PresetsPassed(d) = passed[Parent[d]]
    BY DEF PresetsPassed
  <1>4. passed = [p \in Key |-> IF p \in Preset /\ InTable(p) /\ ~Finished(p)
                                THEN {p} \cup passed[Parent[p]] ELSE {}]
    <2>1. \E f : f = [p \in Key |->
                     IF p \in Preset /\ InTable(p) /\ ~Finished(p)
                     THEN {p} \cup f[Parent[p]] ELSE {}]
      BY PassedExists DEF Open
    <2>2. QED
      BY <1>2, <2>1
  <1> HIDE DEF passed
  <1>5. passed = [p \in Key |-> IF p \in Open THEN {p} \cup passed[Parent[p]]
                                              ELSE {}]
    BY <1>4, <1>1
  <1>6. QED
    BY <1>3, <1>5

\* What will not become unfinished any more; a preset that got as far as to make
\* a dataset of its pipeline; a dataset the processor of which may start, as
\* above it are open presets that have started, up to data that is complete; and
\* one that a user has queued below a preset, which need not wait for that.
Settled(e) == Finished(e) \/ datasets[e] = "deleted"
Started(p) == \E n \in Follow[p] : datasets[n] # "none"
Ready(d) ==
    \/ Parent[d] = NoDataset
    \/ Settled(Parent[d])
    \/ Parent[d] \in Preset /\ Started(Parent[d])
Skips(d) ==
    /\ Parent[d] \in Preset
    /\ PresetOf[d] # Parent[d]
    /\ datasets[Parent[d]] # "none"

BegunInv ==
    \A d \in Dataset :
        worker[d].pc = "begin" => Ready(d) \/ Parent[d] \in Preset

ReadyInv ==
    \A p \in Preset :
        worker[p].pc \in {"begin", "process"} \/ Started(p)
        => Ready(p) \/ Skips(p)

SourceInv == BegunInv /\ ReadyInv

LEMMA SourceInit == Init => SourceInv
  <1> SUFFICES ASSUME Init PROVE SourceInv
    OBVIOUS
  <1>1. \A d \in Dataset : worker[d].pc = "none" /\ datasets[d] = "none"
    BY DEF Init, Idle
  <1>2. \A p \in Preset : p \in Dataset /\ Follow[p] \subseteq Dataset
    BY PipelineAssumption DEF Dataset
  <1>3. QED
    BY <1>1, <1>2 DEF SourceInv, BegunInv, ReadyInv, Started

\* What has settled, or started, stays so.
LEMMA StaysReady ==
    ASSUME PipelineInv, [Next]_vars, NEW d \in Dataset
    PROVE  /\ Parent[d] # NoDataset /\ Settled(Parent[d]) => Settled(Parent[d])'
           /\ Ready(d) => Ready(d)'
           /\ Skips(d) => Skips(d)'
  <1>1. TypeInv /\ StackInv
    BY DEF PipelineInv
  <1>2. ASSUME NEW e \in Dataset, Settled(e) PROVE Settled(e)'
    <2>1. DatasetStep(e)
      BY <1>1, DatasetsStep
    <2>2. QED
      BY <1>2, <2>1 DEF DatasetStep, Created, GetsDone, GetsDeleted, Settled,
                        Finished, InTable
  <1>3. ASSUME NEW p \in Preset, Started(p) PROVE Started(p)'
    <2>1. PICK n \in Follow[p] : datasets[n] # "none"
      BY <1>3 DEF Started
    <2>2. n \in Dataset
      BY PipelineAssumption DEF Dataset
    <2>3. QED
      BY <1>1, <2>1, <2>2, StaysDone DEF Started
  <1>4. Parent[d] # NoDataset => Parent[d] \in Dataset
    BY PipelineAssumption DEF Dataset
  <1>5. Skips(d) => Skips(d)'
    <2>1. Preset \subseteq Dataset
      BY PipelineAssumption DEF Dataset
    <2>2. QED
      BY <1>1, <2>1, StaysDone DEF Skips
  <1>6. QED
    BY <1>2, <1>3, <1>4, <1>5 DEF Ready

\* A processor starts when its source is finished, or below a preset.
LEMMA BegunNext ==
    ASSUME PipelineInv, SourceInv, [Next]_vars
    PROVE  BegunInv'
  <1> SUFFICES ASSUME NEW d \in Dataset, worker'[d].pc = "begin",
                      Parent[d] \notin Preset
               PROVE  Ready(d)'
    BY DEF BegunInv
  <1>1. TypeInv /\ BegunInv
    BY DEF PipelineInv, SourceInv
  <1>2. CASE worker[d].pc = "begin"
    BY <1>1, <1>2, StaysReady DEF BegunInv
  <1>3. CASE Load(d)
    <2>1. Parent[d] = NoDataset \/ Finished(Parent[d])
      BY <1>3, SourceIsParent DEF Load, SourceReady, Underlying, Open
    <2>2. QED
      BY <2>1, StaysReady DEF Ready, Settled
  <1>4. WorkerStep(d)
    BY <1>1, WorkersStep
  <1>5. QED
    BY <1>2, <1>3, <1>4 DEF WorkerStep, Moves, Create

\* A preset starts below presets that have started, or is a user's.
LEMMA ReadyNext ==
    ASSUME PipelineInv, SourceInv, [Next]_vars
    PROVE  ReadyInv'
  <1> SUFFICES ASSUME NEW p \in Preset,
                      \/ worker'[p].pc \in {"begin", "process"}
                      \/ Started(p)'
               PROVE  Ready(p)' \/ Skips(p)'
    BY DEF ReadyInv
  <1>0. p \in Dataset /\ TypeInv /\ StackInv /\ BegunInv /\ ReadyInv
    BY PipelineAssumption DEF PipelineInv, SourceInv, Dataset
  <1>1. CASE worker[p].pc \in {"begin", "process"} \/ Started(p)
    BY <1>0, <1>1, StaysReady DEF ReadyInv
  <1>2. CASE Load(p)
    <2>1. datasets[p] # "none"
      BY <1>2 DEF Load, Orphaned, InTable
    <2>2. CASE Parent[p] \notin Open
      <3>1. Parent[p] = NoDataset \/ Finished(Parent[p])
        BY <1>0, <1>2, <2>2, SourceIsParent
        DEF Load, SourceReady, Underlying, Open
      <3>2. QED
        BY <1>0, <3>1, StaysReady DEF Ready, Settled
    <2>3. CASE Parent[p] \in Open /\ p \in Follow[Parent[p]]
      BY <1>0, <2>1, <2>3, StaysReady DEF Ready, Started, Open
    <2>4. CASE Parent[p] \in Open /\ p \notin Follow[Parent[p]]
      <3>1. Skips(p)
        BY <1>0, <2>4, TreeAssumption DEF Skips, Open, InTable, Dataset
      <3>2. QED
        BY <1>0, <3>1, StaysReady
    <2>5. QED
      BY <2>2, <2>3, <2>4
  <1>3. ASSUME Started(p)', ~Started(p) PROVE worker[p].pc = "process"
    <2>1. PICK n \in Follow[p] : datasets'[n] # "none" /\ datasets[n] = "none"
      BY <1>3 DEF Started
    <2>2. n \in Dataset /\ n \in Followers /\ Parent[n] = p
      BY <1>0, PipelineAssumption DEF Dataset, Followers
    <2>3. DatasetStep(n)
      BY <1>0, <2>2, DatasetsStep
    <2>4. PICK d \in Dataset : n \in Follow[d] /\ Create(d, n)
      BY <2>1, <2>2, <2>3 DEF DatasetStep, GetsDone, GetsDeleted, InTable,
                              QueueDataset
    <2>5. d = p
      BY <2>2, <2>4, PipelineAssumption DEF Dataset
    <2>6. QED
      BY <2>4, <2>5 DEF Create
  <1>4. WorkerStep(p)
    BY <1>0, WorkersStep
  <1>5. QED
    BY <1>1, <1>2, <1>3, <1>4 DEF WorkerStep, Moves, Create

\* In whatever order datasets are queued, made, finished and deleted, and however
\* often the back-end is killed or processors fail, none starts on a source that
\* is there and not finished: neither the processors that look at it, nor those
\* of a pipeline, which rely on their preset having looked, or the preset that
\* it is part of. What users queue for a preset that is not finished does not
\* look (OnlyUnderlyingSkipsPreset), and only where such a dataset is on the way
\* to the source is nothing said.
THEOREM SourceAlwaysComplete == Spec => SourceComplete
  <1> DEFINE Inv == PipelineInv /\ SourceInv
  <1>1. Init => Inv
    BY PipelineInit, SourceInit
  <1>2. Inv /\ [Next]_vars => Inv'
    BY PipelineNext, BegunNext, ReadyNext DEF SourceInv
  <1>3. Inv => [\A d \in Dataset :
                    /\ worker[d].pc = "begin" /\ worker'[d].pc = "process"
                    /\ Parent[d] # NoDataset
                    /\ \A e \in {d} \cup PresetsPassed(d) :
                           Underlying(e) => PresetOf[e] = Parent[e]
                    => Finished(Source(d)) \/ ~InTable(Source(d))]_vars
    <2> SUFFICES ASSUME Inv, NEW d \in Dataset, worker[d].pc = "begin",
                        Parent[d] # NoDataset,
                        \A e \in {d} \cup PresetsPassed(d) :
                            Underlying(e) => PresetOf[e] = Parent[e]
                 PROVE  Finished(Source(d)) \/ ~InTable(Source(d))
      OBVIOUS
    <2>0. Preset \subseteq Dataset /\ Open \subseteq Preset
      BY PipelineAssumption DEF Open, Dataset
    <2>1. CASE Parent[d] \notin Open
      <3>1. Source(d) = Parent[d]
        BY <2>1, SourceIsParent
      <3>2. Ready(d) \/ Parent[d] \in Preset
        BY DEF SourceInv, BegunInv
      <3>3. QED
        BY <2>1, <3>1, <3>2 DEF Ready, Settled, Open, InTable
    <2>2. CASE Parent[d] \in Open
      <3>0. PICK passed :
                /\ passed = [p \in Key |-> IF p \in Open
                                           THEN {p} \cup passed[Parent[p]] ELSE {}]
                /\ PresetsPassed(d) = passed[Parent[d]]
        BY PassedIs
      <3> DEFINE Sound(x) == \/ x = NoDataset
                             \/ Settled(x)
                             \/ x \in Preset /\ Started(x)
                 S == {x \in Key : Sound(x) /\ \A e \in passed[x] :
                                       Underlying(e) => PresetOf[e] = Parent[e]}
      <3>1. d \in Follow[Parent[d]] /\ datasets[d] # "none"
        BY <2>0, <2>2, TreeAssumption
        DEF Underlying, Open, PipelineInv, RanInv, Dataset
      <3>2. Parent[d] \in S
        BY <2>0, <2>2, <3>0, <3>1 DEF Started, Key
      <3>3. ASSUME NEW x \in S \cap Open PROVE Parent[x] \in S
        <4>1. x \in Preset /\ Started(x)
          BY <2>0, <3>3, PipelineAssumption
          DEF Open, Settled, Finished, InTable, Dataset
        <4>2. Ready(x) \/ Skips(x)
          BY <4>1 DEF SourceInv, ReadyInv
        <4>3. x \in Key /\ Parent[x] \in Key
          BY <2>0, <4>1, PipelineAssumption DEF Key, Dataset
        <4>4. passed[x] = {x} \cup passed[Parent[x]]
          BY <3>0, <3>3, <4>3
        <4>5. Skips(x) => Settled(Parent[x])
          <5>1. Underlying(x) => PresetOf[x] = Parent[x]
            BY <3>3, <4>4
          <5>2. ASSUME Skips(x)
                PROVE  Parent[x] \in Dataset /\ datasets[Parent[x]] \in Status
            BY <2>0, <5>2 DEF Skips, PipelineInv, TypeInv, Types
          <5>3. QED
            BY <5>1, <5>2, PipelineAssumption
            DEF Skips, Underlying, Settled, InTable, Finished, Status, Dataset
        <4>6. Sound(Parent[x])
          BY <4>2, <4>5 DEF Ready
        <4>7. QED
          BY <3>3, <4>3, <4>4, <4>6
      <3>4. Source(d) \in S \ Open
        <4> HIDE DEF S
        <4>1. S \in SUBSET Key
          BY DEF S
        <4>2. QED
          BY <3>2, <3>3, <4>1, SourceIn
      <3>5. QED
        BY <3>4 DEF Settled, Open, InTable
    <2>3. QED
      BY <2>1, <2>2
  <1> HIDE DEF Inv
  <1>4. QED
    BY <1>1, <1>2, <1>3, PTL DEF Spec, SourceComplete
=============================================================================
