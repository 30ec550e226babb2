--------------------------- MODULE JobQueueProofs ---------------------------
(***************************************************************************)
(* The operations of JobQueue keep the jobs table well-formed: facts that  *)
(* the proofs about the worker manager cite.                               *)
(***************************************************************************)
EXTENDS JobQueue, TLAPS

\* Counting an attempt stays within the counter's range.
LEMMA CountedType ==
    ASSUME NEW n \in 0 .. AttemptCap
    PROVE  Counted(n) \in 0 .. AttemptCap
  BY JobQueueAssumption DEF Counted

\* The row of a job that is not in the table is a row.
LEMMA NoRowType == NoRow \in Row
  BY JobQueueAssumption DEF NoRow, Row, State

\* A handle read from a table is a handle.
LEMMA GetJobType ==
    ASSUME NEW t \in Table, NEW j \in Job
    PROVE  GetJob(t, j) \in Handle
  BY DEF GetJob, Handle, Table, Row

\* add_job() keeps the table well-formed.
LEMMA AddJobType ==
    ASSUME NEW t \in Table, NEW j \in Job, NEW id \in Nat, NEW d \in BOOLEAN
    PROVE  AddJob(t, j, id, d) \in Table
  <1>1. [NoRow EXCEPT !.state = "queued", !.id = id, !.delayed = d] \in Row
    BY NoRowType DEF Row, State
  <1>2. QED
    BY <1>1 DEF AddJob, Table

\* Job.claim() keeps the table well-formed.
LEMMA ClaimType ==
    ASSUME NEW t \in Table, NEW h \in Handle
    PROVE  Claim(t, h) \in Table
  <1> DEFINE recurs == h.key \in Recurring
  <1>1. h.key \in Job /\ t[h.key] \in Row /\ recurs \in BOOLEAN
    BY DEF Table, Handle
  <1> HIDE DEF recurs
  <1>2. [t[h.key] EXCEPT !.state = "claimed", !.resting = recurs] \in Row
    BY <1>1 DEF Row, State
  <1>3. [t EXCEPT ![h.key] = [@ EXCEPT !.state = "claimed",
                                       !.resting = recurs]] \in Table
    BY <1>1, <1>2 DEF Table
  <1>4. QED
    BY <1>3 DEF Claim, recurs

\* Job.finish() keeps the table well-formed.
LEMMA FinishType ==
    ASSUME NEW t \in Table, NEW h \in Handle, NEW d \in BOOLEAN
    PROVE  Finish(t, h, d) \in Table
  <1>1. h.key \in Job /\ t[h.key] \in Row
    BY DEF Table, Handle
  <1>a. 0 \in 0 .. AttemptCap
    BY JobQueueAssumption
  <1>2. [t[h.key] EXCEPT !.state = "queued", !.attempts = 0] \in Row
    BY <1>1, <1>a DEF Row, State
  <1>3. [t EXCEPT ![h.key] = NoRow] \in Table
    BY NoRowType DEF Table
  <1>4. [t EXCEPT ![h.key] = [@ EXCEPT !.state = "queued", !.attempts = 0]]
           \in Table
    BY <1>1, <1>2 DEF Table
  <1>5. QED
    BY <1>3, <1>4 DEF Finish

\* Job.release() keeps the table well-formed.
LEMMA ReleaseType ==
    ASSUME NEW t \in Table, NEW h \in Handle, NEW d \in BOOLEAN,
           NEW inc \in BOOLEAN
    PROVE  Release(t, h, d, inc) \in Table
  <1> DEFINE tries == IF inc THEN Counted(h.attempts) ELSE t[h.key].attempts
  <1>1. h.key \in Job /\ t[h.key] \in Row
    BY DEF Table, Handle
  <1>2. tries \in 0 .. AttemptCap
    BY <1>1, CountedType DEF Handle, Row
  <1> HIDE DEF tries
  <1>3. [t[h.key] EXCEPT !.state = "queued", !.delayed = d,
                         !.attempts = tries] \in Row
    BY <1>1, <1>2 DEF Row, State
  <1>4. [t EXCEPT ![h.key] = [@ EXCEPT !.state = "queued", !.delayed = d,
                                       !.attempts = tries]] \in Table
    BY <1>1, <1>3 DEF Table
  <1>5. QED
    BY <1>4 DEF Release, tries

\* Job.park() keeps the table well-formed.
LEMMA ParkType ==
    ASSUME NEW t \in Table, NEW h \in Handle
    PROVE  Park(t, h) \in Table
  <1>1. Counted(h.attempts) \in 0 .. AttemptCap
    BY CountedType DEF Handle
  <1>2. QED
    BY <1>1 DEF Park, Exists, Table, Row, State, Handle

\* release_all() keeps the table well-formed.
LEMMA ReleaseAllType ==
    ASSUME NEW t \in Table
    PROVE  ReleaseAll(t) \in Table
  BY DEF ReleaseAll, Exists, Table, Row, State

\* The passing of time keeps the table well-formed.
LEMMA TimeType ==
    ASSUME NEW t \in Table, NEW j \in Job
    PROVE  DelayOver(t, j) \in Table /\ IntervalOver(t, j) \in Table
  BY DEF DelayOver, IntervalOver, Table, Row
-----------------------------------------------------------------------------
(* What the operations do to the state of each row                         *)

\* add_job() adds a row that is waiting, if there is none.
LEMMA AddJobState ==
    ASSUME NEW t \in Table, NEW j \in Job, NEW id \in Nat, NEW d \in BOOLEAN,
           NEW i \in Job
    PROVE  AddJob(t, j, id, d)[i].state =
               IF i = j /\ t[j].state = "absent" THEN "queued" ELSE t[i].state
  <1>1. [NoRow EXCEPT !.state = "queued", !.id = id, !.delayed = d].state
            = "queued"
    BY DEF NoRow
  <1>2. QED
    BY <1>1 DEF AddJob, Exists, Table

\* claim() claims one row.
LEMMA ClaimState ==
    ASSUME NEW t \in Table, NEW h \in Handle, NEW i \in Job
    PROVE  Claim(t, h)[i].state =
               IF i = h.key THEN "claimed" ELSE t[i].state
  <1> DEFINE row == [t[h.key] EXCEPT !.state = "claimed",
                                     !.resting = h.key \in Recurring]
  <1>1. h.key \in Job /\ t[h.key] \in Row
    BY DEF Table, Handle
  <1>2. row.state = "claimed"
    BY <1>1 DEF Row
  <1>3. Claim(t, h) = [t EXCEPT ![h.key] = row]
    BY DEF Claim
  <1> HIDE DEF row
  <1>4. QED
    BY <1>1, <1>2, <1>3 DEF Table

\* finish() deletes a row, or makes one that recurs claimable.
LEMMA FinishState ==
    ASSUME NEW t \in Table, NEW h \in Handle, NEW d \in BOOLEAN, NEW i \in Job
    PROVE  /\ i # h.key => Finish(t, h, d)[i].state = t[i].state
           /\ Finish(t, h, d)[h.key].state \in {"absent", "queued"}
           /\ t[h.key].state = "absent" =>
                  Finish(t, h, d)[h.key].state = "absent"
           /\ d => Finish(t, h, d)[h.key].state = "absent"
  <1> DEFINE row == [t[h.key] EXCEPT !.state = "queued", !.attempts = 0]
  <1>1. h.key \in Job /\ t[h.key] \in Row
    BY DEF Table, Handle
  <1>2. row.state = "queued" /\ NoRow.state = "absent"
    BY <1>1 DEF Row, NoRow
  <1>3. \/ Finish(t, h, d) = [t EXCEPT ![h.key] = NoRow]
        \/ /\ ~d /\ t[h.key].state # "absent"
           /\ Finish(t, h, d) = [t EXCEPT ![h.key] = row]
        \/ ~d /\ t[h.key].state = "absent" /\ Finish(t, h, d) = t
    BY DEF Finish, Exists
  <1> HIDE DEF row
  <1>4. QED
    BY <1>1, <1>2, <1>3 DEF Table

\* release() makes a row claimable, if it is there.
LEMMA ReleaseState ==
    ASSUME NEW t \in Table, NEW h \in Handle, NEW d \in BOOLEAN,
           NEW inc \in BOOLEAN, NEW i \in Job
    PROVE  Release(t, h, d, inc)[i].state =
               IF i = h.key /\ t[i].state # "absent" THEN "queued"
                                                     ELSE t[i].state
  <1> DEFINE tries == IF inc THEN Counted(h.attempts) ELSE t[h.key].attempts
             row == [t[h.key] EXCEPT !.state = "queued", !.delayed = d,
                                     !.attempts = tries]
  <1>1. h.key \in Job /\ t[h.key] \in Row
    BY DEF Table, Handle
  <1>2. row.state = "queued"
    BY <1>1 DEF Row
  <1>3. Release(t, h, d, inc) =
            IF t[h.key].state # "absent" THEN [t EXCEPT ![h.key] = row] ELSE t
    BY DEF Release, Exists
  <1> HIDE DEF row
  <1>4. QED
    BY <1>1, <1>2, <1>3 DEF Table

\* park() parks a row, if it is there.
LEMMA ParkState ==
    ASSUME NEW t \in Table, NEW h \in Handle, NEW i \in Job
    PROVE  Park(t, h)[i].state =
               IF i = h.key /\ t[i].state # "absent" THEN "parked"
                                                     ELSE t[i].state
  <1> DEFINE row == [t[h.key] EXCEPT !.state = "parked",
                                     !.attempts = Counted(h.attempts)]
  <1>1. h.key \in Job /\ t[h.key] \in Row
    BY DEF Table, Handle
  <1>2. row.state = "parked"
    BY <1>1 DEF Row
  <1>3. Park(t, h) =
            IF t[h.key].state # "absent" THEN [t EXCEPT ![h.key] = row] ELSE t
    BY DEF Park, Exists
  <1> HIDE DEF row
  <1>4. QED
    BY <1>1, <1>2, <1>3 DEF Table

\* release_all() makes every row claimable.
LEMMA ReleaseAllState ==
    ASSUME NEW t \in Table, NEW i \in Job
    PROVE  ReleaseAll(t)[i].state =
               IF t[i].state # "absent" THEN "queued" ELSE "absent"
  <1>1. [t[i] EXCEPT !.state = "queued"].state = "queued"
    BY DEF Table, Row
  <1>2. QED
    BY <1>1 DEF ReleaseAll, Exists

\* The passing of time leaves rows their states.
LEMMA TimeState ==
    ASSUME NEW t \in Table, NEW j \in Job, NEW i \in Job
    PROVE  /\ DelayOver(t, j)[i].state = t[i].state
           /\ IntervalOver(t, j)[i].state = t[i].state
  BY DEF DelayOver, IntervalOver, Table, Row
=============================================================================
