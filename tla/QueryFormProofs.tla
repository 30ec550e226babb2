---------------------------- MODULE QueryFormProofs ----------------------------
(***************************************************************************)
(* Theorems about QueryForm for any number of submissions and of checks    *)
(* under way: its types, and that no submission queues two datasets.       *)
(***************************************************************************)
EXTENDS QueryForm, FiniteSetTheorems, TLAPS

-----------------------------------------------------------------------------
(* The invariant                                                           *)

Popups == [kind: {"none", "alert", "start", "delete"}, key: Asked \cup {0}]
Check == [key: Asked \cup {0}, done: BOOLEAN]
Checks == [Asked \X Slot -> Check]

\* TypeOK without the bounds on what is under way, which follow from Counted
Types ==
    /\ dataset \in [Asked -> {"none", "queued", "done", "deleted"}]
    /\ locked \in BOOLEAN
    /\ buttons \subseteq Asked
    /\ reading \in Nat
    /\ tries \in Nat
    /\ posts \in Nat
    /\ keys \subseteq Key
    /\ popup \in Popups
    /\ query_key \in Asked \cup {0}
    /\ poll_interval \in Asked \cup {0}
    /\ intervals \subseteq Asked
    /\ checks \in Checks
    /\ deletes \in [Asked -> {"no", "sent", "answered"}]
    /\ results \in [Key -> 0..2]
    /\ submits \in 0..MaxSubmits

\* The page knows no dataset, and deletes none, that was not queued.
Met(k) == dataset[k] # "none"

Known ==
    /\ Met(NoKey)
    /\ \A k \in keys \cup buttons : Met(k)
    /\ popup.kind = "delete" => popup.key \in Asked /\ Met(popup.key)
    /\ \A k \in Asked : deletes[k] # "no" => Met(k)

\* Every submission is read, validated, confirmed, sent for real, or has become
\* a dataset: it is in one of these places at most.
Queued == {k \in Key : Met(k)}
Confirming == IF popup.kind = "start" THEN 1 ELSE 0

Counted ==
    reading + tries + posts + Confirming + Cardinality(Queued) <= submits

FormInv == Types /\ Known /\ Counted

LEMMA KeyFacts ==
    /\ Key \subseteq Asked /\ NoKey \in Asked /\ NoKey \notin Key /\ 0 \notin Asked
    /\ Key \subseteq Nat /\ IsFiniteSet(Key)
  <1>1. MaxSubmits \in Nat
    BY QueryFormAssumption
  <1>2. IsFiniteSet(1..(MaxSubmits + 1))
    BY <1>1, FS_Interval
  <1>3. QED
    BY <1>1, <1>2 DEF Key, NoKey, Asked

LEMMA QueuedFinite == IsFiniteSet(Queued) /\ Cardinality(Queued) \in Nat
  <1>1. IsFiniteSet(Queued)
    BY KeyFacts, FS_Subset DEF Queued
  <1>2. QED
    BY <1>1, FS_CardinalityType

LEMMA PopupType ==
    /\ NoPopup \in Popups /\ Alert \in Popups
    /\ [kind |-> "start", key |-> 0] \in Popups
    /\ \A k \in Asked : [kind |-> "delete", key |-> k] \in Popups
  BY DEF NoPopup, Alert, Popups

LEMMA FormInit == Init => FormInv
  <1> SUFFICES ASSUME Init PROVE FormInv
    OBVIOUS
  <1>1. MaxSubmits \in Nat
    BY QueryFormAssumption
  <1>2. Types
    <2>1. dataset \in [Asked -> {"none", "queued", "done", "deleted"}]
      BY DEF Init
    <2>2. checks \in Checks
      BY DEF Init, Checks, Check, NoCheck
    <2>3. popup \in Popups
      BY PopupType DEF Init
    <2>4. deletes \in [Asked -> {"no", "sent", "answered"}]
      BY DEF Init
    <2>5. results \in [Key -> 0..2]
      BY DEF Init
    <2>6. submits \in 0..MaxSubmits
      BY <1>1 DEF Init
    <2>7. QED
      BY <2>1, <2>2, <2>3, <2>4, <2>5, <2>6 DEF Init, Types
  <1>3. Known
    BY KeyFacts DEF Init, Known, Met, NoPopup
  <1>4. Queued = {}
    BY KeyFacts DEF Init, Queued, Met
  <1>5. Cardinality(Queued) = 0
    BY <1>4, FS_EmptySet
  <1>6. Counted
    BY <1>5 DEF Init, Counted, Confirming, NoPopup
  <1>7. QED
    BY <1>2, <1>3, <1>6 DEF FormInv

-----------------------------------------------------------------------------
(* The types                                                               *)

LEMMA CheckType ==
    ASSUME NEW c \in Checks, NEW i \in Asked, NEW s \in Slot
    PROVE  /\ c[<<i, s>>] \in Check
           /\ NoCheck \in Check
           /\ \A k \in Asked \cup {0} : [c EXCEPT ![<<i, s>>].key = k] \in Checks
           /\ \A d \in Check : [c EXCEPT ![<<i, s>>] = d] \in Checks
  BY DEF Check, Checks, NoCheck

\* Submitting
LEMMA TypesSubmission ==
    ASSUME Types, Submit \/ Submission
    PROVE  Types'
  <1> USE KeyFacts, QueryFormAssumption
      DEF enable_form, disable_form, reset_form, formVars, pollVars, requestVars
  <1>1. CASE Submit
    <2>1. submits' \in 0..MaxSubmits /\ reading' \in Nat /\ tries' \in Nat
      BY <1>1 DEF Submit, Types
    <2>2. QED
      BY <1>1, <2>1 DEF Submit, Types
  <1>2. CASE FileRead
    <2>1. reading' \in Nat /\ tries' \in Nat
      BY <1>2 DEF FileRead, Types
    <2>2. QED
      BY <1>2, <2>1 DEF FileRead, Types
  <1>3. CASE Validated
    <2>1. tries' \in Nat /\ posts' \in Nat
      BY <1>3 DEF Validated, start, Types
    <2>2. popup' \in Popups /\ locked' \in BOOLEAN /\ buttons' \subseteq Asked
      BY <1>3, PopupType DEF Validated, start, Types
    <2>3. QED
      BY <1>3, <2>1, <2>2 DEF Validated, Types
  <1>4. CASE Refused
    <2>1. posts' \in Nat
      BY <1>4 DEF Refused, Types
    <2>2. popup' \in Popups /\ locked' \in BOOLEAN /\ buttons' \subseteq Asked
      BY <1>4, PopupType DEF Refused, Types
    <2>3. QED
      BY <1>4, <2>1, <2>2 DEF Refused, Types
  <1>5. CASE queue_dataset
    BY <1>5 DEF queue_dataset, Types
  <1>6. ASSUME NEW k \in Asked, Started(k), tries' \in Nat, posts' \in Nat,
               keys' \subseteq Key
        PROVE  Types'
    <2>1. PICK s \in Slot : checks' = [checks EXCEPT ![<<k, s>>].key = k]
      BY <1>6 DEF Started
    <2>2. checks' \in Checks
      BY <2>1, CheckType DEF Types
    <2>3. QED
      BY <1>6, <2>2 DEF Started, Types
  <1>7. ASSUME NEW k \in Key, Accepted(k) PROVE Types'
    BY <1>6, <1>7 DEF Accepted, Types
  <1>8. CASE UnknownDatasource
    BY <1>6, <1>8 DEF UnknownDatasource, Types
  <1>9. ASSUME NEW k \in Key, AnswerLost(k) PROVE Types'
    BY <1>9, PopupType DEF AnswerLost, Types
  <1>10. QED
    BY <1>1, <1>2, <1>3, <1>4, <1>5, <1>7, <1>8, <1>9 DEF Submission

\* Waiting for the result
LEMMA TypesWaiting ==
    ASSUME Types, NEW i \in Asked, check(i) \/ Answered(i)
    PROVE  Types'
  <1> USE KeyFacts DEF reset_form, formVars, requestVars
  <1>1. CASE check(i)
    <2>1. PICK s \in Slot : checks' = [checks EXCEPT ![<<i, s>>].key = query_key]
      BY <1>1 DEF check
    <2>2. checks' \in Checks
      BY <2>1, CheckType DEF Types
    <2>3. QED
      BY <1>1, <2>2 DEF check, Types
  <1>2. ASSUME NEW s \in Slot, check_dataset(i, s) PROVE Types'
    <2> DEFINE c == checks[<<i, s>>]
               d == IF dataset[c.key] = "done" THEN [c EXCEPT !.done = TRUE]
                                               ELSE NoCheck
    <2>1. checks' = [checks EXCEPT ![<<i, s>>] = d]
      BY <1>2 DEF check_dataset
    <2>2. c \in Check /\ NoCheck \in Check
      BY CheckType DEF Types
    <2> HIDE DEF c
    <2>3. d \in Check
      BY <2>2 DEF Check
    <2> HIDE DEF d
    <2>4. checks' \in Checks
      BY <2>1, <2>3, CheckType DEF Types
    <2>5. QED
      BY <1>2, <2>4 DEF check_dataset, Types
  <1>3. ASSUME NEW s \in Slot, Complete(i, s) PROVE Types'
    <2>1. checks' = [checks EXCEPT ![<<i, s>>] = NoCheck]
      BY <1>3 DEF Complete
    <2>2. checks' \in Checks
      BY <2>1, CheckType DEF Types
    <2>3. \E k : results' = Linked(k)
      BY <1>3 DEF Complete
    <2>4. results' \in [Key -> 0..2]
      <3>1. PICK k : results' = Linked(k)
        BY <2>3
      <3>2. results \in [Key -> 0..2]
        BY DEF Types
      <3>3. CASE k \in Key
        <4>1. (IF results[k] < 2 THEN results[k] + 1 ELSE results[k]) \in 0..2
          BY <3>2, <3>3
        <4>2. QED
          BY <3>1, <3>2, <4>1 DEF Linked
      <3>4. CASE k \notin Key
        BY <3>1, <3>2, <3>4 DEF Linked
      <3>5. QED
        BY <3>3, <3>4
    <2>5. QED
      BY <1>3, <2>2, <2>4, PopupType DEF Complete, Types
  <1>4. QED
    BY <1>1, <1>2, <1>3 DEF Answered

\* Cancelling, the popup, and what else happens to datasets
LEMMA TypesOther ==
    ASSUME Types, NEW k \in Asked,
           \/ ClickCancel(k) \/ PopupOK \/ PopupClosed
           \/ Deletion(k) \/ Finished(k) \/ DeletedElsewhere(k)
    PROVE  Types'
  <1> USE KeyFacts, PopupType
      DEF reset_form, disable_form, formVars, requestVars, pollVars
  <1>1. CASE ClickCancel(k)
    BY <1>1 DEF ClickCancel, Types
  <1>2. CASE PopupOK
    <2>1. posts' \in Nat
      BY <1>2 DEF PopupOK, start, Types
    <2>a. locked' \in BOOLEAN
      BY <1>2 DEF PopupOK, start, Types
    <2>2. deletes' \in [Asked -> {"no", "sent", "answered"}]
      BY <1>2 DEF PopupOK, Types
    <2>3. QED
      BY <1>2, <2>1, <2>a, <2>2 DEF PopupOK, start, Types
  <1>3. CASE PopupClosed
    BY <1>3 DEF PopupClosed, Types
  <1>4. CASE Deletion(k)
    <2>1. /\ dataset' \in [Asked -> {"none", "queued", "done", "deleted"}]
          /\ deletes' \in [Asked -> {"no", "sent", "answered"}]
      BY <1>4 DEF Deletion, delete_dataset, Deleted, DeleteFails, Types
    <2>2. popup' \in Popups /\ locked' \in BOOLEAN /\ buttons' \subseteq Asked
      BY <1>4 DEF Deletion, delete_dataset, Deleted, DeleteFails, Types
    <2>3. QED
      BY <1>4, <2>1, <2>2
      DEF Deletion, delete_dataset, Deleted, DeleteFails, Types
  <1>5. CASE Finished(k) \/ DeletedElsewhere(k)
    BY <1>5 DEF Finished, DeletedElsewhere, Types
  <1>6. QED
    BY <1>1, <1>2, <1>3, <1>4, <1>5

LEMMA TypesNext ==
    ASSUME Types, [Next]_vars
    PROVE  Types'
  <1>1. CASE UNCHANGED vars
    BY <1>1 DEF vars, formVars, requestVars, pollVars, Types
  <1>2. QED
    BY <1>1, KeyFacts, TypesSubmission, TypesWaiting, TypesOther DEF Next, User

-----------------------------------------------------------------------------
(* What the page knows was queued                                          *)

\* A dataset that was queued is never again one that was not.
LEMMA StaysMet ==
    ASSUME Types, [Next]_vars
    PROVE  \A k \in Asked : Met(k) => Met(k)'
  <1> SUFFICES ASSUME NEW k \in Asked, Met(k) PROVE Met(k)'
    OBVIOUS
  <1>0. dataset \in [Asked -> {"none", "queued", "done", "deleted"}]
    BY DEF Types
  <1>1. CASE UNCHANGED dataset
    BY <1>1 DEF Met
  <1>2. CASE queue_dataset
    BY <1>0, <1>2 DEF queue_dataset, Met
  <1>3. ASSUME NEW j \in Asked,
               delete_dataset(j) \/ Finished(j) \/ DeletedElsewhere(j)
        PROVE  Met(k)'
    BY <1>0, <1>3 DEF delete_dataset, Finished, DeletedElsewhere, Met
  <1>4. QED
    BY <1>1, <1>2, <1>3, KeyFacts
    DEF Next, vars, User, Submission, Answered, Deletion, Submit, PopupOK,
        PopupClosed, ClickCancel, FileRead, Validated, Refused,
        UnknownDatasource, Accepted, AnswerLost, Started, check, check_dataset,
        Complete, Deleted, DeleteFails

LEMMA KnownNext ==
    ASSUME Types, Known, [Next]_vars
    PROVE  Known'
  <1>0. /\ \A k \in Asked : Met(k) => Met(k)'
        /\ keys \subseteq Asked /\ buttons \subseteq Asked /\ NoKey \in Asked
        /\ deletes \in [Asked -> {"no", "sent", "answered"}]
    BY StaysMet, KeyFacts DEF Types
  <1>1. ASSUME keys' \subseteq keys, buttons' \subseteq buttons,
               UNCHANGED deletes, popup' = popup \/ popup'.kind # "delete"
        PROVE  Known'
    BY <1>0, <1>1 DEF Known
  <1>2. CASE Submit \/ FileRead \/ Validated \/ Refused
    BY <1>1, <1>2 DEF Submit, FileRead, Validated, Refused, start, enable_form,
                      disable_form, reset_form, formVars, Alert
  <1>3. CASE queue_dataset
    <2>1. PICK k \in Key : /\ dataset' = [dataset EXCEPT ![k] = "queued"]
                           /\ keys' = keys \cup {k}
      BY <1>3 DEF queue_dataset
    <2>2. Met(k)'
      BY <2>1, KeyFacts DEF Types, Met
    <2>3. UNCHANGED <<buttons, popup, deletes>>
      BY <1>3 DEF queue_dataset, formVars
    <2>4. QED
      BY <1>0, <2>1, <2>2, <2>3 DEF Known
  <1>4. ASSUME NEW k \in Asked, Started(k), Met(k), keys' \subseteq keys
        PROVE  Known'
    BY <1>0, <1>4 DEF Started, Known
  <1>5. ASSUME NEW k \in Key, Accepted(k) PROVE Known'
    BY <1>0, <1>4, <1>5 DEF Accepted, Known
  <1>6. CASE UnknownDatasource
    BY <1>0, <1>4, <1>6 DEF UnknownDatasource, Known
  <1>7. ASSUME NEW k \in Key, AnswerLost(k) PROVE Known'
    BY <1>1, <1>7 DEF AnswerLost, enable_form, Alert
  <1>8. ASSUME NEW i \in Asked, check(i) \/ Answered(i) PROVE Known'
    <2>1. CASE check(i)
      BY <1>1, <2>1 DEF check, formVars, requestVars
    <2>2. ASSUME NEW s \in Slot, check_dataset(i, s) PROVE Known'
      BY <1>1, <2>2 DEF check_dataset, formVars, requestVars
    <2>3. ASSUME NEW s \in Slot, Complete(i, s) PROVE Known'
      <3>1. /\ UNCHANGED <<dataset, keys, deletes>> /\ buttons' = {}
            /\ popup'.kind # "delete"
        BY <2>3 DEF Complete, reset_form, requestVars, Alert
      <3>2. QED
        BY <1>1, <3>1
    <2>4. QED
      BY <1>8, <2>1, <2>2, <2>3 DEF Answered
  <1>9. ASSUME NEW k \in Asked, ClickCancel(k) PROVE Known'
    <2>1. popup' = [kind |-> "delete", key |-> k] /\ Met(k)
          /\ UNCHANGED <<keys, buttons, deletes>>
      BY <1>9 DEF ClickCancel, Known, formVars, requestVars
    <2>2. QED
      BY <1>0, <2>1 DEF Known
  <1>10. CASE PopupClosed
    BY <1>1, <1>10 DEF PopupClosed, NoPopup, formVars, requestVars
  <1>11. CASE PopupOK
    <2>1. UNCHANGED <<keys, buttons>> /\ popup'.kind # "delete"
      BY <1>11 DEF PopupOK, start, disable_form, formVars, NoPopup
    <2>2. CASE popup.kind # "delete"
      BY <1>1, <1>11, <2>1, <2>2 DEF PopupOK
    <2>3. CASE popup.kind = "delete"
      <3>1. deletes' = [deletes EXCEPT ![popup.key] = "sent"]
        BY <1>11, <2>3 DEF PopupOK
      <3>2. popup.key \in Asked /\ Met(popup.key)
        BY <2>3 DEF Known
      <3>3. QED
        BY <1>0, <2>1, <3>1, <3>2 DEF Known
    <2>4. QED
      BY <2>2, <2>3
  <1>12. ASSUME NEW k \in Asked, Deletion(k) PROVE Known'
    <2>1. \A j \in Asked : deletes'[j] # "no" => deletes[j] # "no"
      BY <1>0, <1>12 DEF Deletion, delete_dataset, Deleted, DeleteFails
    <2>2. keys' = keys /\ buttons' \subseteq buttons
          /\ (popup' = popup \/ popup'.kind # "delete")
      BY <1>12 DEF Deletion, delete_dataset, Deleted, DeleteFails, reset_form,
                   formVars, requestVars, Alert
    <2>3. QED
      BY <1>0, <2>1, <2>2 DEF Known
  <1>13. ASSUME NEW k \in Key, Finished(k) \/ DeletedElsewhere(k) PROVE Known'
    BY <1>1, <1>13 DEF Finished, DeletedElsewhere, formVars, requestVars
  <1>14. CASE UNCHANGED vars
    BY <1>1, <1>14 DEF vars, formVars, requestVars
  <1>15. QED
    BY <1>2, <1>3, <1>5, <1>6, <1>7, <1>8, <1>9, <1>10, <1>11, <1>12, <1>13,
       <1>14 DEF Next, User, Submission

-----------------------------------------------------------------------------
(* Submissions are in one place at a time                                  *)

\* Whatever happens to datasets that were queued, their number stays.
LEMMA SameQueued ==
    ASSUME \A k \in Key : Met(k)' <=> Met(k)
    PROVE  Cardinality(Queued)' = Cardinality(Queued)
  <1>1. Queued' = Queued
    BY DEF Queued
  <1>2. QED
    BY <1>1

\* All that a step may do to the count.
LEMMA CountStep ==
    ASSUME Types, Types', Counted,
           \A k \in Key : Met(k)' <=> Met(k),
           submits' >= submits,
           reading' + tries' + posts' + Confirming' - submits'
              <= reading + tries + posts + Confirming - submits
    PROVE  Counted'
  <1>1. Cardinality(Queued)' = Cardinality(Queued)
    BY SameQueued
  <1>2. /\ Cardinality(Queued) \in Nat
        /\ {reading, tries, posts, submits} \subseteq Nat
        /\ {reading', tries', posts', submits'} \subseteq Nat
        /\ Confirming \in Nat /\ Confirming' \in Nat
    BY QueuedFinite, QueryFormAssumption DEF Types, Confirming
  <1>3. QED
    BY <1>1, <1>2 DEF Counted

LEMMA CountedNext ==
    ASSUME FormInv, [Next]_vars
    PROVE  Counted'
  <1>0. Types /\ Known /\ Counted /\ Types'
    BY TypesNext DEF FormInv
  <1>a. /\ {reading, tries, posts, submits} \subseteq Nat
        /\ dataset \in [Asked -> {"none", "queued", "done", "deleted"}]
        /\ Confirming \in {0, 1}
    BY <1>0, QueryFormAssumption DEF Types, Confirming
  <1>1. CASE Submit \/ FileRead \/ Validated \/ Refused \/ UnknownDatasource
    <2>1. \A k \in Key : Met(k)' <=> Met(k)
      BY <1>1 DEF Submit, FileRead, Validated, Refused, UnknownDatasource,
                  Started, Met
    <2>2. /\ submits' >= submits
          /\ reading' + tries' + posts' + Confirming' - submits'
                <= reading + tries + posts + Confirming - submits
      BY <1>1, <1>a DEF Submit, FileRead, Validated, Refused,
                  UnknownDatasource, Started, start, Alert, Confirming
    <2>3. QED
      BY <1>0, <2>1, <2>2, CountStep
  <1>2. CASE queue_dataset
    <2>1. PICK k \in Key : /\ ~Met(k)
                           /\ dataset' = [dataset EXCEPT ![k] = "queued"]
      BY <1>2 DEF queue_dataset, Met
    <2>2. Queued' = Queued \cup {k} /\ k \notin Queued
      BY <1>a, <2>1, KeyFacts DEF Queued, Met
    <2>3. Cardinality(Queued') = Cardinality(Queued) + 1
      BY <2>2, QueuedFinite, FS_AddElement
    <2>4. /\ posts' = posts - 1
          /\ UNCHANGED <<reading, tries, popup, submits>>
      BY <1>2 DEF queue_dataset
    <2>5. QED
      BY <1>0, <1>a, <2>3, <2>4, QueuedFinite DEF Counted, Confirming
  <1>3. CASE PopupOK
    <2>1. \A k \in Key : Met(k)' <=> Met(k)
      BY <1>3 DEF PopupOK, Met
    <2>2. /\ submits' >= submits
          /\ reading' + tries' + posts' + Confirming' - submits'
                <= reading + tries + posts + Confirming - submits
      BY <1>3, <1>a DEF PopupOK, start, NoPopup, Confirming
    <2>3. QED
      BY <1>0, <2>1, <2>2, CountStep
  <1>4. ASSUME UNCHANGED <<reading, tries, posts, submits>>,
               popup' = popup \/ popup'.kind # "start",
               \A k \in Key : Met(k)' <=> Met(k)
        PROVE  Counted'
    <2>1. /\ submits' >= submits
          /\ reading' + tries' + posts' + Confirming' - submits'
                <= reading + tries + posts + Confirming - submits
      BY <1>4, <1>a DEF Confirming
    <2>2. QED
      BY <1>0, <1>4, <2>1, CountStep
  <1>5. ASSUME NEW k \in Key, Accepted(k) \/ AnswerLost(k) PROVE Counted'
    BY <1>4, <1>5 DEF Accepted, AnswerLost, Started, Alert, Met
  <1>6. ASSUME NEW i \in Asked, check(i) \/ Answered(i) PROVE Counted'
    <2>1. CASE check(i)
      BY <1>4, <2>1 DEF check, requestVars, Met
    <2>2. ASSUME NEW s \in Slot, check_dataset(i, s) PROVE Counted'
      BY <1>4, <2>2 DEF check_dataset, requestVars, Met
    <2>3. ASSUME NEW s \in Slot, Complete(i, s) PROVE Counted'
      <3>1. /\ UNCHANGED <<dataset, reading, tries, posts, submits>>
            /\ popup'.kind # "start"
        BY <2>3 DEF Complete, requestVars, Alert
      <3>2. QED
        BY <1>4, <3>1 DEF Met
    <2>4. QED
      BY <1>6, <2>1, <2>2, <2>3 DEF Answered
  <1>7. ASSUME NEW k \in Asked, ClickCancel(k) PROVE Counted'
    BY <1>4, <1>7 DEF ClickCancel, requestVars, Met
  <1>8. CASE PopupClosed
    BY <1>4, <1>8 DEF PopupClosed, NoPopup, requestVars, Met
  <1>9. ASSUME NEW k \in Asked,
               delete_dataset(k) \/ Finished(k) \/ DeletedElsewhere(k)
        PROVE  Counted'
    <2>1. Met(k)
      BY <1>0, <1>9 DEF delete_dataset, Finished, DeletedElsewhere, Known, Met
    <2>2. \A j \in Key : Met(j)' <=> Met(j)
      BY <1>9, <1>a, <2>1, KeyFacts
      DEF delete_dataset, Finished, DeletedElsewhere, Met
    <2>3. UNCHANGED <<reading, tries, posts, submits, popup>>
      BY <1>9 DEF delete_dataset, Finished, DeletedElsewhere, requestVars
    <2>4. QED
      BY <1>4, <2>2, <2>3
  <1>10. ASSUME NEW k \in Asked, Deleted(k) \/ DeleteFails(k) PROVE Counted'
    BY <1>4, <1>10 DEF Deleted, DeleteFails, requestVars, Alert, Met
  <1>11. CASE UNCHANGED vars
    BY <1>4, <1>11 DEF vars, requestVars, Met
  <1>12. QED
    BY <1>1, <1>2, <1>3, <1>5, <1>6, <1>7, <1>8, <1>9, <1>10, <1>11, KeyFacts
    DEF Next, User, Submission, Deletion

-----------------------------------------------------------------------------
(* Theorems                                                                *)

LEMMA FormInvariant == Spec => []FormInv
  <1>1. FormInv /\ [Next]_vars => FormInv'
    BY TypesNext, KnownNext, CountedNext DEF FormInv
  <1>2. QED
    BY <1>1, FormInit, PTL DEF Spec

\* What the page, its requests and the server's datasets are keeps its type, and
\* no more is under way than was submitted.
THEOREM FormTypeCorrect == Spec => []TypeOK
  <1>1. FormInv => TypeOK
    <2> SUFFICES ASSUME FormInv PROVE TypeOK
      OBVIOUS
    <2>1. Types /\ Counted /\ Cardinality(Queued) \in Nat /\ MaxSubmits \in Nat
      BY QueuedFinite, QueryFormAssumption DEF FormInv
    <2>2. /\ reading \in 0..MaxSubmits /\ tries \in 0..MaxSubmits
          /\ posts \in 0..(MaxSubmits + 1)
      BY <2>1 DEF Types, Counted, Confirming
    <2>3. QED
      BY <2>1, <2>2 DEF Types, TypeOK, Popups, Checks, Check
  <1>2. QED
    BY <1>1, FormInvariant, PTL

\* However answers, popups and failures interleave, the server never queues more
\* datasets than were submitted.
THEOREM OneDatasetEachAlways == Spec => []OneDatasetEach
  <1>1. FormInv => OneDatasetEach
    <2> SUFFICES ASSUME FormInv PROVE OneDatasetEach
      OBVIOUS
    <2>1. Types /\ Counted /\ Cardinality(Queued) \in Nat
      BY QueuedFinite DEF FormInv
    <2>2. Cardinality(Queued) <= submits
      BY <2>1, QueryFormAssumption DEF Types, Counted, Confirming
    <2>3. QED
      BY <2>2 DEF OneDatasetEach, Queued, Met
  <1>2. QED
    BY <1>1, FormInvariant, PTL
=============================================================================
