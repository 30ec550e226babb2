------------------------------ MODULE QueryForm ------------------------------
(***************************************************************************)
(* The 'Create dataset' page: one form, the server, and what the page does *)
(* to link to a result when there is one.                                  *)
(*                                                                         *)
(* A submission is first sent to be validated, then, if that is what the   *)
(* server says or the user confirms, sent for real.  The server queues a   *)
(* dataset and answers with its key; the page asks every four seconds about*)
(* query_key until it is done.  While it waits the form's fieldsets are    *)
(* disabled: its button is in none of them and can still be clicked.  All  *)
(* of this is asynchronous: any number of submissions, checks and deletions*)
(* may be under way, and their answers come in any order.                  *)
(*                                                                         *)
(* Parameters, status texts and progress are left out, and so is a check   *)
(* that fails: it does what one does that finds the dataset unfinished.    *)
(***************************************************************************)
EXTENDS Integers, FiniteSets

CONSTANTS
    MaxSubmits,     \* bound: times that the form is submitted
    Slot,           \* checks that one interval may be waiting for at a time
    Upload,         \* the form has a file, read before it is validated
    Failures,       \* requests may fail, before or after they are carried out
    Elsewhere       \* others delete datasets and remove data sources

ASSUME QueryFormAssumption ==
    /\ MaxSubmits \in Nat
    /\ IsFiniteSet(Slot)
    /\ Upload \in BOOLEAN
    /\ Failures \in BOOLEAN
    /\ Elsewhere \in BOOLEAN

VARIABLES
    dataset,        \* the server's datasets, by key
    locked,         \* the form's fieldsets are disabled
    buttons,        \* the keys of the 'Cancel' buttons
    reading,        \* submissions whose file is being read
    tries,          \* submissions sent to be validated and not answered
    posts,          \* submissions sent for real that the server has yet to do
    keys,           \* datasets queued, of which the page has not heard
    popup,          \* the popup: what it shows, and what its OK button does
    query_key,      \* the dataset that is asked about, 0 before there is one
    poll_interval,  \* the interval that was set last, 0 before there is one
    intervals,      \* the intervals that fire, by the key they were set for
    checks,         \* the checks under way, by interval: about which dataset
    deletes,        \* requests to delete: "no", "sent", or "answered"
    results,        \* how often a dataset has been linked to; 2 is more than once
    submits         \* counter

formVars == <<locked, buttons>>
requestVars == <<reading, tries, posts, keys>>
pollVars == <<query_key, poll_interval, intervals, checks>>
vars == <<dataset, formVars, requestVars, popup, pollVars, deletes, results,
          submits>>

\* Each dataset comes from a submission or from its repetition
Key == 1..(MaxSubmits + 1)

\* "undefined": the key in an answer that has none
NoKey == MaxSubmits + 2

Asked == Key \cup {NoKey}

NoCheck == [key |-> 0, done |-> FALSE]
NoPopup == [kind |-> "none", key |-> 0]
Alert == [kind |-> "alert", key |-> 0]

TypeOK ==
    /\ dataset \in [Asked -> {"none", "queued", "done", "deleted"}]
    /\ locked \in BOOLEAN
    /\ buttons \subseteq Asked
    /\ reading \in 0..MaxSubmits
    /\ tries \in 0..MaxSubmits
    /\ posts \in 0..(MaxSubmits + 1)
    /\ keys \subseteq Key
    /\ popup \in [kind: {"none", "alert", "start", "delete"}, key: Asked \cup {0}]
    /\ query_key \in Asked \cup {0}
    /\ poll_interval \in Asked \cup {0}
    /\ intervals \subseteq Asked
    /\ checks \in [Asked \X Slot -> [key: Asked \cup {0}, done: BOOLEAN]]
    /\ deletes \in [Asked -> {"no", "sent", "answered"}]
    /\ results \in [Key -> 0..2]
    /\ submits \in 0..MaxSubmits

Init ==
    /\ dataset = [k \in Asked |-> IF k = NoKey THEN "deleted" ELSE "none"]
    /\ locked = FALSE
    /\ buttons = {}
    /\ reading = 0
    /\ tries = 0
    /\ posts = 0
    /\ keys = {}
    /\ popup = NoPopup
    /\ query_key = 0
    /\ poll_interval = 0
    /\ intervals = {}
    /\ checks = [c \in Asked \X Slot |-> NoCheck]
    /\ deletes = [k \in Asked |-> "no"]
    /\ results = [k \in Key |-> 0]
    /\ submits = 0

enable_form == locked' = FALSE /\ UNCHANGED buttons
disable_form == locked' = TRUE /\ UNCHANGED buttons
reset_form == locked' = FALSE /\ buttons' = {}

-----------------------------------------------------------------------------
(* Submitting                                                              *)

\* start() for validation: if there is a file to read, the form is enabled
\* until it has been read
Submit ==
    /\ submits < MaxSubmits
    /\ submits' = submits + 1
    /\ IF Upload
       THEN reading' = reading + 1 /\ enable_form /\ UNCHANGED tries
       ELSE tries' = tries + 1 /\ disable_form /\ UNCHANGED reading
    /\ UNCHANGED <<dataset, posts, keys, popup, pollVars, deletes, results>>

FileRead ==
    /\ reading > 0
    /\ reading' = reading - 1
    /\ \/ tries' = tries + 1 /\ disable_form
       \/ Failures /\ UNCHANGED <<tries, formVars>>
    /\ UNCHANGED <<dataset, posts, keys, popup, pollVars, deletes, results, submits>>

\* start() for real
start == posts' = posts + 1 /\ disable_form

\* The server likes the parameters, or wants them amended, added to or confirmed
Validated ==
    /\ tries > 0
    /\ tries' = tries - 1
    /\ \/ start /\ UNCHANGED popup
       \/ reset_form /\ popup' = Alert /\ UNCHANGED posts
       \/ enable_form /\ UNCHANGED <<popup, posts>>
       \/ enable_form /\ popup' = [kind |-> "start", key |-> 0] /\ UNCHANGED posts
       \/ Failures /\ enable_form /\ popup' = Alert /\ UNCHANGED posts
    /\ UNCHANGED <<dataset, reading, keys, pollVars, deletes, results, submits>>

\* Mutant of Refused: an answer may be handled more than once
Mut_Refused ==
    /\ keys # {}
    /\ posts' = posts - 1
    /\ reset_form /\ popup' = Alert
    /\ UNCHANGED <<dataset, reading, tries, keys, pollVars, deletes, results,
                   submits>>

\* Sent for real, they are validated once more
Refused ==
    /\ posts > 0
    /\ posts' = posts - 1
    /\ \/ reset_form /\ popup' = Alert
       \/ enable_form /\ UNCHANGED popup
       \/ Failures /\ enable_form /\ popup' = Alert
    /\ UNCHANGED <<dataset, reading, tries, keys, pollVars, deletes, results,
                   submits>>

\* queue_dataset() creates the dataset and its job
queue_dataset ==
    /\ posts > 0
    /\ posts' = posts - 1
    /\ \E k \in Key :
        /\ dataset[k] = "none"
        /\ \A j \in 1..(k - 1) : dataset[j] # "none"
        /\ dataset' = [dataset EXCEPT ![k] = "queued"]
        /\ keys' = keys \cup {k}
    /\ UNCHANGED <<formVars, reading, tries, popup, pollVars, deletes, results,
                   submits>>

FreeSlot(i, s) == checks[<<i, s>>] = NoCheck

\* Mutant of Started: the interval that was set before is cleared
Mut_Started(k) ==
    /\ query_key' = k
    /\ poll_interval' = k
    /\ intervals' = (intervals \ {poll_interval}) \cup {k}
    /\ buttons' = buttons \cup {k}
    /\ \E s \in Slot : checks' = [checks EXCEPT ![<<k, s>>].key = k]
    /\ UNCHANGED <<dataset, locked, reading, popup, deletes, results, submits>>

\* An interval that is already set is left as it is, and no longer known
Started(k) ==
    /\ query_key' = k
    /\ poll_interval' = k
    /\ intervals' = intervals \cup {k}
    /\ buttons' = buttons \cup {k}
    /\ \E s \in Slot : checks' = [checks EXCEPT ![<<k, s>>].key = k]
    /\ UNCHANGED <<dataset, locked, reading, popup, deletes, results, submits>>

Accepted(k) ==
    /\ k \in keys
    /\ keys' = keys \ {k}
    /\ Started(k)
    /\ UNCHANGED <<tries, posts>>

\* The data source is not there (any more): an answer without a status is
\* taken for a success.  The bound lets it happen once.
UnknownDatasource ==
    /\ Elsewhere
    /\ NoKey \notin intervals
    /\ \/ tries > 0 /\ tries' = tries - 1 /\ UNCHANGED posts
       \/ posts > 0 /\ posts' = posts - 1 /\ UNCHANGED tries
    /\ \A s \in Slot : FreeSlot(NoKey, s)
    /\ Started(NoKey)
    /\ UNCHANGED keys

\* The dataset has been queued, but the page does not learn its key
AnswerLost(k) ==
    /\ Failures
    /\ k \in keys
    /\ keys' = keys \ {k}
    /\ enable_form
    /\ popup' = Alert
    /\ UNCHANGED <<dataset, reading, tries, posts, pollVars, deletes, results,
                   submits>>

-----------------------------------------------------------------------------
(* Waiting for the result                                                  *)

\* An interval fires: every one of them asks about query_key
check(i) ==
    /\ i \in intervals
    /\ \E s \in Slot :
        /\ FreeSlot(i, s)
        /\ checks' = [checks EXCEPT ![<<i, s>>].key = query_key]
    /\ UNCHANGED <<dataset, formVars, requestVars, popup, query_key,
                   poll_interval, intervals, deletes, results, submits>>

\* The answer that it is not done, or that there is no such dataset, changes
\* nothing
check_dataset(i, s) ==
    LET c == checks[<<i, s>>] IN
    /\ c.key # 0 /\ ~c.done
    /\ checks' = [checks EXCEPT ![<<i, s>>] =
            IF dataset[c.key] = "done" THEN [c EXCEPT !.done = TRUE] ELSE NoCheck]
    /\ UNCHANGED <<dataset, formVars, requestVars, popup, query_key,
                   poll_interval, intervals, deletes, results, submits>>

Linked(k) == [results EXCEPT ![k] = IF @ < 2 THEN @ + 1 ELSE @]

\* Mutant of Complete: the form is left as it is
Mut_Complete(i, s) ==
    LET c == checks[<<i, s>>] IN
    /\ c.done
    /\ checks' = [checks EXCEPT ![<<i, s>>] = NoCheck]
    /\ intervals' = intervals \ {poll_interval}
    /\ results' = Linked(c.key)
    /\ popup' = Alert
    /\ UNCHANGED <<formVars, dataset, requestVars, query_key, poll_interval,
                   deletes, submits>>

\* The dataset is done: the interval that was set last ends, whichever asked
Complete(i, s) ==
    LET c == checks[<<i, s>>] IN
    /\ c.done
    /\ checks' = [checks EXCEPT ![<<i, s>>] = NoCheck]
    /\ intervals' = intervals \ {poll_interval}
    /\ results' = Linked(c.key)
    /\ reset_form
    /\ popup' = Alert
    /\ UNCHANGED <<dataset, requestVars, query_key, poll_interval, deletes,
                   submits>>

-----------------------------------------------------------------------------
(* Cancelling, and the popup                                               *)

\* delete(): asks first
ClickCancel(k) ==
    /\ k \in buttons
    /\ deletes[k] = "no"
    /\ popup' = [kind |-> "delete", key |-> k]
    /\ UNCHANGED <<dataset, formVars, requestVars, pollVars, deletes, results,
                   submits>>

\* Mutant of PopupOK: the popup is not hidden
Mut_PopupOK ==
    /\ \/ popup.kind = "start" /\ start /\ UNCHANGED deletes
       \/ /\ popup.kind = "delete"
          /\ deletes' = [deletes EXCEPT ![popup.key] = "sent"]
          /\ UNCHANGED <<posts, formVars>>
    /\ UNCHANGED <<dataset, reading, tries, keys, pollVars, popup, results,
                   submits>>

\* The callback is called, then the popup is hidden
PopupOK ==
    /\ \/ popup.kind = "start" /\ start /\ UNCHANGED deletes
       \/ /\ popup.kind = "delete"
          /\ deletes' = [deletes EXCEPT ![popup.key] = "sent"]
          /\ UNCHANGED <<posts, formVars>>
    /\ popup' = NoPopup
    /\ UNCHANGED <<dataset, reading, tries, keys, pollVars, results, submits>>

PopupClosed ==
    /\ popup.kind # "none"
    /\ popup' = NoPopup
    /\ UNCHANGED <<dataset, formVars, requestVars, pollVars, deletes, results,
                   submits>>

delete_dataset(k) ==
    /\ deletes[k] = "sent"
    /\ deletes' = [deletes EXCEPT ![k] = "answered"]
    /\ dataset' = [dataset EXCEPT ![k] = "deleted"]
    /\ UNCHANGED <<formVars, requestVars, popup, pollVars, results, submits>>

\* Nothing is done about the interval
Deleted(k) ==
    /\ deletes[k] = "answered"
    /\ deletes' = [deletes EXCEPT ![k] = "no"]
    /\ reset_form
    /\ UNCHANGED <<dataset, requestVars, popup, pollVars, results, submits>>

DeleteFails(k) ==
    /\ Failures
    /\ deletes[k] # "no"
    /\ deletes' = [deletes EXCEPT ![k] = "no"]
    /\ popup' = Alert
    /\ UNCHANGED <<dataset, formVars, requestVars, pollVars, results, submits>>

-----------------------------------------------------------------------------
(* What else happens to datasets                                           *)

Finished(k) ==
    /\ dataset[k] = "queued"
    /\ dataset' = [dataset EXCEPT ![k] = "done"]
    /\ UNCHANGED <<formVars, requestVars, popup, pollVars, deletes, results,
                   submits>>

DeletedElsewhere(k) ==
    /\ Elsewhere
    /\ dataset[k] \in {"queued", "done"}
    /\ dataset' = [dataset EXCEPT ![k] = "deleted"]
    /\ UNCHANGED <<formVars, requestVars, popup, pollVars, deletes, results,
                   submits>>

-----------------------------------------------------------------------------
User ==
    \/ Submit
    \/ PopupOK
    \/ PopupClosed
    \/ \E k \in Asked : ClickCancel(k)

Submission ==
    \/ FileRead
    \/ Validated
    \/ Refused
    \/ UnknownDatasource
    \/ queue_dataset
    \/ \E k \in Key : Accepted(k) \/ AnswerLost(k)

Answered(i) == \E s \in Slot : check_dataset(i, s) \/ Complete(i, s)

Deletion(k) == delete_dataset(k) \/ Deleted(k) \/ DeleteFails(k)

Next ==
    \/ User
    \/ Submission
    \/ \E k \in Asked : check(k) \/ Answered(k) \/ Deletion(k)
    \/ \E k \in Key :
        \/ Finished(k)
        \/ DeletedElsewhere(k)

Spec == Init /\ [][Next]_vars

\* Files are read, intervals fire, the server answers and datasets finish; the
\* user does as he likes, and deletions need not be carried out
FairSpec ==
    /\ Spec
    /\ WF_vars(Submission)
    /\ \A k \in Asked : WF_vars(check(k)) /\ WF_vars(Answered(k))
    /\ \A k \in Key : WF_vars(Finished(k))

-----------------------------------------------------------------------------
(* Properties                                                              *)

Exists(k) == k # 0 /\ dataset[k] \in {"queued", "done"}

\* However often the server asks for confirmation and whatever else the popup
\* is used for meanwhile, no more datasets are queued than were submitted
OneDatasetEach == Cardinality({k \in Key : dataset[k] # "none"}) <= submits

\* The form does not stay disabled, unless there is no such dataset (any more)
\* as the page asks about
FormComesBack ==
    locked ~> (~locked \/ (query_key # 0 /\ ~Exists(query_key)))

\* The dataset that the page asks about is linked to in the end, unless it is
\* deleted, another is submitted, or some result is linked to twice: every
\* answer that a dataset is done ends one interval, the last that was set,
\* whichever was asked, so that none is left for a query only if there have
\* been more such answers than datasets before it (check() in create-dataset.js)
QueryLinked ==
    \A k \in Key :
        (query_key = k) ~>
            \/ results[k] > 0
            \/ dataset[k] = "deleted"
            \/ query_key # k
            \/ \E j \in Key : results[j] > 1

\* The dataset that the page asks about is linked to in the end, unless it is
\* deleted or another is submitted, whatever answers come late
LatestLinked ==
    \A k \in Key :
        (query_key = k) ~> (results[k] > 0 \/ dataset[k] = "deleted" \/ query_key # k)

\* A query that was started is linked to in the end, unless it is deleted
\* (check() is documented to "periodically check its status and link to result
\* when available")
AllLinked ==
    \A k \in Key : (query_key = k) ~> (results[k] > 0 \/ dataset[k] = "deleted")

\* A result is linked to once
LinkedOnce == \A k \in Key : results[k] < 2

\* The form is disabled while a query is active (the comment on disable_form())
LockedWhileActive ==
    Exists(query_key) /\ dataset[query_key] = "queued" => locked

=============================================================================
