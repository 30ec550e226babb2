----------------------------- MODULE Annotations -----------------------------
(***************************************************************************)
(* Annotating the items of a dataset: Explorer pages, processors, deletion.*)
(*                                                                         *)
(* A dataset's annotation fields are one JSON column of its row.  Explorer *)
(* pages, processors, the result page's label editor and the deletion of a *)
(* child dataset all read that column, change their copy and write all of  *)
(* it back.  The annotations are rows of their own, here those of a single *)
(* item: one for each field.  A page sends every annotation edited since it*)
(* was loaded three seconds after the last edit; fields that people make   *)
(* are random identifiers, fields that a processor makes are named by the  *)
(* dataset that the processor writes.                                      *)
(*                                                                         *)
(* Labels, authors and metadata are left out, and so is the question that  *)
(* is put to the user before fields are deleted: a user who declines has   *)
(* done nothing.  Of options there is that they may have been changed, and *)
(* what then becomes of the values that people have chosen from them.      *)
(***************************************************************************)
EXTENDS Integers, Sequences, SequencesExt

CONSTANTS
    Page,           \* browser pages that have the dataset's Explorer open
    UserField,      \* fields that can be added in an Explorer page
    Child,          \* child datasets whose processors annotate, each one field
    Hidden,         \* those of them that hide their field in the Explorer
    Kind,           \* kinds of fields in use: "text", "dropdown", "checkbox"
    Editor,         \* pages that change the fields
    Edits,          \* the fields whose annotations a page's user edits
    Given,          \* the fields that people have made before
    Failures,       \* requests and processors may fail
    MaxEdits,       \* bound: edits of an annotation
    MaxInFlight,    \* bound: saves of a page that the server has yet to do
    MaxApplies      \* bound: times that fields are changed or relabelled

ASSUME AnnotationsAssumption ==
    /\ UserField \cap Child = {}
    /\ Hidden \subseteq Child
    /\ Kind \subseteq {"text", "dropdown", "checkbox"}
    /\ Editor \subseteq Page
    /\ Edits \in [Page -> SUBSET UserField]
    /\ Given \in [UserField -> {"none"} \cup Kind]
    /\ Failures \in BOOLEAN
    /\ MaxEdits \in Nat
    /\ MaxInFlight \in Nat
    /\ MaxApplies \in Nat

VARIABLES
    annotation_fields,  \* the column: what each field is, or "none"
    annotations,        \* the rows: the value for each field, or NoRow
    page,               \* the pages, see PageState
    saves,              \* saves[p]: annotations sent, not yet all written
    apply,              \* apply[p]: the fields p has sent, see Application
    relabel,            \* the label editor: whether it has read the fields
    processor,          \* processor[c]: the one that makes dataset c
    deletion,           \* deletion[c]: how far DataSet.delete() is with c
    edits, applies,     \* counters; an edit's number is the value entered
    history             \* history of user fields: "new", "added", or "altered":
                        \* with annotations deleted or rewritten as it changed

vars == <<annotation_fields, annotations, page, saves, apply, relabel,
          processor, deletion, edits, applies, history>>

Field == UserField \cup Child

\* What a processor computes is 0, the n-th edit enters n; a value is emptied
\* when all options that it consists of are removed
NoRow == -1
Empty == -2
Value == Empty .. MaxEdits

\* A field is absent, made by a person, or has a from_dataset
FieldKind == {"none", "proc"} \cup Kind \cup {"text"}
Fields == [Field -> FieldKind]

\* open: not an error page; fields: as of loading; value: what the user has
\* entered since; edited: the annotations with class "edited"; timer: save_timer
\* is set; outcome: of the last save; touched: history, what has been edited;
\* overlap: history, the last save was sent while another was under way, from
\* here or from before the page was loaded
PageState ==
    [open: BOOLEAN, fields: Fields, value: [UserField -> Value], edited: SUBSET UserField,
     timer: BOOLEAN, outcome: {"none", "saved", "failed"},
     touched: SUBSET UserField, overlap: BOOLEAN]

\* A request: annotations it has yet to write; whether its page is still there
Save ==
    [anns: UNION {[S -> Value] : S \in SUBSET UserField}, heard: BOOLEAN]

\* new: as sent, then completed; old: as read by the request; warned: what the
\* user was told would lose its annotations; options: fields with new options
\* the annotations of which are to be rewritten; values: those read for that
Application ==
    [stage: {"none", "sent", "read", "delete", "options", "reply"},
     new: Fields, old: Fields, warned: SUBSET Field,
     options: SUBSET Field, values: [Field -> Value]]

Processor ==
    [pc: {"queued", "iterating", "computing", "saving", "ended", "failed"},
     cache: Fields, interrupted: BOOLEAN]

Deletion ==
    [stage: {"none", "stop", "rows", "read", "write", "row", "gone"},
     read: Fields]

TypeOK ==
    /\ annotation_fields \in Fields
    /\ annotations \in [Field -> Value]
    /\ page \in [Page -> PageState]
    /\ \A p \in Page : saves[p] \in Seq(Save)
    /\ apply \in [Page -> Application]
    /\ relabel \in [busy: BOOLEAN, read: Fields]
    /\ processor \in [Child -> Processor]
    /\ deletion \in [Child -> Deletion]
    /\ edits \in 0..MaxEdits
    /\ applies \in 0..MaxApplies
    /\ history \in [UserField -> {"new", "added", "altered"}]

NoFields == [f \in Field |-> "none"]
GivenFields == [f \in Field |-> IF f \in UserField THEN Given[f] ELSE "none"]

\* explorer_show_dataset() answers 404 if a field's dataset does not exist
ExplorerOpens ==
    \A c \in Child \ Hidden :
        annotation_fields[c] = "proc" => deletion[c].stage # "gone"

\* A page as the server renders it now
Loaded ==
    [open |-> ExplorerOpens,
     fields |-> [f \in Field |-> IF ~ExplorerOpens \/ f \in Hidden
                                 THEN "none" ELSE annotation_fields[f]],
     value |-> [f \in UserField |-> NoRow],
     edited |-> {}, timer |-> FALSE, outcome |-> "none", touched |-> {},
     overlap |-> FALSE]

Idle == [busy |-> FALSE, read |-> NoFields]

Unread == [f \in Field |-> NoRow]

NotApplying ==
    [stage |-> "none", new |-> NoFields, old |-> NoFields, warned |-> {},
     options |-> {}, values |-> Unread]

Init ==
    /\ annotation_fields = GivenFields
    /\ annotations = [f \in Field |-> NoRow]
    /\ page = [p \in Page |->
            [open |-> TRUE, fields |-> GivenFields,
             value |-> [f \in UserField |-> NoRow],
             edited |-> {}, timer |-> FALSE, outcome |-> "none", touched |-> {},
             overlap |-> FALSE]]
    /\ saves = [p \in Page |-> <<>>]
    /\ apply = [p \in Page |-> NotApplying]
    /\ relabel = Idle
    /\ processor = [c \in Child |->
            [pc |-> "queued", cache |-> NoFields, interrupted |-> FALSE]]
    /\ deletion = [c \in Child |-> [stage |-> "none", read |-> NoFields]]
    /\ edits = 0
    /\ applies = 0
    /\ history = [f \in UserField |->
            IF Given[f] = "none" THEN "new" ELSE "added"]

serverVars == <<annotation_fields, annotations>>
otherVars == <<relabel, processor, deletion>>

-----------------------------------------------------------------------------
(* A page: editing and saving annotations                                  *)

\* Mutant of markChanges: no timer while a save is under way
Mut_markChanges(p, f) ==
    /\ edits < MaxEdits
    /\ f \in Edits[p]
    /\ page[p].fields[f] # "none"
    /\ edits' = edits + 1
    /\ page' = [page EXCEPT ![p].value[f] = edits + 1,
                            ![p].edited = @ \cup {f},
                            ![p].timer = @ \/ saves[p] = <<>>,
                            ![p].touched = @ \cup {f}]
    /\ UNCHANGED <<serverVars, otherVars, saves, apply, applies, history>>

\* The user edits an annotation; the timer is started, or started anew
markChanges(p, f) ==
    /\ edits < MaxEdits
    /\ f \in Edits[p]
    /\ page[p].fields[f] # "none"
    /\ edits' = edits + 1
    /\ page' = [page EXCEPT ![p].value[f] = edits + 1,
                            ![p].edited = @ \cup {f},
                            ![p].timer = TRUE,
                            ![p].touched = @ \cup {f}]
    /\ UNCHANGED <<serverVars, otherVars, saves, apply, applies, history>>

\* What a save sends: all that was ever edited in the page
Edited(p) ==
    [anns |-> [f \in page[p].edited |-> page[p].value[f]], heard |-> TRUE]

\* Mutant of saveAnnotations: what was sent no longer counts as edited
Mut_saveAnnotations(p) ==
    /\ page[p].edited # {}
    /\ Len(saves[p]) < MaxInFlight
    /\ saves' = [saves EXCEPT ![p] = Append(@, Edited(p))]
    /\ page' = [page EXCEPT ![p].timer = FALSE, ![p].edited = {},
                            ![p].overlap = saves[p] # <<>>]
    /\ UNCHANGED <<serverVars, otherVars, apply, edits, applies, history>>

\* Three seconds passed without an edit, or the save button was clicked; the
\* button stops the timer, and a timer that fired is over
saveAnnotations(p) ==
    /\ page[p].edited # {}
    /\ Len(saves[p]) < MaxInFlight
    /\ saves' = [saves EXCEPT ![p] = Append(@, Edited(p))]
    /\ page' = [page EXCEPT ![p].timer = FALSE,
                            ![p].overlap = saves[p] # <<>>]
    /\ UNCHANGED <<serverVars, otherVars, apply, edits, applies, history>>

TimerFires(p) == page[p].timer /\ saveAnnotations(p)

\* A button that is clicked when nothing was edited sends an empty list
SaveButton(p) == saveAnnotations(p)

\* DataSet.save_annotations(): each annotation is read by its field and item,
\* and written; nothing asks whether its field is in the column. The server
\* works on all saves at once, each a request of its own.
WriteAnnotation(p, i, f) ==
    /\ i \in DOMAIN saves[p]
    /\ f \in DOMAIN saves[p][i].anns
    /\ annotations' = [annotations EXCEPT ![f] = saves[p][i].anns[f]]
    /\ saves' = [saves EXCEPT ![p][i].anns = Restrict(@, DOMAIN @ \ {f})]
    /\ UNCHANGED <<otherVars, annotation_fields, page, apply, edits, applies,
                   history>>

SaveAnswered(p, i) ==
    /\ i \in DOMAIN saves[p]
    /\ DOMAIN saves[p][i].anns = {}
    /\ saves' = [saves EXCEPT ![p] = RemoveAt(@, i)]
    /\ page' = [page EXCEPT ![p].outcome =
            IF saves[p][i].heard THEN "saved" ELSE @]
    /\ UNCHANGED <<serverVars, otherVars, apply, edits, applies, history>>

\* The request is lost or ends in an error; what it has written stays
SaveFails(p, i) ==
    /\ Failures
    /\ i \in DOMAIN saves[p]
    /\ saves' = [saves EXCEPT ![p] = RemoveAt(@, i)]
    /\ page' = [page EXCEPT ![p].outcome =
            IF saves[p][i].heard THEN "failed" ELSE @]
    /\ UNCHANGED <<serverVars, otherVars, apply, edits, applies, history>>

\* The page is loaded anew: what it has not sent is lost, and what it has sent
\* is still carried out
Reload(p) ==
    /\ page' = [page EXCEPT ![p] = [Loaded EXCEPT !.overlap = page[p].overlap]]
    /\ saves' = [saves EXCEPT ![p] =
            [i \in DOMAIN @ |-> [@[i] EXCEPT !.heard = FALSE]]]

\* The user does so, whatever the page is waiting for
Load(p) ==
    /\ Reload(p)
    /\ apply[p].stage = "none"
    /\ UNCHANGED <<serverVars, otherVars, apply, edits, applies, history>>

-----------------------------------------------------------------------------
(* A page: changing the fields                                             *)

\* Random identifiers: nobody has or had a field of that name
Fresh(f) == f \in UserField /\ history[f] = "new"

\* What the editor of p may hold: fields of people keep or change their kind,
\* or are new; one may be left out, with its trash icon.  A processor's field
\* has no kind in the editor, and is posted as a text field.
EditorFields(p) ==
    LET shown == page[p].fields IN
    {new \in Fields :
        /\ \A f \in Field : new[f] \in
                CASE shown[f] = "proc" -> {"text", "none"}
                  [] shown[f] \in Kind -> Kind \cup {"none"}
                  [] shown[f] = "none" -> IF Fresh(f) THEN Kind \cup {"none"}
                                                      ELSE {"none"}
                  [] OTHER -> {"text", "none"}
        /\ \A f, g \in Field : shown[f] # "none" /\ new[f] = "none" /\
                               shown[g] # "none" /\ new[g] = "none" => f = g}

Choice == {"dropdown", "checkbox"}

\* Mutant of Affected: only deleted fields are looked for
Mut_Affected(old, new) ==
    {f \in Field : old[f] # "none" /\ new[f] = "none"}

\* Mutant of Affected: only changed fields are looked for
Mut_AffectedChanged(old, new) ==
    {f \in Field :
        /\ old[f] \in Kind /\ new[f] \in Kind
        /\ old[f] # new[f]
        /\ old[f] \in Choice \/ new[f] \in Choice}

\* checkFieldChanges(): fields deleted, or changed to or between choices
Affected(old, new) ==
    {f \in Field :
        \/ old[f] # "none" /\ new[f] = "none"
        \/ /\ old[f] \in Kind /\ new[f] \in Kind
           /\ old[f] # new[f]
           /\ old[f] \in Choice \/ new[f] \in Choice}

\* The user has confirmed, where asked; the bound keeps one request per page
applyAnnotationFields(p, new) ==
    /\ p \in Editor /\ page[p].open
    /\ applies < MaxApplies
    /\ apply[p].stage = "none"
    /\ apply' = [apply EXCEPT ![p] =
            [NotApplying EXCEPT !.stage = "sent", !.new = new,
                                !.warned = Affected(page[p].fields, new)]]
    /\ applies' = applies + 1
    /\ history' = [f \in UserField |->
            IF Fresh(f) /\ new[f] # "none" THEN "added" ELSE history[f]]
    /\ UNCHANGED <<serverVars, otherVars, page, saves, edits>>

\* Mutant of ReadFields: hidden fields are not put back
Mut_ReadFields(p) ==
    /\ apply[p].stage = "sent"
    /\ LET old == annotation_fields IN
       apply' = [apply EXCEPT ![p].stage = "read", ![p].old = old,
            ![p].new = [f \in Field |->
                IF old[f] = "proc" /\ @[f] # "none" THEN "proc" ELSE @[f]]]
    /\ UNCHANGED <<serverVars, otherVars, page, saves, edits, applies, history>>

\* explorer_save_annotation_fields() reads the dataset and puts the hidden
\* fields back; save_annotation_fields() keeps processors' fields as they were
ReadFields(p) ==
    /\ apply[p].stage = "sent"
    /\ LET old == annotation_fields
           kept(f) == \/ f \in Hidden
                      \/ apply[p].new[f] # "none"
       IN  apply' = [apply EXCEPT ![p].stage = "read", ![p].old = old,
                ![p].new = [f \in Field |->
                    IF old[f] = "proc" /\ kept(f) THEN "proc" ELSE @[f]]]
    /\ UNCHANGED <<serverVars, otherVars, page, saves, edits, applies, history>>

Removed(p) == {f \in Field : apply[p].old[f] # "none" /\ apply[p].new[f] = "none"}

\* Only a removed field counts as a change
WriteFields(p) ==
    /\ apply[p].stage = "read"
    /\ annotation_fields' = apply[p].new
    /\ apply' = [apply EXCEPT ![p].stage =
            IF Removed(p) # {} THEN "delete" ELSE "reply"]
    /\ UNCHANGED <<otherVars, annotations, page, saves, edits, applies, history>>

\* update_annotations_via_fields(): the fields whose annotations are deleted
Wiping(p) ==
    Removed(p) \cup
    {f \in Field : /\ {apply[p].old[f], apply[p].new[f]} \subseteq Choice
                   /\ apply[p].old[f] # apply[p].new[f]}

\* Fields that stay what they are, but may have other options than before
Rewritable(p) ==
    {f \in Field : apply[p].old[f] \in Choice /\ apply[p].new[f] = apply[p].old[f]}

\* One DELETE, by the fields' identifiers only: no other dataset has them.
DeleteAnnotations(p) ==
    /\ apply[p].stage = "delete"
    /\ annotations' = [f \in Field |->
            IF f \in Wiping(p) THEN NoRow ELSE annotations[f]]
    /\ history' = [f \in UserField |->
            IF f \in Wiping(p) THEN "altered" ELSE history[f]]
    /\ \E options \in SUBSET Rewritable(p) :
           apply' = [apply EXCEPT ![p].stage =
                         IF options = {} THEN "reply" ELSE "options",
                                  ![p].options = options]
    /\ UNCHANGED <<otherVars, annotation_fields, page, saves, edits, applies>>

\* Where the options have changed, values that are not empty are read...
ReadValue(p, f) ==
    /\ apply[p].stage = "options"
    /\ f \in apply[p].options
    /\ apply[p].values = Unread
    /\ apply' = IF annotations[f] \in {NoRow, Empty}
                THEN [apply EXCEPT ![p].options = @ \ {f}]
                ELSE [apply EXCEPT ![p].values[f] = annotations[f]]
    /\ UNCHANGED <<serverVars, otherVars, page, saves, edits, applies, history>>

\* Mutant of WriteValue: what has been written is written again
Mut_WriteValue(p, f) ==
    /\ apply[p].stage = "options"
    /\ apply[p].values[f] # NoRow
    /\ \E value \in {apply[p].values[f], Empty, annotations[f]} :
           annotations' = IF annotations[f] = NoRow THEN annotations
                          ELSE [annotations EXCEPT ![f] = value]
    /\ history' = [g \in UserField |-> IF g = f THEN "altered" ELSE history[g]]
    /\ apply' = [apply EXCEPT ![p].options = @ \ {f}]
    /\ UNCHANGED <<otherVars, annotation_fields, page, saves, edits, applies>>

\* ... and written back, without the options that were removed, to the row that
\* was read, if that has not been deleted and made again meanwhile
WriteValue(p, f) ==
    /\ apply[p].stage = "options"
    /\ apply[p].values[f] # NoRow
    /\ \E value \in {apply[p].values[f], Empty, annotations[f]} :
           annotations' = IF annotations[f] = NoRow THEN annotations
                          ELSE [annotations EXCEPT ![f] = value]
    /\ history' = [g \in UserField |-> IF g = f THEN "altered" ELSE history[g]]
    /\ apply' = [apply EXCEPT ![p].options = @ \ {f}, ![p].values = Unread]
    /\ UNCHANGED <<otherVars, annotation_fields, page, saves, edits, applies>>

OptionsUpdated(p) ==
    /\ apply[p].stage = "options"
    /\ apply[p].options = {}
    /\ apply' = [apply EXCEPT ![p].stage = "reply"]
    /\ UNCHANGED <<serverVars, otherVars, page, saves, edits, applies, history>>

\* The page reloads itself
Applied(p) ==
    /\ apply[p].stage = "reply"
    /\ apply' = [apply EXCEPT ![p] = NotApplying]
    /\ Reload(p)
    /\ UNCHANGED <<serverVars, otherVars, edits, applies, history>>

\* The request fails, and the page is not reloaded; what has been written stays.
\* A value, of whatever item, that is not one of the old options (it was entered
\* as text, or before its option was renamed) ends it in an IndexError.
ApplyFails(p) ==
    /\ apply[p].stage # "none"
    /\ Failures \/ apply[p].stage = "options"
    /\ apply' = [apply EXCEPT ![p] = NotApplying]
    /\ UNCHANGED <<serverVars, otherVars, page, saves, edits, applies, history>>

\* explorer_save_annotation_label(), from the result page: only the label is
\* changed, but all of the column is read and written
ReadForLabel ==
    /\ ~relabel.busy
    /\ applies < MaxApplies
    /\ \E f \in Field : annotation_fields[f] # "none"
    /\ relabel' = [busy |-> TRUE, read |-> annotation_fields]
    /\ applies' = applies + 1
    /\ UNCHANGED <<serverVars, page, saves, apply, processor, deletion, edits,
                   history>>

WriteLabel ==
    /\ relabel.busy
    /\ annotation_fields' = relabel.read
    /\ relabel' = Idle
    /\ UNCHANGED <<annotations, page, saves, apply, processor, deletion,
                   edits, applies, history>>

-----------------------------------------------------------------------------
(* Processors that annotate                                                *)

pageVars == <<page, saves, apply, relabel, edits, applies, history>>

Stopped(pc) == [pc |-> pc, cache |-> NoFields, interrupted |-> FALSE]

Running(c) == processor[c].pc \in {"iterating", "computing", "saving"}

\* The source dataset is read once, with its fields
StartProcessor(c) ==
    /\ processor[c].pc = "queued"
    /\ processor' = [processor EXCEPT ![c].pc = "iterating",
                                      ![c].cache = annotation_fields]
    /\ UNCHANGED <<pageVars, annotation_fields, annotations, deletion>>

\* The next item: an interrupted processor stops there and cleans up
NextItem(c) ==
    /\ processor[c].pc = "iterating"
    /\ IF processor[c].interrupted
       THEN /\ annotations' = [annotations EXCEPT ![c] = NoRow]
            /\ processor' = [processor EXCEPT ![c] = Stopped("failed")]
       ELSE /\ processor' = [processor EXCEPT ![c].pc = "computing"]
            /\ UNCHANGED annotations
    /\ UNCHANGED <<pageVars, annotation_fields, deletion>>

\* save_annotations(): a batch, with this item or with others only
SaveBatch(c) ==
    /\ processor[c].pc = "computing"
    /\ processor' = [processor EXCEPT ![c].pc = "saving", ![c].cache[c] = "proc"]
    /\ \/ annotations' = [annotations EXCEPT ![c] = 0]
       \/ UNCHANGED annotations
    /\ UNCHANGED <<pageVars, annotation_fields, deletion>>

\* and the fields as the processor knows them
SaveFields(c) ==
    /\ processor[c].pc = "saving"
    /\ annotation_fields' = processor[c].cache
    /\ processor' = [processor EXCEPT ![c].pc = "iterating"]
    /\ UNCHANGED <<pageVars, annotations, deletion>>

\* No items are left, so nothing asks whether it is interrupted
FinishProcessor(c) ==
    /\ processor[c].pc = "iterating"
    /\ processor[c].cache[c] = "proc"
    /\ processor' = [processor EXCEPT ![c] = Stopped("ended")]
    /\ UNCHANGED <<pageVars, annotation_fields, annotations, deletion>>

\* An exception: clean_up_on_error() deletes the annotations, not the field
ProcessorFails(c) ==
    /\ Failures
    /\ processor[c].pc = "computing"
    /\ annotations' = [annotations EXCEPT ![c] = NoRow]
    /\ processor' = [processor EXCEPT ![c] = Stopped("failed")]
    /\ UNCHANGED <<pageVars, annotation_fields, deletion>>

-----------------------------------------------------------------------------
(* DataSet.delete() of a child                                             *)

\* Mutant of StopWorker: a state that the others do not know
Mut_StopWorker(c) ==
    /\ deletion[c].stage = "none"
    /\ deletion' = [deletion EXCEPT ![c].stage = "rows"]
    /\ processor' = [processor EXCEPT ![c].pc = "interrupted"]
    /\ UNCHANGED <<pageVars, annotation_fields, annotations>>

\* The worker is asked to stop, or its job is removed from the queue
StopWorker(c) ==
    /\ deletion[c].stage = "none"
    /\ deletion' = [deletion EXCEPT ![c].stage = "rows"]
    /\ processor' = [processor EXCEPT ![c] =
            IF Running(c) THEN [@ EXCEPT !.interrupted = TRUE]
            ELSE IF @.pc = "queued" THEN Stopped("failed") ELSE @]
    /\ UNCHANGED <<pageVars, annotation_fields, annotations>>

DeleteRows(c) ==
    /\ deletion[c].stage = "rows"
    /\ annotations' = [annotations EXCEPT ![c] = NoRow]
    /\ deletion' = [deletion EXCEPT ![c].stage = "read"]
    /\ UNCHANGED <<pageVars, annotation_fields, processor>>

\* get_genealogy(update_cache=True) reads the annotated dataset
ReadRelated(c) ==
    /\ deletion[c].stage = "read"
    /\ deletion' = [deletion EXCEPT ![c] =
            IF annotation_fields[c] = "proc"
            THEN [stage |-> "write",
                  read |-> [annotation_fields EXCEPT ![c] = "none"]]
            ELSE [stage |-> "row", read |-> NoFields]]
    /\ UNCHANGED <<pageVars, annotation_fields, annotations, processor>>

\* Not a change either: save_annotation_fields() is given its own fields
RemoveField(c) ==
    /\ deletion[c].stage = "write"
    /\ annotation_fields' = deletion[c].read
    /\ deletion' = [deletion EXCEPT ![c] = [stage |-> "row", read |-> NoFields]]
    /\ UNCHANGED <<pageVars, annotations, processor>>

DeleteDataset(c) ==
    /\ deletion[c].stage = "row"
    /\ deletion' = [deletion EXCEPT ![c].stage = "gone"]
    /\ UNCHANGED <<pageVars, annotation_fields, annotations, processor>>

-----------------------------------------------------------------------------
SaveStep(p) ==
    \/ \E i \in 1..MaxInFlight, f \in UserField : WriteAnnotation(p, i, f)
    \/ \E i \in 1..MaxInFlight : SaveAnswered(p, i)

PageStep(p) ==
    \/ \E f \in UserField : markChanges(p, f)
    \/ TimerFires(p)
    \/ SaveButton(p)
    \/ SaveStep(p)
    \/ \E i \in 1..MaxInFlight : SaveFails(p, i)
    \/ Load(p)

FieldsStep(p) ==
    \/ \E new \in EditorFields(p) : applyAnnotationFields(p, new)
    \/ ReadFields(p)
    \/ WriteFields(p)
    \/ DeleteAnnotations(p)
    \/ \E f \in Field : ReadValue(p, f) \/ WriteValue(p, f)
    \/ OptionsUpdated(p)
    \/ Applied(p)
    \/ ApplyFails(p)

ProcessorStep(c) ==
    \/ StartProcessor(c)
    \/ NextItem(c)
    \/ SaveBatch(c)
    \/ SaveFields(c)
    \/ FinishProcessor(c)
    \/ ProcessorFails(c)

DeletionStep(c) ==
    \/ StopWorker(c)
    \/ DeleteRows(c)
    \/ ReadRelated(c)
    \/ RemoveField(c)
    \/ DeleteDataset(c)

Next ==
    \/ \E p \in Page : PageStep(p) \/ FieldsStep(p)
    \/ ReadForLabel
    \/ WriteLabel
    \/ \E c \in Child : ProcessorStep(c) \/ DeletionStep(c)

Spec == Init /\ [][Next]_vars

\* Timers fire and the server answers; nobody has to do anything else
FairSpec ==
    /\ Spec
    /\ \A p \in Page : WF_vars(TimerFires(p)) /\ WF_vars(SaveStep(p))

-----------------------------------------------------------------------------
(* Properties                                                              *)

Quiet(p) == ~page[p].timer /\ saves[p] = <<>>

\* A page that waits for nothing and whose last save did not fail shows what is
\* stored: every annotation edited since it was loaded is in the database, save
\* where somebody has changed its field so that it was deleted or rewritten, or
\* where the page sent its last save while the one before was under way: these
\* may end in any order (see SavedIsStored).  (markChanges, startSaveTimer and
\* saveAnnotations of explorer.js.)
QuietIsSaved ==
    \A p \in Page :
        Quiet(p) /\ page[p].outcome # "failed" /\ ~page[p].overlap =>
            \A f \in page[p].touched :
                annotations[f] = page[p].value[f] \/ history[f] = "altered"

\* Those who may put an older value over a newer one: saves that were under way
\* together, and the rewriting of values when the options of their field change
MayUndo(f) ==
    \/ \E p \in Page : f \in Edits[p] /\ page[p].overlap
    \/ \E p \in Page : f \in apply[p].options

\* No annotation is replaced by an older value for the same field, by anyone
\* else: not by a save that comes late, from before the page was loaded, or
\* after others that failed.
NoStaleOverwrite ==
    [][\A f \in UserField :
          \/ annotations'[f] >= annotations[f]
          \/ annotations'[f] \in {NoRow, Empty}
          \/ MayUndo(f)]_vars

\* Whoever else changes the fields: annotations are about to be deleted without
\* a word only where the column is no longer what the page showed.  What
\* checkFieldChanges() compares covers all that update_annotations_via_fields()
\* deletes, after processors' and hidden fields have been put back.
WarnedUnlessChanged ==
    \A p \in Page : apply[p].stage = "delete" =>
        \A f \in Wiping(p) :
            f \in apply[p].warned \/ apply[p].old[f] # page[p].fields[f]

\* Changing fields in the Explorer never deletes what a hidden field's
\* processor found: the fields that its editor does not show are put back, as
\* explorer_save_annotation_fields() says they have to be
HiddenKept ==
    \A p \in Page : apply[p].stage = "delete" => Wiping(p) \cap Hidden = {}

\* An edit is stored in the end, unless the page is reloaded, a save fails or is
\* sent before the last has been answered, or the field is changed
EditReachesServer ==
    \A p \in Page : \A f \in Edits[p] :
        (f \in page[p].touched /\ annotations[f] # page[p].value[f]) ~>
            \/ f \notin page[p].touched
            \/ annotations[f] = page[p].value[f]
            \/ page[p].outcome = "failed"
            \/ page[p].overlap
            \/ history[f] = "altered"

-----------------------------------------------------------------------------
(* Statements of the code's comments that the code does not keep           *)

\* webtool/static/js/explorer.js, notifySaved(): "the notice that annotations
\* are saved".
SavedIsStored ==
    \A p \in Page : Quiet(p) /\ page[p].outcome = "saved" =>
        \A f \in page[p].touched :
            annotations[f] = page[p].value[f] \/ history[f] = "altered"

\* When annotations are about to be deleted because the fields were changed,
\* the user has been told so of each of their fields (checkFieldChanges), if
\* not on an earlier occasion
WarnedBeforeWiped ==
    \A p \in Page : apply[p].stage = "delete" =>
        \A f \in Wiping(p) :
            \/ annotations[f] = NoRow
            \/ f \in apply[p].warned
            \/ f \in UserField /\ history[f] = "altered"

\* webtool/static/js/explorer.js, saveAnnotationFields(): fields are given "to
\* warn the user if changes to existing fields will affect annotations".
EmptiedAfterWarning ==
    [][\A p \in Page : \A f \in apply[p].options :
          annotations'[f] # Empty \/ annotations[f] = Empty \/ f \in apply[p].warned]_vars

\* What a finished processor found belongs to a field of the dataset
\* (DataSet.save_annotations() says that it adds the field if it is missing)
AnnotationsListed ==
    \A c \in Child :
        processor[c].pc = "ended" /\ deletion[c].stage = "none" =>
            annotation_fields[c] = "proc"

\* What the user was told would be deleted is gone when the page reloads
ToldIsDeleted ==
    \A p \in Page : apply[p].stage = "reply" =>
        \A f \in apply[p].warned : annotations[f] = NoRow
=============================================================================
