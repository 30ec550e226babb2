-------------------------- MODULE AnnotationsProofs --------------------------
(***************************************************************************)
(* Theorems about Annotations for any pages, fields and children: the      *)
(* types; that changing fields never wipes those a page does not show; that*)
(* what a page has edited is stored when it has nothing left to save, and  *)
(* never undone, unless saves of the page overlap or its fields change; and*)
(* that a page is warned of what its changes delete.                       *)
(***************************************************************************)
EXTENDS Annotations, TLAPS

-----------------------------------------------------------------------------
(* The invariant                                                           *)

\* TypeOK, and that each page has its saves
Types ==
    /\ annotation_fields \in Fields
    /\ annotations \in [Field -> Value]
    /\ page \in [Page -> PageState]
    /\ saves \in [Page -> Seq(Save)]
    /\ apply \in [Page -> Application]
    /\ relabel \in [busy: BOOLEAN, read: Fields]
    /\ processor \in [Child -> Processor]
    /\ deletion \in [Child -> Deletion]
    /\ edits \in 0..MaxEdits
    /\ applies \in 0..MaxApplies
    /\ history \in [UserField -> {"new", "added", "altered"}]

\* In every copy of the column a hidden field is absent or its processor's
Plain(fields) == \A h \in Hidden : fields[h] \in {"none", "proc"}

\* No page shows it, and a request that has read it has put it back
Unseen(fields) == \A h \in Hidden : fields[h] = "none"
PutBack(a) == \A h \in Hidden : a.old[h] = "proc" => a.new[h] = "proc"

Copies ==
    /\ Plain(annotation_fields)
    /\ Plain(relabel.read)
    /\ \A c \in Child : Plain(processor[c].cache) /\ Plain(deletion[c].read)
    /\ \A p \in Page :
        /\ Unseen(page[p].fields)
        /\ Plain(apply[p].new)
        /\ Plain(apply[p].old)
        /\ apply[p].stage # "sent" => PutBack(apply[p])

HiddenInv == Types /\ Copies

LEMMA FieldFacts ==
    /\ \A f \in Hidden : f \in Field /\ f \in Child /\ f \notin UserField
    /\ Kind \subseteq FieldKind /\ "none" \in FieldKind /\ "proc" \in FieldKind
    /\ "text" \in FieldKind /\ "none" \notin Kind /\ "proc" \notin Kind
    /\ NoFields \in Fields /\ GivenFields \in Fields
    /\ Unseen(NoFields) /\ Unseen(GivenFields)
    /\ UserField \subseteq Field /\ Child \subseteq Field
  <1>1. \A f \in Hidden : f \in Field /\ f \in Child /\ f \notin UserField
    BY AnnotationsAssumption DEF Field
  <1>2. /\ Kind \subseteq FieldKind /\ "none" \in FieldKind
        /\ "proc" \in FieldKind /\ "text" \in FieldKind
        /\ "none" \notin Kind /\ "proc" \notin Kind
    BY AnnotationsAssumption DEF FieldKind
  <1>3. NoFields \in Fields /\ GivenFields \in Fields
    BY <1>2, AnnotationsAssumption
    DEF NoFields, GivenFields, Fields, FieldKind, Field
  <1>4. Unseen(NoFields) /\ Unseen(GivenFields)
    BY <1>1 DEF Unseen, NoFields, GivenFields
  <1>5. UserField \subseteq Field /\ Child \subseteq Field
    BY DEF Field
  <1>6. QED
    BY <1>1, <1>2, <1>3, <1>4, <1>5

LEMMA ValueFacts ==
    /\ NoRow \in Value /\ Empty \in Value /\ 0 \in Value
    /\ \A e \in 0..MaxEdits :
            e < MaxEdits => e + 1 \in Value /\ e + 1 \in 0..MaxEdits
  BY AnnotationsAssumption DEF NoRow, Empty, Value

\* A page as loaded is one, and shows no hidden field
LEMMA LoadedFacts ==
  ASSUME Types
  PROVE  Loaded \in PageState /\ Unseen(Loaded.fields)
  <1> DEFINE shown == [f \in Field |-> IF ~ExplorerOpens \/ f \in Hidden
                                       THEN "none" ELSE annotation_fields[f]]
  <1>1. shown \in Fields /\ Unseen(shown)
    BY FieldFacts DEF Types, Fields, Unseen
  <1>2. [f \in UserField |-> NoRow] \in [UserField -> Value]
    BY ValueFacts
  <1>3. ExplorerOpens \in BOOLEAN
    BY DEF ExplorerOpens
  <1>4. Loaded.fields = shown
    BY DEF Loaded
  <1> HIDE DEF shown
  <1>5. Loaded = [open |-> ExplorerOpens, fields |-> shown,
                  value |-> [f \in UserField |-> NoRow],
                  edited |-> {}, timer |-> FALSE, outcome |-> "none",
                  touched |-> {}, overlap |-> FALSE]
    BY DEF Loaded, shown
  <1>6. QED
    BY <1>1, <1>2, <1>3, <1>4, <1>5 DEF PageState

LEMMA NotApplyingFacts ==
    /\ NotApplying \in Application /\ Unread \in [Field -> Value]
    /\ Plain(NotApplying.new) /\ Plain(NotApplying.old) /\ PutBack(NotApplying)
  <1>1. Unread \in [Field -> Value]
    BY ValueFacts DEF Unread
  <1>2. NotApplying \in Application
    BY <1>1, FieldFacts DEF NotApplying, Application
  <1>3. QED
    BY <1>1, <1>2, FieldFacts DEF NotApplying, Plain, PutBack, Unseen

LEMMA InitHidden == Init => HiddenInv
  <1> SUFFICES ASSUME Init PROVE HiddenInv
    OBVIOUS
  <1>1. [f \in UserField |-> NoRow] \in [UserField -> Value]
    BY ValueFacts
  <1>2. page \in [Page -> PageState]
    BY <1>1, FieldFacts DEF Init, PageState
  <1>3. NotApplying \in Application
    BY NotApplyingFacts
  <1>4. Idle \in [busy: BOOLEAN, read: Fields]
    BY FieldFacts DEF Idle
  <1>5. processor \in [Child -> Processor] /\ deletion \in [Child -> Deletion]
    BY FieldFacts DEF Init, Processor, Deletion
  <1>6. history \in [UserField -> {"new", "added", "altered"}]
    BY DEF Init
  <1>7. edits \in 0..MaxEdits /\ applies \in 0..MaxApplies
    BY AnnotationsAssumption DEF Init
  <1>8. annotations \in [Field -> Value]
    BY ValueFacts DEF Init
  <1>9. saves \in [Page -> Seq(Save)]
    BY DEF Init
  <1>10. Types
    BY <1>2, <1>3, <1>4, <1>5, <1>6, <1>7, <1>8, <1>9, FieldFacts
    DEF Types, Init
  <1>11. Plain(NoFields) /\ Plain(GivenFields) /\ PutBack(NotApplying)
    BY FieldFacts DEF Plain, Unseen, PutBack, NotApplying
  <1>12. Copies
    BY <1>11, FieldFacts DEF Copies, Init, NotApplying, Idle
  <1>13. QED
    BY <1>10, <1>12 DEF HiddenInv

-----------------------------------------------------------------------------
(* A page's own steps: they touch neither the column nor what is sent      *)

LEMMA SaveFacts ==
  ASSUME NEW s \in Seq(Save), NEW i \in DOMAIN s
  PROVE  /\ RemoveAt(s, i) \in Seq(Save)
         /\ s[i] \in Save /\ i \in 1..Len(s)
  <1>1. i \in 1..Len(s)
    OBVIOUS
  <1>2. /\ SubSeq(s, 1, i - 1) \in Seq(Save)
        /\ SubSeq(s, i + 1, Len(s)) \in Seq(Save)
    BY <1>1
  <1>3. QED
    BY <1>1, <1>2 DEF RemoveAt

LEMMA EditedIsSave ==
  ASSUME Types, NEW p \in Page
  PROVE  Edited(p) \in Save
  <1>1. /\ page[p].value \in [UserField -> Value]
        /\ page[p].edited \in SUBSET UserField
    BY DEF Types, PageState
  <1> DEFINE S == page[p].edited
  <1>2. [f \in S |-> page[p].value[f]] \in [S -> Value]
    BY <1>1
  <1>3. [f \in S |-> page[p].value[f]] \in
            UNION {[T -> Value] : T \in SUBSET UserField}
    BY <1>1, <1>2
  <1>4. QED
    BY <1>3 DEF Edited, Save

\* What leaves the copies of the column alone, or loads pages anew, keeps them
LEMMA CopiesKept ==
  ASSUME HiddenInv,
         page' \in [Page -> PageState],
         \A p \in Page : \/ page'[p].fields = page[p].fields
                         \/ page'[p].fields = Loaded.fields,
         UNCHANGED <<annotation_fields, apply, relabel, processor, deletion>>
  PROVE  Copies'
  <1>1. Unseen(Loaded.fields)
    BY LoadedFacts DEF HiddenInv
  <1>2. \A p \in Page : Unseen(page'[p].fields)
    BY <1>1 DEF HiddenInv, Copies, Unseen
  <1>3. QED
    BY <1>2 DEF HiddenInv, Copies, Plain, Unseen, PutBack

LEMMA MarkStep ==
  ASSUME HiddenInv, NEW p \in Page, NEW f \in UserField, markChanges(p, f)
  PROVE  HiddenInv'
  <1>1. page[p] \in PageState /\ edits + 1 \in Value /\ edits + 1 \in 0..MaxEdits
    BY ValueFacts DEF HiddenInv, Types, markChanges
  <1> DEFINE w == [page[p] EXCEPT !.value = [@ EXCEPT ![f] = edits + 1],
                                  !.edited = @ \cup {f}, !.timer = TRUE,
                                  !.touched = @ \cup {f}]
  <1>a. w \in PageState
    BY <1>1 DEF PageState
  <1>b. page' = [page EXCEPT ![p] = w]
    BY <1>1 DEF PageState, HiddenInv, Types, markChanges
  <1> HIDE DEF w
  <1>2. page' \in [Page -> PageState]
    BY <1>a, <1>b DEF HiddenInv, Types
  <1>3. \A q \in Page : page'[q].fields = page[q].fields
    BY <1>1 DEF HiddenInv, Types, PageState, markChanges
  <1>4. Copies'
    BY <1>2, <1>3, CopiesKept DEF markChanges, serverVars, otherVars
  <1>5. Types'
    BY <1>1, <1>2 DEF HiddenInv, Types, markChanges, serverVars, otherVars
  <1>6. QED
    BY <1>4, <1>5 DEF HiddenInv

LEMMA SaveAnnotationsStep ==
  ASSUME HiddenInv, NEW p \in Page, saveAnnotations(p)
  PROVE  HiddenInv'
  <1>1. page[p] \in PageState
    BY DEF HiddenInv, Types
  <1>2. page' \in [Page -> PageState]
    BY <1>1 DEF HiddenInv, Types, PageState, saveAnnotations
  <1>3. \A q \in Page : page'[q].fields = page[q].fields
    BY <1>1 DEF HiddenInv, Types, PageState, saveAnnotations
  <1>4. Copies'
    BY <1>2, <1>3, CopiesKept DEF saveAnnotations, serverVars, otherVars
  <1>5. Edited(p) \in Save
    BY EditedIsSave DEF HiddenInv
  <1>6. saves' \in [Page -> Seq(Save)]
    BY <1>5 DEF HiddenInv, Types, saveAnnotations
  <1>7. Types'
    BY <1>2, <1>6 DEF HiddenInv, Types, saveAnnotations, serverVars, otherVars
  <1>8. QED
    BY <1>4, <1>7 DEF HiddenInv

LEMMA WriteAnnotationStep ==
  ASSUME HiddenInv, NEW p \in Page, NEW i, NEW f \in UserField,
         WriteAnnotation(p, i, f)
  PROVE  HiddenInv'
  <1> DEFINE anns == saves[p][i].anns
             rest == Restrict(anns, DOMAIN anns \ {f})
  <1>1. i \in DOMAIN saves[p] /\ f \in DOMAIN anns
    BY DEF WriteAnnotation
  <1>2. saves[p] \in Seq(Save) /\ i \in DOMAIN saves[p] /\ saves[p][i] \in Save
    BY <1>1, SaveFacts DEF HiddenInv, Types
  <1>3. PICK S \in SUBSET UserField : anns \in [S -> Value]
    BY <1>2 DEF Save
  <1>4. anns[f] \in Value
    BY <1>1, <1>3
  <1>5. rest \in [S \ {f} -> Value]
    BY <1>3 DEF Restrict
  <1>6. [saves[p][i] EXCEPT !.anns = rest] \in Save
    BY <1>2, <1>5 DEF Save
  <1>7. saves' = [saves EXCEPT ![p] =
            [saves[p] EXCEPT ![i] = [saves[p][i] EXCEPT !.anns = rest]]]
    BY <1>2 DEF WriteAnnotation, HiddenInv, Types
  <1> HIDE DEF rest
  <1>8. [saves[p] EXCEPT ![i] = [saves[p][i] EXCEPT !.anns = rest]] \in Seq(Save)
    BY <1>2, <1>6
  <1>9. saves' \in [Page -> Seq(Save)]
    BY <1>7, <1>8 DEF HiddenInv, Types
  <1>10. annotations' \in [Field -> Value]
    BY <1>4 DEF HiddenInv, Types, WriteAnnotation
  <1>11. Types'
    BY <1>9, <1>10 DEF HiddenInv, Types, WriteAnnotation, otherVars
  <1>12. Copies'
    BY CopiesKept DEF HiddenInv, Types, WriteAnnotation, otherVars
  <1>13. QED
    BY <1>11, <1>12 DEF HiddenInv

\* A save that has ended, whatever the page then shows of it
LEMMA SaveEnds ==
  ASSUME HiddenInv, NEW p \in Page, NEW i \in DOMAIN saves[p],
         NEW o \in {"none", "saved", "failed"},
         saves' = [saves EXCEPT ![p] = RemoveAt(saves[p], i)],
         page' = [page EXCEPT ![p].outcome = o],
         UNCHANGED <<serverVars, otherVars, apply, edits, applies, history>>
  PROVE  HiddenInv'
  <1>1. page[p] \in PageState
    BY DEF HiddenInv, Types
  <1>2. page' \in [Page -> PageState]
    BY <1>1 DEF HiddenInv, Types, PageState
  <1>3. \A q \in Page : page'[q].fields = page[q].fields
    BY <1>1 DEF HiddenInv, Types, PageState
  <1>4. Copies'
    BY <1>2, <1>3, CopiesKept DEF serverVars, otherVars
  <1>5. saves' \in [Page -> Seq(Save)]
    BY SaveFacts DEF HiddenInv, Types
  <1>6. Types'
    BY <1>2, <1>5 DEF HiddenInv, Types, serverVars, otherVars
  <1>7. QED
    BY <1>4, <1>6 DEF HiddenInv

LEMMA SaveAnsweredStep ==
  ASSUME HiddenInv, NEW p \in Page, NEW i, SaveAnswered(p, i)
  PROVE  HiddenInv'
  <1> DEFINE o == IF saves[p][i].heard THEN "saved" ELSE page[p].outcome
  <1>1. page[p] \in PageState
    BY DEF HiddenInv, Types
  <1>2. o \in {"none", "saved", "failed"}
    BY <1>1 DEF PageState
  <1>3. page' = [page EXCEPT ![p].outcome = o]
    BY <1>1 DEF SaveAnswered
  <1>4. saves' = [saves EXCEPT ![p] = RemoveAt(saves[p], i)]
    BY DEF SaveAnswered
  <1> HIDE DEF o
  <1>5. i \in DOMAIN saves[p]
    BY DEF SaveAnswered
  <1>6. QED
    BY <1>2, <1>3, <1>4, <1>5, SaveEnds DEF SaveAnswered

LEMMA SaveFailsStep ==
  ASSUME HiddenInv, NEW p \in Page, NEW i, SaveFails(p, i)
  PROVE  HiddenInv'
  <1> DEFINE o == IF saves[p][i].heard THEN "failed" ELSE page[p].outcome
  <1>1. page[p] \in PageState
    BY DEF HiddenInv, Types
  <1>2. o \in {"none", "saved", "failed"}
    BY <1>1 DEF PageState
  <1>3. page' = [page EXCEPT ![p].outcome = o]
    BY <1>1 DEF SaveFails
  <1>4. saves' = [saves EXCEPT ![p] = RemoveAt(saves[p], i)]
    BY DEF SaveFails
  <1> HIDE DEF o
  <1>5. i \in DOMAIN saves[p]
    BY DEF SaveFails
  <1>6. QED
    BY <1>2, <1>3, <1>4, <1>5, SaveEnds DEF SaveFails

LEMMA Unheard ==
  ASSUME NEW s \in Save
  PROVE  [s EXCEPT !.heard = FALSE] \in Save
  <1> DEFINE A == UNION {[S -> Value] : S \in SUBSET UserField}
  <1>1. Save = [anns: A, heard: BOOLEAN]
    BY DEF Save
  <1> HIDE DEF A
  <1>2. QED
    BY <1>1

LEMMA ReloadTypes ==
  ASSUME Types, NEW p \in Page, Reload(p)
  PROVE  /\ page' \in [Page -> PageState]
         /\ saves' \in [Page -> Seq(Save)]
         /\ \A q \in Page : \/ page'[q].fields = page[q].fields
                            \/ page'[q].fields = Loaded.fields
  <1> DEFINE w == [Loaded EXCEPT !.overlap = page[p].overlap]
  <1>a. Loaded \in PageState /\ page[p].overlap \in BOOLEAN
    BY LoadedFacts DEF Types, PageState
  <1>b. w \in PageState /\ w.fields = Loaded.fields
    BY <1>a DEF PageState
  <1>c. page' = [page EXCEPT ![p] = w]
    BY DEF Reload
  <1> HIDE DEF w
  <1>1. page' \in [Page -> PageState]
    BY <1>b, <1>c DEF Types
  <1>2. \A q \in Page : \/ page'[q].fields = page[q].fields
                        \/ page'[q].fields = Loaded.fields
    BY <1>b, <1>c DEF Types
  <1>3. saves[p] \in Seq(Save)
    BY DEF Types
  <1> DEFINE unheard ==
        [i \in DOMAIN saves[p] |-> [saves[p][i] EXCEPT !.heard = FALSE]]
  <1>4. \A i \in 1..Len(saves[p]) : [saves[p][i] EXCEPT !.heard = FALSE] \in Save
    BY <1>3, Unheard
  <1> DEFINE n == Len(saves[p])
  <1>5. unheard \in Seq(Save)
    <2>1. n \in Nat /\ DOMAIN saves[p] = 1..n
      BY <1>3
    <2>2. unheard \in [1..n -> Save]
      BY <2>1, <1>4
    <2> HIDE DEF unheard, n
    <2>3. QED
      BY <2>1, <2>2
  <1>6. saves' \in [Page -> Seq(Save)]
    BY <1>5 DEF Reload, Types
  <1>7. QED
    BY <1>1, <1>2, <1>6

LEMMA LoadStep ==
  ASSUME HiddenInv, NEW p \in Page, Load(p)
  PROVE  HiddenInv'
  <1>1. /\ page' \in [Page -> PageState] /\ saves' \in [Page -> Seq(Save)]
        /\ \A q \in Page : \/ page'[q].fields = page[q].fields
                           \/ page'[q].fields = Loaded.fields
    BY ReloadTypes DEF Load, HiddenInv
  <1>2. Copies'
    BY <1>1, CopiesKept DEF Load, serverVars, otherVars
  <1>3. Types'
    BY <1>1 DEF HiddenInv, Types, Load, serverVars, otherVars
  <1>4. QED
    BY <1>2, <1>3 DEF HiddenInv

LEMMA PageStepKeeps ==
  ASSUME HiddenInv, NEW p \in Page, PageStep(p)
  PROVE  HiddenInv'
  <1>1. CASE \E f \in UserField : markChanges(p, f)
    BY <1>1, MarkStep
  <1>2. CASE TimerFires(p)
    BY <1>2, SaveAnnotationsStep DEF TimerFires
  <1>3. CASE SaveButton(p)
    BY <1>3, SaveAnnotationsStep DEF SaveButton
  <1>4. CASE SaveStep(p)
    BY <1>4, WriteAnnotationStep, SaveAnsweredStep DEF SaveStep
  <1>5. CASE \E i \in 1..MaxInFlight : SaveFails(p, i)
    BY <1>5, SaveFailsStep
  <1>6. CASE Load(p)
    BY <1>6, LoadStep
  <1>7. QED
    BY <1>1, <1>2, <1>3, <1>4, <1>5, <1>6 DEF PageStep

-----------------------------------------------------------------------------
(* Changing the fields                                                     *)

\* How the copies of the column change with one request, or the column
LEMMA ApplyStep ==
  ASSUME HiddenInv, NEW p \in Page, NEW a \in Application,
         Plain(a.new), Plain(a.old), a.stage # "sent" => PutBack(a),
         apply' = [apply EXCEPT ![p] = a],
         UNCHANGED <<annotation_fields, page, relabel, processor, deletion>>
  PROVE  Copies' /\ apply' \in [Page -> Application]
  <1>1. apply' \in [Page -> Application]
    BY DEF HiddenInv, Types
  <1>2. \A q \in Page : apply'[q] = IF q = p THEN a ELSE apply[q]
    BY DEF HiddenInv, Types
  <1>3. \A q \in Page : /\ Plain(apply'[q].new)
                        /\ Plain(apply'[q].old)
                        /\ apply'[q].stage # "sent" => PutBack(apply'[q])
    BY <1>2 DEF HiddenInv, Copies
  <1>4. QED
    BY <1>1, <1>3 DEF HiddenInv, Copies, Plain, Unseen, PutBack

\* No editor holds a hidden field, so none is sent
LEMMA EditorFacts ==
  ASSUME HiddenInv, NEW p \in Page, NEW new \in EditorFields(p)
  PROVE  new \in Fields /\ Unseen(new)
  <1>1. new \in Fields
    BY DEF EditorFields
  <1>2. ASSUME NEW h \in Hidden PROVE new[h] = "none"
    <2>1. page[p].fields[h] = "none" /\ h \in Field /\ h \notin UserField
      BY FieldFacts DEF HiddenInv, Copies, Unseen
    <2>2. ~Fresh(h) /\ "none" \notin Kind
      BY <2>1, FieldFacts DEF Fresh
    <2>3. QED
      BY <2>1, <2>2 DEF EditorFields
  <1>3. QED
    BY <1>1, <1>2 DEF Unseen

LEMMA applyStep ==
  ASSUME HiddenInv, NEW p \in Page, NEW new \in EditorFields(p),
         applyAnnotationFields(p, new)
  PROVE  HiddenInv'
  <1> DEFINE a == [NotApplying EXCEPT !.stage = "sent", !.new = new,
                   !.warned = Affected(page[p].fields, new)]
  <1>1. new \in Fields /\ Unseen(new) /\ NotApplying \in Application
    BY EditorFacts, NotApplyingFacts
  <1>2. a \in Application
    BY <1>1 DEF Application, Affected
  <1>3. Plain(a.new) /\ Plain(a.old) /\ a.stage = "sent"
    BY <1>1, FieldFacts, NotApplyingFacts DEF Plain, Unseen, Application
  <1>4. apply' = [apply EXCEPT ![p] = a]
    BY Zenon DEF applyAnnotationFields
  <1> HIDE DEF a
  <1>5. Copies' /\ apply' \in [Page -> Application]
    BY <1>2, <1>3, <1>4, ApplyStep
    DEF applyAnnotationFields, serverVars, otherVars
  <1>6. applies' \in 0..MaxApplies
    BY AnnotationsAssumption DEF HiddenInv, Types, applyAnnotationFields
  <1>7. history' \in [UserField -> {"new", "added", "altered"}]
    BY DEF HiddenInv, Types, applyAnnotationFields
  <1>8. Types'
    BY <1>5, <1>6, <1>7
    DEF HiddenInv, Types, applyAnnotationFields, serverVars, otherVars
  <1>9. QED
    BY <1>5, <1>8 DEF HiddenInv

LEMMA ReadFieldsStep ==
  ASSUME HiddenInv, NEW p \in Page, ReadFields(p)
  PROVE  HiddenInv'
  <1> DEFINE kept(f) == f \in Hidden \/ apply[p].new[f] # "none"
             new == [f \in Field |->
                        IF annotation_fields[f] = "proc" /\ kept(f)
                        THEN "proc" ELSE apply[p].new[f]]
             a == [apply[p] EXCEPT !.stage = "read",
                        !.old = annotation_fields, !.new = new]
  <1>1. apply[p] \in Application /\ annotation_fields \in Fields
    BY DEF HiddenInv, Types
  <1>2. new \in Fields
    BY <1>1, FieldFacts DEF Application, Fields
  <1>3. a \in Application
    BY <1>1, <1>2 DEF Application
  <1>4. Plain(new) /\ Plain(annotation_fields)
    BY FieldFacts DEF HiddenInv, Copies, Plain
  <1>5. a.new = new /\ a.old = annotation_fields
    BY <1>1 DEF Application
  <1>6. apply' = [apply EXCEPT ![p] = a]
    BY DEF ReadFields, HiddenInv, Types
  <1>7. Plain(a.new) /\ Plain(a.old) /\ PutBack(a)
    BY <1>4, <1>5, FieldFacts DEF PutBack
  <1> HIDE DEF a
  <1>8. Copies' /\ apply' \in [Page -> Application]
    BY <1>3, <1>6, <1>7, ApplyStep DEF ReadFields, serverVars, otherVars
  <1>9. Types'
    BY <1>8 DEF HiddenInv, Types, ReadFields, serverVars, otherVars
  <1>10. QED
    BY <1>8, <1>9 DEF HiddenInv

\* A request that goes on with what it has read and completed
LEMMA StageStep ==
  ASSUME HiddenInv, NEW p \in Page, apply[p].stage # "sent",
         NEW a \in Application, a.new = apply[p].new, a.old = apply[p].old,
         apply' = [apply EXCEPT ![p] = a]
  PROVE  /\ apply' \in [Page -> Application]
         /\ \A q \in Page :
                /\ Plain(apply'[q].new)
                /\ Plain(apply'[q].old)
                /\ apply'[q].stage # "sent" => PutBack(apply'[q])
  <1>1. apply' \in [Page -> Application]
    BY DEF HiddenInv, Types
  <1>2. \A q \in Page : /\ apply'[q].new = apply[q].new
                        /\ apply'[q].old = apply[q].old
    BY DEF HiddenInv, Types
  <1>3. \A q \in Page : apply'[q].stage # "sent" => apply[q].stage # "sent"
    BY DEF HiddenInv, Types
  <1>4. QED
    BY <1>1, <1>2, <1>3 DEF HiddenInv, Copies, PutBack

\* The types that such a request works with
LEMMA OptionsFacts ==
  ASSUME Types, NEW p \in Page
  PROVE  /\ apply[p] \in Application /\ apply \in [Page -> Application]
         /\ apply[p].options \in SUBSET Field
         /\ apply[p].values \in [Field -> Value]
         /\ annotations \in [Field -> Value]
         /\ history \in [UserField -> {"new", "added", "altered"}]
  BY DEF Types, Application

LEMMA WriteFieldsStep ==
  ASSUME HiddenInv, NEW p \in Page, WriteFields(p)
  PROVE  HiddenInv'
  <1> DEFINE s == IF Removed(p) # {} THEN "delete" ELSE "reply"
             a == [apply[p] EXCEPT !.stage = s]
  <1>1. a \in Application /\ a.new = apply[p].new /\ a.old = apply[p].old
    BY OptionsFacts DEF Application, HiddenInv
  <1>2. apply' = [apply EXCEPT ![p] = a] /\ apply[p].stage # "sent"
    BY DEF WriteFields
  <1> HIDE DEF a
  <1>3. /\ apply' \in [Page -> Application]
        /\ \A q \in Page :
                /\ Plain(apply'[q].new)
                /\ Plain(apply'[q].old)
                /\ apply'[q].stage # "sent" => PutBack(apply'[q])
    BY <1>1, <1>2, StageStep
  <1>4. apply[p].new \in Fields /\ Plain(apply[p].new)
    BY DEF HiddenInv, Types, Application, Copies
  <1>5. annotation_fields' \in Fields /\ Plain(annotation_fields')
    BY <1>4 DEF WriteFields
  <1>6. Types'
    BY <1>3, <1>5 DEF HiddenInv, Types, WriteFields, otherVars
  <1>7. Copies'
    BY <1>3, <1>5
    DEF HiddenInv, Copies, WriteFields, otherVars, Plain, Unseen, PutBack
  <1>8. QED
    BY <1>6, <1>7 DEF HiddenInv

\* What it does to its own record, and to annotations
LEMMA AnnotationsStep ==
  ASSUME HiddenInv, NEW p \in Page, apply[p].stage # "sent",
         NEW a \in Application, a.new = apply[p].new, a.old = apply[p].old,
         apply' = [apply EXCEPT ![p] = a],
         annotations' \in [Field -> Value],
         history' \in [UserField -> {"new", "added", "altered"}],
         UNCHANGED <<otherVars, annotation_fields, page, saves, edits, applies>>
  PROVE  HiddenInv'
  <1>1. /\ apply' \in [Page -> Application]
        /\ \A q \in Page :
                /\ Plain(apply'[q].new)
                /\ Plain(apply'[q].old)
                /\ apply'[q].stage # "sent" => PutBack(apply'[q])
    BY StageStep
  <1>2. Types'
    BY <1>1 DEF HiddenInv, Types, otherVars
  <1>3. Copies'
    BY <1>1 DEF HiddenInv, Copies, otherVars, Plain, Unseen, PutBack
  <1>4. QED
    BY <1>2, <1>3 DEF HiddenInv

LEMMA DeleteAnnotationsStep ==
  ASSUME HiddenInv, NEW p \in Page, DeleteAnnotations(p)
  PROVE  HiddenInv'
  <1>1. PICK o \in SUBSET Rewritable(p) :
            apply' = [apply EXCEPT ![p].stage =
                          IF o = {} THEN "reply" ELSE "options",
                                   ![p].options = o]
    BY DEF DeleteAnnotations
  <1> DEFINE s == IF o = {} THEN "reply" ELSE "options"
             a == [apply[p] EXCEPT !.stage = s, !.options = o]
  <1>2. o \in SUBSET Field /\ s \in {"options", "reply"}
    BY DEF Rewritable
  <1>3. apply' = [apply EXCEPT ![p] = a]
    BY <1>1, OptionsFacts DEF HiddenInv
  <1>4. a \in Application /\ a.new = apply[p].new /\ a.old = apply[p].old
    <2> HIDE DEF s
    <2>1. QED
      BY <1>2, OptionsFacts DEF Application, HiddenInv
  <1> HIDE DEF a
  <1>5. annotations' \in [Field -> Value]
    BY ValueFacts DEF HiddenInv, Types, DeleteAnnotations
  <1>6. history' \in [UserField -> {"new", "added", "altered"}]
    BY DEF HiddenInv, Types, DeleteAnnotations
  <1>7. QED
    BY <1>3, <1>4, <1>5, <1>6, AnnotationsStep DEF DeleteAnnotations

LEMMA ReadValueStep ==
  ASSUME HiddenInv, NEW p \in Page, NEW f \in Field, ReadValue(p, f)
  PROVE  HiddenInv'
  <1>1. /\ apply[p].stage # "sent"
        /\ annotations' \in [Field -> Value]
        /\ history' \in [UserField -> {"new", "added", "altered"}]
        /\ UNCHANGED <<otherVars, annotation_fields, page, saves, edits, applies>>
    BY OptionsFacts DEF ReadValue, serverVars, HiddenInv
  <1>2. CASE annotations[f] \in {NoRow, Empty}
    <2> DEFINE a == [apply[p] EXCEPT !.options = @ \ {f}]
    <2>1. a \in Application /\ a.new = apply[p].new /\ a.old = apply[p].old
      BY OptionsFacts DEF Application, HiddenInv
    <2>2. apply' = [apply EXCEPT ![p] = a]
      BY <1>2 DEF ReadValue
    <2> HIDE DEF a
    <2>3. QED
      BY <1>1, <2>1, <2>2, AnnotationsStep
  <1>3. CASE annotations[f] \notin {NoRow, Empty}
    <2> DEFINE a == [apply[p] EXCEPT !.values = [@ EXCEPT ![f] = annotations[f]]]
    <2>1. a \in Application /\ a.new = apply[p].new /\ a.old = apply[p].old
      BY OptionsFacts DEF Application, HiddenInv
    <2>2. apply' = [apply EXCEPT ![p] = a]
      BY <1>3 DEF ReadValue
    <2> HIDE DEF a
    <2>3. QED
      BY <1>1, <2>1, <2>2, AnnotationsStep
  <1>4. QED
    BY <1>2, <1>3

LEMMA WriteValueStep ==
  ASSUME HiddenInv, NEW p \in Page, NEW f \in Field, WriteValue(p, f)
  PROVE  HiddenInv'
  <1> DEFINE a == [apply[p] EXCEPT !.options = @ \ {f}, !.values = Unread]
  <1>1. a \in Application /\ a.new = apply[p].new /\ a.old = apply[p].old
    BY OptionsFacts, NotApplyingFacts DEF Application, HiddenInv
  <1>2. apply' = [apply EXCEPT ![p] = a] /\ apply[p].stage # "sent"
    BY OptionsFacts DEF WriteValue, HiddenInv
  <1> HIDE DEF a
  <1>3. PICK v \in {apply[p].values[f], Empty, annotations[f]} :
            annotations' = IF annotations[f] = NoRow THEN annotations
                           ELSE [annotations EXCEPT ![f] = v]
    BY DEF WriteValue
  <1>4. v \in Value
    BY OptionsFacts, ValueFacts DEF HiddenInv
  <1>5. annotations' \in [Field -> Value]
    BY <1>3, <1>4, OptionsFacts DEF HiddenInv
  <1>6. history' \in [UserField -> {"new", "added", "altered"}]
    BY OptionsFacts DEF WriteValue, HiddenInv
  <1>7. QED
    BY <1>1, <1>2, <1>5, <1>6, AnnotationsStep DEF WriteValue

LEMMA OptionsUpdatedStep ==
  ASSUME HiddenInv, NEW p \in Page, OptionsUpdated(p)
  PROVE  HiddenInv'
  <1> DEFINE a == [apply[p] EXCEPT !.stage = "reply"]
  <1>1. a \in Application /\ a.new = apply[p].new /\ a.old = apply[p].old
    BY OptionsFacts DEF Application, HiddenInv
  <1>2. apply' = [apply EXCEPT ![p] = a] /\ apply[p].stage # "sent"
    BY DEF OptionsUpdated
  <1> HIDE DEF a
  <1>3. QED
    BY <1>1, <1>2, AnnotationsStep, OptionsFacts
    DEF OptionsUpdated, HiddenInv, serverVars

LEMMA AppliedStep ==
  ASSUME HiddenInv, NEW p \in Page, Applied(p)
  PROVE  HiddenInv'
  <1>1. /\ page' \in [Page -> PageState] /\ saves' \in [Page -> Seq(Save)]
        /\ \A q \in Page : \/ page'[q].fields = page[q].fields
                           \/ page'[q].fields = Loaded.fields
    BY ReloadTypes DEF Applied, HiddenInv
  <1>2. \A q \in Page : Unseen(page'[q].fields)
    BY <1>1, LoadedFacts DEF HiddenInv, Copies
  <1>3. \A q \in Page : apply'[q] = IF q = p THEN NotApplying ELSE apply[q]
    BY DEF HiddenInv, Types, Applied
  <1>4. apply' \in [Page -> Application]
    BY NotApplyingFacts DEF HiddenInv, Types, Applied
  <1>5. \A q \in Page : /\ Plain(apply'[q].new)
                        /\ Plain(apply'[q].old)
                        /\ apply'[q].stage # "sent" => PutBack(apply'[q])
    BY <1>3, NotApplyingFacts DEF HiddenInv, Copies
  <1>6. Copies'
    BY <1>2, <1>5
    DEF HiddenInv, Copies, Applied, serverVars, otherVars, Plain, Unseen, PutBack
  <1>7. Types'
    BY <1>1, <1>4 DEF HiddenInv, Types, Applied, serverVars, otherVars
  <1>8. QED
    BY <1>6, <1>7 DEF HiddenInv

LEMMA ApplyFailsStep ==
  ASSUME HiddenInv, NEW p \in Page, ApplyFails(p)
  PROVE  HiddenInv'
  <1>1. Copies' /\ apply' \in [Page -> Application]
    BY NotApplyingFacts, ApplyStep DEF ApplyFails, serverVars, otherVars
  <1>2. Types'
    BY <1>1 DEF HiddenInv, Types, ApplyFails, serverVars, otherVars
  <1>3. QED
    BY <1>1, <1>2 DEF HiddenInv

LEMMA FieldsStepKeeps ==
  ASSUME HiddenInv, NEW p \in Page, FieldsStep(p)
  PROVE  HiddenInv'
  <1>1. CASE \E new \in EditorFields(p) : applyAnnotationFields(p, new)
    BY <1>1, applyStep
  <1>2. CASE ReadFields(p)
    BY <1>2, ReadFieldsStep
  <1>3. CASE WriteFields(p)
    BY <1>3, WriteFieldsStep
  <1>4. CASE DeleteAnnotations(p)
    BY <1>4, DeleteAnnotationsStep
  <1>5. CASE \E f \in Field : ReadValue(p, f) \/ WriteValue(p, f)
    BY <1>5, ReadValueStep, WriteValueStep
  <1>6. CASE OptionsUpdated(p)
    BY <1>6, OptionsUpdatedStep
  <1>7. CASE Applied(p)
    BY <1>7, AppliedStep
  <1>8. CASE ApplyFails(p)
    BY <1>8, ApplyFailsStep
  <1>9. QED
    BY <1>1, <1>2, <1>3, <1>4, <1>5, <1>6, <1>7, <1>8 DEF FieldsStep

LEMMA LabelStepKeeps ==
  ASSUME HiddenInv, ReadForLabel \/ WriteLabel
  PROVE  HiddenInv'
  <1>1. CASE ReadForLabel
    <2>1. Types'
      BY <1>1, AnnotationsAssumption
      DEF HiddenInv, Types, ReadForLabel, serverVars
    <2>2. Copies'
      BY <1>1
      DEF HiddenInv, Copies, ReadForLabel, serverVars, Plain, Unseen, PutBack
    <2>3. QED
      BY <2>1, <2>2 DEF HiddenInv
  <1>2. CASE WriteLabel
    <2>1. Types'
      BY <1>2, FieldFacts DEF HiddenInv, Types, WriteLabel, Idle
    <2>2. Copies'
      BY <1>2, FieldFacts
      DEF HiddenInv, Copies, WriteLabel, Idle, Plain, Unseen, PutBack
    <2>3. QED
      BY <2>1, <2>2 DEF HiddenInv
  <1>3. QED
    BY <1>1, <1>2

-----------------------------------------------------------------------------
(* Processors and deletions                                                *)

\* A processor's or a deletion's new record, and what it writes
LEMMA ChildStep ==
  ASSUME HiddenInv, NEW c \in Child, NEW w \in Processor, NEW d \in Deletion,
         Plain(w.cache), Plain(d.read),
         processor' = [processor EXCEPT ![c] = w],
         deletion' = [deletion EXCEPT ![c] = d],
         annotation_fields' \in Fields, Plain(annotation_fields'),
         annotations' \in [Field -> Value],
         UNCHANGED pageVars
  PROVE  HiddenInv'
  <1>1. \A b \in Child : /\ processor'[b] = IF b = c THEN w ELSE processor[b]
                         /\ deletion'[b] = IF b = c THEN d ELSE deletion[b]
    BY DEF HiddenInv, Types
  <1>2. \A b \in Child : Plain(processor'[b].cache) /\ Plain(deletion'[b].read)
    BY <1>1 DEF HiddenInv, Copies
  <1>3. Copies'
    BY <1>2 DEF HiddenInv, Copies, pageVars, Plain, Unseen, PutBack
  <1>4. processor' \in [Child -> Processor] /\ deletion' \in [Child -> Deletion]
    BY DEF HiddenInv, Types
  <1>5. Types'
    BY <1>4 DEF HiddenInv, Types, pageVars
  <1>6. QED
    BY <1>3, <1>5 DEF HiddenInv

\* What holds of a child, and of what is written about it, before a step
LEMMA ChildFacts ==
  ASSUME HiddenInv, NEW c \in Child
  PROVE  /\ processor[c] \in Processor /\ Plain(processor[c].cache)
         /\ deletion[c] \in Deletion /\ Plain(deletion[c].read)
         /\ annotation_fields \in Fields /\ Plain(annotation_fields)
         /\ annotations \in [Field -> Value]
         /\ \A v \in Value :
                [annotations EXCEPT ![c] = v] \in [Field -> Value]
         /\ processor = [processor EXCEPT ![c] = processor[c]]
         /\ deletion = [deletion EXCEPT ![c] = deletion[c]]
  BY DEF HiddenInv, Types, Copies

LEMMA ProcessorStepKeeps ==
  ASSUME HiddenInv, NEW c \in Child, ProcessorStep(c)
  PROVE  HiddenInv'
  <1> USE DEF pageVars
  <1>1. Plain(NoFields) /\ NoFields \in Fields
    BY FieldFacts DEF Plain, Unseen
  <1>2. \A pc \in {"ended", "failed"} :
            Stopped(pc) \in Processor /\ Plain(Stopped(pc).cache)
    BY <1>1 DEF Stopped, Processor
  <1>3. NoRow \in Value /\ 0 \in Value
    BY ValueFacts
  <1>4. CASE StartProcessor(c)
    <2> DEFINE w == [processor[c] EXCEPT !.pc = "iterating",
                                         !.cache = annotation_fields]
    <2>1. w \in Processor /\ Plain(w.cache)
      BY ChildFacts DEF Processor
    <2>2. processor' = [processor EXCEPT ![c] = w]
      BY <1>4 DEF StartProcessor, HiddenInv, Types
    <2> HIDE DEF w
    <2>3. QED
      BY <1>4, <2>1, <2>2, ChildFacts, ChildStep DEF StartProcessor
  <1>5. CASE NextItem(c)
    <2>1. CASE processor[c].interrupted
      BY <1>2, <1>3, <1>5, <2>1, ChildFacts, ChildStep DEF NextItem
    <2>2. CASE ~processor[c].interrupted
      <3> DEFINE w == [processor[c] EXCEPT !.pc = "computing"]
      <3>1. w \in Processor /\ Plain(w.cache)
        BY ChildFacts DEF Processor
      <3>2. processor' = [processor EXCEPT ![c] = w]
        BY <1>5, <2>2 DEF NextItem
      <3>3. UNCHANGED <<pageVars, annotation_fields, annotations, deletion>>
        BY <1>5, <2>2 DEF NextItem
      <3> HIDE DEF w
      <3>4. QED
        BY <3>1, <3>2, <3>3, ChildFacts, ChildStep
    <2>3. QED
      BY <2>1, <2>2
  <1>6. CASE SaveBatch(c)
    <2> DEFINE k == [processor[c].cache EXCEPT ![c] = "proc"]
               w == [processor[c] EXCEPT !.pc = "saving", !.cache = k]
    <2>1. k \in Fields
      BY ChildFacts, FieldFacts DEF Processor, Fields
    <2>2. Plain(k)
      BY ChildFacts, FieldFacts DEF Processor, Fields, Plain
    <2>3. w \in Processor /\ w.cache = k
      BY <2>1, ChildFacts DEF Processor
    <2>4. processor' = [processor EXCEPT ![c] = w]
      BY <1>6 DEF SaveBatch, HiddenInv, Types, Processor
    <2> HIDE DEF w, k
    <2>5. annotations' \in [Field -> Value]
      BY <1>3, <1>6, ChildFacts DEF SaveBatch
    <2>6. QED
      BY <1>6, <2>2, <2>3, <2>4, <2>5, ChildFacts, ChildStep DEF SaveBatch
  <1>7. CASE SaveFields(c)
    <2> DEFINE w == [processor[c] EXCEPT !.pc = "iterating"]
    <2>1. w \in Processor /\ Plain(w.cache)
      BY ChildFacts DEF Processor
    <2>2. processor' = [processor EXCEPT ![c] = w]
      BY <1>7 DEF SaveFields
    <2>3. processor[c].cache \in Fields
      BY ChildFacts DEF Processor
    <2> HIDE DEF w
    <2>4. QED
      BY <1>7, <2>1, <2>2, <2>3, ChildFacts, ChildStep DEF SaveFields
  <1>8. CASE FinishProcessor(c)
    BY <1>2, <1>8, ChildFacts, ChildStep DEF FinishProcessor
  <1>9. CASE ProcessorFails(c)
    BY <1>2, <1>3, <1>9, ChildFacts, ChildStep DEF ProcessorFails
  <1>10. QED
    BY <1>4, <1>5, <1>6, <1>7, <1>8, <1>9 DEF ProcessorStep

LEMMA DeletionStepKeeps ==
  ASSUME HiddenInv, NEW c \in Child, DeletionStep(c)
  PROVE  HiddenInv'
  <1> USE DEF pageVars
  <1>1. Plain(NoFields) /\ NoFields \in Fields
    BY FieldFacts DEF Plain, Unseen
  <1>2. NoRow \in Value
    BY ValueFacts
  <1>3. \A s \in {"rows", "read", "gone"} :
            /\ [deletion[c] EXCEPT !.stage = s] \in Deletion
            /\ Plain([deletion[c] EXCEPT !.stage = s].read)
    BY ChildFacts DEF Deletion
  <1>4. CASE StopWorker(c)
    <2> DEFINE w == IF Running(c) THEN [processor[c] EXCEPT !.interrupted = TRUE]
                    ELSE IF processor[c].pc = "queued" THEN Stopped("failed")
                    ELSE processor[c]
    <2>1. w \in Processor
      BY <1>1, ChildFacts DEF Processor, Stopped
    <2>2. Plain(w.cache)
      BY <1>1, ChildFacts DEF Processor, Stopped
    <2>3. processor' = [processor EXCEPT ![c] = w]
      BY <1>4 DEF StopWorker
    <2>4. deletion' =
            [deletion EXCEPT ![c] = [deletion[c] EXCEPT !.stage = "rows"]]
      BY <1>4 DEF StopWorker
    <2> HIDE DEF w
    <2>5. QED
      BY <1>3, <1>4, <2>1, <2>2, <2>3, <2>4, ChildFacts, ChildStep
      DEF StopWorker
  <1>5. CASE DeleteRows(c)
    <2>1. deletion' =
            [deletion EXCEPT ![c] = [deletion[c] EXCEPT !.stage = "read"]]
      BY <1>5 DEF DeleteRows
    <2>2. QED
      BY <1>2, <1>3, <1>5, <2>1, ChildFacts, ChildStep DEF DeleteRows
  <1>6. CASE ReadRelated(c)
    <2> DEFINE k == [annotation_fields EXCEPT ![c] = "none"]
               d == IF annotation_fields[c] = "proc"
                    THEN [stage |-> "write", read |-> k]
                    ELSE [stage |-> "row", read |-> NoFields]
    <2>1. k \in Fields
      BY ChildFacts, FieldFacts DEF Fields
    <2>2. Plain(k)
      BY ChildFacts, FieldFacts DEF Fields, Plain
    <2>3. d \in Deletion /\ Plain(d.read)
      BY <1>1, <2>1, <2>2 DEF Deletion
    <2>4. deletion' = [deletion EXCEPT ![c] = d]
      BY <1>6 DEF ReadRelated
    <2> HIDE DEF d
    <2>5. QED
      BY <1>6, <2>3, <2>4, ChildFacts, ChildStep DEF ReadRelated
  <1>7. CASE RemoveField(c)
    <2> DEFINE d == [stage |-> "row", read |-> NoFields]
    <2>1. d \in Deletion /\ Plain(d.read)
      BY <1>1 DEF Deletion
    <2>2. deletion' = [deletion EXCEPT ![c] = d]
      BY <1>7 DEF RemoveField
    <2>3. deletion[c].read \in Fields
      BY ChildFacts DEF Deletion
    <2> HIDE DEF d
    <2>4. QED
      BY <1>7, <2>1, <2>2, <2>3, ChildFacts, ChildStep DEF RemoveField
  <1>8. CASE DeleteDataset(c)
    <2>1. deletion' =
            [deletion EXCEPT ![c] = [deletion[c] EXCEPT !.stage = "gone"]]
      BY <1>8 DEF DeleteDataset
    <2>2. QED
      BY <1>3, <1>8, <2>1, ChildFacts, ChildStep DEF DeleteDataset
  <1>9. QED
    BY <1>4, <1>5, <1>6, <1>7, <1>8 DEF DeletionStep

-----------------------------------------------------------------------------
(* The theorems                                                            *)

LEMMA NextHidden == HiddenInv /\ [Next]_vars => HiddenInv'
  <1> SUFFICES ASSUME HiddenInv, [Next]_vars PROVE HiddenInv'
    OBVIOUS
  <1>1. CASE UNCHANGED vars
    BY <1>1 DEF HiddenInv, Types, Copies, vars, Plain, Unseen, PutBack
  <1>2. CASE \E p \in Page : PageStep(p) \/ FieldsStep(p)
    BY <1>2, PageStepKeeps, FieldsStepKeeps
  <1>3. CASE ReadForLabel \/ WriteLabel
    BY <1>3, LabelStepKeeps
  <1>4. CASE \E c \in Child : ProcessorStep(c) \/ DeletionStep(c)
    BY <1>4, ProcessorStepKeeps, DeletionStepKeeps
  <1>5. QED
    BY <1>1, <1>2, <1>3, <1>4 DEF Next

\* A request about to delete annotations deletes none of a hidden field: what
\* was read of it is put back, and it is not of a kind that may change
LEMMA HiddenFollows == HiddenInv => HiddenKept
  <1> SUFFICES ASSUME HiddenInv, NEW p \in Page, apply[p].stage = "delete",
                      NEW h \in Hidden
               PROVE  h \notin Wiping(p)
    BY DEF HiddenKept
  <1>1. apply[p].old[h] \in {"none", "proc"}
    BY DEF HiddenInv, Copies, Plain
  <1>2. apply[p].old[h] = "proc" => apply[p].new[h] = "proc"
    BY DEF HiddenInv, Copies, PutBack
  <1>3. h \notin Removed(p)
    BY <1>1, <1>2 DEF Removed
  <1>4. apply[p].old[h] \notin Choice
    BY <1>1 DEF Choice
  <1>5. QED
    BY <1>3, <1>4 DEF Wiping

\* The variables keep their types, whatever pages, fields and children there
\* are and however often fields and annotations are changed: no request writes
\* a column or a row that the next reader could not read.
THEOREM AnnotationsTypeCorrect == Spec => []TypeOK
  <1>1. HiddenInv => TypeOK
    BY DEF HiddenInv, Types, TypeOK
  <1>2. QED
    BY <1>1, InitHidden, NextHidden, PTL DEF Spec

\* Changing fields in the Explorer never deletes what a hidden field's
\* processor found, whatever other pages, processors, deletions and relabelling
\* write to the column meanwhile.
THEOREM HiddenAlwaysKept == Spec => []HiddenKept
  BY InitHidden, NextHidden, HiddenFollows, PTL DEF Spec

-----------------------------------------------------------------------------
(* Saving, where no two pages annotate with the same field                 *)

OneAnnotator == \A p, q \in Page : p # q => Edits[p] \cap Edits[q] = {}

\* All that was edited since a page was loaded is sent with each of its saves,
\* and nothing but what the page's user edits
Sends ==
    \A p \in Page :
        /\ page[p].touched = page[p].edited
        /\ page[p].edited \subseteq Edits[p]
        /\ \A i \in DOMAIN saves[p] :
            DOMAIN saves[p][i].anns \subseteq Edits[p] \cap UserField

\* A save that was not sent while another was under way is the only one
Alone == \A p \in Page : ~page[p].overlap => Len(saves[p]) <= 1

\* What the user sees of a field is in the database, or was changed on request
Stored(p, f) == annotations[f] = page[p].value[f] \/ history[f] = "altered"

\* The page's only save has the current value, or the server has written it
InSave(p, f) ==
    /\ saves[p][1].heard
    /\ f \in DOMAIN saves[p][1].anns => saves[p][1].anns[f] = page[p].value[f]
    /\ f \notin DOMAIN saves[p][1].anns => Stored(p, f)

\* How it is with an edit for which no timer runs
Settled(p, f) ==
    IF saves[p] = <<>> THEN page[p].outcome = "failed" \/ Stored(p, f)
    ELSE InSave(p, f)

OnItsWay ==
    \A p \in Page : \A f \in page[p].edited :
        ~page[p].timer /\ ~page[p].overlap => Settled(p, f)

SavedInv == HiddenInv /\ Sends /\ Alone /\ OnItsWay

\* What is left of the saves when one has ended
LEMMA RemoveFacts ==
  ASSUME NEW s \in Seq(Save), NEW i \in DOMAIN s
  PROVE  /\ RemoveAt(s, i) \in Seq(Save)
         /\ Len(s) \in Nat \ {0} /\ Len(RemoveAt(s, i)) = Len(s) - 1
         /\ Len(s) <= 1 => i = 1 /\ RemoveAt(s, i) = <<>>
         /\ \A j \in DOMAIN RemoveAt(s, i) : \E k \in DOMAIN s :
                RemoveAt(s, i)[j] = s[k]
  <1> DEFINE n == Len(s)
             a == SubSeq(s, 1, i - 1)
             b == SubSeq(s, i + 1, n)
  <1>1. n \in Nat \ {0} /\ i \in 1..n /\ DOMAIN s = 1..n
    OBVIOUS
  <1>2. /\ a \in Seq(Save) /\ Len(a) = i - 1
        /\ \A j \in 1..(i - 1) : a[j] = s[j]
    BY <1>1
  <1>3. /\ b \in Seq(Save) /\ Len(b) = n - i
        /\ \A j \in 1..(n - i) : b[j] = s[i + j]
    BY <1>1
  <1> HIDE DEF n, a, b
  <1>4. /\ a \o b \in Seq(Save) /\ Len(a \o b) = n - 1
        /\ DOMAIN (a \o b) = 1..(n - 1)
    <2>0. a \in Seq(Save) /\ b \in Seq(Save)
      BY <1>2, <1>3
    <2>1. a \o b \in Seq(Save)
      BY <2>0
    <2>2. Len(a \o b) = Len(a) + Len(b)
      BY <2>0
    <2>3. DOMAIN (a \o b) = 1..Len(a \o b)
      BY <2>1
    <2>4. (i - 1) + (n - i) = n - 1
      BY <1>1
    <2>5. QED
      BY <1>2, <1>3, <2>1, <2>2, <2>3, <2>4
  <1>5. \A j \in 1..(i - 1) : (a \o b)[j] = s[j] /\ j \in 1..n
    BY <1>1, <1>2, <1>3
  <1>6. \A j \in i..(n - 1) : (a \o b)[j] = s[j + 1] /\ j + 1 \in 1..n
    <2> SUFFICES ASSUME NEW j \in i..(n - 1)
                 PROVE  (a \o b)[j] = s[j + 1] /\ j + 1 \in 1..n
      OBVIOUS
    <2>1. (a \o b)[j] = b[j - (i - 1)] /\ j - (i - 1) \in 1..(n - i)
      BY <1>1, <1>2, <1>3
    <2>2. i + (j - (i - 1)) = j + 1
      BY <1>1
    <2>3. b[j - (i - 1)] = s[i + (j - (i - 1))]
      BY <1>3, <2>1
    <2>4. QED
      BY <1>1, <2>1, <2>2, <2>3
  <1>7. \A j \in 1..(n - 1) : j \in 1..(i - 1) \/ j \in i..(n - 1)
    BY <1>1
  <1>8. RemoveAt(s, i) = a \o b
    BY DEF RemoveAt, a, b, n
  <1>9. ASSUME n <= 1 PROVE i = 1 /\ a \o b = <<>>
    BY <1>1, <1>4, <1>9
  <1>10. QED
    BY <1>1, <1>4, <1>5, <1>6, <1>7, <1>8, <1>9 DEF n

LEMMA InitSaved == Init => SavedInv
  <1> SUFFICES ASSUME Init PROVE SavedInv
    OBVIOUS
  <1>1. HiddenInv
    BY InitHidden
  <1>2. \A p \in Page : /\ page[p].edited = {} /\ page[p].touched = {}
                        /\ saves[p] = <<>> /\ DOMAIN saves[p] = {}
                        /\ Len(saves[p]) = 0
    BY DEF Init
  <1>3. Sends /\ OnItsWay
    BY <1>2 DEF Sends, OnItsWay
  <1>4. Alone
    BY <1>2 DEF Alone
  <1>5. QED
    BY <1>1, <1>3, <1>4 DEF SavedInv

\* Steps that leave pages and saves alone, and change annotations only as the
\* history records
LEMMA SavedKept ==
  ASSUME SavedInv, HiddenInv',
         UNCHANGED <<page, saves>>,
         \A f \in UserField :
            /\ annotations'[f] = annotations[f] \/ history'[f] = "altered"
            /\ history[f] = "altered" => history'[f] = "altered"
  PROVE  SavedInv'
  <1>1. \A p \in Page : page[p].edited \subseteq UserField
    BY DEF SavedInv, HiddenInv, Types, PageState
  <1>2. \A p \in Page : \A f \in page[p].edited : Stored(p, f) => Stored(p, f)'
    BY <1>1 DEF Stored
  <1>3. Sends' /\ Alone'
    BY DEF SavedInv, Sends, Alone
  <1>4. OnItsWay'
    BY <1>2 DEF SavedInv, OnItsWay, Settled, InSave
  <1>5. QED
    BY <1>3, <1>4 DEF SavedInv

\* Steps of a page that leave the database alone keep what holds of the others
LEMMA OwnStep ==
  ASSUME SavedInv, HiddenInv', NEW p \in Page,
         \A q \in Page \ {p} : page'[q] = page[q] /\ saves'[q] = saves[q],
         UNCHANGED <<annotations, history>>,
         page'[p].touched = page'[p].edited,
         page'[p].edited \subseteq Edits[p],
         \A i \in DOMAIN saves'[p] :
            DOMAIN saves'[p][i].anns \subseteq Edits[p] \cap UserField,
         ~page'[p].overlap => Len(saves'[p]) <= 1,
         \A f \in page'[p].edited :
            ~page'[p].timer /\ ~page'[p].overlap => Settled(p, f)'
  PROVE  SavedInv'
  <1>1. Sends' /\ Alone'
    BY DEF SavedInv, Sends, Alone
  <1>2. \A q \in Page \ {p} : \A f : Settled(q, f) => Settled(q, f)'
    BY DEF Settled, InSave, Stored
  <1>3. OnItsWay'
    BY <1>2 DEF SavedInv, OnItsWay
  <1>4. QED
    BY <1>1, <1>3 DEF SavedInv

LEMMA MarkSaved ==
  ASSUME SavedInv, HiddenInv', NEW p \in Page, NEW f \in UserField,
         markChanges(p, f)
  PROVE  SavedInv'
  <1>1. page[p] \in PageState /\ page \in [Page -> PageState]
    BY DEF SavedInv, HiddenInv, Types
  <1>2. /\ page'[p].touched = page[p].touched \cup {f}
        /\ page'[p].edited = page[p].edited \cup {f}
        /\ page'[p].timer = TRUE /\ page'[p].overlap = page[p].overlap
    BY <1>1 DEF markChanges, PageState
  <1>3. \A q \in Page \ {p} : page'[q] = page[q]
    BY <1>1 DEF markChanges
  <1>4. f \in Edits[p] /\ UNCHANGED <<saves, annotations, history>>
    BY DEF markChanges, serverVars
  <1>5. /\ page'[p].touched = page'[p].edited
        /\ page'[p].edited \subseteq Edits[p]
        /\ \A i \in DOMAIN saves'[p] :
                DOMAIN saves'[p][i].anns \subseteq Edits[p] \cap UserField
        /\ ~page'[p].overlap => Len(saves'[p]) <= 1
    BY <1>2, <1>4 DEF SavedInv, Sends, Alone
  <1>6. QED
    BY <1>2, <1>3, <1>4, <1>5, OwnStep

\* How a save is added to those of its page
LEMMA SendFacts ==
  ASSUME Types, NEW p \in Page, saveAnnotations(p)
  PROVE  /\ page'[p].touched = page[p].touched
         /\ page'[p].edited = page[p].edited
         /\ page'[p].value = page[p].value
         /\ page'[p].overlap = (saves[p] # <<>>)
         /\ \A q \in Page \ {p} : page'[q] = page[q] /\ saves'[q] = saves[q]
         /\ saves[p] \in Seq(Save) /\ Len(saves'[p]) = Len(saves[p]) + 1
         /\ DOMAIN saves'[p] = 1..(Len(saves[p]) + 1)
         /\ \A i \in 1..Len(saves[p]) : saves'[p][i] = saves[p][i]
         /\ saves'[p][Len(saves[p]) + 1] = Edited(p)
         /\ DOMAIN saves[p] = 1..Len(saves[p]) /\ Len(saves[p]) \in Nat
         /\ DOMAIN Edited(p).anns = page[p].edited
         /\ \A f \in page[p].edited : Edited(p).anns[f] = page[p].value[f]
         /\ Edited(p).heard /\ page[p].edited \subseteq UserField
  <1>1. /\ page[p] \in PageState /\ page \in [Page -> PageState]
        /\ saves[p] \in Seq(Save) /\ saves \in [Page -> Seq(Save)]
    BY DEF Types
  <1>2. /\ page'[p].touched = page[p].touched
        /\ page'[p].edited = page[p].edited
        /\ page'[p].value = page[p].value
        /\ page'[p].overlap = (saves[p] # <<>>)
    BY <1>1 DEF saveAnnotations, PageState
  <1>3. \A q \in Page \ {p} : page'[q] = page[q] /\ saves'[q] = saves[q]
    BY <1>1 DEF saveAnnotations
  <1>4. Edited(p) \in Save
    BY EditedIsSave
  <1>5. saves'[p] = Append(saves[p], Edited(p))
    BY <1>1 DEF saveAnnotations
  <1>6. /\ Len(saves[p]) \in Nat /\ Len(saves'[p]) = Len(saves[p]) + 1
        /\ DOMAIN saves'[p] = 1..(Len(saves[p]) + 1)
        /\ \A i \in 1..Len(saves[p]) : saves'[p][i] = saves[p][i]
        /\ saves'[p][Len(saves[p]) + 1] = Edited(p)
        /\ DOMAIN saves[p] = 1..Len(saves[p])
    BY <1>1, <1>4, <1>5
  <1>7. /\ DOMAIN Edited(p).anns = page[p].edited
        /\ \A f \in page[p].edited : Edited(p).anns[f] = page[p].value[f]
        /\ Edited(p).heard
    BY DEF Edited
  <1>8. page[p].edited \subseteq UserField
    BY <1>1 DEF PageState
  <1>9. QED
    BY <1>1, <1>2, <1>3, <1>6, <1>7, <1>8

\* All that was edited is sent, as it is now
LEMMA SaveSaved ==
  ASSUME SavedInv, HiddenInv', NEW p \in Page, saveAnnotations(p)
  PROVE  SavedInv'
  <1>1. Types /\ UNCHANGED <<annotations, history>>
    BY DEF SavedInv, HiddenInv, saveAnnotations, serverVars
  <1>2. /\ page'[p].touched = page[p].touched
        /\ page'[p].edited = page[p].edited
        /\ page'[p].value = page[p].value
        /\ page'[p].overlap = (saves[p] # <<>>)
        /\ \A q \in Page \ {p} : page'[q] = page[q] /\ saves'[q] = saves[q]
    BY <1>1, SendFacts
  <1>3. /\ saves[p] \in Seq(Save) /\ Len(saves'[p]) = Len(saves[p]) + 1
        /\ DOMAIN saves'[p] = 1..(Len(saves[p]) + 1)
        /\ \A i \in 1..Len(saves[p]) : saves'[p][i] = saves[p][i]
        /\ saves'[p][Len(saves[p]) + 1] = Edited(p)
        /\ DOMAIN saves[p] = 1..Len(saves[p]) /\ Len(saves[p]) \in Nat
    BY <1>1, SendFacts
  <1>4. /\ DOMAIN Edited(p).anns = page[p].edited
        /\ \A f \in page[p].edited : Edited(p).anns[f] = page[p].value[f]
        /\ Edited(p).heard /\ page[p].edited \subseteq Edits[p] \cap UserField
    BY <1>1, SendFacts DEF SavedInv, Sends
  <1>5. \A i \in DOMAIN saves'[p] :
            DOMAIN saves'[p][i].anns \subseteq Edits[p] \cap UserField
    <2> SUFFICES ASSUME NEW i \in DOMAIN saves'[p]
                 PROVE  DOMAIN saves'[p][i].anns \subseteq Edits[p] \cap UserField
      OBVIOUS
    <2>1. CASE i = Len(saves[p]) + 1
      BY <2>1, <1>3, <1>4
    <2>2. CASE i \in 1..Len(saves[p])
      BY <2>2, <1>3 DEF SavedInv, Sends
    <2>3. QED
      BY <2>1, <2>2, <1>3
  <1>6. ASSUME ~page'[p].overlap
        PROVE  Len(saves'[p]) = 1 /\ saves'[p] # <<>> /\ saves'[p][1] = Edited(p)
    <2>1. saves[p] = <<>>
      BY <1>2, <1>6
    <2>2. Len(saves[p]) = 0
      BY <2>1
    <2>3. Len(saves'[p]) = 1 /\ saves'[p][1] = Edited(p)
      BY <1>3, <2>2
    <2>4. QED
      BY <2>3
  <1>7. ASSUME ~page'[p].overlap, NEW f \in page'[p].edited PROVE Settled(p, f)'
    BY <1>2, <1>4, <1>6, <1>7 DEF Settled, InSave
  <1>8. \A f \in page'[p].edited :
            ~page'[p].timer /\ ~page'[p].overlap => Settled(p, f)'
    BY <1>7
  <1>9. page'[p].touched = page'[p].edited /\ page'[p].edited \subseteq Edits[p]
    BY <1>2, <1>4 DEF SavedInv, Sends
  <1>10. ASSUME ~page'[p].overlap PROVE Len(saves'[p]) <= 1
    <2>1. Len(saves'[p]) = 1
      BY <1>6, <1>10
    <2>2. QED
      BY <2>1
  <1>11. QED
    BY <1>1, <1>2, <1>5, <1>8, <1>9, <1>10, OwnStep

\* What is written, and what of the save is left
LEMMA WriteFacts ==
  ASSUME Types, Types', NEW p \in Page, NEW i, NEW f \in UserField,
         WriteAnnotation(p, i, f)
  PROVE  /\ saves[p] \in Seq(Save) /\ Len(saves[p]) \in Nat
         /\ i \in DOMAIN saves[p] /\ saves[p] # <<>> /\ f \in DOMAIN saves[p][i].anns
         /\ UNCHANGED <<page, apply, history, edits>>
         /\ \A g \in Field \ {f} : annotations'[g] = annotations[g]
         /\ annotations'[f] = saves[p][i].anns[f]
         /\ \A q \in Page \ {p} : saves'[q] = saves[q]
         /\ saves'[p] \in Seq(Save) /\ Len(saves'[p]) = Len(saves[p])
         /\ DOMAIN saves'[p] = DOMAIN saves[p] /\ saves'[p] # <<>>
         /\ \A j \in DOMAIN saves[p] \ {i} : saves'[p][j] = saves[p][j]
         /\ saves'[p][i].heard = saves[p][i].heard
         /\ DOMAIN saves'[p][i].anns = DOMAIN saves[p][i].anns \ {f}
         /\ \A g \in DOMAIN saves'[p][i].anns :
                saves'[p][i].anns[g] = saves[p][i].anns[g]
  <1>1. /\ saves[p] \in Seq(Save) /\ i \in DOMAIN saves[p]
        /\ saves \in [Page -> Seq(Save)] /\ annotations \in [Field -> Value]
        /\ saves'[p] \in Seq(Save)
    BY DEF WriteAnnotation, Types
  <1> DEFINE anns == saves[p][i].anns
             rest == Restrict(anns, DOMAIN anns \ {f})
             A == UNION {[S -> Value] : S \in SUBSET UserField}
  <1>2. saves[p][i] \in [anns: A, heard: BOOLEAN] /\ f \in DOMAIN anns
    <2>1. saves[p][i] \in Save /\ f \in DOMAIN anns
      BY <1>1, SaveFacts DEF WriteAnnotation
    <2>2. QED
      BY <2>1 DEF Save
  <1>3. /\ UNCHANGED <<page, apply, history, edits>>
        /\ \A g \in Field \ {f} : annotations'[g] = annotations[g]
        /\ annotations'[f] = anns[f]
    BY <1>1, FieldFacts DEF WriteAnnotation
  <1>4. DOMAIN rest = DOMAIN anns \ {f} /\ \A g \in DOMAIN rest : rest[g] = anns[g]
    BY DEF Restrict
  <1>5. saves' = [saves EXCEPT ![p] =
            [saves[p] EXCEPT ![i] = [saves[p][i] EXCEPT !.anns = rest]]]
    BY <1>1 DEF WriteAnnotation
  <1> HIDE DEF rest, A
  <1>6. saves'[p] = [saves[p] EXCEPT ![i] = [saves[p][i] EXCEPT !.anns = rest]]
    BY <1>1, <1>5
  <1>7. /\ Len(saves'[p]) = Len(saves[p]) /\ Len(saves[p]) \in Nat
        /\ DOMAIN saves'[p] = DOMAIN saves[p]
        /\ \A j \in DOMAIN saves[p] \ {i} : saves'[p][j] = saves[p][j]
        /\ saves'[p][i] = [saves[p][i] EXCEPT !.anns = rest]
    BY <1>1, <1>6
  <1>8. \A q \in Page \ {p} : saves'[q] = saves[q]
    BY <1>1, <1>5
  <1>9. saves'[p][i].anns = rest /\ saves'[p][i].heard = saves[p][i].heard
    BY <1>2, <1>7
  <1>10. saves[p] # <<>> /\ saves'[p] # <<>>
    BY <1>1, <1>7
  <1>11. QED
    BY <1>1, <1>2, <1>3, <1>4, <1>7, <1>8, <1>9, <1>10

\* Nobody else annotates with the field; what is written was sent last, or the
\* page has sent more
LEMMA WriteSaved ==
  ASSUME SavedInv, HiddenInv', OneAnnotator, NEW p \in Page, NEW i,
         NEW f \in UserField, WriteAnnotation(p, i, f)
  PROVE  SavedInv'
  <1>1. Types /\ Types'
    BY DEF SavedInv, HiddenInv
  <1> DEFINE anns == saves[p][i].anns
             rest == saves'[p][i].anns
  <1>2. /\ saves[p] \in Seq(Save) /\ Len(saves[p]) \in Nat
        /\ saves[p] # <<>> /\ saves'[p] # <<>>
        /\ i \in DOMAIN saves[p] /\ f \in DOMAIN anns
    BY <1>1, WriteFacts
  <1>3. /\ UNCHANGED <<page, history>>
        /\ \A g \in Field \ {f} : annotations'[g] = annotations[g]
        /\ annotations'[f] = anns[f]
    BY <1>1, WriteFacts
  <1>4. /\ \A q \in Page \ {p} : saves'[q] = saves[q]
        /\ Len(saves'[p]) = Len(saves[p]) /\ DOMAIN saves'[p] = DOMAIN saves[p]
        /\ \A j \in DOMAIN saves[p] \ {i} : saves'[p][j] = saves[p][j]
    BY <1>1, WriteFacts
  <1>5. /\ saves'[p][i].heard = saves[p][i].heard
        /\ DOMAIN rest = DOMAIN anns \ {f}
        /\ \A g \in DOMAIN rest : rest[g] = anns[g]
    BY <1>1, WriteFacts
  <1>6. Sends' /\ Alone'
    <2>1. \A j \in DOMAIN saves'[p] :
            /\ j \in DOMAIN saves[p]
            /\ DOMAIN saves'[p][j].anns \subseteq DOMAIN saves[p][j].anns
      <3>1. DOMAIN saves'[p][i].anns \subseteq DOMAIN saves[p][i].anns
        BY <1>5
      <3>2. QED
        BY <1>4, <3>1
    <2>2. QED
      BY <2>1, <1>3, <1>4 DEF SavedInv, Sends, Alone
  <1>7. f \in Edits[p]
    BY <1>2 DEF SavedInv, Sends
  <1>8. ASSUME NEW q \in Page, NEW g \in page[q].edited,
               ~page[q].timer, ~page[q].overlap
        PROVE  Settled(q, g)'
    <2>1. g \in Edits[q] /\ g \in Field /\ Settled(q, g)
      BY <1>8, FieldFacts
      DEF SavedInv, HiddenInv, Types, PageState, Sends, OnItsWay
    <2>2. CASE q # p
      <3>1. g # f
        BY <2>1, <2>2, <1>7 DEF OneAnnotator
      <3>2. Stored(q, g) => Stored(q, g)'
        BY <3>1, <2>1, <1>3 DEF Stored
      <3>3. saves'[q] = saves[q]
        BY <1>4, <2>2
      <3>4. QED
        BY <2>1, <3>2, <3>3, <1>3 DEF Settled, InSave
    <2>3. CASE q = p
      <3>1. i = 1
        <4>1. Len(saves[p]) <= 1
          BY <1>8, <2>3 DEF SavedInv, Alone
        <4>2. QED
          BY <1>2, <4>1, RemoveFacts
      <3>2. InSave(p, g)
        BY <1>2, <2>1, <2>3 DEF Settled
      <3>3. CASE g \in DOMAIN rest
        BY <3>1, <3>2, <3>3, <1>2, <1>3, <1>5, <2>3 DEF Settled, InSave
      <3>4. CASE g = f
        BY <3>1, <3>2, <3>4, <1>2, <1>3, <1>5, <2>3 DEF Settled, InSave, Stored
      <3>5. CASE g \notin DOMAIN anns
        BY <3>1, <3>2, <3>5, <1>2, <1>3, <1>5, <2>1, <2>3
        DEF Settled, InSave, Stored
      <3>6. QED
        BY <3>3, <3>4, <3>5, <1>5
    <2>4. QED
      BY <2>2, <2>3
  <1>9. OnItsWay'
    BY <1>3, <1>8 DEF OnItsWay
  <1>10. QED
    BY <1>6, <1>9 DEF SavedInv

\* A save ends, with the outcome that the page shows
LEMMA EndSaved ==
  ASSUME SavedInv, HiddenInv', NEW p \in Page, NEW i \in DOMAIN saves[p],
         NEW o, page' = [page EXCEPT ![p].outcome = o],
         saves' = [saves EXCEPT ![p] = RemoveAt(saves[p], i)],
         UNCHANGED <<annotations, history>>,
         \/ saves[p][i].heard => o = "failed"
         \/ DOMAIN saves[p][i].anns = {}
  PROVE  SavedInv'
  <1>1. /\ page[p] \in PageState /\ page \in [Page -> PageState]
        /\ saves \in [Page -> Seq(Save)] /\ saves[p] \in Seq(Save)
        /\ saves[p] # <<>>
    BY DEF SavedInv, HiddenInv, Types
  <1>2. /\ page'[p].touched = page[p].touched
        /\ page'[p].edited = page[p].edited
        /\ page'[p].value = page[p].value
        /\ page'[p].timer = page[p].timer
        /\ page'[p].overlap = page[p].overlap
        /\ page'[p].outcome = o
    BY <1>1 DEF PageState
  <1>3. \A q \in Page \ {p} : page'[q] = page[q] /\ saves'[q] = saves[q]
    BY <1>1
  <1>4. /\ \A j \in DOMAIN saves'[p] : \E k \in DOMAIN saves[p] :
                saves'[p][j] = saves[p][k]
        /\ Len(saves[p]) <= 1 => i = 1 /\ saves'[p] = <<>>
        /\ Len(saves'[p]) = Len(saves[p]) - 1 /\ Len(saves[p]) \in Nat
    BY <1>1, RemoveFacts
  <1>5. \A j \in DOMAIN saves'[p] :
            DOMAIN saves'[p][j].anns \subseteq Edits[p] \cap UserField
    BY <1>4 DEF SavedInv, Sends
  <1>6. ~page'[p].overlap => Len(saves'[p]) <= 1
    BY <1>2, <1>4 DEF SavedInv, Alone
  <1>7. ASSUME NEW f \in page[p].edited, ~page[p].timer, ~page[p].overlap
        PROVE  Settled(p, f)'
    <2>1. InSave(p, f) /\ i = 1 /\ saves'[p] = <<>>
      BY <1>1, <1>4, <1>7 DEF SavedInv, OnItsWay, Alone, Settled
    <2>2. Stored(p, f) => Stored(p, f)'
      BY <1>2 DEF Stored
    <2>3. o = "failed" \/ Stored(p, f)
      BY <2>1 DEF InSave
    <2>4. QED
      BY <1>2, <2>1, <2>2, <2>3 DEF Settled
  <1>8. page'[p].touched = page'[p].edited /\ page'[p].edited \subseteq Edits[p]
    BY <1>2 DEF SavedInv, Sends
  <1>9. QED
    BY <1>2, <1>3, <1>5, <1>6, <1>7, <1>8, OwnStep

\* A page that is loaded anew has nothing edited, and its saves go on
LEMMA ReloadFacts ==
  ASSUME Types, NEW p \in Page, Reload(p)
  PROVE  /\ page'[p].edited = {} /\ page'[p].touched = {}
         /\ page'[p].overlap = page[p].overlap
         /\ \A q \in Page \ {p} : page'[q] = page[q] /\ saves'[q] = saves[q]
         /\ Len(saves'[p]) = Len(saves[p]) /\ DOMAIN saves'[p] = DOMAIN saves[p]
         /\ \A i \in DOMAIN saves[p] : saves'[p][i].anns = saves[p][i].anns
  <1>1. /\ page \in [Page -> PageState] /\ saves \in [Page -> Seq(Save)]
        /\ saves[p] \in Seq(Save)
    BY DEF Types
  <1>2. /\ page'[p].edited = {} /\ page'[p].touched = {}
        /\ page'[p].overlap = page[p].overlap
    BY <1>1 DEF Reload, Loaded
  <1>3. \A q \in Page \ {p} : page'[q] = page[q] /\ saves'[q] = saves[q]
    BY <1>1 DEF Reload
  <1>4. saves'[p] = [i \in DOMAIN saves[p] |-> [saves[p][i] EXCEPT !.heard = FALSE]]
    BY <1>1 DEF Reload
  <1>5. \A i \in DOMAIN saves[p] : saves[p][i] \in Save
    BY <1>1
  <1>6. \A i \in DOMAIN saves[p] :
            [saves[p][i] EXCEPT !.heard = FALSE].anns = saves[p][i].anns
    BY <1>5 DEF Save
  <1>7. DOMAIN saves'[p] = DOMAIN saves[p]
    BY <1>4
  <1>8. Len(saves'[p]) = Len(saves[p])
    <2>1. saves'[p] \in Seq(Save)
      BY ReloadTypes
    <2>2. QED
      BY <1>1, <1>7, <2>1
  <1>9. QED
    BY <1>2, <1>3, <1>4, <1>6, <1>7, <1>8

LEMMA ReloadSaved ==
  ASSUME SavedInv, HiddenInv', NEW p \in Page, Reload(p),
         UNCHANGED <<annotations, history>>
  PROVE  SavedInv'
  <1>1. /\ page'[p].edited = {} /\ page'[p].touched = {}
        /\ \A q \in Page \ {p} : page'[q] = page[q] /\ saves'[q] = saves[q]
    BY ReloadFacts DEF SavedInv, HiddenInv
  <1>2. \A i \in DOMAIN saves'[p] :
            DOMAIN saves'[p][i].anns \subseteq Edits[p] \cap UserField
    BY ReloadFacts DEF SavedInv, HiddenInv, Sends
  <1>3. ~page'[p].overlap => Len(saves'[p]) <= 1
    BY ReloadFacts DEF SavedInv, HiddenInv, Alone
  <1>4. QED
    BY <1>1, <1>2, <1>3, OwnStep

\* Processors and deletions of children touch nothing of people's
LEMMA ChildrenApart ==
  ASSUME Types, NEW c \in Child, ProcessorStep(c) \/ DeletionStep(c)
  PROVE  /\ \A f \in UserField : annotations'[f] = annotations[f]
         /\ UNCHANGED <<page, saves, apply, edits, history>>
  <1>1. \A f \in UserField : annotations'[f] = annotations[f]
    BY AnnotationsAssumption, FieldFacts
    DEF Types, ProcessorStep, DeletionStep,
        StartProcessor, NextItem, SaveBatch, SaveFields, FinishProcessor,
        ProcessorFails, StopWorker, DeleteRows, ReadRelated, RemoveField,
        DeleteDataset
  <1>2. UNCHANGED <<page, saves, apply, edits, history>>
    BY DEF ProcessorStep, DeletionStep, pageVars,
        StartProcessor, NextItem, SaveBatch, SaveFields, FinishProcessor,
        ProcessorFails, StopWorker, DeleteRows, ReadRelated, RemoveField,
        DeleteDataset
  <1>3. QED
    BY <1>1, <1>2

\* What rewrites values is recorded
LEMMA WriteValueFacts ==
  ASSUME Types, NEW p \in Page, NEW f \in Field, WriteValue(p, f)
  PROVE  /\ UNCHANGED <<page, saves, edits>>
         /\ \A g \in Field \ {f} : annotations'[g] = annotations[g]
         /\ annotations'[f] \in {apply[p].values[f], Empty, annotations[f]}
         /\ f \in UserField => history'[f] = "altered"
         /\ \A g \in UserField : history[g] = "altered" => history'[g] = "altered"
  <1>1. UNCHANGED <<page, saves, edits>> /\ annotations \in [Field -> Value]
    BY DEF WriteValue, Types
  <1>2. PICK v \in {apply[p].values[f], Empty, annotations[f]} :
            annotations' = IF annotations[f] = NoRow THEN annotations
                           ELSE [annotations EXCEPT ![f] = v]
    BY DEF WriteValue
  <1>3. /\ f \in UserField => history'[f] = "altered"
        /\ \A g \in UserField : history[g] = "altered" => history'[g] = "altered"
    BY DEF WriteValue
  <1>4. QED
    BY <1>1, <1>2, <1>3

LEMMA NextSaved ==
  ASSUME OneAnnotator, SavedInv, [Next]_vars
  PROVE  SavedInv'
  <1>1. HiddenInv'
    BY NextHidden DEF SavedInv
  <1>2. ASSUME NEW p \in Page, PageStep(p) PROVE SavedInv'
    <2>1. CASE \E f \in UserField : markChanges(p, f)
      BY <1>1, <2>1, MarkSaved
    <2>2. CASE saveAnnotations(p)
      BY <1>1, <2>2, SaveSaved
    <2>3. CASE \E i \in 1..MaxInFlight, f \in UserField : WriteAnnotation(p, i, f)
      BY <1>1, <2>3, WriteSaved
    <2>4. ASSUME NEW i, SaveAnswered(p, i) PROVE SavedInv'
      <3> DEFINE o == IF saves[p][i].heard THEN "saved" ELSE page[p].outcome
      <3>1. page' = [page EXCEPT ![p].outcome = o]
        BY <2>4 DEF SaveAnswered
      <3> HIDE DEF o
      <3>2. QED
        BY <1>1, <2>4, <3>1, EndSaved DEF SaveAnswered, serverVars
    <2>5. ASSUME NEW i, SaveFails(p, i) PROVE SavedInv'
      <3> DEFINE o == IF saves[p][i].heard THEN "failed" ELSE page[p].outcome
      <3>1. page' = [page EXCEPT ![p].outcome = o]
        BY <2>5 DEF SaveFails
      <3>2. saves[p][i].heard => o = "failed"
        OBVIOUS
      <3> HIDE DEF o
      <3>3. QED
        BY <1>1, <2>5, <3>1, <3>2, EndSaved DEF SaveFails, serverVars
    <2>6. CASE Load(p)
      BY <1>1, <2>6, ReloadSaved DEF Load, serverVars
    <2>7. QED
      BY <1>2, <2>1, <2>2, <2>3, <2>4, <2>5, <2>6
      DEF PageStep, TimerFires, SaveButton, SaveStep
  <1>3. ASSUME NEW p \in Page, FieldsStep(p) PROVE SavedInv'
    <2>1. CASE \E new \in EditorFields(p) : applyAnnotationFields(p, new)
      BY <1>1, <2>1, SavedKept DEF applyAnnotationFields, serverVars, Fresh
    <2>2. CASE ReadFields(p) \/ WriteFields(p) \/ ApplyFails(p)
      BY <1>1, <2>2, SavedKept DEF ReadFields, WriteFields, ApplyFails, serverVars
    <2>3. CASE DeleteAnnotations(p)
      BY <1>1, <2>3, SavedKept, FieldFacts DEF DeleteAnnotations
    <2>4. ASSUME NEW f \in Field, ReadValue(p, f) PROVE SavedInv'
      BY <1>1, <2>4, SavedKept DEF ReadValue, serverVars
    <2>5. ASSUME NEW f \in Field, WriteValue(p, f) PROVE SavedInv'
      <3>1. \A g \in UserField :
                /\ annotations'[g] = annotations[g] \/ history'[g] = "altered"
                /\ history[g] = "altered" => history'[g] = "altered"
        BY <2>5, WriteValueFacts, FieldFacts DEF SavedInv, HiddenInv
      <3>2. UNCHANGED <<page, saves>>
        BY <2>5 DEF WriteValue
      <3>3. QED
        BY <1>1, <3>1, <3>2, SavedKept
    <2>6. CASE OptionsUpdated(p)
      BY <1>1, <2>6, SavedKept DEF OptionsUpdated, serverVars
    <2>7. CASE Applied(p)
      BY <1>1, <2>7, ReloadSaved DEF Applied, serverVars
    <2>8. QED
      BY <1>3, <2>1, <2>2, <2>3, <2>4, <2>5, <2>6, <2>7 DEF FieldsStep
  <1>4. CASE ReadForLabel \/ WriteLabel
    BY <1>1, <1>4, SavedKept DEF ReadForLabel, WriteLabel, serverVars
  <1>5. ASSUME NEW c \in Child, ProcessorStep(c) \/ DeletionStep(c)
        PROVE  SavedInv'
    BY <1>1, <1>5, ChildrenApart, SavedKept DEF SavedInv, HiddenInv
  <1>6. CASE UNCHANGED vars
    BY <1>1, <1>6, SavedKept DEF vars
  <1>7. QED
    BY <1>2, <1>3, <1>4, <1>5, <1>6 DEF Next

\* In whatever order the server works on saves and whichever of them fail, and
\* whenever the page is loaded anew: a page that waits for nothing and whose
\* last save did not fail shows what is stored, unless the save was sent while
\* another was under way.  (If nobody else annotates with the page's fields.)
THEOREM QuietAlwaysSaved ==
  ASSUME OneAnnotator
  PROVE  Spec => []QuietIsSaved
  <1>1. SavedInv => QuietIsSaved
    BY DEF SavedInv, Sends, OnItsWay, QuietIsSaved, Quiet, Settled, Stored
  <1>2. SavedInv /\ [Next]_vars => SavedInv'
    BY NextSaved
  <1>3. QED
    BY <1>1, <1>2, InitSaved, PTL DEF Spec

-----------------------------------------------------------------------------
(* Saves write newer values                                                *)

\* The saves of p that are yet to write the annotation with f, and their values
Pending(p, f) == {i \in DOMAIN saves[p] : f \in DOMAIN saves[p][i].anns}
Sent(p, i, f) == saves[p][i].anns[f]

\* No value for f is newer than n: what is stored, and what a request that
\* changes options has read and may write again
Latest(f, n) ==
    /\ annotations[f] <= n
    /\ \A q \in Page : apply[q].values[f] <= n

\* What a page has is the newest there is of it, and a save that was not sent
\* while another was under way has nothing older than what is stored
Ascending(p, f) ==
    /\ \A i \in Pending(p, f) :
            /\ 0 <= Sent(p, i, f) /\ Sent(p, i, f) <= edits
            /\ ~page[p].overlap => Latest(f, Sent(p, i, f))
    /\ f \in page[p].edited =>
            /\ 0 <= page[p].value[f] /\ page[p].value[f] <= edits
            /\ Latest(f, page[p].value[f])
            /\ \A i \in Pending(p, f) : Sent(p, i, f) <= page[p].value[f]

\* A value that has been read is that of a field whose options have changed
ReadForOptions ==
    \A p \in Page : \A f \in Field : apply[p].values[f] # NoRow =>
        apply[p].stage = "options" /\ f \in apply[p].options

OrderInv ==
    /\ SavedInv
    /\ ReadForOptions
    /\ \A f \in UserField : Latest(f, edits)
    /\ \A p \in Page, f \in UserField : Ascending(p, f)

LEMMA Numbers ==
  ASSUME Types, NEW p \in Page, NEW f \in UserField
  PROVE  /\ annotations[f] \in Int /\ edits \in Nat
         /\ NoRow <= annotations[f] \/ annotations[f] = Empty
         /\ page[p].value[f] \in Int /\ apply[p].values[f] \in Int
         /\ \A i \in Pending(p, f) : Sent(p, i, f) \in Int
  <1>1. Value \subseteq Int /\ edits \in Nat
    BY AnnotationsAssumption DEF Value, Empty, Types
  <1>2. annotations[f] \in Value /\ page[p].value[f] \in Value
        /\ apply[p].values[f] \in Value
    BY FieldFacts DEF Types, PageState, Application
  <1>3. ASSUME NEW i \in Pending(p, f) PROVE Sent(p, i, f) \in Value
    <2>1. saves[p] \in Seq(Save) /\ i \in DOMAIN saves[p]
      BY DEF Types, Pending
    <2>2. saves[p][i] \in Save
      BY <2>1
    <2>3. PICK S \in SUBSET UserField : saves[p][i].anns \in [S -> Value]
      BY <2>2 DEF Save
    <2>4. f \in S
      BY <2>3 DEF Pending
    <2>5. QED
      BY <2>3, <2>4 DEF Sent
  <1>4. NoRow <= annotations[f] \/ annotations[f] = Empty
    BY <1>2, AnnotationsAssumption DEF Value, Empty, NoRow
  <1>5. QED
    BY <1>1, <1>2, <1>3, <1>4

\* Values that are bounded stay so where they are bounded by what was there
LEMMA LatestKept ==
  ASSUME Types, Types', NEW f \in UserField, NEW n \in Int, 0 <= n, Latest(f, n),
         \/ annotations'[f] = annotations[f]
         \/ annotations'[f] \in {NoRow, Empty}
         \/ \E p \in Page : annotations'[f] = apply[p].values[f],
         \A q \in Page : \/ apply'[q].values[f] = apply[q].values[f]
                         \/ apply'[q].values[f] \in {NoRow, annotations[f]}
  PROVE  Latest(f, n)'
  <1>1. NoRow <= n /\ Empty <= n
    BY DEF NoRow, Empty
  <1>2. annotations'[f] <= n
    BY <1>1 DEF Latest
  <1>3. \A q \in Page : apply'[q].values[f] <= n
    BY <1>1 DEF Latest
  <1>4. QED
    BY <1>2, <1>3 DEF Latest

LEMMA LatestTrans ==
  ASSUME Types, NEW f \in UserField, NEW m \in Int, NEW n \in Int,
         Latest(f, m), m <= n
  PROVE  Latest(f, n)
  <1>1. annotations[f] \in Int /\ \A q \in Page : apply[q].values[f] \in Int
    BY FieldFacts, AnnotationsAssumption
    DEF Types, Application, Value, Empty
  <1>2. QED
    BY <1>1 DEF Latest

LEMMA InitOrder == Init => OrderInv
  <1> SUFFICES ASSUME Init PROVE OrderInv
    OBVIOUS
  <1>1. SavedInv
    BY InitSaved
  <1>2. \A p \in Page : \A f \in Field : apply[p].values[f] = NoRow
    BY DEF Init, NotApplying, Unread
  <1>3. ReadForOptions
    BY <1>2 DEF ReadForOptions
  <1>4. \A f \in UserField : Latest(f, edits)
    BY <1>2, FieldFacts DEF Init, Latest, NoRow
  <1>5. \A p \in Page : page[p].edited = {} /\ saves[p] = <<>>
    BY DEF Init
  <1>6. \A p \in Page, f \in UserField : Ascending(p, f)
    BY <1>5 DEF Ascending, Pending
  <1>7. QED
    BY <1>1, <1>3, <1>4, <1>6 DEF OrderInv

\* Steps after which bounded values are bounded: saves go or stay, the page
\* stays as it is or has nothing edited
LEMMA AscendingKept ==
  ASSUME OrderInv, NEW p \in Page, NEW f \in UserField,
         edits \in Nat, edits' \in Nat, edits <= edits',
         \A n \in Nat : Latest(f, n) => Latest(f, n)',
         \A i \in Pending(p, f)' : \E j \in Pending(p, f) :
            Sent(p, i, f)' = Sent(p, j, f),
         page'[p].overlap = page[p].overlap,
         \/ page'[p].edited = {}
         \/ /\ page'[p].edited = page[p].edited
            /\ page'[p].value = page[p].value
  PROVE  Ascending(p, f)'
  <1>1. /\ page[p].value[f] \in Int
        /\ \A i \in Pending(p, f) : Sent(p, i, f) \in Int
    BY Numbers DEF OrderInv, SavedInv, HiddenInv
  <1>2. Ascending(p, f)
    BY DEF OrderInv
  <1>3. ASSUME NEW i \in Pending(p, f)'
        PROVE  /\ 0 <= Sent(p, i, f)' /\ Sent(p, i, f)' <= edits'
               /\ ~page'[p].overlap => Latest(f, Sent(p, i, f))'
    <2>1. PICK j \in Pending(p, f) : Sent(p, i, f)' = Sent(p, j, f)
      OBVIOUS
    <2>2. /\ Sent(p, j, f) \in Nat /\ Sent(p, j, f) <= edits
          /\ ~page[p].overlap => Latest(f, Sent(p, j, f))
      BY <1>1, <1>2 DEF Ascending
    <2>3. Latest(f, Sent(p, j, f)) => Latest(f, Sent(p, i, f))'
      BY <2>1, <2>2 DEF Latest
    <2>4. Sent(p, j, f) <= edits'
      BY <2>2
    <2>5. QED
      BY <2>1, <2>2, <2>3, <2>4
  <1>4. ASSUME f \in page'[p].edited
        PROVE  /\ 0 <= page'[p].value[f] /\ page'[p].value[f] <= edits'
               /\ Latest(f, page[p].value[f])'
               /\ \A i \in Pending(p, f)' : Sent(p, i, f)' <= page'[p].value[f]
    <2>1. f \in page[p].edited /\ page'[p].value[f] = page[p].value[f]
      BY <1>4
    <2>2. /\ page[p].value[f] \in Nat /\ page[p].value[f] <= edits
          /\ Latest(f, page[p].value[f])
          /\ \A i \in Pending(p, f) : Sent(p, i, f) <= page[p].value[f]
      BY <1>1, <1>2, <2>1 DEF Ascending
    <2>3. Latest(f, page[p].value[f])'
      BY <2>1, <2>2 DEF Latest
    <2>4. page[p].value[f] <= edits'
      BY <2>2
    <2>5. QED
      BY <2>1, <2>2, <2>3, <2>4
  <1>5. QED
    BY <1>3, <1>4 DEF Ascending

\* where nothing happens to the pages, the saves or the edits
LEMMA OrderKept ==
  ASSUME OrderInv, SavedInv', ReadForOptions',
         UNCHANGED <<page, saves, edits>>,
         \A f \in UserField :
            /\ \/ annotations'[f] = annotations[f]
               \/ annotations'[f] \in {NoRow, Empty}
               \/ \E p \in Page : annotations'[f] = apply[p].values[f]
            /\ \A q \in Page : \/ apply'[q].values[f] = apply[q].values[f]
                               \/ apply'[q].values[f] \in {NoRow, annotations[f]}
  PROVE  OrderInv'
  <1>1. Types' /\ Types
    BY DEF SavedInv, HiddenInv, OrderInv
  <1>2. edits \in Nat
    BY <1>1, AnnotationsAssumption DEF Types
  <1>3. ASSUME NEW f \in UserField, NEW n \in Nat, Latest(f, n)
        PROVE  Latest(f, n)'
    BY <1>1, <1>3, LatestKept
  <1>4. \A f \in UserField : Latest(f, edits)'
    BY <1>2, <1>3 DEF OrderInv, Latest
  <1>5. ASSUME NEW p \in Page, NEW f \in UserField PROVE Ascending(p, f)'
    <2>1. Pending(p, f)' = Pending(p, f)
          /\ \A i \in Pending(p, f) : Sent(p, i, f)' = Sent(p, i, f)
      BY DEF Pending, Sent
    <2>2. QED
      BY <1>2, <1>3, <2>1, AscendingKept
  <1>6. QED
    BY <1>4, <1>5 DEF OrderInv

\* Steps of a page that write no annotation and read none
LEMMA OwnOrder ==
  ASSUME OrderInv, SavedInv', NEW p \in Page,
         \A q \in Page \ {p} : page'[q] = page[q] /\ saves'[q] = saves[q],
         UNCHANGED annotations, edits <= edits',
         \A q \in Page : \/ apply'[q] = apply[q]
                         \/ apply'[q] = NotApplying,
         \A f \in UserField : Ascending(p, f)'
  PROVE  OrderInv'
  <1>1. Types' /\ Types
    BY DEF SavedInv, HiddenInv, OrderInv
  <1>2. edits \in Nat /\ edits' \in Nat
    BY <1>1, AnnotationsAssumption DEF Types
  <1>3. \A f \in Field : NotApplying.values[f] = NoRow
    BY DEF NotApplying, Unread
  <1>4. ASSUME NEW f \in UserField, NEW n \in Nat, Latest(f, n)
        PROVE  Latest(f, n)'
    BY <1>1, <1>3, <1>4, LatestKept, FieldFacts
  <1>5. ASSUME NEW f \in UserField PROVE Latest(f, edits)'
    <2>1. Latest(f, edits')
      BY <1>1, <1>2, LatestTrans DEF OrderInv
    <2>2. QED
      BY <1>2, <1>4, <2>1 DEF Latest
  <1>6. ReadForOptions'
    BY <1>3 DEF OrderInv, ReadForOptions
  <1>7. ASSUME NEW q \in Page \ {p}, NEW f \in UserField PROVE Ascending(q, f)'
    <2>1. Pending(q, f)' = Pending(q, f)
          /\ \A i \in Pending(q, f) : Sent(q, i, f)' = Sent(q, i, f)
      BY DEF Pending, Sent
    <2>2. QED
      BY <1>2, <1>4, <2>1, AscendingKept
  <1>8. QED
    BY <1>5, <1>6, <1>7 DEF OrderInv

\* An edit is newer than all others
LEMMA MarkOrder ==
  ASSUME OrderInv, SavedInv', NEW p \in Page, NEW g \in UserField,
         markChanges(p, g)
  PROVE  OrderInv'
  <1>1. Types /\ Types'
    BY DEF SavedInv, HiddenInv, OrderInv
  <1>2. page[p] \in PageState /\ page \in [Page -> PageState]
    BY <1>1 DEF Types
  <1>3. /\ page'[p].edited = page[p].edited \cup {g}
        /\ page'[p].value = [page[p].value EXCEPT ![g] = edits + 1]
        /\ page'[p].overlap = page[p].overlap
    BY <1>2 DEF markChanges, PageState
  <1>4. page[p].value \in [UserField -> Value]
    BY <1>2 DEF PageState
  <1>5. \A q \in Page \ {p} : page'[q] = page[q]
    BY <1>2 DEF markChanges
  <1>6. UNCHANGED <<saves, annotations, apply>> /\ edits' = edits + 1 /\ edits \in Nat
    BY <1>1, AnnotationsAssumption DEF markChanges, serverVars, Types
  <1>7. ASSUME NEW f \in UserField PROVE Ascending(p, f)'
    <2>1. /\ page[p].value[f] \in Int
          /\ \A i \in Pending(p, f) : Sent(p, i, f) \in Int
      BY <1>1, Numbers
    <2>2. /\ Pending(p, f)' = Pending(p, f)
          /\ \A i \in Pending(p, f) : Sent(p, i, f)' = Sent(p, i, f)
          /\ \A n : Latest(f, n)' = Latest(f, n)
      BY <1>6 DEF Pending, Sent, Latest
    <2>3. Ascending(p, f) /\ Latest(f, edits)
      BY DEF OrderInv
    <2>4. \A i \in Pending(p, f)' :
            /\ 0 <= Sent(p, i, f)' /\ Sent(p, i, f)' <= edits'
            /\ ~page'[p].overlap => Latest(f, Sent(p, i, f))'
      <3>1. \A i \in Pending(p, f)' :
                0 <= Sent(p, i, f)' /\ Sent(p, i, f)' <= edits'
        BY <1>6, <2>1, <2>2, <2>3 DEF Ascending
      <3>2. \A i \in Pending(p, f)' : ~page'[p].overlap => Latest(f, Sent(p, i, f))'
        BY <1>3, <1>6, <2>2, <2>3 DEF Ascending, Latest
      <3>3. QED
        BY <3>1, <3>2
    <2>5. CASE f = g
      <3>1. page'[p].value[f] = edits + 1
        BY <1>3, <1>4, <2>5
      <3>2. Latest(f, edits + 1)
        BY <1>1, <1>6, <2>3, LatestTrans
      <3>3. Latest(f, page[p].value[f])'
        BY <1>6, <3>1, <3>2 DEF Latest
      <3>4. \A i \in Pending(p, f)' : Sent(p, i, f)' <= edits + 1
        BY <1>6, <2>1, <2>2, <2>3 DEF Ascending
      <3>5. QED
        BY <1>6, <2>4, <3>1, <3>3, <3>4 DEF Ascending
    <2>6. CASE f # g
      <3>1. page'[p].value[f] = page[p].value[f]
            /\ (f \in page'[p].edited => f \in page[p].edited)
        BY <1>3, <1>4, <2>6
      <3>2. ASSUME f \in page'[p].edited
            PROVE  /\ 0 <= page'[p].value[f] /\ page'[p].value[f] <= edits'
                   /\ Latest(f, page[p].value[f])'
                   /\ \A i \in Pending(p, f)' : Sent(p, i, f)' <= page'[p].value[f]
        <4>1. /\ 0 <= page[p].value[f] /\ page[p].value[f] <= edits
              /\ Latest(f, page[p].value[f])
              /\ \A i \in Pending(p, f) : Sent(p, i, f) <= page[p].value[f]
          BY <2>3, <3>1, <3>2 DEF Ascending
        <4>2. Latest(f, page[p].value[f])'
          BY <1>6, <3>1, <4>1 DEF Latest
        <4>3. page[p].value[f] <= edits'
          BY <1>6, <2>1, <4>1
        <4>4. QED
          BY <2>2, <3>1, <4>1, <4>2, <4>3
      <3>3. QED
        BY <2>4, <3>2 DEF Ascending
    <2>7. QED
      BY <2>5, <2>6
  <1>8. edits <= edits'
    BY <1>6
  <1>9. QED
    BY <1>5, <1>6, <1>7, <1>8, OwnOrder

\* A save sends the newest values there are
LEMMA SaveOrder ==
  ASSUME OrderInv, SavedInv', NEW p \in Page, saveAnnotations(p)
  PROVE  OrderInv'
  <1>1. Types /\ Types'
    BY DEF SavedInv, HiddenInv, OrderInv
  <1>2. /\ page'[p].edited = page[p].edited
        /\ page'[p].value = page[p].value
        /\ page'[p].overlap = (saves[p] # <<>>)
        /\ \A q \in Page \ {p} : page'[q] = page[q] /\ saves'[q] = saves[q]
    BY <1>1, SendFacts
  <1>3. /\ saves[p] \in Seq(Save)
        /\ DOMAIN saves[p] = 1..Len(saves[p]) /\ Len(saves[p]) \in Nat
        /\ DOMAIN saves'[p] = 1..(Len(saves[p]) + 1)
        /\ \A i \in 1..Len(saves[p]) : saves'[p][i] = saves[p][i]
        /\ saves'[p][Len(saves[p]) + 1] = Edited(p)
    BY <1>1, SendFacts
  <1>4. /\ DOMAIN Edited(p).anns = page[p].edited
        /\ \A f \in page[p].edited : Edited(p).anns[f] = page[p].value[f]
    BY <1>1, SendFacts
  <1>5. UNCHANGED <<annotations, edits, apply>> /\ edits \in Nat /\ edits <= edits'
    BY <1>1, AnnotationsAssumption DEF saveAnnotations, serverVars, Types
  <1>6. ASSUME NEW f \in UserField PROVE Ascending(p, f)'
    <2>1. /\ page[p].value[f] \in Int
          /\ \A i \in Pending(p, f) : Sent(p, i, f) \in Int
      BY <1>1, Numbers
    <2>2. \A i \in Pending(p, f)' :
            \/ /\ i \in Pending(p, f) /\ Sent(p, i, f)' = Sent(p, i, f)
               /\ page'[p].overlap
            \/ f \in page[p].edited /\ Sent(p, i, f)' = page[p].value[f]
      <3>1. ASSUME NEW i \in 1..Len(saves[p]), i \in Pending(p, f)'
            PROVE  /\ i \in Pending(p, f) /\ Sent(p, i, f)' = Sent(p, i, f)
                   /\ page'[p].overlap
        <4>1. i \in Pending(p, f) /\ Sent(p, i, f)' = Sent(p, i, f)
          BY <1>3, <3>1 DEF Pending, Sent
        <4>2. saves[p] # <<>>
          BY <1>3, <3>1
        <4>3. QED
          BY <1>2, <4>1, <4>2
      <3>2. ASSUME NEW i \in Pending(p, f)', i = Len(saves[p]) + 1
            PROVE  /\ f \in page[p].edited
                   /\ Sent(p, i, f)' = page[p].value[f]
        <4>1. saves'[p][i] = Edited(p)
          BY <1>3, <3>2
        <4>2. f \in DOMAIN Edited(p).anns /\ Sent(p, i, f)' = Edited(p).anns[f]
          BY <3>2, <4>1 DEF Pending, Sent
        <4>3. QED
          BY <1>4, <4>2
      <3>3. \A i \in Pending(p, f)' :
                i \in 1..Len(saves[p]) \/ i = Len(saves[p]) + 1
        BY <1>3 DEF Pending
      <3>4. QED
        BY <3>1, <3>2, <3>3
    <2>3. Ascending(p, f)
      BY DEF OrderInv
    <2>4. \A n : Latest(f, n)' = Latest(f, n)
      BY <1>5 DEF Latest
    <2>5. ASSUME NEW i \in Pending(p, f)'
          PROVE  /\ 0 <= Sent(p, i, f)' /\ Sent(p, i, f)' <= edits'
                 /\ ~page'[p].overlap => Latest(f, Sent(p, i, f))'
                 /\ f \in page[p].edited => Sent(p, i, f)' <= page[p].value[f]
      <3>1. CASE /\ i \in Pending(p, f) /\ Sent(p, i, f)' = Sent(p, i, f)
                 /\ page'[p].overlap
        BY <1>5, <2>3, <3>1 DEF Ascending
      <3>2. CASE f \in page[p].edited /\ Sent(p, i, f)' = page[p].value[f]
        <4>1. /\ 0 <= page[p].value[f] /\ page[p].value[f] <= edits
              /\ Latest(f, page[p].value[f])
          BY <2>3, <3>2 DEF Ascending
        <4>2. Latest(f, Sent(p, i, f))'
          BY <1>5, <3>2, <4>1 DEF Latest
        <4>3. QED
          BY <1>5, <2>1, <3>2, <4>1, <4>2
      <3>3. QED
        BY <2>2, <3>1, <3>2
    <2>6. f \in page'[p].edited =>
            /\ 0 <= page'[p].value[f] /\ page'[p].value[f] <= edits'
            /\ Latest(f, page[p].value[f])'
      BY <1>2, <1>5, <2>3 DEF Ascending, Latest
    <2>7. QED
      BY <1>2, <2>5, <2>6 DEF Ascending
  <1>7. QED
    BY <1>2, <1>5, <1>6, OwnOrder

\* A save that is the only one writes nothing older than what was there, and
\* nothing newer than what the page has
LEMMA WriteOrder ==
  ASSUME OrderInv, SavedInv', OneAnnotator, NEW p \in Page, NEW i,
         NEW g \in UserField, WriteAnnotation(p, i, g)
  PROVE  /\ OrderInv'
         /\ page[p].overlap \/ annotations'[g] >= annotations[g]
         /\ g \in Edits[p]
  <1>1. Types /\ Types'
    BY DEF SavedInv, HiddenInv, OrderInv
  <1>2. /\ saves[p] \in Seq(Save) /\ i \in DOMAIN saves[p]
        /\ UNCHANGED <<page, edits, apply>>
        /\ \A f \in Field \ {g} : annotations'[f] = annotations[f]
        /\ annotations'[g] = Sent(p, i, g) /\ i \in Pending(p, g)
    BY <1>1, WriteFacts DEF Sent, Pending
  <1>3. \A q \in Page, f \in UserField :
            /\ Pending(q, f)' \subseteq Pending(q, f)
            /\ \A j \in Pending(q, f)' : Sent(q, j, f)' = Sent(q, j, f)
            /\ q = p /\ f = g => i \notin Pending(q, f)'
    <2>1. \A q \in Page \ {p} : saves'[q] = saves[q]
      BY <1>1, WriteFacts
    <2>2. /\ DOMAIN saves'[p] = DOMAIN saves[p]
          /\ \A j \in DOMAIN saves[p] \ {i} : saves'[p][j] = saves[p][j]
      BY <1>1, WriteFacts
    <2>3. /\ DOMAIN saves'[p][i].anns = DOMAIN saves[p][i].anns \ {g}
          /\ \A f \in DOMAIN saves'[p][i].anns :
                saves'[p][i].anns[f] = saves[p][i].anns[f]
      BY <1>1, WriteFacts
    <2>4. QED
      BY <2>1, <2>2, <2>3, Zenon DEF Pending, Sent
  <1>4. g \in Edits[p] /\ Ascending(p, g)
    BY <1>2 DEF OrderInv, SavedInv, Sends, Pending
  <1>5. /\ Sent(p, i, g) \in Nat /\ Sent(p, i, g) <= edits /\ edits \in Nat
        /\ annotations[g] \in Int
        /\ ~page[p].overlap => Latest(g, Sent(p, i, g))
    BY <1>1, <1>2, <1>4, Numbers DEF Ascending
  <1>6. page[p].overlap \/ annotations'[g] >= annotations[g]
    BY <1>2, <1>5 DEF Latest
  <1>7. ASSUME NEW f \in UserField, NEW n \in Nat, Latest(f, n),
               f = g => Sent(p, i, g) <= n
        PROVE  Latest(f, n)'
    <2>1. annotations'[f] <= n
      BY <1>2, <1>7, FieldFacts DEF Latest
    <2>2. QED
      BY <1>2, <1>7, <2>1 DEF Latest
  <1>8. \A f \in UserField : Latest(f, edits)'
    BY <1>2, <1>5, <1>7 DEF OrderInv, Latest
  <1>9. ReadForOptions'
    BY <1>2 DEF OrderInv, ReadForOptions
  <1>10. ASSUME NEW q \in Page, NEW f \in UserField PROVE Ascending(q, f)'
    <2>1. CASE f # g
      <3>1. \A n \in Nat : Latest(f, n) => Latest(f, n)'
        BY <1>7, <2>1
      <3>2. QED
        BY <1>2, <1>3, <1>5, <3>1, AscendingKept
    <2>2. CASE f = g /\ q # p
      <3>1. g \notin Edits[q]
        BY <1>4, <2>2 DEF OneAnnotator
      <3>2. g \notin page[q].edited /\ Pending(q, g) = {}
        BY <3>1 DEF OrderInv, SavedInv, Sends, Pending
      <3>3. QED
        BY <1>2, <1>3, <2>2, <3>2 DEF Ascending
    <2>3. CASE f = g /\ q = p
      <3>1. ASSUME NEW j \in Pending(p, g)'
            PROVE  /\ 0 <= Sent(p, j, g)' /\ Sent(p, j, g)' <= edits'
                   /\ page'[p].overlap
        <4>1. j \in Pending(p, g) /\ Sent(p, j, g)' = Sent(p, j, g) /\ j # i
          BY <1>3
        <4>2. page[p].overlap
          <5>1. SUFFICES ASSUME Len(saves[p]) <= 1 PROVE FALSE
            BY DEF OrderInv, SavedInv, Alone
          <5>2. j \in DOMAIN saves[p]
            BY <4>1 DEF Pending
          <5>3. i = 1 /\ j = 1
            BY <1>2, <5>1, <5>2, RemoveFacts
          <5>4. QED
            BY <4>1, <5>3
        <4>3. QED
          BY <1>2, <1>4, <4>1, <4>2 DEF Ascending
      <3>2. ASSUME g \in page[p].edited
            PROVE  /\ 0 <= page[p].value[g] /\ page[p].value[g] <= edits
                   /\ Latest(g, page[p].value[g])'
                   /\ \A j \in Pending(p, g)' : Sent(p, j, g)' <= page[p].value[g]
        <4>1. /\ 0 <= page[p].value[g] /\ page[p].value[g] <= edits
              /\ Latest(g, page[p].value[g]) /\ page[p].value[g] \in Int
              /\ \A j \in Pending(p, g) : Sent(p, j, g) <= page[p].value[g]
          BY <1>1, <1>4, <3>2, Numbers DEF Ascending
        <4>2. Sent(p, i, g) <= page[p].value[g] /\ page[p].value[g] \in Nat
          BY <1>2, <4>1
        <4>3. Latest(g, page[p].value[g])'
          BY <1>2, <1>7, <4>1, <4>2 DEF Latest
        <4>4. QED
          BY <1>3, <4>1, <4>3
      <3>3. QED
        BY <1>2, <2>3, <3>1, <3>2 DEF Ascending
    <2>4. QED
      BY <2>1, <2>2, <2>3
  <1>11. OrderInv'
    BY <1>8, <1>9, <1>10 DEF OrderInv
  <1>12. QED
    BY <1>4, <1>6, <1>11

\* A save goes
LEMMA EndOrder ==
  ASSUME OrderInv, SavedInv', NEW p \in Page, NEW i \in DOMAIN saves[p],
         NEW o, page' = [page EXCEPT ![p].outcome = o],
         saves' = [saves EXCEPT ![p] = RemoveAt(saves[p], i)],
         UNCHANGED <<annotations, apply, edits>>
  PROVE  OrderInv'
  <1>1. Types /\ Types'
    BY DEF SavedInv, HiddenInv, OrderInv
  <1>2. /\ page[p] \in PageState /\ page \in [Page -> PageState]
        /\ saves[p] \in Seq(Save) /\ saves \in [Page -> Seq(Save)]
    BY <1>1 DEF Types
  <1>3. /\ page'[p].edited = page[p].edited /\ page'[p].value = page[p].value
        /\ page'[p].overlap = page[p].overlap
    BY <1>2 DEF PageState
  <1>4. edits \in Nat /\ edits <= edits'
    BY <1>1, AnnotationsAssumption DEF Types
  <1>5. ASSUME NEW f \in UserField PROVE Ascending(p, f)'
    <2>1. \A n \in Nat : Latest(f, n) => Latest(f, n)'
      BY DEF Latest
    <2>2. ASSUME NEW j \in Pending(p, f)'
          PROVE  \E k \in Pending(p, f) : Sent(p, j, f)' = Sent(p, k, f)
      <3>1. PICK k \in DOMAIN saves[p] : saves'[p][j] = saves[p][k]
        BY <1>2, RemoveFacts DEF Pending
      <3>2. QED
        BY <3>1 DEF Pending, Sent
    <2>3. QED
      BY <1>3, <1>4, <2>1, <2>2, AscendingKept
  <1>6. \A q \in Page \ {p} : page'[q] = page[q] /\ saves'[q] = saves[q]
    BY <1>2
  <1>7. QED
    BY <1>4, <1>5, <1>6, OwnOrder

\* The saves stay, and nothing is edited
LEMMA ReloadOrder ==
  ASSUME OrderInv, SavedInv', NEW p \in Page, Reload(p),
         \A q \in Page : apply'[q] = apply[q] \/ apply'[q] = NotApplying,
         UNCHANGED <<annotations, edits>>
  PROVE  OrderInv'
  <1>1. Types /\ Types' /\ edits \in Nat /\ edits <= edits'
    BY AnnotationsAssumption DEF SavedInv, HiddenInv, OrderInv, Types
  <1>2. /\ page'[p].edited = {} /\ page'[p].overlap = page[p].overlap
        /\ \A q \in Page \ {p} : page'[q] = page[q] /\ saves'[q] = saves[q]
        /\ DOMAIN saves'[p] = DOMAIN saves[p]
        /\ \A i \in DOMAIN saves[p] : saves'[p][i].anns = saves[p][i].anns
    BY <1>1, ReloadFacts
  <1>3. \A f \in Field : NotApplying.values[f] = NoRow
    BY DEF NotApplying, Unread
  <1>4. ASSUME NEW f \in UserField PROVE Ascending(p, f)'
    <2>1. ASSUME NEW n \in Nat, Latest(f, n) PROVE Latest(f, n)'
      BY <1>1, <1>3, <2>1, LatestKept, FieldFacts
    <2>2. \A j \in Pending(p, f)' :
            j \in Pending(p, f) /\ Sent(p, j, f)' = Sent(p, j, f)
      BY <1>2 DEF Pending, Sent
    <2>3. QED
      BY <1>1, <1>2, <2>1, <2>2, AscendingKept
  <1>5. QED
    BY <1>1, <1>2, <1>4, OwnOrder

-----------------------------------------------------------------------------
(* What requests that change fields do to values                           *)

\* A request's record changes, and none of the others
LEMMA RequestFacts ==
  ASSUME Types, NEW p \in Page, NEW a, apply' = [apply EXCEPT ![p] = a]
  PROVE  apply'[p] = a /\ \A q \in Page \ {p} : apply'[q] = apply[q]
  BY DEF Types

\* Other steps of a request than those with values delete annotations at most,
\* and nothing is read by then
LEMMA RequestOrder ==
  ASSUME OrderInv, SavedInv', NEW p \in Page,
         \A q \in Page \ {p} : apply'[q] = apply[q],
         \A f \in Field : apply'[p].values[f] = NoRow,
         \A f \in UserField :
            annotations'[f] = annotations[f] \/ annotations'[f] = NoRow,
         UNCHANGED <<page, saves, edits>>
  PROVE  OrderInv'
  <1>1. ReadForOptions'
    BY DEF OrderInv, ReadForOptions
  <1>2. \A q \in Page, f \in UserField :
            apply'[q].values[f] = apply[q].values[f] \/ apply'[q].values[f] = NoRow
    BY FieldFacts
  <1>3. QED
    BY <1>1, <1>2, OrderKept

LEMMA ReadValueOrder ==
  ASSUME OrderInv, SavedInv', NEW p \in Page, NEW f \in Field, ReadValue(p, f)
  PROVE  OrderInv'
  <1>1. Types
    BY DEF SavedInv, HiddenInv, OrderInv
  <1>2. /\ \A q \in Page \ {p} : apply'[q] = apply[q]
        /\ \/ /\ apply'[p].values = apply[p].values
              /\ apply'[p].options = apply[p].options \ {f}
           \/ /\ apply'[p].values = [apply[p].values EXCEPT ![f] = annotations[f]]
              /\ apply'[p].options = apply[p].options
        /\ apply'[p].stage = "options"
    <2>1. \A q \in Page \ {p} : apply'[q] = apply[q]
      BY <1>1, OptionsFacts DEF ReadValue
    <2>2. CASE annotations[f] \in {NoRow, Empty}
      BY <1>1, <2>1, <2>2, OptionsFacts DEF ReadValue, Application
    <2>3. CASE annotations[f] \notin {NoRow, Empty}
      BY <1>1, <2>1, <2>3, OptionsFacts DEF ReadValue, Application
    <2>4. QED
      BY <2>1, <2>2, <2>3
  <1>3. /\ apply[p].values = Unread /\ f \in apply[p].options
        /\ UNCHANGED <<annotations, page, saves, edits>>
        /\ \A g \in Field : Unread[g] = NoRow
    BY DEF ReadValue, Unread, serverVars
  <1>4. ASSUME NEW q \in Page, NEW g \in Field
        PROVE  /\ \/ apply'[q].values[g] = apply[q].values[g]
                  \/ apply'[q].values[g] = annotations[g]
               /\ apply'[q].values[g] # NoRow =>
                        apply'[q].stage = "options" /\ g \in apply'[q].options
    <2>1. CASE q # p
      BY <1>2, <2>1 DEF OrderInv, ReadForOptions
    <2>2. CASE q = p /\ g # f
      BY <1>1, <1>2, <1>3, <2>2, OptionsFacts
    <2>3. CASE q = p /\ g = f
      BY <1>1, <1>2, <1>3, <2>3, OptionsFacts
    <2>4. QED
      BY <2>1, <2>2, <2>3
  <1>5. ReadForOptions'
    BY <1>4 DEF ReadForOptions
  <1>6. QED
    BY <1>3, <1>4, <1>5, OrderKept, FieldFacts

LEMMA WriteValueOrder ==
  ASSUME OrderInv, SavedInv', NEW p \in Page, NEW f \in Field, WriteValue(p, f)
  PROVE  OrderInv' /\ f \in apply[p].options
  <1>1. Types
    BY DEF SavedInv, HiddenInv, OrderInv
  <1>2. f \in apply[p].options
    BY DEF WriteValue, OrderInv, ReadForOptions
  <1>3. /\ \A q \in Page \ {p} : apply'[q] = apply[q]
        /\ apply'[p].values = Unread
    BY <1>1, OptionsFacts DEF WriteValue, Application
  <1>4. \A g \in Field : Unread[g] = NoRow
    BY DEF Unread
  <1>5. ReadForOptions'
    BY <1>3, <1>4 DEF OrderInv, ReadForOptions
  <1>6. /\ UNCHANGED <<page, saves, edits>>
        /\ \A g \in Field \ {f} : annotations'[g] = annotations[g]
        /\ annotations'[f] \in {apply[p].values[f], Empty, annotations[f]}
    BY <1>1, WriteValueFacts
  <1>7. \A q \in Page, g \in UserField :
            apply'[q].values[g] = apply[q].values[g] \/ apply'[q].values[g] = NoRow
    BY <1>3, <1>4, FieldFacts
  <1>8. QED
    BY <1>2, <1>5, <1>6, <1>7, OrderKept, FieldFacts

\* Where annotations of people come from: saves that are the only ones, and
\* what may undo them
LEMMA NextOrder ==
  ASSUME OneAnnotator, OrderInv, [Next]_vars
  PROVE  /\ OrderInv'
         /\ \A f \in UserField :
                \/ annotations'[f] >= annotations[f]
                \/ annotations'[f] \in {NoRow, Empty}
                \/ MayUndo(f)
  <1> DEFINE NoOlder == \A f \in UserField :
                \/ annotations'[f] >= annotations[f]
                \/ annotations'[f] \in {NoRow, Empty}
                \/ MayUndo(f)
  <1>1. SavedInv'
    BY NextSaved DEF OrderInv
  <1>2. /\ Types /\ Types' /\ edits \in Int
        /\ \A f \in UserField : annotations[f] \in Int
    BY <1>1, AnnotationsAssumption, FieldFacts
    DEF OrderInv, SavedInv, HiddenInv, Types, Value, Empty
  <1>3. ASSUME \A f \in UserField :
                    annotations'[f] = annotations[f] \/ annotations'[f] = NoRow
        PROVE  NoOlder
    BY <1>2, <1>3
  <1>4. ASSUME NEW p \in Page, PageStep(p) PROVE OrderInv' /\ NoOlder
    <2>1. CASE \E f \in UserField : markChanges(p, f)
      <3>1. OrderInv' /\ UNCHANGED annotations
        BY <1>1, <2>1, MarkOrder DEF markChanges, serverVars
      <3>2. QED
        BY <1>3, <3>1
    <2>2. CASE saveAnnotations(p)
      <3>1. OrderInv' /\ UNCHANGED annotations
        BY <1>1, <2>2, SaveOrder DEF saveAnnotations, serverVars
      <3>2. QED
        BY <1>3, <3>1
    <2>3. ASSUME NEW i, NEW f \in UserField, WriteAnnotation(p, i, f)
          PROVE  OrderInv' /\ NoOlder
      <3>1. OrderInv' /\ (MayUndo(f) \/ annotations'[f] >= annotations[f])
        BY <1>1, <2>3, WriteOrder DEF MayUndo
      <3>2. \A g \in UserField \ {f} : annotations'[g] = annotations[g]
        BY <1>2, <2>3, WriteFacts, FieldFacts
      <3>3. QED
        BY <1>2, <3>1, <3>2
    <2>4. ASSUME NEW i, SaveAnswered(p, i) \/ SaveFails(p, i)
          PROVE  OrderInv' /\ NoOlder
      <3>1. PICK o : page' = [page EXCEPT ![p].outcome = o]
        BY <2>4 DEF SaveAnswered, SaveFails
      <3>2. /\ i \in DOMAIN saves[p] /\ UNCHANGED <<annotations, apply, edits>>
            /\ saves' = [saves EXCEPT ![p] = RemoveAt(saves[p], i)]
        BY <2>4 DEF SaveAnswered, SaveFails, serverVars
      <3>3. OrderInv'
        BY <1>1, <3>1, <3>2, EndOrder
      <3>4. QED
        BY <1>3, <3>2, <3>3
    <2>5. CASE Load(p)
      <3>1. OrderInv' /\ UNCHANGED annotations
        BY <1>1, <2>5, ReloadOrder DEF Load, serverVars
      <3>2. QED
        BY <1>3, <3>1
    <2>6. QED
      BY <1>4, <2>1, <2>2, <2>3, <2>4, <2>5
      DEF PageStep, TimerFires, SaveButton, SaveStep
  <1>5. ASSUME NEW p \in Page, FieldsStep(p) PROVE OrderInv' /\ NoOlder
    <2>1. /\ apply[p] \in Application /\ apply \in [Page -> Application]
          /\ apply[p].stage # "options" \/ apply[p].options = {} =>
                \A f \in Field : apply[p].values[f] = NoRow
          /\ \A f \in Field : NotApplying.values[f] = NoRow
      BY <1>2, OptionsFacts DEF OrderInv, ReadForOptions, NotApplying, Unread
    <2>2. CASE DeleteAnnotations(p)
      <3>1. \A f \in UserField :
                annotations'[f] = annotations[f] \/ annotations'[f] = NoRow
        BY <2>2, FieldFacts DEF DeleteAnnotations
      <3>2. /\ \A q \in Page \ {p} : apply'[q] = apply[q]
            /\ apply'[p].values = apply[p].values
        BY <2>1, <2>2 DEF DeleteAnnotations, Application
      <3>3. UNCHANGED <<page, saves, edits>> /\ apply[p].stage # "options"
        BY <2>2 DEF DeleteAnnotations
      <3>4. OrderInv'
        BY <1>1, <2>1, <3>1, <3>2, <3>3, RequestOrder
      <3>5. QED
        BY <1>3, <3>1, <3>4
    <2>3. ASSUME NEW f \in Field, ReadValue(p, f) PROVE OrderInv' /\ NoOlder
      <3>1. OrderInv' /\ UNCHANGED annotations
        BY <1>1, <2>3, ReadValueOrder DEF ReadValue, serverVars
      <3>2. QED
        BY <1>3, <3>1
    <2>4. ASSUME NEW f \in Field, WriteValue(p, f) PROVE OrderInv' /\ NoOlder
      <3>1. OrderInv' /\ MayUndo(f)
        BY <1>1, <2>4, WriteValueOrder DEF MayUndo
      <3>2. \A g \in UserField \ {f} : annotations'[g] = annotations[g]
        BY <1>2, <2>4, WriteValueFacts, FieldFacts
      <3>3. QED
        BY <1>2, <3>1, <3>2
    <2>5. CASE Applied(p)
      <3>1. OrderInv' /\ UNCHANGED annotations
        BY <1>1, <2>1, <2>5, ReloadOrder DEF Applied, serverVars
      <3>2. QED
        BY <1>3, <3>1
    <2>6. CASE \/ \E new \in EditorFields(p) : applyAnnotationFields(p, new)
               \/ ReadFields(p) \/ WriteFields(p) \/ OptionsUpdated(p)
               \/ ApplyFails(p)
      <3>1. UNCHANGED <<annotations, page, saves, edits>>
        BY <2>6 DEF applyAnnotationFields, ReadFields, WriteFields,
                    OptionsUpdated, ApplyFails, serverVars
      <3>2. \A q \in Page \ {p} : apply'[q] = apply[q]
        BY <2>1, <2>6 DEF applyAnnotationFields, ReadFields, WriteFields,
                          OptionsUpdated, ApplyFails
      <3>3. \A f \in Field : apply'[p].values[f] = NoRow
        <4>1. CASE \E new \in EditorFields(p) : applyAnnotationFields(p, new)
          BY <2>1, <4>1 DEF applyAnnotationFields, NotApplying
        <4>2. CASE ReadFields(p)
          BY <2>1, <4>2 DEF ReadFields, Application
        <4>3. CASE WriteFields(p)
          BY <2>1, <4>3 DEF WriteFields, Application
        <4>4. CASE OptionsUpdated(p)
          BY <2>1, <4>4 DEF OptionsUpdated, Application
        <4>5. CASE ApplyFails(p)
          BY <2>1, <4>5 DEF ApplyFails
        <4>6. QED
          BY <2>6, <4>1, <4>2, <4>3, <4>4, <4>5
      <3>4. OrderInv'
        BY <1>1, <3>1, <3>2, <3>3, RequestOrder
      <3>5. QED
        BY <1>3, <3>1, <3>4
    <2>7. QED
      BY <1>5, <2>2, <2>3, <2>4, <2>5, <2>6 DEF FieldsStep
  <1>6. CASE ReadForLabel \/ WriteLabel \/ UNCHANGED vars
    <2>1. UNCHANGED <<annotations, apply, page, saves, edits>>
      BY <1>6 DEF ReadForLabel, WriteLabel, vars, serverVars
    <2>2. ReadForOptions'
      BY <2>1 DEF OrderInv, ReadForOptions
    <2>3. OrderInv'
      BY <1>1, <2>1, <2>2, OrderKept
    <2>4. QED
      BY <1>3, <2>1, <2>3
  <1>7. ASSUME NEW c \in Child, ProcessorStep(c) \/ DeletionStep(c)
        PROVE  OrderInv' /\ NoOlder
    <2>1. /\ \A f \in UserField : annotations'[f] = annotations[f]
          /\ UNCHANGED <<page, saves, apply, edits>>
      BY <1>2, <1>7, ChildrenApart
    <2>2. ReadForOptions'
      BY <2>1 DEF OrderInv, ReadForOptions
    <2>3. OrderInv'
      BY <1>1, <2>1, <2>2, OrderKept
    <2>4. QED
      BY <1>3, <2>1, <2>3
  <1>8. QED
    BY <1>4, <1>5, <1>6, <1>7 DEF Next

\* No annotation is replaced by an older value for the same field, whatever is
\* lost, reloaded, relabelled or deleted and in whatever order saves end, but
\* by saves of one page that were under way together, and by the rewriting of
\* values whose options change.  (If nobody else annotates with the page's
\* fields.)
THEOREM NeverStale ==
  ASSUME OneAnnotator
  PROVE  Spec => NoStaleOverwrite
  <1>1. OrderInv /\ [Next]_vars => /\ OrderInv'
                                   /\ [\A f \in UserField :
                                           \/ annotations'[f] >= annotations[f]
                                           \/ annotations'[f] \in {NoRow, Empty}
                                           \/ MayUndo(f)]_vars
    BY NextOrder
  <1>2. QED
    BY <1>1, InitOrder, PTL DEF Spec, NoStaleOverwrite

-----------------------------------------------------------------------------
(* Warnings                                                                *)

\* What a page was told of a field before it sent its fields, and what is to
\* happen to the field once the request has read the column
Told(p) ==
    /\ apply[p].stage = "sent" =>
            apply[p].warned = Affected(page[p].fields, apply[p].new)
    /\ apply[p].stage \in {"read", "delete"} => \A f \in Wiping(p) :
            f \in apply[p].warned \/ apply[p].old[f] # page[p].fields[f]

WarnInv == Types /\ \A p \in Page : Told(p)

\* A page keeps its fields while it waits for a request of its own
LEMMA ToldKept ==
  ASSUME NEW p \in Page, Told(p),
         apply'[p] = apply[p],
         page'[p].fields = page[p].fields \/ apply[p].stage = "none"
  PROVE  Told(p)'
  <1>1. Removed(p)' = Removed(p)
    BY DEF Removed
  <1>2. Wiping(p)' = Wiping(p)
    BY <1>1 DEF Wiping
  <1>3. QED
    BY <1>2 DEF Told

LEMMA FieldsOnReload ==
  ASSUME Types, NEW p \in Page, Reload(p), NEW q \in Page, q # p
  PROVE  page'[q].fields = page[q].fields
  BY DEF Types, Reload

LEMMA PageStepFields ==
  ASSUME Types, NEW p \in Page, PageStep(p), NEW q \in Page
  PROVE  /\ UNCHANGED apply
         /\ page'[q].fields = page[q].fields \/ (q = p /\ Load(p))
  <1>1. page \in [Page -> PageState] /\ page[p] \in PageState
    BY DEF Types
  <1>2. CASE \E f \in UserField : markChanges(p, f)
    <2>1. page'[q].fields = page[q].fields
      BY <1>1, <1>2 DEF markChanges, PageState
    <2>2. UNCHANGED apply
      BY <1>2 DEF markChanges
    <2>3. QED
      BY <2>1, <2>2, Zenon
  <1>3. CASE saveAnnotations(p)
    <2>1. page'[q].fields = page[q].fields
      BY <1>1, <1>3 DEF saveAnnotations, PageState
    <2>2. UNCHANGED apply
      BY <1>3 DEF saveAnnotations
    <2>3. QED
      BY <2>1, <2>2, Zenon
  <1>4. ASSUME NEW i, SaveAnswered(p, i) \/ SaveFails(p, i)
        PROVE  UNCHANGED apply /\ page'[q].fields = page[q].fields
    <2>1. PICK o : page' = [page EXCEPT ![p].outcome = o]
      BY <1>4 DEF SaveAnswered, SaveFails
    <2>2. page'[q].fields = page[q].fields
      BY <1>1, <2>1 DEF PageState
    <2>3. QED
      BY <1>4, <2>2 DEF SaveAnswered, SaveFails
  <1>5. CASE Load(p)
    BY <1>5, FieldsOnReload DEF Load
  <1>6. ASSUME NEW i, NEW f, WriteAnnotation(p, i, f)
        PROVE  UNCHANGED <<apply, page>>
    BY <1>6 DEF WriteAnnotation
  <1>7. QED
    BY <1>2, <1>3, <1>4, <1>5, <1>6, Zenon
    DEF PageStep, TimerFires, SaveButton, SaveStep

\* The request sees the column as it is, and completes what the page sent
LEMMA ReadTold ==
  ASSUME WarnInv, NEW p \in Page, ReadFields(p)
  PROVE  Told(p)' /\ \A q \in Page \ {p} : apply'[q] = apply[q]
  <1>1. apply[p] \in Application /\ apply \in [Page -> Application]
        /\ annotation_fields \in Fields /\ page[p].fields \in Fields
    BY DEF WarnInv, Types, PageState
  <1> DEFINE kept(f) == f \in Hidden \/ apply[p].new[f] # "none"
             new == [f \in Field |->
                        IF annotation_fields[f] = "proc" /\ kept(f)
                        THEN "proc" ELSE apply[p].new[f]]
  <1>2. /\ apply'[p].stage = "read" /\ apply'[p].old = annotation_fields
        /\ apply'[p].new = new /\ apply'[p].warned = apply[p].warned
        /\ \A q \in Page \ {p} : apply'[q] = apply[q]
        /\ UNCHANGED page
    BY <1>1 DEF ReadFields, Application
  <1>3. apply[p].warned = Affected(page[p].fields, apply[p].new)
    BY DEF WarnInv, Told, ReadFields
  <1> DEFINE old == annotation_fields
  <1>4. ASSUME NEW f \in Wiping(p)', old[f] = page[p].fields[f]
        PROVE  f \in apply[p].warned
    <2>1. f \in Field /\ old[f] \in FieldKind
      BY <1>1 DEF Wiping, Removed, Fields
    <2>2. CASE old[f] # "none" /\ new[f] = "none"
      <3>1. apply[p].new[f] = "none"
        BY <2>1, <2>2
      <3>2. QED
        BY <1>3, <1>4, <2>1, <2>2, <3>1 DEF Affected
    <2>3. CASE {old[f], new[f]} \subseteq Choice /\ old[f] # new[f]
      <3>1. new[f] = apply[p].new[f] /\ apply[p].new[f] \in FieldKind
        BY <1>1, <2>1, <2>3 DEF Choice, Application, Fields
      <3>2. \A k \in FieldKind \cap Choice : k \in Kind
        BY DEF FieldKind, Choice
      <3>3. QED
        BY <1>3, <1>4, <2>1, <2>3, <3>1, <3>2 DEF Affected
    <2>4. QED
      BY <1>2, <1>4, <2>1, <2>2, <2>3 DEF Wiping, Removed
  <1> HIDE DEF new
  <1>5. QED
    BY <1>2, <1>4 DEF Told

\* The request has written the column
LEMMA StageTold ==
  ASSUME WarnInv, NEW p \in Page, NEW s \in {"delete", "reply"},
         apply' = [apply EXCEPT ![p].stage = s], UNCHANGED page,
         apply[p].stage = "read"
  PROVE  \A q \in Page : Told(q)'
  <1>1. apply[p] \in Application /\ apply \in [Page -> Application]
    BY DEF WarnInv, Types
  <1>2. /\ apply'[p].stage = s /\ apply'[p].old = apply[p].old
        /\ apply'[p].new = apply[p].new /\ apply'[p].warned = apply[p].warned
        /\ \A q \in Page \ {p} : apply'[q] = apply[q]
    BY <1>1 DEF Application
  <1>3. Removed(p)' = Removed(p)
    BY <1>2 DEF Removed
  <1>4. Wiping(p)' = Wiping(p)
    BY <1>2, <1>3 DEF Wiping
  <1>5. Told(p)'
    BY <1>2, <1>4 DEF WarnInv, Told
  <1>6. QED
    BY <1>2, <1>5, ToldKept DEF WarnInv

LEMMA FieldsStepTold ==
  ASSUME WarnInv, NEW p \in Page, FieldsStep(p)
  PROVE  \A q \in Page : Told(q)'
  <1>1. /\ apply \in [Page -> Application] /\ page \in [Page -> PageState]
        /\ Types /\ \A q \in Page : Told(q)
    BY DEF WarnInv, Types
  <1>2. ASSUME NEW new \in EditorFields(p), applyAnnotationFields(p, new)
        PROVE  \A q \in Page : Told(q)'
    <2>1. /\ apply'[p].stage = "sent" /\ apply'[p].new = new
          /\ apply'[p].warned = Affected(page[p].fields, new)
          /\ \A q \in Page \ {p} : apply'[q] = apply[q]
          /\ UNCHANGED page
      BY <1>1, <1>2 DEF applyAnnotationFields, NotApplying
    <2>2. Told(p)'
      BY <2>1 DEF Told
    <2>3. QED
      BY <1>1, <2>1, <2>2, ToldKept
  <1>3. CASE ReadFields(p)
    <2>1. UNCHANGED page
      BY <1>3 DEF ReadFields
    <2>2. QED
      BY <1>1, <1>3, <2>1, ReadTold, ToldKept
  <1>4. CASE WriteFields(p)
    <2> DEFINE s == IF Removed(p) # {} THEN "delete" ELSE "reply"
    <2>1. /\ apply' = [apply EXCEPT ![p].stage = s] /\ UNCHANGED page
          /\ apply[p].stage = "read" /\ s \in {"delete", "reply"}
      BY <1>4 DEF WriteFields
    <2> HIDE DEF s
    <2>2. QED
      BY <2>1, StageTold
  <1>5. CASE \/ DeleteAnnotations(p) \/ OptionsUpdated(p)
             \/ \E f \in Field : ReadValue(p, f) \/ WriteValue(p, f)
    <2>1. /\ apply'[p].stage \in {"reply", "options"} /\ UNCHANGED page
          /\ \A q \in Page \ {p} : apply'[q] = apply[q]
      <3>1. CASE DeleteAnnotations(p)
        BY <1>1, <3>1, OptionsFacts DEF DeleteAnnotations, Application
      <3>2. CASE OptionsUpdated(p)
        BY <1>1, <3>2, OptionsFacts DEF OptionsUpdated, Application
      <3>3. ASSUME NEW f \in Field, ReadValue(p, f)
            PROVE  /\ apply'[p].stage = "options" /\ UNCHANGED page
                   /\ \A q \in Page \ {p} : apply'[q] = apply[q]
        <4>1. CASE annotations[f] \in {NoRow, Empty}
          BY <1>1, <3>3, <4>1, OptionsFacts DEF ReadValue, Application
        <4>2. CASE annotations[f] \notin {NoRow, Empty}
          BY <1>1, <3>3, <4>2, OptionsFacts DEF ReadValue, Application
        <4>3. QED
          BY <4>1, <4>2
      <3>4. ASSUME NEW f \in Field, WriteValue(p, f)
            PROVE  /\ apply'[p].stage = "options" /\ UNCHANGED page
                   /\ \A q \in Page \ {p} : apply'[q] = apply[q]
        BY <1>1, <3>4, OptionsFacts DEF WriteValue, Application
      <3>5. QED
        BY <1>5, <3>1, <3>2, <3>3, <3>4
    <2>2. Told(p)'
      BY <2>1 DEF Told
    <2>3. QED
      BY <1>1, <2>1, <2>2, ToldKept
  <1>6. ASSUME apply' = [apply EXCEPT ![p] = NotApplying],
               UNCHANGED page \/ Reload(p)
        PROVE  \A q \in Page : Told(q)'
    <2>1. Told(p)' /\ \A q \in Page \ {p} : apply'[q] = apply[q]
      BY <1>1, <1>6 DEF Told, NotApplying
    <2>2. \A q \in Page \ {p} : page'[q].fields = page[q].fields
      BY <1>1, <1>6, FieldsOnReload
    <2>3. QED
      BY <1>1, <2>1, <2>2, ToldKept
  <1>7. QED
    BY <1>2, <1>3, <1>4, <1>5, <1>6
    DEF FieldsStep, Applied, ApplyFails

LEMMA NextTold ==
  ASSUME WarnInv, Types', [Next]_vars
  PROVE  WarnInv'
  <1>1. Types /\ \A q \in Page : Told(q)
    BY DEF WarnInv
  <1>2. ASSUME NEW p \in Page, PageStep(p) PROVE \A q \in Page : Told(q)'
    BY <1>1, <1>2, PageStepFields, ToldKept DEF Load
  <1>3. ASSUME NEW p \in Page, FieldsStep(p) PROVE \A q \in Page : Told(q)'
    BY <1>3, FieldsStepTold
  <1>4. ASSUME UNCHANGED <<page, apply>> PROVE \A q \in Page : Told(q)'
    BY <1>1, <1>4, ToldKept
  <1>5. ASSUME NEW c \in Child, ProcessorStep(c) \/ DeletionStep(c)
        PROVE  UNCHANGED <<page, apply>>
    BY <1>1, <1>5, ChildrenApart
  <1>6. ReadForLabel \/ WriteLabel \/ UNCHANGED vars => UNCHANGED <<page, apply>>
    BY DEF ReadForLabel, WriteLabel, vars, serverVars
  <1>7. QED
    BY <1>2, <1>3, <1>4, <1>5, <1>6 DEF Next, WarnInv

LEMMA WarnInvariant == Spec => [](HiddenInv /\ WarnInv)
  <1>1. Init => HiddenInv /\ WarnInv
    <2> SUFFICES ASSUME Init PROVE HiddenInv /\ WarnInv
      OBVIOUS
    <2>1. \A p \in Page : apply[p].stage = "none"
      BY DEF Init, NotApplying
    <2>2. QED
      BY <2>1, InitHidden DEF HiddenInv, WarnInv, Told
  <1>2. HiddenInv /\ WarnInv /\ [Next]_vars => (HiddenInv /\ WarnInv)'
    BY NextHidden, NextTold DEF HiddenInv
  <1>3. QED
    BY <1>1, <1>2, PTL DEF Spec

\* Whatever pages, labels, processors and deletions do to the column:
\* annotations are deleted without a word only where the column is no longer
\* what the page showed.
THEOREM AlwaysWarnedUnlessChanged == Spec => []WarnedUnlessChanged
  <1>1. WarnInv => WarnedUnlessChanged
    BY DEF WarnInv, Told, WarnedUnlessChanged
  <1>2. QED
    BY <1>1, WarnInvariant, PTL

=============================================================================
