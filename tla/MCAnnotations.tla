---------------------------- MODULE MCAnnotations ----------------------------
(* Annotations on small instances: who edits what.                         *)
EXTENDS Annotations, TLC

CONSTANTS p1, p2, f1, f2

\* One annotates with both fields, the other does not annotate
OnlyFirst == p1 :> {f1, f2} @@ p2 :> {}

\* A single page and field
FirstEdits == p1 :> {f1}

\* Nobody annotates
NoEdits == p1 :> {} @@ p2 :> {}

\* The one field, or both fields, have been made before
OneField == f1 :> "dropdown"
BothFields == f1 :> "dropdown" @@ f2 :> "dropdown"

\* The first has been made before
OneGiven == f1 :> "dropdown" @@ f2 :> "none"
=============================================================================
