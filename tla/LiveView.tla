------------------------------ MODULE LiveView ------------------------------
(***************************************************************************)
(* What a live preview of one source file promises to the person watching  *)
(* it (archify, references/delivery-contract.md and bin/preview.mjs).      *)
(*                                                                         *)
(* The view shows a verified rendering or nothing.  It is replaced only by *)
(* the rendering of a content that the source still had when the decision  *)
(* was taken; everything else - invalid, half-written, deleted or          *)
(* superseded input, a build that breaks - leaves it alone.  The revision  *)
(* counts the different views: identical bytes are not a new revision.     *)
(***************************************************************************)
EXTENDS Naturals

CONSTANTS
    Good,      \* the contents that can be rendered, among
    Contents,  \* every state of the source file
    Rendering, \* the artifact of each good content
    None       \* no artifact, and no rendering

VARIABLES
    source,   \* what the source file holds
    recent,   \* what it has held since the last decision began
    view,     \* the artifact on screen
    disk,     \* what the output file holds
    revision, \* the number the view carries
    status    \* "checking", "verified" or "needs-fix"

viewVars == <<source, recent, view, disk, revision, status>>

Init ==
    /\ source \in Contents
    /\ recent = {source}
    /\ view = None
    /\ disk = None
    /\ revision = 0
    /\ status = "checking"

\* Someone writes or deletes the source.
Edit ==
    /\ source' \in Contents
    /\ recent' = recent \cup {source'}
    /\ UNCHANGED <<view, disk, revision, status>>

\* Somebody else overwrites or removes the output file.
Disturb ==
    /\ disk' \notin {Rendering[c] : c \in Good}
    /\ UNCHANGED <<source, recent, view, revision, status>>

\* The preview looks at the source to decide on a finished rendering.
Look ==
    /\ recent' = {source}
    /\ UNCHANGED <<source, view, disk, revision, status>>

Check ==
    /\ status' = "checking"
    /\ UNCHANGED <<source, recent, view, disk, revision>>

\* The file of an unchanged view may be left as it is.
Show(c) ==
    /\ c \in Good \cap recent
    /\ view' = Rendering[c]
    /\ disk' = Rendering[c] \/ (view' = view /\ disk' = disk)
    /\ revision' = IF view' = view THEN revision ELSE revision + 1
    /\ status' = "verified"
    /\ UNCHANGED <<source, recent>>

Reject ==
    /\ status' = "needs-fix"
    /\ UNCHANGED <<source, recent, view, disk, revision>>

\* The source is back at the content that is on screen.
Restore ==
    /\ source \in Good
    /\ view = Rendering[source]
    /\ status' = "verified"
    /\ UNCHANGED <<source, recent, view, disk, revision>>

Next ==
    \/ Edit
    \/ Disturb
    \/ Look
    \/ Check
    \/ \E c \in Good : Show(c)
    \/ Reject
    \/ Restore

Spec == Init /\ [][Next]_viewVars

=============================================================================
