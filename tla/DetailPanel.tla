---------------------------- MODULE DetailPanel ----------------------------
(***************************************************************************)
(* How a patch reaches the editor of the detail panel                      *)
(* (crates/ui/src/detail/mod.rs, diff.rs, decorations.rs).  The text and   *)
(* its ranges are prepared when the panel is handed a detail, and wait     *)
(* until the panel is painted next, which a panel detached from the dock   *)
(* is not.  The colours of the ranges are chosen then, for the theme of    *)
(* that moment; the text stands for the commit it was prepared from.       *)
(***************************************************************************)

CONSTANTS
  Detail,    \* commits whose detail can be loaded
  Unchanged, \* those of them that change no file
  NoText     \* no diff waits, or none has reached the editor

ASSUME DetailAssumption ==
  /\ Unchanged \subseteq Detail
  /\ NoText \notin Detail
  /\ \A state \in {"Idle", "Loading", "Failed"} : state \notin Detail

VARIABLES
  detail,      \* DetailPanel::detail: a commit, "Idle", "Loading" or "Failed"
  pendingDiff, \* the commit pending_diff was made from
  editor,      \* diff_editor and the backgrounds of its lines: [of, colours]
  attached,    \* whether the panel is in the dock, and so painted
  theme        \* cx.theme().mode

detailVars == <<detail, pendingDiff, editor, attached, theme>>

(* line_backgrounds: a dark and a light pair of tints. *)
LineBackgrounds(mode) == IF mode = "dark" THEN "darkTints" ELSE "lightTints"

HasDiff(d) == d \in Detail \ Unchanged

DetailInit ==
  /\ detail = "Idle" /\ pendingDiff = NoText
  /\ editor = [of |-> NoText, colours |-> LineBackgrounds("light")]
  /\ attached = FALSE /\ theme = "light"

----------------------------------------------------------------------------
(* Mutant: a diff that waits already is kept. *)
SetDetailKeepingPending(d) ==
  /\ detail' = d
  /\ pendingDiff' = IF HasDiff(d) /\ pendingDiff = NoText THEN d ELSE pendingDiff
  /\ UNCHANGED <<editor, attached, theme>>

SetDetail(d) ==
  /\ detail' = d
  /\ pendingDiff' = IF HasDiff(d) THEN d ELSE pendingDiff
  /\ UNCHANGED <<editor, attached, theme>>

(* render: the diff that waits goes to the editor, whatever is shown. *)
Render ==
  /\ attached
  /\ editor' = IF pendingDiff # NoText THEN [of |-> pendingDiff, colours |-> LineBackgrounds(theme)]
               ELSE editor
  /\ pendingDiff' = NoText
  /\ UNCHANGED <<detail, attached, theme>>

(* The panel is attached or detached, or the theme changes its mode. *)
Surroundings ==
  /\ \/ attached' = ~attached /\ UNCHANGED theme
     \/ theme' \in {"light", "dark"} \ {theme} /\ UNCHANGED attached
  /\ UNCHANGED <<detail, pendingDiff, editor>>

DetailNext ==
  \/ \E d \in Detail \cup {"Idle", "Loading", "Failed"} : SetDetail(d)
  \/ Render \/ Surroundings

----------------------------------------------------------------------------
(* The diff of the commit that is loaded waits to be painted or is in the
   editor, whatever was handed over while the panel was detached and whichever
   other commits were loaded in between: the next frame shows no other one
   (set_detail, render).  The colours are no part of this: they are those of
   the theme the diff was first painted under. *)
EditorShowsDetail ==
  HasDiff(detail) =>
    detail = IF pendingDiff # NoText THEN pendingDiff ELSE editor.of
=============================================================================
