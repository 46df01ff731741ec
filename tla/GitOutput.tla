----------------------------- MODULE GitOutput -----------------------------
(***************************************************************************)
(* What the program reads of git's output and shows of it: a commit's      *)
(* patch, all at once when git has ended; the progress of a clone, while   *)
(* it runs; the detail panel the patches go to; the date of a commit; the  *)
(* references in the sidebar; and the name of a remote project above them, *)
(* made from the URL git clones.  They share no state, so a behaviour is   *)
(* about one of them while the others stand still.                         *)
(***************************************************************************)
EXTENDS PatchText, ClonePipes, DetailPanel, CommitDate, ReferenceTree, RemoteUrl

vars == <<patchVars, pipesVars, detailVars, wall, treeVars, pasted>>

Idle == PatchIdle /\ PipesIdle /\ DateIdle /\ TreeIdle /\ RemoteUrlIdle

(* The detail panel moves while the others stand still. *)
Init ==
  /\ DetailInit
  /\ \/ Idle
     \/ PatchInit /\ PipesIdle /\ DateIdle /\ TreeIdle /\ RemoteUrlIdle
     \/ PatchIdle /\ PipesInit /\ DateIdle /\ TreeIdle /\ RemoteUrlIdle
     \/ PatchIdle /\ PipesIdle /\ DateInit /\ TreeIdle /\ RemoteUrlIdle
     \/ PatchIdle /\ PipesIdle /\ DateIdle /\ TreeInit /\ RemoteUrlIdle
     \/ PatchIdle /\ PipesIdle /\ DateIdle /\ TreeIdle /\ RemoteUrlInit

Next ==
  \/ PatchNext /\ UNCHANGED <<pipesVars, detailVars, wall, treeVars, pasted>>
  \/ PipesNext /\ UNCHANGED <<patchVars, detailVars, wall, treeVars, pasted>>
  \/ Idle /\ DetailNext /\ UNCHANGED <<patchVars, pipesVars, wall, treeVars, pasted>>
  \/ Midnight /\ UNCHANGED <<patchVars, pipesVars, detailVars, treeVars, pasted>>
  \/ TreeNext /\ UNCHANGED <<patchVars, pipesVars, detailVars, wall, pasted>>

Spec == Init /\ [][Next]_vars /\ PipesFairness

(* What the detail panel shows of a commit is the commit: its patch survives
   its text, the text reaches the editor, and its dates are those of its
   author's clock (see PatchSurvivesText, EditorShowsDetail and
   DatesAreTheAuthors). *)
CommitIsShown == PatchSurvivesText /\ EditorShowsDetail /\ DatesAreTheAuthors

(* What the sidebar shows is what git holds: the references of the repository,
   and a name for every remote project (see SidebarListsReferences and
   RemotesAreNamed). *)
SidebarIsTrue == SidebarListsReferences /\ RemotesAreNamed
=============================================================================
