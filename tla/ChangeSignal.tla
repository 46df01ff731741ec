---------------------------- MODULE ChangeSignal ----------------------------
(***************************************************************************)
(* What a RepositoryWatcher promises the view it feeds                     *)
(* (crates/domain/src/watch.rs): changes are coalesced, never forgotten,   *)
(* and losing track is answered by asking for everything.                  *)
(***************************************************************************)
CONSTANT Aspect   \* the facets of a repository a view may have to reload

VARIABLES
  owed,      \* the facets that changed and were not reported yet
  told,      \* what the last step asked the view to reload, {} for nothing
  watching   \* FALSE once the view is gone or the watch was refused

signal == <<owed, told, watching>>

Init == owed = {} /\ told = {} /\ watching = TRUE

(* Changes are noticed, none of those already owed is forgotten. *)
Notice ==
  /\ watching /\ told' = {} /\ UNCHANGED watching
  /\ \E change \in SUBSET Aspect : owed' = owed \cup change

(* Only what is owed is reported, and only what is reported stops being owed;
   a facet that changed again meanwhile may stay owed. *)
Tell ==
  /\ watching /\ UNCHANGED watching
  /\ \E change \in (SUBSET owed) \ {{}} :
       /\ told' = change
       /\ owed' \subseteq owed /\ owed \ change \subseteq owed'

GiveUp == watching' = FALSE /\ owed' = {} /\ told' = {}

Next == Notice \/ Tell \/ GiveUp

Spec == Init /\ [][Next]_signal
=============================================================================
