--------------------------- MODULE WindowSettings ---------------------------
(***************************************************************************)
(* What a window remembers besides its projects, in                        *)
(* crates/ui/src/workspace.rs, theme_preference.rs and persistence.rs: the *)
(* theme preference with the cross-fade that a change of mode starts, and  *)
(* the dock layout, saved after a pause in its changes.                    *)
(*                                                                         *)
(* A layout is abstracted to the width of a panel and to whether the       *)
(* detail panel is attached.  Writes are detached from the window: the     *)
(* files stand for the last content handed to the disk.                    *)
(***************************************************************************)
EXTENDS Naturals, FiniteSets

CONSTANTS
  Width, DefaultWidth,    \* widths a panel of the dock area can have
  NoLayout,               \* no layout saved or handed over yet
  NoTransition,           \* the None of Workspace::theme_transition
  MaxTransitions          \* bound on the cross-fades a window starts

Layout == [detail : BOOLEAN, width : Width]

ASSUME SettingsAssumption ==
  /\ DefaultWidth \in Width
  /\ NoLayout \notin Layout
  /\ NoTransition \notin Nat
  /\ MaxTransitions \in Nat

ThemeMode == {"light", "dark"}
ThemePreference == ThemeMode \cup {"system"}

VARIABLES
  preference,        \* Workspace::theme_preference
  appearance,        \* the appearance the operating system asks for
  mode,              \* cx.theme().mode, what is on screen
  transition,        \* the id of the running cross-fade, or NoTransition
  lastTransition,    \* next_theme_transition_id
  transitionTimers,  \* ids whose THEME_TRANSITION_DURATION has not elapsed
  themeFile,         \* theme-preference.json
  layout,            \* what the dock area would dump, the file without a window
  saveTimer,         \* _save_layout_task waits for SAVE_DEBOUNCE
  lastSavedLayout,   \* last_saved_layout
  layoutFile         \* dock-layout.json, NoLayout when it cannot be restored

themeVars == <<preference, appearance, mode, transition, lastTransition,
               transitionTimers, themeFile>>
layoutVars == <<layout, saveTimer, lastSavedLayout, layoutFile>>
settingsVars == <<themeVars, layoutVars>>

SettingsTypeOK ==
  /\ preference \in ThemePreference
  /\ {appearance, mode} \subseteq ThemeMode
  /\ lastTransition \in 0..MaxTransitions
  /\ transition \in 1..lastTransition \cup {NoTransition}
  /\ transitionTimers \subseteq 1..lastTransition
  /\ themeFile \in ThemePreference \cup {"absent"}
  /\ saveTimer \in BOOLEAN
  /\ {layout, lastSavedLayout, layoutFile} \subseteq Layout \cup {NoLayout}

----------------------------------------------------------------------------
(* explicit_mode, or the appearance of the system: apply_theme_preference. *)
ModeOf(chosen, system) == IF chosen = "system" THEN system ELSE chosen

(* theme_preference_at_startup. *)
PreferenceAtStartup == IF themeFile = "absent" THEN "system" ELSE themeFile

(* The two modes are interchangeable: the system starts in one of them. *)
SettingsInit ==
  /\ preference = "system" /\ appearance = "light" /\ mode = "light"
  /\ transition = NoTransition /\ lastTransition = 0 /\ transitionTimers = {}
  /\ themeFile = "absent"
  /\ layout = NoLayout /\ saveTimer = FALSE
  /\ lastSavedLayout = NoLayout /\ layoutFile = NoLayout

(* install_default_layout, or the saved layout when it can be restored. *)
LayoutAtStartup ==
  IF layoutFile = NoLayout THEN [detail |-> TRUE, width |-> DefaultWidth]
  ELSE layoutFile

(* The part of Workspace::new that reads the saved settings.  Nothing is
   selected, so hide_detail detaches the detail panel: a change of layout,
   which schedules a save.  Loading a layout may announce a change as well. *)
RestoreSettings ==
  /\ preference' = PreferenceAtStartup
  /\ mode' = ModeOf(PreferenceAtStartup, appearance)
  /\ transition' = NoTransition /\ lastTransition' = 0 /\ transitionTimers' = {}
  /\ layout' = [LayoutAtStartup EXCEPT !.detail = FALSE]
  /\ saveTimer' \in {TRUE, layout' # layoutFile}
  /\ lastSavedLayout' = NoLayout
  /\ UNCHANGED <<appearance, themeFile, layoutFile>>

(* The process and its timers end; quitting, unlike a crash, writes the
   layout as it is (the on_app_quit handler of Workspace::new). *)
EndSettings(saves) ==
  /\ layoutFile' = IF saves THEN layout ELSE layoutFile
  /\ layout' = layoutFile'
  /\ saveTimer' = FALSE
  /\ transition' = NoTransition /\ transitionTimers' = {}
  /\ UNCHANGED <<preference, appearance, mode, lastTransition, themeFile,
                 lastSavedLayout>>

----------------------------------------------------------------------------
(* set_theme_preference.  The save is detached; a preference chosen twice
   before the first is written is not told apart. *)
SetThemePreference(chosen) ==
  /\ chosen # preference
  /\ IF ModeOf(chosen, appearance) # mode
     THEN /\ lastTransition < MaxTransitions
          /\ lastTransition' = lastTransition + 1
          /\ transition' = lastTransition + 1
          /\ transitionTimers' = transitionTimers \cup {lastTransition + 1}
     ELSE UNCHANGED <<transition, lastTransition, transitionTimers>>
  /\ preference' = chosen
  /\ mode' = ModeOf(chosen, appearance)
  /\ themeFile' = chosen
  /\ UNCHANGED <<appearance, layoutVars>>

(* Mutant: the timer of an earlier cross-fade ends the later one. *)
TransitionElapsesAnyway(id) ==
  /\ id \in transitionTimers
  /\ transitionTimers' = transitionTimers \ {id}
  /\ transition' = NoTransition
  /\ UNCHANGED <<preference, appearance, mode, lastTransition, themeFile, layoutVars>>

(* The timer set_theme_preference starts. *)
TransitionElapses(id) ==
  /\ id \in transitionTimers
  /\ transitionTimers' = transitionTimers \ {id}
  /\ transition' = IF transition = id THEN NoTransition ELSE transition
  /\ UNCHANGED <<preference, appearance, mode, lastTransition, themeFile, layoutVars>>

(* observe_window_appearance. *)
AppearanceChanges ==
  /\ appearance' \in ThemeMode \ {appearance}
  /\ mode' = IF preference = "system" THEN appearance' ELSE mode
  /\ UNCHANGED <<preference, transition, lastTransition, transitionTimers,
                 themeFile, layoutVars>>

(* reveal_detail, hide_detail or a dragged separator, and schedule_save: the
   task of an earlier change is dropped with its timer. *)
LayoutChanges ==
  /\ layout' \in Layout \ {layout}
  /\ saveTimer' = TRUE
  /\ UNCHANGED <<themeVars, lastSavedLayout, layoutFile>>

(* Mutant: the layout is remembered as saved when the first save is still to
   come, the dump of the window's start standing in for it. *)
SaveElapsesUnlessFirst ==
  /\ saveTimer
  /\ saveTimer' = FALSE
  /\ lastSavedLayout' = layout
  /\ layoutFile' = IF lastSavedLayout \in {layout, NoLayout} THEN layoutFile ELSE layout
  /\ UNCHANGED <<themeVars, layout>>

(* The body of the save task; the write it detaches is not told apart. *)
SaveElapses ==
  /\ saveTimer
  /\ saveTimer' = FALSE
  /\ lastSavedLayout' = layout
  /\ layoutFile' = IF lastSavedLayout = layout THEN layoutFile ELSE layout
  /\ UNCHANGED <<themeVars, layout>>

----------------------------------------------------------------------------
(* The mode on screen is the one the preference pins, or the system's: no
   order of choices and changes of appearance separates them
   (set_theme_preference, observe_window_appearance). *)
ModeIsPreferred == mode = ModeOf(preference, appearance)

(* A cross-fade runs exactly as long as the timer it started itself: it is
   neither cut short by the timer of an earlier one nor left on screen
   (the id check of set_theme_preference). *)
CrossFadeHasItsTimer ==
  transition = IF lastTransition \in transitionTimers THEN lastTransition
               ELSE NoTransition

(* A layout whose save no longer waits is the one on disk: coalescing the
   changes and skipping an unchanged dump lose none (schedule_save). *)
QuietLayoutIsSaved == ~saveTimer => layoutFile = layout
=============================================================================
