-------------------------- MODULE WorkspaceProofs --------------------------
(***************************************************************************)
(* Proofs about Workspace, for any repositories and URLs, any function     *)
(* from URLs to directories, any lists saved earlier, and any number of    *)
(* inputs and launches.                                                    *)
(***************************************************************************)
EXTENDS Workspace, FiniteSetTheorems, TLAPS

----------------------------------------------------------------------------
(* The operators of ProjectList *)

(* Local and remote sources are told apart by their kind, a remote one is
   where its clone is, and None and NoSource are no sources. *)
LEMMA SourceFacts ==
  /\ RemoteSources \subseteq Source
  /\ None \notin Source /\ NoSource \notin Source /\ None \notin RemoteSources
  /\ \A u \in Url : RemoteSource(u) \in RemoteSources /\ CacheDir[u] \in Dir
                    /\ RemoteSource(u).root = CacheDir[u]
  /\ \A source \in RemoteSources : source.root \in Dir /\ source.kind = "remote"
  /\ \A r \in Local : LocalSource(r) \in Source /\ LocalSource(r) \notin RemoteSources
<1>1. RemoteSources \subseteq Source
  BY DEF RemoteSources, Source
<1>2. None \notin Source /\ NoSource \notin Source
  BY WorkspaceAssumption, SourceAssumption
<1>3. \A r \in Local : LocalSource(r).kind # "remote"
  BY DEF LocalSource
<1>4. \A u \in Url : RemoteSource(u).kind = "remote" /\ RemoteSource(u).root = CacheDir[u]
  BY DEF RemoteSource
<1>. QED
  BY <1>1, <1>2, <1>3, <1>4 DEF RemoteSources, Source, Dir

(* The sources of a list are those of its entries. *)
LEMMA ListFacts ==
  ASSUME NEW list \in List
  PROVE  /\ list = [projects |-> list.projects, active |-> list.active]
         /\ list.projects \in Seq(Project)
         /\ Sources(list) \subseteq Source
         /\ list.projects = <<>> <=> Sources(list) = {}
<1>1. list.projects \in Seq(Project)
  BY DEF List
<1>2. \A i \in DOMAIN list.projects : list.projects[i] \in Project
  BY <1>1
<1>3. Sources(list) \subseteq Source
  BY <1>2 DEF Sources, Project
<1>4. ASSUME list.projects # <<>> PROVE Sources(list) # {}
  <2>1. 1 \in DOMAIN list.projects
    BY <1>1, <1>4
  <2>. QED BY <2>1 DEF Sources
<1>5. ASSUME list.projects = <<>> PROVE Sources(list) = {}
  BY <1>5 DEF Sources
<1>6. list = [projects |-> list.projects, active |-> list.active]
  BY DEF List
<1>. QED
  BY <1>1, <1>3, <1>4, <1>5, <1>6

LEMMA EmptyListFacts == EmptyList \in List /\ Sources(EmptyList) = {} /\ Saveable(EmptyList)
<1>1. EmptyList \in List
  BY DEF EmptyList, List
<1>2. Sources(EmptyList) = {}
  BY <1>1, ListFacts DEF EmptyList
<1>. QED
  BY <1>1, <1>2 DEF Saveable, RemotesIn

(* Adding or activating a project makes it the active one and keeps the
   others. *)
LEMMA AddOrActivateFacts ==
  ASSUME NEW list \in List, NEW source \in Source
  PROVE  LET added == AddOrActivate(list, NewProject(source)) IN
         /\ added \in List /\ added.projects # <<>> /\ added # EmptyList
         /\ added.active = source /\ ActiveSource(added) = source
         /\ Sources(added) = Sources(list) \cup {source}
<1> DEFINE added == AddOrActivate(list, NewProject(source))
<1>1. NewProject(source) \in Project /\ NewProject(source).source = source
  BY DEF NewProject, Project
<1>2. CASE source \in Sources(list)
  <2>1. added = [projects |-> list.projects, active |-> source]
    BY <1>1, <1>2 DEF AddOrActivate
  <2>2. Sources(added) = Sources(list)
    BY <2>1 DEF Sources
  <2>3. added \in List
    BY <2>1, ListFacts DEF List
  <2>. QED
    BY <2>1, <2>2, <2>3, <1>2, ListFacts DEF ActiveSource, EmptyList
<1>3. CASE source \notin Sources(list)
  <2>. DEFINE old == list.projects  new == Append(list.projects, NewProject(source))
  <2>1. added = [projects |-> new, active |-> source]
    BY <1>1, <1>3 DEF AddOrActivate
  <2>2. old \in Seq(Project)
    BY ListFacts
  <2>3. /\ new \in Seq(Project) /\ Len(new) = Len(old) + 1
        /\ \A i \in 1 .. Len(old) : new[i] = old[i]
        /\ new[Len(old) + 1] = NewProject(source)
    BY <2>2, <1>1
  <2>4. DOMAIN old = 1 .. Len(old) /\ DOMAIN new = 1 .. (Len(old) + 1) /\ Len(old) \in Nat
    BY <2>2, <2>3
  <2>5. Sources(added) = Sources(list) \cup {source}
    <3>1. \A i \in DOMAIN new : i \in DOMAIN old \/ i = Len(old) + 1
      BY <2>4
    <3>2. Sources(added) = {new[i].source : i \in DOMAIN new}
      BY <2>1 DEF Sources
    <3>3. Sources(list) = {old[i].source : i \in DOMAIN old}
      BY DEF Sources
    <3>4. Len(old) + 1 \in DOMAIN new /\ \A i \in DOMAIN old : i \in DOMAIN new
      BY <2>4
    <3>. HIDE DEF new, old, added
    <3>. QED
      BY <3>1, <3>2, <3>3, <3>4, <2>3, <2>4, <1>1
  <2>6. new # <<>>
    <3>. HIDE DEF new, old
    <3>1. Len(new) # 0
      BY <2>3, <2>4
    <3>. QED BY <3>1
  <2>7. added \in List
    BY <2>1, <2>3 DEF List
  <2>8. added.active = source /\ added.projects = new
    BY <2>1
  <2>. HIDE DEF new, added
  <2>9. ActiveSource(added) = source /\ added # EmptyList
    BY <2>5, <2>6, <2>8 DEF ActiveSource, EmptyList
  <2>. QED
    BY <2>5, <2>6, <2>7, <2>8, <2>9 DEF added
<1>. QED BY <1>2, <1>3

LEMMA ActivateFacts ==
  ASSUME NEW list \in List, NEW source \in Sources(list)
  PROVE  LET activated == Activate(list, source) IN
         /\ activated \in List /\ activated.projects = list.projects
         /\ activated.active = source /\ ActiveSource(activated) = source
         /\ Sources(activated) = Sources(list)
<1>1. Activate(list, source) = [projects |-> list.projects, active |-> source]
  BY DEF Activate, List
<1>2. source \in Source
  BY ListFacts
<1>. QED
  BY <1>1, <1>2, ListFacts DEF List, Sources, ActiveSource

(* Marking a project changes neither the sources nor the active one. *)
LEMMA MarkSynchronisedFacts ==
  ASSUME NEW list \in List, NEW source \in Source
  PROVE  LET marked == MarkSynchronised(list, source) IN
         /\ marked \in List /\ Sources(marked) = Sources(list)
         /\ marked.active = list.active /\ ActiveSource(marked) = ActiveSource(list)
         /\ marked.projects = <<>> <=> list.projects = <<>>
<1> DEFINE old == list.projects
           entry(i) == IF old[i].source = source /\ source.kind = "remote"
                       THEN [old[i] EXCEPT !.synchronised = TRUE] ELSE old[i]
           new == [i \in DOMAIN old |-> entry(i)]
           marked == MarkSynchronised(list, source)
<1>1. old \in Seq(Project) /\ DOMAIN old = 1 .. Len(old) /\ Len(old) \in Nat
  BY ListFacts
<1>2. marked = [projects |-> new, active |-> list.active]
  <2>1. marked = [list EXCEPT !.projects = new]
    BY Zenon DEF MarkSynchronised
  <2>. HIDE DEF new, marked
  <2>. QED BY <2>1 DEF List
<1>3. \A i \in DOMAIN old : entry(i) \in Project /\ entry(i).source = old[i].source
  <2>. TAKE i \in DOMAIN old
  <2>1. old[i] \in Project
    BY <1>1
  <2>. QED BY <2>1 DEF Project
<1>4. new \in [1 .. Len(old) -> Project]
  BY <1>1, <1>3
<1>5. new \in Seq(Project) /\ DOMAIN new = DOMAIN old
  BY <1>1, <1>4
<1>6. marked \in List
  BY <1>2, <1>5, ListFacts DEF List
<1>7. Sources(marked) = Sources(list)
  <2>1. \A i \in DOMAIN new : new[i].source = old[i].source
    BY <1>3, <1>5
  <2>2. Sources(marked) = {new[i].source : i \in DOMAIN new}
    BY <1>2 DEF Sources
  <2>3. Sources(list) = {old[i].source : i \in DOMAIN old}
    BY DEF Sources
  <2>. HIDE DEF new, old, marked
  <2>. QED BY <1>5, <2>1, <2>2, <2>3
<1>8. new = <<>> <=> old = <<>>
  BY <1>1, <1>5
<1>9. ASSUME old # <<>> PROVE new[1].source = old[1].source
  BY <1>1, <1>3, <1>5, <1>9
<1>. HIDE DEF new
<1>. QED
  BY <1>2, <1>6, <1>7, <1>8, <1>9 DEF ActiveSource

(* A list that may be saved is a list, and a list with projects has an active
   one, which is the one it names if it lists it. *)
LEMMA SaveableFacts ==
  ASSUME NEW list, Saveable(list)
  PROVE  /\ list \in List
         /\ list.projects # <<>> => ActiveSource(list) \in Sources(list)
         /\ list.active \in Sources(list) => ActiveSource(list) = list.active
<1>1. list \in List
  BY DEF Saveable
<1>2. ASSUME list.projects # <<>> PROVE list.projects[1].source \in Sources(list)
  <2>1. list.projects \in Seq(Project)
    BY <1>1, ListFacts
  <2>2. 1 \in DOMAIN list.projects
    BY <1>2, <2>1
  <2>. QED BY <2>2 DEF Sources
<1>. QED
  BY <1>1, <1>2 DEF ActiveSource

----------------------------------------------------------------------------
(* The inductive invariant *)

(* Every list of the window, of its saves and of the file is one that adding
   and activating projects leaves, and its remote projects are cloned. *)
Cloned(list) == \A source \in RemotesIn(list) : destination[source.root] = "whole"
Lists == {projects, file.list} \cup {save.list : save \in saves}
ListsOK == \A list \in Lists : Saveable(list) /\ Cloned(list)

(* The window shows a project of its list. *)
ShownIsListed == open => shown \in Sources(projects)

(* Without a window there is no job, no save and nothing shown. *)
ClosedOK ==
  ~open => /\ clones = {} /\ fetches = {} /\ deletions = {} /\ saves = {}
           /\ projects = EmptyList /\ cloning = None /\ shown = None

(* The clone in progress, if there is one, is the one the window knows of. *)
OneClone ==
  \/ clones = {} /\ cloning = None
  \/ \E clone \in clones : clones = {clone} /\ clone.url = cloning

(* What a clone's step says of the disk, and of the list it will join. *)
CloneStepOK(clone) ==
  LET dir == CacheDir[clone.url] IN
  /\ clone.step = "rename" => partial[dir] \in {"whole", "absent"}
  /\ clone.step = "ended" /\ clone.ok =>
       /\ destination[dir] = "whole"
       /\ \A source \in RemotesIn(projects) : source.root # dir
ClonesOK == \A clone \in clones : CloneStepOK(clone)

(* Nothing is reported ahead of its time, and only listed clones are fetched. *)
ToldOK == \A d \in Dir : told[d] <= version[d]
FetchesOK == \A fetch \in fetches : fetch.source \in RemotesIn(projects)

(* With a window there is a layout, and the last one handed to the disk is
   the one the file has. *)
LayoutOK ==
  open => /\ layout # NoLayout
          /\ lastSavedLayout # NoLayout => lastSavedLayout = layoutFile

IInv ==
  /\ WorkspaceTypeOK
  /\ ListsOK /\ ShownIsListed /\ ClosedOK
  /\ OneClone /\ ClonesOK
  /\ ToldOK /\ FetchesOK /\ ReportedIsShown
  /\ LayoutOK /\ SettingsAreKept

----------------------------------------------------------------------------
(* The settings of the window *)

(* What a step of the workspace is to the settings. *)
SettingsStep ==
  \/ UNCHANGED settingsVars /\ open' = open
  \/ RestoreSettings /\ open'
  \/ \E quits \in BOOLEAN : EndSettings(quits) /\ ~open'
  \/ /\ open' = open
     /\ \/ \E chosen \in ThemePreference : SetThemePreference(chosen)
        \/ AppearanceChanges \/ LayoutChanges \/ SaveElapses
        \/ \E id \in 1 .. MaxTransitions : TransitionElapses(id)

LEMMA SettingsSteps == [WorkspaceNext]_allVars => SettingsStep
<1>. SUFFICES ASSUME [WorkspaceNext]_allVars PROVE SettingsStep
  OBVIOUS
<1>1. CASE UNCHANGED allVars
  BY <1>1 DEF allVars, workspaceVars, windowVars, SettingsStep
<1>2. CASE \E root \in Local : Launch(root)
  BY <1>2 DEF Launch, OpenWindow, SettingsStep
<1>3. CASE \E requested \in BOOLEAN : LaunchOutsideRepository(requested)
  BY <1>3 DEF LaunchOutsideRepository, OpenWindow, SettingsStep
<1>4. CASE \E saves_layout \in BOOLEAN : Exit(saves_layout)
  BY <1>4 DEF Exit, SettingsStep
<1>5. CASE SelectorInput
  <2>1. UNCHANGED settingsVars /\ open' = open
    BY <1>5 DEF SelectorInput, SwitchTo, AddProjectFromDisk, ActivateKnownUrl, StartClone,
                SynchroniseActiveProject, Unstarted
  <2>. QED BY <2>1 DEF SettingsStep
<1>6. CASE DeleteLocalBranch
  BY <1>6 DEF DeleteLocalBranch, windowVars, SettingsStep
<1>7. CASE ChangeSettings
  BY <1>7 DEF ChangeSettings, windowVars, SettingsStep
<1>8. CASE CloneProceeds
  <2>1. UNCHANGED settingsVars /\ open' = open
    BY <1>8 DEF CloneProceeds, PrepareClone, GitStartsWriting, GitEndsWriting, RenameClone,
                CleanUpClone, CloneEnds, CloneStepOf, windowVars
  <2>. QED BY <2>1 DEF SettingsStep
<1>9. CASE FetchProceeds \/ DeletionProceeds \/ SaveProceeds
  <2>1. UNCHANGED settingsVars /\ open' = open
    BY <1>9 DEF FetchProceeds, GitFetches, FetchEnds, DeletionProceeds, GitDeletes,
                DeletionEnds, SaveProceeds, TruncateFile, WriteFile, windowVars
  <2>. QED BY <2>1 DEF SettingsStep
<1>10. CASE SettingsTimer
  BY <1>10 DEF SettingsTimer, workspaceVars, windowVars, SettingsStep
<1>11. CASE \E orphan \in orphans : OrphanEnds(orphan)
  BY <1>11 DEF OrphanEnds, windowVars, SettingsStep
<1>. QED
  BY <1>1, <1>2, <1>3, <1>4, <1>5, <1>6, <1>7, <1>8, <1>9, <1>10, <1>11 DEF WorkspaceNext, UserInput

LEMMA SettingsTyped ==
  ASSUME SettingsTypeOK, SettingsStep
  PROVE  SettingsTypeOK'
<1>. USE SettingsAssumption DEF SettingsTypeOK
<1>1. CASE UNCHANGED settingsVars
  BY <1>1 DEF settingsVars, themeVars, layoutVars
<1>2. CASE RestoreSettings
  <2>1. PreferenceAtStartup \in ThemePreference
    BY DEF PreferenceAtStartup, ThemePreference, ThemeMode
  <2>2. ModeOf(PreferenceAtStartup, appearance) \in ThemeMode
    BY <2>1 DEF ModeOf, ThemePreference
  <2>3. LayoutAtStartup \in Layout
    BY DEF LayoutAtStartup, Layout
  <2>4. [LayoutAtStartup EXCEPT !.detail = FALSE] \in Layout
    BY <2>3 DEF Layout
  <2>5. saveTimer' \in BOOLEAN
    BY <1>2, Zenon DEF RestoreSettings
  <2>. HIDE DEF SettingsTypeOK
  <2>6. /\ preference' \in ThemePreference /\ mode' \in ThemeMode
        /\ transition' = NoTransition /\ lastTransition' = 0 /\ transitionTimers' = {}
        /\ layout' \in Layout /\ lastSavedLayout' = NoLayout
        /\ appearance' = appearance /\ themeFile' = themeFile /\ layoutFile' = layoutFile
    BY <1>2, <2>1, <2>2, <2>4 DEF RestoreSettings
  <2>. QED BY <2>5, <2>6 DEF SettingsTypeOK
<1>3. ASSUME NEW quits \in BOOLEAN, EndSettings(quits) PROVE SettingsTypeOK'
  BY <1>3 DEF EndSettings
<1>4. ASSUME NEW chosen \in ThemePreference, SetThemePreference(chosen) PROVE SettingsTypeOK'
  <2>1. ModeOf(chosen, appearance) \in ThemeMode
    BY DEF ModeOf, ThemePreference
  <2>2. /\ lastTransition' \in 0 .. MaxTransitions
        /\ transition' \in 1 .. lastTransition' \cup {NoTransition}
        /\ transitionTimers' \subseteq 1 .. lastTransition'
    <3>1. CASE UNCHANGED <<transition, lastTransition, transitionTimers>>
      BY <3>1
    <3>2. CASE /\ lastTransition < MaxTransitions /\ lastTransition' = lastTransition + 1
               /\ transition' = lastTransition + 1
               /\ transitionTimers' = transitionTimers \cup {lastTransition + 1}
      <4>1. lastTransition' \in 0 .. MaxTransitions /\ transition' \in 1 .. lastTransition'
        BY <3>2
      <4>2. \A id \in transitionTimers : id \in 1 .. lastTransition'
        BY <3>2
      <4>. QED BY <3>2, <4>1, <4>2
    <3>. QED BY <1>4, <3>1, <3>2 DEF SetThemePreference
  <2>. QED BY <1>4, <2>1, <2>2 DEF SetThemePreference, layoutVars
<1>5. CASE AppearanceChanges
  BY <1>5 DEF AppearanceChanges, layoutVars
<1>6. CASE LayoutChanges \/ SaveElapses
  BY <1>6 DEF LayoutChanges, SaveElapses, themeVars
<1>7. ASSUME NEW id \in 1 .. MaxTransitions, TransitionElapses(id) PROVE SettingsTypeOK'
  BY <1>7 DEF TransitionElapses, layoutVars
<1>. QED
  BY <1>1, <1>2, <1>3, <1>4, <1>5, <1>6, <1>7 DEF SettingsStep

LEMMA SettingsKept ==
  ASSUME SettingsTypeOK, SettingsStep, LayoutOK, SettingsAreKept
  PROVE  LayoutOK' /\ SettingsAreKept'
<1>. SUFFICES ASSUME open'
              PROVE  /\ layout' # NoLayout
                     /\ lastSavedLayout' # NoLayout => lastSavedLayout' = layoutFile'
                     /\ ModeIsPreferred' /\ CrossFadeHasItsTimer' /\ QuietLayoutIsSaved'
  BY DEF LayoutOK, SettingsAreKept
<1>1. CASE UNCHANGED settingsVars /\ open' = open
  BY <1>1 DEF settingsVars, themeVars, layoutVars, LayoutOK, SettingsAreKept, ModeIsPreferred,
              CrossFadeHasItsTimer, QuietLayoutIsSaved
<1>2. CASE RestoreSettings
  <2>1. LayoutAtStartup \in Layout
    BY SettingsAssumption DEF SettingsTypeOK, LayoutAtStartup, Layout
  <2>2. [LayoutAtStartup EXCEPT !.detail = FALSE] \in Layout
    BY <2>1 DEF Layout
  <2>3. layout' # NoLayout /\ lastSavedLayout' = NoLayout
    BY <1>2, <2>2, SettingsAssumption DEF RestoreSettings
  <2>4. ModeIsPreferred' /\ CrossFadeHasItsTimer'
    BY <1>2 DEF RestoreSettings, ModeIsPreferred, CrossFadeHasItsTimer, ModeOf
  <2>5. QuietLayoutIsSaved'
    BY <1>2 DEF RestoreSettings, QuietLayoutIsSaved
  <2>. QED BY <2>3, <2>4, <2>5
<1>3. CASE /\ open' = open
           /\ \/ \E chosen \in ThemePreference : SetThemePreference(chosen)
              \/ AppearanceChanges \/ LayoutChanges \/ SaveElapses
              \/ \E id \in 1 .. MaxTransitions : TransitionElapses(id)
  <2>. USE DEF LayoutOK, SettingsAreKept
  <2>1. layout # NoLayout /\ ModeIsPreferred /\ CrossFadeHasItsTimer /\ QuietLayoutIsSaved
        /\ (lastSavedLayout # NoLayout => lastSavedLayout = layoutFile)
    BY <1>3
  <2>2. ASSUME NEW chosen \in ThemePreference, SetThemePreference(chosen)
        PROVE  ModeIsPreferred' /\ CrossFadeHasItsTimer' /\ UNCHANGED layoutVars
    <3>1. ModeIsPreferred' /\ UNCHANGED layoutVars
      BY <2>2 DEF SetThemePreference, ModeIsPreferred, ModeOf
    <3>2. CrossFadeHasItsTimer'
      BY <2>1, <2>2 DEF SetThemePreference, CrossFadeHasItsTimer
    <3>. QED BY <3>1, <3>2
  <2>3. ASSUME AppearanceChanges
        PROVE  ModeIsPreferred' /\ CrossFadeHasItsTimer' /\ UNCHANGED layoutVars
    BY <2>1, <2>3 DEF AppearanceChanges, ModeIsPreferred, ModeOf, CrossFadeHasItsTimer
  <2>4. ASSUME NEW id \in 1 .. MaxTransitions, TransitionElapses(id)
        PROVE  ModeIsPreferred' /\ CrossFadeHasItsTimer' /\ UNCHANGED layoutVars
    <3>1. ModeIsPreferred' /\ UNCHANGED layoutVars
      BY <2>1, <2>4 DEF TransitionElapses, ModeIsPreferred
    <3>2. CrossFadeHasItsTimer'
      <4>1. id # NoTransition
        BY SettingsAssumption
      <4>2. transition' = (IF transition = id THEN NoTransition ELSE transition)
            /\ transitionTimers' = transitionTimers \ {id} /\ lastTransition' = lastTransition
        BY <2>4 DEF TransitionElapses
      <4>. QED BY <2>1, <2>4, <4>1, <4>2 DEF CrossFadeHasItsTimer, TransitionElapses
    <3>. QED BY <3>1, <3>2
  <2>5. ASSUME LayoutChanges \/ SaveElapses
        PROVE  ModeIsPreferred' /\ CrossFadeHasItsTimer'
    BY <2>1, <2>5 DEF LayoutChanges, SaveElapses, themeVars, ModeIsPreferred, CrossFadeHasItsTimer
  <2>6. ASSUME LayoutChanges \/ SaveElapses \/ UNCHANGED layoutVars
        PROVE  /\ layout' # NoLayout /\ QuietLayoutIsSaved'
               /\ lastSavedLayout' # NoLayout => lastSavedLayout' = layoutFile'
    BY <2>1, <2>6, SettingsAssumption DEF LayoutChanges, SaveElapses, layoutVars, QuietLayoutIsSaved
  <2>. QED BY <1>3, <2>2, <2>3, <2>4, <2>5, <2>6
<1>. QED
  BY <1>1, <1>2, <1>3 DEF SettingsStep

----------------------------------------------------------------------------
(* The lists of projects *)

(* A project whose clone is there, and whose directory no other project of
   the list has, joins the list without harm. *)
LEMMA AddedSaveable ==
  ASSUME NEW list, Saveable(list), Cloned(list), NEW source \in Source,
         source \in RemoteSources =>
           \/ source \in Sources(list)
           \/ /\ destination[source.root] = "whole"
              /\ \A other \in RemotesIn(list) : other.root # source.root
  PROVE  LET added == AddOrActivate(list, NewProject(source)) IN
         Saveable(added) /\ Cloned(added)
<1>. DEFINE added == AddOrActivate(list, NewProject(source))
<1>1. list \in List
  BY DEF Saveable
<1>2. added \in List /\ added.active = source /\ Sources(added) = Sources(list) \cup {source}
  BY <1>1, AddOrActivateFacts
<1>. HIDE DEF added
<1>3. RemotesIn(added) = RemotesIn(list) \cup ({source} \cap RemoteSources)
  BY <1>2 DEF RemotesIn
<1>4. \A other \in RemotesIn(added) : other \in RemotesIn(list)
                                      \/ (other = source /\ source \in RemoteSources)
  BY <1>3
<1>5. \A other \in RemotesIn(list) : destination[other.root] = "whole"
  BY DEF Cloned
<1>6. \A one, other \in RemotesIn(list) : one.root = other.root => one = other
  BY DEF Saveable
<1>7. source \in RemoteSources /\ source \in Sources(list) => source \in RemotesIn(list)
  BY DEF RemotesIn
<1>8. Cloned(added)
  BY <1>4, <1>5, <1>7 DEF Cloned
<1>9. \A one, other \in RemotesIn(added) : one.root = other.root => one = other
  BY <1>4, <1>6, <1>7
<1>. QED
  BY <1>2, <1>8, <1>9 DEF Saveable, added

(* A list with the same sources is as good, whichever it names active. *)
LEMMA SameSourcesSaveable ==
  ASSUME NEW list, Saveable(list), Cloned(list),
         NEW other \in List, Sources(other) = Sources(list)
  PROVE  Saveable(other) /\ Cloned(other)
BY DEF Saveable, Cloned, RemotesIn

LEMMA VersionTyped ==
  ASSUME WorkspaceTypeOK
  PROVE  \A source : VersionOf(source) \in Nat
BY SourceFacts DEF WorkspaceTypeOK, VersionOf

(* What a step leaves on screen: a project of the list, and the active one if
   the step changed either. *)
ShowsListed ==
  /\ shown' \in Sources(projects')
  /\ projects'.active # projects.active \/ shown' # shown => shown' = ActiveSource(projects')

(* activate_project, for a source that may join the list. *)
LEMMA ActivateProjectStep ==
  ASSUME IInv, open, NEW source \in Source, ActivateProject(source),
         source \in RemoteSources =>
           \/ source \in Sources(projects)
           \/ /\ destination[source.root] = "whole"
              /\ \A other \in RemotesIn(projects) : other.root # source.root
  PROVE  /\ Saveable(projects') /\ Cloned(projects') /\ ShowsListed
         /\ saves' = saves \cup {[list |-> projects', step |-> "open"]}
<1>1. projects \in Lists
  BY DEF Lists
<1>2. Saveable(projects) /\ Cloned(projects)
  BY <1>1 DEF IInv, ListsOK
<1>3. projects \in List
  BY <1>2 DEF Saveable
<1>4. projects' = AddOrActivate(projects, NewProject(source))
  BY DEF ActivateProject
<1>5. Saveable(projects') /\ Cloned(projects')
  BY <1>2, <1>4, AddedSaveable
<1>6. /\ projects'.active = source /\ ActiveSource(projects') = source
      /\ Sources(projects') = Sources(projects) \cup {source}
  BY <1>3, <1>4, AddOrActivateFacts
<1>7. saves' = saves \cup {[list |-> projects', step |-> "open"]}
  BY DEF ActivateProject, PersistProjects
<1>8. CASE projects.active = source
  <2>1. shown' = shown
    BY <1>8 DEF ActivateProject
  <2>2. shown \in Sources(projects)
    BY DEF IInv, ShownIsListed
  <2>. QED BY <1>5, <1>6, <1>7, <1>8, <2>1, <2>2 DEF ShowsListed
<1>9. CASE projects.active # source
  <2>1. shown' = source
    BY <1>9, Zenon DEF ActivateProject, OpenProject
  <2>. QED BY <1>5, <1>6, <1>7, <2>1 DEF ShowsListed
<1>. QED BY <1>8, <1>9

LEMMA ListsAreSaveable ==
  ASSUME IInv
  PROVE  /\ Saveable(projects) /\ Cloned(projects)
         /\ Saveable(file.list) /\ Cloned(file.list)
         /\ \A save \in saves : Saveable(save.list) /\ Cloned(save.list)
BY DEF IInv, ListsOK, Lists

(* What a step leaves in memory, in the saves and in the file, the clones on
   disk being those before the step. *)
Written == Lists \cup {projects', EmptyList}
ListStep ==
  /\ Saveable(projects') /\ Cloned(projects')
  /\ open' => ShowsListed
  /\ file'.list \in Written /\ file'.readable \in BOOLEAN
  /\ saves' \subseteq [list : Written, step : {"open", "write"}]

LEMMA PersistStep ==
  ASSUME IInv, PersistProjects
  PROVE  saves' \subseteq [list : Written, step : {"open", "write"}]
<1>1. \A save \in saves : save \in [list : Written, step : {"open", "write"}]
  <2>. TAKE save \in saves
  <2>1. save \in [list : List, step : {"open", "write"}] /\ save.list \in Lists
    BY DEF IInv, WorkspaceTypeOK, Lists
  <2>. QED BY <2>1 DEF Written
<1>2. [list |-> projects', step |-> "open"] \in [list : Written, step : {"open", "write"}]
  BY DEF Written
<1>. QED BY <1>1, <1>2 DEF PersistProjects

LEMMA QuietListStep ==
  ASSUME IInv, UNCHANGED <<open, projects, shown, saves, file>>
  PROVE  ListStep
<1>1. saves \subseteq [list : Written, step : {"open", "write"}]
  <2>. SUFFICES ASSUME NEW save \in saves
                PROVE  save \in [list : Written, step : {"open", "write"}]
    OBVIOUS
  <2>1. save \in [list : List, step : {"open", "write"}] /\ save.list \in Lists
    BY DEF IInv, WorkspaceTypeOK, Lists
  <2>. QED BY <2>1 DEF Written
<1>2. file.list \in Written /\ file.readable \in BOOLEAN
  BY DEF IInv, WorkspaceTypeOK, Written, Lists
<1>3. Saveable(projects) /\ Cloned(projects)
  BY ListsAreSaveable
<1>4. open => shown \in Sources(projects)
  BY DEF IInv, ShownIsListed
<1>. QED BY <1>1, <1>2, <1>3, <1>4 DEF ListStep, ShowsListed

(* main, whatever repository is requested. *)
LEMMA OpenWindowStep ==
  ASSUME IInv, NEW list, Saveable(list), Cloned(list), list.projects # <<>>, OpenWindow(list)
  PROVE  ListStep
<1>1. /\ projects' = list /\ shown' = ActiveSource(list) /\ saves' = saves
      /\ file' = [list |-> list, readable |-> TRUE]
  BY DEF OpenWindow
<1>2. saves' \subseteq [list : Written, step : {"open", "write"}]
  <2>. SUFFICES ASSUME NEW save \in saves
                PROVE  save \in [list : Written, step : {"open", "write"}]
    BY <1>1
  <2>1. save \in [list : List, step : {"open", "write"}] /\ save.list \in Lists
    BY DEF IInv, WorkspaceTypeOK, Lists
  <2>. QED BY <2>1 DEF Written
<1>3. file'.list \in Written /\ file'.readable \in BOOLEAN
  BY <1>1 DEF Written
<1>4. ActiveSource(list) \in Sources(list)
  BY SaveableFacts
<1>. QED BY <1>1, <1>2, <1>3, <1>4 DEF ListStep, ShowsListed

LEMMA ListSteps ==
  ASSUME IInv, [WorkspaceNext]_allVars
  PROVE  ListStep
<1>1. CASE UNCHANGED allVars
  BY <1>1, QuietListStep DEF allVars, workspaceVars, windowVars
<1>2. Saveable(ListAtStartup) /\ Cloned(ListAtStartup)
  BY ListsAreSaveable, EmptyListFacts DEF ListAtStartup, Cloned, RemotesIn
<1>3. ASSUME NEW root \in Local, Launch(root) PROVE ListStep
  <2>. DEFINE list == AddOrActivate(ListAtStartup, NewProject(LocalSource(root)))
  <2>1. LocalSource(root) \in Source /\ LocalSource(root) \notin RemoteSources
    BY SourceFacts
  <2>2. Saveable(list) /\ Cloned(list)
    BY <1>2, <2>1, AddedSaveable
  <2>3. list.projects # <<>>
    BY <1>2, <2>1, AddOrActivateFacts DEF Saveable
  <2>. QED BY <1>3, <2>2, <2>3, OpenWindowStep DEF Launch
<1>4. ASSUME NEW requested \in BOOLEAN, LaunchOutsideRepository(requested) PROVE ListStep
  BY <1>2, <1>4, OpenWindowStep DEF LaunchOutsideRepository, AbortsLaunch
<1>5. ASSUME NEW saves_layout \in BOOLEAN, Exit(saves_layout) PROVE ListStep
  <2>1. /\ projects' = EmptyList /\ ~open' /\ saves' = {} /\ file' = file
    BY <1>5 DEF Exit
  <2>2. Saveable(EmptyList) /\ Cloned(EmptyList)
    BY EmptyListFacts DEF Cloned, RemotesIn
  <2>3. file.list \in Written /\ file.readable \in BOOLEAN
    BY DEF IInv, WorkspaceTypeOK, Written, Lists
  <2>. QED BY <2>1, <2>2, <2>3 DEF ListStep
<1>6. ASSUME NEW save \in saves, TruncateFile(save) \/ WriteFile(save) PROVE ListStep
  <2>1. UNCHANGED <<open, projects, shown>>
    BY <1>6 DEF TruncateFile, WriteFile, windowVars
  <2>2. save \in [list : List, step : {"open", "write"}] /\ save.list \in Lists
    BY DEF IInv, WorkspaceTypeOK, Lists
  <2>3. file' \in {[list |-> save.list, readable |-> TRUE], [list |-> EmptyList, readable |-> FALSE]}
    BY <1>6 DEF TruncateFile, WriteFile
  <2>4. file'.list \in Written /\ file'.readable \in BOOLEAN
    <3>1. CASE file' = [list |-> save.list, readable |-> TRUE]
      BY <2>2, <3>1 DEF Written
    <3>2. CASE file' = [list |-> EmptyList, readable |-> FALSE]
      BY <3>2 DEF Written
    <3>. QED BY <2>3, <3>1, <3>2
  <2>5. saves' \subseteq saves \cup {[save EXCEPT !.step = "write"]}
    BY <1>6 DEF TruncateFile, WriteFile
  <2>6. \A other \in saves : other \in [list : Written, step : {"open", "write"}]
    <3>. TAKE other \in saves
    <3>1. other \in [list : List, step : {"open", "write"}] /\ other.list \in Lists
      BY DEF IInv, WorkspaceTypeOK, Lists
    <3>. QED BY <3>1 DEF Written
  <2>7. [save EXCEPT !.step = "write"] \in [list : Written, step : {"open", "write"}]
    BY <2>6
  <2>8. Saveable(projects) /\ Cloned(projects)
    BY ListsAreSaveable
  <2>9. open => shown \in Sources(projects)
    BY DEF IInv, ShownIsListed
  <2>. QED BY <2>1, <2>4, <2>5, <2>6, <2>7, <2>8, <2>9 DEF ListStep, ShowsListed
<1>7. ASSUME NEW query \in NameQuery, NEW source \in Source, SwitchTo(query, source)
      PROVE  ListStep
  <2>1. source \in Sources(projects)
    BY <1>7 DEF SwitchTo, Rows
  <2>2. /\ projects' = Activate(projects, source) /\ PersistProjects
        /\ shown' = source /\ file' = file
    BY <1>7 DEF SwitchTo, OpenProject, Unstarted
  <2>3. Saveable(projects) /\ Cloned(projects)
    BY ListsAreSaveable
  <2>4. projects \in List
    BY <2>3 DEF Saveable
  <2>5. /\ projects' \in List /\ ActiveSource(projects') = source
        /\ Sources(projects') = Sources(projects)
    BY <2>1, <2>2, <2>4, ActivateFacts
  <2>6. Saveable(projects') /\ Cloned(projects')
    BY <2>1, <2>3, <2>5, SameSourcesSaveable
  <2>7. file.list \in Written /\ file.readable \in BOOLEAN
    BY DEF IInv, WorkspaceTypeOK, Written, Lists
  <2>. QED BY <2>1, <2>2, <2>5, <2>6, <2>7, PersistStep DEF ListStep, ShowsListed
<1>8. ASSUME NEW source \in Source, ActivateProject(source), open, file' = file,
             source \in RemoteSources =>
               \/ source \in Sources(projects)
               \/ /\ destination[source.root] = "whole"
                  /\ \A other \in RemotesIn(projects) : other.root # source.root
      PROVE  ListStep
  <2>1. Saveable(projects') /\ Cloned(projects') /\ ShowsListed
    BY <1>8, ActivateProjectStep
  <2>2. PersistProjects
    BY <1>8 DEF ActivateProject
  <2>3. file.list \in Written /\ file.readable \in BOOLEAN
    BY DEF IInv, WorkspaceTypeOK, Written, Lists
  <2>. QED BY <1>8, <2>1, <2>2, <2>3, PersistStep DEF ListStep
<1>9. ASSUME NEW root \in Local, AddProjectFromDisk(root) PROVE ListStep
  <2>1. LocalSource(root) \in Source /\ LocalSource(root) \notin RemoteSources
    BY SourceFacts
  <2>. QED BY <1>8, <1>9, <2>1 DEF AddProjectFromDisk, Unstarted, Input
<1>10. ASSUME NEW url \in Url, ActivateKnownUrl(url) PROVE ListStep
  <2>1. RemoteSource(url) \in Source
    BY SourceFacts
  <2>. QED BY <1>8, <1>10, <2>1 DEF ActivateKnownUrl, Unstarted, Input, Knows
<1>11. ASSUME NEW clone \in clones, CloneEnds(clone) PROVE ListStep
  <2>1. CASE ~clone.ok
    BY <1>11, <2>1, QuietListStep DEF CloneEnds
  <2>2. CASE clone.ok
    <3>1. clone.url \in Url
      BY DEF IInv, WorkspaceTypeOK
    <3>2. RemoteSource(clone.url) \in Source /\ RemoteSource(clone.url).root = CacheDir[clone.url]
      BY <3>1, SourceFacts
    <3>3. /\ destination[CacheDir[clone.url]] = "whole"
          /\ \A source \in RemotesIn(projects) : source.root # CacheDir[clone.url]
      BY <1>11, <2>2 DEF IInv, ClonesOK, CloneStepOK, CloneEnds
    <3>4. open
      BY DEF IInv, ClosedOK
    <3>5. ActivateProject(RemoteSource(clone.url)) /\ file' = file
      BY <1>11, <2>2 DEF CloneEnds
    <3>. QED BY <1>8, <3>2, <3>3, <3>4, <3>5
  <2>. QED BY <2>1, <2>2
<1>12. ASSUME NEW fetch \in fetches, FetchEnds(fetch) PROVE ListStep
  <2>1. CASE ~fetch.ok
    BY <1>12, <2>1, QuietListStep DEF FetchEnds
  <2>2. CASE fetch.ok
    <3>1. /\ projects' = MarkSynchronised(projects, fetch.source) /\ PersistProjects
          /\ UNCHANGED <<open, shown, file>>
      BY <1>12, <2>2 DEF FetchEnds
    <3>2. fetch.source \in Source
      BY DEF IInv, WorkspaceTypeOK
    <3>3. Saveable(projects) /\ Cloned(projects)
      BY ListsAreSaveable
    <3>4. projects \in List
      BY <3>3 DEF Saveable
    <3>5. /\ projects' \in List /\ Sources(projects') = Sources(projects)
          /\ projects'.active = projects.active
      BY <3>1, <3>2, <3>4, MarkSynchronisedFacts
    <3>6. shown \in Sources(projects)
      BY DEF IInv, ClosedOK, ShownIsListed
    <3>7. Saveable(projects') /\ Cloned(projects')
      BY <3>3, <3>5, SameSourcesSaveable
    <3>8. file.list \in Written /\ file.readable \in BOOLEAN
      BY DEF IInv, WorkspaceTypeOK, Written, Lists
    <3>. QED BY <3>1, <3>5, <3>6, <3>7, <3>8, PersistStep DEF ListStep, ShowsListed
  <2>. QED BY <2>1, <2>2
<1>13. ASSUME NEW url \in Url, StartClone(url) PROVE ListStep
  BY <1>13, QuietListStep DEF StartClone
<1>14. CASE SynchroniseActiveProject \/ DeleteLocalBranch \/ ChangeSettings \/ SettingsTimer
  BY <1>14, QuietListStep DEF SynchroniseActiveProject, DeleteLocalBranch, ChangeSettings,
     SettingsTimer, workspaceVars, windowVars
<1>15. ASSUME NEW clone \in clones,
              \/ PrepareClone(clone) \/ GitStartsWriting(clone) \/ GitEndsWriting(clone)
              \/ RenameClone(clone) \/ CleanUpClone(clone)
       PROVE  ListStep
  BY <1>15, QuietListStep DEF PrepareClone, GitStartsWriting, GitEndsWriting, RenameClone,
     CleanUpClone, CloneStepOf, windowVars
<1>16. ASSUME NEW fetch \in fetches, GitFetches(fetch) PROVE ListStep
  BY <1>16, QuietListStep DEF GitFetches, windowVars
<1>17. ASSUME NEW deletion \in deletions, GitDeletes(deletion) \/ DeletionEnds(deletion)
       PROVE  ListStep
  BY <1>17, QuietListStep DEF GitDeletes, DeletionEnds, windowVars
<1>18. ASSUME NEW orphan \in orphans, OrphanEnds(orphan) PROVE ListStep
  BY <1>18, QuietListStep DEF OrphanEnds, windowVars
<1>. QED
  BY <1>1, <1>3, <1>4, <1>5, <1>6, <1>7, <1>9, <1>10, <1>11, <1>12, <1>13, <1>14, <1>15,
     <1>16, <1>17, <1>18
  DEF WorkspaceNext, UserInput, SelectorInput, CloneProceeds, FetchProceeds, DeletionProceeds,
      SaveProceeds

----------------------------------------------------------------------------
(* Types *)

ListsTyped ==
  /\ {projects, file.list} \subseteq List /\ file.readable \in BOOLEAN
  /\ saves \subseteq [list : List, step : {"open", "write"}]
WindowTyped ==
  /\ {open, synchronising} \subseteq BOOLEAN
  /\ shown \in Source \cup {None} /\ viewed \in Nat /\ cloning \in Url \cup {None}
  /\ inputs \in 0 .. MaxInputs /\ launches \in 0 .. MaxLaunches
JobsTyped ==
  /\ clones \subseteq [url : Url, step : CloneStep, ok : BOOLEAN]
  /\ fetches \cup deletions \subseteq [source : Source, step : {"git", "ended"}, ok : BOOLEAN]
DiskTyped ==
  /\ {destination, partial} \subseteq [Dir -> Presence]
  /\ {version, told} \subseteq [Dir -> Nat]
  /\ orphans \subseteq [kind : {"clone", "references"}, dir : Dir]

LEMMA TypeOKParts ==
  WorkspaceTypeOK <=> ListsTyped /\ WindowTyped /\ JobsTyped /\ DiskTyped /\ SettingsTypeOK
BY DEF WorkspaceTypeOK, ListsTyped, WindowTyped, JobsTyped, DiskTyped

LEMMA ListsStayTyped ==
  ASSUME IInv, ListStep
  PROVE  ListsTyped'
<1>1. Written \subseteq List
  BY EmptyListFacts DEF Written, Lists, ListStep, Saveable, IInv, ListsOK
<1>2. \A save \in saves' : save \in [list : List, step : {"open", "write"}]
  BY <1>1 DEF ListStep
<1>3. projects' \in List
  BY DEF ListStep, Saveable
<1>. QED BY <1>1, <1>2, <1>3 DEF ListStep, ListsTyped

LEMMA OpenWindowTyped ==
  ASSUME WorkspaceTypeOK, NEW list \in List, list.projects # <<>>, launches < MaxLaunches,
         OpenWindow(list)
  PROVE  WindowTyped'
<1>1. ActiveSource(list) \in Source
  BY ListFacts DEF ActiveSource, Sources
<1>. QED
  BY <1>1, VersionTyped, WorkspaceAssumption DEF OpenWindow, WorkspaceTypeOK, WindowTyped

LEMMA WindowStaysTyped ==
  ASSUME IInv, [WorkspaceNext]_allVars
  PROVE  WindowTyped'
<1>1. WorkspaceTypeOK /\ WindowTyped
  BY TypeOKParts DEF IInv
<1>2. \A source : VersionOf(source) \in Nat
  BY <1>1, VersionTyped
<1>3. Input => inputs' \in 0 .. MaxInputs
  BY <1>1, WorkspaceAssumption DEF Input, WindowTyped
<1>4. ListAtStartup \in List
  BY ListsAreSaveable, EmptyListFacts DEF ListAtStartup, Saveable
<1>5. CASE UNCHANGED allVars
  BY <1>1, <1>5 DEF allVars, workspaceVars, windowVars, WindowTyped
<1>6. ASSUME NEW root \in Local, Launch(root) PROVE WindowTyped'
  <2>1. LocalSource(root) \in Source
    BY SourceFacts
  <2>. QED BY <1>1, <1>4, <1>6, <2>1, AddOrActivateFacts, OpenWindowTyped DEF Launch
<1>7. ASSUME NEW requested \in BOOLEAN, LaunchOutsideRepository(requested) PROVE WindowTyped'
  BY <1>1, <1>4, <1>7, OpenWindowTyped DEF LaunchOutsideRepository, AbortsLaunch
<1>8. ASSUME NEW saves_layout \in BOOLEAN, Exit(saves_layout) PROVE WindowTyped'
  BY <1>1, <1>8 DEF Exit, WindowTyped
<1>9. ASSUME NEW query \in NameQuery, NEW source \in Source, SwitchTo(query, source)
      PROVE  WindowTyped'
  BY <1>1, <1>2, <1>3, <1>9 DEF SwitchTo, OpenProject, Unstarted, WindowTyped
<1>10. ASSUME NEW source \in Source, ActivateProject(source)
       PROVE  shown' \in Source \cup {None} /\ viewed' \in Nat
  BY <1>1, <1>2, <1>10 DEF ActivateProject, OpenProject, WindowTyped
<1>11. ASSUME NEW root \in Local, AddProjectFromDisk(root) PROVE WindowTyped'
  BY <1>1, <1>3, <1>10, <1>11, SourceFacts DEF AddProjectFromDisk, Unstarted, WindowTyped
<1>12. ASSUME NEW url \in Url, ActivateKnownUrl(url) \/ StartClone(url) PROVE WindowTyped'
  <2>1. RemoteSource(url) \in Source
    BY SourceFacts
  <2>2. CASE ActivateKnownUrl(url)
    BY <1>1, <1>3, <1>10, <2>1, <2>2 DEF ActivateKnownUrl, Unstarted, WindowTyped
  <2>3. CASE StartClone(url)
    BY <1>1, <1>3, <2>3 DEF StartClone, WindowTyped
  <2>. QED BY <1>12, <2>2, <2>3
<1>13. CASE SynchroniseActiveProject \/ DeleteLocalBranch \/ ChangeSettings
  BY <1>1, <1>3, <1>13 DEF SynchroniseActiveProject, DeleteLocalBranch, ChangeSettings,
     windowVars, WindowTyped
<1>14. ASSUME NEW clone \in clones, CloneEnds(clone) PROVE WindowTyped'
  <2>1. RemoteSource(clone.url) \in Source
    BY <1>1, SourceFacts DEF WorkspaceTypeOK
  <2>2. shown' \in Source \cup {None} /\ viewed' \in Nat
    BY <1>1, <1>10, <1>14, <2>1 DEF CloneEnds, WindowTyped
  <2>. QED BY <1>1, <1>14, <2>2 DEF CloneEnds, WindowTyped
<1>15. CASE \E clone \in clones : \/ PrepareClone(clone) \/ GitStartsWriting(clone)
                                  \/ GitEndsWriting(clone) \/ RenameClone(clone)
                                  \/ CleanUpClone(clone)
  BY <1>1, <1>15 DEF PrepareClone, GitStartsWriting, GitEndsWriting, RenameClone,
     CleanUpClone, CloneStepOf, windowVars, WindowTyped
<1>16. CASE FetchProceeds
  BY <1>1, <1>2, <1>16 DEF FetchProceeds, GitFetches, FetchEnds, ReloadShown, windowVars, WindowTyped
<1>17. CASE DeletionProceeds
  BY <1>1, <1>2, <1>17 DEF DeletionProceeds, GitDeletes, DeletionEnds, ReloadShown, windowVars,
     WindowTyped
<1>18. CASE SaveProceeds \/ SettingsTimer
  BY <1>1, <1>18 DEF SaveProceeds, TruncateFile, WriteFile, SettingsTimer, workspaceVars,
     windowVars, WindowTyped
<1>19. CASE \E orphan \in orphans : OrphanEnds(orphan)
  BY <1>1, <1>19 DEF OrphanEnds, windowVars, WindowTyped
<1>. QED
  BY <1>5, <1>6, <1>7, <1>8, <1>9, <1>11, <1>12, <1>13, <1>14, <1>15, <1>16, <1>17, <1>18, <1>19
  DEF WorkspaceNext, UserInput, SelectorInput, CloneProceeds

LEMMA JobsStayTyped ==
  ASSUME IInv, [WorkspaceNext]_allVars
  PROVE  JobsTyped'
<1>1. WorkspaceTypeOK /\ JobsTyped
  BY TypeOKParts DEF IInv
<1>2. ASSUME NEW clone \in clones, NEW step \in CloneStep, NEW ok \in BOOLEAN,
             CloneStepOf(clone, step, ok)
      PROVE  JobsTyped'
  <2>1. [clone EXCEPT !.step = step, !.ok = ok] \in [url : Url, step : CloneStep, ok : BOOLEAN]
    BY <1>1 DEF JobsTyped
  <2>. QED BY <1>1, <1>2, <2>1 DEF CloneStepOf, JobsTyped
<1>3. CASE UNCHANGED jobVars
  BY <1>1, <1>3 DEF jobVars, JobsTyped
<1>4. CASE \/ UNCHANGED allVars \/ SaveProceeds \/ SettingsTimer \/ ChangeSettings
           \/ \E orphan \in orphans : OrphanEnds(orphan)
  <2>1. UNCHANGED jobVars
    BY <1>4 DEF allVars, workspaceVars, SaveProceeds, TruncateFile, WriteFile, SettingsTimer,
       ChangeSettings, OrphanEnds
  <2>. QED BY <1>3, <2>1
<1>5. CASE \/ \E root \in Local : Launch(root)
           \/ \E requested \in BOOLEAN : LaunchOutsideRepository(requested)
  <2>1. UNCHANGED jobVars
    BY <1>5 DEF Launch, LaunchOutsideRepository, OpenWindow
  <2>. QED BY <1>3, <2>1
<1>6. CASE \E saves_layout \in BOOLEAN : Exit(saves_layout)
  BY <1>6 DEF Exit, JobsTyped
<1>7. CASE \/ \E query \in NameQuery, source \in Source : SwitchTo(query, source)
           \/ \E root \in Local : AddProjectFromDisk(root)
           \/ \E url \in Url : ActivateKnownUrl(url)
  <2>1. UNCHANGED jobVars
    BY <1>7 DEF SwitchTo, AddProjectFromDisk, ActivateKnownUrl, Unstarted
  <2>. QED BY <1>3, <2>1
<1>8. ASSUME NEW url \in Url, StartClone(url) PROVE JobsTyped'
  <2>1. [url |-> url, step |-> "prepare", ok |-> FALSE] \in [url : Url, step : CloneStep, ok : BOOLEAN]
    BY DEF CloneStep
  <2>. QED BY <1>1, <1>8, <2>1 DEF StartClone, JobsTyped
<1>9. CASE SynchroniseActiveProject
  <2>1. ActiveSource(projects) \in Source
    BY <1>9, SourceFacts DEF SynchroniseActiveProject
  <2>2. [source |-> ActiveSource(projects), step |-> "git", ok |-> FALSE]
          \in [source : Source, step : {"git", "ended"}, ok : BOOLEAN]
    BY <2>1
  <2>. QED BY <1>1, <1>9, <2>2 DEF SynchroniseActiveProject, JobsTyped
<1>10. CASE DeleteLocalBranch
  <2>1. shown \in Sources(projects) /\ projects \in List
    BY <1>10 DEF DeleteLocalBranch, Input, IInv, ShownIsListed, WorkspaceTypeOK
  <2>2. shown \in Source
    BY <2>1, ListFacts
  <2>3. [source |-> shown, step |-> "git", ok |-> FALSE]
          \in [source : Source, step : {"git", "ended"}, ok : BOOLEAN]
    BY <2>2
  <2>. QED BY <1>1, <1>10, <2>3 DEF DeleteLocalBranch, JobsTyped
<1>11. ASSUME NEW clone \in clones, CloneEnds(clone) PROVE JobsTyped'
  BY <1>1, <1>11 DEF CloneEnds, JobsTyped
<1>12. ASSUME NEW clone \in clones,
              \/ PrepareClone(clone) \/ GitStartsWriting(clone) \/ GitEndsWriting(clone)
              \/ RenameClone(clone) \/ CleanUpClone(clone)
       PROVE  JobsTyped'
  <2>1. \E step \in CloneStep, ok \in BOOLEAN : CloneStepOf(clone, step, ok)
    BY <1>12 DEF PrepareClone, GitStartsWriting, GitEndsWriting, RenameClone, CleanUpClone, CloneStep
  <2>. QED BY <1>2, <2>1
<1>13. ASSUME NEW fetch \in fetches, GitFetches(fetch) \/ FetchEnds(fetch) PROVE JobsTyped'
  <2>1. \A ok \in BOOLEAN : [fetch EXCEPT !.step = "ended", !.ok = ok]
                              \in [source : Source, step : {"git", "ended"}, ok : BOOLEAN]
    BY <1>1 DEF JobsTyped
  <2>. QED BY <1>1, <1>13, <2>1 DEF GitFetches, FetchEnds, JobsTyped
<1>14. ASSUME NEW deletion \in deletions, GitDeletes(deletion) \/ DeletionEnds(deletion)
       PROVE  JobsTyped'
  <2>1. \A ok \in BOOLEAN : [deletion EXCEPT !.step = "ended", !.ok = ok]
                              \in [source : Source, step : {"git", "ended"}, ok : BOOLEAN]
    BY <1>1 DEF JobsTyped
  <2>. QED BY <1>1, <1>14, <2>1 DEF GitDeletes, DeletionEnds, JobsTyped
<1>. QED
  BY <1>4, <1>5, <1>6, <1>7, <1>8, <1>9, <1>10, <1>11, <1>12, <1>13, <1>14
  DEF WorkspaceNext, UserInput, SelectorInput, CloneProceeds, FetchProceeds, DeletionProceeds

(* What happens on disk: the clone's own directory, its sibling, and the
   versions and the reports of git's commands. *)
LEMMA DiskStaysTyped ==
  ASSUME IInv, [WorkspaceNext]_allVars
  PROVE  DiskTyped'
<1>1. WorkspaceTypeOK /\ DiskTyped
  BY TypeOKParts DEF IInv
<1>2. \A source : Moves(source) \in [Dir -> Nat]
  BY <1>1, SourceFacts DEF Moves, DiskTyped
<1>3. \A dir \in Dir, there \in Presence :
        /\ [partial EXCEPT ![dir] = there] \in [Dir -> Presence]
        /\ [destination EXCEPT ![dir] = there] \in [Dir -> Presence]
  BY <1>1 DEF DiskTyped
<1>4. \A dir \in Dir : partial[dir] \in Presence
  BY <1>1 DEF DiskTyped
<1>5. \A clone \in clones : CacheDir[clone.url] \in Dir
  BY <1>1, SourceFacts DEF WorkspaceTypeOK
<1>6. CASE UNCHANGED <<diskVars, told>>
  BY <1>1, <1>6 DEF diskVars, DiskTyped
<1>7. CASE UNCHANGED allVars \/ SaveProceeds \/ SettingsTimer \/ UserInput
  <2>1. UNCHANGED <<diskVars, told>>
    BY <1>7 DEF allVars, workspaceVars, SaveProceeds, TruncateFile, WriteFile, SettingsTimer,
       UserInput, SelectorInput, ChangeSettings, SwitchTo, AddProjectFromDisk, ActivateKnownUrl,
       Unstarted, StartClone, SynchroniseActiveProject, DeleteLocalBranch
  <2>. QED BY <1>6, <2>1
<1>8. CASE \/ \E root \in Local : Launch(root)
           \/ \E requested \in BOOLEAN : LaunchOutsideRepository(requested)
  <2>1. UNCHANGED <<diskVars, told>>
    BY <1>8 DEF Launch, LaunchOutsideRepository, OpenWindow
  <2>. QED BY <1>6, <2>1
<1>14. ASSUME NEW saves_layout \in BOOLEAN, Exit(saves_layout) PROVE DiskTyped'
  <2>1. \A clone \in clones : [kind |-> "clone", dir |-> CacheDir[clone.url]]
                               \in [kind : {"clone", "references"}, dir : Dir]
    BY <1>5
  <2>2. \A source \in RemoteSources : [kind |-> "references", dir |-> source.root]
                                         \in [kind : {"clone", "references"}, dir : Dir]
    BY SourceFacts
  <2>3. Orphaned \subseteq [kind : {"clone", "references"}, dir : Dir]
    BY <2>1, <2>2 DEF Orphaned
  <2>. QED BY <1>1, <1>14, <2>3 DEF Exit, DiskTyped
<1>15. ASSUME NEW orphan \in orphans, OrphanEnds(orphan) PROVE DiskTyped'
  <2>1. orphan.dir \in Dir
    BY <1>1 DEF DiskTyped
  <2>2. /\ partial' \in {partial, [partial EXCEPT ![orphan.dir] = "absent"]}
        /\ version' \in {version, [version EXCEPT ![orphan.dir] = @ + 1]}
        /\ orphans' \subseteq orphans /\ UNCHANGED <<destination, told>>
    BY <1>15 DEF OrphanEnds
  <2>3. [partial EXCEPT ![orphan.dir] = "absent"] \in [Dir -> Presence]
    BY <1>3, <2>1 DEF Presence
  <2>4. [version EXCEPT ![orphan.dir] = @ + 1] \in [Dir -> Nat]
    BY <1>1, <2>1 DEF DiskTyped
  <2>. QED BY <1>1, <2>2, <2>3, <2>4 DEF DiskTyped
<1>9. ASSUME NEW clone \in clones, CloneEnds(clone) PROVE DiskTyped'
  BY <1>6, <1>9 DEF CloneEnds
<1>10. ASSUME NEW clone \in clones,
              \/ PrepareClone(clone) \/ GitStartsWriting(clone) \/ GitEndsWriting(clone)
              \/ RenameClone(clone) \/ CleanUpClone(clone)
       PROVE  DiskTyped'
  <2>1. UNCHANGED <<version, told, orphans>>
    BY <1>10 DEF PrepareClone, GitStartsWriting, GitEndsWriting, RenameClone, CleanUpClone, CloneStepOf
  <2>2. "absent" \in Presence /\ "partial" \in Presence /\ "whole" \in Presence
    BY DEF Presence
  <2>. DEFINE dir == CacheDir[clone.url]
  <2>3. dir \in Dir
    BY <1>5
  <2>4. /\ partial \in [Dir -> Presence] /\ destination \in [Dir -> Presence]
        /\ [partial EXCEPT ![dir] = "absent"] \in [Dir -> Presence]
        /\ [partial EXCEPT ![dir] = "partial"] \in [Dir -> Presence]
        /\ [partial EXCEPT ![dir] = "whole"] \in [Dir -> Presence]
        /\ [destination EXCEPT ![dir] = partial[dir]] \in [Dir -> Presence]
    BY <1>1, <1>3, <1>4, <2>2, <2>3 DEF DiskTyped
  <2>5. /\ partial' \in {partial, [partial EXCEPT ![dir] = "absent"],
                           [partial EXCEPT ![dir] = "partial"], [partial EXCEPT ![dir] = "whole"]}
        /\ destination' \in {destination, [destination EXCEPT ![dir] = partial[dir]]}
    BY <1>10, Zenon DEF PrepareClone, GitStartsWriting, GitEndsWriting, RenameClone, CleanUpClone
  <2>. HIDE DEF dir
  <2>6. partial' \in [Dir -> Presence] /\ destination' \in [Dir -> Presence]
    BY <2>4, <2>5
  <2>. QED BY <1>1, <2>1, <2>6 DEF DiskTyped
<1>11. \A source : Report(source) => told' \in [Dir -> Nat]
  BY <1>1, SourceFacts DEF Report, DiskTyped
<1>12. ASSUME NEW fetch \in fetches, GitFetches(fetch) \/ FetchEnds(fetch) PROVE DiskTyped'
  <2>1. CASE GitFetches(fetch)
    BY <1>1, <1>2, <2>1 DEF GitFetches, DiskTyped
  <2>2. CASE FetchEnds(fetch)
    BY <1>1, <1>11, <2>2 DEF FetchEnds, diskVars, DiskTyped
  <2>. QED BY <1>12, <2>1, <2>2
<1>13. ASSUME NEW deletion \in deletions, GitDeletes(deletion) \/ DeletionEnds(deletion)
       PROVE  DiskTyped'
  <2>1. CASE GitDeletes(deletion)
    BY <1>1, <1>2, <2>1 DEF GitDeletes, DiskTyped
  <2>2. CASE DeletionEnds(deletion)
    BY <1>1, <1>11, <2>2 DEF DeletionEnds, diskVars, DiskTyped
  <2>. QED BY <1>13, <2>1, <2>2
<1>. QED
  BY <1>7, <1>8, <1>9, <1>10, <1>12, <1>13, <1>14, <1>15
  DEF WorkspaceNext, CloneProceeds, FetchProceeds, DeletionProceeds

----------------------------------------------------------------------------
(* Clones *)

(* Whatever is at a destination stays there: a clone is renamed only to where
   nothing is. *)
LEMMA DestinationsStay ==
  ASSUME IInv, [WorkspaceNext]_allVars
  PROVE  \A d \in Dir : destination[d] # "absent" => destination'[d] = destination[d]
<1>1. WorkspaceTypeOK /\ DiskTyped
  BY TypeOKParts DEF IInv
<1>2. ASSUME NEW clone \in clones, RenameClone(clone)
      PROVE  \A d \in Dir : destination[d] # "absent" => destination'[d] = destination[d]
  BY <1>1, <1>2 DEF RenameClone, DiskTyped
<1>3. ASSUME ~\E clone \in clones : RenameClone(clone)
      PROVE  destination' = destination
  <2>1. CASE UNCHANGED allVars \/ SaveProceeds \/ SettingsTimer \/ UserInput
    BY <2>1 DEF allVars, workspaceVars, SaveProceeds, TruncateFile, WriteFile, SettingsTimer,
       UserInput, SelectorInput, ChangeSettings, SwitchTo, AddProjectFromDisk, ActivateKnownUrl,
       Unstarted, StartClone, SynchroniseActiveProject, DeleteLocalBranch, diskVars
  <2>2. CASE \/ \E root \in Local : Launch(root)
             \/ \E requested \in BOOLEAN : LaunchOutsideRepository(requested)
             \/ \E saves_layout \in BOOLEAN : Exit(saves_layout)
    BY <2>2 DEF Launch, LaunchOutsideRepository, OpenWindow, Exit, diskVars
  <2>3. CASE CloneProceeds
    BY <1>3, <2>3 DEF CloneProceeds, PrepareClone, GitStartsWriting, GitEndsWriting,
       CleanUpClone, CloneEnds, diskVars
  <2>4. CASE FetchProceeds \/ DeletionProceeds \/ \E orphan \in orphans : OrphanEnds(orphan)
    BY <2>4 DEF FetchProceeds, DeletionProceeds, GitFetches, FetchEnds, GitDeletes, DeletionEnds,
       OrphanEnds, diskVars
  <2>. QED BY <2>1, <2>2, <2>3, <2>4 DEF WorkspaceNext
<1>. QED BY <1>2, <1>3

LEMMA ListsStayOK ==
  ASSUME IInv, [WorkspaceNext]_allVars
  PROVE  ListsOK'
<1>1. \A d \in Dir : destination[d] = "whole" => destination'[d] = "whole"
  BY DestinationsStay
<1>2. \A list \in Written : Saveable(list) /\ Cloned(list)
  BY ListSteps, EmptyListFacts DEF Written, ListStep, IInv, ListsOK, Cloned, RemotesIn
<1>3. \A list \in Lists' : list \in Written
  BY ListSteps DEF Lists, Written, ListStep
<1>4. \A list \in Lists' : Saveable(list) /\ Cloned(list)'
  <2>. TAKE list \in Lists'
  <2>1. Saveable(list) /\ Cloned(list)
    BY <1>2, <1>3
  <2>2. \A source \in RemotesIn(list) : source.root \in Dir
    BY SourceFacts DEF RemotesIn
  <2>. QED BY <1>1, <2>1, <2>2 DEF Cloned
<1>. QED BY <1>4 DEF ListsOK, Cloned

LEMMA ShownStaysListed ==
  ASSUME IInv, [WorkspaceNext]_allVars
  PROVE  ShownIsListed'
BY ListSteps DEF ListStep, ShowsListed, ShownIsListed

LEMMA ClosedStays ==
  ASSUME IInv, [WorkspaceNext]_allVars
  PROVE  ClosedOK'
<1>2. CASE UNCHANGED allVars \/ SettingsTimer
  BY <1>2 DEF allVars, workspaceVars, windowVars, jobVars, SettingsTimer, IInv, ClosedOK
<1>3. CASE \/ \E root \in Local : Launch(root)
           \/ \E requested \in BOOLEAN : LaunchOutsideRepository(requested)
           \/ \E saves_layout \in BOOLEAN : Exit(saves_layout)
  BY <1>3 DEF Launch, LaunchOutsideRepository, OpenWindow, Exit, ClosedOK
<1>4. CASE UserInput
  BY <1>4 DEF UserInput, SelectorInput, ChangeSettings, SwitchTo, AddProjectFromDisk,
     ActivateKnownUrl, Unstarted, StartClone, SynchroniseActiveProject, DeleteLocalBranch,
     Input, windowVars, ClosedOK
<1>5. ASSUME NEW clone \in clones, CloneProceeds PROVE ClosedOK'
  BY <1>5 DEF CloneProceeds, PrepareClone, GitStartsWriting, GitEndsWriting, RenameClone,
     CleanUpClone, CloneStepOf, CloneEnds, windowVars, IInv, ClosedOK
<1>6. CASE FetchProceeds \/ DeletionProceeds \/ SaveProceeds
  BY <1>6 DEF FetchProceeds, DeletionProceeds, SaveProceeds, GitFetches, FetchEnds, GitDeletes,
     DeletionEnds, TruncateFile, WriteFile, windowVars, IInv, ClosedOK
<1>7. CASE \E orphan \in orphans : OrphanEnds(orphan)
  BY <1>7 DEF OrphanEnds, windowVars, jobVars, IInv, ClosedOK
<1>. QED
  BY <1>2, <1>3, <1>4, <1>5, <1>6, <1>7 DEF WorkspaceNext, CloneProceeds

(* What a step is to the clone in progress: its sibling directory may vanish
   under it. *)
PartialStays == \A d \in Dir : partial'[d] = partial[d] \/ partial'[d] = "absent"
CloneStepping ==
  \/ UNCHANGED <<clones, cloning>> /\ PartialStays
  \/ clones' = {} /\ cloning' = None
  \/ \E url \in Url : StartClone(url)
  \/ CloneProceeds

LEMMA CloneSteppings ==
  ASSUME IInv, [WorkspaceNext]_allVars
  PROVE  CloneStepping
<1>. USE DEF PartialStays
<1>1. CASE UNCHANGED allVars \/ SettingsTimer \/ SaveProceeds
  BY <1>1 DEF allVars, workspaceVars, windowVars, jobVars, diskVars, SettingsTimer, SaveProceeds,
     TruncateFile, WriteFile, CloneStepping
<1>2. CASE \/ \E root \in Local : Launch(root)
           \/ \E requested \in BOOLEAN : LaunchOutsideRepository(requested)
           \/ \E saves_layout \in BOOLEAN : Exit(saves_layout)
  BY <1>2 DEF Launch, LaunchOutsideRepository, OpenWindow, Exit, jobVars, diskVars, CloneStepping
<1>3. CASE UserInput
  BY <1>3 DEF UserInput, SelectorInput, ChangeSettings, SwitchTo, AddProjectFromDisk,
     ActivateKnownUrl, Unstarted, SynchroniseActiveProject, DeleteLocalBranch,
     windowVars, jobVars, diskVars, CloneStepping
<1>4. CASE CloneProceeds
  BY <1>4 DEF CloneStepping
<1>5. CASE FetchProceeds \/ DeletionProceeds
  BY <1>5 DEF FetchProceeds, DeletionProceeds, GitFetches, FetchEnds, GitDeletes, DeletionEnds,
     windowVars, diskVars, CloneStepping
<1>6. ASSUME NEW orphan \in orphans, OrphanEnds(orphan) PROVE CloneStepping
  <2>1. UNCHANGED <<clones, cloning>>
    BY <1>6 DEF OrphanEnds, windowVars, jobVars
  <2>2. partial \in [Dir -> Presence] /\ orphan.dir \in Dir
    BY DEF IInv, WorkspaceTypeOK
  <2>3. partial' \in {partial, [partial EXCEPT ![orphan.dir] = "absent"]}
    BY <1>6 DEF OrphanEnds
  <2>. QED BY <2>1, <2>2, <2>3 DEF CloneStepping
<1>. QED
  BY <1>1, <1>2, <1>3, <1>4, <1>5, <1>6 DEF WorkspaceNext

LEMMA OneCloneStays ==
  ASSUME IInv, [WorkspaceNext]_allVars
  PROVE  OneClone'
<1>1. OneClone /\ JobsTyped
  BY TypeOKParts DEF IInv
<1>2. CASE UNCHANGED <<clones, cloning>>
  BY <1>1, <1>2 DEF OneClone
<1>3. CASE clones' = {} /\ cloning' = None
  BY <1>3 DEF OneClone
<1>4. ASSUME NEW url \in Url, StartClone(url) PROVE OneClone'
  <2>1. clones = {}
    BY <1>1, <1>4, WorkspaceAssumption DEF StartClone, OneClone, JobsTyped
  <2>. QED BY <1>4, <2>1 DEF StartClone, OneClone
<1>5. ASSUME NEW clone \in clones, NEW step \in CloneStep, NEW ok \in BOOLEAN,
             CloneStepOf(clone, step, ok)
      PROVE  OneClone'
  <2>1. clones = {clone} /\ clone.url = cloning
    BY <1>1 DEF OneClone
  <2>2. clones' = {[clone EXCEPT !.step = step, !.ok = ok]} /\ cloning' = cloning
    BY <1>5, <2>1 DEF CloneStepOf, windowVars
  <2>3. [clone EXCEPT !.step = step, !.ok = ok].url = clone.url
    BY <1>1 DEF JobsTyped
  <2>. QED BY <2>1, <2>2, <2>3 DEF OneClone
<1>6. ASSUME NEW clone \in clones, CloneEnds(clone) PROVE OneClone'
  BY <1>1, <1>6 DEF CloneEnds, OneClone
<1>7. CASE CloneProceeds
  <2>1. PICK clone \in clones : \/ PrepareClone(clone) \/ GitStartsWriting(clone)
                               \/ GitEndsWriting(clone) \/ RenameClone(clone)
                               \/ CleanUpClone(clone) \/ CloneEnds(clone)
    BY <1>7 DEF CloneProceeds
  <2>2. CloneEnds(clone) \/ \E step \in CloneStep, ok \in BOOLEAN : CloneStepOf(clone, step, ok)
    BY <2>1 DEF PrepareClone, GitStartsWriting, GitEndsWriting, RenameClone, CleanUpClone, CloneStep
  <2>. QED BY <1>5, <1>6, <2>2
<1>. QED
  BY <1>2, <1>3, <1>4, <1>7, CloneSteppings DEF CloneStepping

(* Within a window the remote projects only grow, and only by a clone. *)
LEMMA RemotesStay ==
  ASSUME IInv, [WorkspaceNext]_allVars, open, open'
  PROVE  /\ RemotesIn(projects) \subseteq RemotesIn(projects')
         /\ \/ RemotesIn(projects') = RemotesIn(projects)
            \/ \E clone \in clones : CloneEnds(clone)
<1>1. projects \in List
  BY DEF IInv, WorkspaceTypeOK
<1>2. CASE projects' = projects
  BY <1>2
<1>3. ASSUME NEW query \in NameQuery, NEW source \in Source, SwitchTo(query, source)
      PROVE  Sources(projects') = Sources(projects)
  BY <1>1, <1>3, ActivateFacts DEF SwitchTo, Rows
<1>4. ASSUME NEW source \in Source, ActivateProject(source)
      PROVE  Sources(projects') = Sources(projects) \cup {source}
  BY <1>1, <1>4, AddOrActivateFacts DEF ActivateProject
<1>5. ASSUME NEW root \in Local, AddProjectFromDisk(root)
      PROVE  RemotesIn(projects') = RemotesIn(projects)
  BY <1>4, <1>5, SourceFacts DEF AddProjectFromDisk, RemotesIn
<1>6. ASSUME NEW url \in Url, ActivateKnownUrl(url)
      PROVE  RemotesIn(projects') = RemotesIn(projects)
  <2>1. RemoteSource(url) \in Source /\ RemoteSource(url) \in Sources(projects)
    BY <1>6, SourceFacts DEF ActivateKnownUrl, Knows
  <2>2. Sources(projects') = Sources(projects) \cup {RemoteSource(url)}
    BY <1>4, <1>6, <2>1 DEF ActivateKnownUrl
  <2>. QED BY <2>1, <2>2 DEF RemotesIn
<1>7. ASSUME NEW fetch \in fetches, FetchEnds(fetch)
      PROVE  Sources(projects') = Sources(projects)
  <2>1. fetch.source \in Source
    BY DEF IInv, WorkspaceTypeOK
  <2>. QED BY <1>1, <1>7, <2>1, MarkSynchronisedFacts DEF FetchEnds
<1>8. ASSUME NEW clone \in clones, CloneEnds(clone)
      PROVE  RemotesIn(projects) \subseteq RemotesIn(projects')
  <2>1. RemoteSource(clone.url) \in Source
    BY SourceFacts DEF IInv, WorkspaceTypeOK
  <2>2. projects' = projects \/ Sources(projects') = Sources(projects) \cup {RemoteSource(clone.url)}
    BY <1>4, <1>8, <2>1 DEF CloneEnds
  <2>. QED BY <2>2 DEF RemotesIn
<1>9. CASE UNCHANGED allVars \/ SettingsTimer \/ SaveProceeds
  <2>1. projects' = projects
    BY <1>9 DEF allVars, workspaceVars, windowVars, SettingsTimer, SaveProceeds,
       TruncateFile, WriteFile
  <2>. QED BY <1>2, <2>1
<1>10. CASE UserInput
  <2>1. CASE \/ \E url \in Url : StartClone(url)
             \/ SynchroniseActiveProject \/ DeleteLocalBranch \/ ChangeSettings
    <3>1. projects' = projects
      BY <2>1 DEF StartClone, SynchroniseActiveProject, DeleteLocalBranch, ChangeSettings, windowVars
    <3>. QED BY <1>2, <3>1
  <2>. QED
    BY <1>3, <1>5, <1>6, <1>10, <2>1 DEF UserInput, SelectorInput, RemotesIn
<1>11. CASE CloneProceeds
  <2>1. ASSUME NEW clone \in clones,
               \/ PrepareClone(clone) \/ GitStartsWriting(clone) \/ GitEndsWriting(clone)
               \/ RenameClone(clone) \/ CleanUpClone(clone)
        PROVE  projects' = projects
    BY <2>1 DEF PrepareClone, GitStartsWriting, GitEndsWriting, RenameClone, CleanUpClone,
       CloneStepOf, windowVars
  <2>. QED BY <1>2, <1>8, <1>11, <2>1 DEF CloneProceeds
<1>12. CASE FetchProceeds \/ DeletionProceeds
  <2>1. projects' = projects \/ \E fetch \in fetches : FetchEnds(fetch)
    BY <1>12 DEF FetchProceeds, DeletionProceeds, GitFetches, GitDeletes, DeletionEnds, windowVars
  <2>. QED BY <1>2, <1>7, <2>1 DEF RemotesIn
<1>13. CASE \E orphan \in orphans : OrphanEnds(orphan)
  BY <1>2, <1>13 DEF OrphanEnds, windowVars
<1>. QED
  BY <1>9, <1>10, <1>11, <1>12, <1>13
  DEF WorkspaceNext, Launch, LaunchOutsideRepository, Exit

LEMMA ClonesStayOK ==
  ASSUME IInv, [WorkspaceNext]_allVars
  PROVE  ClonesOK'
<1>1. OneClone /\ ClonesOK /\ JobsTyped /\ DiskTyped /\ ClosedOK
  BY TypeOKParts DEF IInv
<1>2. \A clone \in clones : CacheDir[clone.url] \in Dir
  BY <1>1, SourceFacts DEF JobsTyped
<1>3. \A d \in Dir : destination[d] = "whole" => destination'[d] = "whole"
  BY DestinationsStay
<1>4. ASSUME NEW clone \in clones, CloneEnds(clone) PROVE ClonesOK'
  <2>1. clones' = {}
    BY <1>1, <1>4 DEF CloneEnds, OneClone
  <2>. QED BY <2>1 DEF ClonesOK
<1>5. CASE clones' = {}
  BY <1>5 DEF ClonesOK
<1>6. ASSUME NEW url \in Url, StartClone(url) PROVE ClonesOK'
  <2>1. clones = {}
    BY <1>1, <1>6, WorkspaceAssumption DEF StartClone, OneClone, JobsTyped
  <2>2. clones' = {[url |-> url, step |-> "prepare", ok |-> FALSE]}
    BY <1>6, <2>1 DEF StartClone
  <2>. QED BY <2>2 DEF ClonesOK, CloneStepOK
<1>7. ASSUME UNCHANGED <<clones, cloning>>, PartialStays, clones # {},
             ~\E clone \in clones : CloneEnds(clone)
      PROVE  ClonesOK'
  <2>1. open
    BY <1>1, <1>7 DEF ClosedOK
  <2>2. open'
    BY <1>7, ClosedStays DEF ClosedOK
  <2>3. RemotesIn(projects') = RemotesIn(projects)
    BY <1>7, <2>1, <2>2, RemotesStay
  <2>. QED BY <1>1, <1>2, <1>3, <1>7, <2>3 DEF ClonesOK, CloneStepOK, PartialStays
<1>8. ASSUME NEW clone \in clones, NEW step \in CloneStep, NEW ok \in BOOLEAN,
             CloneStepOf(clone, step, ok),
             step = "rename" => partial'[CacheDir[clone.url]] \in {"whole", "absent"},
             step = "ended" /\ ok =>
               /\ destination'[CacheDir[clone.url]] = "whole"
               /\ \A source \in RemotesIn(projects) : source.root # CacheDir[clone.url]
      PROVE  ClonesOK'
  <2>. DEFINE stepped == [clone EXCEPT !.step = step, !.ok = ok]
  <2>1. clones' = {stepped}
    BY <1>1, <1>8 DEF CloneStepOf, OneClone
  <2>2. stepped.url = clone.url /\ stepped.step = step /\ stepped.ok = ok
    BY <1>1 DEF JobsTyped
  <2>3. projects' = projects
    BY <1>8 DEF CloneStepOf, windowVars
  <2>. HIDE DEF stepped
  <2>. QED BY <1>8, <2>1, <2>2, <2>3 DEF ClonesOK, CloneStepOK
<1>9. ASSUME NEW clone \in clones,
             \/ PrepareClone(clone) \/ GitStartsWriting(clone) \/ GitEndsWriting(clone)
             \/ RenameClone(clone) \/ CleanUpClone(clone)
      PROVE  ClonesOK'
  <2>. DEFINE dir == CacheDir[clone.url]
  <2>1. dir \in Dir
    BY <1>2
  <2>2. /\ partial \in [Dir -> Presence] /\ destination \in [Dir -> Presence]
    BY <1>1 DEF DiskTyped
  <2>3. \A step \in {"prepare", "git", "writing", "rename", "cleanup", "ended"} : step \in CloneStep
    BY DEF CloneStep
  <2>4. CASE \E step \in CloneStep \ {"rename"} : CloneStepOf(clone, step, FALSE)
    BY <1>8, <2>4
  <2>5. CASE GitEndsWriting(clone) /\ CloneStepOf(clone, "rename", TRUE)
    <3>1. CASE partial' = [partial EXCEPT ![dir] = "whole"]
      <4>1. partial'[dir] = "whole"
        BY <2>1, <2>2, <3>1
      <4>. QED BY <1>8, <2>3, <2>5, <4>1
    <3>2. CASE partial' # [partial EXCEPT ![dir] = "whole"]
      BY <2>4, <2>5, <3>2 DEF GitEndsWriting, CloneStep
    <3>. QED BY <3>1, <3>2
  <2>6. CASE /\ RenameClone(clone) /\ CloneStepOf(clone, "ended", TRUE)
             /\ destination[dir] = "absent" /\ partial[dir] # "absent"
    <3>1. CASE destination' = [destination EXCEPT ![dir] = partial[dir]]
      <4>1. partial[dir] = "whole"
        BY <1>1, <2>6 DEF RenameClone, ClonesOK, CloneStepOK
      <4>2. destination'[dir] = "whole"
        BY <2>1, <2>2, <3>1, <4>1
      <4>3. \A source \in RemotesIn(projects) : source.root # dir
        BY <2>6, ListsAreSaveable DEF Cloned
      <4>. QED BY <1>8, <2>3, <2>6, <4>2, <4>3
    <3>2. CASE destination' # [destination EXCEPT ![dir] = partial[dir]]
      BY <2>4, <2>6, <3>2 DEF RenameClone, CloneStep
    <3>. QED BY <3>1, <3>2
  <2>. QED
    BY <1>9, <2>4, <2>5, <2>6 DEF PrepareClone, GitStartsWriting, GitEndsWriting, RenameClone,
       CleanUpClone, CloneStep
<1>. QED
  BY <1>4, <1>5, <1>6, <1>7, <1>9, CloneSteppings DEF CloneStepping, CloneProceeds

----------------------------------------------------------------------------
(* Fetches, deletions and what they report *)

LEMMA FetchesStayOK ==
  ASSUME IInv, [WorkspaceNext]_allVars
  PROVE  FetchesOK'
<1>1. FetchesOK /\ JobsTyped /\ ClosedOK /\ ShownIsListed /\ ClosedOK'
  BY TypeOKParts, ClosedStays DEF IInv
<1>2. projects \in List
  BY DEF IInv, WorkspaceTypeOK
<1>3. ASSUME \A fetch \in fetches' : fetch.source \in RemotesIn(projects)
      PROVE  FetchesOK'
  <2>1. CASE fetches' = {}
    BY <2>1 DEF FetchesOK
  <2>2. CASE fetches' # {} /\ ~open
    BY <1>1, <1>3, <2>2, EmptyListFacts DEF ClosedOK, RemotesIn
  <2>3. CASE fetches' # {} /\ open
    <3>1. open'
      BY <1>1, <2>3 DEF ClosedOK
    <3>. QED BY <1>3, <2>3, <3>1, RemotesStay DEF FetchesOK
  <2>. QED BY <2>1, <2>2, <2>3
<1>4. CASE fetches' \subseteq fetches
  BY <1>1, <1>3, <1>4 DEF FetchesOK
<1>5. CASE SynchroniseActiveProject
  <2>1. ActiveSource(projects) \in RemoteSources /\ ActiveSource(projects) \in Source
    BY <1>5, SourceFacts DEF SynchroniseActiveProject
  <2>2. ActiveSource(projects) \in Sources(projects)
    <3>1. shown \in Sources(projects)
      BY <1>1, <1>5 DEF SynchroniseActiveProject, Input, ShownIsListed
    <3>2. projects.projects # <<>>
      BY <1>2, <3>1, ListFacts
    <3>. QED BY <3>2, SaveableFacts, ListsAreSaveable
  <2>3. \A fetch \in fetches' : fetch \in fetches \/ fetch.source = ActiveSource(projects)
    BY <1>5 DEF SynchroniseActiveProject
  <2>. QED BY <1>1, <1>3, <2>1, <2>2, <2>3 DEF FetchesOK, RemotesIn
<1>6. ASSUME NEW fetch \in fetches, GitFetches(fetch) PROVE FetchesOK'
  <2>1. \A ok \in BOOLEAN : [fetch EXCEPT !.step = "ended", !.ok = ok].source = fetch.source
    BY <1>1 DEF JobsTyped
  <2>2. \A other \in fetches' : other \in fetches \/ other.source = fetch.source
    BY <1>6, <2>1 DEF GitFetches
  <2>. QED BY <1>1, <1>3, <2>2 DEF FetchesOK
<1>7. CASE UNCHANGED allVars \/ SettingsTimer \/ SaveProceeds \/ CloneProceeds \/ DeletionProceeds
  BY <1>4, <1>7 DEF allVars, workspaceVars, jobVars, SettingsTimer, SaveProceeds, TruncateFile,
     WriteFile, CloneProceeds, PrepareClone, GitStartsWriting, GitEndsWriting, RenameClone,
     CleanUpClone, CloneStepOf, CloneEnds, DeletionProceeds, GitDeletes, DeletionEnds
<1>8. CASE \/ \E root \in Local : Launch(root)
           \/ \E requested \in BOOLEAN : LaunchOutsideRepository(requested)
           \/ \E saves_layout \in BOOLEAN : Exit(saves_layout)
  BY <1>4, <1>8 DEF Launch, LaunchOutsideRepository, OpenWindow, Exit, jobVars
<1>9. CASE UserInput
  BY <1>4, <1>5, <1>9 DEF UserInput, SelectorInput, ChangeSettings, SwitchTo, AddProjectFromDisk,
     ActivateKnownUrl, StartClone, Unstarted, DeleteLocalBranch, jobVars
<1>10. CASE FetchProceeds
  BY <1>4, <1>6, <1>10 DEF FetchProceeds, FetchEnds
<1>11. CASE \E orphan \in orphans : OrphanEnds(orphan)
  BY <1>4, <1>11 DEF OrphanEnds, jobVars
<1>. QED
  BY <1>7, <1>8, <1>9, <1>10, <1>11 DEF WorkspaceNext

(* What a step is to the versions, the reports and what is on screen. *)
LEMMA ReportsStay ==
  ASSUME IInv, [WorkspaceNext]_allVars
  PROVE  ToldOK' /\ ReportedIsShown'
<1>1. /\ ToldOK /\ FetchesOK /\ ReportedIsShown /\ DiskTyped /\ WorkspaceTypeOK
      /\ projects \in List
  BY TypeOKParts DEF IInv, ListsTyped
<1>2. /\ version \in [Dir -> Nat] /\ told \in [Dir -> Nat] /\ viewed \in Nat
      /\ \A source \in RemoteSources : source.root \in Dir
  BY <1>1, SourceFacts DEF DiskTyped, WorkspaceTypeOK
<1>3. CASE UNCHANGED <<projects, shown, viewed, version, told>>
  BY <1>1, <1>3 DEF ToldOK, ReportedIsShown
<1>4. ASSUME UNCHANGED <<version, told>>,
             \/ UNCHANGED <<shown, viewed>> /\ projects'.active = projects.active
             \/ viewed' = VersionOf(shown')
             \/ shown' = None
      PROVE  ToldOK' /\ ReportedIsShown'
  BY <1>1, <1>2, <1>4, SourceFacts DEF ToldOK, ReportedIsShown, VersionOf
<1>5. ASSUME UNCHANGED <<projects, shown, viewed, told>>,
             \A d \in Dir : version'[d] \in Nat /\ version'[d] >= version[d]
      PROVE  ToldOK' /\ ReportedIsShown'
  BY <1>1, <1>2, <1>5 DEF ToldOK, ReportedIsShown
<1>6. ASSUME NEW source \in Source, Report(source), version' = version
      PROVE  /\ ToldOK'
             /\ \A d \in Dir : \/ told'[d] = told[d]
                               \/ source \in RemoteSources /\ d = source.root
  BY <1>1, <1>2, <1>6 DEF Report, ToldOK
<1>7. ASSUME UNCHANGED <<shown, version>>, viewed' = VersionOf(shown), ToldOK', DiskTyped'
      PROVE  ReportedIsShown'
  <2>. SUFFICES ASSUME shown \in RemoteSources
                PROVE  viewed' >= told'[shown.root]
    BY <1>7 DEF ReportedIsShown
  <2>1. shown.root \in Dir /\ viewed' = version[shown.root]
    BY <1>2, <1>7 DEF VersionOf
  <2>2. told'[shown.root] \in Nat /\ version[shown.root] \in Nat
        /\ told'[shown.root] <= version[shown.root]
    BY <1>2, <1>7, <2>1 DEF ToldOK, DiskTyped
  <2>. QED BY <2>1, <2>2
<1>8. ASSUME NEW source \in Source, ActivateProject(source), UNCHANGED <<version, told>>
      PROVE  ToldOK' /\ ReportedIsShown'
  <2>1. projects'.active = source
    BY <1>1, <1>8, AddOrActivateFacts DEF ActivateProject
  <2>. QED BY <1>4, <1>8, <2>1 DEF ActivateProject, OpenProject
<1>9. CASE UNCHANGED allVars \/ SettingsTimer \/ SaveProceeds
  BY <1>3, <1>9 DEF allVars, workspaceVars, windowVars, diskVars, SettingsTimer, SaveProceeds,
     TruncateFile, WriteFile
<1>10. CASE \/ \E root \in Local : Launch(root)
            \/ \E requested \in BOOLEAN : LaunchOutsideRepository(requested)
            \/ \E saves_layout \in BOOLEAN : Exit(saves_layout)
  BY <1>4, <1>10 DEF Launch, LaunchOutsideRepository, OpenWindow, Exit, diskVars
<1>11. CASE UserInput
  <2>1. ASSUME NEW query \in NameQuery, NEW source \in Source, SwitchTo(query, source)
        PROVE  ToldOK' /\ ReportedIsShown'
    BY <1>4, <2>1 DEF SwitchTo, OpenProject, Unstarted, diskVars
  <2>2. ASSUME NEW root \in Local, AddProjectFromDisk(root) PROVE ToldOK' /\ ReportedIsShown'
    BY <1>8, <2>2, SourceFacts DEF AddProjectFromDisk, Unstarted, diskVars
  <2>3. ASSUME NEW url \in Url, ActivateKnownUrl(url) PROVE ToldOK' /\ ReportedIsShown'
    <3>1. RemoteSource(url) \in Source
      BY SourceFacts
    <3>. QED BY <1>8, <2>3, <3>1 DEF ActivateKnownUrl, Unstarted, diskVars
  <2>4. CASE \/ \E url \in Url : StartClone(url)
             \/ SynchroniseActiveProject \/ DeleteLocalBranch \/ ChangeSettings
    BY <1>3, <2>4 DEF StartClone, SynchroniseActiveProject, DeleteLocalBranch, ChangeSettings,
       windowVars, diskVars
  <2>. QED BY <1>11, <2>1, <2>2, <2>3, <2>4 DEF UserInput, SelectorInput
<1>12. ASSUME NEW clone \in clones, CloneEnds(clone) PROVE ToldOK' /\ ReportedIsShown'
  <2>1. RemoteSource(clone.url) \in Source
    BY <1>1, SourceFacts DEF WorkspaceTypeOK
  <2>. QED BY <1>3, <1>8, <1>12, <2>1 DEF CloneEnds, diskVars
<1>13. CASE CloneProceeds
  BY <1>3, <1>12, <1>13 DEF CloneProceeds, PrepareClone, GitStartsWriting, GitEndsWriting,
     RenameClone, CleanUpClone, CloneStepOf, windowVars
<1>14. ASSUME NEW fetch \in fetches, GitFetches(fetch) PROVE ToldOK' /\ ReportedIsShown'
  <2>1. \A d \in Dir : version'[d] \in Nat /\ version'[d] >= version[d]
    BY <1>2, <1>14 DEF GitFetches, Moves
  <2>. QED BY <1>5, <1>14, <2>1 DEF GitFetches, windowVars
<1>15. ASSUME NEW fetch \in fetches, FetchEnds(fetch) PROVE ToldOK' /\ ReportedIsShown'
  <2>1. CASE ~fetch.ok
    BY <1>3, <1>15, <2>1 DEF FetchEnds, diskVars
  <2>2. CASE fetch.ok
    <3>1. /\ Report(fetch.source) /\ UNCHANGED <<shown, version>>
          /\ viewed' = IF projects.active = fetch.source THEN VersionOf(shown) ELSE viewed
      BY <1>15, <2>2 DEF FetchEnds, ReloadShown, diskVars
    <3>2. fetch.source \in RemotesIn(projects) /\ fetch.source \in Source
      BY <1>1 DEF FetchesOK, WorkspaceTypeOK
    <3>3. ToldOK' /\ DiskTyped'
      BY <1>6, <3>1, <3>2, DiskStaysTyped
    <3>4. CASE projects.active = fetch.source
      BY <1>7, <3>1, <3>3, <3>4
    <3>5. CASE projects.active # fetch.source
      <4>1. projects'.active = projects.active
        BY <1>1, <1>15, <2>2, <3>2, MarkSynchronisedFacts DEF FetchEnds
      <4>2. shown = projects.active => shown \in Sources(projects)
        BY DEF IInv, ClosedOK, ShownIsListed
      <4>3. ASSUME shown \in RemoteSources, shown = projects.active
            PROVE  told'[shown.root] = told[shown.root]
        <5>1. shown.root # fetch.source.root
          BY <3>2, <3>5, <4>2, <4>3, ListsAreSaveable DEF Saveable, RemotesIn
        <5>. QED BY <1>2, <1>6, <3>1, <3>2, <4>3, <5>1
      <4>. QED BY <1>1, <3>1, <3>3, <3>5, <4>1, <4>3 DEF ReportedIsShown
    <3>. QED BY <3>4, <3>5
  <2>. QED BY <2>1, <2>2
<1>16. ASSUME NEW deletion \in deletions, GitDeletes(deletion) PROVE ToldOK' /\ ReportedIsShown'
  <2>1. \A d \in Dir : version'[d] \in Nat /\ version'[d] >= version[d]
    BY <1>2, <1>16 DEF GitDeletes, Moves
  <2>. QED BY <1>5, <1>16, <2>1 DEF GitDeletes, windowVars
<1>17. ASSUME NEW deletion \in deletions, DeletionEnds(deletion) PROVE ToldOK' /\ ReportedIsShown'
  <2>1. deletion.source \in Source
    BY <1>1 DEF WorkspaceTypeOK
  <2>2. CASE ~deletion.ok
    BY <1>3, <1>17, <2>2 DEF DeletionEnds, diskVars
  <2>3. CASE deletion.ok
    BY <1>6, <1>7, <1>17, <2>1, <2>3, DiskStaysTyped DEF DeletionEnds, ReloadShown, diskVars
  <2>. QED BY <2>2, <2>3
<1>18. ASSUME NEW orphan \in orphans, OrphanEnds(orphan) PROVE ToldOK' /\ ReportedIsShown'
  <2>1. \A d \in Dir : version'[d] \in Nat /\ version'[d] >= version[d]
    BY <1>2, <1>18 DEF OrphanEnds
  <2>. QED BY <1>5, <1>18, <2>1 DEF OrphanEnds, windowVars
<1>. QED
  BY <1>9, <1>10, <1>11, <1>13, <1>14, <1>15, <1>16, <1>17, <1>18
  DEF WorkspaceNext, FetchProceeds, DeletionProceeds

----------------------------------------------------------------------------
(* The theorems *)

LEMMA InitIInv == WorkspaceInit => IInv
<1>. SUFFICES ASSUME WorkspaceInit PROVE IInv
  OBVIOUS
<1>1. PICK list \in Remembered :
        /\ file = [list |-> list, readable |-> TRUE]
        /\ destination = [d \in Dir |-> IF \E s \in RemotesIn(list) : s.root = d
                                       THEN "whole" ELSE "absent"]
  BY DEF WorkspaceInit
<1>2. Saveable(list) /\ list \in List
  BY WorkspaceAssumption DEF Saveable
<1>3. \A source \in RemotesIn(list) : source.root \in Dir
  BY SourceFacts DEF RemotesIn
<1>4. Cloned(list) /\ Cloned(EmptyList)
  BY <1>1, <1>3, EmptyListFacts DEF Cloned, RemotesIn
<1>5. ListsOK
  BY <1>1, <1>2, <1>4, EmptyListFacts DEF ListsOK, Lists, WorkspaceInit
<1>6. SettingsTypeOK
  <2>1. 0 \in 0 .. MaxTransitions
    BY SettingsAssumption
  <2>. QED
    BY <2>1 DEF WorkspaceInit, SettingsInit, SettingsTypeOK, ThemePreference, ThemeMode
<1>7. DiskTyped
  BY <1>1 DEF WorkspaceInit, DiskTyped, Presence
<1>8. ListsTyped /\ WindowTyped /\ JobsTyped
  <2>1. ListsTyped
    BY <1>1, <1>2, EmptyListFacts DEF WorkspaceInit, ListsTyped
  <2>2. 0 \in 0 .. MaxInputs /\ 0 \in 0 .. MaxLaunches
    BY WorkspaceAssumption
  <2>3. WindowTyped /\ JobsTyped
    BY <2>2 DEF WorkspaceInit, WindowTyped, JobsTyped
  <2>. QED BY <2>1, <2>3
<1>9. ToldOK /\ FetchesOK /\ ReportedIsShown
  BY SourceFacts DEF WorkspaceInit, ToldOK, FetchesOK, ReportedIsShown
<1>. QED
  BY <1>5, <1>6, <1>7, <1>8, <1>9, TypeOKParts
  DEF WorkspaceInit, IInv, ShownIsListed, ClosedOK, OneClone, ClonesOK, LayoutOK, SettingsAreKept

LEMMA NextIInv == IInv /\ [WorkspaceNext]_allVars => IInv'
<1>. SUFFICES ASSUME IInv, [WorkspaceNext]_allVars PROVE IInv'
  OBVIOUS
<1>1. SettingsTypeOK /\ LayoutOK /\ SettingsAreKept
  BY TypeOKParts DEF IInv
<1>2. SettingsTypeOK' /\ LayoutOK' /\ SettingsAreKept'
  BY <1>1, SettingsSteps, SettingsTyped, SettingsKept
<1>3. WorkspaceTypeOK'
  <2>1. ListsTyped' /\ WindowTyped' /\ JobsTyped' /\ DiskTyped'
    BY ListSteps, ListsStayTyped, WindowStaysTyped, JobsStayTyped, DiskStaysTyped
  <2>. QED
    BY <1>2, <2>1 DEF WorkspaceTypeOK, ListsTyped, WindowTyped, JobsTyped, DiskTyped
<1>. QED
  BY <1>2, <1>3, ListsStayOK, ShownStaysListed, ClosedStays, OneCloneStays, ClonesStayOK,
     FetchesStayOK, ReportsStay
  DEF IInv

(* The inductive invariant holds in every state of every behaviour. *)
THEOREM WorkspaceInvariant == WorkspaceSpec => []IInv
BY InitIInv, NextIInv, PTL DEF WorkspaceSpec

(* The variables of the window, its jobs, the disk and the settings keep their
   types, in every launch. *)
THEOREM WorkspaceTypeCorrect == WorkspaceSpec => []WorkspaceTypeOK
<1>1. IInv => WorkspaceTypeOK
  BY DEF IInv
<1>. QED BY <1>1, WorkspaceInvariant, PTL

(* Whatever the saved list named and whatever the order of launches, choices
   and ends of clones: a window shows a project of its list, and a step that
   changes the active project or the repository shown leaves the window
   showing the active project. *)
THEOREM WindowStaysWithActive == WorkspaceSpec => WindowFollowsActive
<1>1. IInv /\ [WorkspaceNext]_allVars =>
        [open' =>
           /\ shown' \in Sources(projects')
           /\ projects'.active # projects.active \/ shown' # shown
                => shown' = ActiveSource(projects')]_allVars
  BY ListSteps DEF ListStep, ShowsListed
<1>. QED
  BY <1>1, WorkspaceInvariant, PTL DEF WorkspaceSpec, WindowFollowsActive

(* The row of the selector stands exactly while one clone is in progress. *)
THEOREM CloneRowStaysTrue == WorkspaceSpec => []CloneRowIsTrue
<1>1. IInv => CloneRowIsTrue
  <2>. SUFFICES ASSUME IInv PROVE CloneRowIsTrue
    OBVIOUS
  <2>1. CASE clones = {} /\ cloning = None
    BY <2>1, FS_EmptySet DEF CloneRowIsTrue
  <2>2. ASSUME NEW clone \in clones, clones = {clone}, clone.url = cloning PROVE CloneRowIsTrue
    <3>1. cloning # None
      BY <2>2, WorkspaceAssumption DEF IInv, WorkspaceTypeOK
    <3>2. Cardinality(clones) = 1
      BY <2>2, FS_Singleton
    <3>3. {c.url : c \in clones} = {cloning}
      BY <2>2
    <3>. QED BY <3>1, <3>2, <3>3 DEF CloneRowIsTrue
  <2>. QED BY <2>1, <2>2 DEF IInv, OneClone
<1>. QED BY <1>1, WorkspaceInvariant, PTL

(* No failure, crash or restart leaves a remote project, in memory, on its
   way to the file or in it, without a whole clone of its own. *)
THEOREM RemotesStayCloned == WorkspaceSpec => []ListedRemotesAreCloned
<1>1. IInv => ListedRemotesAreCloned
  BY DEF IInv, ListsOK, Lists, Saveable, Cloned, ListedRemotesAreCloned
<1>. QED BY <1>1, WorkspaceInvariant, PTL

(* What a fetch or a deletion was reported for stays on screen with its
   project, however the user switched while it ran, if it is the one the
   list's `active` names. *)
THEOREM ReportsAreShown == WorkspaceSpec => []ReportedIsShown
<1>1. IInv => ReportedIsShown
  BY DEF IInv
<1>. QED BY <1>1, WorkspaceInvariant, PTL

(* Theme, cross-fade and layout survive every order of choices, timers and
   restarts. *)
THEOREM SettingsStayKept == WorkspaceSpec => []SettingsAreKept
<1>1. IInv => SettingsAreKept
  BY DEF IInv
<1>. QED BY <1>1, WorkspaceInvariant, PTL
=============================================================================
