------------------------- MODULE WorkspaceBootstrap -------------------------
(* Initialization of a workspace and admission to it (services/bootstrap.py, *)
(* workspace_validation.py, services/workspace_adoption.py).  A process      *)
(* validates without the lock, creates the lock's directories, and under the *)
(* lock validates again, creates the managed directories and writes the      *)
(* marker last.  Opening a workspace takes no lock.  The stores of a root    *)
(* that an older program made are adopted only if they are valid.            *)
EXTENDS WorkspaceBase
CONSTANTS
    Config,         \* configurations that name the same knowledge root
    Initializer     \* processes, each with a configuration file of its own

Layout == 0..3      \* directories: none, the lock's, the predecessor's, all
VARIABLES
    configuration,  \* per process: what its configuration file says
    layout,
    marker,         \* Nothing or [config, current]: the identity marker
    stores,         \* an older program's records: "none", "valid", "broken"
    lockedBy,       \* the process that holds the workspace lock, or Nothing
    progress,       \* per process: Nothing or [at, seen]
    leftover,       \* is the temporary file of the marker on disk?
    opened,         \* configurations under which the workspace was opened
    inspecting,     \* per process: what its adoption inspection protects
    upsets
bootVars == <<configuration, layout, marker, stores, lockedBy, progress,
              leftover, opened, inspecting, upsets>>

BootstrapTypeOK ==
    /\ configuration \in [Initializer -> Config]
    /\ layout \in Layout
    /\ marker \in {Nothing} \cup [config : Config, current : BOOLEAN]
    /\ stores \in {"none", "valid", "broken"}
    /\ lockedBy \in Initializer \cup {Nothing}
    /\ progress \in [Initializer -> {Nothing} \cup
         [at : {"validated", "scaffolded", "locked", "creating"}, seen : Config]]
    /\ leftover \in BOOLEAN /\ opened \subseteq Config
    /\ inspecting \in [Initializer -> {Nothing} \cup Config]
    /\ upsets \in 0..MaxFaults

\* A root that does not exist, one of a program that wrote no marker, one of
\* the predecessor layout, with its marker, and an initialized one.
BootstrapInit ==
    /\ configuration \in [Initializer -> Config]
    /\ \/ layout = 0 /\ marker = Nothing /\ stores = "none"
       \/ layout = 2 /\ marker = Nothing /\ stores \in {"valid", "broken"}
       \/ layout = 2 /\ stores \in {"none", "valid", "broken"}
          /\ marker \in {[config |-> c, current |-> FALSE] : c \in Config}
       \/ layout = 3 /\ stores = "none"
          /\ marker \in {[config |-> c, current |-> TRUE] : c \in Config}
    /\ lockedBy = Nothing /\ leftover = FALSE /\ opened = {} /\ upsets = 0
    /\ progress = [p \in Initializer |-> Nothing]
    /\ inspecting = [p \in Initializer |-> Nothing]

-----------------------------------------------------------------------------
\* A marker binds the root to a configuration and a layout version.
MarkerFor(config) == [config |-> config, current |-> TRUE]
PredecessorMarker(config) == [config |-> config, current |-> FALSE]

\* Any unknown file in a managed directory, and a marker of another
\* configuration, are errors for initialization and for opening alike.
UnknownDescendant == leftover
LayoutErrorsBySchema(config) == UnknownDescendant
LayoutErrors(config) ==
    \/ UnknownDescendant
    \/ marker \notin {Nothing, MarkerFor(config), PredecessorMarker(config)}
Initialized(config) ==
    /\ ~LayoutErrors(config)
    /\ marker # Nothing /\ marker.current /\ layout = 3
RequiresUpgrade == marker # Nothing /\ ~marker.current
RequiresAdoption == RequiresUpgrade \/ (marker = Nothing /\ stores # "none")

At(p, step) == progress[p] # Nothing /\ progress[p].at = step
GoTo(p, step) == progress' = [progress EXCEPT ![p].at = step]

ValidateForBootstrap(p) ==
    /\ progress[p] = Nothing /\ ~LayoutErrors(configuration[p])
    /\ progress' = [progress EXCEPT ![p] = [at |-> "validated", seen |-> configuration[p]]]
    /\ UNCHANGED <<configuration, layout, marker, stores, lockedBy, leftover,
                   opened, inspecting, upsets>>
EnsureLockScaffold(p) ==
    /\ At(p, "validated") /\ GoTo(p, "scaffolded")
    /\ layout' = IF layout = 0 THEN 1 ELSE layout
    /\ UNCHANGED <<configuration, marker, stores, lockedBy, leftover, opened, inspecting, upsets>>
AcquireLock(p) ==
    /\ At(p, "scaffolded") /\ lockedBy = Nothing /\ GoTo(p, "locked")
    /\ lockedBy' = p
    /\ UNCHANGED <<configuration, layout, marker, stores, leftover, opened, inspecting, upsets>>

\* Under the lock everything is looked at again, and the stores for the first
\* time; a refusal leaves the directories it created.
RevalidatesUnderLock(p) ==
    /\ ~LayoutErrors(configuration[p]) /\ configuration[p] = progress[p].seen
    /\ RequiresAdoption => stores # "broken"
Revalidate(p) ==
    /\ At(p, "locked")
    /\ IF RevalidatesUnderLock(p)
       THEN GoTo(p, "creating") /\ UNCHANGED lockedBy
       ELSE progress' = [progress EXCEPT ![p] = Nothing] /\ lockedBy' = Nothing
    /\ UNCHANGED <<configuration, layout, marker, stores, leftover, opened, inspecting, upsets>>
EnsureManagedDirectories(p) ==
    /\ At(p, "creating") /\ layout < 3
    /\ layout' = layout + 1
    /\ UNCHANGED <<configuration, marker, stores, lockedBy, progress, leftover,
                   opened, inspecting, upsets>>
\* A marker of the current layout stays; the lock is given back.
WriteMarker(p) ==
    /\ At(p, "creating") /\ layout = 3
    /\ marker' = IF marker # Nothing /\ marker.current THEN marker
                 ELSE MarkerFor(progress[p].seen)
    /\ progress' = [progress EXCEPT ![p] = Nothing] /\ lockedBy' = Nothing
    /\ UNCHANGED <<configuration, layout, stores, leftover, opened, inspecting, upsets>>

\* A step raises or the process dies, in the marker's write perhaps.
Stop(p) ==
    /\ progress[p] # Nothing /\ upsets < MaxFaults /\ upsets' = upsets + 1
    /\ progress' = [progress EXCEPT ![p] = Nothing]
    /\ lockedBy' = IF lockedBy = p THEN Nothing ELSE lockedBy
    /\ leftover' \in {leftover} \cup
         {TornWrites /\ At(p, "creating") /\ layout = 3 /\ ~Initialized(progress[p].seen)}
    /\ UNCHANGED <<configuration, layout, marker, stores, opened, inspecting>>

EditConfiguration(p) ==
    /\ upsets < MaxFaults /\ upsets' = upsets + 1
    /\ \E c \in Config \ {configuration[p]} :
        configuration' = [configuration EXCEPT ![p] = c]
    /\ UNCHANGED <<layout, marker, stores, lockedBy, progress, leftover, opened, inspecting>>
\* The older program, under the same lock, writes, breaks or recovers stores.
OlderProgramWrites ==
    /\ upsets < MaxFaults /\ upsets' = upsets + 1
    /\ lockedBy = Nothing /\ layout >= 2
    /\ marker = Nothing \/ RequiresUpgrade
    /\ stores' \in {"valid", "broken"} \ {stores}
    /\ UNCHANGED <<configuration, layout, marker, lockedBy, progress, leftover, opened, inspecting>>

-----------------------------------------------------------------------------
OpenWorkspace(p) ==
    /\ Initialized(configuration[p])
    /\ opened' = opened \cup {configuration[p]}
    /\ UNCHANGED <<configuration, layout, marker, stores, lockedBy, progress,
                   leftover, inspecting, upsets>>
\* An adoption inspection runs the Guardian between two looks at what it
\* protects: the configuration and the marker that is bound to it.
ProtectedInputs(p) == configuration[p]
BeginInspection(p) ==
    /\ inspecting[p] = Nothing /\ Initialized(configuration[p])
    /\ inspecting' = [inspecting EXCEPT ![p] = ProtectedInputs(p)]
    /\ UNCHANGED <<configuration, layout, marker, stores, lockedBy, progress,
                   leftover, opened, upsets>>
EndInspection(p) ==
    /\ inspecting[p] # Nothing
    /\ inspecting' = [inspecting EXCEPT ![p] = Nothing]
    /\ opened' = opened \cup
         (IF Initialized(configuration[p]) /\ ProtectedInputs(p) = inspecting[p]
          THEN {inspecting[p]} ELSE {})
    /\ UNCHANGED <<configuration, layout, marker, stores, lockedBy, progress,
                   leftover, upsets>>

BootstrapStep(p) ==
    \/ EnsureLockScaffold(p) \/ AcquireLock(p) \/ Revalidate(p)
    \/ EnsureManagedDirectories(p) \/ WriteMarker(p)
BootstrapNext ==
    \/ \E p \in Initializer :
        \/ ValidateForBootstrap(p) \/ BootstrapStep(p) \/ Stop(p) \/ EditConfiguration(p)
        \/ OpenWorkspace(p) \/ BeginInspection(p) \/ EndInspection(p)
    \/ OlderProgramWrites
\* Running processes go on, and the user repeats an initialization.
BootstrapFairness ==
    \A p \in Initializer :
        WF_bootVars(BootstrapStep(p)) /\ WF_bootVars(ValidateForBootstrap(p))
BootstrapSpec == BootstrapInit /\ [][BootstrapNext]_bootVars /\ BootstrapFairness

-----------------------------------------------------------------------------
\* Whoever opened the workspace keeps it: two initializations with different
\* configurations race, but the marker of a workspace that somebody has opened
\* stays theirs, and its directories are all there.
OpenedStaysOpened ==
    \A c \in opened : marker = MarkerFor(c) /\ layout = 3

\* Repeated initializations converge to a workspace that can be opened, unless
\* the stores stay broken, the root belongs to a configuration nobody uses, or
\* a death left the marker's temporary file.
InitializationConverges ==
    \/ <>[](marker # Nothing /\ marker.current)
    \/ []<>(leftover \/ stores = "broken")
    \/ []<>(marker # Nothing /\ \A p \in Initializer : configuration[p] # marker.config)
=============================================================================
