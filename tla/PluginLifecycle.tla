--------------------------- MODULE PluginLifecycle ---------------------------
(***************************************************************************)
(* The plugin host: the registry of installed process plugins, the map of  *)
(* running handles, one supervisor task per start of a plugin, the calls   *)
(* of the settings page (enable, disable, install, uninstall) and the exit *)
(* of the app (src-tauri/src/plugin_host/{mod,process}.rs).                *)
(*                                                                         *)
(* A step is what a task does between two awaits at which another task may *)
(* change what it reads: the registry lock and the `running` lock are      *)
(* never held together by a writer, so the two halves of set_enabled are   *)
(* two steps.  What happens inside one process lifetime (frames, pings,    *)
(* timeouts) is PluginSession; here run_once is its phases only.           *)
(***************************************************************************)
EXTENDS Naturals, FiniteSets

CONSTANTS
    Plugins,        \* ids of plugins of kind "process"
    Sups,           \* bound: at most this many supervisors exist at one time
    Calls,          \* bound: at most this many page calls are in flight
    NoPlugin,       \* what an idle supervisor or call is about
    NoSup,          \* `running` has no entry for the plugin
    RestartBudget   \* restarts allowed inside the window (3 in the code)

ASSUME PluginConstants ==
    /\ NoPlugin \notin Plugins
    /\ NoSup \notin Sups
    /\ RestartBudget \in Nat

VARIABLES
    registry,   \* what registry.json says of each plugin
    staged,     \* plugins with a verified install awaiting the consent dialog
    running,    \* HostInner.running: whose handle (command sender) is registered
    phase,      \* where each supervisor task is
    serves,     \* the plugin a supervisor was spawned for
    stopAsked,  \* a Shutdown command waits in the supervisor's channel
    child,      \* the supervisor's process is up
    restarts,   \* crashes the supervisor still counts
    call,       \* the page calls in flight
    toStart,    \* enabled plugins startup() has yet to spawn
    failed,     \* plugins whose last enable, disable or uninstall returned an
                \* error because the registry could not be saved (no guard
                \* reads it)
    exit        \* how far the app's exit has come

hostVars == <<registry, staged, call, toStart, failed, exit>>
vars == <<registry, staged, running, phase, serves, stopAsked, child,
          restarts, call, toStart, failed, exit>>

Phases == {"idle", "checking", "spawning", "handshake", "serving", "closing",
           "clean", "crashed", "backoff", "overBudget", "leaving"}

Ops == {"none", "start", "stop", "stopRemove", "remove"}

NoCall == [op |-> "none", plugin |-> NoPlugin]

TypeOK ==
    /\ registry \in [Plugins -> {"absent", "disabled", "enabled"}]
    /\ staged \in SUBSET Plugins
    /\ running \in [Plugins -> Sups \cup {NoSup}]
    /\ phase \in [Sups -> Phases]
    /\ serves \in [Sups -> Plugins \cup {NoPlugin}]
    /\ stopAsked \in [Sups -> BOOLEAN]
    /\ child \in [Sups -> BOOLEAN]
    /\ restarts \in [Sups -> 0..RestartBudget + 1]
    /\ call \in [Calls -> [op : Ops, plugin : Plugins \cup {NoPlugin}]]
    /\ toStart \in SUBSET Plugins
    /\ failed \in SUBSET Plugins
    /\ exit \in {"up", "flagged", "asked", "gone"}

-----------------------------------------------------------------------------
(* startup(): the registry has just been loaded and installed. *)

Init ==
    /\ registry \in [Plugins -> {"absent", "disabled", "enabled"}]
    /\ staged = {}
    /\ running = [p \in Plugins |-> NoSup]
    /\ phase = [s \in Sups |-> "idle"]
    /\ serves = [s \in Sups |-> NoPlugin]
    /\ stopAsked = [s \in Sups |-> FALSE]
    /\ child = [s \in Sups |-> FALSE]
    /\ restarts = [s \in Sups |-> 0]
    /\ call = [c \in Calls |-> NoCall]
    /\ toStart = {p \in Plugins : registry[p] = "enabled"}
    /\ failed = {}
    /\ exit = "up"

(* spawn_supervisor: a fresh task, whoever else already serves the plugin. *)
SpawnSupervisor(p) ==
    \E s \in Sups :
        /\ phase[s] = "idle"
        /\ phase' = [phase EXCEPT ![s] = "checking"]
        /\ serves' = [serves EXCEPT ![s] = p]

StartAtBoot(p) ==
    /\ p \in toStart
    /\ toStart' = toStart \ {p}
    /\ SpawnSupervisor(p)
    /\ UNCHANGED <<registry, staged, running, stopAsked, child, restarts,
                   call, failed, exit>>

-----------------------------------------------------------------------------
(* run_supervisor and run_once. *)

Enter(s, ph) == phase' = [phase EXCEPT ![s] = ph]
(* Variant: the handle stays in `running` after run_once returns. *)
ForgetNothing(p) == p \in Plugins /\ UNCHANGED running
Forget(p) == running' = [running EXCEPT ![p] = NoSup]
(* Variant: the loop head does not look at the registry again. *)
MayRunUnlessExiting(s) == s \in Sups /\ exit = "up"
MayRun(s) == exit = "up" /\ registry[serves[s]] = "enabled"

LoopRuns(s) ==
    /\ phase[s] = "checking"
    /\ MayRun(s)
    /\ Enter(s, "spawning")
    /\ UNCHANGED <<hostVars, running, serves, stopAsked, child, restarts>>

LoopStops(s) ==
    /\ phase[s] = "checking"
    /\ ~MayRun(s)
    /\ Enter(s, "leaving")
    /\ UNCHANGED <<hostVars, running, serves, stopAsked, child, restarts>>

SpawnProcess(s) ==
    /\ phase[s] = "spawning"
    /\ Enter(s, "handshake")
    /\ child' = [child EXCEPT ![s] = TRUE]
    /\ UNCHANGED <<hostVars, running, serves, stopAsked, restarts>>

SpawnFails(s) ==
    /\ phase[s] = "spawning"
    /\ Enter(s, "crashed")
    /\ UNCHANGED <<hostVars, running, serves, stopAsked, child, restarts>>

(* initialize answered and `initialized` sent: the handle is inserted, which
   replaces, and so drops, any handle already there. *)
Register(s) ==
    /\ phase[s] = "handshake"
    /\ Enter(s, "serving")
    /\ running' = [running EXCEPT ![serves[s]] = s]
    /\ UNCHANGED <<hostVars, serves, stopAsked, child, restarts>>

(* initialize timed out, was refused, or `initialized` could not be written. *)
InitializeFails(s) ==
    /\ phase[s] = "handshake"
    /\ Enter(s, "crashed")
    /\ child' = [child EXCEPT ![s] = FALSE]
    /\ UNCHANGED <<hostVars, running, serves, stopAsked, restarts>>

(* Variant: a crash returns as a clean exit. *)
CrashTakenForExit(s) ==
    /\ phase[s] = "serving"
    /\ Enter(s, "clean")
    /\ child' = [child EXCEPT ![s] = FALSE]
    /\ UNCHANGED <<hostVars, running, serves, stopAsked, restarts>>

(* stdout closed, a protocol violation, three missed pings, a failed write. *)
Crash(s) ==
    /\ phase[s] = "serving"
    /\ Enter(s, "crashed")
    /\ child' = [child EXCEPT ![s] = FALSE]
    /\ UNCHANGED <<hostVars, running, serves, stopAsked, restarts>>

(* Variant: a closed command channel is not taken for a shutdown. *)
HearsShutdownOnly(s) == stopAsked[s]

(* cmd_rx yields Shutdown, or None once the handle that held the sender is
   gone from `running` (removed or replaced). *)
HearsStop(s) == stopAsked[s] \/ running[serves[s]] # s

BeginShutdown(s) ==
    /\ phase[s] = "serving"
    /\ HearsStop(s)
    /\ Enter(s, "closing")
    /\ UNCHANGED <<hostVars, running, serves, stopAsked, child, restarts>>

(* shutdown request, exit notification, wait for the process or kill it. *)
FinishShutdown(s) ==
    /\ phase[s] = "closing"
    /\ Enter(s, "clean")
    /\ child' = [child EXCEPT ![s] = FALSE]
    /\ UNCHANGED <<hostVars, running, serves, stopAsked, restarts>>

(* Back in run_supervisor.  `running.remove` is by plugin id: it removes
   whatever handle is there. *)
AfterClean(s) ==
    /\ phase[s] = "clean"
    /\ Forget(serves[s])
    /\ Enter(s, "leaving")
    /\ UNCHANGED <<hostVars, serves, stopAsked, child, restarts>>

(* The command channel lives and dies with run_once, and a Shutdown left in
   it with them.  `kept` of the counted crashes are younger than the
   ten-minute window. *)
AfterCrash(s) ==
    /\ phase[s] = "crashed"
    /\ Forget(serves[s])
    /\ stopAsked' = [stopAsked EXCEPT ![s] = FALSE]
    /\ \E kept \in 0..restarts[s] :
        /\ restarts' = [restarts EXCEPT ![s] = kept + 1]
        /\ Enter(s, IF kept + 1 > RestartBudget THEN "overBudget" ELSE "backoff")
    /\ UNCHANGED <<hostVars, serves, child>>

(* Variant: the supervisor gives up without saving the disabling. *)
GiveUpSilently(s) ==
    /\ phase[s] = "overBudget"
    /\ Enter(s, "leaving")
    /\ UNCHANGED <<hostVars, running, serves, stopAsked, child, restarts>>

(* set_enabled_in_registry: an error (the plugin is gone, or the save fails
   after memory has changed) is ignored. *)
DisableAfterFailures(s) ==
    /\ phase[s] = "overBudget"
    /\ registry' = [registry EXCEPT ![serves[s]] =
                       IF @ = "absent" THEN "absent" ELSE "disabled"]
    /\ Enter(s, "leaving")
    /\ UNCHANGED <<staged, running, serves, stopAsked, child, restarts, call,
                   toStart, failed, exit>>

(* Variant: the restart is a new supervisor beside the old one. *)
WakeTwice(s) ==
    /\ phase[s] = "backoff"
    /\ \E t \in Sups :
        /\ phase[t] = "idle"
        /\ phase' = [phase EXCEPT ![s] = "checking", ![t] = "checking"]
        /\ serves' = [serves EXCEPT ![t] = serves[s]]
    /\ UNCHANGED <<hostVars, running, stopAsked, child, restarts>>

WakeFromBackoff(s) ==
    /\ phase[s] = "backoff"
    /\ Enter(s, "checking")
    /\ UNCHANGED <<hostVars, running, serves, stopAsked, child, restarts>>

Leave(s) ==
    /\ phase[s] = "leaving"
    /\ Forget(serves[s])
    /\ Enter(s, "idle")
    /\ serves' = [serves EXCEPT ![s] = NoPlugin]
    /\ stopAsked' = [stopAsked EXCEPT ![s] = FALSE]
    /\ restarts' = [restarts EXCEPT ![s] = 0]
    /\ UNCHANGED <<hostVars, child>>

(* What the runtime and the timeouts carry forward: every phase but serving
   ends by itself. *)
SupProgress(s) ==
    \/ LoopRuns(s) \/ LoopStops(s) \/ SpawnProcess(s) \/ SpawnFails(s)
    \/ Register(s) \/ InitializeFails(s) \/ BeginShutdown(s)
    \/ FinishShutdown(s) \/ AfterClean(s) \/ AfterCrash(s)
    \/ DisableAfterFailures(s) \/ WakeFromBackoff(s) \/ Leave(s)

-----------------------------------------------------------------------------
(* The page's calls.  set_enabled and uninstall take the registry lock first
   and read `running` after releasing it. *)

Installed(p) == registry[p] # "absent"

SaveEnabled(c, p) ==
    /\ exit = "up"
    /\ call[c] = NoCall
    /\ Installed(p)
    /\ registry' = [registry EXCEPT ![p] = "enabled"]
    /\ call' = [call EXCEPT ![c] = [op |-> "start", plugin |-> p]]
    /\ failed' = failed \ {p}
    /\ UNCHANGED <<staged, running, phase, serves, stopAsked, child, restarts,
                   toStart, exit>>

SaveDisabled(c, p, op) ==
    /\ exit = "up"
    /\ call[c] = NoCall
    /\ Installed(p)
    /\ registry' = [registry EXCEPT ![p] = "disabled"]
    /\ call' = [call EXCEPT ![c] = [op |-> op, plugin |-> p]]
    /\ failed' = failed \ {p}
    /\ UNCHANGED <<staged, running, phase, serves, stopAsked, child, restarts,
                   toStart, exit>>

Disable(c, p) == SaveDisabled(c, p, "stop")
Uninstall(c, p) == SaveDisabled(c, p, "stopRemove")

(* registry::save fails: the registry in memory keeps the change, and the call
   returns its error before it has spawned or told anybody. *)
SaveFails(p, says) ==
    /\ exit = "up"
    /\ Installed(p)
    /\ registry' = [registry EXCEPT ![p] = says]
    /\ failed' = failed \cup {p}
    /\ UNCHANGED <<staged, running, phase, serves, stopAsked, child, restarts,
                   call, toStart, exit>>

EnableFails(p) == SaveFails(p, "enabled")
DisableFails(p) == SaveFails(p, "disabled")

StartIfNotRunning(c) ==
    /\ call[c].op = "start"
    /\ \/ /\ running[call[c].plugin] = NoSup
          /\ SpawnSupervisor(call[c].plugin)
       \/ /\ running[call[c].plugin] # NoSup
          /\ UNCHANGED <<phase, serves>>
    /\ call' = [call EXCEPT ![c] = NoCall]
    /\ UNCHANGED <<registry, staged, running, stopAsked, child, restarts,
                   toStart, failed, exit>>

(* Variant: disabling saves the registry and tells nobody. *)
StopNobody(c) ==
    /\ call[c].op \in {"stop", "stopRemove"}
    /\ call' = [call EXCEPT ![c] = IF @.op = "stop" THEN NoCall
                                   ELSE [@ EXCEPT !.op = "remove"]]
    /\ UNCHANGED <<registry, staged, running, phase, serves, stopAsked, child,
                   restarts, toStart, failed, exit>>

StopIfRunning(c) ==
    /\ call[c].op \in {"stop", "stopRemove"}
    /\ LET s == running[call[c].plugin]
       IN  stopAsked' = IF s = NoSup THEN stopAsked
                        ELSE [stopAsked EXCEPT ![s] = TRUE]
    /\ call' = [call EXCEPT ![c] = IF @.op = "stop" THEN NoCall
                                   ELSE [@ EXCEPT !.op = "remove"]]
    /\ UNCHANGED <<registry, staged, running, phase, serves, child, restarts,
                   toStart, failed, exit>>

(* The wait for `running` to clear is bounded (50 polls of 100 ms), and its
   result is not looked at: the record goes either way.  When this last save
   fails the call returns an error, but nothing it does to the plugin is left. *)
RemoveRecord(c) ==
    /\ call[c].op = "remove"
    /\ registry' = [registry EXCEPT ![call[c].plugin] = "absent"]
    /\ call' = [call EXCEPT ![c] = NoCall]
    /\ UNCHANGED <<staged, running, phase, serves, stopAsked, child, restarts,
                   toStart, failed, exit>>

BeginInstall(p) ==
    /\ exit = "up"
    /\ registry[p] # "enabled"
    /\ staged' = staged \cup {p}
    /\ UNCHANGED <<registry, running, phase, serves, stopAsked, child,
                   restarts, call, toStart, failed, exit>>

CancelInstall(p) ==
    /\ p \in staged
    /\ staged' = staged \ {p}
    /\ UNCHANGED <<registry, running, phase, serves, stopAsked, child,
                   restarts, call, toStart, failed, exit>>

(* The new record is disabled and replaces the old one, whatever it said. *)
CommitInstall(p) ==
    /\ p \in staged
    /\ staged' = staged \ {p}
    /\ registry' = [registry EXCEPT ![p] = "disabled"]
    /\ UNCHANGED <<running, phase, serves, stopAsked, child, restarts, call,
                   toStart, failed, exit>>

InstallLocal(p) ==
    /\ exit = "up"
    /\ registry[p] # "enabled"
    /\ registry' = [registry EXCEPT ![p] = "disabled"]
    /\ UNCHANGED <<staged, running, phase, serves, stopAsked, child, restarts,
                   call, toStart, failed, exit>>

CallProgress(c) == StartIfNotRunning(c) \/ StopIfRunning(c) \/ RemoveRecord(c)

-----------------------------------------------------------------------------
(* RunEvent::Exit: shutdown_all, then a bounded wait on has_running. *)

ExitBegins ==
    /\ exit = "up"
    /\ exit' = "flagged"
    /\ UNCHANGED <<registry, staged, running, phase, serves, stopAsked, child,
                   restarts, call, toStart, failed>>

ShutdownAll ==
    /\ exit = "flagged"
    /\ exit' = "asked"
    /\ stopAsked' = [s \in Sups |-> stopAsked[s] \/ \E p \in Plugins : running[p] = s]
    /\ UNCHANGED <<registry, staged, running, phase, serves, child, restarts,
                   call, toStart, failed>>

HasRunning == \E p \in Plugins : running[p] # NoSup

(* The event loop ends once no handle is left, or when the wait is over. *)
ExitEnds ==
    /\ exit = "asked"
    /\ exit' = "gone"
    /\ UNCHANGED <<registry, staged, running, phase, serves, stopAsked, child,
                   restarts, call, toStart, failed>>

ExitProgress == ShutdownAll \/ ExitEnds

-----------------------------------------------------------------------------

PageStep(p) ==
    \/ \E c \in Calls : SaveEnabled(c, p) \/ Disable(c, p) \/ Uninstall(c, p)
    \/ EnableFails(p) \/ DisableFails(p)
    \/ BeginInstall(p) \/ CancelInstall(p) \/ CommitInstall(p) \/ InstallLocal(p)

HostStep ==
    \/ \E p \in Plugins : StartAtBoot(p)
    \/ \E s \in Sups : SupProgress(s) \/ Crash(s)
    \/ \E c \in Calls : CallProgress(c)
    \/ ExitBegins \/ ExitProgress

(* Nothing of the host runs after the process has ended. *)
Next ==
    /\ exit # "gone"
    /\ HostStep \/ \E p \in Plugins : PageStep(p)

Spec == Init /\ [][Next]_vars

Alive(A) == exit # "gone" /\ A

Fairness ==
    /\ \A p \in Plugins : WF_vars(Alive(StartAtBoot(p)))
    /\ \A s \in Sups : WF_vars(Alive(SupProgress(s)))
    /\ \A c \in Calls : WF_vars(Alive(CallProgress(c)))
    /\ WF_vars(Alive(ExitProgress))

FairSpec == Spec /\ Fairness

-----------------------------------------------------------------------------
(* A user who lets the plugin settle: no call in flight about it, and either
   no supervisor, or one that holds the handle and has not been asked to
   stop; and who enables only what is disabled and has no supervisor (after a
   failed disable it still has one), with no install dialog open.  The code
   does not enforce it; PatientSpec shows what it would buy. *)

Attending(p) == {s \in Sups : serves[s] = p}

Settled(p) ==
    /\ p \notin toStart
    /\ exit = "up"
    /\ \A c \in Calls : call[c].plugin # p
    /\ \A s \in Attending(p) :
        phase[s] = "serving" /\ running[p] = s /\ ~stopAsked[s]

MayEnable(p) == registry[p] = "disabled" /\ p \notin staged /\ Attending(p) = {}

PatientStep(p) ==
    \/ \E c \in Calls :
        \/ MayEnable(p) /\ SaveEnabled(c, p)
        \/ Disable(c, p)
        \/ Uninstall(c, p)
    \/ MayEnable(p) /\ EnableFails(p)
    \/ DisableFails(p)
    \/ BeginInstall(p) \/ CancelInstall(p) \/ CommitInstall(p) \/ InstallLocal(p)

PatientNext ==
    /\ exit # "gone"
    /\ HostStep \/ \E p \in Plugins : Settled(p) /\ PatientStep(p)

PatientSpec == Init /\ [][PatientNext]_vars

-----------------------------------------------------------------------------
(* Safety. *)

(* A registered handle belongs to a supervisor that was spawned for that plugin
   and whose run_once has not been cleaned up after: `running` never keeps a
   dead sender, although every supervisor of a plugin removes by plugin id and
   so removes the others' handles too (mod.rs emit_event, has_running). *)
HandleOwned ==
    \A p \in Plugins : running[p] # NoSup =>
        /\ serves[running[p]] = p
        /\ phase[running[p]] \in {"serving", "closing", "clean", "crashed"}

(* A plugin has at most one process: two would answer the same actions and
   write the same data directory.  Holds for a patient user (PatientSpec). *)
AtMostOneProcess ==
    \A s, t \in Sups :
        child[s] /\ child[t] /\ serves[s] = serves[t] => s = t

Quiet(p) == p \notin toStart /\ \A c \in Calls : call[c].plugin # p

StoppedIfDisabled(s) ==
    phase[s] = "serving" /\ Quiet(serves[s]) /\ registry[serves[s]] # "enabled"
        => HearsStop(s)

(* "Disabling a plugin shuts its process down" (CAPABILITIES.md:78): once the
   call has returned, a process of a plugin that is not enabled has been told
   to stop, unless the call returned an error (set_enabled, mod.rs:656).  An
   error counts until a later call of the plugin succeeds. *)
DisabledIsStopped ==
    \A s \in Sups : serves[s] \notin failed => StoppedIfDisabled(s)

(* The same without the error's excuse: the registry the page shows and the
   supervisor reads is obeyed.  The code does not keep it: a failed save leaves
   the plugin disabled in memory and its process serving. *)
RegistryIsObeyed == \A s \in Sups : StoppedIfDisabled(s)

(* "When the plugin is enabled the host runs both halves: it spawns the
   sidecar" (DEVELOPER_GUIDE.md:395): once the call has returned, an enabled
   plugin has a supervisor that is not on its way out, unless the call returned
   an error (a failed save leaves it enabled in memory with no supervisor). *)
EnabledIsSupervised ==
    \A p \in Plugins \ failed :
        exit = "up" /\ Quiet(p) /\ registry[p] = "enabled" =>
            \E s \in Attending(p) :
                /\ phase[s] \notin {"closing", "clean", "leaving"}
                /\ phase[s] = "serving" => ~HearsStop(s)

(* has_running: "True while at least one plugin process is still up (exit
   waits on this)" (mod.rs:857), read by the exit's wait. *)
ExitSeesProcesses == exit = "asked" /\ (\E s \in Sups : child[s]) => HasRunning

-----------------------------------------------------------------------------
(* Every supervisor runs the lifetime PluginRun promises, one after another,
   whatever the page, the other supervisors and the exit do meanwhile: it closes
   a process only when asked to, and starts none before the last one is down. *)

Run(s) == INSTANCE PluginRun WITH
    run <- IF phase[s] \in {"spawning", "handshake", "serving", "closing", "clean", "crashed"}
           THEN phase[s] ELSE "between",
    up <- child[s],
    asked <- phase[s] \in {"serving", "closing"} /\ HearsStop(s)

SupervisorsRun ==
    /\ \A s \in Sups : Run(s)!Init
    /\ [][\A s \in Sups : Run(s)!Next \/ UNCHANGED Run(s)!vars]_vars

-----------------------------------------------------------------------------
(* Liveness, under FairSpec.  Its fairness assumes that the writes of the serve
   loop return: a plugin that stops reading until its pipe is full blocks the
   loop (process.rs:291), and then nothing below holds (PluginSession, by hand
   with PluginHungPipe.cfg). *)

(* A Shutdown is never lost to a crash that races with it: the supervisor it
   was sent to ends, unless the plugin is enabled again meanwhile. *)
StopTakesEffect ==
    \A s \in Sups :
        stopAsked[s] /\ registry[serves[s]] # "enabled"
            ~> \/ phase[s] = "idle"
               \/ phase[s] # "idle" /\ registry[serves[s]] = "enabled"
               \/ exit = "gone"

(* When a second supervisor of a plugin registers, the first one, whose
   handle it replaced, takes its own process down: two processes of a plugin
   never both serve for good.  A push or a broadcast may hold a clone of the
   sender for a moment longer; it drops it when it ends. *)
DisplacedStops ==
    \A s \in Sups :
        phase[s] = "serving" /\ running[serves[s]] # s
            ~> ~child[s] \/ exit = "gone"

=============================================================================
