------------------------ MODULE PluginLifecycle_proofs ------------------------
(***************************************************************************)
(* Proofs about PluginLifecycle, for any sets of plugins, supervisors and  *)
(* calls and any restart budget.                                           *)
(***************************************************************************)
EXTENDS PluginLifecycle, TLAPS

(* A supervisor counts more crashes than the budget only on its way out: the
   fact that keeps `restarts` within its type. *)
RestartsBounded ==
    \A s \in Sups : restarts[s] > RestartBudget => phase[s] \in {"overBudget", "leaving"}

IInv == TypeOK /\ RestartsBounded /\ HandleOwned

LEMMA InitIInv == Init => IInv
BY PluginConstants DEF Init, IInv, TypeOK, RestartsBounded, HandleOwned, Phases, Ops, NoCall

LEMMA NextIInv == IInv /\ [Next]_vars => IInv'
<1> SUFFICES ASSUME IInv, [Next]_vars PROVE IInv'
    OBVIOUS
<1> USE PluginConstants DEF IInv, TypeOK, RestartsBounded, HandleOwned, Phases, Ops, NoCall,
        hostVars, Enter
<1>1. ASSUME NEW p \in Plugins, StartAtBoot(p) PROVE IInv'
    BY <1>1 DEF StartAtBoot, SpawnSupervisor
<1>2. ASSUME NEW s \in Sups, LoopRuns(s) PROVE IInv'
    BY <1>2 DEF LoopRuns
<1>3. ASSUME NEW s \in Sups, LoopStops(s) PROVE IInv'
    BY <1>3 DEF LoopStops
<1>4. ASSUME NEW s \in Sups, SpawnProcess(s) PROVE IInv'
    BY <1>4 DEF SpawnProcess
<1>5. ASSUME NEW s \in Sups, SpawnFails(s) PROVE IInv'
    BY <1>5 DEF SpawnFails
<1>6. ASSUME NEW s \in Sups, Register(s) PROVE IInv'
    <2>1. TypeOK'
        BY <1>6 DEF Register
    <2>2. RestartsBounded'
        BY <1>6 DEF Register
    <2>3. HandleOwned'
        BY <1>6 DEF Register
    <2>4. QED
        BY <2>1, <2>2, <2>3
<1>7. ASSUME NEW s \in Sups, InitializeFails(s) PROVE IInv'
    BY <1>7 DEF InitializeFails
<1>8. ASSUME NEW s \in Sups, Crash(s) PROVE IInv'
    BY <1>8 DEF Crash
<1>9. ASSUME NEW s \in Sups, BeginShutdown(s) PROVE IInv'
    BY <1>9 DEF BeginShutdown
<1>10. ASSUME NEW s \in Sups, FinishShutdown(s) PROVE IInv'
    BY <1>10 DEF FinishShutdown
<1>11. ASSUME NEW s \in Sups, AfterClean(s) PROVE IInv'
    <2>1. TypeOK'
        BY <1>11 DEF AfterClean, Forget
    <2>2. RestartsBounded'
        BY <1>11 DEF AfterClean, Forget
    <2>3. HandleOwned'
        BY <1>11 DEF AfterClean, Forget
    <2>4. QED
        BY <2>1, <2>2, <2>3
<1>12. ASSUME NEW s \in Sups, AfterCrash(s) PROVE IInv'
    <2>1. TypeOK'
        <3>1. PICK kept \in 0..restarts[s] :
                 /\ restarts' = [restarts EXCEPT ![s] = kept + 1]
                 /\ Enter(s, IF kept + 1 > RestartBudget THEN "overBudget" ELSE "backoff")
            BY <1>12 DEF AfterCrash
        <3>2. restarts[s] \in Nat /\ restarts[s] <= RestartBudget
            BY <1>12 DEF AfterCrash
        <3>3. kept + 1 \in 0..RestartBudget + 1
            BY <3>2
        <3>4. restarts' \in [Sups -> 0..RestartBudget + 1]
            BY <3>1, <3>3
        <3>5. phase' \in [Sups -> Phases]
            BY <3>1
        <3>6. QED
            BY <1>12, <3>4, <3>5 DEF AfterCrash, Forget
    <2>2. RestartsBounded'
        BY <1>12 DEF AfterCrash, Forget
    <2>3. HandleOwned'
        BY <1>12 DEF AfterCrash, Forget
    <2>4. QED
        BY <2>1, <2>2, <2>3
<1>13. ASSUME NEW s \in Sups, DisableAfterFailures(s) PROVE IInv'
    <2>1. TypeOK'
        BY <1>13 DEF DisableAfterFailures
    <2>2. RestartsBounded'
        BY <1>13 DEF DisableAfterFailures
    <2>3. HandleOwned'
        BY <1>13 DEF DisableAfterFailures
    <2>4. QED
        BY <2>1, <2>2, <2>3
<1>14. ASSUME NEW s \in Sups, WakeFromBackoff(s) PROVE IInv'
    BY <1>14 DEF WakeFromBackoff
<1>15. ASSUME NEW s \in Sups, Leave(s) PROVE IInv'
    <2>1. TypeOK'
        <3>1. restarts' \in [Sups -> 0..RestartBudget + 1]
            BY <1>15 DEF Leave
        <3>2. QED
            BY <1>15, <3>1 DEF Leave, Forget
    <2>2. RestartsBounded'
        BY <1>15 DEF Leave, Forget
    <2>3. HandleOwned'
        BY <1>15 DEF Leave, Forget
    <2>4. QED
        BY <2>1, <2>2, <2>3
<1>16. ASSUME NEW c \in Calls, NEW p \in Plugins, SaveEnabled(c, p) PROVE IInv'
    BY <1>16 DEF SaveEnabled
<1>17. ASSUME NEW c \in Calls, NEW p \in Plugins, Disable(c, p) \/ Uninstall(c, p)
       PROVE IInv'
    <2>0. PICK op \in {"stop", "stopRemove"} : SaveDisabled(c, p, op)
        BY <1>17 DEF Disable, Uninstall
    <2>1. TypeOK'
        BY <2>0 DEF SaveDisabled
    <2>2. RestartsBounded' /\ HandleOwned'
        BY <2>0 DEF SaveDisabled
    <2>3. QED
        BY <2>1, <2>2
<1>26. ASSUME NEW p \in Plugins, EnableFails(p) \/ DisableFails(p) PROVE IInv'
    BY <1>26 DEF EnableFails, DisableFails, SaveFails
<1>18. ASSUME NEW c \in Calls, StartIfNotRunning(c) PROVE IInv'
    <2>1. TypeOK'
        BY <1>18 DEF StartIfNotRunning, SpawnSupervisor
    <2>2. RestartsBounded'
        BY <1>18 DEF StartIfNotRunning, SpawnSupervisor
    <2>3. HandleOwned'
        BY <1>18 DEF StartIfNotRunning, SpawnSupervisor
    <2>4. QED
        BY <2>1, <2>2, <2>3
<1>19. ASSUME NEW c \in Calls, StopIfRunning(c) PROVE IInv'
    <2>1. TypeOK'
        <3>1. call' \in [Calls -> [op : Ops, plugin : Plugins \cup {NoPlugin}]]
            BY <1>19 DEF StopIfRunning
        <3>2. stopAsked' \in [Sups -> BOOLEAN]
            BY <1>19 DEF StopIfRunning
        <3>3. QED
            BY <1>19, <3>1, <3>2 DEF StopIfRunning
    <2>2. RestartsBounded'
        BY <1>19 DEF StopIfRunning
    <2>3. HandleOwned'
        BY <1>19 DEF StopIfRunning
    <2>4. QED
        BY <2>1, <2>2, <2>3
<1>20. ASSUME NEW c \in Calls, RemoveRecord(c) PROVE IInv'
    BY <1>20 DEF RemoveRecord
<1>21. ASSUME NEW p \in Plugins,
              BeginInstall(p) \/ CancelInstall(p) \/ CommitInstall(p) \/ InstallLocal(p)
       PROVE IInv'
    BY <1>21 DEF BeginInstall, CancelInstall, CommitInstall, InstallLocal
<1>22. ASSUME ExitBegins \/ ExitEnds PROVE IInv'
    BY <1>22 DEF ExitBegins, ExitEnds
<1>25. ASSUME ShutdownAll PROVE IInv'
    BY <1>25 DEF ShutdownAll
<1>23. CASE UNCHANGED vars
    BY <1>23 DEF vars
<1>24. QED
    BY <1>1, <1>2, <1>3, <1>4, <1>5, <1>6, <1>7, <1>8, <1>9, <1>10, <1>11, <1>12, <1>13,
       <1>14, <1>15, <1>16, <1>17, <1>18, <1>19, <1>20, <1>21, <1>22, <1>23, <1>25, <1>26
       DEF Next, HostStep, PageStep, SupProgress, CallProgress, ExitProgress

(* Every variable keeps its type for any number of plugins, supervisors and
   calls; in particular the crash count never passes the budget by two. *)
THEOREM TypeCorrect == Spec => []TypeOK
<1>1. Spec => []IInv
    BY InitIInv, NextIInv, PTL DEF Spec
<1>2. QED
    BY <1>1, PTL DEF IInv

(* `running` never holds the handle of a supervisor that has ended or that
   serves another plugin, however the page's calls, the crashes and the exit
   interleave. *)
THEOREM HandleOwnedAlways == Spec => []HandleOwned
<1>1. Spec => []IInv
    BY InitIInv, NextIInv, PTL DEF Spec
<1>2. QED
    BY <1>1, PTL DEF IInv

-----------------------------------------------------------------------------
(***************************************************************************)
(* The patient user.  At most one task (a boot entry, a call or a          *)
(* supervisor) has a plugin's start in hand, and what that task is doing   *)
(* agrees with the registry.                                               *)
(***************************************************************************)

Starting(c) == call[c].op = "start"
Stopping(c) == call[c].op \in {"stop", "stopRemove"}

(* Who is busy, and with what. *)
Roles ==
    /\ \A s \in Sups : phase[s] = "idle" <=> serves[s] = NoPlugin
    /\ \A s \in Sups : child[s] => phase[s] \in {"handshake", "serving", "closing"}
    /\ \A c \in Calls : call[c].op = "none" <=> call[c].plugin = NoPlugin

(* One supervisor and one call per plugin; none of them while startup or a
   starting call still owes the plugin its supervisor. *)
OneEach ==
    /\ \A s, t \in Sups : serves[s] = serves[t] /\ serves[s] # NoPlugin => s = t
    /\ \A c, d \in Calls :
        call[c].plugin = call[d].plugin /\ call[c].plugin # NoPlugin => c = d
    /\ \A p \in toStart :
        (\A s \in Sups : serves[s] # p) /\ \A c \in Calls : call[c].plugin # p
    /\ \A c \in Calls : Starting(c) => \A s \in Sups : serves[s] # call[c].plugin

(* What each task knows of the registry. *)
Agrees ==
    /\ \A p \in staged : registry[p] # "enabled"
    /\ \A s \in Sups : phase[s] \in {"spawning", "handshake"} =>
        registry[serves[s]] = "enabled"
    /\ \A s \in Sups : phase[s] = "serving" =>
        /\ running[serves[s]] = s
        /\ registry[serves[s]] # "enabled" =>
            \/ stopAsked[s]
            \/ serves[s] \in failed
            \/ \E c \in Calls : Stopping(c) /\ call[c].plugin = serves[s]
    /\ \A s \in Sups : stopAsked[s] =>
        /\ phase[s] \in {"serving", "closing", "clean", "crashed", "leaving"}
        /\ exit = "up" => registry[serves[s]] # "enabled"
    /\ \A s \in Sups : phase[s] \in {"closing", "clean", "leaving"} /\ exit = "up" =>
        registry[serves[s]] # "enabled"
    /\ \A c \in Calls : call[c].op \in {"stop", "stopRemove", "remove"} =>
        registry[call[c].plugin] # "enabled"

(* An enabled plugin has its start in somebody's hand, or its enabling failed. *)
Looked ==
    \A p \in Plugins : registry[p] = "enabled" /\ exit = "up" =>
        \/ p \in toStart
        \/ p \in failed
        \/ \E c \in Calls : Starting(c) /\ call[c].plugin = p
        \/ \E s \in Sups : serves[s] = p

PInv == IInv /\ Roles /\ OneEach /\ Agrees /\ Looked

LEMMA InitPInv == Init => PInv
<1> SUFFICES ASSUME Init PROVE PInv
    OBVIOUS
<1>1. IInv
    BY InitIInv
<1>2. Roles /\ OneEach /\ Agrees /\ Looked
    BY PluginConstants DEF Init, Roles, OneEach, Agrees, Looked, NoCall, Starting, Stopping
<1>3. QED
    BY <1>1, <1>2 DEF PInv

LEMMA PatientIsNext == PatientNext => Next
BY DEF PatientNext, PatientStep, Next, PageStep

LEMMA NextPInv == PInv /\ [PatientNext]_vars => PInv'
<1> SUFFICES ASSUME PInv, [PatientNext]_vars PROVE PInv'
    OBVIOUS
<1>0. IInv /\ IInv'
    BY PatientIsNext, NextIInv DEF PInv
<1> DEFINE Rest == Roles /\ OneEach /\ Agrees /\ Looked
<1> USE PluginConstants DEF PInv, IInv, TypeOK, HandleOwned, Enter, hostVars, NoCall,
        Starting, Stopping
<1>1. ASSUME NEW p \in Plugins, StartAtBoot(p)
      PROVE Rest'
    <2>1. Roles'
        BY <1>0, <1>1 DEF StartAtBoot, SpawnSupervisor,
           Roles
    <2>2. OneEach'
        BY <1>0, <1>1 DEF StartAtBoot, SpawnSupervisor,
           Roles, OneEach, Agrees
    <2>3. Agrees'
        BY <1>0, <1>1 DEF StartAtBoot, SpawnSupervisor,
           Roles, OneEach, Agrees
    <2>4. Looked'
        BY <1>0, <1>1 DEF StartAtBoot, SpawnSupervisor,
           Roles, OneEach, Agrees, Looked
    <2>5. QED
        BY <2>1, <2>2, <2>3, <2>4
<1>2. ASSUME NEW s \in Sups, LoopRuns(s)
      PROVE Rest'
    <2>1. Roles'
        BY <1>0, <1>2 DEF LoopRuns, MayRun,
           Roles
    <2>2. OneEach'
        BY <1>0, <1>2 DEF LoopRuns, MayRun,
           Roles, OneEach
    <2>3. Agrees'
        BY <1>0, <1>2 DEF LoopRuns, MayRun,
           Roles, OneEach, Agrees
    <2>4. Looked'
        BY <1>0, <1>2 DEF LoopRuns, MayRun,
           Roles, OneEach, Agrees, Looked
    <2>5. QED
        BY <2>1, <2>2, <2>3, <2>4
<1>3. ASSUME NEW s \in Sups, LoopStops(s)
      PROVE Rest'
    <2>1. Roles'
        BY <1>0, <1>3 DEF LoopStops, MayRun,
           Roles
    <2>2. OneEach'
        BY <1>0, <1>3 DEF LoopStops, MayRun,
           Roles, OneEach
    <2>3. Agrees'
        BY <1>0, <1>3 DEF LoopStops, MayRun,
           Roles, OneEach, Agrees
    <2>4. Looked'
        BY <1>0, <1>3 DEF LoopStops, MayRun,
           Roles, OneEach, Agrees, Looked
    <2>5. QED
        BY <2>1, <2>2, <2>3, <2>4
<1>4. ASSUME NEW s \in Sups, SpawnProcess(s)
      PROVE Rest'
    <2>1. Roles'
        BY <1>0, <1>4 DEF SpawnProcess,
           Roles
    <2>2. OneEach'
        BY <1>0, <1>4 DEF SpawnProcess,
           Roles, OneEach
    <2>3. Agrees'
        BY <1>0, <1>4 DEF SpawnProcess,
           Roles, OneEach, Agrees
    <2>4. Looked'
        BY <1>0, <1>4 DEF SpawnProcess,
           Roles, OneEach, Agrees, Looked
    <2>5. QED
        BY <2>1, <2>2, <2>3, <2>4
<1>5. ASSUME NEW s \in Sups, SpawnFails(s)
      PROVE Rest'
    <2>1. Roles'
        BY <1>0, <1>5 DEF SpawnFails,
           Roles
    <2>2. OneEach'
        BY <1>0, <1>5 DEF SpawnFails,
           Roles, OneEach
    <2>3. Agrees'
        BY <1>0, <1>5 DEF SpawnFails,
           Roles, OneEach, Agrees
    <2>4. Looked'
        BY <1>0, <1>5 DEF SpawnFails,
           Roles, OneEach, Agrees, Looked
    <2>5. QED
        BY <2>1, <2>2, <2>3, <2>4
<1>6. ASSUME NEW s \in Sups, Register(s)
      PROVE Rest'
    <2>1. Roles'
        BY <1>0, <1>6 DEF Register,
           Roles
    <2>2. OneEach'
        BY <1>0, <1>6 DEF Register,
           Roles, OneEach
    <2>3. Agrees'
        BY <1>0, <1>6 DEF Register,
           Roles, OneEach, Agrees
    <2>4. Looked'
        BY <1>0, <1>6 DEF Register,
           Roles, OneEach, Agrees, Looked
    <2>5. QED
        BY <2>1, <2>2, <2>3, <2>4
<1>7. ASSUME NEW s \in Sups, InitializeFails(s)
      PROVE Rest'
    <2>1. Roles'
        BY <1>0, <1>7 DEF InitializeFails,
           Roles
    <2>2. OneEach'
        BY <1>0, <1>7 DEF InitializeFails,
           Roles, OneEach
    <2>3. Agrees'
        BY <1>0, <1>7 DEF InitializeFails,
           Roles, OneEach, Agrees
    <2>4. Looked'
        BY <1>0, <1>7 DEF InitializeFails,
           Roles, OneEach, Agrees, Looked
    <2>5. QED
        BY <2>1, <2>2, <2>3, <2>4
<1>8. ASSUME NEW s \in Sups, Crash(s)
      PROVE Rest'
    <2>1. Roles'
        BY <1>0, <1>8 DEF Crash,
           Roles
    <2>2. OneEach'
        BY <1>0, <1>8 DEF Crash,
           Roles, OneEach
    <2>3. Agrees'
        BY <1>0, <1>8 DEF Crash,
           Roles, OneEach, Agrees
    <2>4. Looked'
        BY <1>0, <1>8 DEF Crash,
           Roles, OneEach, Agrees, Looked
    <2>5. QED
        BY <2>1, <2>2, <2>3, <2>4
<1>9. ASSUME NEW s \in Sups, BeginShutdown(s)
      PROVE Rest'
    <2>1. Roles'
        BY <1>0, <1>9 DEF BeginShutdown, HearsStop,
           Roles
    <2>2. OneEach'
        BY <1>0, <1>9 DEF BeginShutdown, HearsStop,
           Roles, OneEach
    <2>3. Agrees'
        BY <1>0, <1>9 DEF BeginShutdown, HearsStop,
           Roles, OneEach, Agrees
    <2>4. Looked'
        BY <1>0, <1>9 DEF BeginShutdown, HearsStop,
           Roles, OneEach, Agrees, Looked
    <2>5. QED
        BY <2>1, <2>2, <2>3, <2>4
<1>10. ASSUME NEW s \in Sups, FinishShutdown(s)
      PROVE Rest'
    <2>1. Roles'
        BY <1>0, <1>10 DEF FinishShutdown,
           Roles
    <2>2. OneEach'
        BY <1>0, <1>10 DEF FinishShutdown,
           Roles, OneEach
    <2>3. Agrees'
        BY <1>0, <1>10 DEF FinishShutdown,
           Roles, OneEach, Agrees
    <2>4. Looked'
        BY <1>0, <1>10 DEF FinishShutdown,
           Roles, OneEach, Agrees, Looked
    <2>5. QED
        BY <2>1, <2>2, <2>3, <2>4
<1>11. ASSUME NEW s \in Sups, AfterClean(s)
      PROVE Rest'
    <2>1. Roles'
        BY <1>0, <1>11 DEF AfterClean, Forget,
           Roles
    <2>2. OneEach'
        BY <1>0, <1>11 DEF AfterClean, Forget,
           Roles, OneEach
    <2>3. Agrees'
        BY <1>0, <1>11 DEF AfterClean, Forget,
           Roles, OneEach, Agrees
    <2>4. Looked'
        BY <1>0, <1>11 DEF AfterClean, Forget,
           Roles, OneEach, Agrees, Looked
    <2>5. QED
        BY <2>1, <2>2, <2>3, <2>4
<1>12. ASSUME NEW s \in Sups, AfterCrash(s)
      PROVE Rest'
    <2>1. Roles'
        BY <1>0, <1>12 DEF AfterCrash, Forget,
           Roles
    <2>2. OneEach'
        BY <1>0, <1>12 DEF AfterCrash, Forget,
           Roles, OneEach
    <2>3. Agrees'
        BY <1>0, <1>12 DEF AfterCrash, Forget,
           Roles, OneEach, Agrees
    <2>4. Looked'
        BY <1>0, <1>12 DEF AfterCrash, Forget,
           Roles, OneEach, Agrees, Looked
    <2>5. QED
        BY <2>1, <2>2, <2>3, <2>4
<1>13. ASSUME NEW s \in Sups, DisableAfterFailures(s)
      PROVE Rest'
    <2>1. Roles'
        BY <1>0, <1>13 DEF DisableAfterFailures,
           Roles
    <2>2. OneEach'
        BY <1>0, <1>13 DEF DisableAfterFailures,
           Roles, OneEach
    <2>3. Agrees'
        BY <1>0, <1>13 DEF DisableAfterFailures,
           Roles, OneEach, Agrees
    <2>4. Looked'
        BY <1>0, <1>13 DEF DisableAfterFailures,
           Roles, OneEach, Agrees, Looked
    <2>5. QED
        BY <2>1, <2>2, <2>3, <2>4
<1>14. ASSUME NEW s \in Sups, WakeFromBackoff(s)
      PROVE Rest'
    <2>1. Roles'
        BY <1>0, <1>14 DEF WakeFromBackoff,
           Roles
    <2>2. OneEach'
        BY <1>0, <1>14 DEF WakeFromBackoff,
           Roles, OneEach
    <2>3. Agrees'
        BY <1>0, <1>14 DEF WakeFromBackoff,
           Roles, OneEach, Agrees
    <2>4. Looked'
        BY <1>0, <1>14 DEF WakeFromBackoff,
           Roles, OneEach, Agrees, Looked
    <2>5. QED
        BY <2>1, <2>2, <2>3, <2>4
<1>15. ASSUME NEW s \in Sups, Leave(s)
      PROVE Rest'
    <2>1. Roles'
        BY <1>0, <1>15 DEF Leave, Forget,
           Roles
    <2>2. OneEach'
        BY <1>0, <1>15 DEF Leave, Forget,
           Roles, OneEach
    <2>3. Agrees'
        BY <1>0, <1>15 DEF Leave, Forget,
           Roles, OneEach, Agrees
    <2>4. Looked'
        BY <1>0, <1>15 DEF Leave, Forget,
           Roles, OneEach, Agrees, Looked
    <2>5. QED
        BY <2>1, <2>2, <2>3, <2>4
<1>16. ASSUME NEW c \in Calls, StartIfNotRunning(c)
      PROVE Rest'
    <2>1. Roles'
        BY <1>0, <1>16 DEF StartIfNotRunning, SpawnSupervisor,
           Roles
    <2>2. OneEach'
        BY <1>0, <1>16 DEF StartIfNotRunning, SpawnSupervisor,
           Roles, OneEach, Agrees
    <2>3. Agrees'
        <3>1. PICK t \in Sups :
                 /\ phase[t] = "idle"
                 /\ phase' = [phase EXCEPT ![t] = "checking"]
                 /\ serves' = [serves EXCEPT ![t] = call[c].plugin]
            <4>1. call[c].plugin \in Plugins
                BY <1>0, <1>16 DEF StartIfNotRunning, Roles
            <4>2. running[call[c].plugin] = NoSup
                BY <1>0, <1>16, <4>1 DEF StartIfNotRunning, OneEach
            <4>3. QED
                BY <1>16, <4>2 DEF StartIfNotRunning, SpawnSupervisor
        <3>2. call' = [call EXCEPT ![c] = NoCall]
              /\ UNCHANGED <<registry, staged, running, stopAsked, failed, exit>>
            BY <1>16 DEF StartIfNotRunning
        <3>3. \A s \in Sups : phase'[s] = "serving" => phase[s] = "serving" /\ s # t
            BY <3>1
        <3>4. \A d \in Calls : d # c => call'[d] = call[d]
            BY <3>2
        <3>5. \A s \in Sups : s # t => phase'[s] = phase[s] /\ serves'[s] = serves[s]
            BY <3>1
        <3>6. phase'[t] = "checking" /\ ~stopAsked[t]
            BY <1>0, <3>1 DEF Agrees
        <3>7. \A s \in Sups : phase'[s] = "serving" =>
                /\ running'[serves'[s]] = s
                /\ registry'[serves'[s]] # "enabled" =>
                    \/ stopAsked'[s]
                    \/ serves'[s] \in failed'
                    \/ \E d \in Calls : Stopping(d)' /\ call'[d].plugin = serves'[s]
            BY <1>0, <1>16, <3>2, <3>3, <3>4, <3>5 DEF Agrees, StartIfNotRunning
        <3>8. \A s \in Sups : stopAsked'[s] => s # t /\ stopAsked[s]
            BY <3>2, <3>6
        <3>9. \A s \in Sups : stopAsked'[s] =>
                /\ phase'[s] \in {"serving", "closing", "clean", "crashed", "leaving"}
                /\ exit' = "up" => registry'[serves'[s]] # "enabled"
            BY <1>0, <3>2, <3>5, <3>8 DEF Agrees
        <3>10. \A s \in Sups :
                 /\ phase'[s] \in {"spawning", "handshake"} => registry'[serves'[s]] = "enabled"
                 /\ phase'[s] \in {"closing", "clean", "leaving"} /\ exit' = "up" =>
                     registry'[serves'[s]] # "enabled"
            BY <1>0, <3>2, <3>5, <3>6 DEF Agrees
        <3>11. \A d \in Calls : call'[d].op \in {"stop", "stopRemove", "remove"} =>
                 registry'[call'[d].plugin] # "enabled"
            BY <1>0, <3>2, <3>4 DEF Agrees
        <3>12. \A p \in staged' : registry'[p] # "enabled"
            BY <1>0, <3>2 DEF Agrees
        <3>13. QED
            BY <3>7, <3>9, <3>10, <3>11, <3>12 DEF Agrees
    <2>4. Looked'
        BY <1>0, <1>16 DEF StartIfNotRunning, SpawnSupervisor,
           Roles, OneEach, Agrees, Looked
    <2>5. QED
        BY <2>1, <2>2, <2>3, <2>4
<1>17. ASSUME NEW c \in Calls, StopIfRunning(c)
      PROVE Rest'
    <2>1. Roles'
        BY <1>0, <1>17 DEF StopIfRunning,
           Roles
    <2>2. OneEach'
        BY <1>0, <1>17 DEF StopIfRunning,
           Roles, OneEach
    <2>3. Agrees'
        BY <1>0, <1>17 DEF StopIfRunning,
           Roles, OneEach, Agrees
    <2>4. Looked'
        BY <1>0, <1>17 DEF StopIfRunning,
           Roles, OneEach, Agrees, Looked
    <2>5. QED
        BY <2>1, <2>2, <2>3, <2>4
<1>18. ASSUME NEW c \in Calls, RemoveRecord(c)
      PROVE Rest'
    <2>1. Roles'
        BY <1>0, <1>18 DEF RemoveRecord,
           Roles
    <2>2. OneEach'
        BY <1>0, <1>18 DEF RemoveRecord,
           Roles, OneEach
    <2>3. Agrees'
        BY <1>0, <1>18 DEF RemoveRecord,
           Roles, OneEach, Agrees
    <2>4. Looked'
        BY <1>0, <1>18 DEF RemoveRecord,
           Roles, OneEach, Agrees, Looked
    <2>5. QED
        BY <2>1, <2>2, <2>3, <2>4
<1>19. ASSUME ExitBegins \/ ExitEnds
      PROVE Rest'
    <2>1. Roles'
        BY <1>0, <1>19 DEF ExitBegins, ExitEnds,
           Roles
    <2>2. OneEach'
        BY <1>0, <1>19 DEF ExitBegins, ExitEnds,
           Roles, OneEach
    <2>3. Agrees'
        BY <1>0, <1>19 DEF ExitBegins, ExitEnds,
           Roles, OneEach, Agrees
    <2>4. Looked'
        BY <1>0, <1>19 DEF ExitBegins, ExitEnds,
           Roles, OneEach, Agrees, Looked
    <2>5. QED
        BY <2>1, <2>2, <2>3, <2>4
<1>20. ASSUME ShutdownAll
      PROVE Rest'
    <2>1. Roles'
        BY <1>0, <1>20 DEF ShutdownAll,
           Roles
    <2>2. OneEach'
        BY <1>0, <1>20 DEF ShutdownAll,
           Roles, OneEach
    <2>3. Agrees'
        BY <1>0, <1>20 DEF ShutdownAll,
           Roles, OneEach, Agrees
    <2>4. Looked'
        BY <1>0, <1>20 DEF ShutdownAll,
           Roles, OneEach, Agrees, Looked
    <2>5. QED
        BY <2>1, <2>2, <2>3, <2>4
<1>21. ASSUME NEW c \in Calls, NEW p \in Plugins,
              Settled(p), MayEnable(p), SaveEnabled(c, p)
      PROVE Rest'
    <2>1. Roles'
        BY <1>0, <1>21 DEF SaveEnabled, Settled, MayEnable, Attending,
           Roles
    <2>2. OneEach'
        BY <1>0, <1>21 DEF SaveEnabled, Settled, MayEnable, Attending,
           Roles, OneEach, Agrees
    <2>3. Agrees'
        BY <1>0, <1>21 DEF SaveEnabled, Settled, MayEnable, Attending,
           Roles, OneEach, Agrees
    <2>4. Looked'
        BY <1>0, <1>21 DEF SaveEnabled, Settled, MayEnable, Attending,
           Roles, OneEach, Agrees, Looked
    <2>5. QED
        BY <2>1, <2>2, <2>3, <2>4
<1>27. ASSUME NEW p \in Plugins,
              Settled(p), MayEnable(p), EnableFails(p)
      PROVE Rest'
    <2>1. Roles'
        BY <1>0, <1>27 DEF EnableFails, SaveFails, Settled, MayEnable, Attending,
           Roles
    <2>2. OneEach'
        BY <1>0, <1>27 DEF EnableFails, SaveFails, Settled, MayEnable, Attending,
           Roles, OneEach, Agrees
    <2>3. Agrees'
        BY <1>0, <1>27 DEF EnableFails, SaveFails, Settled, MayEnable, Attending,
           Roles, OneEach, Agrees
    <2>4. Looked'
        BY <1>0, <1>27 DEF EnableFails, SaveFails, Settled, MayEnable, Attending,
           Roles, OneEach, Agrees, Looked
    <2>5. QED
        BY <2>1, <2>2, <2>3, <2>4
<1>28. ASSUME NEW p \in Plugins, Settled(p), DisableFails(p)
      PROVE Rest'
    <2>1. Roles'
        BY <1>0, <1>28 DEF DisableFails, SaveFails, Settled, Attending, Installed,
           Roles
    <2>2. OneEach'
        BY <1>0, <1>28 DEF DisableFails, SaveFails, Settled, Attending, Installed,
           Roles, OneEach, Agrees
    <2>3. Agrees'
        BY <1>0, <1>28 DEF DisableFails, SaveFails, Settled, Attending, Installed,
           Roles, OneEach, Agrees
    <2>4. Looked'
        BY <1>0, <1>28 DEF DisableFails, SaveFails, Settled, Attending, Installed,
           Roles, OneEach, Agrees, Looked
    <2>5. QED
        BY <2>1, <2>2, <2>3, <2>4
<1>22. ASSUME NEW c \in Calls, NEW p \in Plugins,
              Settled(p), Disable(c, p) \/ Uninstall(c, p)
      PROVE Rest'
    <2>0. PICK op \in {"stop", "stopRemove"} : SaveDisabled(c, p, op)
        BY <1>22 DEF Disable, Uninstall
    <2>1. Roles'
        BY <1>0, <1>22, <2>0 DEF SaveDisabled, Settled, Attending, Installed,
           Roles
    <2>2. OneEach'
        BY <1>0, <1>22, <2>0 DEF SaveDisabled, Settled, Attending, Installed,
           Roles, OneEach, Agrees
    <2>3. Agrees'
        BY <1>0, <1>22, <2>0 DEF SaveDisabled, Settled, Attending, Installed,
           Roles, OneEach, Agrees
    <2>4. Looked'
        BY <1>0, <1>22, <2>0 DEF SaveDisabled, Settled, Attending, Installed,
           Roles, OneEach, Agrees, Looked
    <2>5. QED
        BY <2>1, <2>2, <2>3, <2>4
<1>23. ASSUME NEW p \in Plugins,
              Settled(p), BeginInstall(p) \/ CancelInstall(p)
      PROVE Rest'
    <2>1. Roles'
        BY <1>0, <1>23 DEF BeginInstall, CancelInstall, Settled,
           Roles
    <2>2. OneEach'
        BY <1>0, <1>23 DEF BeginInstall, CancelInstall, Settled,
           Roles, OneEach, Agrees
    <2>3. Agrees'
        BY <1>0, <1>23 DEF BeginInstall, CancelInstall, Settled,
           Roles, OneEach, Agrees
    <2>4. Looked'
        BY <1>0, <1>23 DEF BeginInstall, CancelInstall, Settled,
           Roles, OneEach, Agrees, Looked
    <2>5. QED
        BY <2>1, <2>2, <2>3, <2>4
<1>24. ASSUME NEW p \in Plugins,
              Settled(p), CommitInstall(p) \/ InstallLocal(p)
      PROVE Rest'
    <2>1. Roles'
        BY <1>0, <1>24 DEF CommitInstall, InstallLocal, Settled, Attending,
           Roles
    <2>2. OneEach'
        BY <1>0, <1>24 DEF CommitInstall, InstallLocal, Settled, Attending,
           Roles, OneEach, Agrees
    <2>3. Agrees'
        BY <1>0, <1>24 DEF CommitInstall, InstallLocal, Settled, Attending,
           Roles, OneEach, Agrees
    <2>4. Looked'
        BY <1>0, <1>24 DEF CommitInstall, InstallLocal, Settled, Attending,
           Roles, OneEach, Agrees, Looked
    <2>5. QED
        BY <2>1, <2>2, <2>3, <2>4
<1>25. CASE UNCHANGED vars
    BY <1>0, <1>25 DEF vars, Roles, OneEach, Agrees, Looked
<1>26. Rest'
    BY <1>27, <1>28, <1>1, <1>2, <1>3, <1>4, <1>5, <1>6, <1>7, <1>8, <1>9, <1>10, <1>11, <1>12, <1>13, <1>14, <1>15, <1>16, <1>17, <1>18, <1>19, <1>20, <1>21, <1>22, <1>23, <1>24, <1>25
       DEF PatientNext, HostStep, PatientStep, SupProgress, CallProgress, ExitProgress
<1>29. QED
    BY <1>0, <1>26

LEMMA PInvAlways == PatientSpec => []PInv
BY InitPInv, NextPInv, PTL DEF PatientSpec

(* With a patient user no plugin ever has two processes, through crashes,
   backoff, disabling by failures, updates and uninstalls. *)
THEOREM PatientOneProcess == PatientSpec => []AtMostOneProcess
<1>1. PInv => AtMostOneProcess
    BY DEF PInv, IInv, TypeOK, Roles, OneEach, AtMostOneProcess
<1>2. QED
    BY <1>1, PInvAlways, PTL

(* With a patient user a process of a plugin that is not enabled has been told
   to stop by the time the call has returned without an error. *)
THEOREM PatientDisabledIsStopped == PatientSpec => []DisabledIsStopped
<1>1. PInv => DisabledIsStopped
    BY DEF PInv, IInv, TypeOK, Roles, Agrees, DisabledIsStopped, StoppedIfDisabled, Quiet, HearsStop, Stopping
<1>2. QED
    BY <1>1, PInvAlways, PTL

(* With a patient user an enabled plugin whose enabling returned no error always
   has a supervisor that is not on its way out. *)
THEOREM PatientEnabledIsSupervised == PatientSpec => []EnabledIsSupervised
<1>1. PInv => EnabledIsSupervised
    BY DEF PInv, IInv, TypeOK, Roles, Agrees, Looked, EnabledIsSupervised, Quiet, HearsStop,
           Attending, Starting
<1>2. QED
    BY <1>1, PInvAlways, PTL

-----------------------------------------------------------------------------
(***************************************************************************)
(* Every supervisor runs PluginRun: the refinement.                        *)
(***************************************************************************)

(* Tasks and processes: an idle task serves nobody, a process belongs to a run
   under way, a Shutdown waits only where a handle once was, and a call in
   flight is about a plugin. *)
Held ==
    /\ \A s \in Sups : phase[s] = "idle" <=> serves[s] = NoPlugin
    /\ \A s \in Sups : child[s] => phase[s] \in {"handshake", "serving", "closing"}
    /\ \A s \in Sups : stopAsked[s] =>
        phase[s] \in {"serving", "closing", "clean", "crashed", "leaving"}
    /\ \A c \in Calls : call[c].op # "none" => call[c].plugin \in Plugins

RInv == IInv /\ Held

LEMMA InitRInv == Init => RInv
BY InitIInv DEF RInv, Held, Init, NoCall

LEMMA NextRInv == RInv /\ [Next]_vars => RInv'
<1> SUFFICES ASSUME RInv, [Next]_vars PROVE RInv'
    OBVIOUS
<1>0. IInv'
    BY NextIInv DEF RInv
<1> USE PluginConstants DEF RInv, IInv, TypeOK, HandleOwned, Held, hostVars, Enter, NoCall
<1>1. ASSUME NEW s \in Sups, LoopRuns(s) PROVE Held'
    BY <1>1 DEF LoopRuns
<1>2. ASSUME NEW s \in Sups, LoopStops(s) PROVE Held'
    BY <1>2 DEF LoopStops
<1>3. ASSUME NEW s \in Sups, SpawnProcess(s) PROVE Held'
    BY <1>3 DEF SpawnProcess
<1>4. ASSUME NEW s \in Sups, SpawnFails(s) PROVE Held'
    BY <1>4 DEF SpawnFails
<1>5. ASSUME NEW s \in Sups, Register(s) PROVE Held'
    BY <1>5 DEF Register
<1>6. ASSUME NEW s \in Sups, InitializeFails(s) PROVE Held'
    BY <1>6 DEF InitializeFails
<1>7. ASSUME NEW s \in Sups, Crash(s) PROVE Held'
    BY <1>7 DEF Crash
<1>8. ASSUME NEW s \in Sups, BeginShutdown(s) PROVE Held'
    BY <1>8 DEF BeginShutdown
<1>9. ASSUME NEW s \in Sups, FinishShutdown(s) PROVE Held'
    BY <1>9 DEF FinishShutdown
<1>10. ASSUME NEW s \in Sups, AfterClean(s) PROVE Held'
    BY <1>10 DEF AfterClean
<1>11. ASSUME NEW s \in Sups, AfterCrash(s) PROVE Held'
    BY <1>11 DEF AfterCrash
<1>12. ASSUME NEW s \in Sups, DisableAfterFailures(s) PROVE Held'
    BY <1>12 DEF DisableAfterFailures
<1>13. ASSUME NEW s \in Sups, WakeFromBackoff(s) PROVE Held'
    BY <1>13 DEF WakeFromBackoff
<1>14. ASSUME NEW s \in Sups, Leave(s) PROVE Held'
    BY <1>14 DEF Leave
<1>15. ASSUME NEW p \in Plugins, StartAtBoot(p) PROVE Held'
    BY <1>15 DEF StartAtBoot, SpawnSupervisor
<1>16. ASSUME NEW c \in Calls, StartIfNotRunning(c) PROVE Held'
    BY <1>16 DEF StartIfNotRunning, SpawnSupervisor
<1>17. ASSUME NEW c \in Calls, StopIfRunning(c) PROVE Held'
    BY <1>17 DEF StopIfRunning
<1>18. ASSUME ShutdownAll PROVE Held'
    BY <1>18 DEF ShutdownAll
<1>19. ASSUME NEW c \in Calls, NEW p \in Plugins,
              SaveEnabled(c, p) \/ Disable(c, p) \/ Uninstall(c, p) \/ RemoveRecord(c) PROVE Held'
    BY <1>19 DEF SaveEnabled, Disable, Uninstall, SaveDisabled, RemoveRecord
<1>20. ASSUME NEW p \in Plugins,
              BeginInstall(p) \/ CancelInstall(p) \/ CommitInstall(p) \/ InstallLocal(p) PROVE Held'
    BY <1>20 DEF BeginInstall, CancelInstall, CommitInstall, InstallLocal
<1>21. ASSUME ExitBegins \/ ExitEnds \/ UNCHANGED vars PROVE Held'
    BY <1>21 DEF ExitBegins, ExitEnds, vars
<1>22. ASSUME NEW p \in Plugins, EnableFails(p) \/ DisableFails(p) PROVE Held'
    BY <1>22 DEF EnableFails, DisableFails, SaveFails
<1>25. ASSUME NEW c \in Calls, RemoveRecord(c) PROVE Held'
    BY <1>25 DEF RemoveRecord
<1>23. Held'
    BY <1>25, <1>1, <1>2, <1>3, <1>4, <1>5, <1>6, <1>7, <1>8, <1>9, <1>10, <1>11, <1>12, <1>13, <1>14, <1>15, <1>16, <1>17, <1>18, <1>19, <1>20, <1>21, <1>22
       DEF Next, HostStep, PageStep, SupProgress, CallProgress, ExitProgress
<1>24. QED
    BY <1>0, <1>23

LEMMA ChildOther ==
    ASSUME child \in [Sups -> BOOLEAN], NEW s \in Sups, NEW t \in Sups, t # s,
           NEW e \in BOOLEAN, child' = [child EXCEPT ![s] = e]
    PROVE  child'[t] = child[t]
BY Zenon

RunStep(t) == Run(t)!Next \/ UNCHANGED Run(t)!vars

(* A step that leaves a supervisor's phase and process alone asks it to stop or
   is a stutter of its run, as long as it takes no request back. *)
LEMMA Bystander ==
    ASSUME NEW t \in Sups, phase'[t] = phase[t], child'[t] = child[t],
           phase[t] \in {"serving", "closing"} /\ HearsStop(t) => HearsStop(t)'
    PROVE  RunStep(t)
<1>1. CASE phase[t] \in {"serving", "closing"} /\ ~HearsStop(t) /\ HearsStop(t)'
    BY <1>1 DEF RunStep, Run!Next, Run!Ask
<1>2. CASE ~(phase[t] \in {"serving", "closing"} /\ ~HearsStop(t) /\ HearsStop(t)')
    BY <1>2 DEF RunStep, Run!vars
<1>3. QED
    BY <1>1, <1>2

LEMMA NextRuns == RInv /\ RInv' /\ [Next]_vars => \A t \in Sups : RunStep(t)
<1> SUFFICES ASSUME RInv, RInv', [Next]_vars, NEW t \in Sups PROVE RunStep(t)
    OBVIOUS
<1> USE PluginConstants DEF RInv, IInv, TypeOK, HandleOwned, Held, hostVars, Enter, HearsStop
<1>1. ASSUME NEW s \in Sups, LoopRuns(s) PROVE RunStep(t)
    <2>1. CASE t # s
        BY <1>1, <2>1, Bystander DEF LoopRuns
    <2>2. CASE t = s
        BY <1>1, <2>2 DEF LoopRuns, RunStep, Run!Next, Run!Begin
    <2>3. QED
        BY <2>1, <2>2
<1>2. ASSUME NEW s \in Sups, LoopStops(s) PROVE RunStep(t)
    <2>1. CASE t # s
        BY <1>2, <2>1, Bystander DEF LoopStops
    <2>2. CASE t = s
        BY <1>2, <2>2 DEF LoopStops, RunStep, Run!vars
    <2>3. QED
        BY <2>1, <2>2
<1>3. ASSUME NEW s \in Sups, SpawnProcess(s) PROVE RunStep(t)
    <2>1. CASE t # s
        <3>1. child'[t] = child[t]
            BY <1>3, <2>1, ChildOther DEF SpawnProcess
        <3>2. phase'[t] = phase[t] /\ (HearsStop(t) => HearsStop(t)')
            BY <1>3, <2>1 DEF SpawnProcess
        <3>3. QED
            BY <3>1, <3>2, Bystander
    <2>2. CASE t = s
        BY <1>3, <2>2 DEF SpawnProcess, RunStep, Run!Next, Run!Spawn
    <2>3. QED
        BY <2>1, <2>2
<1>4. ASSUME NEW s \in Sups, SpawnFails(s) PROVE RunStep(t)
    <2>1. CASE t # s
        BY <1>4, <2>1, Bystander DEF SpawnFails
    <2>2. CASE t = s
        BY <1>4, <2>2 DEF SpawnFails, RunStep, Run!Next, Run!Spawn
    <2>3. QED
        BY <2>1, <2>2
<1>5. ASSUME NEW s \in Sups, Register(s) PROVE RunStep(t)
    <2>1. CASE t # s
        BY <1>5, <2>1, Bystander DEF Register
    <2>2. CASE t = s
        BY <1>5, <2>2 DEF Register, RunStep, Run!Next, Run!EndHandshake
    <2>3. QED
        BY <2>1, <2>2
<1>6. ASSUME NEW s \in Sups, InitializeFails(s) PROVE RunStep(t)
    <2>1. CASE t # s
        <3>1. child'[t] = child[t]
            BY <1>6, <2>1, ChildOther DEF InitializeFails
        <3>2. phase'[t] = phase[t] /\ (HearsStop(t) => HearsStop(t)')
            BY <1>6, <2>1 DEF InitializeFails
        <3>3. QED
            BY <3>1, <3>2, Bystander
    <2>2. CASE t = s
        BY <1>6, <2>2 DEF InitializeFails, RunStep, Run!Next, Run!EndHandshake
    <2>3. QED
        BY <2>1, <2>2
<1>7. ASSUME NEW s \in Sups, Crash(s) PROVE RunStep(t)
    <2>1. CASE t # s
        <3>1. child'[t] = child[t]
            BY <1>7, <2>1, ChildOther DEF Crash
        <3>2. phase'[t] = phase[t] /\ (HearsStop(t) => HearsStop(t)')
            BY <1>7, <2>1 DEF Crash
        <3>3. QED
            BY <3>1, <3>2, Bystander
    <2>2. CASE t = s
        BY <1>7, <2>2 DEF Crash, RunStep, Run!Next, Run!Crash
    <2>3. QED
        BY <2>1, <2>2
<1>8. ASSUME NEW s \in Sups, BeginShutdown(s) PROVE RunStep(t)
    <2>1. CASE t # s
        BY <1>8, <2>1, Bystander DEF BeginShutdown
    <2>2. CASE t = s
        BY <1>8, <2>2 DEF BeginShutdown, RunStep, Run!Next, Run!Close
    <2>3. QED
        BY <2>1, <2>2
<1>9. ASSUME NEW s \in Sups, FinishShutdown(s) PROVE RunStep(t)
    <2>1. CASE t # s
        <3>1. child'[t] = child[t]
            BY <1>9, <2>1, ChildOther DEF FinishShutdown
        <3>2. phase'[t] = phase[t] /\ (HearsStop(t) => HearsStop(t)')
            BY <1>9, <2>1 DEF FinishShutdown
        <3>3. QED
            BY <3>1, <3>2, Bystander
    <2>2. CASE t = s
        BY <1>9, <2>2 DEF FinishShutdown, RunStep, Run!Next, Run!FinishClosing
    <2>3. QED
        BY <2>1, <2>2
<1>10. ASSUME NEW s \in Sups, AfterClean(s) PROVE RunStep(t)
    <2>1. CASE t # s
        BY <1>10, <2>1, Bystander DEF AfterClean, Forget
    <2>2. CASE t = s
        BY <1>10, <2>2 DEF AfterClean, Forget, RunStep, Run!Next, Run!Return
    <2>3. QED
        BY <2>1, <2>2
<1>11. ASSUME NEW s \in Sups, AfterCrash(s) PROVE RunStep(t)
    <2>1. CASE t # s
        BY <1>11, <2>1, Bystander DEF AfterCrash, Forget
    <2>2. CASE t = s
        BY <1>11, <2>2 DEF AfterCrash, Forget, RunStep, Run!Next, Run!Return
    <2>3. QED
        BY <2>1, <2>2
<1>12. ASSUME NEW s \in Sups, DisableAfterFailures(s) PROVE RunStep(t)
    <2>1. CASE t # s
        BY <1>12, <2>1, Bystander DEF DisableAfterFailures
    <2>2. CASE t = s
        BY <1>12, <2>2 DEF DisableAfterFailures, RunStep, Run!vars
    <2>3. QED
        BY <2>1, <2>2
<1>13. ASSUME NEW s \in Sups, WakeFromBackoff(s) PROVE RunStep(t)
    <2>1. CASE t # s
        BY <1>13, <2>1, Bystander DEF WakeFromBackoff
    <2>2. CASE t = s
        BY <1>13, <2>2 DEF WakeFromBackoff, RunStep, Run!vars
    <2>3. QED
        BY <2>1, <2>2
<1>14. ASSUME NEW s \in Sups, Leave(s) PROVE RunStep(t)
    <2>1. CASE t # s
        BY <1>14, <2>1, Bystander DEF Leave, Forget
    <2>2. CASE t = s
        BY <1>14, <2>2 DEF Leave, Forget, RunStep, Run!vars
    <2>3. QED
        BY <2>1, <2>2
<1>15. ASSUME NEW p \in Plugins, StartAtBoot(p) PROVE RunStep(t)
    <2>1. CASE phase'[t] = phase[t]
        BY <1>15, <2>1, Bystander DEF StartAtBoot, SpawnSupervisor
    <2>2. CASE phase'[t] # phase[t]
        BY <1>15, <2>2 DEF StartAtBoot, SpawnSupervisor, RunStep, Run!vars
    <2>3. QED
        BY <2>1, <2>2
<1>16. ASSUME NEW c \in Calls, StartIfNotRunning(c) PROVE RunStep(t)
    <2>1. CASE phase'[t] = phase[t]
        BY <1>16, <2>1, Bystander DEF StartIfNotRunning, SpawnSupervisor
    <2>2. CASE phase'[t] # phase[t]
        BY <1>16, <2>2 DEF StartIfNotRunning, SpawnSupervisor, RunStep, Run!vars
    <2>3. QED
        BY <2>1, <2>2
<1>17. ASSUME NEW c \in Calls, StopIfRunning(c) PROVE RunStep(t)
    BY <1>17, Bystander DEF StopIfRunning
<1>18. ASSUME ShutdownAll PROVE RunStep(t)
    BY <1>18, Bystander DEF ShutdownAll
<1>19. ASSUME NEW c \in Calls, NEW p \in Plugins,
              SaveEnabled(c, p) \/ Disable(c, p) \/ Uninstall(c, p) PROVE RunStep(t)
    BY <1>19, Bystander DEF SaveEnabled, Disable, Uninstall, SaveDisabled
<1>20. ASSUME NEW c \in Calls, RemoveRecord(c) PROVE RunStep(t)
    BY <1>20, Bystander DEF RemoveRecord
<1>21. ASSUME NEW p \in Plugins,
              BeginInstall(p) \/ CancelInstall(p) \/ CommitInstall(p) \/ InstallLocal(p) PROVE RunStep(t)
    BY <1>21, Bystander DEF BeginInstall, CancelInstall, CommitInstall, InstallLocal
<1>22. ASSUME ExitBegins \/ ExitEnds \/ UNCHANGED vars PROVE RunStep(t)
    BY <1>22, Bystander DEF ExitBegins, ExitEnds, vars
<1>24. ASSUME NEW p \in Plugins, EnableFails(p) \/ DisableFails(p) PROVE RunStep(t)
    BY <1>24, Bystander DEF EnableFails, DisableFails, SaveFails
<1>23. QED
    BY <1>24, <1>1, <1>2, <1>3, <1>4, <1>5, <1>6, <1>7, <1>8, <1>9, <1>10, <1>11, <1>12, <1>13, <1>14, <1>15, <1>16, <1>17, <1>18, <1>19, <1>20, <1>21, <1>22
       DEF Next, HostStep, PageStep, SupProgress, CallProgress, ExitProgress

(* However the page, the exit and the other supervisors interfere, each
   supervisor runs process lifetimes as PluginRun describes them: it starts one
   only after the last one's process is down, and closes one only when asked. *)
THEOREM SupervisorsImplementRun == Spec => SupervisorsRun
<1>1. Init => \A s \in Sups : Run(s)!Init
    BY DEF Init, Run!Init
<1>2. Spec => []RInv
    BY InitRInv, NextRInv, PTL DEF Spec
<1>3. RInv /\ RInv' /\ [Next]_vars
        => [\A s \in Sups : Run(s)!Next \/ UNCHANGED Run(s)!vars]_vars
    BY NextRuns DEF RunStep
<1>4. QED
    BY <1>1, <1>2, <1>3, PTL DEF Spec, SupervisorsRun

=============================================================================
