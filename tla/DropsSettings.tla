---------------------------- MODULE DropsSettings ----------------------------
(***************************************************************************)
(* The drops settings and their three holders: the drops service, the      *)
(* settings the app stores (commands/drops.rs) and the plugin that runs    *)
(* drops automation (plugin_host/mod.rs).                                  *)
(*                                                                         *)
(* A save changes the service, then the stored settings, then starts a     *)
(* push.  A push is a task of its own: it finds the running plugins, reads *)
(* the service, waits for a catalogue, and hands what it read to one       *)
(* plugin after the other.  A plugin that has just started gets a push too.*)
(* An import replaces the stored settings beside all this.                 *)
(*                                                                         *)
(* A setting's value is the number of the save that wrote it.  What        *)
(* SettingsStore has as well is named for the drops settings here, so that *)
(* Settings_proofs can speak of both.                                      *)
(***************************************************************************)
EXTENDS Naturals, FiniteSets

CONSTANTS
    Savers,     \* calls that can be under way at once
    DropsKeys,       \* the top-level drops settings
    Plugins,    \* plugins granted drops.configure
    Pushes,     \* bound: pushes that can be under way at once
    MaxDropsSaves    \* bound: saves and imports in a behaviour

ASSUME DropsAssumption == MaxDropsSaves \in Nat

DropsValues == [DropsKeys -> Nat]
DropsDefaults == [k \in DropsKeys |-> 0]

VARIABLES
    service,    \* DropsService.settings
    stored,     \* AppState.settings.drops
    at,         \* where each saver's call stands
    named,      \* the settings its patch names (all of them: a whole save)
    next,       \* the settings it is saving; an import: what it read
    plug,       \* each plugin: "down", "registered" (its handle is) or "up"
    held,       \* the settings each plugin last took, and
    seen,       \* history: the newest of each setting it ever took
    push,       \* each push: "idle" (no such task), "spawned", "found" or
                \* "read"
    targets,    \* the plugins a push still has to reach
    carried,    \* the settings it read
    imported,   \* history: a backup has been imported
    dropsMade        \* the newest value a save or an import wrote

dropsVars == <<service, stored, at, named, next, plug, held, seen, push, targets,
          carried, imported, dropsMade>>
call == <<at, named, next>>
pushing == <<push, targets, carried>>
plugin == <<plug, held, seen>>

NewerOrSame(f, g) == \A k \in DropsKeys : f[k] >= g[k]
SaverAt(s, place) == at' = [at EXCEPT ![s] = place]

(* A call returns, and its locals end.                                      *)
SaverReturns(s) ==
    /\ SaverAt(s, "idle")
    /\ named' = [named EXCEPT ![s] = {}]
    /\ next' = [next EXCEPT ![s] = DropsDefaults]

(* DROPS_SETTINGS_WRITE is held from the first read to the last step.       *)
Saving(s) == at[s] \in {"read", "service", "stored", "push"}
LockFree == \A s \in Savers : ~Saving(s)

(* tokio::spawn of a push: it never waits, only the bound may make it.      *)
SpawnPush ==
    \E p \in Pushes :
        /\ push[p] = "idle"
        /\ push' = [push EXCEPT ![p] = "spawned"]
        /\ UNCHANGED <<targets, carried>>

(* Pushes whose targets are `left` go on: one with nobody to reach ends.    *)
Leave(left) ==
    LET Ends(p) == targets[p] # {} /\ left[p] = {}
    IN /\ targets' = left
       /\ push' = [p \in Pushes |-> IF Ends(p) THEN "idle" ELSE push[p]]
       /\ carried' = [p \in Pushes |-> IF Ends(p) THEN DropsDefaults ELSE carried[p]]

DropsInit ==
    /\ service = DropsDefaults /\ stored = DropsDefaults
    /\ at = [s \in Savers |-> "idle"]
    /\ named = [s \in Savers |-> {}]
    /\ next = [s \in Savers |-> DropsDefaults]
    /\ plug = [q \in Plugins |-> "down"]
    /\ held = [q \in Plugins |-> DropsDefaults]
    /\ seen = [q \in Plugins |-> DropsDefaults]
    /\ push = [p \in Pushes |-> "idle"]
    /\ targets = [p \in Pushes |-> {}]
    /\ carried = [p \in Pushes |-> DropsDefaults]
    /\ imported = FALSE /\ dropsMade = 0

-----------------------------------------------------------------------------
(* Saves *)

(* patch_drops_settings names some settings, update_drops_settings all.     *)
BeginSave(s, ks) ==
    /\ at[s] = "idle" /\ LockFree /\ dropsMade < MaxDropsSaves
    /\ named' = [named EXCEPT ![s] = ks]
    /\ SaverAt(s, "read")
    /\ UNCHANGED <<imported, service, stored, next, plugin, pushing, dropsMade>>

(* A patch laid over the copy its window last sent.                         *)
ApplyOlder(s) ==
    /\ at[s] = "read" /\ dropsMade < MaxDropsSaves
    /\ dropsMade' = dropsMade + 1
    /\ next' = [next EXCEPT ![s] =
                  [k \in DropsKeys |-> IF k \in named[s] THEN dropsMade + 1 ELSE next[s][k]]]
    /\ SaverAt(s, "service")
    /\ UNCHANGED <<imported, service, stored, named, plugin, pushing>>

(* A patch is applied onto the copy the service holds.                      *)
ApplyPatch(s) ==
    /\ at[s] = "read" /\ dropsMade < MaxDropsSaves
    /\ dropsMade' = dropsMade + 1
    /\ next' = [next EXCEPT ![s] =
                  [k \in DropsKeys |-> IF k \in named[s] THEN dropsMade + 1 ELSE service[k]]]
    /\ SaverAt(s, "service")
    /\ UNCHANGED <<imported, service, stored, named, plugin, pushing>>

(* A patch that does not make valid settings is refused.                    *)
RefusePatch(s) ==
    /\ at[s] = "read"
    /\ SaverReturns(s)
    /\ UNCHANGED <<imported, service, stored, plugin, pushing, dropsMade>>

(* A save that only the running service hears of.                           *)
UpdateServiceOnly(s) ==
    /\ at[s] = "service"
    /\ service' = next[s]
    /\ SaverAt(s, "push")
    /\ UNCHANGED <<imported, stored, named, next, plugin, pushing, dropsMade>>

UpdateService(s) ==
    /\ at[s] = "service"
    /\ service' = next[s]
    /\ SaverAt(s, "stored")
    /\ UNCHANGED <<imported, stored, named, next, plugin, pushing, dropsMade>>

UpdateStored(s) ==
    /\ at[s] = "stored"
    /\ stored' = next[s]
    /\ SaverAt(s, "push")
    /\ UNCHANGED <<imported, service, named, next, plugin, pushing, dropsMade>>

PushSaved(s) ==
    /\ at[s] = "push"
    /\ SpawnPush
    /\ SaverReturns(s)
    /\ UNCHANGED <<imported, service, stored, plugin, dropsMade>>

(* apply_imported_settings copies the settings, lays the backup over the    *)
(* copy (its drops settings when it holds them) and stores the result,      *)
(* without the lock of the drops saves and without the service.             *)
BeginImport(s) ==
    /\ at[s] = "idle" /\ dropsMade < MaxDropsSaves
    /\ next' = [next EXCEPT ![s] = stored]
    /\ SaverAt(s, "merge")
    /\ UNCHANGED <<imported, service, stored, named, plugin, pushing, dropsMade>>

Import(s, holds) ==
    /\ at[s] = "merge" /\ dropsMade < MaxDropsSaves
    /\ dropsMade' = dropsMade + 1
    /\ imported' = TRUE
    /\ stored' = IF holds THEN [k \in DropsKeys |-> dropsMade + 1] ELSE next[s]
    /\ SaverReturns(s)
    /\ UNCHANGED <<service, plugin, pushing>>

-----------------------------------------------------------------------------
(* Pushes *)

FindPlugins(p) ==
    /\ push[p] = "spawned"
    /\ targets' = [targets EXCEPT ![p] = {q \in Plugins : plug[q] # "down"}]
    /\ push' = [push EXCEPT ![p] = IF targets'[p] = {} THEN "idle" ELSE "found"]
    /\ UNCHANGED <<imported, service, stored, call, plugin, carried, dropsMade>>

(* After it the push awaits evolution_bases with these settings in hand.    *)
ReadService(p) ==
    /\ push[p] = "found"
    /\ carried' = [carried EXCEPT ![p] = service]
    /\ push' = [push EXCEPT ![p] = "read"]
    /\ UNCHANGED <<imported, service, stored, call, plugin, targets, dropsMade>>

(* A plugin takes the settings; one push serves its plugins in turn.        *)
Configure(p, q) ==
    /\ push[p] = "read" /\ q \in targets[p]
    /\ held' = [held EXCEPT ![q] = carried[p]]
    /\ seen' = [seen EXCEPT ![q] =
                  [k \in DropsKeys |-> IF @[k] >= carried[p][k] THEN @[k] ELSE carried[p][k]]]
    /\ Leave([targets EXCEPT ![p] = @ \ {q}])
    /\ UNCHANGED <<imported, service, stored, call, plug, dropsMade>>

-----------------------------------------------------------------------------
(* Plugins (external: PluginLifecycle) *)

Register(q) ==
    /\ plug[q] = "down"
    /\ plug' = [plug EXCEPT ![q] = "registered"]
    /\ UNCHANGED <<imported, service, stored, call, held, seen, pushing, dropsMade>>

(* A plugin that starts and is told nothing.                                *)
StartedUntold(q) ==
    /\ plug[q] = "registered"
    /\ plug' = [plug EXCEPT ![q] = "up"]
    /\ UNCHANGED <<imported, service, stored, call, held, seen, pushing, dropsMade>>

PushStarted(q) ==
    /\ plug[q] = "registered"
    /\ SpawnPush
    /\ plug' = [plug EXCEPT ![q] = "up"]
    /\ UNCHANGED <<imported, service, stored, call, held, seen, dropsMade>>

(* A plugin that ends takes its command channel with it: the pushes on      *)
(* their way to it find it closed.                                          *)
GoDown(q) ==
    /\ plug[q] # "down"
    /\ plug' = [plug EXCEPT ![q] = "down"]
    /\ held' = [held EXCEPT ![q] = DropsDefaults]
    /\ seen' = [seen EXCEPT ![q] = DropsDefaults]
    /\ Leave([p \in Pushes |-> targets[p] \ {q}])
    /\ UNCHANGED <<imported, service, stored, call, dropsMade>>

SaverStep(s) == ApplyPatch(s) \/ UpdateService(s) \/ UpdateStored(s) \/ PushSaved(s)
PushStep(p) == FindPlugins(p) \/ ReadService(p) \/ \E q \in Plugins : Configure(p, q)

DropsNext ==
    \/ \E s \in Savers :
          \/ \E ks \in SUBSET DropsKeys \ {{}} : BeginSave(s, ks)
          \/ SaverStep(s) \/ RefusePatch(s)
          \/ BeginImport(s)
          \/ \E holds \in BOOLEAN : Import(s, holds)
    \/ \E p \in Pushes : PushStep(p)
    \/ \E q \in Plugins : Register(q) \/ PushStarted(q) \/ GoDown(q)

DropsSpec == DropsInit /\ [][DropsNext]_dropsVars

(* Tasks that may run do run, and a plugin that runs answers.  What spawns  *)
(* a push is strongly fair, for only the bound on pushes ever blocks it.    *)
DropsFairSpec ==
    /\ DropsSpec
    /\ \A s \in Savers : WF_dropsVars(SaverStep(s)) /\ SF_dropsVars(PushSaved(s))
    /\ \A p \in Pushes : WF_dropsVars(PushStep(p))
    /\ \A q \in Plugins : SF_dropsVars(PushStarted(q))

-----------------------------------------------------------------------------
(* Types: one save at a time holds the lock, and a push that still has to   *)
(* read or to hand over has somebody to reach.                              *)
DropsTypeOK ==
    /\ service \in DropsValues /\ stored \in DropsValues
    /\ at \in [Savers -> {"idle", "merge", "read", "service", "stored", "push"}]
    /\ \A s, u \in Savers : Saving(s) /\ Saving(u) => s = u
    /\ named \in [Savers -> SUBSET DropsKeys]
    /\ next \in [Savers -> DropsValues]
    /\ plug \in [Plugins -> {"down", "registered", "up"}]
    /\ held \in [Plugins -> DropsValues] /\ seen \in [Plugins -> DropsValues]
    /\ push \in [Pushes -> {"idle", "spawned", "found", "read"}]
    /\ targets \in [Pushes -> SUBSET Plugins]
    /\ \A p \in Pushes : push[p] \in {"found", "read"} <=> targets[p] # {}
    /\ carried \in [Pushes -> DropsValues]
    /\ imported \in BOOLEAN
    /\ dropsMade \in 0..MaxDropsSaves

(* Before an import the service and the stored settings agree whenever no   *)
(* save is between them: what the automation acts on is what survives a     *)
(* restart (save_drops_settings).                                           *)
CopiesAgree == (LockFree /\ ~imported) => service = stored

(* A running plugin has taken every setting of the latest save, or what     *)
(* will bring it is under way: no order of starting, saving and pushing     *)
(* leaves a plugin out (register, then push; change the service, then push).*)
Bringing(p, q) ==
    \/ push[p] = "spawned"
    \/ push[p] = "found" /\ q \in targets[p]
    \/ push[p] = "read" /\ q \in targets[p] /\ NewerOrSame(carried[p], service)

NoPluginMissed ==
    \A q \in Plugins : plug[q] = "up" =>
        \/ NewerOrSame(seen[q], service)
        \/ \E s \in Savers : at[s] \in {"stored", "push"}
        \/ \E p \in Pushes : Bringing(p, q)

(* A plugin that stays up comes to hold settings as new as the service's    *)
(* were when it started.                                                    *)
ConfiguredInTheEnd ==
    \A q \in Plugins : \A n \in 0..MaxDropsSaves :
        (plug[q] = "up" /\ \A k \in DropsKeys : service[k] >= n)
            ~> (plug[q] = "down" \/ \A k \in DropsKeys : seen[q][k] >= n)

(* "so overlapping pushes all carry the latest copy": with nothing under    *)
(* way, a running plugin acts on the latest settings.                       *)
Quiet == LockFree /\ \A p \in Pushes : push[p] = "idle"
PluginOnLatest == Quiet => \A q \in Plugins : plug[q] = "up" => held[q] = service

(* Before an import, a patch that stores its result leaves every setting it *)
(* does not name as it was stored, whatever other saves were under way.     *)
KeepsOthers(s) ==
    UpdateStored(s) => \A k \in DropsKeys \ named[s] : stored'[k] = stored[k]

PatchChangesNamed == [][~imported => \A s \in Savers : KeepsOthers(s)]_dropsVars

(* "Changes only the named top-level drops settings, applied onto the copy  *)
(* Rust holds": after an import too (it never reaches the service's copy).  *)
PatchKeepsImports == [][\A s \in Savers : KeepsOthers(s)]_dropsVars
=============================================================================
