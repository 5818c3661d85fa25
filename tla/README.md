# StreamNook: models, checks and proofs

StreamNook is a desktop and mobile client for Twitch, YouTube, Kick and TikTok:
a Rust core on Tauri (`src-tauri/src`) and a React page (`src`). The core is a
set of long-lived asynchronous services that share state behind locks; what can
go wrong in it is mostly a matter of order: two page calls, a task and a timer,
a process that dies between two steps. This directory holds TLA+ models of the
core's services, translated from the Rust source, the TLC runs that check them
on small instances, and TLAPS proofs for every value of the constants.

## 1. Inventory

| Component | State | Operations | Interacts with | What is hard | What makes it correct |
| --- | --- | --- | --- | --- | --- |
| Plugin host: supervision (`plugin_host/mod.rs`, `process.rs`, `registry.rs`) | the registry of installed plugins, the map of running handles, a supervisor task per start, staged installs, the exit flag | startup, enable, disable, install, commit, cancel, uninstall, spawn, register, crash, back off, disable after failures, exit | the page's commands; one process session per supervisor; the app's exit | two locks never held together; a supervisor that registers long after it was spawned; handles removed by plugin id | at most one process, a disabled plugin stops, an enabled one runs, handles are never dead, failures end in a disabled plugin |
| Plugin host: process session (`process.rs`, `transport.rs`) | the pipe, the command channel, pending requests, ping misses | handshake, event write, request, ping, shutdown, reap | the plugin process; the supervisor | writes without a timeout behind one mutex, requests that outlive the loop, overlapping pings | no event doubled or out of order, frames in order, the process is down when the run is over, hung plugins are noticed |
| Plugin host: broker (`broker.rs`, `registry.rs`, `PluginRuntimeBridge.tsx`) | consent states, pending prompts, the prompt on the page | get_credential, consent answers, revoke, reset, notify | registry, page, plugin | a prompt that outlives a revocation or a sign-out; its time limit racing the answer; saves that fail | nothing is handed over after the viewer's last word was no; every open prompt is a waiting call's |
| Plugin host: settings push, stream events (`mod.rs`) | active channel | push_drops_settings, report_stream_event | drops settings, running plugins | settings read before an await and sent after it | a plugin ends with the latest settings |
| Settings store (`commands/settings.rs`, `settings_backups.rs`, `lib.rs`) | the settings in memory, the dirty flag, settings.json, daily copies | patch, favorites, complete_setup, import, flush, load, recover | every service through the after-save hooks; the exit; the phone's background | many writers of one file, a flag cleared before the write it stands for, a file emptied before it is written | no save undone or forgotten, services on the latest settings, a crash costs at most the last seconds |
| Drops settings (`commands/drops.rs`, `drops_service.rs`) | the service's copy, the stored copy | update, patch, push | settings store, plugin host | two copies under two locks; pushes that overlap | the copies agree, a patch changes what it names, no plugin is left out |
| Chat send limiter (`chat_send_limiter.rs`) | counted sends, booked slots, room modes, roles | book, record, note room state and badges, reset | chat_service, reminders, bursts, IRC reader | bookings out of order across channels and roles, typed messages in between | a booking never overfills a window, spacing, duplicates refused |
| IRC connection (`irc_service.rs`) | claims of windows on channels, desired channels, join tracker, session tasks | join, leave, nudge, connect, reconnect, JOIN burst and pacing, watchdog, stop | page windows, chat bridge, limiter | a JOIN lost or late, leave racing join, stop racing reconnect | a claimed channel is desired, asked for and followed; only channels nobody holds are parted; a channel believed joined is |
| Chat bursts, reminders | running jobs | start, stop | limiter | cancelling between wait and send | stopped jobs send nothing |
| App exit and windows (`app_exit.rs`, `lib.rs`) | tray and reveal flags | close, show, destroy | windows | flags read after windows change | the app ends only when the user put it away |
| Go-live alerts (`live_poll.rs`, `android_notify.rs`, the phone's workers) | announced broadcasts, push proof | poll, push, sighting | server, notifications, settings | two lanes, repeated pushes, a kill between record and post | no broadcast announced twice, a live one announced in the end |
| Token vault (`token_vault/`) | sealed files, cookie mirrors, the file's key, the system's key store | store, load, remove, migrate, retire the key file | auth services | a key deleted under a credential, a store that does not answer, the end of the process between any two file accesses | the last sign-in stays readable; nothing in plaintext is left |
| Watch session, minutes, heartbeats | who watches what | start, stop, tick | player, Twitch | ticks racing with stops | minutes credited once |
| Auth sessions | cached session, logged-out flag | harvest, logout, switch | webviews, limiter | a harvest racing with a logout | no session after a logout |
| EventSub, 7TV, points sockets | subscriptions, connections | connect, subscribe, reconnect | Twitch, 7TV | reconnect hand-over, budgets | nothing missed, nothing doubled |
| Mentions and whispers | inboxes | receive, read, store | IRC, server watcher | duplicates from two lanes | one entry per message |
| Caches, relay and playback, casting, watchdogs, providers, commands, platform shims, frontend, vendored code | | | | mostly I/O, parsing, media or presentation | not modelled; see section 7 |

## 2. Plan

Written, in this order (the most important behaviour first):

1. `PluginRun` (abstract), `PluginLifecycle`, `PluginSession`: the plugin host,
   the part with the most actors, restarts and timeouts. Both detailed modules
   implement `PluginRun`.
2. `SendBudget` (abstract), `ChatSendLimiter`: the promise about Twitch's
   rolling window and the code that is proved to keep it.
3. `SettingsStore`: memory, flag, file and copies, with crashes.
4. `DropsSettings`: three holders of one piece of state.
5. `IrcJoin`: claims, desired channels, sessions and a server that loses JOINs.
6. `TokenVault`: files, keys and a migration, with the end of the process at any step.
7. `PluginBroker`: consent and the tasks that wait for it.
8. `LivePoll`: two lanes over one record of announced broadcasts.

Next, in this order:

| Module | Models | Composes with | Properties | Theorems |
| --- | --- | --- | --- | --- |
| `IrcSession` | the session supervisor, reconnect and stop (1868-2198, 5781-5830) | `IrcJoin` | one connection at a time, no frame of an old session reaches a new one, stop ends it | one session |
| `ChatStanding` | the limiter's own-sub and follow knowledge (`chat_send_limiter.rs`, `irc_service.rs` 811-865, 1246-1280) | `ChatSendLimiter` | a stale answer of an earlier account or room changes nothing | as checked |
| `AppExit` | tray, reveal and popout flags | | the app ends only when nothing is left to show | as checked |

The project keeps its runs to a dozen and its properties to forty: a new module takes the
place of a run that asks less.

Theorems still worth proving: types and safety of the planned modules. (`NothingForgotten` for
another writer beside the flusher is not one: `SettingsImportWrite` shows that it fails.)

## 3. Modules and code

`map` in `PROJECT.json` gives the lines of every definition. A step is what a
task does between two awaits (or two lock holds) at which another task may change
what it reads. Definitions with a comment that describes another behaviour than the
code's, each above the one it is a variant of (`TakeHooksUnlocked`, `StartedUntold`, and
those marked "Variant"), are the mutants of `PROJECT.json`; no specification uses them.

**PluginRun** is the life of one supervisor as an outsider sees it: waiting, a
process that starts, serves, is asked to stop, closes, crashes, and the return.

**PluginLifecycle** has one variable per piece of host state: `registry` (what
registry.json says), `staged` (installs awaiting consent), `running` (the map of
handles), and per supervisor task `phase`, `serves`, `stopAsked` (the Shutdown
waiting in its channel), `child`, `restarts`. The two halves of `set_enabled` (save
the registry, then look at `running`) are two steps, because no lock spans them. A save that fails
ends the call between the two, with the change in memory (`SaveFails`, `EnableFails`,
`DisableFails`); `failed`, which is history, has the plugins whose last call ended so.
`SupervisorsRun` maps each supervisor to a `PluginRun`.

**PluginSession** opens up `run_once`: `inbox` is the command channel, `pipe` the
frames in the plugin's stdin, `pings`/`misses` the health pings, `action` an
`invoke_action`. A write is possible only while the pipe has room, and has no timeout,
as in `write_frame`; it fails when the process is dead or has closed its stdin, and for a payload
above the limit of a frame (`EventTooLarge`, `ActionTooLarge`). The plugin (external) reads,
answers, ignores, stops reading, closes its stdin, dies. What it asks of the host, whose responses
go through the same writer, is left out.

**SendBudget** says only: a booking fits its own window and every window that ends
at a later booking. **ChatSendLimiter** is the limiter itself, with the loop of
`earliest` as a recursive function (`Settle`: out of a full window at its oldest
message, past the messages a booking would overfill, `Blocking`); `InsertSend`, `Kept`, `Claim` and `CountNow` are
`insert_send`, `prune` and the two arms of `record`. Jobs sleep between `Acquire`
and `SendPaced`, which is where everything interleaves. `n`, `channel`, `gap` and
`paced` of an entry, `made` and `delivered` are history that no guard reads.

**SettingsStore** has `mem` (the settings in memory), `dirty`, `file` (none, torn,
or loads), `copy`/`copied`/`due` (the newest daily copy), `applied` (what the
hooks last gave the services) and a place `pc` per thread. `fs::write` is three
steps (empty, write, then the daily copy), since the process may end between
them and another thread may write the same file. A value is the number of the
save that wrote it, so "undone" is "smaller". A file cut by a crash is "torn", which a start
repairs from the copy, or "garbled": cut inside a character, so that `read_to_string` fails and the
start goes to the defaults; `astray` marks what memory is from such a start to the next copy.
`marked`, `owed` and `finished` are history.

**DropsSettings** has `service` and `stored` (the two copies), the savers' calls
(`at`, `named`, `next`), the pushes (`push`, `targets`, `carried`; a finished push
makes room for another) and the plugins (`plug`, `held`). `seen` and `imported` are history.
Names it shares with the settings store begin with `Drops`, since one module proves both. `ReadService` and `Configure` are two steps
because `push_drops_settings` awaits `evolution_bases` and each plugin in between.

**IrcJoin** follows one channel or several through the books of `irc_service.rs`: `claims`
(`CHANNEL_CONSUMERS`), `desired` (`CURRENT_CHANNELS`), `pending`, `nudged` and `confirmed`
(`JoinTracker`), the session (`stage`, `writer`, `link`, `burst`), the `watch`dog, and the
server (`wire`, `inbound`, `inRoom`), which may lose a JOIN, answer late or refuse. The watchdog's
round is several steps: it lists what is overdue, takes a channel's pending entry away, and then
drops the session or, within its cooldown, leaves the channel to the next one; `deferred` is
history: the channels left so. A call
of a window is a record with the name of its next step, one per lock it takes. The notice
of a suspended channel, which takes two locks in a row (3056-3057), is one step; deadlines
are nondeterministic. In `PatientSpec` the windows take turns and a channel that was left is
quiet before it is entered again.

**TokenVault** has one step per file access or look at a key, so that the process may end
between any two. `file` is each credential's form, whether a key of this install sealed it,
and a number that is higher for a later sign-in; `jars` are the plaintext mirrors, `keyFile`
the file's key, `ready` and `cached` what this run has of the two keys. The migration is a
thread beside the services. Any access may fail (`WriteFails`, `ListFails`). In `PatientSpec`
services take turns on a credential, and nobody signs out before the migration is over (that
nobody else begins before is the code's own doing, `ensure_migrated`).

**PluginBroker** models `get_credential` as the task of its own that it is: it looks at the
consent, reads the token, opens a prompt, waits, records the answer and hands over. The
page shows one prompt; its answer travels (`reply`) while the wait may run out. A prompt
appears when it is emitted; a save of the registry is one step, since its lock is held
across it; there is one kind of credential. In `PatientSpec` the viewer changes his mind only
once a "don't ask again" has been noted. `word` is history: what stands last about a plugin, the
viewer's "yes" or "no", or "granted" when the consent in the record is an install's, an update's
or a legacy record's and not an answer of his.

**LivePoll** is Android's side of `live_poll.rs`: workers ask Twitch, then decide over
`record` (notify_state.json) under `STATE_LOCK`, then post; the push receiver claims and
posts. What happens under the lock is one step. A record whose write was cut off loads as
an empty one. Broadcasts of a channel are numbered; ages are abstracted to "no push and no
answer is as old as the time a record keeps" (`SHOWN_TTL_SECS`, a week), which also leaves out a
channel that is live, and muted or missing from the list, for a week. In `PatientSpec` no
broadcast begins between Twitch's answer and the decision about it. `told`, `silent` and
`early` are history.

## 4. Runs

All runs but `live_poll` switch the deadlock check off: every bound on a history (`MaxMade`,
`MaxSaves`, `MaxEvents`, ...) ends a behaviour, and an exited app or an idle limiter
at its horizon is meant to stand still. What must not stand still is stated as liveness.
Types are proved for every module (section 6), so only the runs whose types say most check them.

| Run | Instance and bounds | Shows |
| --- | --- | --- |
| `lifecycle` | 1 plugin, 2 supervisors, 1 call, restart budget 1 | a handle always belongs to a live run of its plugin; every supervisor refines `PluginRun`; stops take effect, displaced supervisors stop |
| `lifecycle_patient` | 2 plugins, 2 supervisors, 2 calls, saves of the registry that fail | with a user who lets a plugin settle: one process; and where the last call returned no error, a disabled one is told to stop and an enabled one is supervised |
| `session` | a pipe of 8 frames, 1 ping on its way, 2 events, 1 miss | frame order, events once and in order; while the pipe has room (it never fills here): a hung plugin is noticed, actions are answered, every lifetime implements `PluginRun` with its fairness: asked, it ends, and the process is down |
| `send_limiter` | 2 jobs, 2 channels, 2 texts, budgets 1 and 2, window 3, horizon 3, 3 messages, 1 change of role, room mode or account | implements `SendBudget`: no overfull window; covers what went out, never waits needlessly |
| `settings_patches` | 2 callers, 3 keys, 3 saves, 1 failed write, 1 crash | with the flusher as the only writer: no save forgotten; no start loses what a copy keeps, unless from a garbled file; the file comes to hold what memory holds |
| `settings_kinds` | 2 callers, 2 saves (patches and imports in every combination) beside the end of the setup, phone flushes and an exit | hooks follow whatever wrote |
| `drops_settings` | 2 savers, 2 keys, 1 plugin, 2 saves or imports, 2 pushes at a time | until an import copies agree and patches change what they name; no plugin missed; a plugin that stays comes to hold the settings |
| `irc_join` | 2 windows, 1 channel, 2 attempts, 2 faults, 2 unread frames | windows taking turns: a claimed channel is desired, a channel believed joined is joined, no held channel is parted; a claimed channel is joined or its JOIN is followed, unless Twitch suspended it or the watchdog gave it up |
| `token_vault` | 2 credentials (one the migration knows by name), 2 services, 2 sign-ins, 2 failing accesses of the disk, 2 ends | services taking turns: the last sign-in stays readable; once migrated, if no access failed, no legacy file and no mirror is left |
| `plugin_broker` | 1 plugin, 2 calls, 2 words outside prompts, 1 failed save, 1 end | an open prompt is a waiting call's; the host keeps what was said last, by the viewer or by an install; nothing is handed over after a revocation until he agrees or an install grants it again |
| `plugin_consent` | 1 plugin, 2 calls, 2 words | a violation: `FirstRequestPrompts`, see below |
| `live_poll` | 1 channel, 2 workers, 2 broadcasts, 1 upset (a mute, a failed or torn write, or a kill) | a broadcast is announced once, also if its push comes twice; a live channel that is not muted is announced in the end |

Why these are enough: every race in this code is between two actors (two calls, a
call and a supervisor, a saver and a pusher, a flusher and a direct writer), so two
of each kind meet in every order (one call, two supervisors and the host's own exit in
`lifecycle`, whose other call `lifecycle_patient` and the proofs have), and a third save or message is there where a
property compares an earlier and a later one with the present. The faults of `irc_join` are as many
as its attempts, so that the watchdog does run out of them. One channel is enough for
`irc_join` and `live_poll`: their books keep each channel apart, and what two channels share (the
session, the lock) the second channel would only hold up; the IRC proofs are for any number. The restart budget, miss limit, window and
spacings are small so that they are reached and passed.

The one finding (`plugin_consent`): `CAPABILITIES.md:37` says that "Granting the capability at
install does not hand over the credential; the first actual request triggers its own prompt", 68
that this consent is "independent of install-time grants", and `DEVELOPER_GUIDE.md:438` the same.
`record_from_manifest` (`install.rs:413-421`) enters `"always"` for every credential of what it
installs or updates, over a revocation too, and says why ("Enabling the plugin is the grant"); a
legacy `"ask"` is upgraded likewise (`mod.rs:265`). The first request is then served without a
prompt. The two other broker properties therefore say what the code keeps: a revocation stands
until the viewer agrees or an install grants.

Further configurations, for use by hand (`tlc -config <cfg> <module>`, the MC module where
there is one): each but `IrcHeard` ends in a counterexample, where the code and the words beside it
part, or where a property needs the patience its run assumes. Three hold several properties: exchange
the last lines.

| Configuration | Property | What happens |
| --- | --- | --- |
| `PluginRaces` | `DisabledIsStopped` | a plugin disabled during its handshake serves on ("Disabling a plugin shuts its process down", `CAPABILITIES.md`) |
| | `EnabledIsSupervised` | one enabled again while its old process closes stays without a process |
| | `ExitSeesProcesses` | the exit does not wait for a process in its handshake |
| `PluginSaveFails` | `RegistryIsObeyed` | a save of the registry that fails (`mod.rs:656`) leaves a plugin disabled in memory and its process serving, patient user or not |
| `PluginHungPipe` | `HungIsNoticed` | not once the plugin's pipe is full: the loop waits inside an event write |
| `PluginBrokerRevoke` | `LastWordHolds` | a revocation while an "always" is being recorded is overwritten ("takes effect immediately", `CAPABILITIES.md:78`) |
| `PluginBrokerPrompts` | `PromptIsShown` | a second prompt hides the first, which then waits out its time |
| | `HandedIsCurrent` | the token read before the prompt is handed over after a sign-out |
| `ChatLimitStated` | `NeverOverBudget` | a privileged booking at the very instant of a viewer's send overfills its window |
| | `SpacedAfterTyped` | a typed message that claims a left-over slot does not space the next paced one |
| | `NoRepeat` | an older record sets the last text back |
| `SettingsGarbled` | `CopyAlwaysKept` | a file cut inside a character is not rebuilt from the copy ("A file that no longer loads is rebuilt from the newest daily copy", `lib.rs:414`; the error of `read_to_string` at 411 goes past it) |
| `SettingsSetup` | `WizardStaysDone` | `complete_setup` answers before the flusher has written |
| `SettingsExit` | `ExitKeepsSaves` | the exit ends the app while the flusher holds the flag ("Called on every exit path so a pending debounced write can never be lost", `settings.rs:96`); without `"tick"` in its `Kinds` it holds |
| `SettingsImportWrite` | `NothingForgotten` | a flusher and an import write the file at once, and the older snapshot stays |
| `SettingsImportMerge` | `NoSaveUndone` | an import undoes a save made while it merged |
| `DropsImport` | `PatchKeepsImports` | a patch reverts what an import just brought, for the service never heard of it |
| `DropsOverlap` | `PluginOnLatest` | of two pushes the one that read first hands over last (`plugin_host/mod.rs:102`: the latest copy) |
| `IrcClaimRace` | `ClaimedDesired` | one window's leave takes a channel off the desired ones that another has just claimed (`irc_service.rs:1424`) |
| `IrcPartRace` | `PartsUnheld` | a window claims a channel between another's look at the claims and its PART |
| `IrcGivenUp` | `NeverGivenUp` | a channel that gets no answer within the watchdog's cooldown is asked for by nobody until something else reconnects |
| `IrcHeard` | `ClaimedHeard` | passes (about three minutes): a channel a window holds is joined in the end, unless it was given up so |
| `IrcStray` | `NoStray` | the watchdog joins a channel again that was left since it made its list |
| `TokenVaultRace` | `SignInKept` | a load that seals again what it read overwrites the sign-in stored since |
| `TokenVaultSignOut` | `SignedOutStays` | a sign-out before the migration leaves the mirror, which is then imported ("Every public entry point calls this", `token_vault/mod.rs:600`; `remove` does not) |
| `LivePollStale` | `AnnouncedOnce` | a list from before a broadcast began puts the older one back on record: the newer alerts twice ("True exactly once per broadcast across every lane", `NotifyBridge.kt`) |

## 5. Fairness

- Tokio tasks and blocking threads that can run do run: weak fairness of each task's
  next step (`SupProgress`, `CallProgress`, `HostNext`, `Step`, `SaverStep`, `PushStep`).
- Of a supervisor that is more than the code gives in two cases. One that is writing to a plugin
  which stopped reading waits for as long as the pipe is full (`process.rs:291`, `308`, `362`), so
  `StopTakesEffect` and `DisplacedStops` are of plugins that read or whose pipe has room; and the
  pushes and broadcasts hold clones of a handle's sender (`mod.rs:107-145`, `866-888`), which keep a
  displaced supervisor's channel open until they are done.
- Timers fire: the ping tick, timeouts, the backoff (in `SupProgress`), the
  flusher's two seconds.
- Tokio's mutex is first in, first out, so a request that waits for the stdin writer
  gets it: strong fairness of `WritePing` and `WriteAction`. `tokio::select!` picks its
  ready branches at random, so none is starved: weak fairness of each branch.
- A plugin owes nothing: nothing it does is fair, except that a dead process's
  reader sees the end. In `DropsSettings` a plugin that is up takes what is
  pushed to it: each push waits for its plugins in turn, and a plugin that stops reading
  holds up its push until the request times out, or for good once its pipe is full;
  that is `PluginSession`'s matter (`PluginHungPipe`).
- `tokio::spawn` never waits. In `DropsSettings` only the bound on pushes under way can
  make it wait, so what spawns one (`PushSaved`, `PushStarted`) is strongly fair.
- `IrcJoin`: tasks go on, the server takes what is written and a connection succeeds in the
  end; a lost JOIN is a fault, of which there are finitely many.
- `LivePoll`: WorkManager runs the workers and what they post is posted (weak fairness); a network
  that comes back again and again answers a worker in the end with all that is live
  (strong fairness of `Hears(w, Channels)`). Pushes owe nothing.
- Page calls, saves, failures, crashes and the exit are never fair.

## 6. Proofs

| Module | Theorem | For every value of the constants |
| --- | --- | --- |
| `PluginLifecycle_proofs` | `TypeCorrect`, `HandleOwnedAlways` | types; handles belong to live runs |
| | `SupervisorsImplementRun` | every supervisor implements `PluginRun` |
| | `PatientOneProcess` | with a patient user a plugin never has two processes, saves that fail included |
| | `PatientDisabledIsStopped`, `PatientEnabledIsSupervised` | with a patient user, of plugins whose last call returned no error: a disabled one has been told to stop, an enabled one has a supervisor |
| `PluginSession_proofs` | `TypeCorrect`, `ProcessIsDown` | types; when a lifetime is over its process is down |
| | `FramesInOrder`, `EventsStayInOrder` | frames in the order of the protocol; events once, in order, none left out before one that came |
| | `SessionImplementsRun` | a lifetime, frame by frame, is one `PluginRun` describes |
| `PluginBroker_proofs` | `TypeCorrect`, `PromptsBelong` | types; whatever the viewer does, a pending prompt is one waiting call's |
| | `LastWordIsKept`, `RevokedIsRefused` | with a patient viewer: what was said last (his word or an install's grant) is kept, and no revoked plugin is served until he agrees or an install grants |
| `ChatSendLimiter_proofs` | `TypeCorrect` | types; the queue stays in order, and so do a channel's slots |
| | `KeepsBudget` | the limiter implements `SendBudget` |
| | `NeverOverfills`, `NeverTooSoon` | hence no overfull window, and spacing within a channel |
| | `NothingWaitsInVain` | the loop of `earliest` ends, at the first instant that is free |
| | `NothingGoesUncounted` | what went out lately is matched by what is counted |
| `Settings_proofs` | `TypeCorrect`, `HooksAlwaysFollow` | types; services follow memory, for all kinds of call |
| | `PatchesNotForgotten`, `CopiesAreKept` | with the flusher as the only writer: no save forgotten; no start loses what a copy keeps, unless from a garbled file |
| | `DropsTypeCorrect`, `NoPluginEverMissed` | of `DropsSettings`: types; no plugin left out |
| | `CopiesAlwaysAgree`, `PatchesChangeNamed` | until an import: the copies agree, a patch changes what it names |
| `IrcJoin_proofs` | `TypeCorrect` | types |
| | `ClaimsAreDesired` | windows taking turns: a claimed channel is desired |
| | `ClaimsAreAsked` | windows taking turns: a claimed channel is joined, its JOIN is followed, or it was suspended or given up |
| | `BelievedAreJoined` | windows taking turns: what the tracker takes for joined is joined, or was given up |
| `TokenVault_proofs` | `TypeCorrect` | types; the cached key is the file's |
| | `MigratedAreSealed` | in any interleaving: once migrated, no mirror and no legacy file is left, unless an access of the disk failed or the key file holds no key |
| | `SignInIsKept` | services taking turns: the last sign-in stays readable |
| `LivePoll_proofs` | `TypeCorrect` | types |
| | `AnnouncedOnlyOnce` | no broadcast beginning between an answer and its decision: one alert each |

The assumptions are the named ones of the modules (`PluginConstants`, `SessionConstants`,
`BrokerConstants`, `LimiterAssumption`, `SettingsAssumption`, `DropsAssumption`, `IrcConstants`,
`VaultConstants`, `PollConstants`), which TLC evaluates on every run, and what two theorems of
the settings store state themselves: no writer but the flusher
(`Kinds \subseteq {"patch", "tick", "day"}`). They are what the code needs: the configuration
`SettingsImportWrite` violates `NothingForgotten` without. Theorems
about a patient specification likewise need their patience: the configurations of section 4 show
what happens without.

The inductive invariants:

- `PluginLifecycle`: `IInv` = `TypeOK` with `RestartsBounded` (a count past the
  budget only exists on the way to disabling) and `HandleOwned`. For the refinement,
  `RInv` adds `Held`: an idle supervisor serves nobody, and a process and a Shutdown
  exist only in the phases that have them. For the patient user, `PInv` adds `Roles`,
  `OneEach` (one supervisor and one call per plugin), `Agrees` (what each task knows
  of the registry is so, a plugin in `failed` apart) and `Looked` (an enabled plugin is somebody's
  business, or in `failed`).
- `ChatSendLimiter`, in three layers. The promise: `BInv` = `SendBudget`'s types, `LastIsLatest` (a
  channel's last slot is its latest counted one, without which spacing does not carry over),
  `Spaced` and `WithinBudget`; adding an entry changes the count of a window by at most one, and
  `Fits` looked at every window that contains it. The limiter: `LInv` = types, a queue that is
  ordered by instant and names each message once (`Good`), and per channel slots that rise and
  none later than the last (`Fine`). `SendBudget` speaks of a set of messages and the limiter of
  a queue that was cut: lemmas say what `Kept`, `Lately`, `InsertSend`, `Waiting` and `RemoveAt`
  make of a queue. That the loop of `earliest` ends needs no induction over data: past the last
  message it stops at once, and it only jumps forward, so its equation is solved from there back
  (`LoopEnds`, by the least number of instants for which it would not be). What went out: `CInv` adds `Booked` (a slot that is
  waited for is counted) and a function that gives each recent delivery a counted
  message of its own (`Matched`); a claim, a count and `prune` each say how that function changes.
- `SettingsStore`: `TInv` = `TypeOK` and `ExitIdle` (the exit's thread works only while the app
  exits). `HInv` adds `LiveFresh` (what a hook read is what memory holds, or a
  save whose hooks are still to come) and `AppliedFresh`. `FInv` adds `PatchesOnly`
  (one writer), `Stored` (no value is newer than the last save, and a file that loads is
  never older than the copy), `Flushed` (flag, flusher or file carries the mark) and
  `Copies` (nor is memory, nor what the flusher is writing, older than the copy; all but after a
  start from a garbled file).
- `DropsSettings`: `TypeOK` is inductive. `AInv` adds `Agreeing`: until an import,
  where each save stands tells what the two copies hold, and what it is about to save
  differs from the stored copy in the settings it names only (`InStep`). `MInv` adds
  `NoPluginMissed`, which is inductive over `TypeOK`.
- `PluginSession`: `IInv` = `TypeOK`, `MissesCounted` and `InboxCounted` (which bound the
  counters: an inbox holds the events, the action and a shutdown at most), `Control` (before the
  plugin is served nobody outside reaches it; a process is up or dead as the phase says; a
  shutdown that begins was asked for), `Staged` (no frame in the pipe is of a later stage than the
  phase has reached, so that the next may follow) and `FrameOrder`. The event order is
  inductive beside it.
- `IrcJoin`: `IInv` = `TypeOK`, `OneCall` (the windows take turns), `Refused` (the notice of a
  suspension is read after the suspension), `Held` (a held channel is desired or refused, or the
  call under way is why it is not yet) and `Knows(w)` (what the call has read still holds).
  `BelievedAreJoined` rests on `JInv`, which adds `Linked` (a connection that is up has its
  writer and one that is down has nothing on the wire), `Stopped` (no session begins with what an
  earlier one had confirmed) and, per channel, `Sound(c)`: nothing but JOINs is on the wire
  of a channel that is wanted, and one that is confirmed and not asked for again is in the room,
  suspended or `deferred`. `ClaimsAreAsked` rests on `AInv`, which adds to it
  that a channel that is wanted, and that no call or burst has in hand, is in the room, followed,
  suspended or given up (`Asked`).
- `TokenVault`: `IInv` = `TypeOK`, `Apart` (two threads at work have different credentials in
  hand), `Turns` (the services work once the migration is done), `Kept(c)` (the last
  sign-in is on the disk under a key this install has) and `Knows(t)` (what a thread has read is
  what it will find, and a key it counts on is there). Types in any interleaving need `OneFills`
  (one thread fills the key file) and `CallersWait` (none before the migration is over): `FInv`.
  `MigratedAreSealed` has `LInv` over it: each legacy file or mirror is one the migration has
  still to come to, has in hand (`Sealing`, `LegacyRead`), or is excused (`Left`).
- `PluginBroker`: `IInv` = `TypeOK`, `Unique` (a prompt belongs to one call), `Waited` (and a
  pending one to a call that waits), `Registry` (a standing consent, in memory or on the disk, is
  the viewer's last word or an install's grant), `Numbers` (no prompt ahead of its number) and `Sound(c)` (an answer on its
  way to a call was given, and no revocation came after). Types and whose a prompt is need no
  patience: `OInv` = `TypeOK`, `Unique`, `Waited` and `Numbered(c)` (a call at work has a number).
- `LivePoll`: `TInv` = `TypeOK`, `Handed` (only a worker that posts has alerts) and `Aired`
  (nobody knows of a broadcast that has not begun). `AInv` adds, for each broadcast, that
  it is announced, dropped without a word or in one lane's hand, one of the three, and that no
  lane takes it up again then (`Once`), and that what a worker is about to decide over is the
  broadcast that is on, or none (`Fresh`).

Only model-checked: liveness and fairness, which are out of the prover's reach (`StopTakesEffect`,
`DisplacedStops`, `HungIsNoticed`, `ActionAnswered`, `ImplementsFairRun`,
`SavedInTheEnd`, `ConfiguredInTheEnd`, `ToldInTheEnd`), and `PartsUnheld`, which
needs windows that take turns (`IrcPartRace`). Every other safety property a passing run
checks is a theorem. Of the settings store with the setup wizard or an import as a further writer,
only `HooksFollow` is, and the `Settings` configurations show why. `ExitKeepsSaves` for an exit without a flusher is left to its
configuration.

## 7. Not modelled

- What settings, frames and messages contain, beyond what a property tells apart;
  parsing, wording, logging.
- In the settings store: backend-owned fields (`adopt_backend_owned`), the one-time
  migrations of a load, the favorites' rules. A phone loads its settings a second time at start
  (`lib.rs` 1150-1200); the models start after it.
- In the limiter: the words of a refusal, the follow countdown and the account's
  own subscription (`ChatStanding` in the plan).
- UI-only plugins (no process), panels, stream events; the broker's `set_upstream` and its limit of
  notifies (`broker.rs:167` says "Burst of 3, then at most one notify per 10 seconds"; the code
  beside it keeps three stamps of the last 10 seconds, so three of every ten pass).
- What a plugin asks of the host and the responses to it (`process.rs:411-428`), which share the
  writer with the frames of `PluginSession`; of the broker's requests, `PluginBroker` has the login.
- In the token vault: the plaintext copies the earlier mobile store kept under `secure/`
  (`mod.rs:633-644`), whose deletion may fail; a key file whose own deletion fails, which stays as if
  its time had not come; sealing itself, the system's store beyond "answers or not", backup
  attributes, cached copies of a credential in the auth services, a second process.
- In the IRC connection: the hint that spares a message the tracker's lock when nothing is pending
  (353-358), a start with a live supervisor and a dead bridge (1912-1971); messages, the outbox, the chat bridge and what the limiter learns from
  it (`IrcSession`, `ChatStanding` in the plan).
- Of the go-live alerts, the iPhone's sightings and push cover, the registration with the push
  server, the switches beside the mutes, and the desktop's own lane.
- The decision to end the app (`AppExit` in the plan) and a second process of the app.
- Media relays, casting, providers, caches: their control hangs on data from outside
  (playlists, other services' protocols), which a small model would have to invent.
- The React front end is present as the caller of commands; platform shims and
  vendored code are outside.
