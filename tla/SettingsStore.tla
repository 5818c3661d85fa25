---------------------------- MODULE SettingsStore ----------------------------
(***************************************************************************)
(* settings.json and the settings Rust holds (commands/settings.rs).       *)
(*                                                                         *)
(* A save changes the settings in memory under their lock, runs the        *)
(* after-save hooks one save at a time, and marks them dirty; a flusher    *)
(* that wakes every two seconds writes what memory holds then.  Beside it  *)
(* write directly: the end of the first-run setup, an import, a phone in   *)
(* the background and the exit of the app.  The file is truncated and then *)
(* written, so a process that ends in between leaves a file that does not  *)
(* load: torn, and the next start rebuilds it from the newest daily copy,  *)
(* or garbled, when it is cut inside a character and is not read as text   *)
(* at all, and the next start has the defaults.                            *)
(*                                                                         *)
(* A setting's value is the number of the save that wrote it, 0 its        *)
(* default (1 when the setup is done): a value that falls is a save undone.*)
(***************************************************************************)
EXTENDS Naturals, FiniteSets

CONSTANTS
    Callers,     \* calls of commands that can be under way at once
    Portable,    \* the settings a backup holds
    Local,       \* the settings that stay on this machine (NON_PORTABLE_KEYS)
    Setup,       \* setup_complete, one of these
    Kinds,       \* what happens: a subset of AllKinds
    MaxSaves,    \* bound: saves in a behaviour
    MaxFails,    \* bound: writes of the file that fail
    MaxEnds      \* bound: times the process ends

AllKinds == {"patch", "setup", "import", "phone", "tick", "day", "exit"}

ASSUME SettingsAssumption ==
    /\ Setup \in Local /\ Portable \cap Local = {}
    /\ Kinds \subseteq AllKinds
    /\ MaxSaves \in Nat /\ MaxFails \in Nat /\ MaxEnds \in Nat
    /\ "flusher" \notin Callers /\ "exit" \notin Callers

Keys == Portable \cup Local
Threads == Callers \cup {"flusher", "exit"}
Values == [Keys -> Nat]
Defaults == [k \in Keys |-> 0]

VARIABLES
    app,       \* "running", "exiting" (the run loop's Exit arm) or "ended"
    mem,       \* AppState.settings
    dirty,     \* SETTINGS_DIRTY
    file,      \* settings.json: whether it loads, and what it holds
    copy,      \* the newest daily copy that reads; Defaults before the first
    copied,    \* there is one
    astray,    \* history: a start took the defaults although there is a
               \* copy, and none has been made since
    due,       \* today has no copy yet
    applied,   \* what the after-save hooks last gave the services
    live,      \* what a caller's hook read, while it runs
    pc,        \* where each thread stands
    kind,      \* what each caller's call is
    snap,      \* the settings a thread is about to write (an import: its base)
    over,      \* threads whose opened file another thread has written since
    marked,    \* history: what memory held when a save last marked it dirty
    owed,      \* history: marked, when the exit began
    finished,  \* history: complete_setup has answered Ok
    made, fails, ends

vars == <<app, mem, dirty, file, copy, copied, astray, due, applied, live, pc, kind,
          snap, over, marked, owed, finished, made, fails, ends>>
disk == <<file, copy, copied, astray, due>>
history == <<marked, owed, finished>>
hooks == <<applied, live>>
bounds == <<made, fails, ends>>

-----------------------------------------------------------------------------

(* What the next start would load: the file, or the newest copy over the    *)
(* defaults with the setup marked done, or the defaults.  A garbled file is *)
(* an error of read_to_string, which never comes to the copy.               *)
FromCopy == [k \in Keys |-> IF k \in Portable THEN copy[k]
                           ELSE IF k = Setup THEN 1 ELSE 0]

(* A start that takes a file which does not load for a fresh install.       *)
LoadOrDefaults == IF file.state = "loads" THEN file.holds ELSE Defaults

Load == CASE file.state = "loads" -> file.holds
          [] file.state \in {"none", "garbled"} -> Defaults
          [] file.state = "torn" -> IF copied THEN FromCopy ELSE Defaults

(* A file that does not load, and one that is not even text.                *)
Unreadable == {"torn", "garbled"}

AtLeast(f, g) == \A k \in Keys : f[k] >= g[k]

Up == app # "ended"

Goto(t, place) == pc' = [pc EXCEPT ![t] = place]

(* The end of a call, and of its locals: complete_setup's answer is noted,  *)
(* the exit's thread goes on to end the process.                            *)
Returns(t, ok) ==
    /\ Goto(t, IF t = "exit" THEN "done" ELSE "idle")
    /\ snap' = [snap EXCEPT ![t] = Defaults]
    /\ finished' = (finished \/ (ok /\ t \in Callers /\ kind[t] = "setup"))
    /\ kind' = [kind EXCEPT ![t] = "patch"]
    /\ UNCHANGED <<marked, owed>>

(* A first start, or the start of an install that finished its setup.       *)
Init ==
    /\ app = "running"
    /\ file \in {[state |-> "none", holds |-> Defaults],
                 [state |-> "loads", holds |-> [Defaults EXCEPT ![Setup] = 1]]}
    /\ copy = Defaults /\ copied = FALSE /\ astray = FALSE /\ due = TRUE
    /\ mem = Load /\ applied = Load /\ marked = Load
    /\ live = [t \in Callers |-> Defaults]
    /\ dirty = FALSE
    /\ pc = [t \in Threads |-> "idle"]
    /\ kind = [t \in Callers |-> "patch"]
    /\ snap = [t \in Threads |-> Defaults]
    /\ over = {}
    /\ owed = Defaults /\ finished = FALSE
    /\ made = 0 /\ fails = 0 /\ ends = 0

-----------------------------------------------------------------------------
(* The saves *)

Starts(t, k) ==
    /\ Up /\ k \in Kinds /\ t \in Callers
    /\ pc[t] = "idle"
    /\ kind' = [kind EXCEPT ![t] = k]

(* A patch replaces the keys it names on what Rust holds, under the lock.   *)
Patch(t, k) ==
    /\ Starts(t, "patch") /\ made < MaxSaves /\ k # Setup
    /\ made' = made + 1
    /\ mem' = [mem EXCEPT ![k] = made + 1]
    /\ Goto(t, "hooks")
    /\ UNCHANGED <<app, dirty, disk, hooks, snap, over, history, fails, ends>>

(* The end of the first-run setup: no hooks, marked and flushed at once.    *)
CompleteSetup(t) ==
    /\ Starts(t, "setup")
    /\ mem' = [mem EXCEPT ![Setup] = 1]
    /\ Goto(t, "mark")
    /\ UNCHANGED <<app, dirty, disk, hooks, snap, over, history, bounds>>

(* An import copies the settings, lays the file's keys over the copy, and   *)
(* then takes the lock again to put the result in their place.              *)
ImportReads(t) ==
    /\ Starts(t, "import") /\ made < MaxSaves
    /\ snap' = [snap EXCEPT ![t] = mem]
    /\ Goto(t, "merge")
    /\ UNCHANGED <<app, mem, dirty, disk, hooks, over, history, bounds>>

ImportReplaces(t, named) ==
    /\ Up /\ pc[t] = "merge" /\ made < MaxSaves
    /\ made' = made + 1
    /\ mem' = [k \in Keys |-> IF k \in named THEN made + 1 ELSE snap[t][k]]
    /\ snap' = [snap EXCEPT ![t] = mem']
    /\ Goto(t, "hooks")
    /\ UNCHANGED <<app, dirty, disk, hooks, kind, over, history, fails, ends>>

(* A hook that does not wait for the one before it.                         *)
TakeHooksUnlocked(t) ==
    /\ Up /\ pc[t] = "hooks"
    /\ live' = [live EXCEPT ![t] = mem]
    /\ Goto(t, "apply")
    /\ UNCHANGED <<app, mem, dirty, disk, applied, kind, snap, over, history, bounds>>

(* The hooks: under AFTER_SAVE, on the settings as they are then.           *)
TakeHooks(t) ==
    /\ Up /\ pc[t] = "hooks"
    /\ \A u \in Threads : pc[u] # "apply"
    /\ live' = [live EXCEPT ![t] = mem]
    /\ Goto(t, "apply")
    /\ UNCHANGED <<app, mem, dirty, disk, applied, kind, snap, over, history, bounds>>

RunHooks(t) ==
    /\ Up /\ pc[t] = "apply"
    /\ applied' = live[t]
    /\ live' = [live EXCEPT ![t] = Defaults]
    /\ Goto(t, IF kind[t] = "import" THEN "open" ELSE "mark")
    /\ UNCHANGED <<app, mem, dirty, disk, kind, snap, over, history, bounds>>

(* write_settings_to_disk: the save is left to the flusher.  complete_setup *)
(* flushes next, and so does a patch on a phone nobody looks at.            *)
MarkDirty(t) ==
    /\ Up /\ pc[t] = "mark"
    /\ dirty' = TRUE
    /\ marked' = mem
    /\ \/ kind[t] = "patch" /\ Goto(t, "idle")
       \/ (kind[t] = "setup" \/ "phone" \in Kinds) /\ Goto(t, "swap")
    /\ UNCHANGED <<app, mem, disk, hooks, kind, snap, over, owed, finished, bounds>>

-----------------------------------------------------------------------------
(* flush_settings_now, by the flusher, a caller or the exit *)

(* The two-second timer finds the flag.                                     *)
FlusherWakes ==
    /\ "tick" \in Kinds /\ Up
    /\ pc["flusher"] = "idle" /\ dirty
    /\ Goto("flusher", "swap")
    /\ UNCHANGED <<app, mem, dirty, disk, hooks, kind, snap, over, history, bounds>>

(* The phone goes to the background.                                        *)
PhoneFlush(t) ==
    /\ Starts(t, "phone")
    /\ Goto(t, "swap")
    /\ UNCHANGED <<app, mem, dirty, disk, hooks, snap, over, history, bounds>>

SwapClean(t) ==
    /\ Up /\ pc[t] = "swap" /\ ~dirty
    /\ Returns(t, TRUE)
    /\ UNCHANGED <<app, mem, dirty, disk, hooks, over, bounds>>

SwapDirty(t) ==
    /\ Up /\ pc[t] = "swap" /\ dirty
    /\ dirty' = FALSE
    /\ Goto(t, "snapshot")
    /\ UNCHANGED <<app, mem, disk, hooks, kind, snap, over, history, bounds>>

Snapshot(t) ==
    /\ Up /\ pc[t] = "snapshot"
    /\ snap' = [snap EXCEPT ![t] = mem]
    /\ Goto(t, "open")
    /\ UNCHANGED <<app, mem, dirty, disk, hooks, kind, over, history, bounds>>

(* The flag is cleared when the write begins instead of before the copy.    *)
TruncateClears(t) ==
    /\ Up /\ pc[t] = "open"
    /\ file' \in [state : Unreadable, holds : {Defaults}]
    /\ dirty' = FALSE
    /\ over' = {}
    /\ Goto(t, "write")
    /\ UNCHANGED <<app, mem, copy, copied, astray, due, hooks, kind, snap, history, bounds>>

(* fs::write: the file is opened and emptied, then written.  The bytes that *)
(* are there in between may end inside a character.                         *)
Truncate(t) ==
    /\ Up /\ pc[t] = "open"
    /\ file' \in [state : Unreadable, holds : {Defaults}]
    /\ over' = {}
    /\ Goto(t, "write")
    /\ UNCHANGED <<app, mem, dirty, copy, copied, astray, due, hooks, kind, snap, history, bounds>>

(* Over a file another thread wrote since it was emptied, what is longer    *)
(* sticks out behind, from anywhere in it: it may load or not.              *)
Write(t) ==
    /\ Up /\ pc[t] = "write"
    /\ \E state \in IF t \in over THEN {"loads"} \cup Unreadable ELSE {"loads"} :
          file' = [state |-> state,
                   holds |-> IF state = "loads" THEN snap[t] ELSE Defaults]
    /\ over' = (over \cup {u \in Threads : pc[u] = "write"}) \ {t}
    /\ Goto(t, "copy")
    /\ UNCHANGED <<app, mem, dirty, copy, copied, astray, due, hooks, kind, snap, history, bounds>>

(* A failed flush that leaves the flag cleared.                             *)
WriteFailsClean(t) ==
    /\ Up /\ pc[t] \in {"open", "write"} /\ fails < MaxFails
    /\ fails' = fails + 1
    /\ over' = over \ {t}
    /\ Returns(t, FALSE)
    /\ UNCHANGED <<app, mem, dirty, disk, hooks, made, ends>>

(* The file cannot be opened, or cannot be written.  A flush marks the      *)
(* settings dirty again, an import gives its caller the error.              *)
WriteFails(t) ==
    /\ Up /\ pc[t] \in {"open", "write"} /\ fails < MaxFails
    /\ fails' = fails + 1
    /\ dirty' = (dirty \/ ~(t \in Callers /\ kind[t] = "import"))
    /\ over' = over \ {t}
    /\ Returns(t, FALSE)
    /\ UNCHANGED <<app, mem, disk, hooks, made, ends>>

(* snapshot_if_due: the first write of a day by an install that is set up.  *)
CopyIfDue(t) ==
    /\ Up /\ pc[t] = "copy"
    /\ LET takes == due /\ snap[t][Setup] > 0
       IN  /\ copy' = IF takes THEN snap[t] ELSE copy
           /\ copied' = (copied \/ takes)
           /\ astray' = (astray /\ ~takes)
           /\ due' = (due /\ ~takes)
    /\ Returns(t, TRUE)
    /\ UNCHANGED <<app, mem, dirty, file, hooks, over, bounds>>

NewDay ==
    /\ "day" \in Kinds /\ ~due
    /\ due' = TRUE
    /\ UNCHANGED <<app, mem, dirty, file, copy, copied, astray, hooks, pc, kind, snap, over, history, bounds>>

-----------------------------------------------------------------------------
(* The process *)

(* An exit path that does not flush.                                        *)
ExitUnflushed ==
    /\ "exit" \in Kinds /\ app = "running"
    /\ app' = "exiting"
    /\ owed' = marked
    /\ Goto("exit", "done")
    /\ UNCHANGED <<mem, dirty, disk, hooks, kind, snap, over, marked, finished, bounds>>

BeginExit ==
    /\ "exit" \in Kinds /\ app = "running"
    /\ app' = "exiting"
    /\ owed' = marked
    /\ Goto("exit", "swap")
    /\ UNCHANGED <<mem, dirty, disk, hooks, kind, snap, over, marked, finished, bounds>>

(* The process ends: by itself once the exit has flushed, or at any moment. *)
(* A copy that was being written then stays unreadable for the day.         *)
Ends ==
    /\ Up /\ ends < MaxEnds
    /\ ends' = ends + 1
    /\ app' = "ended"
    /\ owed' = IF pc["exit"] = "done" THEN owed ELSE Defaults
    /\ \/ UNCHANGED due
       \/ \E t \in Threads : pc[t] = "copy" /\ snap[t][Setup] > 0 /\ due' = FALSE
    /\ UNCHANGED <<mem, dirty, file, copy, copied, astray, hooks, pc, kind, snap, over, marked, finished, made, fails>>

Restart ==
    /\ app = "ended"
    /\ app' = "running"
    /\ mem' = Load /\ marked' = Load
    /\ applied' = Load
    /\ astray' = (astray \/ (copied /\ file.state = "garbled"))
    /\ live' = [t \in Callers |-> Defaults]
    /\ dirty' = FALSE
    /\ owed' = Defaults
    /\ pc' = [t \in Threads |-> "idle"]
    /\ kind' = [t \in Callers |-> "patch"]
    /\ snap' = [t \in Threads |-> Defaults]
    /\ over' = {}
    /\ UNCHANGED <<file, copy, copied, due, finished, bounds>>

Call(t) ==
    \/ \E k \in Keys : Patch(t, k)
    \/ CompleteSetup(t)
    \/ ImportReads(t)
    \/ PhoneFlush(t)

Step(t) ==
    \/ \E named \in SUBSET Portable : ImportReplaces(t, named)
    \/ TakeHooks(t) \/ RunHooks(t) \/ MarkDirty(t)
    \/ SwapClean(t) \/ SwapDirty(t) \/ Snapshot(t)
    \/ Truncate(t) \/ Write(t) \/ CopyIfDue(t)

Next ==
    \/ \E t \in Callers : Call(t)
    \/ \E t \in Threads : Step(t) \/ WriteFails(t)
    \/ FlusherWakes \/ NewDay
    \/ BeginExit \/ Ends \/ Restart

Spec == Init /\ [][Next]_vars

(* Blocking threads and tasks that may run do run, and the flusher's timer  *)
(* fires.                                                                   *)
FairSpec ==
    /\ Spec
    /\ WF_vars(FlusherWakes)
    /\ \A t \in Threads : WF_vars(Step(t))

-----------------------------------------------------------------------------
(* Types: the flusher and the exit only ever flush, and a thread waits to   *)
(* write over another's bytes only while it has the file open.              *)
FlushPlaces == {"idle", "swap", "snapshot", "open", "write", "copy"}
Places == FlushPlaces \cup {"merge", "hooks", "apply", "mark", "done"}

TypeOK ==
    /\ app \in {"running", "exiting", "ended"}
    /\ mem \in Values
    /\ dirty \in BOOLEAN
    /\ file \in [state : {"none", "loads"} \cup Unreadable, holds : Values]
    /\ copy \in Values /\ copied \in BOOLEAN /\ astray \in BOOLEAN /\ due \in BOOLEAN
    /\ applied \in Values /\ live \in [Callers -> Values]
    /\ pc \in [Threads -> Places]
    /\ pc["flusher"] \in FlushPlaces /\ pc["exit"] \in FlushPlaces \cup {"done"}
    /\ kind \in [Callers -> AllKinds]
    /\ snap \in [Threads -> Values]
    /\ over \in SUBSET {t \in Threads : pc[t] = "write"}
    /\ marked \in Values /\ owed \in Values /\ finished \in BOOLEAN
    /\ made \in 0..MaxSaves /\ fails \in 0..MaxFails /\ ends \in 0..MaxEnds

(* Saves finish in any order, their hooks run one at a time: with no save   *)
(* in its hooks, the services hold the settings Rust holds, whichever save  *)
(* came last (AFTER_SAVE and live_settings).                                *)
HooksFollow ==
    (Up /\ \A t \in Threads : pc[t] \notin {"hooks", "apply"})
        => \A k \in Keys \ {Setup} : applied[k] = mem[k]

(* What a save marked is on the disk, or the flusher still finds the flag,  *)
(* or a thread holds it on its way to the file: no flag is swapped away     *)
(* without a write that carries the save, even when writes fail.            *)
Carries(t) ==
    \/ pc[t] = "snapshot"
    \/ pc[t] \in {"open", "write"} /\ AtLeast(snap[t], marked)

NothingForgotten ==
    Up => \/ dirty
          \/ \E t \in Threads : Carries(t)
          \/ AtLeast(Load, marked)

(* A setting kept in a daily copy is not lost again: after a crash that     *)
(* tore the file, a start finds it or the copy (settings_backups::recover). *)
(* A start from a garbled file is let off, until the next copy.             *)
CopyKept == (Up /\ ~astray) => \A k \in Portable : mem[k] >= copy[k]

(* "A file that no longer loads is rebuilt from the newest daily copy       *)
(* rather than replaced by a fresh install's settings": the same, garbled   *)
(* or not.                                                                  *)
CopyAlwaysKept == Up => \A k \in Portable : mem[k] >= copy[k]

(* An import keeps "this machine's session/login keys ... as-is", and no    *)
(* save made since it copied the settings is undone.                        *)
NoSaveUndone == [][Up => AtLeast(mem', mem)]_vars

(* Once saves and failures stop, a restart would find what memory holds.    *)
SavedInTheEnd == <>[](Up => Load = mem)

(* "writes it to disk at once, so closing the app right after cannot bring  *)
(* the wizard back": once complete_setup has answered, no start asks for    *)
(* the setup.                                                               *)
WizardStaysDone == (finished /\ Up) => mem[Setup] > 0

(* "Called on every exit path so a pending debounced write can never be     *)
(* lost": an app that ended by its exit left every save marked before it on *)
(* the disk.                                                                *)
ExitKeepsSaves == app = "ended" => AtLeast(Load, owed)
=============================================================================
