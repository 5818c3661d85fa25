------------------------- MODULE Settings_proofs ----------------------------
(***************************************************************************)
(* Proofs about SettingsStore, for any number of callers, settings, saves, *)
(* failed writes and ended processes, and about DropsSettings, whose       *)
(* settings it keeps.                                                      *)
(***************************************************************************)
EXTENDS SettingsStore, DropsSettings, TLAPS

(* What a start loads is a value of every setting.                          *)
LEMMA LoadTyped == TypeOK => Load \in Values
  BY SettingsAssumption DEF TypeOK, Load, FromCopy, Unreadable, Defaults, Values, Keys

LEMMA InitTyped == Init => TypeOK
<1> SUFFICES ASSUME Init PROVE TypeOK
  OBVIOUS
<1>1. /\ Defaults \in Values
      /\ [Defaults EXCEPT ![Setup] = 1] \in Values
  BY DEF Defaults, Values
<1>2. Load \in Values
  BY <1>1 DEF Init, Load
<1>3. over \in SUBSET {t \in Threads : pc[t] = "write"}
  BY DEF Init
<1>4. /\ pc \in [Threads -> Places]
      /\ pc["flusher"] \in FlushPlaces /\ pc["exit"] \in FlushPlaces \cup {"done"}
  BY DEF Init, Places, FlushPlaces, Threads
<1>5. file \in [state : ({"none", "loads"} \cup Unreadable), holds : Values]
  BY <1>1 DEF Init
<1>6. kind \in [Callers -> AllKinds]
  BY DEF Init, AllKinds
<1>7. /\ mem \in Values /\ copy \in Values /\ applied \in Values
      /\ live \in [Callers -> Values] /\ snap \in [Threads -> Values]
      /\ marked \in Values /\ owed \in Values
  BY <1>1, <1>2 DEF Init
<1>8. made \in 0..MaxSaves /\ fails \in 0..MaxFails /\ ends \in 0..MaxEnds
  BY SettingsAssumption DEF Init
<1> QED
  BY <1>3, <1>4, <1>5, <1>6, <1>7, <1>8 DEF Init, TypeOK

(* A thread that moves from a place where it does not write to one where it *)
(* does not write leaves the waiting writers where they are.                *)
LEMMA GotoTyped ==
  ASSUME TypeOK, NEW t \in Threads, NEW place \in Places, Goto(t, place),
         t = "flusher" => place \in FlushPlaces,
         t = "exit" => place \in FlushPlaces \cup {"done"}
  PROVE  /\ pc' \in [Threads -> Places]
         /\ pc'["flusher"] \in FlushPlaces
         /\ pc'["exit"] \in FlushPlaces \cup {"done"}
         /\ (over \ {t}) \in SUBSET {u \in Threads : pc'[u] = "write"}
         /\ pc[t] # "write" => over \in SUBSET {u \in Threads : pc'[u] = "write"}
  BY DEF TypeOK, Goto, Threads

(* Only a caller is ever anywhere else than in a flush.                     *)
LEMMA CallersCall ==
  ASSUME TypeOK, NEW t \in Threads, pc[t] \in {"merge", "hooks", "apply", "mark"}
  PROVE  t \in Callers
  BY DEF TypeOK, Threads, FlushPlaces

(* The exit's thread starts with the exit.                                  *)
ExitIdle == app = "running" => pc["exit"] = "idle"

LEMMA SavesTyped ==
  ASSUME TypeOK, NEW t \in Callers, Call(t)
  PROVE  TypeOK'
<1> USE SettingsAssumption
<1> t \in Threads
  BY DEF Threads
<1> t # "flusher" /\ t # "exit"
  OBVIOUS
<1>1. ASSUME NEW k \in Keys, Patch(t, k) PROVE TypeOK'
  <2>1. mem' \in Values
    BY <1>1 DEF Patch, TypeOK, Values
  <2>2. kind' \in [Callers -> AllKinds]
    BY <1>1 DEF Patch, Starts, TypeOK, AllKinds
  <2>3. made' \in 0..MaxSaves
    BY <1>1 DEF Patch, TypeOK
  <2>4. /\ pc' \in [Threads -> Places]
        /\ pc'["flusher"] \in FlushPlaces
        /\ pc'["exit"] \in FlushPlaces \cup {"done"}
        /\ over' \in SUBSET {u \in Threads : pc'[u] = "write"}
    <3> "hooks" \in Places /\ pc[t] # "write" /\ over' = over /\ Goto(t, "hooks")
      BY <1>1 DEF Patch, Starts, Places
    <3> QED
      BY GotoTyped
  <2> QED
    BY <1>1, <2>1, <2>2, <2>3, <2>4 DEF Patch, TypeOK, disk, hooks, history
<1>2. ASSUME CompleteSetup(t) PROVE TypeOK'
  <2>1. mem' \in Values
    BY <1>2 DEF CompleteSetup, TypeOK, Values
  <2>2. kind' \in [Callers -> AllKinds]
    BY <1>2 DEF CompleteSetup, Starts, TypeOK, AllKinds
  <2>3. /\ pc' \in [Threads -> Places]
        /\ pc'["flusher"] \in FlushPlaces
        /\ pc'["exit"] \in FlushPlaces \cup {"done"}
        /\ over' \in SUBSET {u \in Threads : pc'[u] = "write"}
    <3> "mark" \in Places /\ pc[t] # "write" /\ over' = over /\ Goto(t, "mark")
      BY <1>2 DEF CompleteSetup, Starts, Places
    <3> QED
      BY GotoTyped
  <2> QED
    BY <1>2, <2>1, <2>2, <2>3 DEF CompleteSetup, TypeOK, disk, hooks, history, bounds
<1>3. ASSUME ImportReads(t) PROVE TypeOK'
  <2>1. snap' \in [Threads -> Values]
    BY <1>3 DEF ImportReads, TypeOK
  <2>2. kind' \in [Callers -> AllKinds]
    BY <1>3 DEF ImportReads, Starts, TypeOK, AllKinds
  <2>3. /\ pc' \in [Threads -> Places]
        /\ pc'["flusher"] \in FlushPlaces
        /\ pc'["exit"] \in FlushPlaces \cup {"done"}
        /\ over' \in SUBSET {u \in Threads : pc'[u] = "write"}
    <3> "merge" \in Places /\ pc[t] # "write" /\ over' = over /\ Goto(t, "merge")
      BY <1>3 DEF ImportReads, Starts, Places
    <3> QED
      BY GotoTyped
  <2> QED
    BY <1>3, <2>1, <2>2, <2>3 DEF ImportReads, TypeOK, disk, hooks, history, bounds
<1>4. ASSUME PhoneFlush(t) PROVE TypeOK'
  <2>1. kind' \in [Callers -> AllKinds]
    BY <1>4 DEF PhoneFlush, Starts, TypeOK, AllKinds
  <2>2. /\ pc' \in [Threads -> Places]
        /\ pc'["flusher"] \in FlushPlaces
        /\ pc'["exit"] \in FlushPlaces \cup {"done"}
        /\ over' \in SUBSET {u \in Threads : pc'[u] = "write"}
    <3> "swap" \in Places /\ pc[t] # "write" /\ over' = over /\ Goto(t, "swap")
      BY <1>4 DEF PhoneFlush, Starts, Places, FlushPlaces
    <3> QED
      BY GotoTyped
  <2> QED
    BY <1>4, <2>1, <2>2 DEF PhoneFlush, TypeOK, disk, hooks, history, bounds
<1> QED
  BY <1>1, <1>2, <1>3, <1>4 DEF Call

LEMMA StepsTyped ==
  ASSUME TypeOK, NEW t \in Threads, Step(t)
  PROVE  TypeOK'
<1> USE SettingsAssumption
<1>1. ASSUME NEW ks \in SUBSET Portable, ImportReplaces(t, ks) PROVE TypeOK'
  <2>1. /\ pc' \in [Threads -> Places]
        /\ pc'["flusher"] \in FlushPlaces
        /\ pc'["exit"] \in FlushPlaces \cup {"done"}
        /\ over' \in SUBSET {u \in Threads : pc'[u] = "write"}
    <3> t \in Callers
      BY <1>1, CallersCall DEF ImportReplaces
    <3> t # "flusher" /\ t # "exit"
      BY SettingsAssumption
    <3> "hooks" \in Places /\ Goto(t, "hooks") /\ over' = over /\ pc[t] # "write"
      BY <1>1 DEF ImportReplaces, Places, FlushPlaces
    <3> QED
      BY GotoTyped
  <2>2. made' \in 0..MaxSaves
    BY <1>1 DEF ImportReplaces, TypeOK
  <2>3. mem' \in Values
    BY <1>1 DEF ImportReplaces, TypeOK, Values
  <2>4. snap' \in [Threads -> Values]
    BY <1>1, <2>3 DEF ImportReplaces, TypeOK
  <2> QED
    BY <1>1, <2>1, <2>2, <2>3, <2>4 DEF ImportReplaces, TypeOK, disk, hooks, history
<1>2. ASSUME TakeHooks(t) PROVE TypeOK'
  <2>1. /\ pc' \in [Threads -> Places]
        /\ pc'["flusher"] \in FlushPlaces
        /\ pc'["exit"] \in FlushPlaces \cup {"done"}
        /\ over' \in SUBSET {u \in Threads : pc'[u] = "write"}
    <3> t \in Callers
      BY <1>2, CallersCall DEF TakeHooks
    <3> t # "flusher" /\ t # "exit"
      BY SettingsAssumption
    <3> "apply" \in Places /\ Goto(t, "apply") /\ over' = over /\ pc[t] # "write"
      BY <1>2 DEF TakeHooks, Places, FlushPlaces
    <3> QED
      BY GotoTyped
  <2>2. live' \in [Callers -> Values]
    BY <1>2 DEF TakeHooks, TypeOK
  <2> QED
    BY <1>2, <2>1, <2>2 DEF TakeHooks, TypeOK, disk, history, bounds
<1>3. ASSUME RunHooks(t) PROVE TypeOK'
  <2> t \in Callers
    BY <1>3, CallersCall DEF RunHooks
  <2> t # "flusher" /\ t # "exit"
    OBVIOUS
  <2>1. /\ pc' \in [Threads -> Places]
        /\ pc'["flusher"] \in FlushPlaces
        /\ pc'["exit"] \in FlushPlaces \cup {"done"}
        /\ over' \in SUBSET {u \in Threads : pc'[u] = "write"}
    <3> DEFINE place == IF kind[t] = "import" THEN "open" ELSE "mark"
    <3> place \in Places /\ Goto(t, place) /\ over' = over /\ pc[t] # "write"
      BY <1>3 DEF RunHooks, Places, FlushPlaces
    <3> QED
      BY GotoTyped
  <2>2. applied' \in Values /\ live' \in [Callers -> Values]
    BY <1>3 DEF RunHooks, TypeOK, Values, Defaults
  <2> QED
    BY <1>3, <2>1, <2>2 DEF RunHooks, TypeOK, disk, history, bounds
<1>4. ASSUME MarkDirty(t) PROVE TypeOK'
  <2> t \in Callers
    BY <1>4, CallersCall DEF MarkDirty
  <2> t # "flusher" /\ t # "exit"
    OBVIOUS
  <2>1. /\ pc' \in [Threads -> Places]
        /\ pc'["flusher"] \in FlushPlaces
        /\ pc'["exit"] \in FlushPlaces \cup {"done"}
        /\ over' \in SUBSET {u \in Threads : pc'[u] = "write"}
    <3> PICK place \in {"idle", "swap"} : Goto(t, place)
      BY <1>4 DEF MarkDirty
    <3> place \in Places /\ over' = over /\ pc[t] # "write"
      BY <1>4 DEF MarkDirty, Places, FlushPlaces
    <3> QED
      BY GotoTyped
  <2> QED
    BY <1>4, <2>1 DEF MarkDirty, TypeOK, disk, hooks, bounds
<1>5. ASSUME SwapClean(t) PROVE TypeOK'
  <2>1. /\ pc' \in [Threads -> Places]
        /\ pc'["flusher"] \in FlushPlaces
        /\ pc'["exit"] \in FlushPlaces \cup {"done"}
        /\ over' \in SUBSET {u \in Threads : pc'[u] = "write"}
    <3> PICK place \in {"idle", "done"} : Goto(t, place) /\ (place = "done" <=> t = "exit")
      BY <1>5 DEF SwapClean, Returns
    <3> place \in Places /\ over' = over /\ pc[t] # "write"
      BY <1>5 DEF SwapClean, Places, FlushPlaces
    <3> QED
      BY GotoTyped DEF FlushPlaces
  <2>2. /\ snap' \in [Threads -> Values] /\ finished' \in BOOLEAN
        /\ kind' \in [Callers -> AllKinds]
    BY <1>5 DEF SwapClean, Returns, TypeOK, AllKinds, Values, Defaults
  <2> QED
    BY <1>5, <2>1, <2>2 DEF SwapClean, Returns, TypeOK, disk, hooks, bounds
<1>6. ASSUME SwapDirty(t) PROVE TypeOK'
  <2>1. /\ pc' \in [Threads -> Places]
        /\ pc'["flusher"] \in FlushPlaces
        /\ pc'["exit"] \in FlushPlaces \cup {"done"}
        /\ over' \in SUBSET {u \in Threads : pc'[u] = "write"}
    <3> "snapshot" \in Places /\ Goto(t, "snapshot") /\ over' = over /\ pc[t] # "write"
      BY <1>6 DEF SwapDirty, Places, FlushPlaces
    <3> QED
      BY GotoTyped DEF FlushPlaces
  <2> QED
    BY <1>6, <2>1 DEF SwapDirty, TypeOK, disk, hooks, history, bounds
<1>7. ASSUME Snapshot(t) PROVE TypeOK'
  <2>1. /\ pc' \in [Threads -> Places]
        /\ pc'["flusher"] \in FlushPlaces
        /\ pc'["exit"] \in FlushPlaces \cup {"done"}
        /\ over' \in SUBSET {u \in Threads : pc'[u] = "write"}
    <3> "open" \in Places /\ Goto(t, "open") /\ over' = over /\ pc[t] # "write"
      BY <1>7 DEF Snapshot, Places, FlushPlaces
    <3> QED
      BY GotoTyped DEF FlushPlaces
  <2>2. snap' \in [Threads -> Values]
    BY <1>7 DEF Snapshot, TypeOK
  <2> QED
    BY <1>7, <2>1, <2>2 DEF Snapshot, TypeOK, disk, hooks, history, bounds
<1>8. ASSUME Truncate(t) PROVE TypeOK'
  <2>1. /\ pc' \in [Threads -> Places]
        /\ pc'["flusher"] \in FlushPlaces
        /\ pc'["exit"] \in FlushPlaces \cup {"done"}
        /\ over' \in SUBSET {u \in Threads : pc'[u] = "write"}
    <3> "write" \in Places /\ Goto(t, "write") /\ over' = {}
      BY <1>8 DEF Truncate, Places, FlushPlaces
    <3> QED
      BY GotoTyped DEF FlushPlaces
  <2>2. file' \in [state : ({"none", "loads"} \cup Unreadable), holds : Values]
    BY <1>8 DEF Truncate, Unreadable, Values, Defaults
  <2> QED
    BY <1>8, <2>1, <2>2 DEF Truncate, TypeOK, hooks, history, bounds
<1>9. ASSUME Write(t) PROVE TypeOK'
  <2>1. /\ pc' \in [Threads -> Places]
        /\ pc'["flusher"] \in FlushPlaces
        /\ pc'["exit"] \in FlushPlaces \cup {"done"}
    BY <1>9 DEF Write, Goto, TypeOK, Places, FlushPlaces
  <2>2. over' \in SUBSET {u \in Threads : pc'[u] = "write"}
    <3> over' = (over \cup {u \in Threads : pc[u] = "write"}) \ {t} /\ pc' = [pc EXCEPT ![t] = "copy"]
      BY <1>9 DEF Write, Goto
    <3> QED
      BY DEF TypeOK
  <2>3. file' \in [state : ({"none", "loads"} \cup Unreadable), holds : Values]
    BY <1>9 DEF Write, Unreadable, TypeOK, Values, Defaults
  <2> QED
    BY <1>9, <2>1, <2>2, <2>3 DEF Write, TypeOK, hooks, history, bounds
<1>10. ASSUME CopyIfDue(t) PROVE TypeOK'
  <2>1. /\ pc' \in [Threads -> Places]
        /\ pc'["flusher"] \in FlushPlaces
        /\ pc'["exit"] \in FlushPlaces \cup {"done"}
        /\ over' \in SUBSET {u \in Threads : pc'[u] = "write"}
    <3> PICK place \in {"idle", "done"} : Goto(t, place) /\ (place = "done" <=> t = "exit")
      BY <1>10 DEF CopyIfDue, Returns
    <3> place \in Places /\ over' = over /\ pc[t] # "write"
      BY <1>10 DEF CopyIfDue, Places, FlushPlaces
    <3> QED
      BY GotoTyped DEF FlushPlaces
  <2>2. /\ snap' \in [Threads -> Values] /\ finished' \in BOOLEAN
        /\ kind' \in [Callers -> AllKinds]
    BY <1>10 DEF CopyIfDue, Returns, TypeOK, AllKinds, Values, Defaults
  <2>3. copy' \in Values /\ copied' \in BOOLEAN /\ astray' \in BOOLEAN /\ due' \in BOOLEAN
    BY <1>10 DEF CopyIfDue, TypeOK
  <2> QED
    BY <1>10, <2>1, <2>2, <2>3 DEF CopyIfDue, Returns, TypeOK, hooks, bounds
<1> QED
  BY <1>1, <1>2, <1>3, <1>4, <1>5, <1>6, <1>7, <1>8, <1>9, <1>10 DEF Step

(* The failures, the timer and the process.                                 *)
LEMMA OthersTyped ==
  ASSUME TypeOK, ExitIdle,
         \/ \E t \in Threads : WriteFails(t)
         \/ FlusherWakes \/ NewDay \/ BeginExit \/ Ends \/ Restart
         \/ UNCHANGED vars
  PROVE  TypeOK'
<1> USE SettingsAssumption
<1>1. ASSUME NEW t \in Threads, WriteFails(t) PROVE TypeOK'
  <2>1. /\ pc' \in [Threads -> Places]
        /\ pc'["flusher"] \in FlushPlaces
        /\ pc'["exit"] \in FlushPlaces \cup {"done"}
        /\ over' \in SUBSET {u \in Threads : pc'[u] = "write"}
    <3> PICK place \in {"idle", "done"} : Goto(t, place) /\ (place = "done" <=> t = "exit")
      BY <1>1 DEF WriteFails, Returns
    <3> place \in Places /\ over' = over \ {t}
      BY <1>1 DEF WriteFails, Places, FlushPlaces
    <3> QED
      BY GotoTyped DEF FlushPlaces
  <2>2. /\ snap' \in [Threads -> Values] /\ finished' \in BOOLEAN
        /\ kind' \in [Callers -> AllKinds]
    BY <1>1 DEF WriteFails, Returns, TypeOK, AllKinds, Values, Defaults
  <2>3. fails' \in 0..MaxFails /\ dirty' \in BOOLEAN
    BY <1>1 DEF WriteFails, TypeOK
  <2> QED
    BY <1>1, <2>1, <2>2, <2>3 DEF WriteFails, Returns, TypeOK, disk, hooks
<1>2. ASSUME FlusherWakes PROVE TypeOK'
  <2>1. /\ pc' \in [Threads -> Places]
        /\ pc'["flusher"] \in FlushPlaces
        /\ pc'["exit"] \in FlushPlaces \cup {"done"}
        /\ over' \in SUBSET {u \in Threads : pc'[u] = "write"}
    <3> "swap" \in Places /\ "flusher" \in Threads /\ Goto("flusher", "swap")
        /\ over' = over /\ pc["flusher"] # "write"
      BY <1>2 DEF FlusherWakes, Places, FlushPlaces, Threads
    <3> QED
      BY GotoTyped DEF FlushPlaces
  <2> QED
    BY <1>2, <2>1 DEF FlusherWakes, TypeOK, disk, hooks, history, bounds
<1>3. ASSUME NewDay PROVE TypeOK'
  BY <1>3 DEF NewDay, TypeOK, hooks, history, bounds
<1>4. ASSUME BeginExit PROVE TypeOK'
  <2>1. /\ pc' \in [Threads -> Places]
        /\ pc'["flusher"] \in FlushPlaces
        /\ pc'["exit"] \in FlushPlaces \cup {"done"}
    BY <1>4 DEF BeginExit, Goto, TypeOK, Places, FlushPlaces, Threads
  <2>2. over' \in SUBSET {u \in Threads : pc'[u] = "write"}
    BY <1>4 DEF BeginExit, Goto, TypeOK, Threads, ExitIdle
  <2>3. owed' \in Values
    BY <1>4 DEF BeginExit, TypeOK
  <2> QED
    BY <1>4, <2>1, <2>2, <2>3 DEF BeginExit, TypeOK, disk, hooks, bounds
<1>5. ASSUME Ends PROVE TypeOK'
  <2>1. owed' \in Values
    BY <1>5 DEF Ends, TypeOK, Values, Defaults
  <2>2. ends' \in 0..MaxEnds
    BY <1>5 DEF Ends, TypeOK
  <2>3. due' \in BOOLEAN
    <3>1. due' = due \/ due' = FALSE
      BY <1>5 DEF Ends
    <3> QED
      BY <3>1 DEF TypeOK
  <2> QED
    BY <1>5, <2>1, <2>2, <2>3 DEF Ends, TypeOK, hooks
<1>6. ASSUME Restart PROVE TypeOK'
  <2>1. Load \in Values
    BY LoadTyped
  <2>2. /\ snap' \in [Threads -> Values] /\ live' \in [Callers -> Values] /\ owed' \in Values
        /\ kind' \in [Callers -> AllKinds] /\ astray' \in BOOLEAN
    BY <1>6 DEF Restart, TypeOK, AllKinds, Values, Defaults
  <2>3. /\ pc' \in [Threads -> Places]
        /\ pc'["flusher"] \in FlushPlaces
        /\ pc'["exit"] \in FlushPlaces \cup {"done"}
        /\ over' \in SUBSET {u \in Threads : pc'[u] = "write"}
    BY <1>6 DEF Restart, Places, FlushPlaces, Threads
  <2> QED
    BY <1>6, <2>1, <2>2, <2>3 DEF Restart, TypeOK, disk, bounds
<1>7. ASSUME UNCHANGED vars PROVE TypeOK'
  BY <1>7 DEF vars, TypeOK
<1> QED
  BY <1>1, <1>2, <1>3, <1>4, <1>5, <1>6, <1>7

LEMMA ExitIdleKept ==
  ASSUME TypeOK, ExitIdle, [Next]_vars
  PROVE  ExitIdle'
<1>1. ASSUME NEW t \in Callers, Call(t) PROVE ExitIdle'
  <2>1. app' = app /\ \E place \in Places : Goto(t, place)
    BY <1>1 DEF Call, Patch, CompleteSetup, ImportReads, PhoneFlush, Places, FlushPlaces
  <2>2. t # "exit"
    BY SettingsAssumption
  <2> QED
    BY <2>1, <2>2 DEF Goto, TypeOK, ExitIdle, Threads
<1>2. ASSUME NEW t \in Threads, Step(t) PROVE ExitIdle'
  <2>1. app' = app /\ pc[t] # "idle" /\ pc' \in [Threads -> Places]
    BY <1>2, StepsTyped
       DEF Step, ImportReplaces, TakeHooks, RunHooks, MarkDirty, SwapClean, SwapDirty,
           Snapshot, Truncate, Write, CopyIfDue, TypeOK
  <2>2. \E place \in Places : Goto(t, place)
    BY <1>2
       DEF Step, ImportReplaces, TakeHooks, RunHooks, MarkDirty, SwapClean, SwapDirty,
           Snapshot, Truncate, Write, CopyIfDue, Returns, Places, FlushPlaces
  <2> QED
    BY <2>1, <2>2 DEF Goto, TypeOK, ExitIdle, Threads
<1>3. ASSUME NEW t \in Threads, WriteFails(t) PROVE ExitIdle'
  BY <1>3 DEF WriteFails, Returns, Goto, TypeOK, ExitIdle, Threads
<1>4. CASE FlusherWakes
  BY <1>4 DEF FlusherWakes, Goto, TypeOK, ExitIdle, Threads
<1>5. CASE NewDay \/ BeginExit \/ Ends \/ Restart \/ UNCHANGED vars
  BY <1>5 DEF NewDay, BeginExit, Ends, Restart, vars, ExitIdle, Threads
<1> QED
  BY <1>1, <1>2, <1>3, <1>4, <1>5 DEF Next

(* The two together are inductive.                                          *)
TInv == TypeOK /\ ExitIdle

LEMMA TInvKept ==
  ASSUME TInv, [Next]_vars
  PROVE  TInv'
BY SavesTyped, StepsTyped, OthersTyped, ExitIdleKept DEF TInv, Next

(* Every variable keeps its type: the flusher and the exit never stand      *)
(* anywhere but in a flush, and only a thread with the file open waits to   *)
(* write over another's bytes.                                              *)
THEOREM TypeCorrect == Spec => []TypeOK
<1>1. Init => TInv
  <2> SUFFICES ASSUME Init PROVE ExitIdle
    BY InitTyped DEF TInv
  <2> QED
    BY DEF Init, ExitIdle, Threads
<1>2. TInv /\ [Next]_vars => TInv'
  BY TInvKept
<1> QED
  BY <1>1, <1>2, PTL DEF Spec, TInv

-----------------------------------------------------------------------------
(***************************************************************************)
(* The hooks.  At every moment the services hold the settings Rust holds,  *)
(* or a save is in its hooks; and the save whose hook runs read the newest *)
(* settings, or a newer save waits behind it.  Only a hook that finds no   *)
(* other running takes a copy, which is why that second part lasts.        *)
(***************************************************************************)
SameSettings(f, g) == \A k \in Keys \ {Setup} : f[k] = g[k]
Waiting == \E u \in Threads : pc[u] = "hooks"

LiveFresh == \A t \in Callers :
    pc[t] = "apply" => SameSettings(live[t], mem) \/ Waiting

AppliedFresh ==
    \/ SameSettings(applied, mem)
    \/ \E u \in Threads : pc[u] \in {"hooks", "apply"}

HInv == TInv /\ (Up => LiveFresh /\ AppliedFresh)

(* A step that changes neither the settings nor what the hooks hold, and    *)
(* moves a thread neither into its hooks nor out of them.                   *)
LEMMA HooksUntouched ==
  ASSUME HInv, Up, TInv', mem' = mem, applied' = applied, live' = live,
         NEW t \in Threads, NEW place \in Places, Goto(t, place),
         pc[t] \notin {"hooks", "apply"}, place \notin {"hooks", "apply"}
  PROVE  LiveFresh' /\ AppliedFresh'
<1>1. \A u \in Threads : u # t => pc'[u] = pc[u]
  BY DEF HInv, TInv, TypeOK, Goto
<1>2. pc'[t] = place
  BY DEF HInv, TInv, TypeOK, Goto
<1>3. Waiting => Waiting'
  BY <1>1 DEF Waiting
<1>4. LiveFresh'
  BY <1>1, <1>2, <1>3 DEF HInv, LiveFresh, SameSettings, Threads
<1>5. AppliedFresh'
  BY <1>1, <1>2 DEF HInv, AppliedFresh, SameSettings
<1> QED
  BY <1>4, <1>5

(* A step that puts a save before its hooks.                                *)
LEMMA HooksAwaited ==
  ASSUME HInv, NEW t \in Threads, Goto(t, "hooks")
  PROVE  LiveFresh' /\ AppliedFresh'
<1>1. pc'[t] = "hooks"
  BY DEF HInv, TInv, TypeOK, Goto
<1>2. Waiting'
  BY <1>1 DEF Waiting
<1> QED
  BY <1>1, <1>2 DEF LiveFresh, AppliedFresh

LEMMA SavesFollowed ==
  ASSUME HInv, NEW t \in Callers, Call(t), TInv'
  PROVE  Up' => LiveFresh' /\ AppliedFresh'
<1> t \in Threads
  BY DEF Threads
<1>1. ASSUME NEW k \in Keys, Patch(t, k) PROVE LiveFresh' /\ AppliedFresh'
  BY <1>1, HooksAwaited DEF Patch
<1>2. ASSUME CompleteSetup(t) PROVE LiveFresh' /\ AppliedFresh'
  <2>1. /\ SameSettings(mem', mem)
        /\ applied' = applied /\ live' = live /\ Up
    BY <1>2 DEF CompleteSetup, Starts, SameSettings, HInv, TInv, TypeOK, Values, hooks
  <2>2. \A u \in Threads : u # t => pc'[u] = pc[u]
    BY <1>2 DEF CompleteSetup, HInv, TInv, TypeOK, Goto
  <2>3. pc[t] = "idle" /\ pc'[t] = "mark"
    BY <1>2 DEF CompleteSetup, Starts, HInv, TInv, TypeOK, Goto
  <2>4. Waiting => Waiting'
    BY <2>2, <2>3 DEF Waiting
  <2>5. LiveFresh'
    BY <2>1, <2>2, <2>3, <2>4 DEF HInv, LiveFresh, SameSettings, Threads
  <2>6. AppliedFresh'
    BY <2>1, <2>2, <2>3 DEF HInv, AppliedFresh, SameSettings
  <2> QED
    BY <2>5, <2>6
<1>3. ASSUME ImportReads(t) \/ PhoneFlush(t) PROVE LiveFresh' /\ AppliedFresh'
  <2>1. PICK place \in {"merge", "swap"} : Goto(t, place)
    BY <1>3 DEF ImportReads, PhoneFlush
  <2>2. mem' = mem /\ applied' = applied /\ live' = live /\ Up /\ pc[t] = "idle"
    BY <1>3 DEF ImportReads, PhoneFlush, Starts, hooks
  <2> QED
    BY <2>1, <2>2, HooksUntouched DEF Places, FlushPlaces
<1> QED
  BY <1>1, <1>2, <1>3 DEF Call

LEMMA StepsFollowed ==
  ASSUME HInv, NEW t \in Threads, Step(t), TInv'
  PROVE  Up' => LiveFresh' /\ AppliedFresh'
<1>1. ASSUME NEW ks \in SUBSET Portable, ImportReplaces(t, ks)
      PROVE LiveFresh' /\ AppliedFresh'
  BY <1>1, HooksAwaited DEF ImportReplaces
<1>2. ASSUME TakeHooks(t) PROVE LiveFresh' /\ AppliedFresh'
  <2>1. t \in Callers
    BY <1>2, CallersCall DEF TakeHooks, HInv, TInv
  <2>2. \A u \in Threads : pc'[u] = "apply" => u = t
    BY <1>2 DEF TakeHooks, Goto, HInv, TInv, TypeOK
  <2>3. live'[t] = mem' /\ pc'[t] = "apply"
    BY <1>2, <2>1 DEF TakeHooks, Goto, HInv, TInv, TypeOK
  <2> QED
    BY <2>2, <2>3 DEF LiveFresh, AppliedFresh, SameSettings, Threads
<1>3. ASSUME RunHooks(t) PROVE LiveFresh' /\ AppliedFresh'
  <2>1. t \in Callers
    BY <1>3, CallersCall DEF RunHooks, HInv, TInv
  <2>2. /\ applied' = live[t] /\ mem' = mem /\ Up /\ pc[t] = "apply"
        /\ pc'[t] # "apply"
        /\ \A u \in Callers : u # t => live'[u] = live[u]
        /\ \A u \in Threads : u # t => pc'[u] = pc[u]
    BY <1>3, <2>1 DEF RunHooks, Goto, HInv, TInv, TypeOK
  <2>3. Waiting => Waiting'
    BY <2>2 DEF Waiting
  <2>4. LiveFresh'
    BY <2>2, <2>3 DEF HInv, LiveFresh, SameSettings, Threads
  <2>5. SameSettings(live[t], mem) \/ Waiting
    BY <2>1, <2>2 DEF HInv, LiveFresh
  <2>6. AppliedFresh'
    BY <2>2, <2>3, <2>5 DEF AppliedFresh, SameSettings, Waiting
  <2> QED
    BY <2>4, <2>6
<1>4. ASSUME \/ MarkDirty(t) \/ SwapClean(t) \/ SwapDirty(t) \/ Snapshot(t)
             \/ Truncate(t) \/ Write(t) \/ CopyIfDue(t)
      PROVE LiveFresh' /\ AppliedFresh'
  <2>1. /\ mem' = mem /\ applied' = applied /\ live' = live /\ Up
        /\ pc[t] \notin {"hooks", "apply"}
    BY <1>4 DEF MarkDirty, SwapClean, SwapDirty, Snapshot, Truncate, Write, CopyIfDue, hooks
  <2>2. PICK place \in {"idle", "swap", "done", "snapshot", "open", "write", "copy"} :
            Goto(t, place)
    BY <1>4 DEF MarkDirty, SwapClean, SwapDirty, Snapshot, Truncate, Write, CopyIfDue, Returns
  <2> QED
    BY <2>1, <2>2, HooksUntouched DEF Places, FlushPlaces
<1> QED
  BY <1>1, <1>2, <1>3, <1>4 DEF Step

LEMMA HInvKept ==
  ASSUME HInv, [Next]_vars
  PROVE  HInv'
<1>1. TInv'
  BY TInvKept DEF HInv
<1>2. ASSUME NEW t \in Threads, WriteFails(t) PROVE LiveFresh' /\ AppliedFresh'
  <2>1. /\ mem' = mem /\ applied' = applied /\ live' = live /\ Up
        /\ pc[t] \notin {"hooks", "apply"}
    BY <1>2 DEF WriteFails, hooks
  <2>2. PICK place \in {"idle", "done"} : Goto(t, place)
    BY <1>2 DEF WriteFails, Returns
  <2> QED
    BY <1>1, <2>1, <2>2, HooksUntouched DEF Places, FlushPlaces
<1>3. ASSUME FlusherWakes PROVE LiveFresh' /\ AppliedFresh'
  <2>1. /\ mem' = mem /\ applied' = applied /\ live' = live /\ Up
        /\ pc["flusher"] = "idle" /\ Goto("flusher", "swap") /\ "flusher" \in Threads
    BY <1>3 DEF FlusherWakes, hooks, Threads
  <2> QED
    BY <1>1, <2>1, HooksUntouched DEF Places, FlushPlaces
<1>4. ASSUME BeginExit PROVE LiveFresh' /\ AppliedFresh'
  <2>1. /\ mem' = mem /\ applied' = applied /\ live' = live /\ Up
        /\ pc["exit"] = "idle" /\ Goto("exit", "swap") /\ "exit" \in Threads
    BY <1>4 DEF BeginExit, hooks, Threads, HInv, TInv, ExitIdle, Up
  <2> QED
    BY <1>1, <2>1, HooksUntouched DEF Places, FlushPlaces
<1>5. ASSUME NewDay \/ UNCHANGED vars PROVE Up' => LiveFresh' /\ AppliedFresh'
  BY <1>5 DEF NewDay, vars, hooks, HInv, LiveFresh, AppliedFresh, SameSettings, Waiting, Up
<1>6. ASSUME Ends PROVE ~Up'
  BY <1>6 DEF Ends, Up
<1>7. ASSUME Restart PROVE LiveFresh' /\ AppliedFresh'
  BY <1>7 DEF Restart, LiveFresh, AppliedFresh, SameSettings, Threads
<1> QED
  BY <1>1, <1>2, <1>3, <1>4, <1>5, <1>6, <1>7, SavesFollowed, StepsFollowed DEF HInv, Next

(* With no save in its hooks the services hold the settings Rust holds,     *)
(* whatever the saves, in whatever order they finish (after_settings_change *)
(* under AFTER_SAVE).                                                       *)
THEOREM HooksAlwaysFollow == Spec => []HooksFollow
<1>1. Init => HInv
  <2> SUFFICES ASSUME Init PROVE HInv
    OBVIOUS
  <2>1. TInv
    BY InitTyped DEF TInv, Init, ExitIdle, Threads
  <2>2. LiveFresh /\ AppliedFresh
    BY DEF Init, LiveFresh, AppliedFresh, SameSettings, Threads
  <2> QED
    BY <2>1, <2>2 DEF HInv
<1>2. HInv /\ [Next]_vars => HInv'
  BY HInvKept
<1>3. HInv => HooksFollow
  BY DEF HInv, HooksFollow, AppliedFresh, SameSettings
<1> QED
  BY <1>1, <1>2, <1>3, PTL DEF Spec

-----------------------------------------------------------------------------
(***************************************************************************)
(* The file, where patches alone change the settings and the flusher alone *)
(* writes: a save is lost neither to a failed write nor between the flag   *)
(* and the copy, and a start loses nothing that a daily copy holds unless  *)
(* the file is garbled.                                                    *)
(***************************************************************************)
PatchesOnly ==
    /\ \A t \in Callers : pc[t] \in {"idle", "hooks", "apply", "mark"} /\ kind[t] = "patch"
    /\ pc["exit"] = "idle" /\ app # "exiting" /\ over = {}

(* Every value was written by a save that was made.                         *)
Numbered(f) == \A k \in Keys \ {Setup} : f[k] <= made

CopyBelow(f) == \A k \in Portable : copy[k] <= f[k]

F == "flusher"

Flushed ==
    /\ AtLeast(mem, marked)
    /\ pc[F] \in {"open", "write"} => dirty \/ AtLeast(snap[F], marked)
    /\ pc[F] \notin {"snapshot", "open", "write"} => dirty \/ AtLeast(Load, marked)
    /\ pc[F] = "copy" => file.state = "loads" /\ file.holds = snap[F]

Copies ==
    /\ ~astray => CopyBelow(mem)
    /\ pc[F] \in {"open", "write", "copy"} =>
          (~astray => CopyBelow(snap[F])) /\ \A k \in Portable : snap[F][k] <= mem[k]

Stored ==
    /\ Numbered(mem) /\ Numbered(file.holds) /\ Numbered(copy) /\ Numbered(snap[F])
    /\ file.state = "loads" /\ ~astray => CopyBelow(file.holds)
    /\ file.state = "none" => ~copied
    /\ ~copied => copy = Defaults

FInv == TInv /\ PatchesOnly /\ Stored /\ (Up => Flushed /\ Copies)

(* What the steps of patches do.                                            *)
LEMMA PatchesOnlyKept ==
  ASSUME Kinds \subseteq {"patch", "tick", "day"}, FInv, [Next]_vars
  PROVE  PatchesOnly'
<1> USE SettingsAssumption DEF FInv, TInv, TypeOK, PatchesOnly
<1>1. ASSUME NEW t \in Callers, Call(t) PROVE PatchesOnly'
  <2>1. PICK k \in Keys : Patch(t, k)
    BY <1>1 DEF Call, CompleteSetup, ImportReads, PhoneFlush, Starts
  <2> QED
    BY <2>1 DEF Patch, Starts, Goto, Threads
<1>2. ASSUME NEW t \in Threads, Step(t) PROVE PatchesOnly'
  <2>1. t = F \/ t \in Callers
    BY <1>2 DEF Step, ImportReplaces, TakeHooks, RunHooks, MarkDirty, SwapClean,
        SwapDirty, Snapshot, Truncate, Write, CopyIfDue, Threads, F
  <2>2. CASE t = F
    <3>1. /\ SwapClean(F) \/ SwapDirty(F) \/ Snapshot(F) \/ Truncate(F) \/ Write(F)
             \/ CopyIfDue(F)
      BY <1>2, <2>2 DEF Step, ImportReplaces, TakeHooks, RunHooks, MarkDirty, F, FlushPlaces
    <3>2. /\ \A u \in Callers : kind'[u] = "patch"
          /\ app' = app /\ \A u \in Threads : u # F => pc'[u] = pc[u]
      BY <3>1 DEF SwapClean, SwapDirty, Snapshot, Truncate, Write, CopyIfDue, Returns, Goto, F
    <3>3. over' = {}
      <4>1. CASE Write(F)
        <5>1. {u \in Threads : pc[u] = "write"} \subseteq {F}
          BY DEF Threads, F
        <5> QED
          BY <4>1, <5>1 DEF Write
      <4> QED
        BY <3>1, <4>1 DEF SwapClean, SwapDirty, Snapshot, Truncate, CopyIfDue
    <3> QED
      BY <3>2, <3>3 DEF Threads, F
  <2>3. CASE t \in Callers
    <3>1. TakeHooks(t) \/ RunHooks(t) \/ MarkDirty(t)
      BY <1>2, <2>3 DEF Step, ImportReplaces, SwapClean, SwapDirty, Snapshot, Truncate,
          Write, CopyIfDue
    <3>2. PICK place \in {"apply", "mark", "idle"} : Goto(t, place)
      BY <3>1, <2>3 DEF TakeHooks, RunHooks, MarkDirty
    <3> QED
      BY <3>1, <3>2, <2>3 DEF TakeHooks, RunHooks, MarkDirty, Goto, Threads
  <2> QED
    BY <2>1, <2>2, <2>3
<1>3. ASSUME NEW t \in Threads, WriteFails(t) PROVE PatchesOnly'
  <2>1. t = F
    BY <1>3 DEF WriteFails, Threads, F
  <2> QED
    BY <1>3, <2>1 DEF WriteFails, Returns, Goto, Threads, F
<1>4. CASE FlusherWakes
  BY <1>4 DEF FlusherWakes, Goto, Threads
<1>5. CASE BeginExit
  BY <1>5 DEF BeginExit
<1>6. CASE NewDay \/ Ends \/ Restart \/ UNCHANGED vars
  BY <1>6 DEF NewDay, Ends, Restart, vars, Threads
<1> QED
  BY <1>1, <1>2, <1>3, <1>4, <1>5, <1>6 DEF Next

(* Only the flusher flushes, and only callers save.                         *)
LEMMA WhoSteps ==
  ASSUME PatchesOnly, TypeOK, NEW t \in Threads, Step(t)
  PROVE  \/ t \in Callers /\ (TakeHooks(t) \/ RunHooks(t) \/ MarkDirty(t))
         \/ t = F /\ \/ SwapClean(F) \/ SwapDirty(F) \/ Snapshot(F)
                     \/ Truncate(F) \/ Write(F) \/ CopyIfDue(F)
<1>1. t = F \/ t \in Callers
  BY DEF PatchesOnly, Step, ImportReplaces, TakeHooks, RunHooks, MarkDirty, SwapClean,
      SwapDirty, Snapshot, Truncate, Write, CopyIfDue, Threads, F
<1>2. ASSUME t = F PROVE pc[t] \in FlushPlaces
  BY <1>2 DEF TypeOK, F
<1>3. ASSUME t \in Callers PROVE pc[t] \in {"idle", "hooks", "apply", "mark"}
  BY <1>3 DEF PatchesOnly
<1>4. CASE t = F
  <2>1. pc[t] \notin {"merge", "hooks", "apply", "mark"}
    BY <1>2, <1>4 DEF FlushPlaces
  <2> QED
    BY <1>4, <2>1 DEF Step, ImportReplaces, TakeHooks, RunHooks, MarkDirty
<1>5. CASE t \in Callers
  BY <1>3, <1>5 DEF Step, ImportReplaces, SwapClean, SwapDirty, Snapshot, Truncate,
      Write, CopyIfDue
<1> QED
  BY <1>1, <1>4, <1>5

LEMMA PatchKeeps ==
  ASSUME FInv, NEW t \in Callers, NEW k \in Keys, Patch(t, k)
  PROVE  Stored' /\ Flushed' /\ Copies'
<1> USE DEF FInv, TInv, TypeOK, Values, Keys
<1>1. /\ file' = file /\ copy' = copy /\ copied' = copied /\ snap' = snap /\ astray' = astray
      /\ marked' = marked /\ dirty' = dirty /\ made' = made + 1 /\ Up /\ k # Setup
      /\ made \in Nat
  BY SettingsAssumption DEF Patch, Starts, disk, history
<1>2. pc'[F] = pc[F]
  BY SettingsAssumption DEF Patch, Goto, F
<1>3. \A j \in Keys : mem'[j] >= mem[j] /\ (j # k => mem'[j] = mem[j])
  BY <1>1 DEF Patch, Stored, Numbered
<1>4. mem'[k] = made + 1 /\ mem' \in [Keys -> Nat]
  BY <1>1 DEF Patch
<1>5. Load' = Load
  BY <1>1 DEF Load, FromCopy
<1>6. Stored'
  <2>1. Numbered(mem)'
    BY <1>1, <1>3, <1>4 DEF Stored, Numbered
  <2>2. Numbered(file.holds)' /\ Numbered(copy)' /\ Numbered(snap[F])'
    BY <1>1 DEF Stored, Numbered, Threads, F
  <2> QED
    BY <1>1, <2>1, <2>2 DEF Stored, CopyBelow
<1>7. Flushed'
  <2>1. AtLeast(mem, marked)'
    <3> SUFFICES ASSUME NEW j \in Keys PROVE mem'[j] >= marked[j]
      BY <1>1 DEF AtLeast
    <3>1. mem[j] >= marked[j] /\ mem'[j] >= mem[j]
      BY <1>1, <1>3 DEF Flushed, AtLeast
    <3>2. mem'[j] \in Nat /\ mem[j] \in Nat /\ marked[j] \in Nat
      BY <1>4
    <3> QED
      BY <3>1, <3>2
  <2> QED
    BY <1>1, <1>2, <1>5, <2>1 DEF Flushed, AtLeast
<1>8. Copies'
  <2>1. ASSUME NEW j \in Portable, NEW n \in Nat, n <= mem[j] PROVE n <= mem'[j]
    <3>1. mem'[j] \in Nat /\ mem[j] \in Nat /\ mem'[j] >= mem[j]
      BY <1>3, <1>4
    <3> QED
      BY <2>1, <3>1
  <2>2. ~astray => CopyBelow(mem)'
    BY <1>1, <2>1 DEF Copies, CopyBelow
  <2>3. snap[F] \in [Keys -> Nat]
    BY DEF Threads, F
  <2> QED
    BY <1>1, <1>2, <2>1, <2>2, <2>3 DEF Copies, CopyBelow
<1> QED
  BY <1>6, <1>7, <1>8

LEMMA CallersKeep ==
  ASSUME FInv, NEW t \in Callers, TakeHooks(t) \/ RunHooks(t) \/ MarkDirty(t)
  PROVE  Stored' /\ Flushed' /\ Copies'
<1> USE DEF FInv, TInv, TypeOK, Values, Keys
<1>1. /\ file' = file /\ copy' = copy /\ copied' = copied /\ snap' = snap /\ astray' = astray
      /\ mem' = mem /\ made' = made /\ Up
  BY DEF TakeHooks, RunHooks, MarkDirty, disk, bounds
<1>2. PICK place \in Places : Goto(t, place)
  BY DEF TakeHooks, RunHooks, MarkDirty, Places, FlushPlaces
<1>3. pc'[F] = pc[F]
  BY <1>2, SettingsAssumption DEF Goto, F
<1>4. Load' = Load
  BY <1>1 DEF Load, FromCopy
<1>5. Stored' /\ Copies'
  BY <1>1, <1>3 DEF Stored, Copies, Numbered, CopyBelow
<1>6. Flushed'
  <2>1. CASE MarkDirty(t)
    BY <1>1, <1>3, <2>1 DEF MarkDirty, Flushed, AtLeast
  <2>2. CASE TakeHooks(t) \/ RunHooks(t)
    <3>1. marked' = marked /\ dirty' = dirty
      BY <2>2 DEF TakeHooks, RunHooks, history
    <3> QED
      BY <1>1, <1>3, <1>4, <3>1 DEF Flushed, AtLeast
  <2> QED
    BY <2>1, <2>2
<1> QED
  BY <1>5, <1>6

LEMMA FlusherKeeps ==
  ASSUME FInv, \/ SwapClean(F) \/ SwapDirty(F) \/ Snapshot(F)
               \/ Truncate(F) \/ Write(F) \/ CopyIfDue(F)
               \/ WriteFails(F) \/ FlusherWakes
  PROVE  Stored' /\ Flushed' /\ Copies'
<1> USE DEF FInv, TInv, TypeOK, Values, Keys
<1>1. F \in Threads /\ F \notin Callers /\ F # "exit" /\ F = "flusher"
  BY SettingsAssumption DEF Threads, F
<1>2. Up /\ mem' = mem /\ marked' = marked /\ made' = made
  BY DEF SwapClean, SwapDirty, Snapshot, Truncate, Write, CopyIfDue, WriteFails,
      FlusherWakes, Returns, history, bounds
<1>3. CASE FlusherWakes \/ SwapDirty(F) \/ SwapClean(F)
  <2>1. /\ file' = file /\ copy' = copy /\ copied' = copied /\ astray' = astray
        /\ Numbered(snap[F])'
    <3>1. file' = file /\ copy' = copy /\ copied' = copied /\ astray' = astray
      BY <1>3 DEF FlusherWakes, SwapDirty, SwapClean, disk
    <3>2. snap'[F] = snap[F] \/ snap'[F] = Defaults
      BY <1>1, <1>3 DEF FlusherWakes, SwapDirty, SwapClean, Returns
    <3> QED
      BY <1>2, <3>1, <3>2 DEF Stored, Numbered, Defaults
  <2>2. Load' = Load
    BY <2>1 DEF Load, FromCopy
  <2>3. /\ pc'[F] \in {"swap", "snapshot", "idle"}
        /\ pc'[F] = "snapshot" \/ dirty' \/ AtLeast(Load, marked)
    BY <1>1, <1>2, <1>3 DEF FlusherWakes, SwapDirty, SwapClean, Returns, Goto, Flushed
  <2>4. Stored' /\ Copies'
    BY <1>2, <2>1, <2>3 DEF Stored, Copies, Numbered, CopyBelow
  <2> QED
    BY <1>2, <2>2, <2>3, <2>4 DEF Flushed, AtLeast
<1>4. CASE Snapshot(F)
  <2>1. /\ snap'[F] = mem /\ pc'[F] = "open" /\ file' = file /\ copy' = copy /\ copied' = copied
        /\ astray' = astray
    BY <1>1, <1>4 DEF Snapshot, Goto, disk
  <2> QED
    BY <1>2, <2>1 DEF Stored, Flushed, Copies, Numbered, CopyBelow, AtLeast
<1>5. CASE Truncate(F)
  <2>1. /\ snap' = snap /\ pc[F] = "open" /\ pc'[F] = "write" /\ copy' = copy /\ copied' = copied
        /\ file'.state \in Unreadable /\ file'.holds = Defaults /\ dirty' = dirty
        /\ astray' = astray
    BY <1>1, <1>5 DEF Truncate, Goto
  <2>2. Numbered(file.holds)'
    BY <1>2, <2>1 DEF Numbered, Defaults
  <2> QED
    BY <1>2, <2>1, <2>2 DEF Stored, Flushed, Copies, Numbered, CopyBelow, AtLeast, Unreadable
<1>6. CASE Write(F)
  <2>1. /\ snap' = snap /\ pc[F] = "write" /\ pc'[F] = "copy" /\ copy' = copy /\ copied' = copied
        /\ file'.state = "loads" /\ file'.holds = snap[F] /\ dirty' = dirty
        /\ astray' = astray
    BY <1>1, <1>6 DEF Write, Goto, PatchesOnly
  <2>2. Load' = snap[F]
    BY <2>1 DEF Load
  <2> QED
    BY <1>2, <2>1, <2>2 DEF Stored, Flushed, Copies, Numbered, CopyBelow, AtLeast
<1>7. CASE CopyIfDue(F)
  <2> DEFINE takes == due /\ snap[F][Setup] > 0
  <2>1. /\ pc[F] = "copy" /\ pc'[F] = "idle" /\ file' = file /\ dirty' = dirty
        /\ snap'[F] = Defaults
        /\ \/ copy' = copy /\ copied' = copied /\ astray' = astray
           \/ copy' = snap[F] /\ copied'
    <3>1. /\ pc[F] = "copy" /\ pc'[F] = "idle" /\ file' = file /\ dirty' = dirty
          /\ snap'[F] = Defaults
      BY <1>1, <1>7 DEF CopyIfDue, Returns, Goto
    <3>2. /\ copy' = (IF takes THEN snap[F] ELSE copy) /\ copied' = (copied \/ takes)
          /\ astray' = (astray /\ ~takes)
      BY <1>7 DEF CopyIfDue
    <3>3. CASE takes
      BY <3>1, <3>2, <3>3
    <3>4. CASE ~takes
      <4> HIDE DEF takes
      <4>1. copy' = copy /\ copied' = copied /\ astray' = astray
        BY <3>2, <3>4
      <4> QED
        BY <3>1, <4>1
    <3> QED
      BY <3>3, <3>4
  <2>2. file.state = "loads" /\ file.holds = snap[F]
    BY <1>2, <2>1 DEF Flushed
  <2>3. Load' = Load
    BY <2>1, <2>2 DEF Load
  <2>4. Numbered(snap[F])'
    BY <1>2, <2>1 DEF Numbered, Defaults
  <2>5. Stored'
    BY <1>2, <2>1, <2>2, <2>4 DEF Stored, Numbered, CopyBelow
  <2>6. Copies'
    BY <1>2, <2>1 DEF Copies, CopyBelow
  <2> QED
    BY <1>2, <2>1, <2>3, <2>5, <2>6 DEF Flushed, AtLeast
<1>8. CASE WriteFails(F)
  <2>1. /\ dirty' /\ pc'[F] = "idle" /\ file' = file /\ copy' = copy /\ copied' = copied
        /\ snap'[F] = Defaults /\ astray' = astray
    BY <1>1, <1>8 DEF WriteFails, Returns, Goto, disk
  <2>2. Numbered(snap[F])'
    BY <1>2, <2>1 DEF Numbered, Defaults
  <2> QED
    BY <1>2, <2>1, <2>2 DEF Stored, Flushed, Copies, Numbered, CopyBelow, AtLeast
<1> QED
  BY <1>3, <1>4, <1>5, <1>6, <1>7, <1>8

LEMMA RestartKeeps ==
  ASSUME FInv, Restart
  PROVE  Stored' /\ Flushed' /\ Copies'
<1> USE DEF FInv, TInv, TypeOK, Values, Keys
<1>1. /\ file' = file /\ copy' = copy /\ copied' = copied /\ made' = made
      /\ mem' = Load /\ marked' = Load /\ pc'[F] = "idle" /\ snap'[F] = Defaults
      /\ astray' = (astray \/ (copied /\ file.state = "garbled"))
  BY DEF Restart, disk, bounds, Threads, F
<1>2. Load' = Load /\ Load \in [Keys -> Nat]
  BY <1>1, LoadTyped DEF Load, FromCopy
<1>3. Numbered(Load) /\ Numbered(Defaults)
  BY DEF Stored, Numbered, Load, FromCopy, Defaults, Unreadable
<1>4. ~astray' => CopyBelow(Load)
  BY <1>1 DEF Stored, CopyBelow, Load, FromCopy, Defaults, Unreadable
<1>5. Stored' /\ Copies'
  BY <1>1, <1>3, <1>4 DEF Stored, Copies, Numbered, CopyBelow
<1> QED
  BY <1>1, <1>2, <1>5 DEF Flushed, AtLeast

LEMMA FInvKept ==
  ASSUME Kinds \subseteq {"patch", "tick", "day"}, FInv, [Next]_vars
  PROVE  FInv'
<1>1. TInv' /\ PatchesOnly'
  BY TInvKept, PatchesOnlyKept DEF FInv
<1>2. ASSUME NEW t \in Callers, Call(t) PROVE Stored' /\ Flushed' /\ Copies'
  <2>1. PICK k \in Keys : Patch(t, k)
    BY <1>2 DEF Call, CompleteSetup, ImportReads, PhoneFlush, Starts
  <2> QED
    BY <2>1, PatchKeeps
<1>3. ASSUME NEW t \in Threads, Step(t) PROVE Stored' /\ Flushed' /\ Copies'
  BY <1>3, WhoSteps, CallersKeep, FlusherKeeps DEF FInv, TInv
<1>4. ASSUME NEW t \in Threads, WriteFails(t) PROVE Stored' /\ Flushed' /\ Copies'
  <2>1. t = F
    BY <1>4 DEF WriteFails, Threads, F, FInv, PatchesOnly
  <2> QED
    BY <1>4, <2>1, FlusherKeeps
<1>5. CASE FlusherWakes
  BY <1>5, FlusherKeeps, <1>1 DEF FInv
<1>6. CASE BeginExit
  BY <1>6 DEF BeginExit
<1>7. CASE Restart
  BY <1>7, <1>1, RestartKeeps DEF FInv
<1>8. CASE NewDay \/ UNCHANGED vars
  <2>1. /\ mem' = mem /\ marked' = marked /\ pc' = pc /\ snap' = snap /\ dirty' = dirty
        /\ file' = file /\ copy' = copy /\ copied' = copied /\ made' = made /\ app' = app
        /\ astray' = astray
    BY <1>8 DEF NewDay, vars, history, bounds
  <2> QED
    BY <1>1, <2>1 DEF FInv, Stored, Flushed, Copies, Numbered, CopyBelow, AtLeast, Load, FromCopy, Up
<1>9. CASE Ends
  <2>1. /\ ~Up' /\ mem' = mem /\ snap' = snap
        /\ file' = file /\ copy' = copy /\ copied' = copied /\ made' = made /\ astray' = astray
    BY <1>9 DEF Ends, Up
  <2> QED
    BY <1>1, <2>1 DEF FInv, Stored, Numbered, CopyBelow
<1> QED
  BY <1>1, <1>2, <1>3, <1>4, <1>5, <1>6, <1>7, <1>8, <1>9 DEF FInv, Next

LEMMA InitStored == Init => FInv
<1> SUFFICES ASSUME Init PROVE FInv
  OBVIOUS
<1>1. TInv /\ PatchesOnly
  BY InitTyped DEF TInv, Init, ExitIdle, Threads, PatchesOnly
<1>2. /\ Load = mem /\ marked = mem /\ mem \in [Keys -> Nat]
      /\ pc[F] = "idle" /\ snap[F] = Defaults
  BY <1>1 DEF Init, TInv, TypeOK, Values, Threads, F
<1>3. \A k \in Keys \ {Setup} : mem[k] = 0 /\ file.holds[k] = 0 /\ copy[k] = 0 /\ Defaults[k] = 0
  BY DEF Init, Load, Defaults
<1>4. Stored
  BY <1>2, <1>3, SettingsAssumption DEF Init, Stored, Numbered, CopyBelow, Keys
<1>5. Flushed /\ Copies
  BY <1>2, <1>3, SettingsAssumption DEF Init, Flushed, Copies, CopyBelow, AtLeast, Keys
<1> QED
  BY <1>1, <1>4, <1>5 DEF FInv

(* What a save marked is on the disk, or marked still, or on its way there: *)
(* with the flusher the only writer nothing is forgotten, whatever fails    *)
(* and whenever the process ends (flush_settings_now).                      *)
THEOREM PatchesNotForgotten ==
  ASSUME Kinds \subseteq {"patch", "tick", "day"}
  PROVE  Spec => []NothingForgotten
<1>1. FInv => NothingForgotten
  BY DEF FInv, TInv, Flushed, NothingForgotten, Carries, Threads, F
<1>2. FInv /\ [Next]_vars => FInv'
  BY FInvKept
<1> QED
  BY <1>1, <1>2, InitStored, PTL DEF Spec

(* A setting a daily copy holds is not lost again to a crash that tears the *)
(* file (settings_backups::recover), garbled files apart.                   *)
THEOREM CopiesAreKept ==
  ASSUME Kinds \subseteq {"patch", "tick", "day"}
  PROVE  Spec => []CopyKept
<1>1. FInv => CopyKept
  BY DEF FInv, TInv, TypeOK, Values, Keys, Copies, CopyBelow, CopyKept
<1>2. FInv /\ [Next]_vars => FInv'
  BY FInvKept
<1> QED
  BY <1>1, <1>2, InitStored, PTL DEF Spec

-----------------------------------------------------------------------------
(* The drops settings.                                                      *)

SaverPlaces == {"idle", "merge", "read", "service", "stored", "push"}
PushStates == {"idle", "spawned", "found", "read"}

(* The lock: a save moves on, or a save starts while none is under way.     *)
LEMMA OneSaver ==
  ASSUME DropsTypeOK, NEW s \in Savers, NEW place \in SaverPlaces, SaverAt(s, place),
         Saving(s) \/ LockFree \/ place \in {"idle", "merge"}
  PROVE  /\ at' \in [Savers -> SaverPlaces]
         /\ \A u, v \in Savers : Saving(u)' /\ Saving(v)' => u = v
<1>1. at' \in [Savers -> SaverPlaces]
  BY DEF DropsTypeOK, SaverAt, SaverPlaces
<1>2. \A u \in Savers : u # s => (Saving(u)' <=> Saving(u))
  BY DEF DropsTypeOK, SaverAt, Saving
<1>3. CASE place \in {"idle", "merge"}
  <2>1. ~Saving(s)'
    BY <1>3 DEF DropsTypeOK, SaverAt, Saving
  <2> QED
    BY <1>1, <1>2, <2>1 DEF DropsTypeOK
<1>4. CASE Saving(s) \/ LockFree
  BY <1>1, <1>2, <1>4 DEF DropsTypeOK, LockFree
<1> QED
  BY <1>3, <1>4

(* A push that is spawned disturbs no other.                                *)
LEMMA SpawnTyped ==
  ASSUME DropsTypeOK, SpawnPush
  PROVE  /\ push' \in [Pushes -> PushStates] /\ targets' \in [Pushes -> SUBSET Plugins]
         /\ \A p \in Pushes : push'[p] \in {"found", "read"} <=> targets'[p] # {}
         /\ carried' \in [Pushes -> DropsValues]
         /\ \E p \in Pushes : push'[p] = "spawned"
<1>1. PICK p \in Pushes : /\ push[p] = "idle" /\ push' = [push EXCEPT ![p] = "spawned"]
                         /\ targets' = targets /\ carried' = carried
  BY DEF SpawnPush
<1>2. /\ push' \in [Pushes -> PushStates] /\ push'[p] = "spawned"
      /\ \A r \in Pushes : r # p => push'[r] = push[r]
  BY <1>1 DEF DropsTypeOK, PushStates
<1>3. \A r \in Pushes : push'[r] \in {"found", "read"} <=> targets'[r] # {}
  BY <1>1, <1>2 DEF DropsTypeOK
<1> QED
  BY <1>1, <1>2, <1>3 DEF DropsTypeOK

(* Pushes that lose targets keep their types; one that still has a target   *)
(* goes on as it was.                                                       *)
LEMMA LeaveTyped ==
  ASSUME DropsTypeOK, NEW left \in [Pushes -> SUBSET Plugins], Leave(left),
         \A p \in Pushes : left[p] \subseteq targets[p]
  PROVE  /\ push' \in [Pushes -> PushStates] /\ targets' = left
         /\ \A p \in Pushes : push'[p] \in {"found", "read"} <=> targets'[p] # {}
         /\ carried' \in [Pushes -> DropsValues]
         /\ \A p \in Pushes : (targets[p] = {} \/ left[p] # {}) =>
               push'[p] = push[p] /\ carried'[p] = carried[p]
<1>1. DropsDefaults \in DropsValues
  BY DEF DropsDefaults, DropsValues
<1>2. /\ targets' = left
      /\ push' = [p \in Pushes |-> IF targets[p] # {} /\ left[p] = {} THEN "idle" ELSE push[p]]
      /\ carried' = [p \in Pushes |->
                       IF targets[p] # {} /\ left[p] = {} THEN DropsDefaults ELSE carried[p]]
  BY DEF Leave
<1>3. push' \in [Pushes -> PushStates]
  BY <1>2 DEF DropsTypeOK, PushStates
<1>4. carried' \in [Pushes -> DropsValues]
  BY <1>1, <1>2 DEF DropsTypeOK
<1>5. \A p \in Pushes : push'[p] \in {"found", "read"} <=> targets'[p] # {}
  BY <1>2 DEF DropsTypeOK
<1> QED
  BY <1>2, <1>3, <1>4, <1>5

LEMMA SaversTyped ==
  ASSUME DropsTypeOK, NEW s \in Savers,
         \/ \E ks \in SUBSET DropsKeys : BeginSave(s, ks)
         \/ SaverStep(s) \/ RefusePatch(s) \/ BeginImport(s)
         \/ \E holds \in BOOLEAN : Import(s, holds)
  PROVE  DropsTypeOK'
<1> USE DropsAssumption
<1>1. ASSUME NEW ks \in SUBSET DropsKeys, BeginSave(s, ks) PROVE DropsTypeOK'
  <2>1. /\ at' \in [Savers -> SaverPlaces]
        /\ \A u, v \in Savers : Saving(u)' /\ Saving(v)' => u = v
    BY <1>1, OneSaver DEF BeginSave, SaverPlaces, DropsTypeOK
  <2>2. named' \in [Savers -> SUBSET DropsKeys]
    BY <1>1 DEF BeginSave, DropsTypeOK
  <2> QED
    BY <1>1, <2>1, <2>2 DEF BeginSave, DropsTypeOK, SaverPlaces, plugin, pushing
<1>2. ASSUME ApplyPatch(s) PROVE DropsTypeOK'
  <2>1. /\ at' \in [Savers -> SaverPlaces]
        /\ \A u, v \in Savers : Saving(u)' /\ Saving(v)' => u = v
    BY <1>2, OneSaver DEF ApplyPatch, SaverPlaces, DropsTypeOK, Saving
  <2>2. next' \in [Savers -> DropsValues] /\ dropsMade' \in 0..MaxDropsSaves
    BY <1>2 DEF ApplyPatch, DropsTypeOK, DropsValues
  <2> QED
    BY <1>2, <2>1, <2>2 DEF ApplyPatch, DropsTypeOK, SaverPlaces, plugin, pushing
<1>3. ASSUME UpdateService(s) PROVE DropsTypeOK'
  <2>1. /\ at' \in [Savers -> SaverPlaces]
        /\ \A u, v \in Savers : Saving(u)' /\ Saving(v)' => u = v
    BY <1>3, OneSaver DEF UpdateService, SaverPlaces, DropsTypeOK, Saving
  <2> QED
    BY <1>3, <2>1 DEF UpdateService, DropsTypeOK, SaverPlaces, plugin, pushing
<1>4. ASSUME UpdateStored(s) PROVE DropsTypeOK'
  <2>1. /\ at' \in [Savers -> SaverPlaces]
        /\ \A u, v \in Savers : Saving(u)' /\ Saving(v)' => u = v
    BY <1>4, OneSaver DEF UpdateStored, SaverPlaces, DropsTypeOK, Saving
  <2> QED
    BY <1>4, <2>1 DEF UpdateStored, DropsTypeOK, SaverPlaces, plugin, pushing
<1>5. ASSUME SaverReturns(s)
      PROVE  /\ at' \in [Savers -> SaverPlaces]
             /\ \A u, v \in Savers : Saving(u)' /\ Saving(v)' => u = v
             /\ named' \in [Savers -> SUBSET DropsKeys]
             /\ next' \in [Savers -> DropsValues]
  <2>1. "idle" \in SaverPlaces /\ SaverAt(s, "idle")
    BY <1>5 DEF SaverReturns, SaverPlaces
  <2>2. DropsDefaults \in DropsValues
    BY DEF DropsDefaults, DropsValues
  <2> QED
    BY <1>5, <2>1, <2>2, OneSaver DEF SaverReturns, DropsTypeOK
<1>6. ASSUME PushSaved(s) PROVE DropsTypeOK'
  BY <1>5, <1>6, SpawnTyped DEF PushSaved, DropsTypeOK, SaverPlaces, PushStates, plugin
<1>7. ASSUME RefusePatch(s) PROVE DropsTypeOK'
  BY <1>5, <1>7 DEF RefusePatch, DropsTypeOK, SaverPlaces, plugin, pushing
<1>8. ASSUME BeginImport(s) PROVE DropsTypeOK'
  <2>1. /\ at' \in [Savers -> SaverPlaces]
        /\ \A u, v \in Savers : Saving(u)' /\ Saving(v)' => u = v
    BY <1>8, OneSaver DEF BeginImport, SaverPlaces, DropsTypeOK
  <2>2. next' \in [Savers -> DropsValues]
    BY <1>8 DEF BeginImport, DropsTypeOK
  <2> QED
    BY <1>8, <2>1, <2>2 DEF BeginImport, DropsTypeOK, SaverPlaces, plugin, pushing
<1>9. ASSUME NEW holds \in BOOLEAN, Import(s, holds) PROVE DropsTypeOK'
  <2>1. stored' \in DropsValues /\ dropsMade' \in 0..MaxDropsSaves
    BY <1>9 DEF Import, DropsTypeOK, DropsValues
  <2> QED
    BY <1>5, <1>9, <2>1 DEF Import, DropsTypeOK, SaverPlaces, plugin, pushing
<1> QED
  BY <1>1, <1>2, <1>3, <1>4, <1>6, <1>7, <1>8, <1>9 DEF SaverStep

LEMMA PushesTyped ==
  ASSUME DropsTypeOK, NEW p \in Pushes, PushStep(p)
  PROVE  DropsTypeOK'
<1> USE DropsAssumption
<1>1. CASE FindPlugins(p)
  <2> DEFINE found == {q \in Plugins : plug[q] # "down"}
  <2>1. /\ targets' = [targets EXCEPT ![p] = found]
        /\ push' = [push EXCEPT ![p] = IF found = {} THEN "idle" ELSE "found"]
        /\ push[p] = "spawned" /\ found \in SUBSET Plugins
    BY <1>1 DEF FindPlugins, DropsTypeOK
  <2>2. push' \in [Pushes -> PushStates] /\ targets' \in [Pushes -> SUBSET Plugins]
    BY <2>1 DEF DropsTypeOK, PushStates
  <2>3. \A r \in Pushes : push'[r] \in {"found", "read"} <=> targets'[r] # {}
    BY <2>1 DEF DropsTypeOK
  <2> QED
    BY <1>1, <2>2, <2>3 DEF FindPlugins, DropsTypeOK, PushStates, call, plugin, Saving
<1>2. CASE ReadService(p)
  <2>1. push' \in [Pushes -> PushStates] /\ carried' \in [Pushes -> DropsValues]
    BY <1>2 DEF ReadService, DropsTypeOK, PushStates
  <2>2. \A r \in Pushes : push'[r] \in {"found", "read"} <=> targets'[r] # {}
    BY <1>2 DEF ReadService, DropsTypeOK
  <2> QED
    BY <1>2, <2>1, <2>2 DEF ReadService, DropsTypeOK, PushStates, call, plugin, Saving
<1>3. ASSUME NEW q \in Plugins, Configure(p, q) PROVE DropsTypeOK'
  <2> DEFINE left == [targets EXCEPT ![p] = @ \ {q}]
  <2>1. /\ left \in [Pushes -> SUBSET Plugins] /\ Leave(left)
        /\ \A r \in Pushes : left[r] \subseteq targets[r]
    BY <1>3 DEF Configure, DropsTypeOK
  <2> HIDE DEF left
  <2>2. /\ push' \in [Pushes -> PushStates] /\ targets' \in [Pushes -> SUBSET Plugins]
        /\ \A r \in Pushes : push'[r] \in {"found", "read"} <=> targets'[r] # {}
        /\ carried' \in [Pushes -> DropsValues]
    BY <2>1, LeaveTyped
  <2>3. held' \in [Plugins -> DropsValues] /\ seen' \in [Plugins -> DropsValues]
    BY <1>3 DEF Configure, DropsTypeOK, DropsValues
  <2> QED
    BY <1>3, <2>2, <2>3 DEF Configure, DropsTypeOK, PushStates, call, Saving
<1> QED
  BY <1>1, <1>2, <1>3 DEF PushStep

LEMMA PluginsTyped ==
  ASSUME DropsTypeOK, NEW q \in Plugins,
         Register(q) \/ PushStarted(q) \/ GoDown(q)
  PROVE  DropsTypeOK'
<1> USE DropsAssumption
<1>1. CASE Register(q)
  BY <1>1 DEF Register, DropsTypeOK, call, pushing, Saving
<1>2. CASE PushStarted(q)
  <2>1. plug' \in [Plugins -> {"down", "registered", "up"}]
    BY <1>2 DEF PushStarted, DropsTypeOK
  <2> QED
    BY <1>2, <2>1, SpawnTyped DEF PushStarted, DropsTypeOK, PushStates, call, Saving
<1>3. CASE GoDown(q)
  <2> DEFINE left == [p \in Pushes |-> targets[p] \ {q}]
  <2>1. /\ left \in [Pushes -> SUBSET Plugins] /\ Leave(left)
        /\ \A r \in Pushes : left[r] \subseteq targets[r]
    BY <1>3 DEF GoDown, DropsTypeOK
  <2> HIDE DEF left
  <2>2. /\ push' \in [Pushes -> PushStates] /\ targets' \in [Pushes -> SUBSET Plugins]
        /\ \A r \in Pushes : push'[r] \in {"found", "read"} <=> targets'[r] # {}
        /\ carried' \in [Pushes -> DropsValues]
    BY <2>1, LeaveTyped
  <2>3. /\ held' \in [Plugins -> DropsValues] /\ seen' \in [Plugins -> DropsValues]
        /\ plug' \in [Plugins -> {"down", "registered", "up"}]
    BY <1>3 DEF GoDown, DropsTypeOK, DropsValues, DropsDefaults
  <2> QED
    BY <1>3, <2>2, <2>3 DEF GoDown, DropsTypeOK, PushStates, call, Saving
<1> QED
  BY <1>1, <1>2, <1>3

LEMMA DropsInitTyped == DropsInit => DropsTypeOK
<1> SUFFICES ASSUME DropsInit PROVE DropsTypeOK
  OBVIOUS
<1>1. DropsDefaults \in DropsValues
  BY DEF DropsDefaults, DropsValues
<1>2. \A s \in Savers : ~Saving(s)
  BY DEF DropsInit, Saving
<1>3. imported \in BOOLEAN
  BY Zenon DEF DropsInit
<1> QED
  BY <1>1, <1>2, <1>3, DropsAssumption DEF DropsInit, DropsTypeOK

LEMMA TypeKept ==
  ASSUME DropsTypeOK, [DropsNext]_dropsVars
  PROVE  DropsTypeOK'
<1> USE DropsAssumption
<1>1. CASE UNCHANGED dropsVars
  BY <1>1 DEF dropsVars, DropsTypeOK, Saving
<1> QED
  BY <1>1, SaversTyped, PushesTyped, PluginsTyped DEF DropsNext

(* Every variable keeps its type, and the saves of drops settings exclude   *)
(* each other.                                                              *)
THEOREM DropsTypeCorrect == DropsSpec => []DropsTypeOK
<1>1. DropsTypeOK /\ [DropsNext]_dropsVars => DropsTypeOK'
  BY TypeKept
<1> QED
  BY <1>1, DropsInitTyped, PTL DEF DropsSpec

-----------------------------------------------------------------------------
(* The service and the stored settings, before an import.                   *)

(* Where a save stands tells what the two copies hold; and what it is about *)
(* to save differs from the stored copy in the settings it names only.      *)
InStep ==
    /\ \A s \in Savers : at[s] \in {"read", "service", "push"} => service = stored
    /\ \A s \in Savers : at[s] = "stored" => service = next[s]
    /\ \A s \in Savers : at[s] \in {"service", "stored"} =>
          \A k \in DropsKeys \ named[s] : next[s][k] = stored[k]
    /\ LockFree => service = stored

Agreeing == ~imported => InStep

AInv == DropsTypeOK /\ Agreeing

LEMMA AgreeingKept ==
  ASSUME AInv, [DropsNext]_dropsVars
  PROVE  Agreeing'
<1> SUFFICES ASSUME ~imported' PROVE InStep'
  BY DEF Agreeing
<1> USE DEF AInv, DropsTypeOK
<1>0. ~imported => InStep
  BY DEF Agreeing
<1>1. ASSUME NEW s \in Savers, NEW ks \in SUBSET DropsKeys, BeginSave(s, ks) PROVE InStep'
  <2>1. /\ service = stored /\ service' = service /\ stored' = stored /\ next' = next
        /\ \A u \in Savers : ~Saving(u)
        /\ at'[s] = "read" /\ \A u \in Savers : u # s => at'[u] = at[u]
    BY <1>0, <1>1 DEF BeginSave, SaverAt, InStep, LockFree
  <2> QED
    BY <2>1 DEF InStep, Saving
<1>2. ASSUME NEW s \in Savers, ApplyPatch(s) PROVE InStep'
  <2>1. /\ service = stored /\ service' = service /\ stored' = stored /\ named' = named
        /\ at'[s] = "service" /\ Saving(s)
        /\ \A u \in Savers : u # s => at'[u] = at[u] /\ ~Saving(u)
    BY <1>0, <1>2 DEF ApplyPatch, SaverAt, InStep, Saving
  <2>2. \A k \in DropsKeys \ named'[s] : next'[s][k] = stored[k]
    BY <1>2, <2>1 DEF ApplyPatch
  <2> QED
    BY <2>1, <2>2 DEF InStep, Saving
<1>3. ASSUME NEW s \in Savers, UpdateService(s) PROVE InStep'
  <2>1. /\ service' = next[s] /\ stored' = stored /\ named' = named /\ next' = next
        /\ at[s] = "service" /\ at'[s] = "stored" /\ Saving(s)' /\ InStep
        /\ \A u \in Savers : u # s => at'[u] = at[u] /\ ~Saving(u)
    BY <1>0, <1>3 DEF UpdateService, SaverAt, Saving
  <2>2. ~LockFree'
    BY <2>1 DEF LockFree
  <2> QED
    BY <2>1, <2>2 DEF InStep, Saving
<1>4. ASSUME NEW s \in Savers, UpdateStored(s) PROVE InStep'
  <2>1. /\ service' = service /\ stored' = next[s] /\ service = next[s]
        /\ at'[s] = "push" /\ Saving(s)
        /\ \A u \in Savers : u # s => at'[u] = at[u] /\ ~Saving(u)
    BY <1>0, <1>4 DEF UpdateStored, SaverAt, InStep, Saving
  <2> QED
    BY <2>1 DEF InStep, Saving
<1>5. ASSUME NEW s \in Savers, PushSaved(s) \/ RefusePatch(s) PROVE InStep'
  <2>1. /\ service' = service /\ stored' = stored /\ service = stored
        /\ at'[s] = "idle" /\ Saving(s)
        /\ \A u \in Savers : u # s => at'[u] = at[u] /\ ~Saving(u)
    BY <1>0, <1>5 DEF PushSaved, RefusePatch, SaverReturns, SaverAt, InStep, Saving
  <2> QED
    BY <2>1 DEF InStep, Saving
<1>6. ASSUME NEW s \in Savers, BeginImport(s) PROVE InStep'
  <2>1. /\ service' = service /\ stored' = stored /\ named' = named /\ InStep
        /\ at[s] = "idle" /\ at'[s] = "merge"
        /\ \A u \in Savers : u # s => at'[u] = at[u] /\ next'[u] = next[u]
    BY <1>0, <1>6 DEF BeginImport, SaverAt
  <2>2. LockFree' => LockFree
    BY <2>1 DEF LockFree, Saving
  <2> QED
    BY <2>1, <2>2 DEF InStep
<1>7. ASSUME UNCHANGED <<imported, service, stored, call>> PROVE InStep'
  BY <1>0, <1>7 DEF call, InStep, LockFree, Saving
<1>8. ASSUME NEW p \in Pushes, PushStep(p) PROVE UNCHANGED <<imported, service, stored, call>>
  BY <1>8 DEF PushStep, FindPlugins, ReadService, Configure
<1>9. ASSUME NEW q \in Plugins,
         Register(q) \/ PushStarted(q) \/ GoDown(q)
      PROVE UNCHANGED <<imported, service, stored, call>>
  BY <1>9 DEF Register, PushStarted, GoDown
<1>10. CASE UNCHANGED dropsVars
  BY <1>7, <1>10 DEF dropsVars, call
<1>11. ASSUME NEW s \in Savers, NEW holds \in BOOLEAN, Import(s, holds) PROVE FALSE
  BY <1>11 DEF Import
<1> QED
  BY <1>1, <1>2, <1>3, <1>4, <1>5, <1>6, <1>7, <1>8, <1>9, <1>10, <1>11 DEF DropsNext,
     SaverStep

LEMMA AInvKept ==
  ASSUME AInv, [DropsNext]_dropsVars
  PROVE  AInv'
BY TypeKept, AgreeingKept DEF AInv

LEMMA InitAgreeing == DropsInit => AInv
<1> SUFFICES ASSUME DropsInit PROVE Agreeing
  BY DropsInitTyped DEF AInv
<1> QED
  BY DEF DropsInit, Agreeing, InStep

(* Before an import the service and the stored settings agree whenever no   *)
(* save is between them (save_drops_settings).                              *)
THEOREM CopiesAlwaysAgree == DropsSpec => []CopiesAgree
<1>1. AInv => CopiesAgree
  BY DEF AInv, Agreeing, InStep, CopiesAgree
<1>2. AInv /\ [DropsNext]_dropsVars => AInv'
  BY AInvKept
<1> QED
  BY <1>1, <1>2, InitAgreeing, PTL DEF DropsSpec

(* Before an import a patch changes the stored settings it names and no     *)
(* other (patch_drops_settings).                                            *)
THEOREM PatchesChangeNamed == DropsSpec => PatchChangesNamed
<1> DEFINE Named == ~imported => \A s \in Savers : KeepsOthers(s)
<1>1. AInv => Named
  BY DEF AInv, Agreeing, InStep, UpdateStored, KeepsOthers
<1>2. AInv /\ [DropsNext]_dropsVars => AInv'
  BY AInvKept
<1>3. AInv /\ [DropsNext]_dropsVars => [Named]_dropsVars
  BY <1>1
<1> QED
  BY <1>2, <1>3, InitAgreeing, PTL DEF DropsSpec, PatchChangesNamed

-----------------------------------------------------------------------------
(***************************************************************************)
(* No plugin is missed, imports or not: the plugin that starts registers   *)
(* before its push is spawned and the save changes the service before its  *)
(* push is, so whichever comes second finds the other.                     *)
(***************************************************************************)
MInv == DropsTypeOK /\ NoPluginMissed

(* The plugin q has the latest settings or gets them.                       *)
Served(q) ==
    \/ NewerOrSame(seen[q], service)
    \/ \E s \in Savers : at[s] \in {"stored", "push"}
    \/ \E p \in Pushes : Bringing(p, q)

(* A step that neither changes the service nor takes a plugin its settings  *)
(* serves it as before, when it keeps the pushes that serve it.             *)
LEMMA StillServed ==
  ASSUME DropsTypeOK, NEW q \in Plugins, Served(q),
         service' = service, seen'[q] = seen[q],
         \A s \in Savers : at[s] \in {"stored", "push"} => at'[s] \in {"stored", "push"},
         \A p \in Pushes : Bringing(p, q) => Bringing(p, q)'
  PROVE  Served(q)'
BY DEF Served, NewerOrSame

(* A newly spawned push will reach every plugin that runs.                  *)
LEMMA SpawnServes ==
  ASSUME DropsTypeOK, SpawnPush, NEW q \in Plugins
  PROVE  Served(q)'
<1>1. \E p \in Pushes : push'[p] = "spawned"
  BY SpawnTyped
<1> QED
  BY <1>1 DEF Served, Bringing

LEMMA SaversServe ==
  ASSUME MInv, NEW s \in Savers, NEW q \in Plugins, plug'[q] = "up",
         \/ \E ks \in SUBSET DropsKeys : BeginSave(s, ks)
         \/ SaverStep(s) \/ RefusePatch(s) \/ BeginImport(s)
         \/ \E holds \in BOOLEAN : Import(s, holds)
  PROVE  Served(q)'
<1> USE DEF MInv, DropsTypeOK
<1>1. CASE PushSaved(s)
  BY <1>1, SpawnServes DEF PushSaved
<1>2. CASE UpdateService(s)
  <2>1. at'[s] = "stored"
    BY <1>2 DEF UpdateService, SaverAt
  <2> QED
    BY <2>1 DEF Served
<1>3. CASE UpdateStored(s)
  <2>1. at'[s] = "push"
    BY <1>3 DEF UpdateStored, SaverAt
  <2> QED
    BY <2>1 DEF Served
<1>4. CASE \/ \E ks \in SUBSET DropsKeys : BeginSave(s, ks)
           \/ ApplyPatch(s) \/ RefusePatch(s) \/ BeginImport(s)
           \/ \E holds \in BOOLEAN : Import(s, holds)
  <2>1. /\ service' = service /\ UNCHANGED plugin /\ UNCHANGED pushing
        /\ at[s] \notin {"stored", "push"}
        /\ \E place \in SaverPlaces : SaverAt(s, place)
    BY <1>4 DEF BeginSave, ApplyPatch, RefusePatch, BeginImport,
                Import, SaverReturns, SaverPlaces
  <2>2. \A u \in Savers : u # s => at'[u] = at[u]
    BY <2>1 DEF SaverAt
  <2>3. Served(q)
    BY <2>1 DEF NoPluginMissed, Served, plugin
  <2> QED
    BY <2>1, <2>2, <2>3, StillServed DEF plugin, pushing, Bringing, NewerOrSame
<1> QED
  BY <1>1, <1>2, <1>3, <1>4 DEF SaverStep

LEMMA PushesServe ==
  ASSUME MInv, NEW p \in Pushes, PushStep(p), NEW q \in Plugins, plug'[q] = "up"
  PROVE  Served(q)'
<1> USE DEF MInv, DropsTypeOK
<1>1. plug' = plug /\ service' = service /\ at' = at
  BY DEF PushStep, FindPlugins, ReadService, Configure, plugin, call
<1>2. Served(q)
  BY <1>1 DEF NoPluginMissed, Served
<1>3. CASE FindPlugins(p)
  <2> DEFINE found == {r \in Plugins : plug[r] # "down"}
  <2>1. /\ targets' = [targets EXCEPT ![p] = found]
        /\ push' = [push EXCEPT ![p] = IF found = {} THEN "idle" ELSE "found"]
        /\ seen' = seen /\ carried' = carried /\ q \in found
    BY <1>1, <1>3 DEF FindPlugins, plugin
  <2>2. Bringing(p, q)'
    BY <2>1 DEF Bringing
  <2> QED
    BY <2>2 DEF Served
<1>4. CASE ReadService(p)
  <2>1. /\ carried'[p] = service /\ push[p] = "found" /\ push'[p] = "read"
        /\ targets' = targets /\ seen' = seen
        /\ \A r \in Pushes : r # p => push'[r] = push[r] /\ carried'[r] = carried[r]
    BY <1>4 DEF ReadService, plugin
  <2>2. NewerOrSame(carried[p], service)'
    BY <1>1, <2>1 DEF NewerOrSame, DropsValues
  <2>3. \A r \in Pushes : Bringing(r, q) => Bringing(r, q)'
    BY <1>1, <2>1, <2>2 DEF Bringing, NewerOrSame
  <2> QED
    BY <1>1, <1>2, <2>1, <2>3, StillServed
<1>5. ASSUME NEW r \in Plugins, Configure(p, r) PROVE Served(q)'
  <2> DEFINE left == [targets EXCEPT ![p] = @ \ {r}]
  <2>0. /\ left \in [Pushes -> SUBSET Plugins] /\ Leave(left)
        /\ \A o \in Pushes : left[o] \subseteq targets[o]
        /\ \A o \in Pushes : ~(o = p /\ q = r) /\ q \in targets[o] => q \in left[o]
        /\ push[p] = "read" /\ r \in targets[p]
    BY <1>5 DEF Configure
  <2> HIDE DEF left
  <2>1. /\ targets' = left
        /\ \A o \in Pushes : (targets[o] = {} \/ left[o] # {}) =>
              push'[o] = push[o] /\ carried'[o] = carried[o]
    BY <2>0, LeaveTyped
  <2>2. /\ q # r => seen'[q] = seen[q]
        /\ \A k \in DropsKeys : seen'[q][k] >= seen[q][k]
        /\ q = r => \A k \in DropsKeys : seen'[q][k] >= carried[p][k]
    BY <1>5 DEF Configure, DropsValues
  <2>3. seen'[q] \in DropsValues
    BY TypeKept, <1>5 DEF PushStep, DropsNext
  <2>4. CASE NewerOrSame(seen[q], service)
    <3>1. NewerOrSame(seen[q], service)'
      <4> SUFFICES ASSUME NEW k \in DropsKeys PROVE seen'[q][k] >= service[k]
        BY <1>1 DEF NewerOrSame
      <4>1. seen'[q][k] >= seen[q][k] /\ seen[q][k] >= service[k]
        BY <2>2, <2>4 DEF NewerOrSame
      <4>2. seen'[q][k] \in Nat /\ seen[q][k] \in Nat /\ service[k] \in Nat
        BY <2>3 DEF DropsValues
      <4> QED
        BY <4>1, <4>2
    <3> QED
      BY <3>1 DEF Served
  <2>5. CASE \E s \in Savers : at[s] \in {"stored", "push"}
    BY <1>1, <2>5 DEF Served
  <2>6. ASSUME NEW o \in Pushes, Bringing(o, q) PROVE Served(q)'
    <3>1. CASE o = p /\ q = r
      <4>1. NewerOrSame(carried[p], service)
        BY <2>0, <2>6, <3>1 DEF Bringing
      <4>2. NewerOrSame(seen[q], service)'
        <5> SUFFICES ASSUME NEW k \in DropsKeys PROVE seen'[q][k] >= service[k]
          BY <1>1 DEF NewerOrSame
        <5>1. seen'[q][k] >= carried[p][k] /\ carried[p][k] >= service[k]
          BY <2>2, <3>1, <4>1 DEF NewerOrSame
        <5>2. seen'[q][k] \in Nat /\ carried[p][k] \in Nat /\ service[k] \in Nat
          BY <2>3 DEF DropsValues
        <5> QED
          BY <5>1, <5>2
      <4> QED
        BY <4>2 DEF Served
    <3>2. CASE ~(o = p /\ q = r)
      <4>1. push[o] = "spawned" => targets[o] = {}
        OBVIOUS
      <4>2. /\ push'[o] = push[o] /\ carried'[o] = carried[o]
            /\ q \in targets[o] => q \in targets'[o]
        BY <2>0, <2>1, <2>6, <3>2, <4>1 DEF Bringing
      <4>3. Bringing(o, q)'
        BY <1>1, <2>6, <4>2 DEF Bringing, NewerOrSame
      <4> QED
        BY <4>3 DEF Served
    <3> QED
      BY <3>1, <3>2
  <2> QED
    BY <1>2, <2>4, <2>5, <2>6 DEF Served
<1> QED
  BY <1>3, <1>4, <1>5 DEF PushStep

LEMMA PluginsServe ==
  ASSUME MInv, NEW r \in Plugins, Register(r) \/ PushStarted(r) \/ GoDown(r),
         NEW q \in Plugins, plug'[q] = "up"
  PROVE  Served(q)'
<1> USE DEF MInv, DropsTypeOK
<1>1. CASE PushStarted(r)
  BY <1>1, SpawnServes DEF PushStarted
<1>2. CASE Register(r)
  <2>1. q # r /\ plug[q] = "up"
    BY <1>2 DEF Register
  <2>2. Served(q)
    BY <2>1 DEF NoPluginMissed, Served
  <2> QED
    BY <1>2, <2>2, StillServed DEF Register, call, pushing, Bringing, NewerOrSame
<1>3. CASE GoDown(r)
  <2> DEFINE left == [p \in Pushes |-> targets[p] \ {r}]
  <2>1. q # r /\ plug[q] = "up" /\ seen'[q] = seen[q] /\ service' = service /\ at' = at
    BY <1>3 DEF GoDown, call
  <2>2. Served(q)
    BY <2>1 DEF NoPluginMissed, Served
  <2>3. /\ left \in [Pushes -> SUBSET Plugins] /\ Leave(left)
        /\ \A p \in Pushes : left[p] \subseteq targets[p]
        /\ \A p \in Pushes : q \in targets[p] => q \in left[p]
    BY <1>3, <2>1 DEF GoDown
  <2> HIDE DEF left
  <2>4. /\ targets' = left
        /\ \A p \in Pushes : (targets[p] = {} \/ left[p] # {}) =>
              push'[p] = push[p] /\ carried'[p] = carried[p]
    BY <2>3, LeaveTyped
  <2>5. \A p \in Pushes : Bringing(p, q) => Bringing(p, q)'
    <3> SUFFICES ASSUME NEW p \in Pushes, Bringing(p, q) PROVE Bringing(p, q)'
      OBVIOUS
    <3>1. push[p] = "spawned" => targets[p] = {}
      OBVIOUS
    <3>2. /\ push'[p] = push[p] /\ carried'[p] = carried[p]
          /\ q \in targets[p] => q \in targets'[p]
      BY <2>3, <2>4, <3>1 DEF Bringing
    <3> QED
      BY <2>1, <3>2 DEF Bringing, NewerOrSame
  <2> QED
    BY <2>1, <2>2, <2>5, StillServed
<1> QED
  BY <1>1, <1>2, <1>3

(* Every running plugin holds, has held or is being brought the settings of *)
(* the latest save, for any number of plugins and saves.                    *)
THEOREM NoPluginEverMissed == DropsSpec => []NoPluginMissed
<1>1. DropsInit => MInv
  BY DropsInitTyped DEF DropsInit, MInv, NoPluginMissed
<1>2. MInv /\ [DropsNext]_dropsVars => MInv'
  <2> SUFFICES ASSUME MInv, [DropsNext]_dropsVars, NEW q \in Plugins, plug'[q] = "up"
               PROVE  Served(q)'
    BY TypeKept DEF MInv, NoPluginMissed, Served
  <2>1. CASE UNCHANGED dropsVars
    BY <2>1 DEF dropsVars, MInv, NoPluginMissed, Served, Bringing, NewerOrSame
  <2> QED
    BY <2>1, SaversServe, PushesServe, PluginsServe DEF DropsNext
<1>3. MInv => NoPluginMissed
  BY DEF MInv
<1> QED
  BY <1>1, <1>2, <1>3, PTL DEF DropsSpec
=============================================================================
