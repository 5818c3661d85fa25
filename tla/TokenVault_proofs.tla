-------------------------- MODULE TokenVault_proofs --------------------------
(***************************************************************************)
(* Proofs about TokenVault, for any credentials, threads and bounds.       *)
(***************************************************************************)
EXTENDS TokenVault, TLAPS

CallRecords == [op : {"none", "store", "load", "jar"}, pc : Steps, c : Creds, raw : Files]

-----------------------------------------------------------------------------
(* The inductive invariant.                                                 *)
(*                                                                          *)
(* A sign-in is safe between the steps because of what the thread that has  *)
(* its file in hand knows: what it is about to write is what the file or    *)
(* the mirror holds, the key it sealed it with is written, and what it is   *)
(* about to delete nobody can open.                                         *)

Busy(t) == call[t].pc # "idle"
Making == {"key", "file", "fill", "write"}

Knows(t) ==
    LET c == call[t].c  raw == call[t].raw IN
    /\ call[t].pc = "write" =>
            raw.form \in Sealed /\ (raw.form = "file" => keyFile = "written")
    /\ Busy(t) => call[t].op \in {"store", "load", "jar"}
    /\ Busy(t) /\ call[t].op = "store" => raw.v # 0 /\ call[t].pc \in Making
    /\ Busy(t) /\ call[t].op = "load" => file[c].form # "none" /\ raw.v = file[c].v
    /\ call[t].op = "jar" /\ call[t].pc \in Making =>
            c \in jars /\ file[c].form = "none" /\ raw.v = 1
    /\ Busy(t) /\ call[t].op = "jar" => c \notin todo
    /\ call[t].pc = "open" => raw = file[c]
    /\ call[t].pc \in {"open", "move", "delete"} => call[t].op = "load"
    /\ call[t].pc = "delete" => latest[c] = 0
    /\ call[t].pc = "unjar" => call[t].op = "jar" /\ file[c].form # "none"

\* Two threads have neither a file nor the lock of the key in hand at once.
Apart == \A t, u \in Threads :
    Busy(t) /\ Busy(u) =>
        \/ t = u
        \/ call[t].c # call[u].c /\ ~(call[t].pc = "fill" /\ call[u].pc = "fill")

Turns ==
    /\ phase # "done" => \A t \in Callers : ~Busy(t)
    /\ phase = "done" => ~Busy("migration")
    /\ phase = "jars" => todo \subseteq jars

Kept(c) == latest[c] # 0 => Holds(c) = latest[c] /\ Openable(c)

IInv == TypeOK /\ Apart /\ Turns /\ (\A c \in Creds : Kept(c)) /\ \A t \in Threads : Knows(t)

-----------------------------------------------------------------------------
(* Facts about states *)

LEMMA IdleTyped == Idle \in CallRecords /\ NoFile \in Files /\ Idle.pc = "idle"
<1>1. (CHOOSE c \in Creds : TRUE) \in Creds
  BY VaultConstants
<1>2. 0 \in Versions
  BY VaultConstants DEF Versions
<1>3. NoFile \in Files
  BY <1>2 DEF NoFile, File, Files
<1> QED
  BY <1>1, <1>3 DEF Idle, CallRecords, Steps

LEMMA FileTyped ==
  ASSUME NEW form \in {"none", "legacy", "os", "file"}, NEW v \in Versions
  PROVE  /\ File(form, v) \in Files /\ File(form, v).form = form
         /\ File(form, v).ours /\ File(form, v).v = v
BY DEF File, Files, Sealed

LEMMA CallTyped ==
  ASSUME TypeOK
  PROVE  /\ call \in [Threads -> CallRecords] /\ file \in [Creds -> Files]
         /\ latest \in [Creds -> Versions]
BY DEF TypeOK, CallRecords

LEMMA Typed ==
  ASSUME /\ file' \in [Creds -> Files] /\ jars' \subseteq Named /\ todo' \subseteq Named
         /\ keyFile' \in {"none", "empty", "written"}
         /\ phone' \in BOOLEAN /\ ready' \in BOOLEAN /\ cached' \in BOOLEAN
         /\ phase' \in {"jars", "files", "done"}
         /\ call' \in [Threads -> CallRecords]
         /\ latest' \in [Creds -> Versions]
         /\ made' \in 0..MaxStores /\ faults' \in 0..MaxFaults /\ ends' \in 0..MaxEnds
         /\ cached' => keyFile' = "written"
         /\ \A t \in Threads : call'[t].pc = "fill" => keyFile' = "empty"
  PROVE  TypeOK'
BY DEF TypeOK, CallRecords

-----------------------------------------------------------------------------
(* A step of one thread *)

\* It touches the call of t, the file c that t has in hand, and the keys.
Handles(t, c) ==
    /\ Busy(t) /\ call[t].c = c
    /\ \A u \in Threads \ {t} : call'[u] = call[u]
    /\ call'[t].pc = "idle" \/ call'[t].c = c
    /\ call' \in [Threads -> CallRecords]
    /\ \A d \in Creds \ {c} :
            file'[d] = file[d] /\ latest'[d] = latest[d] /\ (d \in jars' <=> d \in jars)
    /\ file' \in [Creds -> Files] /\ latest' \in [Creds -> Versions] /\ jars' \subseteq jars
    /\ UNCHANGED <<phone, phase, todo, made, ends>>
    /\ keyFile = "written" => keyFile' = "written"
    /\ keyFile' # keyFile => KeyLockFree \/ call[t].pc = "fill"
    /\ call'[t].pc = "fill" => KeyLockFree /\ keyFile' = "empty"
    /\ keyFile' \in {"none", "empty", "written"}
    /\ ready' \in BOOLEAN /\ cached' \in BOOLEAN /\ faults' \in 0..MaxFaults
    /\ cached' => keyFile' = "written"
    /\ call[t].op = "jar" \/ jars' = jars

LEMMA StepKeeps ==
  ASSUME IInv, NEW t \in Threads, NEW c \in Creds, Handles(t, c), Knows(t)', Kept(c)'
  PROVE  IInv'
<1>0. TypeOK /\ Apart /\ Turns /\ Knows(t) /\ call \in [Threads -> CallRecords]
  BY CallTyped DEF IInv
<1>1. \A u \in Threads \ {t} : call[u].pc = "fill" => keyFile' = "empty"
  BY <1>0 DEF Handles, KeyLockFree, TypeOK, Apart, Busy
<1>2. TypeOK'
  <2>1. \A u \in Threads : call'[u].pc = "fill" => keyFile' = "empty"
    BY <1>1 DEF Handles
  <2> QED
    BY <1>0, <2>1, Typed DEF Handles, TypeOK
<1>3. Apart'
  <2>1. ASSUME NEW u \in Threads \ {t}, Busy(u)'
        PROVE  \/ ~Busy(t)'
               \/ call'[t].c # call'[u].c /\ ~(call'[t].pc = "fill" /\ call'[u].pc = "fill")
    <3>1. call[t].c # call[u].c
      BY <1>0, <2>1 DEF Apart, Busy, Handles
    <3>2. ~(call'[t].pc = "fill" /\ call'[u].pc = "fill")
      BY <2>1 DEF Handles, KeyLockFree
    <3> QED
      BY <3>1, <3>2 DEF Handles, Busy
  <2>2. ASSUME NEW u \in Threads \ {t}, NEW v \in Threads \ {t}, u # v, Busy(u)', Busy(v)'
        PROVE  call'[v].c # call'[u].c /\ ~(call'[v].pc = "fill" /\ call'[u].pc = "fill")
    BY <1>0, <2>2 DEF Apart, Busy, Handles
  <2> QED
    BY <2>1, <2>2 DEF Apart
<1>4. Turns'
  <2>1. phase' # "done" => \A u \in Callers : ~Busy(u)'
    BY <1>0 DEF Turns, Busy, Handles, Threads
  <2>2. phase' = "done" => ~Busy("migration")'
    BY <1>0 DEF Turns, Busy, Handles, Threads
  <2>3. phase' = "jars" => todo' \subseteq jars'
    <3>1. CASE jars' = jars
      BY <1>0, <3>1 DEF Turns, Handles
    <3>2. CASE call[t].op = "jar"
      <4>1. c \notin todo
        BY <1>0, <3>2 DEF Handles, Knows
      <4>2. todo \subseteq Creds
        BY <1>0, VaultConstants DEF TypeOK
      <4> QED
        BY <1>0, <4>1, <4>2 DEF Turns, Handles
    <3> QED
      BY <3>1, <3>2 DEF Handles
  <2> QED
    BY <2>1, <2>2, <2>3 DEF Turns
<1>5. ASSUME NEW d \in Creds \ {c} PROVE Kept(d)'
  BY <1>5 DEF IInv, Kept, Holds, Openable, Handles
<1>6. ASSUME NEW u \in Threads \ {t} PROVE Knows(u)'
  <2>1. Knows(u) /\ call'[u] = call[u] /\ call[u].c \in Creds
    BY <1>0 DEF IInv, Handles, CallRecords
  <2>2. CASE ~Busy(u)
    BY <2>1, <2>2 DEF Knows, Busy, Making
  <2>3. CASE Busy(u)
    <3>1. call[u].c # c
      BY <1>0, <2>3 DEF Apart, Handles
    <3> QED
      BY <2>1, <3>1 DEF Knows, Busy, Making, Handles
  <2> QED
    BY <2>2, <2>3
<1> QED
  BY <1>2, <1>3, <1>4, <1>5, <1>6 DEF IInv

\* The file and the mirror of c are as they were.
LEMMA KeptSame ==
  ASSUME NEW c \in Creds, Kept(c), file'[c] = file[c], latest'[c] = latest[c],
         c \in jars' <=> c \in jars, keyFile = "written" => keyFile' = "written"
  PROVE  Kept(c)'
BY DEF Kept, Holds, Openable

LEMMA GotoMoves ==
  ASSUME call \in [Threads -> CallRecords], NEW t \in Threads, NEW pc \in Steps, Goto(t, pc)
  PROVE  /\ call' \in [Threads -> CallRecords] /\ call'[t].pc = pc
         /\ call'[t].op = call[t].op /\ call'[t].c = call[t].c /\ call'[t].raw = call[t].raw
         /\ \A u \in Threads \ {t} : call'[u] = call[u]
BY DEF Goto, CallRecords

LEMMA DoneMoves ==
  ASSUME call \in [Threads -> CallRecords], NEW t \in Threads, Done(t)
  PROVE  /\ call' \in [Threads -> CallRecords] /\ call'[t].pc = "idle"
         /\ \A u \in Threads \ {t} : call'[u] = call[u]
BY IdleTyped DEF Done

\* A thread that is done knows nothing.
LEMMA IdleKnows ==
  ASSUME NEW t \in Threads, call'[t].pc = "idle"
  PROVE  Knows(t)'
BY DEF Knows, Busy, Making

\* A thread that has its key goes on to write.
Takes(t, s) == call' = [call EXCEPT ![t].pc = "write", ![t].raw.form = s]
LEMMA SealMoves ==
  ASSUME call \in [Threads -> CallRecords], NEW t \in Threads, NEW s \in Sealed,
         Takes(t, s)
  PROVE  /\ call' \in [Threads -> CallRecords] /\ call'[t].pc = "write"
         /\ call'[t].op = call[t].op /\ call'[t].c = call[t].c
         /\ call'[t].raw.form = s /\ call'[t].raw.v = call[t].raw.v
         /\ \A u \in Threads \ {t} : call'[u] = call[u]
<1>1. call[t] \in CallRecords
  OBVIOUS
<1>2. call'[t] = [[call[t] EXCEPT !.pc = "write"] EXCEPT !.raw.form = s]
  BY DEF Takes
<1>3. [call[t].raw EXCEPT !.form = s] \in Files
  BY <1>1 DEF CallRecords, Files
<1>4. call'[t] \in CallRecords
  BY <1>1, <1>2, <1>3 DEF CallRecords, Steps
<1>5. \A u \in Threads \ {t} : call'[u] = call[u]
  BY DEF Takes
<1>6. /\ call'[t].pc = "write" /\ call'[t].op = call[t].op /\ call'[t].c = call[t].c
      /\ call'[t].raw = [call[t].raw EXCEPT !.form = s]
  BY <1>1, <1>2 DEF CallRecords
<1>7. call'[t].raw.form = s /\ call'[t].raw.v = call[t].raw.v
  BY <1>1, <1>6 DEF CallRecords, Files
<1>8. call' \in [Threads -> CallRecords]
  BY <1>4 DEF Takes
<1> QED
  BY <1>5, <1>6, <1>7, <1>8

(* Sealing: the thread learns a key, or fails; no file changes.             *)
LEMMA KeySteps ==
  ASSUME IInv, NEW t \in Threads,
         SealOs(t) \/ SealFile(t) \/ CreateKeyFile(t) \/ FillKeyFile(t) \/ NoKey(t)
  PROVE  IInv'
<1>c. PICK c \in Creds : c = call[t].c
  BY CallTyped DEF IInv, CallRecords
<1>0. /\ TypeOK /\ Knows(t) /\ Apart /\ call \in [Threads -> CallRecords]
      /\ file \in [Creds -> Files] /\ latest \in [Creds -> Versions]
      /\ c = call[t].c /\ Kept(c) /\ Busy(t)
  BY <1>c, CallTyped DEF IInv, Busy, SealOs, SealFile, CreateKeyFile, FillKeyFile, NoKey
<1> USE DEF disk, keys, migration, bounds
<1>1. /\ UNCHANGED <<file, jars, phone, phase, todo, latest, made, faults, ends>>
      /\ keyFile = "written" => keyFile' = "written"
  <2>1. UNCHANGED <<file, jars, phone, phase, todo, latest, made, faults, ends>>
    BY DEF SealOs, SealFile, CreateKeyFile, FillKeyFile, NoKey
  <2>2. keyFile' = keyFile \/ keyFile = "none" \/ keyFile' = "written"
    BY DEF SealOs, SealFile, CreateKeyFile, FillKeyFile, NoKey
  <2> QED
    BY <2>1, <2>2
<1>2. Kept(c)'
  BY <1>0, <1>1, KeptSame
<1>3. ready' \in BOOLEAN
  BY <1>0 DEF SealOs, SealFile, CreateKeyFile, FillKeyFile, NoKey, AskStore, TypeOK
<1>4. ASSUME call'[t].c = c, call'[t].op = call[t].op, call'[t].raw.v = call[t].raw.v,
             call[t].pc \in Making, call'[t].pc \in Making,
             call'[t].pc = "write" =>
                 /\ call'[t].raw.form \in Sealed
                 /\ call'[t].raw.form = "file" => keyFile' = "written"
      PROVE  Knows(t)'
  BY <1>0, <1>1, <1>4 DEF Knows, Busy, Making
<1>5. CASE SealOs(t)
  <2>1. PICK answers \in BOOLEAN :
            call' = IF answers
                    THEN [call EXCEPT ![t].pc = "write", ![t].raw.form = "os"]
                    ELSE [call EXCEPT ![t].pc = "file"]
    BY <1>5 DEF SealOs
  <2>2. call[t].pc = "key" /\ UNCHANGED <<keyFile, cached>>
    BY <1>5 DEF SealOs
  <2>3. CASE answers
    <3>1. Takes(t, "os") /\ "os" \in Sealed
      BY <2>1, <2>3 DEF Sealed, Takes
    <3>2. Handles(t, c)
      BY <1>0, <1>1, <1>3, <2>2, <3>1, SealMoves DEF Handles, TypeOK
    <3>3. Knows(t)'
      <4>1. /\ call'[t].c = c /\ call'[t].op = call[t].op /\ call'[t].raw.v = call[t].raw.v
            /\ call'[t].pc = "write" /\ call'[t].raw.form = "os"
        BY <1>0, <3>1, SealMoves
      <4> QED
        BY <1>4, <2>2, <3>1, <4>1 DEF Making
    <3> QED
      BY <1>0, <1>2, <3>2, <3>3, StepKeeps
  <2>4. CASE ~answers
    <3>1. Goto(t, "file") /\ "file" \in Steps
      BY <2>1, <2>4 DEF Goto, Steps
    <3>2. Handles(t, c)
      BY <1>0, <1>1, <1>3, <2>2, <3>1, GotoMoves DEF Handles, TypeOK
    <3>3. Knows(t)'
      BY <1>0, <1>4, <2>2, <3>1, GotoMoves DEF Making
    <3> QED
      BY <1>0, <1>2, <3>2, <3>3, StepKeeps
  <2> QED
    BY <2>3, <2>4
<1>6. CASE SealFile(t)
  <2>1. /\ Takes(t, "file")
        /\ "file" \in Sealed /\ call[t].pc = "file"
        /\ keyFile' = "written" /\ keyFile' = keyFile /\ cached' = TRUE
    BY <1>0, <1>6 DEF SealFile, FileKeyKnown, Sealed, TypeOK, Takes
  <2>2. Handles(t, c)
    BY <1>0, <1>1, <1>3, <2>1, SealMoves DEF Handles, TypeOK
  <2>3. Knows(t)'
    BY <1>0, <1>4, <2>1, SealMoves DEF Making
  <2> QED
    BY <1>0, <1>2, <2>2, <2>3, StepKeeps
<1>7. CASE CreateKeyFile(t)
  <2>1. /\ Goto(t, "fill") /\ "fill" \in Steps /\ call[t].pc = "file"
        /\ KeyLockFree /\ keyFile' = "empty" /\ ~cached' /\ cached' \in BOOLEAN
    BY <1>0, <1>7 DEF CreateKeyFile, Steps, TypeOK
  <2>2. Handles(t, c)
    BY <1>0, <1>1, <1>3, <2>1, GotoMoves DEF Handles, TypeOK
  <2>3. Knows(t)'
    BY <1>0, <1>4, <2>1, GotoMoves DEF Making
  <2> QED
    BY <1>0, <1>2, <2>2, <2>3, StepKeeps
<1>8. CASE FillKeyFile(t)
  <2>1. /\ Takes(t, "file")
        /\ "file" \in Sealed /\ call[t].pc = "fill"
        /\ keyFile' = "written" /\ cached' = TRUE
    BY <1>8 DEF FillKeyFile, Sealed, Takes
  <2>2. Handles(t, c)
    BY <1>0, <1>1, <1>3, <2>1, SealMoves DEF Handles, TypeOK
  <2>3. Knows(t)'
    BY <1>0, <1>4, <2>1, SealMoves DEF Making
  <2> QED
    BY <1>0, <1>2, <2>2, <2>3, StepKeeps
<1>9. CASE NoKey(t)
  <2>1. Done(t) /\ UNCHANGED keys
    BY <1>9 DEF NoKey
  <2>2. Handles(t, c)
    BY <1>0, <1>1, <2>1, DoneMoves DEF Handles, TypeOK
  <2> QED
    BY <1>0, <1>2, <2>1, <2>2, DoneMoves, IdleKnows, StepKeeps
<1> QED
  BY <1>5, <1>6, <1>7, <1>8, <1>9

LEMMA AskTyped ==
  ASSUME ready \in BOOLEAN, NEW answers \in BOOLEAN, AskStore(answers)
  PROVE  ready' \in BOOLEAN
BY DEF AskStore

\* What a thread in the middle of an operation has in hand.
LEMMA InHand ==
  ASSUME IInv, NEW t \in Threads, Busy(t)
  PROVE  \E c \in Creds :
            /\ c = call[t].c /\ Kept(c) /\ Knows(t) /\ TypeOK
            /\ call \in [Threads -> CallRecords]
            /\ file \in [Creds -> Files] /\ latest \in [Creds -> Versions]
            /\ file[c] \in Files /\ call[t].raw \in Files
BY CallTyped DEF IInv, CallRecords

(* The file is written, or the disk is full.                                *)
LEMMA WriteSteps ==
  ASSUME IInv, NEW t \in Threads, Write(t) \/ WriteFails(t)
  PROVE  IInv'
<1> USE DEF disk, keys, migration, bounds
<1>b. Busy(t)
  BY DEF Busy, Write, WriteFails
<1>0. PICK c \in Creds :
        /\ c = call[t].c /\ Kept(c) /\ Knows(t) /\ TypeOK
        /\ call \in [Threads -> CallRecords]
        /\ file \in [Creds -> Files] /\ latest \in [Creds -> Versions]
        /\ file[c] \in Files /\ call[t].raw \in Files
  BY <1>b, InHand
<1>1. CASE Write(t)
  <2> DEFINE form == call[t].raw.form  v == call[t].raw.v
  <2>1. /\ call[t].pc = "write" /\ form \in Sealed /\ v \in Versions
        /\ form = "file" => keyFile = "written"
    BY <1>0, <1>1 DEF Write, Knows, Files
  <2>2. /\ file' = [file EXCEPT ![c] = File(form, v)]
        /\ UNCHANGED <<jars, keyFile, ready, cached, phone, phase, todo, made, faults, ends>>
    BY <1>0, <1>1 DEF Write
  <2>3. /\ file' \in [Creds -> Files] /\ file'[c].form = form /\ file'[c].ours /\ file'[c].v = v
        /\ \A d \in Creds \ {c} : file'[d] = file[d]
    BY <1>0, <2>1, <2>2, FileTyped DEF Sealed
  <2>4. /\ latest' \in [Creds -> Versions] /\ \A d \in Creds \ {c} : latest'[d] = latest[d]
        /\ latest'[c] = IF call[t].op = "store" THEN v ELSE latest[c]
    BY <1>0, <1>1, <2>1 DEF Write
  <2>5. Kept(c)'
    <3>1. Openable(c)'
      BY <2>1, <2>2, <2>3 DEF Openable
    <3>2. Holds(c)' = v
      BY <2>1, <2>3 DEF Holds, Sealed
    <3>3. call[t].op = "load" => file[c].form # "none" /\ v = file[c].v
      BY <1>0, <1>b DEF Knows
    <3>4. call[t].op = "jar" => c \in jars /\ file[c].form = "none" /\ v = 1
      BY <1>0, <2>1 DEF Knows, Making
    <3>5. call[t].op # "store" /\ latest[c] # 0 => v = latest[c]
      BY <1>0, <1>b, <3>3, <3>4 DEF Knows, Kept, Holds
    <3> QED
      BY <2>4, <3>1, <3>2, <3>5 DEF Kept
  <2>6. CASE call[t].op = "jar"
    <3>1. Goto(t, "unjar") /\ "unjar" \in Steps
      BY <1>1, <2>6 DEF Write, Steps
    <3>2. Handles(t, c)
      BY <1>0, <1>b, <2>2, <2>3, <2>4, <2>6, <3>1, GotoMoves DEF Handles, TypeOK
    <3>3. Knows(t)'
      <4>1. call'[t].pc = "unjar" /\ call'[t].op = "jar" /\ call'[t].c = c
        BY <1>0, <2>6, <3>1, GotoMoves
      <4>2. c \notin todo' /\ file'[c].form # "none"
        BY <1>0, <1>b, <2>1, <2>2, <2>3, <2>6 DEF Knows, Sealed
      <4> QED
        BY <4>1, <4>2 DEF Knows, Busy, Making
    <3> QED
      BY <1>0, <2>5, <3>2, <3>3, StepKeeps
  <2>7. CASE call[t].op # "jar"
    <3>1. Done(t)
      BY <1>1, <2>7 DEF Write
    <3>2. Handles(t, c)
      BY <1>0, <1>b, <2>2, <2>3, <2>4, <3>1, DoneMoves DEF Handles, TypeOK
    <3> QED
      BY <1>0, <2>5, <3>1, <3>2, DoneMoves, IdleKnows, StepKeeps
  <2> QED
    BY <2>6, <2>7
<1>2. CASE WriteFails(t)
  <2>1. /\ UNCHANGED <<file, jars, keyFile, ready, cached, phone, phase, todo, latest, made, ends>>
        /\ Done(t) /\ faults' = faults + 1 /\ faults < MaxFaults
    BY <1>2 DEF WriteFails
  <2>2. faults' \in 0..MaxFaults
    BY <1>0, <2>1, VaultConstants DEF TypeOK
  <2>3. Handles(t, c)
    BY <1>0, <1>b, <2>1, <2>2, DoneMoves DEF Handles, TypeOK
  <2>4. Kept(c)'
    BY <1>0, <2>1, KeptSame
  <2> QED
    BY <1>0, <2>1, <2>3, <2>4, DoneMoves, IdleKnows, StepKeeps
<1> QED
  BY <1>1, <1>2

(* A file that was read is opened, sealed again or deleted; a mirror whose  *)
(* file is written goes.                                                    *)
LEMMA OpenSteps ==
  ASSUME IInv, NEW t \in Threads,
         OpenLegacy(t) \/ OpenOs(t) \/ OpenFile(t) \/ Move(t)
  PROVE  IInv'
<1> USE DEF disk, keys, migration, bounds
<1>b. Busy(t)
  BY DEF Busy, OpenLegacy, OpenOs, OpenFile, Move
<1>0. PICK c \in Creds :
        /\ c = call[t].c /\ Kept(c) /\ Knows(t) /\ TypeOK
        /\ call \in [Threads -> CallRecords]
        /\ file \in [Creds -> Files] /\ latest \in [Creds -> Versions]
        /\ file[c] \in Files /\ call[t].raw \in Files
  BY <1>b, InHand
<1>1. UNCHANGED <<file, jars, keyFile, phone, phase, todo, latest, made, faults, ends>>
  BY DEF OpenLegacy, OpenOs, OpenFile, Move
<1>2. Kept(c)'
  BY <1>0, <1>1, KeptSame
<1>3. ready' \in BOOLEAN
  BY <1>0 DEF OpenLegacy, OpenOs, OpenFile, Move, AskStore, TypeOK
<1>4. cached' \in BOOLEAN /\ (cached' => keyFile = "written")
  <2>1. cached \in BOOLEAN /\ (cached => keyFile = "written")
    BY <1>0 DEF TypeOK
  <2>2. UNCHANGED cached \/ cached' = FileKeyKnown
    BY DEF OpenLegacy, OpenOs, OpenFile, Move
  <2>3. CASE FileKeyKnown
    BY <2>1, <2>2, <2>3 DEF FileKeyKnown
  <2>4. CASE ~FileKeyKnown
    BY <2>1, <2>2, <2>4 DEF FileKeyKnown
  <2> QED
    BY <2>3, <2>4
<1>5. /\ call[t].op = "load" /\ file[c].form # "none" /\ call[t].raw.v = file[c].v
      /\ call[t].pc = "open" => call[t].raw = file[c]
  BY <1>0, <1>b DEF Knows, OpenLegacy, OpenOs, OpenFile, Move
<1>6. ASSUME NEW pc \in {"key", "move", "delete"}, Goto(t, pc),
             pc = "delete" => latest[c] = 0
      PROVE  IInv'
  <2>1. /\ call' \in [Threads -> CallRecords] /\ call'[t].pc = pc
        /\ call'[t].op = call[t].op /\ call'[t].c = call[t].c /\ call'[t].raw = call[t].raw
        /\ \A u \in Threads \ {t} : call'[u] = call[u]
    BY <1>0, <1>6, GotoMoves DEF Steps
  <2>2. Handles(t, c)
    BY <1>0, <1>b, <1>1, <1>3, <1>4, <2>1 DEF Handles, TypeOK
  <2>3. Knows(t)'
    BY <1>0, <1>1, <1>5, <1>6, <2>1 DEF Knows, Busy, Making
  <2> QED
    BY <1>0, <1>2, <2>2, <2>3, StepKeeps
<1>7. ASSUME Done(t) PROVE IInv'
  <2>1. Handles(t, c)
    BY <1>0, <1>b, <1>1, <1>3, <1>4, <1>7, DoneMoves DEF Handles, TypeOK
  <2> QED
    BY <1>0, <1>2, <1>7, <2>1, DoneMoves, IdleKnows, StepKeeps
\* What no key of this install opens, or whose key is gone, is no sign-in.
<1>8. call[t].pc = "open" /\ ~call[t].raw.ours => latest[c] = 0
  BY <1>0, <1>5 DEF Kept, Holds
<1>9. call[t].pc = "open" /\ call[t].raw.form = "file" /\ keyFile = "none" => latest[c] = 0
  BY <1>0, <1>5 DEF Kept, Openable
<1>10. CASE OpenLegacy(t)
  BY <1>6, <1>10 DEF OpenLegacy
<1>11. CASE OpenOs(t)
  <2>1. call[t].pc = "open"
    BY <1>11 DEF OpenOs
  <2>2. Done(t) \/ (~call[t].raw.ours /\ Goto(t, "delete"))
    <3>1. PICK answers \in BOOLEAN :
            IF answers /\ ~call[t].raw.ours THEN Goto(t, "delete") ELSE Done(t)
      BY <1>11 DEF OpenOs
    <3>2. CASE answers /\ ~call[t].raw.ours
      BY <3>1, <3>2
    <3>3. CASE ~(answers /\ ~call[t].raw.ours)
      BY <3>1, <3>3
    <3> QED
      BY <3>2, <3>3
  <2> QED
    BY <1>6, <1>7, <1>8, <2>1, <2>2
<1>12. CASE OpenFile(t)
  <2>1. call[t].pc = "open" /\ call[t].raw.form = "file"
    BY <1>12 DEF OpenFile
  <2>2. \/ Goto(t, "move") \/ Done(t)
        \/ Goto(t, "delete") /\ (~call[t].raw.ours \/ keyFile = "none")
    BY <1>12 DEF OpenFile
  <2> QED
    BY <1>6, <1>7, <1>8, <1>9, <2>1, <2>2
<1>13. CASE Move(t)
  <2>1. Goto(t, "key") \/ Done(t)
    BY <1>13 DEF Move
  <2> QED
    BY <1>6, <1>7, <2>1
<1> QED
  BY <1>10, <1>11, <1>12, <1>13

LEMMA DeleteSteps ==
  ASSUME IInv, NEW t \in Threads, Delete(t) \/ Unjar(t)
  PROVE  IInv'
<1> USE DEF disk, keys, migration, bounds
<1>b. Busy(t)
  BY DEF Busy, Delete, Unjar
<1>0. PICK c \in Creds :
        /\ c = call[t].c /\ Kept(c) /\ Knows(t) /\ TypeOK
        /\ call \in [Threads -> CallRecords]
        /\ file \in [Creds -> Files] /\ latest \in [Creds -> Versions]
        /\ file[c] \in Files /\ call[t].raw \in Files
  BY <1>b, InHand
<1>1. /\ Done(t)
      /\ UNCHANGED <<keyFile, ready, cached, phone, phase, todo, latest, made, faults, ends>>
  BY DEF Delete, Unjar
<1>2. CASE Delete(t)
  <2>1. latest[c] = 0 /\ UNCHANGED jars /\ file' = [file EXCEPT ![c] = NoFile]
    BY <1>0, <1>2 DEF Delete, Knows
  <2>2. Handles(t, c)
    BY <1>0, <1>b, <1>1, <2>1, DoneMoves, IdleTyped DEF Handles, TypeOK
  <2>3. Kept(c)'
    BY <1>1, <2>1 DEF Kept
  <2> QED
    BY <1>0, <1>1, <2>2, <2>3, DoneMoves, IdleKnows, StepKeeps
<1>3. CASE Unjar(t)
  <2>1. /\ call[t].op = "jar" /\ file[c].form # "none"
        /\ UNCHANGED file /\ jars' = jars \ {c}
    BY <1>0, <1>3 DEF Unjar, Knows
  <2>2. Handles(t, c)
    BY <1>0, <1>b, <1>1, <2>1, DoneMoves DEF Handles, TypeOK
  <2>3. Kept(c)'
    BY <1>0, <1>1, <2>1 DEF Kept, Holds, Openable
  <2> QED
    BY <1>0, <1>1, <2>2, <2>3, DoneMoves, IdleKnows, StepKeeps
<1> QED
  BY <1>2, <1>3

LEMMA StepsKeep ==
  ASSUME IInv, NEW t \in Threads, Step(t) \/ WriteFails(t)
  PROVE  IInv'
<1>1. CASE Step(t)
  BY <1>1, KeySteps, WriteSteps, OpenSteps, DeleteSteps DEF Step
<1>2. CASE WriteFails(t)
  BY <1>2, WriteSteps
<1> QED
  BY <1>1, <1>2

-----------------------------------------------------------------------------
(* Calls, the migration and restarts *)

\* A caller takes up a credential that nobody has in hand.
LEMMA CallKeeps ==
  ASSUME IInv, NEW t \in Callers, NEW c \in Creds, NEW r \in CallRecords,
         phase = "done", SlotFree(c), call[t].pc = "idle",
         call' = [call EXCEPT ![t] = r], r.c = c, r.pc # "fill", r.pc # "idle",
         UNCHANGED <<file, jars, keyFile, phone, ready, cached, phase, todo, latest, faults, ends>>,
         made' \in 0..MaxStores, Knows(t)'
  PROVE  IInv'
<1>0. /\ TypeOK /\ Apart /\ Turns /\ call \in [Threads -> CallRecords]
      /\ t \in Threads /\ t # "migration"
  BY CallTyped, VaultConstants DEF IInv, Threads
<1>1. /\ call'[t] = r /\ \A u \in Threads \ {t} : call'[u] = call[u]
      /\ call' \in [Threads -> CallRecords]
  BY <1>0
<1>2. TypeOK'
  <2>1. \A u \in Threads : call'[u].pc = "fill" => keyFile' = "empty"
    BY <1>0, <1>1 DEF TypeOK
  <2> QED
    BY <1>0, <1>1, <2>1, Typed DEF TypeOK
<1>3. Apart'
  BY <1>0, <1>1 DEF Apart, Busy, SlotFree
<1>4. Turns'
  BY <1>0, <1>1 DEF Turns, Busy
<1>5. ASSUME NEW d \in Creds PROVE Kept(d)'
  BY <1>5, KeptSame DEF IInv
<1>6. ASSUME NEW u \in Threads \ {t} PROVE Knows(u)'
  <2>1. Knows(u) /\ call'[u] = call[u]
    BY <1>1 DEF IInv
  <2> QED
    BY <2>1 DEF Knows, Busy, Making
<1> QED
  BY <1>2, <1>3, <1>4, <1>5, <1>6 DEF IInv

LEMMA CallsKeep ==
  ASSUME IInv, NEW c \in Creds, phase = "done", SlotFree(c), Calls(c)
  PROVE  IInv'
<1> USE DEF disk, keys, migration, bounds
<1>0. /\ TypeOK /\ call \in [Threads -> CallRecords]
      /\ file \in [Creds -> Files] /\ latest \in [Creds -> Versions]
      /\ made \in Nat /\ MaxStores \in Nat
  BY CallTyped, VaultConstants DEF IInv, TypeOK
<1>1. ASSUME NEW t \in Callers, Store(t, c) PROVE IInv'
  <2> DEFINE r == [op |-> "store", pc |-> "key", c |-> c, raw |-> File("none", made + 2)]
  <2>1. /\ call[t].pc = "idle" /\ call' = [call EXCEPT ![t] = r] /\ made' = made + 1
        /\ made < MaxStores
        /\ UNCHANGED <<file, jars, keyFile, phone, ready, cached, phase, todo, latest, faults, ends>>
    BY <1>1 DEF Store, Begin
  <2>2. made + 2 \in Versions /\ made + 2 # 0 /\ made' \in 0..MaxStores
    BY <1>0, <2>1 DEF Versions
  <2>3. r \in CallRecords /\ r.raw.v = made + 2
    BY <2>2, FileTyped DEF CallRecords, Steps
  <2>4. call'[t] = r
    BY <1>0, <2>1 DEF Threads
  <2>5. Knows(t)'
    BY <2>2, <2>3, <2>4 DEF Knows, Busy, Making
  <2> HIDE DEF r
  <2>6. r.c = c /\ r.pc # "fill" /\ r.pc # "idle"
    BY DEF r
  <2> QED
    BY <2>1, <2>2, <2>3, <2>5, <2>6, CallKeeps
<1>2. ASSUME NEW t \in Callers, Load(t, c) PROVE IInv'
  <2> DEFINE r == [op |-> "load", pc |-> "open", c |-> c, raw |-> file[c]]
  <2>1. /\ call[t].pc = "idle" /\ call' = [call EXCEPT ![t] = r] /\ file[c].form # "none"
        /\ UNCHANGED <<file, jars, keyFile, phone, ready, cached, phase, todo, latest, made, faults, ends>>
    BY <1>2 DEF Load, Begin
  <2>2. r \in CallRecords /\ made' \in 0..MaxStores
    BY <1>0, <2>1 DEF CallRecords, Steps, TypeOK
  <2>3. call'[t] = r
    BY <1>0, <2>1 DEF Threads
  <2>4. Knows(t)'
    BY <2>1, <2>3 DEF Knows, Busy, Making
  <2> HIDE DEF r
  <2>5. r.c = c /\ r.pc # "fill" /\ r.pc # "idle"
    BY DEF r
  <2> QED
    BY <2>1, <2>2, <2>4, <2>5, CallKeeps
<1>3. CASE Remove(c)
  <2>1. /\ file' = [file EXCEPT ![c] = NoFile] /\ latest' = [latest EXCEPT ![c] = 0]
        /\ UNCHANGED <<jars, keyFile, phone, ready, cached, phase, todo, call, made, faults, ends>>
    BY <1>3 DEF Remove
  <2>2. /\ file' \in [Creds -> Files] /\ latest' \in [Creds -> Versions] /\ latest'[c] = 0
        /\ \A d \in Creds \ {c} : file'[d] = file[d] /\ latest'[d] = latest[d]
    BY <1>0, <2>1, IdleTyped, VaultConstants DEF Versions
  <2>3. TypeOK'
    BY <1>0, <2>1, <2>2, Typed DEF TypeOK
  <2>4. Apart' /\ Turns'
    BY <2>1 DEF IInv, Apart, Turns, Busy
  <2>5. ASSUME NEW d \in Creds PROVE Kept(d)'
    <3>1. CASE d = c
      BY <2>2, <3>1 DEF Kept
    <3>2. CASE d # c
      BY <2>1, <2>2, <3>2, KeptSame DEF IInv
    <3> QED
      BY <3>1, <3>2
  <2>6. ASSUME NEW u \in Threads PROVE Knows(u)'
    <3>1. Knows(u) /\ call'[u] = call[u] /\ call[u].c \in Creds
      BY <1>0, <2>1 DEF IInv, CallRecords
    <3>2. CASE ~Busy(u)
      BY <3>1, <3>2 DEF Knows, Busy, Making
    <3>3. CASE Busy(u)
      <4>1. call[u].c # c
        BY <3>3 DEF SlotFree, Busy
      <4> QED
        BY <2>1, <2>2, <3>1, <4>1 DEF Knows, Busy, Making
    <3> QED
      BY <3>2, <3>3
  <2> QED
    BY <2>3, <2>4, <2>5, <2>6 DEF IInv
<1> QED
  BY <1>1, <1>2, <1>3 DEF Calls

\* The migration works while nobody else does.
LEMMA AloneKeeps ==
  ASSUME TypeOK', \A t \in Callers : call'[t].pc = "idle",
         Knows("migration")', Turns', \A c \in Creds : Kept(c)'
  PROVE  IInv'
<1>1. \A t \in Threads \ {"migration"} : call'[t].pc = "idle"
  BY DEF Threads
<1>2. Apart'
  BY <1>1 DEF Apart, Busy
<1>3. \A t \in Threads : Knows(t)'
  BY <1>1, IdleKnows
<1> QED
  BY <1>2, <1>3 DEF IInv

LEMMA MigrationKeeps ==
  ASSUME IInv, Migrate
  PROVE  IInv'
<1> USE DEF disk, keys, migration, bounds
<1>0. /\ TypeOK /\ Turns /\ call \in [Threads -> CallRecords]
      /\ file \in [Creds -> Files] /\ latest \in [Creds -> Versions]
      /\ Named \subseteq Creds /\ "migration" \in Threads /\ "migration" \notin Callers
      /\ \A c \in Creds : Kept(c)
  BY CallTyped, VaultConstants DEF IInv, Threads
<1>1. /\ phase \in {"jars", "files"} /\ call["migration"].pc = "idle"
      /\ \A t \in Callers : call[t].pc = "idle"
      /\ \A t \in Threads : call[t].pc = "idle"
  <2>1. phase \in {"jars", "files"} /\ call["migration"].pc = "idle"
    BY DEF Migrate, ListFiles, ListFails, Migrated, MigrateJar, MigrateFile, Begin
  <2>2. \A t \in Callers : call[t].pc = "idle"
    BY <1>0, <2>1 DEF Turns, Busy
  <2> QED
    BY <2>1, <2>2 DEF Threads
\* It begins with one credential.
<1>2. ASSUME NEW r \in CallRecords, call' = [call EXCEPT !["migration"] = r], r.pc # "fill"
      PROVE  /\ call' \in [Threads -> CallRecords] /\ call'["migration"] = r
             /\ \A t \in Callers : call'[t].pc = "idle"
             /\ \A t \in Threads : call'[t].pc # "fill"
  <2>1. call' \in [Threads -> CallRecords] /\ call'["migration"] = r
    BY <1>0, <1>2
  <2>2. \A t \in Callers : call'[t].pc = "idle"
    BY <1>0, <1>1, <1>2 DEF Threads
  <2> QED
    BY <1>2, <2>1, <2>2 DEF Threads
<1>3. ASSUME NEW c \in Creds, MigrateJar(c) PROVE IInv'
  <2> DEFINE pc == IF file[c].form = "none" THEN "key" ELSE "unjar"
             r == [op |-> "jar", pc |-> pc, c |-> c, raw |-> File("none", 1)]
  <2>1. /\ phase = "jars" /\ c \in todo /\ c \in jars /\ todo' = todo \ {c}
        /\ call' = [call EXCEPT !["migration"] = r]
        /\ UNCHANGED <<file, jars, keyFile, phone, ready, cached, phase, latest, made, faults, ends>>
    BY <1>0, <1>3 DEF MigrateJar, Begin, Turns
  <2>2. r \in CallRecords /\ r.raw.v = 1 /\ r.c = c /\ r.op = "jar" /\ r.pc = pc
    BY FileTyped, VaultConstants DEF CallRecords, Steps, Versions
  <2> HIDE DEF r
  <2>3. /\ call' \in [Threads -> CallRecords] /\ call'["migration"] = r
        /\ \A t \in Callers : call'[t].pc = "idle"
        /\ \A t \in Threads : call'[t].pc # "fill"
    BY <1>2, <2>1, <2>2
  <2>4. TypeOK'
    BY <1>0, <2>1, <2>3, Typed DEF TypeOK
  <2>5. Knows("migration")'
    BY <2>1, <2>2, <2>3 DEF Knows, Busy, Making
  <2>6. Turns'
    BY <1>0, <2>1, <2>3 DEF Turns, Busy
  <2>7. \A d \in Creds : Kept(d)'
    BY <1>0, <2>1, KeptSame
  <2> QED
    BY <2>3, <2>4, <2>5, <2>6, <2>7, AloneKeeps
<1>4. ASSUME NEW c \in Creds, MigrateFile(c) PROVE IInv'
  <2>1. /\ phase = "files" /\ todo' = todo \ {c}
        /\ UNCHANGED <<file, jars, keyFile, phone, ready, cached, phase, latest, made, faults, ends>>
    BY <1>4 DEF MigrateFile
  <2>2. Kept(c)' /\ \A d \in Creds : Kept(d)'
    BY <1>0, <2>1, KeptSame
  <2>3. CASE file[c].form # "none"
    <3> DEFINE r == [op |-> "load", pc |-> "open", c |-> c, raw |-> file[c]]
    <3>1. call' = [call EXCEPT !["migration"] = r]
      BY <1>4, <2>3 DEF MigrateFile, Begin
    <3>2. r \in CallRecords /\ r.raw = file[c] /\ r.c = c /\ r.op = "load" /\ r.pc = "open"
      BY <1>0 DEF CallRecords, Steps
    <3> HIDE DEF r
    <3>3. /\ call' \in [Threads -> CallRecords] /\ call'["migration"] = r
          /\ \A t \in Callers : call'[t].pc = "idle"
          /\ \A t \in Threads : call'[t].pc # "fill"
      BY <1>2, <3>1, <3>2
    <3>4. TypeOK'
      BY <1>0, <2>1, <3>3, Typed DEF TypeOK
    <3>5. Knows("migration")'
      BY <2>1, <2>3, <3>2, <3>3 DEF Knows, Busy, Making
    <3>6. Turns'
      BY <1>0, <2>1, <3>3 DEF Turns, Busy
    <3> QED
      BY <2>2, <3>3, <3>4, <3>5, <3>6, AloneKeeps
  <2>4. CASE file[c].form = "none"
    <3>1. call' = call
      BY <1>4, <2>4 DEF MigrateFile
    <3>2. TypeOK'
      BY <1>0, <2>1, <3>1, Typed DEF TypeOK
    <3>3. Turns'
      BY <1>0, <2>1, <3>1 DEF Turns, Busy
    <3> QED
      BY <1>0, <1>1, <2>2, <3>1, <3>2, <3>3, AloneKeeps, IdleKnows
  <2> QED
    BY <2>3, <2>4
<1>5. CASE ListFiles \/ ListFails
  <2>1. /\ phase' = "files" /\ todo' \subseteq Named /\ faults' \in 0..MaxFaults
        /\ UNCHANGED <<file, jars, keyFile, phone, ready, cached, call, latest, made, ends>>
    BY <1>0, <1>5, VaultConstants DEF ListFiles, ListFails, TypeOK
  <2>2. TypeOK'
    BY <1>0, <2>1, Typed DEF TypeOK
  <2>3. Turns'
    BY <1>0, <1>1, <2>1 DEF Turns, Busy
  <2>4. \A d \in Creds : Kept(d)'
    BY <1>0, <2>1, KeptSame
  <2> QED
    BY <1>0, <1>1, <2>1, <2>2, <2>3, <2>4, AloneKeeps, IdleKnows
<1>6. CASE Migrated
  <2>1. /\ phase' = "done"
        /\ UNCHANGED <<file, jars, phone, ready, todo, call, latest, made, faults, ends>>
    BY <1>6 DEF Migrated
  <2>2. \/ UNCHANGED <<keyFile, cached>>
        \/ NoFileKeyInUse /\ keyFile' = "none" /\ cached' = FALSE
    BY <1>6 DEF Migrated, RetireFileKey
  <2>3. TypeOK'
    <3>1. \A t \in Threads : call'[t].pc # "fill"
      BY <1>1, <2>1
    <3>2. /\ cached' => keyFile' = "written"
          /\ cached' \in BOOLEAN /\ keyFile' \in {"none", "empty", "written"}
      <4>1. CASE UNCHANGED <<keyFile, cached>>
        BY <1>0, <4>1 DEF TypeOK
      <4>2. CASE keyFile' = "none" /\ cached' = FALSE
        BY <4>2
      <4> QED
        BY <2>2, <4>1, <4>2
    <3> QED
      BY <1>0, <2>1, <3>1, <3>2, Typed DEF TypeOK
  <2>4. Turns'
    BY <1>0, <1>1, <2>1 DEF Turns, Busy
  <2>5. ASSUME NEW d \in Creds PROVE Kept(d)'
    BY <1>0, <2>1, <2>2 DEF Kept, Holds, Openable, NoFileKeyInUse
  <2> QED
    BY <1>0, <1>1, <2>1, <2>3, <2>4, <2>5, AloneKeeps, IdleKnows
<1> QED
  BY <1>3, <1>4, <1>5, <1>6 DEF Migrate

LEMMA RestartKeeps ==
  ASSUME IInv, Restart
  PROVE  IInv'
<1> USE DEF disk, keys, migration, bounds
<1>0. TypeOK /\ (\A c \in Creds : Kept(c)) /\ "migration" \in Threads /\ MaxEnds \in Nat
  BY VaultConstants DEF IInv, Threads
<1>1. /\ ends < MaxEnds /\ ends' = ends + 1 /\ cached' = FALSE /\ ready' \in BOOLEAN
      /\ phase' = "jars" /\ todo' = jars /\ call' = [t \in Threads |-> Idle]
      /\ UNCHANGED <<file, jars, keyFile, phone, latest, made, faults>>
  BY DEF Restart
<1>2. /\ call' \in [Threads -> CallRecords] /\ \A t \in Threads : call'[t].pc = "idle"
      /\ \A t \in Callers : call'[t].pc = "idle"
  BY <1>1, IdleTyped DEF Threads
<1>3. ends' \in 0..MaxEnds
  BY <1>0, <1>1 DEF TypeOK
<1>4. TypeOK'
  BY <1>0, <1>1, <1>2, <1>3, Typed DEF TypeOK
<1>5. Turns'
  BY <1>1, <1>2 DEF Turns, Busy
<1>6. \A c \in Creds : Kept(c)'
  BY <1>0, <1>1, KeptSame
<1> QED
  BY <1>0, <1>2, <1>4, <1>5, <1>6, AloneKeeps, IdleKnows

-----------------------------------------------------------------------------
(* The theorems *)

LEMMA InitInv == Init => IInv
<1> SUFFICES ASSUME Init PROVE IInv
  OBVIOUS
<1>1. /\ \A t \in Threads : call[t].pc = "idle" /\ call[t].op = "none"
      /\ call \in [Threads -> CallRecords]
  <2>1. Idle.op = "none"
    BY DEF Idle
  <2> QED
    BY <2>1, IdleTyped DEF Init
<1>2. /\ 0 \in Versions /\ 1 \in Versions
      /\ file \in [Creds -> Files] /\ latest \in [Creds -> Versions]
  <2>1. 0 \in Versions /\ 1 \in Versions
    BY VaultConstants DEF Versions
  <2>2. ASSUME NEW s \in Sealed, NEW b \in BOOLEAN
        PROVE  [File(s, 1) EXCEPT !.ours = b] \in Files
    BY <2>1, <2>2, FileTyped DEF Files, Sealed
  <2>3. NoFile \in Files /\ File("legacy", 1) \in Files
    BY <2>1, IdleTyped, FileTyped
  <2>4. file \in [Creds -> Files]
    BY <2>2, <2>3 DEF Init
  <2>5. latest \in [Creds -> Versions]
    BY <2>1 DEF Init
  <2> QED
    BY <2>1, <2>4, <2>5
<1>3. TypeOK
  <2>1. made \in 0..MaxStores /\ faults \in 0..MaxFaults /\ ends \in 0..MaxEnds
    BY VaultConstants DEF Init
  <2>2. /\ jars \subseteq Named /\ todo \subseteq Named
        /\ keyFile \in {"none", "empty", "written"}
        /\ phase \in {"jars", "files", "done"}
    BY DEF Init
  <2>3. phone \in BOOLEAN
    BY DEF Init
  <2>4. ready \in BOOLEAN
    BY DEF Init
  <2>5. cached \in BOOLEAN /\ ~cached
    BY DEF Init
  <2> QED
    BY <1>1, <1>2, <2>1, <2>2, <2>3, <2>4, <2>5 DEF TypeOK, CallRecords
<1>4. Apart /\ Turns
  BY <1>1 DEF Init, Apart, Turns, Busy, Threads
<1>5. ASSUME NEW c \in Creds PROVE Kept(c)
  <2>1. file[c].form # "none" => file[c].v = 1
    BY DEF Init, NoFile, File, Sealed
  <2> QED
    BY <2>1 DEF Init, Kept, Holds, Openable
<1>6. ASSUME NEW t \in Threads PROVE Knows(t)
  BY <1>1 DEF Knows, Busy, Making
<1> QED
  BY <1>3, <1>4, <1>5, <1>6 DEF IInv

LEMMA NextInv == IInv /\ [PatientNext]_vars => IInv'
<1> SUFFICES ASSUME IInv, [PatientNext]_vars PROVE IInv'
  OBVIOUS
<1>1. CASE Work
  BY <1>1, MigrationKeeps, RestartKeeps, StepsKeep DEF Work
<1>2. CASE \E c \in Creds : phase = "done" /\ SlotFree(c) /\ Calls(c)
  BY <1>2, CallsKeep
<1>3. CASE UNCHANGED vars
  BY <1>3 DEF vars, IInv, TypeOK, Apart, Turns, Kept, Holds, Openable, Knows, Busy, Making
<1> QED
  BY <1>1, <1>2, <1>3 DEF PatientNext

(* When the services take turns, the last sign-in stays on the disk under a *)
(* key this install has, whatever write fails and whenever the process ends *)
(* (store_json, load_json, migrate_dir, retire_file_key).                   *)
THEOREM SignInIsKept == PatientSpec => []SignInKept
<1>1. IInv => SignInKept
  BY DEF IInv, Kept, SignInKept
<1> QED
  BY InitInv, NextInv, <1>1, PTL DEF PatientSpec

-----------------------------------------------------------------------------
(* Types, however the services interleave.  One thread at a time fills the  *)
(* key file, and none while the migration retires it.                       *)

OneFills == \A t, u \in Threads : call[t].pc = "fill" /\ call[u].pc = "fill" => t = u
CallersWait == phase # "done" => \A t \in Callers : ~Busy(t)
FInv == TypeOK /\ OneFills /\ CallersWait

LEMMA StepTyped ==
  ASSUME FInv, NEW t \in Threads, Busy(t),
         call' \in [Threads -> CallRecords], \A u \in Threads \ {t} : call'[u] = call[u],
         file' \in [Creds -> Files], latest' \in [Creds -> Versions], jars' \subseteq jars,
         UNCHANGED <<phone, phase, todo, made, ends>>, faults' \in 0..MaxFaults,
         ready' \in BOOLEAN, cached' \in BOOLEAN,
         keyFile' \in {"none", "empty", "written"}, cached' => keyFile' = "written",
         \/ keyFile' = keyFile /\ call'[t].pc # "fill"
         \/ KeyLockFree /\ keyFile' = "empty"
         \/ call[t].pc = "fill" /\ call'[t].pc # "fill"
  PROVE  FInv'
<1>1. OneFills' /\ \A u \in Threads : call'[u].pc = "fill" => keyFile' = "empty"
  BY DEF FInv, OneFills, TypeOK, KeyLockFree
<1>2. TypeOK'
  BY <1>1, Typed DEF FInv, TypeOK
<1>3. CallersWait'
  BY DEF FInv, CallersWait, Busy, Threads
<1> QED
  BY <1>1, <1>2, <1>3 DEF FInv

LEMMA StepsTyped ==
  ASSUME FInv, NEW t \in Threads, Step(t) \/ WriteFails(t)
  PROVE  FInv'
<1> USE DEF disk, keys, migration, bounds
<1>0. /\ TypeOK /\ call \in [Threads -> CallRecords] /\ call[t] \in CallRecords
      /\ file \in [Creds -> Files] /\ latest \in [Creds -> Versions]
      /\ keyFile \in {"none", "empty", "written"} /\ ready \in BOOLEAN /\ cached \in BOOLEAN
      /\ cached => keyFile = "written"
      /\ faults \in 0..MaxFaults /\ MaxFaults \in Nat
  BY CallTyped, VaultConstants DEF FInv, TypeOK
<1>1. CASE SealOs(t) \/ OpenOs(t) \/ OpenLegacy(t) \/ OpenFile(t) \/ Move(t) \/ NoKey(t)
  <2>1. /\ Busy(t) /\ ready' \in BOOLEAN
        /\ UNCHANGED <<file, jars, keyFile, phone, phase, todo, latest, made, faults, ends>>
    BY <1>0, <1>1 DEF Busy, SealOs, OpenOs, OpenLegacy, OpenFile, Move, NoKey, AskStore
  <2>2. cached' \in BOOLEAN /\ (cached' => keyFile' = "written")
    <3>1. cached' = cached \/ cached' = FileKeyKnown
      BY <1>1 DEF SealOs, OpenOs, OpenLegacy, OpenFile, Move, NoKey
    <3>2. CASE FileKeyKnown
      BY <1>0, <2>1, <3>1, <3>2 DEF FileKeyKnown
    <3>3. CASE ~FileKeyKnown
      BY <1>0, <2>1, <3>1, <3>3 DEF FileKeyKnown
    <3> QED
      BY <3>2, <3>3
  <2>3. \/ \E pc \in {"file", "key", "move", "delete"} : Goto(t, pc)
        \/ Done(t)
        \/ Takes(t, "os")
    BY <1>1 DEF SealOs, OpenOs, OpenLegacy, OpenFile, Move, NoKey, Goto, Takes
  <2>4. /\ call' \in [Threads -> CallRecords] /\ call'[t].pc # "fill"
        /\ \A u \in Threads \ {t} : call'[u] = call[u]
    <3>1. CASE \E pc \in {"file", "key", "move", "delete"} : Goto(t, pc)
      BY <1>0, <3>1, GotoMoves DEF Steps
    <3>2. CASE Done(t)
      BY <1>0, <3>2, DoneMoves
    <3>3. CASE Takes(t, "os")
      <4>1. "os" \in Sealed
        BY DEF Sealed
      <4> QED
        BY <1>0, <3>3, <4>1, SealMoves
    <3> QED
      BY <2>3, <3>1, <3>2, <3>3
  <2> QED
    BY <1>0, <2>1, <2>2, <2>4, StepTyped
<1>2. CASE SealFile(t) \/ FillKeyFile(t)
  <2>1. /\ Takes(t, "file") /\ "file" \in Sealed
        /\ Busy(t) /\ keyFile' = "written" /\ cached' = TRUE
        /\ keyFile' = keyFile \/ call[t].pc = "fill"
        /\ UNCHANGED <<file, jars, phone, ready, phase, todo, latest, made, faults, ends>>
    BY <1>0, <1>2 DEF SealFile, FillKeyFile, FileKeyKnown, Busy, Sealed, Takes
  <2>2. /\ call' \in [Threads -> CallRecords] /\ call'[t].pc # "fill"
        /\ \A u \in Threads \ {t} : call'[u] = call[u]
    BY <1>0, <2>1, SealMoves
  <2> QED
    BY <1>0, <2>1, <2>2, StepTyped
<1>3. CASE CreateKeyFile(t)
  <2>1. /\ Goto(t, "fill") /\ "fill" \in Steps /\ Busy(t)
        /\ KeyLockFree /\ keyFile' = "empty" /\ ~cached'
        /\ UNCHANGED <<file, jars, phone, ready, cached, phase, todo, latest, made, faults, ends>>
    BY <1>3 DEF CreateKeyFile, Steps, Busy
  <2>2. call' \in [Threads -> CallRecords] /\ \A u \in Threads \ {t} : call'[u] = call[u]
    BY <1>0, <2>1, GotoMoves
  <2> QED
    BY <1>0, <2>1, <2>2, StepTyped
<1>4. CASE Write(t) \/ Delete(t) \/ Unjar(t) \/ WriteFails(t)
  <2>1. /\ Busy(t) /\ jars' \subseteq jars
        /\ UNCHANGED <<keyFile, ready, cached, phone, phase, todo, made, ends>>
    BY <1>4 DEF Busy, Write, Delete, Unjar, WriteFails
  <2>2. faults' \in 0..MaxFaults
    BY <1>0, <1>4 DEF Write, Delete, Unjar, WriteFails
  <2>3. (Goto(t, "unjar") /\ "unjar" \in Steps) \/ Done(t)
    BY <1>4 DEF Write, Delete, Unjar, WriteFails, Steps
  <2>4. /\ call' \in [Threads -> CallRecords] /\ call'[t].pc # "fill"
        /\ \A u \in Threads \ {t} : call'[u] = call[u]
    <3>1. CASE Goto(t, "unjar") /\ "unjar" \in Steps
      BY <1>0, <3>1, GotoMoves
    <3>2. CASE Done(t)
      BY <1>0, <3>2, DoneMoves
    <3> QED
      BY <2>3, <3>1, <3>2
  <2>5. file' \in [Creds -> Files] /\ latest' \in [Creds -> Versions]
    <3>1. call[t].raw.form \in {"none", "legacy", "os", "file"} /\ call[t].raw.v \in Versions
      BY <1>0 DEF CallRecords, Files, Sealed
    <3>2. File(call[t].raw.form, call[t].raw.v) \in Files
      BY <3>1, FileTyped
    <3> QED
      BY <1>0, <1>4, <3>1, <3>2, IdleTyped DEF Write, Delete, Unjar, WriteFails
  <2> QED
    BY <1>0, <2>1, <2>2, <2>4, <2>5, StepTyped
<1> QED
  BY <1>1, <1>2, <1>3, <1>4 DEF Step

\* A thread takes up a credential.
LEMMA BeginTyped ==
  ASSUME FInv, NEW t \in Threads, NEW r \in CallRecords, call[t].pc = "idle",
         call' = [call EXCEPT ![t] = r], r.pc # "fill", phase = "done" \/ t = "migration",
         UNCHANGED <<file, keyFile, phone, ready, cached, phase, latest, faults, ends>>,
         jars' \subseteq jars, todo' \subseteq todo, made' \in 0..MaxStores
  PROVE  FInv'
<1>0. call \in [Threads -> CallRecords] /\ t \in Threads
  BY CallTyped DEF FInv
<1>1. /\ call' \in [Threads -> CallRecords] /\ call'[t] = r
      /\ \A u \in Threads \ {t} : call'[u] = call[u]
  BY <1>0
<1>2. \A u \in Threads : call'[u].pc = "fill" => call[u].pc = "fill"
  BY <1>1
<1>3. TypeOK'
  BY <1>1, <1>2, Typed DEF FInv, TypeOK
<1>4. OneFills'
  BY <1>2 DEF FInv, OneFills
<1>5. CallersWait'
  BY <1>1, VaultConstants DEF FInv, CallersWait, Busy, Threads
<1> QED
  BY <1>3, <1>4, <1>5 DEF FInv

LEMMA NextTyped == FInv /\ [Next]_vars => FInv'
<1> USE DEF disk, keys, migration, bounds
<1>0. SUFFICES ASSUME FInv, [Next]_vars PROVE FInv'
  OBVIOUS
<1>a. /\ TypeOK /\ call \in [Threads -> CallRecords]
      /\ file \in [Creds -> Files] /\ latest \in [Creds -> Versions]
      /\ made \in 0..MaxStores /\ "migration" \in Threads /\ Callers \subseteq Threads
      /\ Named \subseteq Creds
  BY <1>0, CallTyped, VaultConstants DEF FInv, TypeOK, Threads
<1>1. CASE \E t \in Threads : Step(t) \/ WriteFails(t)
  BY <1>0, <1>1, StepsTyped
<1>2. ASSUME NEW c \in Creds, MigrateJar(c) PROVE FInv'
  <2> DEFINE r == [op |-> "jar", pc |-> IF file[c].form = "none" THEN "key" ELSE "unjar",
                   c |-> c, raw |-> File("none", 1)]
  <2>1. /\ call["migration"].pc = "idle" /\ todo' \subseteq todo /\ jars' \subseteq jars
        /\ call' = [call EXCEPT !["migration"] = r]
        /\ UNCHANGED <<file, keyFile, phone, ready, cached, phase, latest, made, faults, ends>>
    BY <1>2 DEF MigrateJar, Begin
  <2>2. r \in CallRecords /\ r.pc # "fill"
    BY FileTyped, VaultConstants DEF CallRecords, Steps, Versions
  <2> HIDE DEF r
  <2> QED
    BY <1>0, <1>a, <2>1, <2>2, BeginTyped
<1>3. ASSUME NEW c \in Creds, MigrateFile(c) PROVE FInv'
  <2> DEFINE r == [op |-> "load", pc |-> "open", c |-> c, raw |-> file[c]]
  <2>1. /\ call["migration"].pc = "idle" /\ todo' \subseteq todo
        /\ call' = [call EXCEPT !["migration"] = r] \/ call' = call
        /\ UNCHANGED <<file, jars, keyFile, phone, ready, cached, phase, latest, made, faults, ends>>
    BY <1>3 DEF MigrateFile, Begin
  <2>2. r \in CallRecords /\ r.pc # "fill"
    BY <1>a DEF CallRecords, Steps
  <2>3. CASE call' = [call EXCEPT !["migration"] = r]
    <3> HIDE DEF r
    <3> QED
      BY <1>0, <1>a, <2>1, <2>2, <2>3, BeginTyped
  <2>4. CASE call' = call
    BY <1>0, <1>a, <2>1, <2>4, Typed DEF FInv, TypeOK, OneFills, CallersWait, Busy
  <2> QED
    BY <2>1, <2>3, <2>4
<1>4. CASE ListFiles \/ ListFails \/ Migrated
  <2>1. /\ phase # "done" /\ call["migration"].pc = "idle"
        /\ phase' \in {"files", "done"} /\ todo' \subseteq Named /\ faults' \in 0..MaxFaults
        /\ UNCHANGED <<file, jars, phone, ready, call, latest, made, ends>>
    BY <1>a, <1>4, VaultConstants DEF ListFiles, ListFails, Migrated, TypeOK
  <2>2. \A t \in Threads : call'[t].pc = "idle"
    BY <1>0, <2>1 DEF FInv, CallersWait, Busy, Threads
  <2>3. (keyFile' = keyFile /\ cached' = cached) \/ (keyFile' = "none" /\ cached' = FALSE)
    BY <1>4 DEF ListFiles, ListFails, Migrated, RetireFileKey
  <2>4. /\ keyFile' \in {"none", "empty", "written"} /\ cached' \in BOOLEAN
        /\ cached' => keyFile' = "written"
    <3>1. CASE keyFile' = keyFile /\ cached' = cached
      BY <1>a, <3>1 DEF TypeOK
    <3>2. CASE keyFile' = "none" /\ cached' = FALSE
      BY <3>2
    <3> QED
      BY <2>3, <3>1, <3>2
  <2>5. TypeOK'
    BY <1>a, <2>1, <2>2, <2>4, Typed DEF TypeOK
  <2> QED
    BY <2>2, <2>5, VaultConstants DEF FInv, OneFills, CallersWait, Busy, Threads
<1>5. CASE Restart
  <2>1. /\ ends < MaxEnds /\ ends' = ends + 1 /\ cached' = FALSE /\ ready' \in BOOLEAN
        /\ phase' = "jars" /\ todo' = jars /\ call' = [t \in Threads |-> Idle]
        /\ UNCHANGED <<file, jars, keyFile, phone, latest, made, faults>>
    BY <1>5 DEF Restart
  <2>2. call' \in [Threads -> CallRecords] /\ \A t \in Threads : call'[t].pc = "idle"
    BY <2>1, IdleTyped
  <2>3. ends' \in 0..MaxEnds
    BY <1>a, <2>1, VaultConstants DEF TypeOK
  <2>4. TypeOK'
    BY <1>a, <2>1, <2>2, <2>3, Typed DEF TypeOK
  <2> QED
    BY <2>2, <2>4 DEF FInv, OneFills, CallersWait, Busy, Threads
<1>6. ASSUME NEW t \in Callers, NEW c \in Creds, Store(t, c) PROVE FInv'
  <2> DEFINE r == [op |-> "store", pc |-> "key", c |-> c, raw |-> File("none", made + 2)]
  <2>1. /\ call[t].pc = "idle" /\ call' = [call EXCEPT ![t] = r] /\ made' = made + 1
        /\ made < MaxStores /\ phase = "done"
        /\ UNCHANGED <<file, jars, keyFile, phone, ready, cached, phase, todo, latest, faults, ends>>
    BY <1>6 DEF Store, Begin
  <2>2. made + 2 \in Versions /\ made' \in 0..MaxStores
    BY <1>a, <2>1, VaultConstants DEF Versions
  <2>3. r \in CallRecords /\ r.pc # "fill"
    BY <2>2, FileTyped DEF CallRecords, Steps
  <2> HIDE DEF r
  <2> QED
    BY <1>0, <1>a, <2>1, <2>2, <2>3, BeginTyped
<1>7. ASSUME NEW t \in Callers, NEW c \in Creds, Load(t, c) PROVE FInv'
  <2> DEFINE r == [op |-> "load", pc |-> "open", c |-> c, raw |-> file[c]]
  <2>1. /\ call[t].pc = "idle" /\ call' = [call EXCEPT ![t] = r] /\ phase = "done"
        /\ UNCHANGED <<file, jars, keyFile, phone, ready, cached, phase, todo, latest, made, faults, ends>>
    BY <1>7 DEF Load, Begin
  <2>2. r \in CallRecords /\ r.pc # "fill"
    BY <1>a DEF CallRecords, Steps
  <2> HIDE DEF r
  <2> QED
    BY <1>0, <1>a, <2>1, <2>2, BeginTyped
<1>8. ASSUME NEW c \in Creds, Remove(c) PROVE FInv'
  <2>1. /\ file' = [file EXCEPT ![c] = NoFile] /\ latest' = [latest EXCEPT ![c] = 0]
        /\ UNCHANGED <<jars, keyFile, phone, ready, cached, phase, todo, call, made, faults, ends>>
    BY <1>8 DEF Remove
  <2>2. file' \in [Creds -> Files] /\ latest' \in [Creds -> Versions]
    BY <1>a, <2>1, IdleTyped, VaultConstants DEF Versions
  <2>3. TypeOK'
    BY <1>a, <2>1, <2>2, Typed DEF TypeOK
  <2> QED
    BY <1>0, <2>1, <2>3 DEF FInv, OneFills, CallersWait, Busy
<1>9. CASE UNCHANGED vars
  BY <1>0, <1>9 DEF vars, FInv, TypeOK, OneFills, CallersWait, Busy
<1> QED
  BY <1>0, <1>1, <1>2, <1>3, <1>4, <1>5, <1>6, <1>7, <1>8, <1>9
  DEF Next, Work, Migrate, Calls

LEMMA InitTyped == Init => FInv
<1>1. Init => OneFills /\ CallersWait
  BY IdleTyped DEF Init, OneFills, CallersWait, Busy, Threads
<1> QED
  BY <1>1, InitInv DEF IInv, FInv

(* However the services interleave, the state keeps its types, and no       *)
(* thread uses or fills a key file that is not there.                       *)
THEOREM TypeCorrect == Spec => []TypeOK
<1>1. FInv => TypeOK
  BY DEF FInv
<1> QED
  BY InitTyped, NextTyped, <1>1, PTL DEF Spec

-----------------------------------------------------------------------------
(* What the migration leaves behind, however the services interleave.       *)
(*                                                                          *)
(* A mirror or a legacy file that is left has yet to be looked at or is in  *)
(* the migration's hand, or there is an excuse that lasts: the disk failed, *)
(* or this run found a key file without a key and will not get the store's. *)

Legacy(c) == file[c].form = "legacy"
Excuse == faults # 0 \/ (keyFile = "empty" /\ KeyLockFree /\ ~(phone /\ ready))

Imports(c) ==
    /\ call["migration"].op = "jar" /\ call["migration"].c = c
    /\ call["migration"].pc \in Making \cup {"unjar"}
Seals(c) ==
    /\ call["migration"].op = "load" /\ call["migration"].c = c
    /\ call["migration"].pc \in Making \cup {"open"}

Left ==
    /\ phase = "jars" => \A c \in jars : c \in todo \/ Imports(c)
    /\ phase # "jars" => jars = {}
    /\ phase = "files" => \A c \in Creds : Legacy(c) => c \in todo \/ Seals(c)
    /\ phase = "done" => \A c \in Creds : ~Legacy(c)

\* What is written is sealed, and a thread that wants the file's key is in a
\* run that has not got the store's.
Sealing(t) ==
    /\ call[t].pc = "write" => call[t].raw.form \in Sealed
    /\ call[t].pc = "file" => ~(phone /\ ready)
LegacyRead ==
    call["migration"].pc = "open" /\ Legacy(call["migration"].c)
        => call["migration"].raw.form = "legacy"

LInv ==
    /\ FInv /\ LegacyRead /\ (\A t \in Threads : Sealing(t))
    /\ \A c \in Creds \ Named : ~Legacy(c)
    /\ ~Excuse => Left

(* What any step of a thread does to the files and to the excuse.           *)
LEMMA ThreadStep ==
  ASSUME LInv, NEW t \in Threads, Step(t) \/ WriteFails(t)
  PROVE  /\ Busy(t) /\ \A u \in Threads \ {t} : call'[u] = call[u]
         /\ UNCHANGED <<phone, phase, todo>> /\ jars' \subseteq jars
         /\ phone => ready' = ready
         /\ \A c \in Creds : Legacy(c)' => Legacy(c) /\ file'[c] = file[c]
         /\ Excuse => Excuse'
         /\ Sealing(t)'
<1> USE DEF disk, keys, migration, bounds
<1>0. /\ TypeOK /\ call \in [Threads -> CallRecords] /\ call[t] \in CallRecords
      /\ file \in [Creds -> Files] /\ call[t].c \in Creds
      /\ keyFile \in {"none", "empty", "written"} /\ phone \in BOOLEAN
      /\ faults \in Nat /\ Sealing(t)
  BY CallTyped, VaultConstants DEF LInv, FInv, TypeOK, CallRecords
\* The step of the call and what is in hand after it.
<1>1. /\ \A u \in Threads \ {t} : call'[u] = call[u]
      /\ \/ call'[t].pc \in {"idle", "key", "open", "move", "delete", "unjar"}
         \/ SealOs(t) /\ call'[t].pc = "file"
         \/ CreateKeyFile(t) /\ call'[t].pc = "fill"
         \/ call'[t].pc = "write" /\ call'[t].raw.form \in Sealed
  <2>1. ASSUME NEW s \in Sealed, Takes(t, s)
        PROVE  /\ \A u \in Threads \ {t} : call'[u] = call[u]
               /\ call'[t].pc = "write" /\ call'[t].raw.form \in Sealed
    BY <1>0, <2>1, SealMoves
  <2>2. ASSUME NEW pc \in {"key", "move", "delete", "unjar", "file", "fill"}, Goto(t, pc)
        PROVE  (\A u \in Threads \ {t} : call'[u] = call[u]) /\ call'[t].pc = pc
    BY <1>0, <2>2, GotoMoves DEF Steps
  <2>3. ASSUME Done(t)
        PROVE  (\A u \in Threads \ {t} : call'[u] = call[u]) /\ call'[t].pc = "idle"
    BY <1>0, <2>3, DoneMoves
  <2>4. "os" \in Sealed /\ "file" \in Sealed
    BY DEF Sealed
  <2>5. CASE SealOs(t)
    <3>1. \/ Takes(t, "os")
          \/ Goto(t, "file")
      BY <2>5 DEF SealOs, Goto, Takes
    <3> QED
      BY <2>1, <2>2, <2>4, <2>5, <3>1
  <2>6. CASE SealFile(t) \/ FillKeyFile(t)
    <3>1. Takes(t, "file")
      BY <2>6 DEF SealFile, FillKeyFile, Takes
    <3> QED
      BY <2>1, <2>4, <3>1
  <2>7. CASE CreateKeyFile(t)
    BY <2>2, <2>7 DEF CreateKeyFile
  <2>8. CASE \/ NoKey(t) \/ Write(t) \/ Unjar(t) \/ OpenLegacy(t) \/ OpenOs(t) \/ OpenFile(t)
             \/ Move(t) \/ Delete(t) \/ WriteFails(t)
    <3>1. Done(t) \/ \E pc \in {"key", "move", "delete", "unjar"} : Goto(t, pc)
      BY <2>8 DEF NoKey, Write, Unjar, OpenLegacy, OpenOs, OpenFile, Move, Delete, WriteFails
    <3> QED
      BY <2>2, <2>3, <3>1
  <2> QED
    BY <2>5, <2>6, <2>7, <2>8 DEF Step
<1>2. /\ UNCHANGED <<phone, phase, todo>> /\ jars' \subseteq jars
      /\ Busy(t)
  BY DEF Step, SealOs, SealFile, CreateKeyFile, FillKeyFile, NoKey, Write, Unjar, OpenLegacy,
         OpenOs, OpenFile, Move, Delete, WriteFails, Busy
<1>3. phone => ready' = ready
  <2>1. ready' = ready \/ \E answers \in BOOLEAN : AskStore(answers)
    BY DEF Step, SealOs, SealFile, CreateKeyFile, FillKeyFile, NoKey, Write, Unjar, OpenLegacy,
           OpenOs, OpenFile, Move, Delete, WriteFails
  <2>2. ready \in BOOLEAN
    BY <1>0 DEF TypeOK
  <2>3. ASSUME NEW answers \in BOOLEAN, AskStore(answers), phone PROVE ready' = ready
    <3>1. CASE ready
      BY <2>3, <3>1 DEF AskStore
    <3>2. CASE ~ready
      BY <2>2, <2>3, <3>2 DEF AskStore
    <3> QED
      BY <3>1, <3>2
  <2> QED
    BY <2>1, <2>3
<1>4. ASSUME NEW c \in Creds, Legacy(c)' PROVE Legacy(c) /\ file'[c] = file[c]
  <2>1. \/ file' = file
        \/ file' = [file EXCEPT ![call[t].c] = NoFile]
        \/ /\ call[t].pc = "write"
           /\ file' = [file EXCEPT ![call[t].c] = File(call[t].raw.form, call[t].raw.v)]
    BY DEF Step, SealOs, SealFile, CreateKeyFile, FillKeyFile, NoKey, Write, Unjar, OpenLegacy,
           OpenOs, OpenFile, Move, Delete, WriteFails
  <2>2. CASE file' = file
    BY <1>4, <2>2 DEF Legacy
  <2>3. CASE file' = [file EXCEPT ![call[t].c] = NoFile]
    BY <1>0, <1>4, <2>3 DEF Legacy, NoFile, File
  <2>4. CASE /\ call[t].pc = "write"
             /\ file' = [file EXCEPT ![call[t].c] = File(call[t].raw.form, call[t].raw.v)]
    BY <1>0, <1>4, <2>4 DEF Legacy, File, Sealing, Sealed
  <2> QED
    BY <2>1, <2>2, <2>3, <2>4
<1>5. Sealing(t)'
  <2>1. SealOs(t) /\ call'[t].pc = "file" => ~ready'
    <3>1. ASSUME SealOs(t), call'[t].pc = "file" PROVE ~ready'
      <4>1. PICK answers \in BOOLEAN : AskStore(answers) /\ (answers => Takes(t, "os"))
        BY <3>1 DEF SealOs, Takes
      <4>2. ~answers
        <5>1. "os" \in Sealed
          BY DEF Sealed
        <5> QED
          BY <1>0, <3>1, <4>1, <5>1, SealMoves
      <4> QED
        BY <4>1, <4>2 DEF AskStore
    <3> QED
      BY <3>1
  <2> QED
    BY <1>1, <2>1 DEF Sealing
<1>6. Excuse => Excuse'
  <2>1. faults # 0 => faults' # 0
    BY <1>0 DEF Step, SealOs, SealFile, CreateKeyFile, FillKeyFile, NoKey, Write, Unjar, OpenLegacy,
           OpenOs, OpenFile, Move, Delete, WriteFails
  <2>2. ASSUME keyFile = "empty", KeyLockFree, ~(phone /\ ready) PROVE Excuse'
    <3>1. keyFile' = keyFile /\ ~CreateKeyFile(t)
      BY <2>2 DEF Step, SealOs, SealFile, CreateKeyFile, FillKeyFile, NoKey, Write, Unjar,
             OpenLegacy, OpenOs, OpenFile, Move, Delete, WriteFails, KeyLockFree
    <3>2. KeyLockFree'
      BY <1>1, <2>2, <3>1 DEF KeyLockFree
    <3> QED
      BY <1>2, <1>3, <2>2, <3>1, <3>2 DEF Excuse
  <2> QED
    BY <2>1, <2>2 DEF Excuse
<1> QED
  BY <1>1, <1>2, <1>3, <1>4, <1>5, <1>6

(* The migration goes on with the credential in hand until its mirror is    *)
(* gone or its file is sealed, or there is an excuse.                       *)
LEMMA MigrationStep ==
  ASSUME LInv, Step("migration") \/ WriteFails("migration"), NEW c \in Creds
  PROVE  /\ LegacyRead'
         /\ Imports(c) /\ c \in jars' => Imports(c)' \/ Excuse'
         /\ Seals(c) /\ Legacy(c)' => Seals(c)' \/ Excuse'
<1> USE DEF disk, keys, migration, bounds
<1> DEFINE m == "migration"
<1>0. /\ m \in Threads /\ TypeOK /\ call \in [Threads -> CallRecords]
      /\ faults \in Nat /\ file \in [Creds -> Files] /\ LegacyRead
      /\ Legacy(c)' => Legacy(c) /\ file'[c] = file[c]
      /\ Sealing(m)
  BY ThreadStep, CallTyped, VaultConstants DEF LInv, FInv, TypeOK, Threads
<1>1. call'[m].pc # "open"
  <2>1. ASSUME NEW pc \in {"key", "move", "delete", "unjar", "file", "fill"}, Goto(m, pc)
        PROVE  call'[m].pc # "open"
    BY <1>0, <2>1, GotoMoves DEF Steps
  <2>2. ASSUME Done(m) PROVE call'[m].pc # "open"
    BY <1>0, <2>2, DoneMoves
  <2>3. ASSUME NEW s \in Sealed, Takes(m, s)
        PROVE  call'[m].pc # "open"
    BY <1>0, <2>3, SealMoves
  <2>4. \/ Done(m) \/ \E pc \in {"key", "move", "delete", "unjar", "file", "fill"} : Goto(m, pc)
        \/ \E s \in Sealed : Takes(m, s)
    BY DEF Step, SealOs, SealFile, CreateKeyFile, FillKeyFile, NoKey, Write, Unjar, OpenLegacy,
           OpenOs, OpenFile, Move, Delete, WriteFails, Goto, Sealed, Takes
  <2> QED
    BY <2>1, <2>2, <2>3, <2>4
\* It stays at making: the same credential, for the same reason.
<1>2. CASE SealOs(m) \/ SealFile(m) \/ CreateKeyFile(m) \/ FillKeyFile(m) \/ OpenLegacy(m)
  <2>1. /\ call'[m].pc \in Making
        /\ call'[m].op = call[m].op /\ call'[m].c = call[m].c
    <3>1. \/ \E pc \in {"key", "file", "fill"} : Goto(m, pc)
          \/ \E s \in Sealed : Takes(m, s)
      BY <1>2 DEF SealOs, SealFile, CreateKeyFile, FillKeyFile, OpenLegacy, Goto, Sealed, Takes
    <3>2. CASE \E pc \in {"key", "file", "fill"} : Goto(m, pc)
      BY <1>0, <3>2, GotoMoves DEF Steps, Making
    <3>3. CASE \E s \in Sealed : Takes(m, s)
      BY <1>0, <3>3, SealMoves DEF Making
    <3> QED
      BY <3>1, <3>2, <3>3
  <2> QED
    BY <1>1, <2>1 DEF Imports, Seals, LegacyRead
<1>3. CASE NoKey(m)
  <2>1. /\ call[m].pc = "file" /\ KeyLockFree /\ keyFile = "empty"
        /\ UNCHANGED <<keyFile, ready, phone, faults>> /\ Done(m)
    BY <1>3 DEF NoKey
  <2>2. KeyLockFree'
    BY <1>0, <2>1, DoneMoves DEF KeyLockFree
  <2>3. Excuse'
    BY <1>0, <2>1, <2>2 DEF Excuse, Sealing
  <2> QED
    BY <1>1, <2>3 DEF LegacyRead
<1>4. CASE WriteFails(m)
  <2>1. Excuse'
    BY <1>0, <1>4 DEF WriteFails, Excuse
  <2> QED
    BY <1>1, <2>1 DEF LegacyRead
<1>5. CASE Write(m)
  <2>1. /\ call[m].pc = "write" /\ call[m].raw.form \in Sealed
        /\ file' = [file EXCEPT ![call[m].c] = File(call[m].raw.form, call[m].raw.v)]
    BY <1>0, <1>5 DEF Write, Sealing
  <2>2. c = call[m].c => ~Legacy(c)'
    BY <1>0, <2>1 DEF Legacy, File, Sealed
  <2>3. Imports(c) => Imports(c)'
    <3>1. call[m].op = "jar" => Goto(m, "unjar") /\ "unjar" \in Steps
      BY <1>5 DEF Write, Steps
    <3> QED
      BY <1>0, <3>1, GotoMoves DEF Imports
  <2> QED
    BY <1>1, <2>2, <2>3 DEF LegacyRead, Seals
<1>6. CASE Unjar(m)
  <2>1. call[m].pc = "unjar" /\ jars' = jars \ {call[m].c}
    BY <1>6 DEF Unjar
  <2> QED
    BY <1>1, <2>1 DEF LegacyRead, Imports, Seals, Making
\* A file that was read and is no legacy.
<1>7. CASE OpenOs(m) \/ OpenFile(m) \/ Move(m) \/ Delete(m)
  <2>1. call[m].pc \in {"open", "move", "delete"}
        /\ (call[m].pc = "open" => call[m].raw.form # "legacy")
    BY <1>7 DEF OpenOs, OpenFile, Move, Delete
  <2>2. ~Imports(c)
    BY <2>1 DEF Imports, Making
  <2>3. Seals(c) => ~Legacy(c)'
    BY <1>0, <2>1 DEF Seals, Making, LegacyRead
  <2> QED
    BY <1>1, <2>2, <2>3 DEF LegacyRead
<1> QED
  BY <1>2, <1>3, <1>4, <1>5, <1>6, <1>7 DEF Step

LEMMA ThreadsLeave ==
  ASSUME LInv, NEW t \in Threads, Step(t) \/ WriteFails(t)
  PROVE  LInv'
<1>0. /\ Busy(t) /\ \A u \in Threads \ {t} : call'[u] = call[u]
      /\ UNCHANGED <<phone, phase, todo>> /\ jars' \subseteq jars
      /\ phone => ready' = ready
      /\ \A c \in Creds : Legacy(c)' => Legacy(c) /\ file'[c] = file[c]
      /\ Excuse => Excuse'
      /\ Sealing(t)'
  BY ThreadStep
<1>1. FInv' /\ "migration" \in Threads /\ call \in [Threads -> CallRecords]
      /\ jars \subseteq Named /\ Named \subseteq Creds
  BY StepsTyped, CallTyped, VaultConstants DEF LInv, FInv, TypeOK, Threads
<1>2. \A u \in Threads : Sealing(u)'
  BY <1>0 DEF LInv, Sealing
<1>3. \A c \in Creds \ Named : ~Legacy(c)'
  BY <1>0 DEF LInv
<1>4. CASE t = "migration"
  <2>1. LegacyRead'
    BY <1>4, MigrationStep, VaultConstants
  <2>2. ASSUME ~Excuse' PROVE Left'
    <3>1. Left
      BY <1>0, <2>2 DEF LInv
    <3>2. \A c \in Creds : /\ Imports(c) /\ c \in jars' => Imports(c)'
                           /\ Seals(c) /\ Legacy(c)' => Seals(c)'
      BY <1>4, <2>2, MigrationStep
    <3> QED
      BY <1>0, <1>1, <3>1, <3>2 DEF Left
  <2> QED
    BY <1>1, <1>2, <1>3, <2>1, <2>2 DEF LInv
<1>5. CASE t # "migration"
  <2>1. call'["migration"] = call["migration"] /\ call["migration"].c \in Creds
    BY <1>0, <1>1, <1>5 DEF CallRecords
  <2>2. LegacyRead'
    BY <1>0, <2>1 DEF LInv, LegacyRead
  <2>3. \A c : Imports(c)' = Imports(c) /\ Seals(c)' = Seals(c)
    BY <2>1 DEF Imports, Seals
  <2>4. ASSUME ~Excuse' PROVE Left'
    BY <1>0, <1>1, <2>3, <2>4 DEF LInv, Left
  <2> QED
    BY <1>1, <1>2, <1>3, <2>2, <2>4 DEF LInv
<1> QED
  BY <1>4, <1>5

\* A thread takes up a credential: a caller when the migration is over, or the
\* migration itself.
LEMMA BeginLeaves ==
  ASSUME LInv, NEW t \in Threads, NEW r \in CallRecords, call[t].pc = "idle",
         call' = [call EXCEPT ![t] = r], r.pc \in {"key", "open", "unjar"}, FInv',
         UNCHANGED <<file, jars, keyFile, phone, ready, phase, faults>>,
         \/ t # "migration" /\ UNCHANGED todo
         \/ /\ t = "migration" /\ todo' = todo \ {r.c}
            /\ r.op = IF phase = "jars" THEN "jar" ELSE "load"
            /\ phase = "jars" => r.pc \in {"key", "unjar"}
            /\ phase # "jars" => r.pc # "unjar"
            /\ r.pc = "open" => r.raw = file[r.c]
  PROVE  LInv'
<1>0. /\ call \in [Threads -> CallRecords] /\ call'[t] = r
      /\ \A u \in Threads \ {t} : call'[u] = call[u]
      /\ "migration" \in Threads
  BY CallTyped DEF LInv, FInv, Threads
<1>1. \A u \in Threads : Sealing(u)'
  BY <1>0 DEF LInv, Sealing
<1>2. \A c : Legacy(c)' = Legacy(c)
  BY DEF Legacy
<1>3. LegacyRead'
  BY <1>0, <1>2 DEF LInv, LegacyRead, Legacy
<1>4. Excuse' = Excuse
  <2>1. KeyLockFree' = KeyLockFree
    BY <1>0 DEF KeyLockFree
  <2> QED
    BY <2>1 DEF Excuse
<1>5. ASSUME ~Excuse, Left PROVE Left'
  <2>1. CASE t # "migration"
    <3>1. \A c : Imports(c)' = Imports(c) /\ Seals(c)' = Seals(c)
      BY <1>0, <2>1 DEF Imports, Seals
    <3> QED
      BY <1>2, <1>5, <2>1, <3>1 DEF Left
  <2>2. CASE t = "migration"
    <3>1. \A c : ~Imports(c) /\ ~Seals(c)
      BY <2>2 DEF Imports, Seals, Making
    <3>2. phase = "jars" => Imports(r.c)'
      BY <1>0, <2>2 DEF Imports, Making
    <3>3. phase = "files" => Seals(r.c)'
      BY <1>0, <2>2 DEF Seals, Making
    <3> QED
      BY <1>2, <1>5, <2>2, <3>1, <3>2, <3>3 DEF Left
  <2> QED
    BY <2>1, <2>2
<1> QED
  BY <1>1, <1>2, <1>3, <1>4, <1>5 DEF LInv

LEMMA MigrationLeaves ==
  ASSUME LInv, Migrate
  PROVE  LInv'
<1> USE DEF disk, keys, migration, bounds
<1>0. /\ FInv /\ FInv' /\ TypeOK /\ call \in [Threads -> CallRecords]
      /\ file \in [Creds -> Files] /\ "migration" \in Threads /\ Named \subseteq Creds
      /\ call["migration"].pc = "idle"
  <2>1. FInv'
    BY NextTyped DEF LInv, Next, Work
  <2>2. call["migration"].pc = "idle"
    BY DEF Migrate, ListFiles, ListFails, Migrated, MigrateJar, MigrateFile, Begin
  <2> QED
    BY <2>1, <2>2, CallTyped, VaultConstants DEF LInv, FInv, Threads
<1>i. \A c : ~Imports(c) /\ ~Seals(c)
  BY <1>0 DEF Imports, Seals, Making
\* Nobody takes anything up.
<1>1. ASSUME UNCHANGED <<file, call, phone, ready, faults>>, Excuse => Excuse',
             ~Excuse /\ Left => Left'
      PROVE  LInv'
  BY <1>0, <1>1 DEF LInv, Legacy, LegacyRead, Sealing
<1>2. ASSUME NEW c \in Creds, MigrateJar(c) PROVE LInv'
  <2> DEFINE pc == IF file[c].form = "none" THEN "key" ELSE "unjar"
             r == [op |-> "jar", pc |-> pc, c |-> c, raw |-> File("none", 1)]
  <2>1. /\ phase = "jars" /\ todo' = todo \ {c}
        /\ call' = [call EXCEPT !["migration"] = r]
        /\ UNCHANGED <<file, jars, keyFile, phone, ready, phase, faults>>
    BY <1>2 DEF MigrateJar, Begin
  <2>2. r \in CallRecords /\ r.c = c /\ r.op = "jar" /\ r.pc \in {"key", "unjar"}
    BY FileTyped, VaultConstants DEF CallRecords, Steps, Versions
  <2> HIDE DEF r
  <2> QED
    BY <1>0, <2>1, <2>2, BeginLeaves
<1>3. ASSUME NEW c \in Creds, MigrateFile(c) PROVE LInv'
  <2> DEFINE r == [op |-> "load", pc |-> "open", c |-> c, raw |-> file[c]]
  <2>1. /\ phase = "files" /\ todo' = todo \ {c}
        /\ UNCHANGED <<file, jars, keyFile, phone, ready, phase, faults>>
    BY <1>3 DEF MigrateFile
  <2>2. CASE file[c].form # "none"
    <3>1. call' = [call EXCEPT !["migration"] = r]
      BY <1>3, <2>2 DEF MigrateFile, Begin
    <3>2. r \in CallRecords /\ r.c = c /\ r.op = "load" /\ r.pc = "open" /\ r.raw = file[c]
      BY <1>0 DEF CallRecords, Steps
    <3> HIDE DEF r
    <3> QED
      BY <1>0, <2>1, <3>1, <3>2, BeginLeaves
  <2>3. CASE file[c].form = "none"
    <3>1. call' = call
      BY <1>3, <2>3 DEF MigrateFile
    <3>2. Left => Left'
      BY <1>i, <2>1, <2>3, <3>1 DEF Left, Legacy
    <3>3. Excuse => Excuse'
      BY <2>1, <3>1 DEF Excuse, KeyLockFree
    <3> QED
      BY <1>1, <2>1, <3>1, <3>2, <3>3
  <2> QED
    BY <2>2, <2>3
<1>4. CASE ListFiles
  <2>1. /\ phase = "jars" /\ todo = {} /\ phase' = "files"
        /\ todo' = {c \in Named : file[c].form # "none"}
        /\ UNCHANGED <<file, jars, keyFile, phone, ready, call, faults>>
    BY <1>4 DEF ListFiles
  <2>2. Left => jars' = {}
    BY <1>i, <2>1 DEF Left
  <2>3. \A c \in Creds : Legacy(c)' => c \in todo'
    BY <2>1 DEF LInv, Legacy
  <2>4. Excuse => Excuse'
    BY <2>1 DEF Excuse, KeyLockFree
  <2> QED
    BY <1>1, <2>1, <2>2, <2>3, <2>4 DEF Left
<1>6. CASE ListFails
  <2>1. /\ UNCHANGED <<file, jars, keyFile, phone, ready, call>> /\ faults' = faults + 1
        /\ faults \in Nat
    BY <1>0, <1>6, VaultConstants DEF ListFails, TypeOK
  <2>2. Excuse'
    BY <2>1 DEF Excuse
  <2> QED
    BY <1>0, <2>1, <2>2 DEF LInv, Legacy, LegacyRead, Sealing
<1>5. CASE Migrated
  <2>1. /\ phase = "files" /\ todo = {} /\ phase' = "done"
        /\ UNCHANGED <<file, jars, phone, ready, todo, call, faults>>
        /\ keyFile' = keyFile \/ (phone /\ ready)
    BY <1>5 DEF Migrated, RetireFileKey
  <2>2. Left => Left'
    BY <1>i, <2>1 DEF Left, Legacy
  <2>3. Excuse => Excuse'
    BY <2>1 DEF Excuse, KeyLockFree
  <2> QED
    BY <1>1, <2>1, <2>2, <2>3
<1> QED
  BY <1>2, <1>3, <1>4, <1>5, <1>6 DEF Migrate

LEMMA LeftNext == LInv /\ [Next]_vars => LInv'
<1> USE DEF disk, keys, migration, bounds
<1>0. SUFFICES ASSUME LInv, [Next]_vars PROVE LInv'
  OBVIOUS
<1>a. /\ FInv' /\ TypeOK /\ call \in [Threads -> CallRecords] /\ file \in [Creds -> Files]
      /\ made \in 0..MaxStores /\ MaxStores \in Nat
      /\ Callers \subseteq Threads /\ "migration" \notin Callers /\ "migration" \in Threads
  BY <1>0, NextTyped, CallTyped, VaultConstants DEF LInv, FInv, TypeOK, Threads
<1>1. CASE \E t \in Threads : Step(t) \/ WriteFails(t)
  BY <1>0, <1>1, ThreadsLeave
<1>2. CASE Migrate
  BY <1>0, <1>2, MigrationLeaves
<1>3. CASE Restart
  <2>1. /\ phase' = "jars" /\ todo' = jars /\ call' = [t \in Threads |-> Idle]
        /\ UNCHANGED <<file, jars>>
    BY <1>3 DEF Restart
  <2>2. \A t \in Threads : call'[t].pc = "idle"
    BY <2>1, IdleTyped
  <2>3. Left' /\ LegacyRead' /\ \A t \in Threads : Sealing(t)'
    BY <1>a, <2>1, <2>2 DEF Left, LegacyRead, Sealing
  <2> QED
    BY <1>0, <1>a, <2>1, <2>3 DEF LInv, Legacy
<1>4. ASSUME NEW t \in Callers, NEW c \in Creds, Store(t, c) PROVE LInv'
  <2> DEFINE r == [op |-> "store", pc |-> "key", c |-> c, raw |-> File("none", made + 2)]
  <2>1. /\ call[t].pc = "idle" /\ call' = [call EXCEPT ![t] = r] /\ made < MaxStores
        /\ UNCHANGED <<file, jars, keyFile, phone, ready, phase, todo, faults>>
    BY <1>4 DEF Store, Begin
  <2>2. made + 2 \in Versions
    BY <1>a, <2>1 DEF Versions
  <2>3. r \in CallRecords /\ r.pc = "key"
    BY <2>2, FileTyped DEF CallRecords, Steps
  <2> HIDE DEF r
  <2> QED
    BY <1>0, <1>a, <2>1, <2>3, BeginLeaves
<1>5. ASSUME NEW t \in Callers, NEW c \in Creds, Load(t, c) PROVE LInv'
  <2> DEFINE r == [op |-> "load", pc |-> "open", c |-> c, raw |-> file[c]]
  <2>1. /\ call[t].pc = "idle" /\ call' = [call EXCEPT ![t] = r]
        /\ UNCHANGED <<file, jars, keyFile, phone, ready, phase, todo, faults>>
    BY <1>5 DEF Load, Begin
  <2>2. r \in CallRecords /\ r.pc = "open"
    BY <1>a DEF CallRecords, Steps
  <2> HIDE DEF r
  <2> QED
    BY <1>0, <1>a, <2>1, <2>2, BeginLeaves
<1>6. ASSUME NEW c \in Creds, Remove(c) PROVE LInv'
  <2>1. /\ file' = [file EXCEPT ![c] = NoFile]
        /\ UNCHANGED <<jars, keyFile, phone, ready, phase, todo, call, faults>>
    BY <1>6 DEF Remove
  <2>2. \A d \in Creds : Legacy(d)' => Legacy(d)
    BY <1>a, <2>1 DEF Legacy, NoFile, File
  <2>3. call["migration"].c \in Creds
    BY <1>a DEF CallRecords
  <2>4. LegacyRead' /\ \A t \in Threads : Sealing(t)'
    BY <1>0, <2>1, <2>2, <2>3 DEF LInv, LegacyRead, Sealing
  <2>5. Excuse' = Excuse
    BY <2>1 DEF Excuse, KeyLockFree
  <2>6. Left => Left'
    BY <2>1, <2>2 DEF Left, Imports, Seals
  <2> QED
    BY <1>0, <1>a, <2>2, <2>4, <2>5, <2>6 DEF LInv
<1>7. CASE UNCHANGED vars
  BY <1>0, <1>a, <1>7 DEF vars, LInv, LegacyRead, Legacy, Sealing, Excuse, KeyLockFree, Left,
                          Imports, Seals
<1> QED
  BY <1>0, <1>1, <1>2, <1>3, <1>4, <1>5, <1>6, <1>7 DEF Next, Work, Calls

LEMMA LeftInit == Init => LInv
<1> SUFFICES ASSUME Init PROVE LInv
  OBVIOUS
<1>1. /\ FInv /\ "migration" \in Threads /\ \A t \in Threads : call[t].pc = "idle"
      /\ phase = "jars" /\ todo = jars
  BY InitTyped, IdleTyped DEF Init, Threads
<1>2. Left /\ LegacyRead /\ \A t \in Threads : Sealing(t)
  BY <1>1 DEF Left, LegacyRead, Sealing
<1>3. \A c \in Creds \ Named : ~Legacy(c)
  <2>1. ASSUME NEW c \in Creds, c \notin Named PROVE file[c].form # "legacy"
    BY <2>1 DEF Init, NoFile, File, Sealed
  <2> QED
    BY <2>1 DEF Legacy
<1> QED
  BY <1>1, <1>2, <1>3 DEF LInv

(* However the services interleave with it and whenever the process ends,   *)
(* a migration that is over has left no mirror and no legacy file, unless   *)
(* an access of the disk failed or the key file holds no key (migrate_dir): what its loop   *)
(* takes up, it seals or fails at, and what it could not seal it can not    *)
(* seal later in the run either.                                            *)
THEOREM MigratedAreSealed == Spec => []MigratedIsSealed
<1>1. LInv => MigratedIsSealed
  BY DEF LInv, Left, Excuse, Legacy, MigratedIsSealed
<1> QED
  BY LeftInit, LeftNext, <1>1, PTL DEF Spec

=============================================================================
