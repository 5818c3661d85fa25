------------------------------ MODULE TokenVault ------------------------------
(***************************************************************************)
(* The credentials on the disk and the two keys that seal them             *)
(* (src-tauri/src/services/token_vault): the key in the credential store   *)
(* of the system, which may not answer, and the key in a file beside the   *)
(* credentials, used when it does not.                                     *)
(*                                                                         *)
(* A step is one access of a file or one look at a key; threads interleave *)
(* between them and the process may end there.  A credential is a number,  *)
(* higher for a later sign-in; 1 was on the disk before this build.        *)
(* write_private renames a temporary file of its own into place: one step. *)
(***************************************************************************)
EXTENDS Naturals

CONSTANTS
    Creds,      \* the credentials, a file each
    Named,      \* those whose file names the migration knows (legacy::xor_key)
    Callers,    \* threads of the services
    MaxStores,  \* bound: sign-ins
    MaxFaults,  \* bound: accesses of the disk that fail
    MaxEnds     \* bound: times the process ends

ASSUME VaultConstants ==
    /\ Named \subseteq Creds /\ Creds # {}
    /\ "migration" \notin Callers
    /\ MaxStores \in Nat /\ MaxFaults \in Nat /\ MaxEnds \in Nat

Threads == Callers \cup {"migration"}
Sealed == {"os", "file"}    \* TAG_OS, TAG_FILE

VARIABLES
    file,     \* each credential's file: its form, whether a key of this install
              \* sealed it, and the credential
    jars,     \* credentials with a plaintext cookie mirror that holds a token
    keyFile,  \* .token_vault_key: "none", "empty" (created only) or "written"
    phone,    \* an iPhone: the shell passes the store's key, or none, to a run
    ready,    \* this run has the store's key (State::Ready)
    cached,   \* this run has the file's key (FILE_KEY)
    phase,    \* of the migration: "jars", "files", "done" (MIGRATED)
    todo,     \* credentials it has yet to look at
    call,     \* what each thread is doing
    latest,   \* history: the last sign-in that was stored, 0 when signed out
    made, faults, ends

vars == <<file, jars, keyFile, phone, ready, cached, phase, todo, call, latest,
          made, faults, ends>>
disk == <<file, jars>>
keys == <<keyFile, ready, cached>>
migration == <<phase, todo>>
bounds == <<made, faults, ends>>

Versions == 0..(MaxStores + 1)
File(form, v) == [form |-> form, ours |-> TRUE, v |-> v]
NoFile == File("none", 0)
Idle == [op |-> "none", pc |-> "idle", c |-> CHOOSE c \in Creds : TRUE, raw |-> NoFile]

Files == [form : {"none", "legacy"} \cup Sealed, ours : BOOLEAN, v : Versions]
Steps == {"idle", "key", "file", "fill", "write", "unjar", "open", "move", "delete"}

(* What a file was sealed with elsewhere came back from a backup.          *)
Init ==
    /\ file \in [Creds -> {NoFile, File("legacy", 1)} \cup
                          {[File(s, 1) EXCEPT !.ours = b] : s \in Sealed, b \in BOOLEAN}]
    /\ \A c \in Creds \ Named : file[c].form # "legacy"
    /\ jars \in SUBSET Named
    /\ keyFile \in {"none", "written"}
    /\ \A c \in Creds : file[c].form = "file" /\ file[c].ours => keyFile = "written"
    /\ phone \in BOOLEAN
    /\ ready \in BOOLEAN /\ (ready => phone)
    /\ cached = FALSE /\ phase = "jars" /\ todo = jars
    /\ call = [t \in Threads |-> Idle]
    /\ latest = [c \in Creds |->
            IF file[c].form = "none" THEN (IF c \in jars THEN 1 ELSE 0)
            ELSE IF file[c].ours THEN 1 ELSE 0]
    /\ made = 0 /\ faults = 0 /\ ends = 0

Goto(t, pc) == call' = [call EXCEPT ![t].pc = pc]
Done(t) == call' = [call EXCEPT ![t] = Idle]
Begin(t, op, c, pc, raw) ==
    /\ call[t].pc = "idle"
    /\ call' = [call EXCEPT ![t] = [op |-> op, pc |-> pc, c |-> c, raw |-> raw]]

-----------------------------------------------------------------------------
(* The keys *)

(* The store of a desktop may answer now and not have done so before; what *)
(* it answered once is kept.                                               *)
AskStore(answers) ==
    /\ answers \in IF ready THEN {TRUE} ELSE IF phone THEN {FALSE} ELSE BOOLEAN
    /\ ready' = answers

KeyLockFree == \A t \in Threads : call[t].pc # "fill"
FileKeyKnown == cached \/ keyFile = "written"

(* sealing_key: the store's key, else the file's.                          *)
SealOs(t) ==
    /\ call[t].pc = "key"
    /\ \E answers \in BOOLEAN :
        /\ AskStore(answers)
        /\ call' = IF answers
                   THEN [call EXCEPT ![t].pc = "write", ![t].raw.form = "os"]
                   ELSE [call EXCEPT ![t].pc = "file"]
    /\ UNCHANGED <<disk, keyFile, phone, cached, migration, latest, bounds>>

(* file_key under its lock: the cached key, the file's, or a new file's.   *)
SealFile(t) ==
    /\ call[t].pc = "file" /\ KeyLockFree /\ FileKeyKnown
    /\ cached' = TRUE
    /\ call' = [call EXCEPT ![t].pc = "write", ![t].raw.form = "file"]
    /\ UNCHANGED <<disk, keyFile, phone, ready, migration, latest, bounds>>

CreateKeyFile(t) ==
    /\ call[t].pc = "file" /\ KeyLockFree
    /\ ~cached /\ keyFile = "none"
    /\ keyFile' = "empty"
    /\ Goto(t, "fill")
    /\ UNCHANGED <<disk, phone, ready, cached, migration, latest, bounds>>

FillKeyFile(t) ==
    /\ call[t].pc = "fill"
    /\ keyFile' = "written" /\ cached' = TRUE
    /\ call' = [call EXCEPT ![t].pc = "write", ![t].raw.form = "file"]
    /\ UNCHANGED <<disk, phone, ready, migration, latest, bounds>>

(* A key file that holds no key is an error, and so it stays.              *)
NoKey(t) ==
    /\ call[t].pc = "file" /\ KeyLockFree
    /\ ~cached /\ keyFile = "empty"
    /\ Done(t)
    /\ UNCHANGED <<disk, keys, phone, migration, latest, bounds>>

-----------------------------------------------------------------------------
(* store: store_json, and what load and the migration store themselves.    *)

Store(t, c) ==
    /\ phase = "done" /\ made < MaxStores
    /\ made' = made + 1
    /\ Begin(t, "store", c, "key", File("none", made + 2))
    /\ UNCHANGED <<disk, keys, phone, migration, latest, faults, ends>>

Write(t) ==
    LET c == call[t].c  v == call[t].raw.v IN
    /\ call[t].pc = "write"
    /\ file' = [file EXCEPT ![c] = File(call[t].raw.form, v)]
    /\ latest' = IF call[t].op = "store" THEN [latest EXCEPT ![c] = v] ELSE latest
    /\ IF call[t].op = "jar" THEN Goto(t, "unjar") ELSE Done(t)
    /\ UNCHANGED <<jars, keys, phone, migration, bounds>>

(* The disk is full, or a mirror cannot be deleted: an error, or a warning *)
(* when nobody asked to store.                                             *)
WriteFails(t) ==
    /\ call[t].pc \in {"fill", "write", "unjar"}
    /\ faults < MaxFaults /\ faults' = faults + 1
    /\ Done(t)
    /\ UNCHANGED <<disk, keys, phone, migration, latest, made, ends>>

-----------------------------------------------------------------------------
(* load *)

Load(t, c) ==
    /\ phase = "done" /\ file[c].form # "none"
    /\ Begin(t, "load", c, "open", file[c])
    /\ UNCHANGED <<disk, keys, phone, migration, latest, bounds>>

(* Variant: a legacy file is read and left as it is.                       *)
OpenLegacyOnly(t) ==
    /\ call[t].pc = "open" /\ call[t].raw.form = "legacy"
    /\ Done(t)
    /\ UNCHANGED <<disk, keys, phone, migration, latest, bounds>>

OpenLegacy(t) ==
    /\ call[t].pc = "open" /\ call[t].raw.form = "legacy"
    /\ Goto(t, "key")
    /\ UNCHANGED <<disk, keys, phone, migration, latest, bounds>>

(* Variant: a store that does not answer is taken for a key that is gone.  *)
OpenOsOrDelete(t) ==
    /\ call[t].pc = "open" /\ call[t].raw.form = "os"
    /\ \E answers \in BOOLEAN :
        /\ AskStore(answers)
        /\ IF answers /\ call[t].raw.ours THEN Done(t) ELSE Goto(t, "delete")
    /\ UNCHANGED <<disk, keyFile, phone, cached, migration, latest, bounds>>

(* No answer is an error and leaves the file; a key that does not open it  *)
(* is the only one there is (Lost).                                        *)
OpenOs(t) ==
    /\ call[t].pc = "open" /\ call[t].raw.form = "os"
    /\ \E answers \in BOOLEAN :
        /\ AskStore(answers)
        /\ IF answers /\ ~call[t].raw.ours THEN Goto(t, "delete") ELSE Done(t)
    /\ UNCHANGED <<disk, keyFile, phone, cached, migration, latest, bounds>>

OpenFile(t) ==
    /\ call[t].pc = "open" /\ call[t].raw.form = "file" /\ KeyLockFree
    /\ cached' = FileKeyKnown
    /\ IF FileKeyKnown THEN Goto(t, IF call[t].raw.ours THEN "move" ELSE "delete")
       ELSE IF keyFile = "none" THEN Goto(t, "delete") ELSE Done(t)
    /\ UNCHANGED <<disk, keyFile, phone, ready, migration, latest, bounds>>

(* Opened under the file's key while the store answers: seal it again.     *)
Move(t) ==
    /\ call[t].pc = "move"
    /\ \E answers \in BOOLEAN :
        /\ AskStore(answers)
        /\ IF answers THEN Goto(t, "key") ELSE Done(t)
    /\ UNCHANGED <<disk, keyFile, phone, cached, migration, latest, bounds>>

Delete(t) ==
    /\ call[t].pc = "delete"
    /\ file' = [file EXCEPT ![call[t].c] = NoFile]
    /\ Done(t)
    /\ UNCHANGED <<jars, keys, phone, migration, latest, bounds>>

(* remove: a sign-out, which does not wait for the migration.              *)
Remove(c) ==
    /\ file[c].form # "none"
    /\ file' = [file EXCEPT ![c] = NoFile]
    /\ latest' = [latest EXCEPT ![c] = 0]
    /\ UNCHANGED <<jars, keys, phone, migration, call, bounds>>

-----------------------------------------------------------------------------
(* ensure_migrated: migrate_dir, then retire_file_key.                     *)

(* A mirror is imported into an empty slot, and deleted.                   *)
MigrateJar(c) ==
    /\ phase = "jars" /\ c \in todo
    /\ todo' = todo \ {c}
    /\ Begin("migration", "jar", c, IF file[c].form = "none" THEN "key" ELSE "unjar",
             File("none", 1))
    /\ UNCHANGED <<disk, keys, phone, phase, latest, bounds>>

Unjar(t) ==
    /\ call[t].pc = "unjar"
    /\ jars' = jars \ {call[t].c}
    /\ Done(t)
    /\ UNCHANGED <<file, keys, phone, migration, latest, bounds>>

ListFiles ==
    /\ phase = "jars" /\ todo = {} /\ call["migration"].pc = "idle"
    /\ phase' = "files" /\ todo' = {c \in Named : file[c].form # "none"}
    /\ UNCHANGED <<disk, keys, phone, call, latest, bounds>>

(* The directory, or some of its files, cannot be read: they are left.     *)
ListFails ==
    /\ phase = "jars" /\ todo = {} /\ call["migration"].pc = "idle"
    /\ faults < MaxFaults /\ faults' = faults + 1
    /\ phase' = "files" /\ todo' \in SUBSET {c \in Named : file[c].form # "none"}
    /\ UNCHANGED <<disk, keys, phone, call, latest, made, ends>>

MigrateFile(c) ==
    /\ phase = "files" /\ c \in todo /\ call["migration"].pc = "idle"
    /\ todo' = todo \ {c}
    /\ IF file[c].form = "none" THEN UNCHANGED call
       ELSE Begin("migration", "load", c, "open", file[c])
    /\ UNCHANGED <<disk, keys, phone, phase, latest, bounds>>

NoFileKeyInUse == \A c \in Creds : file[c].form # "file"

(* Variant for the run's sensitivity: the key file goes without a look at  *)
(* the files.                                                              *)
RetireUnchecked ==
    IF phone /\ ready THEN keyFile' = "none" /\ cached' = FALSE
    ELSE UNCHANGED <<keyFile, cached>>

RetireFileKey ==
    IF phone /\ ready /\ NoFileKeyInUse THEN keyFile' = "none" /\ cached' = FALSE
    ELSE UNCHANGED <<keyFile, cached>>

Migrated ==
    /\ phase = "files" /\ todo = {} /\ call["migration"].pc = "idle"
    /\ RetireFileKey
    /\ phase' = "done"
    /\ UNCHANGED <<disk, phone, ready, todo, call, latest, bounds>>

(* The process ends at any step, and the next one begins.                  *)
Restart ==
    /\ ends < MaxEnds /\ ends' = ends + 1
    /\ call' = [t \in Threads |-> Idle]
    /\ cached' = FALSE
    /\ ready' \in BOOLEAN /\ (ready' => phone)
    /\ phase' = "jars" /\ todo' = jars
    /\ UNCHANGED <<disk, keyFile, phone, latest, made, faults>>

-----------------------------------------------------------------------------
Step(t) ==
    \/ SealOs(t) \/ SealFile(t) \/ CreateKeyFile(t) \/ FillKeyFile(t) \/ NoKey(t)
    \/ Write(t) \/ Unjar(t) \/ OpenLegacy(t) \/ OpenOs(t) \/ OpenFile(t)
    \/ Move(t) \/ Delete(t)
Migrate == ListFiles \/ ListFails \/ Migrated \/ \E c \in Creds : MigrateJar(c) \/ MigrateFile(c)
Work == Migrate \/ Restart \/ \E t \in Threads : Step(t) \/ WriteFails(t)

Calls(c) == Remove(c) \/ \E t \in Callers : Store(t, c) \/ Load(t, c)

Next == Work \/ \E c \in Creds : Calls(c)
Spec == Init /\ [][Next]_vars

(* A service takes turns on its credential, and nobody signs out before    *)
(* the migration is over.  The code does not see to it; Spec shows what    *)
(* happens otherwise.                                                      *)
SlotFree(c) == \A t \in Threads : call[t].pc = "idle" \/ call[t].c # c
PatientNext ==
    \/ Work
    \/ \E c \in Creds : phase = "done" /\ SlotFree(c) /\ Calls(c)
PatientSpec == Init /\ [][PatientNext]_vars

-----------------------------------------------------------------------------
(* Types; what is cached is what the key file holds, and only the thread   *)
(* that fills it has it open.                                              *)
TypeOK ==
    /\ file \in [Creds -> Files]
    /\ jars \subseteq Named /\ todo \subseteq Named
    /\ keyFile \in {"none", "empty", "written"}
    /\ phone \in BOOLEAN /\ ready \in BOOLEAN /\ cached \in BOOLEAN
    /\ phase \in {"jars", "files", "done"}
    /\ call \in [Threads -> [op : {"none", "store", "load", "jar"}, pc : Steps,
                             c : Creds, raw : Files]]
    /\ latest \in [Creds -> Versions]
    /\ made \in 0..MaxStores /\ faults \in 0..MaxFaults /\ ends \in 0..MaxEnds
    /\ cached => keyFile = "written"
    /\ \A t \in Threads : call[t].pc = "fill" => keyFile = "empty"

(* What the files hold of a credential, and whether this install has the   *)
(* key to it.                                                              *)
Holds(c) ==
    IF file[c].form = "none" THEN (IF c \in jars THEN 1 ELSE 0)
    ELSE IF file[c].ours THEN file[c].v ELSE 0
Openable(c) == file[c].form = "file" => keyFile = "written"

(* Whatever fails, moves or ends in between, the last sign-in is on the    *)
(* disk under a key this install has: no file loses its key (the key file  *)
(* "is never deleted while a file sealed under it remains", mod.rs:293),   *)
(* and one whose key has not answered is left as it is.                    *)
SignInKept == \A c \in Creds : latest[c] # 0 => Holds(c) = latest[c] /\ Openable(c)

(* Once the migration is over, no credential is left in a form that needs  *)
(* no key ("no legacy or plaintext copy waits for its service to be read", *)
(* mod.rs:32), unless an access of the disk failed or the key file holds   *)
(* no key.  Of the copies in `secure/` (mod.rs:633) it says nothing.       *)
MigratedIsSealed ==
    (phase = "done" /\ faults = 0 /\ keyFile # "empty")
        => jars = {} /\ \A c \in Creds : file[c].form # "legacy"

(* A credential that was removed does not come back (remove).              *)
SignedOutStays == \A c \in Creds : latest[c] = 0 => Holds(c) = 0
=============================================================================
