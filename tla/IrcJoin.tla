------------------------------- MODULE IrcJoin -------------------------------
(***************************************************************************)
(* Which Twitch channels the shared IRC connection is in                   *)
(* (src-tauri/src/services/irc_service.rs): the windows' claims, the set   *)
(* of desired channels, the tracker of JOINs that await an answer, the     *)
(* supervisor that replaces dead sessions, the watchdog that asks again,   *)
(* and the server that may lose a JOIN.                                    *)
(*                                                                         *)
(* Every map is behind an async mutex of its own, so a step is what a task *)
(* does between two locks.  A call of a window is a record with the name   *)
(* of its next step.  Deadlines are abstracted: a JOIN is overdue when its *)
(* answer was lost, and also when it is late.  The bridge to the windows   *)
(* (the WebSocket server) is left out: whether it lives only decides which *)
(* way start() goes.                                                       *)
(***************************************************************************)
EXTENDS Naturals, Sequences, FiniteSets

CONSTANTS
    Windows,        \* window labels; each has one call in flight at most
    Channels,       \* the channels the model follows
    Other,          \* a channel it does not follow
    Ops,            \* the calls the windows make
    MaxAttempts,    \* JOIN_MAX_ATTEMPTS (3 in the app); no entry counts further
    MaxFaults,      \* bound: lost JOINs, late answers, dead sockets, suspensions
    MaxFrames       \* bound: unread client frames per channel

ASSUME IrcConstants ==
    /\ Channels # {} /\ Other \notin Channels
    /\ MaxAttempts \in Nat \ {0}
    /\ MaxFaults \in Nat /\ MaxFrames \in Nat

VARIABLES
    claims,      \* CHANNEL_CONSUMERS: windows holding each channel
    desired,     \* CURRENT_CHANNELS
    pending,     \* JoinTracker.pending: attempts so far, 0 without an entry
    nudged,      \* the pending entries that are nudges
    confirmed,   \* JoinTracker.confirmed
    deferred,    \* history: JOINs the watchdog dropped, not asked again since
                 \* (a nudge, which nobody repeats, does not count)
    call,        \* the window's call in flight
    supervisor,  \* the task of run_irc_connection is alive
    initial,     \* the channel it was started for
    stage,       \* where irc_session is
    writer,      \* IRC_WRITER is set
    link,        \* the session's socket is up
    burst,       \* channels the session has yet to JOIN at once, and later
    watch,       \* the JOIN watchdog: its step and its list of overdue JOINs
    cooled,      \* JOIN_DROP_COOLDOWN_MS have passed since it dropped a session
    wire,        \* frames of each channel the server has not taken yet
    inbound,     \* frames of each channel the session has not read yet
    inRoom,      \* channels the server has this connection in
    suspended,   \* channels whose JOIN the server refuses
    faults       \* what went wrong so far (bounded)

books == <<claims, desired, pending, nudged, confirmed, deferred>>
session == <<supervisor, initial, stage, writer, burst, watch, cooled>>
network == <<link, wire, inbound, inRoom, suspended, faults>>
vars == <<books, call, session, network>>

Idle == [op |-> "none", pc |-> "idle", ch |-> CHOOSE c \in Channels : TRUE,
         fresh |-> FALSE, wanted |-> FALSE, alive |-> FALSE, via |-> FALSE,
         todo |-> {}]
NoWatch == [pc |-> "idle", ch |-> CHOOSE c \in Channels : TRUE,
            retry |-> {}, drop |-> {}, cooled |-> FALSE]
NoBurst == [now |-> {}, later |-> {}]

Steps == {"idle", "want", "probe", "await", "write", "record", "undo",
          "unclaim", "sweep", "reap", "orphans", "part", "drop", "forget", "nudge",
          "nudged", "stop", "empty", "clear", "disclaim", "seed",
          "claim", "spawn"}

CallRecords ==
    [op : Ops \cup {"none"}, pc : Steps, ch : Channels, fresh : BOOLEAN,
     wanted : BOOLEAN, alive : BOOLEAN, via : BOOLEAN, todo : SUBSET Channels]
Lists ==
    [pc : {"idle", "work", "record", "shut", "done"}, ch : Channels,
     retry : SUBSET Channels, drop : SUBSET Channels, cooled : BOOLEAN]

TypeOK ==
    /\ claims \in [Channels -> SUBSET Windows]
    /\ desired \subseteq Channels /\ confirmed \subseteq Channels
    /\ nudged \subseteq Channels /\ deferred \subseteq Channels
    /\ pending \in [Channels -> 0..MaxAttempts]
    /\ call \in [Windows -> CallRecords]
    /\ supervisor \in BOOLEAN /\ initial \in Channels \cup {Other}
    /\ stage \in {"off", "up", "burst", "joined", "run", "closing"}
    /\ writer \in BOOLEAN /\ link \in BOOLEAN /\ cooled \in BOOLEAN
    /\ burst \in [now : SUBSET Channels, later : SUBSET Channels]
    /\ watch \in Lists
    /\ wire \in [Channels -> Seq({"JOIN", "PART"})]
    /\ inbound \in [Channels -> SUBSET {"frame", "suspended"}]
    /\ inRoom \subseteq Channels /\ suspended \subseteq Channels
    /\ faults \in 0..MaxFaults

(* Nothing has been started and the first call is a cold start, or chat is *)
(* up for another channel.  The cooldown counts from the start of the      *)
(* process (LAST_JOIN_DROP_MS is 0).                                       *)
Init ==
    /\ claims = [c \in Channels |-> {}]
    /\ desired = {} /\ confirmed = {} /\ nudged = {} /\ deferred = {}
    /\ pending = [c \in Channels |-> 0]
    /\ call = [w \in Windows |-> Idle]
    /\ supervisor \in BOOLEAN /\ initial = Other
    /\ stage = "off" /\ writer = FALSE /\ link = FALSE /\ cooled = FALSE
    /\ burst = NoBurst /\ watch = NoWatch
    /\ wire = [c \in Channels |-> <<>>]
    /\ inbound = [c \in Channels |-> {}]
    /\ inRoom = {} /\ suspended = {} /\ faults = 0

-----------------------------------------------------------------------------
(* The books. *)

Release(c, w) == claims[c] \ {w}

\* JoinTracker::record_sent for every channel of cs, and what it does to one.
Attempts(c) == IF pending[c] = MaxAttempts THEN MaxAttempts ELSE pending[c] + 1
RecordSent(cs, nudge) ==
    /\ pending' = [c \in Channels |-> IF c \in cs THEN Attempts(c) ELSE pending[c]]
    /\ nudged' = IF nudge THEN nudged \cup cs ELSE nudged \ cs
    /\ deferred' = IF nudge THEN deferred ELSE deferred \ cs

Confirm(c) ==
    /\ pending' = [pending EXCEPT ![c] = 0]
    /\ nudged' = nudged \ {c}
    /\ confirmed' = confirmed \cup {c}
    /\ deferred' = deferred \ {c}

Forget(cs) ==
    /\ pending' = [c \in Channels |-> IF c \in cs THEN 0 ELSE pending[c]]
    /\ nudged' = nudged \ cs
    /\ confirmed' = confirmed \ cs
    /\ deferred' = deferred \ cs

Settled(c) == c \in confirmed \/ pending[c] > 0

\* A line on the session's socket; one that died swallows it.
Room(c) == Len(wire[c]) < MaxFrames
Send(cs, line) ==
    wire' = [c \in Channels |->
                IF link /\ c \in cs THEN Append(wire[c], line) ELSE wire[c]]

\* The call of w goes on at step pc, with the changes of the record r.
Goto(w, pc) == call' = [call EXCEPT ![w].pc = pc]
Done(w) == call' = [call EXCEPT ![w] = Idle]

\* What follows ensure_joined in the call of w.
AfterJoin(w) ==
    CASE call[w].op = "start" -> Goto(w, "sweep")
      [] call[w].op = "warm" -> Goto(w, "reap")
      [] OTHER -> Done(w)

-----------------------------------------------------------------------------
(* The calls of the windows. *)

Begin(w, op, c, pc) ==
    /\ op \in Ops
    /\ call[w].pc = "idle"
    /\ call' = [call EXCEPT ![w] = [Idle EXCEPT !.op = op, !.ch = c, !.pc = pc]]

\* start() holds the start lock to its end.
StartLockFree == \A v \in Windows : call[v].op \notin {"start", "reattach", "warm"}

\* join_channel, also from a start() that finds the connection alive.
Join(w, op, c) ==
    /\ op \in {"join", "start", "reattach"}
    /\ op # "join" => StartLockFree /\ supervisor
    /\ op \in Ops /\ call[w].pc = "idle"
    /\ call' = [call EXCEPT ![w] = [Idle EXCEPT !.op = op, !.ch = c, !.pc = "want",
                                                !.fresh = w \notin claims[c]]]
    /\ claims' = [claims EXCEPT ![c] = @ \cup {w}]
    /\ UNCHANGED <<desired, pending, nudged, confirmed, deferred, session, network>>

\* send_message re-JOINs a channel that is not desired; a warm-up claims none.
EnsureOnly(w, op, c) ==
    /\ \/ op = "send" /\ c \notin desired
       \/ op = "warm" /\ StartLockFree /\ supervisor
    /\ Begin(w, op, c, "want")
    /\ UNCHANGED <<books, session, network>>

\* Variant for the runs' sensitivity: the claims of the others are not asked.
LeaveParts(w, c) ==
    /\ "leave" \in Ops /\ call[w].pc = "idle"
    /\ claims' = [claims EXCEPT ![c] = Release(c, w)]
    /\ call' = [call EXCEPT ![w] = [Idle EXCEPT !.op = "leave", !.pc = "part",
                                               !.todo = {c}]]
    /\ UNCHANGED <<desired, pending, nudged, confirmed, deferred, session, network>>

Leave(w, c) ==
    /\ "leave" \in Ops /\ call[w].pc = "idle"
    /\ claims' = [claims EXCEPT ![c] = Release(c, w)]
    /\ call' = IF Release(c, w) # {} THEN call
               ELSE [call EXCEPT ![w] = [Idle EXCEPT !.op = "leave", !.pc = "part",
                                                     !.todo = {c}]]
    /\ UNCHANGED <<desired, pending, nudged, confirmed, deferred, session, network>>

\* A destroyed window, a restart of the connection, the stale-chat probe.
Close(w, c) ==
    /\ Begin(w, "close", c, "sweep")
    /\ UNCHANGED <<books, session, network>>

Stop(w, c) ==
    /\ Begin(w, "stop", c, "stop")
    /\ UNCHANGED <<books, session, network>>

Nudge(w, c) ==
    /\ writer
    /\ "nudge" \in Ops /\ call[w].pc = "idle" /\ desired # {}
    /\ call' = [call EXCEPT ![w] = [Idle EXCEPT !.op = "nudge", !.pc = "nudge",
                                                !.via = TRUE, !.todo = desired]]
    /\ UNCHANGED <<books, session, network>>

\* The connection is dead, or the bridge is.
ColdStart(w, op, c) ==
    /\ op \in {"start", "reattach", "warm"}
    /\ StartLockFree
    /\ Begin(w, op, c, "stop")
    /\ UNCHANGED <<books, session, network>>

-----------------------------------------------------------------------------
(* ensure_joined. *)

Want(w) ==
    LET c == call[w].ch IN
    /\ call[w].pc = "want"
    /\ desired' = desired \cup {c}
    /\ call' = [call EXCEPT ![w].wanted = c \notin desired,
                            ![w].alive = supervisor,
                            ![w].pc = IF c \in desired THEN "probe" ELSE "await"]
    /\ UNCHANGED <<claims, pending, nudged, confirmed, deferred, session, network>>

Probe(w) ==
    /\ call[w].pc = "probe"
    /\ IF Settled(call[w].ch) THEN AfterJoin(w)
       ELSE call' = [call EXCEPT ![w].pc = "await", ![w].alive = supervisor]
    /\ UNCHANGED <<books, session, network>>

GetWriter(w) ==
    /\ call[w].pc = "await"
    /\ writer
    /\ call' = [call EXCEPT ![w].pc = "write", ![w].via = TRUE]
    /\ UNCHANGED <<books, session, network>>

\* No writer for five seconds: the next session JOINs what is desired.
NoWriter(w) ==
    /\ call[w].pc = "await"
    /\ ~writer
    /\ IF call[w].alive THEN AfterJoin(w) ELSE Goto(w, "undo")
    /\ UNCHANGED <<books, session, network>>

WriteJoin(w) ==
    /\ call[w].pc = "write"
    /\ call[w].via /\ link
    /\ Room(call[w].ch)
    /\ Send({call[w].ch}, "JOIN")
    /\ Goto(w, "record")
    /\ UNCHANGED <<books, session, link, inbound, inRoom, suspended, faults>>

\* The writer's socket is gone; the line fails or goes nowhere.
WriteFails(w) ==
    /\ call[w].pc = "write"
    /\ ~(call[w].via /\ link)
    /\ \E pc \in {"undo", "record"} : Goto(w, pc)
    /\ UNCHANGED <<books, session, network>>

\* Variant: the line that was written is taken for its answer.
RecordConfirms(w) ==
    /\ call[w].pc = "record"
    /\ Confirm(call[w].ch)
    /\ AfterJoin(w)
    /\ UNCHANGED <<claims, desired, session, network>>

Record(w) ==
    /\ call[w].pc = "record"
    /\ RecordSent({call[w].ch}, FALSE)
    /\ AfterJoin(w)
    /\ UNCHANGED <<claims, desired, confirmed, session, network>>

\* Variant: the entry of an earlier JOIN is undone too.
UndoAlways(w) ==
    /\ call[w].pc = "undo"
    /\ desired' = desired \ {call[w].ch}
    /\ IF call[w].fresh THEN Goto(w, "unclaim") ELSE AfterJoin(w)
    /\ UNCHANGED <<claims, pending, nudged, confirmed, deferred, session, network>>

Undo(w) ==
    /\ call[w].pc = "undo"
    /\ desired' = IF call[w].wanted THEN desired \ {call[w].ch} ELSE desired
    /\ IF call[w].fresh THEN Goto(w, "unclaim") ELSE AfterJoin(w)
    /\ UNCHANGED <<claims, pending, nudged, confirmed, deferred, session, network>>

\* join_channel gives the claim back.
Unclaim(w) ==
    /\ call[w].pc = "unclaim"
    /\ claims' = [claims EXCEPT ![call[w].ch] = @ \ {w}]
    /\ AfterJoin(w)
    /\ UNCHANGED <<desired, pending, nudged, confirmed, deferred, session, network>>

-----------------------------------------------------------------------------
(* release_window_claims, part_unclaimed, part_channel. *)

Keep(w) == IF call[w].op = "start" THEN {call[w].ch} ELSE {}

Part(w, cs) ==
    IF cs = {} THEN Done(w)
    ELSE call' = [call EXCEPT ![w].pc = "part", ![w].todo = cs]

Sweep(w) ==
    /\ call[w].pc = "sweep"
    /\ claims' = [c \in Channels |-> IF c \in Keep(w) THEN claims[c] ELSE Release(c, w)]
    /\ Part(w, {c \in Channels \ Keep(w) : claims[c] = {w}})
    /\ UNCHANGED <<desired, pending, nudged, confirmed, deferred, session, network>>

\* The desired channels are listed first, then the claims are looked at.
Reap(w) ==
    /\ call[w].pc = "reap"
    /\ call' = [call EXCEPT ![w].pc = "orphans", ![w].todo = desired \ {call[w].ch}]
    /\ UNCHANGED <<books, session, network>>

Orphans(w) ==
    /\ call[w].pc = "orphans"
    /\ Part(w, {c \in call[w].todo : claims[c] = {}})
    /\ UNCHANGED <<books, session, network>>

PartWire(w, c) ==
    /\ call[w].pc = "part"
    /\ c \in call[w].todo
    /\ call' = [call EXCEPT ![w].pc = "drop", ![w].ch = c]
    /\ Room(c)
    /\ IF writer THEN Send({c}, "PART") ELSE UNCHANGED wire
    /\ UNCHANGED <<books, session, link, inbound, inRoom, suspended, faults>>

PartDrop(w) ==
    /\ call[w].pc = "drop"
    /\ desired' = desired \ {call[w].ch}
    /\ Goto(w, "forget")
    /\ UNCHANGED <<claims, pending, nudged, confirmed, deferred, session, network>>

PartForget(w) ==
    /\ call[w].pc = "forget"
    /\ Forget({call[w].ch})
    /\ Part(w, call[w].todo \ {call[w].ch})
    /\ UNCHANGED <<claims, desired, session, network>>

-----------------------------------------------------------------------------
(* nudge_channels. *)

NudgeMark(w, c) ==
    /\ call[w].pc = "nudge"
    /\ c \in call[w].todo
    /\ IF pending[c] > 0
       THEN /\ IF call[w].todo = {c} THEN Done(w)
               ELSE call' = [call EXCEPT ![w].todo = @ \ {c}]
            /\ UNCHANGED books
       ELSE /\ confirmed' = confirmed \ {c}
            /\ RecordSent({c}, TRUE)
            /\ call' = [call EXCEPT ![w].pc = "nudged", ![w].ch = c]
            /\ UNCHANGED <<claims, desired>>
    /\ UNCHANGED <<session, network>>

NudgeWrite(w) ==
    LET rest == call[w].todo \ {call[w].ch} IN
    /\ call[w].pc = "nudged"
    /\ Room(call[w].ch)
    /\ IF call[w].via THEN Send({call[w].ch}, "JOIN") ELSE UNCHANGED wire
    /\ \E fails \in BOOLEAN :
        /\ fails => ~(call[w].via /\ link)
        /\ IF fails \/ rest = {} THEN Done(w)
           ELSE call' = [call EXCEPT ![w].pc = "nudge", ![w].todo = rest]
    /\ UNCHANGED <<books, session, link, inbound, inRoom, suspended, faults>>

-----------------------------------------------------------------------------
(* stop() and stop_irc_only(), and the cold start that follows either.     *)

\* The supervisor and its tasks are aborted, and with them the socket goes.
StopSession(w) ==
    /\ call[w].pc = "stop"
    /\ supervisor' = FALSE /\ stage' = "off" /\ writer' = FALSE
    /\ burst' = NoBurst /\ watch' = NoWatch
    /\ link' = FALSE /\ inRoom' = {}
    /\ wire' = [c \in Channels |-> <<>>] /\ inbound' = [c \in Channels |-> {}]
    /\ Goto(w, "empty")
    /\ UNCHANGED <<books, initial, cooled, suspended, faults>>

StopDesired(w) ==
    /\ call[w].pc = "empty"
    /\ desired' = {}
    /\ Goto(w, "clear")
    /\ UNCHANGED <<claims, pending, nudged, confirmed, deferred, session, network>>

StopTracker(w) ==
    /\ call[w].pc = "clear"
    /\ Forget(Channels)
    /\ Goto(w, "disclaim")
    /\ UNCHANGED <<claims, desired, session, network>>

StopClaims(w) ==
    /\ call[w].pc = "disclaim"
    /\ claims' = [c \in Channels |-> {}]
    /\ IF call[w].op = "stop" THEN Done(w) ELSE Goto(w, "seed")
    /\ UNCHANGED <<desired, pending, nudged, confirmed, deferred, session, network>>

Seed(w) ==
    /\ call[w].pc = "seed"
    /\ desired' = desired \cup {call[w].ch}
    /\ Goto(w, "claim")
    /\ UNCHANGED <<claims, pending, nudged, confirmed, deferred, session, network>>

SeedClaims(w) ==
    /\ call[w].pc = "claim"
    /\ claims' = [c \in Channels |->
            IF c = call[w].ch /\ call[w].op # "warm" THEN {w} ELSE {}]
    /\ Goto(w, "spawn")
    /\ UNCHANGED <<desired, pending, nudged, confirmed, deferred, session, network>>

\* Nobody is signed in and start() answers with an error, or chat comes up.
Spawn(w) ==
    /\ call[w].pc = "spawn"
    /\ \E up \in BOOLEAN :
        /\ supervisor' = (supervisor \/ up)
        /\ initial' = IF up THEN call[w].ch ELSE initial
    /\ Done(w)
    /\ UNCHANGED <<books, stage, writer, burst, watch, cooled, network>>

CallStep(w) ==
    \/ Want(w) \/ Probe(w) \/ GetWriter(w) \/ NoWriter(w) \/ WriteJoin(w)
    \/ WriteFails(w) \/ Record(w) \/ Undo(w) \/ Unclaim(w) \/ Sweep(w) \/ Reap(w)
    \/ Orphans(w) \/ PartDrop(w) \/ PartForget(w) \/ NudgeWrite(w)
    \/ StopSession(w) \/ StopDesired(w) \/ StopTracker(w) \/ StopClaims(w)
    \/ Seed(w) \/ SeedClaims(w) \/ Spawn(w)
    \/ \E c \in Channels : PartWire(w, c) \/ NudgeMark(w, c)

CallBegins(w, c) ==
    \/ Leave(w, c) \/ Close(w, c) \/ Stop(w, c) \/ Nudge(w, c)
    \/ \E op \in Ops : Join(w, op, c) \/ EnsureOnly(w, op, c) \/ ColdStart(w, op, c)

-----------------------------------------------------------------------------
(* The session and its supervisor. *)

\* Connected and authenticated: the writer is published.  Whoever holds the
\* writer of the session before holds a dead one.
Connect ==
    /\ supervisor /\ stage = "off"
    /\ stage' = "up" /\ writer' = TRUE /\ link' = TRUE
    /\ call' = [w \in Windows |-> [call[w] EXCEPT !.via = FALSE]]
    /\ UNCHANGED <<books, supervisor, initial, burst, watch, cooled, wire,
                   inbound, inRoom, suspended, faults>>

\* The channels to JOIN are listed.  The initial one is in the first batch;
\* the channels not followed leave the others room there or do not.
ListChannels ==
    LET all == IF desired = {} THEN {initial} \cap Channels ELSE desired IN
    /\ stage = "up"
    /\ \E now \in SUBSET all :
        /\ initial \in all => initial \in now
        /\ burst' = [now |-> now, later |-> all \ now]
    /\ stage' = "burst"
    /\ UNCHANGED <<books, call, supervisor, initial, writer, watch, cooled, network>>

BurstJoin ==
    /\ stage = "burst" /\ link
    /\ \A c \in burst.now : Room(c)
    /\ Send(burst.now, "JOIN")
    /\ stage' = "joined"
    /\ UNCHANGED <<books, call, supervisor, initial, writer, burst, watch, cooled,
                   link, inbound, inRoom, suspended, faults>>

\* Variant: the burst leaves no trace in the tracker.
BurstUntracked ==
    /\ stage = "joined"
    /\ burst' = [burst EXCEPT !.now = {}]
    /\ stage' = "run"
    /\ UNCHANGED <<books, call, supervisor, initial, writer, watch, cooled, network>>

BurstRecord ==
    /\ stage = "joined"
    /\ RecordSent(burst.now \cup burst.later, FALSE)
    /\ burst' = [burst EXCEPT !.now = {}]
    /\ stage' = "run"
    /\ UNCHANGED <<claims, desired, confirmed, call, supervisor, initial, writer,
                   watch, cooled, network>>

\* The pacer's batch: it does not look at `desired` again.
PacedJoin ==
    /\ stage = "run" /\ link
    /\ \E batch \in SUBSET burst.later \ {{}} :
        /\ \A c \in batch : Room(c)
        /\ Send(batch, "JOIN")
        /\ burst' = [burst EXCEPT !.later = @ \ batch]
    /\ UNCHANGED <<books, call, supervisor, initial, stage, writer, watch, cooled,
                   link, inbound, inRoom, suspended, faults>>

\* Any frame of a channel confirms it, but a message only while some JOIN is
\* pending (JOIN_PENDING_HINT); a refusal takes it out of the books.
Read(c) ==
    /\ stage = "run" /\ link
    /\ \/ /\ "frame" \in inbound[c]
          /\ \/ Confirm(c)
             \/ /\ \A d \in Channels : pending[d] = 0
                /\ UNCHANGED <<pending, nudged, confirmed, deferred>>
          /\ inbound' = [inbound EXCEPT ![c] = @ \ {"frame"}]
          /\ UNCHANGED desired
       \/ /\ "suspended" \in inbound[c]
          /\ Forget({c})
          /\ desired' = desired \ {c}
          /\ inbound' = [inbound EXCEPT ![c] = @ \ {"suspended"}]
    /\ UNCHANGED <<claims, call, session, link, wire, inRoom, suspended, faults>>

\* irc_session returns: the writer is taken down and the tasks are aborted,
\* then the tracker is cleared.
SessionEnds ==
    /\ stage \in {"up", "burst", "joined", "run"} /\ ~link
    /\ stage' = "closing" /\ writer' = FALSE
    /\ burst' = NoBurst /\ watch' = NoWatch
    /\ UNCHANGED <<books, call, supervisor, initial, cooled, network>>

ClearTracker ==
    /\ stage = "closing"
    /\ Forget(Channels)
    /\ stage' = "off"
    /\ UNCHANGED <<claims, desired, call, supervisor, initial, writer, burst,
                   watch, cooled, network>>

-----------------------------------------------------------------------------
(* The JOIN watchdog.  It lists the overdue JOINs and works the list off,  *)
(* each entry as old as the steps before it wish.                          *)

SocketGone ==
    /\ link' = FALSE /\ inRoom' = {}
    /\ wire' = [c \in Channels |-> <<>>] /\ inbound' = [c \in Channels |-> {}]

\* No answer within JOIN_CONFIRM_TIMEOUT_MS: there is none, or it is late.
Overdue(due) ==
    /\ \A c \in due : pending[c] > 0 /\ c \notin nudged \cup burst.later
    /\ IF \A c \in due : wire[c] = <<>> /\ inbound[c] = {}
       THEN UNCHANGED faults
       ELSE faults < MaxFaults /\ faults' = faults + 1

\* The attempts, and the time the cooldown is measured at, are as of the look.
WatchLooks ==
    /\ stage = "run" /\ watch.pc = "idle"
    /\ \E due \in SUBSET Channels \ {{}} :
        /\ Overdue(due)
        /\ watch' = [watch EXCEPT !.pc = "work", !.cooled = cooled,
                        !.retry = {c \in due : pending[c] < MaxAttempts},
                        !.drop = {c \in due : pending[c] = MaxAttempts}]
    /\ UNCHANGED <<books, call, supervisor, initial, stage, writer, burst, cooled,
                   link, wire, inbound, inRoom, suspended>>

\* The rest of the list.
WatchOn(retry, drop) ==
    watch' = IF retry \cup drop = {} THEN NoWatch
             ELSE [watch EXCEPT !.pc = "work", !.retry = retry, !.drop = drop]

WatchJoins(c) ==
    /\ watch.pc = "work" /\ c \in watch.retry
    /\ Room(c)
    /\ Send({c}, "JOIN")
    /\ watch' = [watch EXCEPT !.pc = "record", !.ch = c]
    /\ UNCHANGED <<books, call, supervisor, initial, stage, writer, burst, cooled,
                   link, inbound, inRoom, suspended, faults>>

WatchRecords ==
    /\ watch.pc = "record"
    /\ RecordSent({watch.ch}, FALSE)
    /\ WatchOn(watch.retry \ {watch.ch}, watch.drop)
    /\ UNCHANGED <<claims, desired, confirmed, call, supervisor, initial, stage,
                   writer, burst, cooled, network>>

\* Out of attempts at the look: the entry of now is dropped, and then the
\* session, unless that was done a short while ago.
WatchGivesUp(c) ==
    /\ watch.pc = "work" /\ c \in watch.drop
    /\ pending' = [pending EXCEPT ![c] = 0]
    /\ nudged' = nudged \ {c}
    /\ deferred' = IF pending[c] > 0 THEN deferred \cup {c} ELSE deferred
    /\ IF watch.cooled
       THEN cooled' = FALSE /\ watch' = [NoWatch EXCEPT !.pc = "shut"]
       ELSE UNCHANGED cooled /\ WatchOn(watch.retry, watch.drop \ {c})
    /\ UNCHANGED <<claims, desired, confirmed, call, supervisor, initial, stage,
                   writer, burst, network>>

\* The socket is shut down, and the watchdog is done.
WatchShuts ==
    /\ watch.pc = "shut"
    /\ SocketGone
    /\ watch' = [NoWatch EXCEPT !.pc = "done"]
    /\ UNCHANGED <<books, call, supervisor, initial, stage, writer, burst, cooled,
                   suspended, faults>>

CoolsDown ==
    /\ ~cooled /\ cooled' = TRUE
    /\ UNCHANGED <<books, call, supervisor, initial, stage, writer, burst, watch, network>>

-----------------------------------------------------------------------------
(* The server and the network. *)

ServerTakes(c) ==
    /\ wire[c] # <<>>
    /\ wire' = [wire EXCEPT ![c] = Tail(@)]
    /\ IF Head(wire[c]) = "PART"
       THEN inRoom' = inRoom \ {c} /\ UNCHANGED inbound
       ELSE IF c \in suspended
       THEN inbound' = [inbound EXCEPT ![c] = @ \cup {"suspended"}] /\ UNCHANGED inRoom
       ELSE /\ inRoom' = inRoom \cup {c}
            /\ inbound' = [inbound EXCEPT ![c] = @ \cup {"frame"}]
    /\ UNCHANGED <<books, call, session, link, suspended, faults>>

\* Somebody writes, joins or leaves there.
ServerTalks(c) ==
    /\ c \in inRoom
    /\ inbound' = [inbound EXCEPT ![c] = @ \cup {"frame"}]
    /\ UNCHANGED <<books, call, session, link, wire, inRoom, suspended, faults>>

JoinLost(c) ==
    /\ wire[c] # <<>> /\ Head(wire[c]) = "JOIN"
    /\ faults < MaxFaults /\ faults' = faults + 1
    /\ wire' = [wire EXCEPT ![c] = Tail(@)]
    /\ UNCHANGED <<books, call, session, link, inbound, inRoom, suspended>>

\* Twitch suspends the channel: nobody is in it any more.
Suspend(c) ==
    /\ c \notin suspended
    /\ faults < MaxFaults /\ faults' = faults + 1
    /\ suspended' = suspended \cup {c}
    /\ inRoom' = inRoom \ {c}
    /\ UNCHANGED <<books, call, session, link, wire, inbound>>

SocketDies ==
    /\ link
    /\ faults < MaxFaults /\ faults' = faults + 1
    /\ SocketGone
    /\ UNCHANGED <<books, call, session, suspended>>

-----------------------------------------------------------------------------
SessionStep == Connect \/ ListChannels \/ BurstJoin \/ BurstRecord \/ PacedJoin
               \/ SessionEnds \/ ClearTracker \/ \E c \in Channels : Read(c)
WatchStep == WatchLooks \/ WatchRecords \/ WatchShuts
             \/ \E c \in Channels : WatchJoins(c) \/ WatchGivesUp(c)
Environment == CoolsDown \/ SocketDies
               \/ \E c \in Channels : ServerTakes(c) \/ ServerTalks(c) \/ JoinLost(c)
                                      \/ Suspend(c)
Work == SessionStep \/ WatchStep \/ Environment \/ \E w \in Windows : CallStep(w)

Next == Work \/ \E w \in Windows, c \in Channels : CallBegins(w, c)

Spec == Init /\ [][Next]_vars

(* The windows take turns: a call begins when no other is in flight, and   *)
(* nothing of an earlier stay is under way in a channel that was left.     *)
(* The code does not see to it; Spec shows what happens otherwise.         *)
NoCall == \A w \in Windows : call[w].pc = "idle"
PatientNext ==
    \/ Work
    \/ /\ NoCall
       /\ \A c \in Channels \ desired : wire[c] = <<>> /\ inbound[c] = {}
       /\ \E w \in Windows, c \in Channels : CallBegins(w, c)
PatientSpec == Init /\ [][PatientNext]_vars

(* Tasks go on, and the server takes what is written.  A connection may    *)
(* fail many times before Connect; faults and calls need not happen.       *)
SessionTask == Connect \/ ListChannels \/ BurstJoin \/ BurstRecord
               \/ SessionEnds \/ ClearTracker
Fairness ==
    /\ WF_vars(SessionTask) /\ WF_vars(PacedJoin) /\ WF_vars(WatchStep)
    /\ \A c \in Channels : WF_vars(Read(c)) /\ WF_vars(ServerTakes(c))
    /\ \A w \in Windows : WF_vars(CallStep(w))
LiveSpec == PatientSpec /\ Fairness

-----------------------------------------------------------------------------
(* A channel a window holds is one the connection wants to be in, unless   *)
(* Twitch suspended it ("A channel stays JOINed while any window holds     *)
(* it", irc_service.rs:1424).                                              *)
ClaimedDesired ==
    NoCall => \A c \in Channels \ suspended : claims[c] # {} => c \in desired

(* What the tracker takes for joined is joined: the server has the         *)
(* connection in the channel, or the JOIN that will do it is on its way.   *)
(* A channel whose JOIN the watchdog gave up on within its cooldown is     *)
(* left to the next session; one that a late frame of an earlier stay had  *)
(* confirmed is then believed joined and is not.                           *)
Quiet == NoCall /\ watch.pc = "idle" /\ stage = "run" /\ link
Coming(c) == wire[c] # <<>> /\ wire[c][Len(wire[c])] = "JOIN"
Joined(c) == (c \in inRoom /\ wire[c] = <<>>) \/ Coming(c)
BelievedIsJoined ==
    Quiet => \A c \in (confirmed \cap desired) \ (suspended \cup deferred) :
                 pending[c] = 0 => Joined(c)

(* While windows take turns, no PART for a channel that a window holds:    *)
(* what a call found unheld (leave_channel, release_window_claims,         *)
(* part_unclaimed) stays so to its PART (part_channel).  Two calls at once *)
(* break it.                                                               *)
PartsUnheld ==
    [][\A c \in Channels :
        Len(wire'[c]) > Len(wire[c]) /\ wire'[c][Len(wire'[c])] = "PART"
            => claims[c] = {}]_vars

(* Nobody forgets a channel that a window holds: while a session runs and  *)
(* no call is under way the connection is in the channel, or the watchdog  *)
(* follows its JOIN; unless Twitch suspended it, or the watchdog gave the  *)
(* JOIN up, which within the cooldown of the last dropped session nobody   *)
(* repeats.                                                                *)
Followed(c) == pending[c] > 0 /\ c \notin nudged
ClaimedAsked ==
    NoCall /\ stage = "run" /\ link
        => \A c \in Channels :
              claims[c] # {} => c \in inRoom \cup suspended \cup deferred \/ Followed(c)

(* So a channel a window holds is joined in the end, as long as chat is on: *)
(* the watchdog asks again and "drops the session so the supervisor         *)
(* rebuilds it", or gives up.                                               *)
ClaimedHeard ==
    \A c \in Channels :
        claims[c] # {} /\ supervisor
            ~> \/ c \in inRoom \cup suspended \cup deferred
               \/ claims[c] = {} \/ ~supervisor

(* The same with nothing given up.                                         *)
NeverGivenUp ==
    \A c \in Channels :
        claims[c] # {} /\ supervisor
            ~> c \in inRoom \cup suspended \/ claims[c] = {} \/ ~supervisor

(* The connection is in no channel that nobody wants (part_channel).       *)
NoStray == Quiet => \A c \in Channels \ desired : ~Joined(c)
=============================================================================
