---------------------------- MODULE PluginSession ----------------------------
(***************************************************************************)
(* One process lifetime of a plugin, frame by frame: the handshake, the    *)
(* serve loop with its command channel, event writes, spawned requests and *)
(* health pings, the graceful shutdown (run_once, request, notify_frame    *)
(* and route_frame in src-tauri/src/plugin_host/process.rs), against a     *)
(* plugin that may answer, refuse, ignore, stop reading or die at any      *)
(* moment.                                                                 *)
(*                                                                         *)
(* A frame is written to the plugin's stdin pipe in one piece under the    *)
(* writer mutex.  The pipe is finite and the write itself has no timeout   *)
(* (request's timeout covers the wait for the answer only), so a write to  *)
(* a plugin that no longer reads blocks its task for as long as the pipe   *)
(* is full and the process is up.  Timeouts are nondeterministic.          *)
(***************************************************************************)
EXTENDS Integers, Sequences, SequencesExt

CONSTANTS
    PipeCap,    \* frames the stdin pipe holds
    MissLimit,  \* missed pings that make a plugin unresponsive (3 in the code)
    MaxPings,   \* bound: ping requests outstanding at one time
    MaxEvents   \* bound: events emitted to this lifetime

ASSUME SessionConstants ==
    /\ PipeCap \in Nat \ {0}
    /\ MissLimit \in Nat \ {0}
    /\ MaxPings \in Nat \ {0}
    /\ MaxEvents \in Nat

VARIABLES
    phase,      \* where run_once is
    inbox,      \* cmd_rx: events by number, then possibly a Shutdown
    handle,     \* the command sender: "none", in `running` ("held"), "dropped"
    emitted,    \* events sent to the handle so far
    pipe,       \* frames on their way to the plugin
    pings,      \* the state of each ping request
    misses,     \* ping_misses
    action,     \* one invoke_action request
    child,      \* the plugin process: "none", "up", "dead"
    reading,    \* the plugin "reads" its stdin, "hangs" or has it "closed"
    reader,     \* the reader task has not stopped
    heard       \* the number of the last event the plugin read

vars == <<phase, inbox, handle, emitted, pipe, pings, misses, action, child,
          reading, reader, heard>>
hostVars == <<inbox, handle, emitted, misses, action>>
pluginVars == <<child, reading, reader, heard>>

PingIds == 1..MaxPings
Events == 1..MaxEvents

(* Frames and commands.  A ping frame carries its request's id; the ids of the
   code are never used again, so once the request has timed out its frame is
   nobody's ("stalePing") and the id here is free. *)
EventFrames == [kind : {"event"}, n : Events]
PingFrames == [kind : {"ping"}, n : PingIds]
Plain(k) == [kind |-> k, n |-> 0]
PlainFrames == {Plain(k) : k \in {"initialize", "initialized", "shutdown", "exit", "invoke_action",
                           "stalePing"}}
Frames == EventFrames \cup PingFrames \cup PlainFrames
Event(n) == [kind |-> "event", n |-> n]
Ping(i) == [kind |-> "ping", n |-> i]
Commands == EventFrames \cup {Plain("shutdown"), Plain("invoke_action")}

Phases == {"spawning", "initializing", "awaitInit", "initialized", "serving",
           "sendingEvent", "shutdownWrite", "shutdownWait", "exitWrite",
           "reaping", "clean", "crashed"}
Over == {"clean", "crashed"}

TypeOK ==
    /\ phase \in Phases
    /\ inbox \in Seq(Commands) /\ Len(inbox) <= MaxEvents + 2
    /\ handle \in {"none", "held", "dropped"}
    /\ emitted \in 0..MaxEvents
    /\ pipe \in Seq(Frames) /\ Len(pipe) <= PipeCap
    /\ pings \in [PingIds -> {"free", "writing", "waiting"}]
    /\ misses \in 0..MissLimit + MaxPings
    /\ action \in {"none", "queued", "writing", "waiting", "answered"}
    /\ child \in {"none", "up", "dead"}
    /\ reading \in {"reads", "hangs", "closed"}
    /\ reader \in BOOLEAN
    /\ heard \in 0..MaxEvents

Init ==
    /\ phase = "spawning"
    /\ inbox = <<>>
    /\ handle = "none"
    /\ emitted = 0
    /\ pipe = <<>>
    /\ pings = [i \in PingIds |-> "free"]
    /\ misses = 0
    /\ action = "none"
    /\ child = "none"
    /\ reading = "reads"
    /\ reader = TRUE
    /\ heard = 0

-----------------------------------------------------------------------------
(* write_frame under the writer mutex.  It fails when the pipe is broken, and
   at once when the frame is too large, which only a payload can make it. *)

CanWrite == child = "up" /\ reading # "closed" /\ Len(pipe) < PipeCap
WriteFails == child = "dead" \/ reading = "closed"
Write(f) == CanWrite /\ pipe' = Append(pipe, f)

(* Leaving run_once drops the Child, which kills it (kill_on_drop), and the
   command channel: what `inbox` still holds is never looked at again, and the
   reply sender of a request queued there is dropped. *)
End(ph) ==
    /\ phase' = ph
    /\ child' = "dead"
    /\ UNCHANGED inbox
    /\ action' = IF action = "queued" THEN "answered" ELSE action

Goto(ph) == phase' = ph /\ UNCHANGED <<inbox, action, child>>

-----------------------------------------------------------------------------
(* Spawn and handshake. *)

SpawnProcess ==
    /\ phase = "spawning"
    /\ phase' = "initializing"
    /\ child' = "up"
    /\ UNCHANGED <<inbox, handle, emitted, pipe, pings, misses, action, reading,
                   reader, heard>>

SpawnFails ==
    /\ phase = "spawning"
    /\ End("crashed")
    /\ UNCHANGED <<handle, emitted, pipe, pings, misses, reading, reader, heard>>

SendInitialize ==
    /\ phase = "initializing"
    /\ Write(Plain("initialize"))
    /\ Goto("awaitInit")
    /\ UNCHANGED <<handle, emitted, pings, misses, reading, reader, heard>>

(* A failed write, an error answer, or ten seconds without one. *)
InitializeFails ==
    /\ \/ phase = "initializing" /\ WriteFails
       \/ phase = "awaitInit"
       \/ phase = "initialized" /\ WriteFails
    /\ End("crashed")
    /\ UNCHANGED <<handle, emitted, pipe, pings, misses, reading, reader, heard>>

(* `initialized` goes out, then the handle is registered. *)
SendInitialized ==
    /\ phase = "initialized"
    /\ Write(Plain("initialized"))
    /\ Goto("serving")
    /\ handle' = "held"
    /\ UNCHANGED <<emitted, pings, misses, reading, reader, heard>>

-----------------------------------------------------------------------------
(* The rest of the host, through the registered handle. *)

EmitEvent ==
    /\ handle = "held"
    /\ phase \notin Over
    /\ emitted < MaxEvents
    /\ emitted' = emitted + 1
    /\ inbox' = Append(inbox, Event(emitted + 1))
    /\ UNCHANGED <<phase, handle, pipe, pings, misses, action, pluginVars>>

InvokeAction ==
    /\ handle = "held"
    /\ phase \notin Over
    /\ action = "none"
    /\ action' = "queued"
    /\ inbox' = Append(inbox, Plain("invoke_action"))
    /\ UNCHANGED <<phase, handle, emitted, pipe, pings, misses, pluginVars>>

(* Disabling, uninstalling or exiting; a second Shutdown adds nothing. *)
AskShutdown ==
    /\ handle = "held"
    /\ phase \notin Over
    /\ ~Contains(inbox, Plain("shutdown"))
    /\ inbox' = Append(inbox, Plain("shutdown"))
    /\ UNCHANGED <<phase, handle, emitted, pipe, pings, misses, action, pluginVars>>

(* Another supervisor of the plugin replaces or removes the handle. *)
DropHandle ==
    /\ handle = "held"
    /\ phase \notin Over
    /\ handle' = "dropped"
    /\ UNCHANGED <<phase, inbox, emitted, pipe, pings, misses, action, pluginVars>>

-----------------------------------------------------------------------------
(* The serve loop: one select! branch per action. *)

Received(k) == phase = "serving" /\ inbox # <<>> /\ Head(inbox).kind = k

(* The event stays at the head of `inbox` while it is being written. *)
TakeEvent ==
    /\ Received("event")
    /\ Goto("sendingEvent")
    /\ UNCHANGED <<handle, emitted, pipe, pings, misses, reading, reader, heard>>

(* Variant: the event that was written stays first in line. *)
WriteEventAgain ==
    /\ phase = "sendingEvent"
    /\ Write(Head(inbox))
    /\ Goto("serving")
    /\ UNCHANGED <<handle, emitted, pings, misses, reading, reader, heard>>

WriteEvent ==
    /\ phase = "sendingEvent"
    /\ Write(Head(inbox))
    /\ inbox' = Tail(inbox)
    /\ phase' = "serving"
    /\ UNCHANGED <<handle, emitted, pings, misses, action, pluginVars>>

WriteEventFails ==
    /\ phase = "sendingEvent"
    /\ WriteFails
    /\ End("crashed")
    /\ UNCHANGED <<handle, emitted, pipe, pings, misses, reading, reader, heard>>

EventTooLarge ==
    /\ phase = "sendingEvent"
    /\ End("crashed")
    /\ UNCHANGED <<handle, emitted, pipe, pings, misses, reading, reader, heard>>

TakeRequest ==
    /\ Received("invoke_action")
    /\ inbox' = Tail(inbox)
    /\ action' = "writing"
    /\ UNCHANGED <<phase, handle, emitted, pipe, pings, misses, pluginVars>>

HearsStop == Received("shutdown") \/ (phase = "serving" /\ inbox = <<>> /\ handle = "dropped")

TakeStop ==
    /\ HearsStop
    /\ Goto("shutdownWrite")
    /\ UNCHANGED <<handle, emitted, pipe, pings, misses, reading, reader, heard>>

ReaderEnded ==
    /\ phase = "serving"
    /\ ~reader
    /\ End("crashed")
    /\ UNCHANGED <<handle, emitted, pipe, pings, misses, reading, reader, heard>>

TickUnresponsive ==
    /\ phase = "serving"
    /\ misses >= MissLimit
    /\ End("crashed")
    /\ UNCHANGED <<handle, emitted, pipe, pings, misses, reading, reader, heard>>

TickPings ==
    /\ phase = "serving"
    /\ misses < MissLimit
    /\ \E i \in PingIds :
        /\ pings[i] = "free"
        /\ \A j \in 1..(i - 1) : pings[j] # "free"
        /\ pings' = [pings EXCEPT ![i] = "writing"]
    /\ UNCHANGED <<phase, hostVars, pipe, pluginVars>>

-----------------------------------------------------------------------------
(* The spawned requests: they outlive the loop, never the process's pipe. *)

SetPing(i, st) == pings' = [pings EXCEPT ![i] = st]

WritePing(i) ==
    /\ pings[i] = "writing"
    /\ Write(Ping(i))
    /\ SetPing(i, "waiting")
    /\ UNCHANGED <<phase, hostVars, pluginVars>>

Disown(i) ==
    [k \in 1..Len(pipe) |-> IF pipe[k] = Ping(i) THEN Plain("stalePing") ELSE pipe[k]]

(* Variant: the answer of a ping is awaited without a timeout. *)
PingWaits(i) ==
    /\ pings[i] = "writing"
    /\ WriteFails
    /\ misses' = misses + 1
    /\ SetPing(i, "free")
    /\ pipe' = Disown(i)
    /\ UNCHANGED <<phase, inbox, handle, emitted, action, pluginVars>>

(* The write failed, 25 seconds passed, or the answer was an error. *)
MissPing(i) ==
    /\ \/ pings[i] = "writing" /\ WriteFails
       \/ pings[i] = "waiting"
    /\ misses' = misses + 1
    /\ SetPing(i, "free")
    /\ pipe' = Disown(i)
    /\ UNCHANGED <<phase, inbox, handle, emitted, action, pluginVars>>

WriteAction ==
    /\ action = "writing"
    /\ Write(Plain("invoke_action"))
    /\ action' = "waiting"
    /\ UNCHANGED <<phase, inbox, handle, emitted, misses, pings, pluginVars>>

(* Variant: the answer of an action is awaited without a timeout. *)
ActionWaits ==
    /\ action = "writing"
    /\ WriteFails
    /\ action' = "answered"
    /\ UNCHANGED <<phase, inbox, handle, emitted, misses, pipe, pings, pluginVars>>

ActionFails ==
    /\ \/ action = "writing" /\ WriteFails
       \/ action = "waiting"
    /\ action' = "answered"
    /\ UNCHANGED <<phase, inbox, handle, emitted, misses, pipe, pings, pluginVars>>

ActionTooLarge ==
    /\ action = "writing"
    /\ action' = "answered"
    /\ UNCHANGED <<phase, inbox, handle, emitted, misses, pipe, pings, pluginVars>>

-----------------------------------------------------------------------------
(* The graceful shutdown: results of the request and of `exit` are ignored. *)

SendShutdown ==
    /\ phase = "shutdownWrite"
    /\ \/ Write(Plain("shutdown")) /\ Goto("shutdownWait")
       \/ WriteFails /\ Goto("exitWrite") /\ UNCHANGED pipe
    /\ UNCHANGED <<handle, emitted, pings, misses, reading, reader, heard>>

(* Variant: the answer to `shutdown` is awaited while the process is up. *)
ShutdownWaits ==
    /\ phase = "shutdownWait"
    /\ child = "dead"
    /\ Goto("exitWrite")
    /\ UNCHANGED <<handle, emitted, pipe, pings, misses, reading, reader, heard>>

(* Variant: a shutdown that times out is called off. *)
ShutdownCalledOff ==
    /\ phase = "shutdownWait"
    /\ phase' = "serving"
    /\ inbox' = SelectSeq(inbox, LAMBDA f : f.kind # "shutdown")
    /\ UNCHANGED <<handle, emitted, pipe, pings, misses, action, pluginVars>>

ShutdownTimeout ==
    /\ phase = "shutdownWait"
    /\ Goto("exitWrite")
    /\ UNCHANGED <<handle, emitted, pipe, pings, misses, reading, reader, heard>>

SendExit ==
    /\ phase = "exitWrite"
    /\ \/ Write(Plain("exit"))
       \/ WriteFails /\ UNCHANGED pipe
    /\ Goto("reaping")
    /\ UNCHANGED <<handle, emitted, pings, misses, reading, reader, heard>>

(* The process has exited, or is killed after five seconds. *)
Reap ==
    /\ phase = "reaping"
    /\ End("clean")
    /\ UNCHANGED <<handle, emitted, pipe, pings, misses, reading, reader, heard>>

-----------------------------------------------------------------------------
(* The plugin.  It reads frames in order; route_frame takes its answer to the
   request that waits for it, and drops an answer nobody waits for. *)

Reads == child = "up" /\ reading = "reads" /\ pipe # <<>>
Takes(kind) == Reads /\ Head(pipe).kind = kind
AnswerHeard == reader

ReadEvent ==
    /\ Takes("event")
    /\ pipe' = Tail(pipe)
    /\ heard' = Head(pipe).n
    /\ UNCHANGED <<phase, hostVars, pings, child, reading, reader>>

(* initialize, shutdown and invoke_action answered. *)
Answer ==
    /\ Reads
    /\ AnswerHeard
    /\ pipe' = Tail(pipe)
    /\ \/ Takes("initialize") /\ phase' = (IF phase = "awaitInit" THEN "initialized" ELSE phase)
          /\ UNCHANGED action
       \/ Takes("shutdown") /\ phase' = (IF phase = "shutdownWait" THEN "exitWrite" ELSE phase)
          /\ UNCHANGED action
       \/ Takes("invoke_action") /\ action' = (IF action = "waiting" THEN "answered" ELSE action)
          /\ UNCHANGED phase
    /\ UNCHANGED <<inbox, handle, emitted, misses, pings, pluginVars>>

(* Ok resets the misses. *)
AnswerPing ==
    /\ Takes("ping")
    /\ AnswerHeard
    /\ pipe' = Tail(pipe)
    /\ SetPing(Head(pipe).n, "free")
    /\ misses' = 0
    /\ UNCHANGED <<phase, inbox, handle, emitted, action, pluginVars>>

(* Read and not answered, or answered where nobody waits for it. *)
Ignore ==
    /\ Reads
    /\ Head(pipe).kind \notin {"event", "exit"}
    /\ pipe' = Tail(pipe)
    /\ UNCHANGED <<phase, hostVars, pings, pluginVars>>

(* On `exit` the process ends, or the plugin disregards it. *)
ReadExit ==
    /\ Takes("exit")
    /\ pipe' = Tail(pipe)
    /\ child' \in {"up", "dead"}
    /\ UNCHANGED <<phase, hostVars, pings, reading, reader, heard>>

Die ==
    /\ child = "up"
    /\ child' = "dead"
    /\ UNCHANGED <<phase, hostVars, pipe, pings, reading, reader, heard>>

StopReading ==
    /\ child = "up" /\ reading = "reads"
    /\ reading' \in {"hangs", "closed"}
    /\ UNCHANGED <<phase, hostVars, pipe, pings, child, reader, heard>>

(* End of file on stdout after the process is gone, or a frame that breaks
   the protocol (or a closed stdout) while it is up. *)
ReaderStops ==
    /\ child \in {"up", "dead"}
    /\ phase # "spawning"
    /\ reader
    /\ reader' = FALSE
    /\ UNCHANGED <<phase, hostVars, pipe, pings, child, reading, heard>>

-----------------------------------------------------------------------------

HostNext ==
    \/ SpawnProcess \/ SpawnFails \/ SendInitialize \/ InitializeFails
    \/ SendInitialized \/ TakeEvent \/ WriteEvent \/ WriteEventFails
    \/ TakeRequest \/ TakeStop \/ ReaderEnded
    \/ SendShutdown \/ ShutdownTimeout \/ SendExit \/ Reap

Tick == TickUnresponsive \/ TickPings
PingTask(i) == WritePing(i) \/ MissPing(i)
ActionTask == WriteAction \/ ActionFails
TooLarge == EventTooLarge \/ ActionTooLarge
Caller == EmitEvent \/ InvokeAction \/ AskShutdown \/ DropHandle
Plugin == ReadEvent \/ Answer \/ AnswerPing \/ Ignore \/ ReadExit \/ Die \/ StopReading

Next ==
    \/ HostNext \/ Tick \/ (\E i \in PingIds : PingTask(i)) \/ ActionTask
    \/ TooLarge \/ Caller \/ Plugin \/ ReaderStops

Spec == Init /\ [][Next]_vars

(* The runtime polls every task; select! picks at random among its ready
   branches, so none is passed over for ever; the writer mutex is first come
   first served; every timeout fires.  Nothing is assumed of the plugin, but
   the end of its process is seen. *)
Fairness ==
    /\ WF_vars(HostNext)
    /\ WF_vars(TakeStop)
    /\ WF_vars(TakeRequest)
    /\ WF_vars(Tick)
    /\ \A i \in PingIds : SF_vars(WritePing(i)) /\ WF_vars(MissPing(i))
    /\ SF_vars(WriteAction) /\ WF_vars(ActionFails)
    /\ WF_vars(child = "dead" /\ ReaderStops)

FairSpec == Spec /\ Fairness

-----------------------------------------------------------------------------
(* Safety. *)

(* Whichever of its many ends run_once takes, the process is down when it
   returns: the supervisor may start the next one. *)
DeadWhenOver == phase \in Over => child = "dead"

\* The events in s are those with the numbers ns, each once and in order.
InOrder(s, ns) ==
    /\ \A n \in Events : Contains(s, Event(n)) <=> n \in ns
    /\ \A j, k \in 1..Len(s) :
            j < k /\ s[j].kind = "event" /\ s[k].kind = "event" => s[j].n < s[k].n

(* "Event delivery order is preserved per plugin" (PROTOCOL.md:71), and no
   event is lost or sent twice: of all that were emitted the plugin heard the
   first, the pipe holds the next, and the rest still waits, or was left there
   when the lifetime was over. *)
EventsInOrder ==
    \E sent \in heard..emitted :
        InOrder(pipe, (heard + 1)..sent) /\ InOrder(inbox, (sent + 1)..emitted)

Stage(f) == CASE f.kind = "initialize" -> 1
              [] f.kind = "initialized" -> 2
              [] f.kind = "shutdown" -> 4
              [] f.kind = "exit" -> 5
              [] OTHER -> 3
Spawned(f) == f.kind \in {"ping", "stalePing", "invoke_action"}

(* "Event delivery begins only after this point" (`initialized`, PROTOCOL.md:27)
   and ends with the shutdown request.  Only requests that run off the loop may
   still follow `shutdown` and `exit`; they too wait for the handshake. *)
FrameOrder ==
    \A j, k \in 1..Len(pipe) : j < k =>
        \/ Stage(pipe[j]) <= Stage(pipe[k])
        \/ Spawned(pipe[k]) /\ Stage(pipe[j]) > 2

-----------------------------------------------------------------------------
(* Liveness, under FairSpec. *)

(* "Three consecutive missed responses count as unhealthy and the host restarts
   the plugin" (PROTOCOL.md:68): a plugin that hangs without exiting is not
   served for ever. *)
HungIsNoticed == (phase = "serving" /\ reading # "reads") ~> phase \notin {"serving", "sendingEvent"}

(* A page that invoked a plugin's action gets its answer or an error, through
   hangs, crashes and shutdowns. *)
ActionAnswered == action = "queued" ~> action = "answered"

-----------------------------------------------------------------------------
(* The detailed lifetime is the one PluginLifecycle's supervisors run.  With
   fairness: disabling, uninstalling, exiting or losing the handle ends it. *)

Run == INSTANCE PluginRun WITH
    run <- CASE phase = "spawning" -> "spawning"
             [] phase \in {"initializing", "awaitInit", "initialized"} -> "handshake"
             [] phase \in {"serving", "sendingEvent"} -> "serving"
             [] phase \in {"shutdownWrite", "shutdownWait", "exitWrite", "reaping"} -> "closing"
             [] OTHER -> phase,
    up <- child = "up",
    asked <- phase \notin Over /\ (handle = "dropped" \/ Contains(inbox, Plain("shutdown")))

ImplementsRun == Run!Spec
ImplementsFairRun == Run!FairSpec

=============================================================================
