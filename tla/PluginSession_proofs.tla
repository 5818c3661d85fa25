-------------------------- MODULE PluginSession_proofs --------------------------
(***************************************************************************)
(* Proofs about PluginSession, for any capacity of the pipe, any limit of  *)
(* missed pings and any number of pings and events.                        *)
(***************************************************************************)
EXTENDS PluginSession, TLAPS, SequenceTheorems, FiniteSetTheorems

-----------------------------------------------------------------------------
(* Sequences *)

LEMMA Appended ==
  ASSUME NEW S, NEW s \in Seq(S), NEW e \in S
  PROVE  /\ Append(s, e) \in Seq(S) /\ Append(s, e) # <<>>
         /\ Len(Append(s, e)) = Len(s) + 1 /\ Len(s) \in Nat
         /\ \A i \in 1..Len(s) : Append(s, e)[i] = s[i]
         /\ Append(s, e)[Len(s) + 1] = e
         /\ \A d : Contains(Append(s, e), d) <=> Contains(s, d) \/ d = e
         /\ s # <<>> => Head(Append(s, e)) = Head(s)
<1>1. /\ Append(s, e) \in Seq(S) /\ Append(s, e) # <<>>
      /\ Len(Append(s, e)) = Len(s) + 1 /\ Len(s) \in Nat
      /\ \A i \in 1..Len(s) : Append(s, e)[i] = s[i]
      /\ Append(s, e)[Len(s) + 1] = e
  BY AppendProperties, LenProperties
<1>2. ASSUME NEW d PROVE Contains(Append(s, e), d) <=> Contains(s, d) \/ d = e
  BY <1>1 DEF Contains
<1>3. s # <<>> => Head(Append(s, e)) = Head(s)
  BY HeadTailAppend
<1> QED
  BY <1>1, <1>2, <1>3

LEMMA Behead ==
  ASSUME NEW S, NEW s \in Seq(S), s # <<>>
  PROVE  /\ Head(s) \in S /\ Tail(s) \in Seq(S)
         /\ Len(Tail(s)) = Len(s) - 1 /\ Len(s) \in Nat \ {0}
         /\ \A i \in 1..Len(Tail(s)) : Tail(s)[i] = s[i + 1]
         /\ \A d : Contains(Tail(s), d) => Contains(s, d)
         /\ \A d : d # Head(s) => (Contains(Tail(s), d) <=> Contains(s, d))
         /\ Contains(s, Head(s))
<1>1. /\ Head(s) \in S /\ Tail(s) \in Seq(S)
      /\ Len(Tail(s)) = Len(s) - 1 /\ Len(s) \in Nat \ {0}
      /\ \A i \in 1..Len(Tail(s)) : Tail(s)[i] = s[i + 1]
      /\ Head(s) = s[1]
  BY HeadTailProperties, LenProperties, EmptySeq
<1>2. ASSUME NEW d, Contains(Tail(s), d) PROVE Contains(s, d)
  <2>1. PICK i \in 1..Len(Tail(s)) : Tail(s)[i] = d
    BY <1>2 DEF Contains
  <2>2. i + 1 \in 1..Len(s) /\ s[i + 1] = d
    BY <1>1, <2>1
  <2> QED
    BY <2>2 DEF Contains
<1>3. ASSUME NEW d, d # Head(s), Contains(s, d) PROVE Contains(Tail(s), d)
  <2>1. PICK i \in 1..Len(s) : s[i] = d
    BY <1>3 DEF Contains
  <2>2. i - 1 \in 1..Len(Tail(s)) /\ Tail(s)[i - 1] = d
    BY <1>1, <1>3, <2>1
  <2> QED
    BY <2>2 DEF Contains
<1>4. Contains(s, Head(s))
  BY <1>1 DEF Contains
<1> QED
  BY <1>1, <1>2, <1>3, <1>4

-----------------------------------------------------------------------------
(* The inductive invariant.                                                 *)
(*                                                                          *)
(* Before the plugin is served nobody outside run_once can reach it; from   *)
(* then on the phase bounds what the pipe holds, and a shutdown that begins *)
(* was asked for.  The counts keep the misses and the inbox within bounds.  *)

Before == {"spawning", "initializing", "awaitInit", "initialized"}
Ending == {"shutdownWrite", "shutdownWait", "exitWrite", "reaping"}
Asked == handle = "dropped" \/ Contains(inbox, Plain("shutdown"))

Early == phase \in Before =>
    /\ handle = "none" /\ action = "none" /\ inbox = <<>>
    /\ \A i \in PingIds : pings[i] = "free"
Lives == DeadWhenOver /\ (child = "none" <=> phase = "spawning")
Sending == phase = "sendingEvent" => inbox # <<>> /\ Head(inbox).kind = "event"
Closing == phase \in Ending => Asked

\* The latest frame of the lifetime that may have been written.
Latest == CASE phase \in {"spawning", "initializing"} -> 0
            [] phase \in {"awaitInit", "initialized"} -> 1
            [] phase \in {"serving", "sendingEvent", "shutdownWrite"} -> 3
            [] phase \in {"shutdownWait", "exitWrite"} -> 4
            [] OTHER -> 5
Staged == \A k \in 1..Len(pipe) : Stage(pipe[k]) <= Latest

Busy == {i \in PingIds : pings[i] # "free"}
Count(b) == IF b THEN 1 ELSE 0
MissesCounted == misses + Cardinality(Busy) <= MissLimit + MaxPings
InboxCounted ==
    Len(inbox) <= emitted + Count(action # "none") + Count(Contains(inbox, Plain("shutdown")))

Control == Early /\ Lives /\ Sending /\ Closing
IInv == TypeOK /\ MissesCounted /\ InboxCounted /\ Control /\ Staged /\ FrameOrder

-----------------------------------------------------------------------------
(* Frames *)

LEMMA FrameKinds ==
  /\ \A k \in {"initialize", "initialized", "shutdown", "exit", "invoke_action", "stalePing"} :
        Plain(k) \in Frames /\ Plain(k).kind = k
  /\ \A i \in PingIds : Ping(i) \in Frames /\ Ping(i).kind = "ping" /\ Ping(i).n = i
  /\ \A n \in Events : Event(n) \in EventFrames /\ Event(n).kind = "event"
  /\ EventFrames \subseteq Frames /\ EventFrames \subseteq Commands
  /\ Plain("shutdown") \in Commands /\ Plain("invoke_action") \in Commands
  /\ \A f \in Commands :
        /\ f.kind = "event" => f \in EventFrames
        /\ f.kind = "shutdown" => f = Plain("shutdown")
        /\ f # Plain("shutdown") => f.kind # "shutdown"
  /\ \A f \in Frames : f.kind = "ping" => f.n \in PingIds
  /\ \A f \in EventFrames : f.kind = "event" /\ f.n \in Events
BY DEF Plain, Ping, Event, Frames, PlainFrames, PingFrames, EventFrames, Commands, PingIds, Events

LEMMA Stages ==
  ASSUME NEW f
  PROVE  Stage(f) \in 1..5 /\ (f.kind \in {"ping", "stalePing", "invoke_action", "event"} => Stage(f) = 3)
BY DEF Stage

-----------------------------------------------------------------------------
(* What a step does to the simple variables *)

LEMMA SimpleTypes ==
  ASSUME TypeOK, Next
  PROVE  /\ phase' \in Phases /\ handle' \in {"none", "held", "dropped"}
         /\ action' \in {"none", "queued", "writing", "waiting", "answered"}
         /\ child' \in {"none", "up", "dead"} /\ reading' \in {"reads", "hangs", "closed"} /\ reader' \in BOOLEAN
         /\ emitted' \in 0..MaxEvents
<1> USE SessionConstants DEF TypeOK, Phases, hostVars, pluginVars, Goto, End
<1>1. CASE HostNext
  <2>1. CASE SpawnProcess \/ SpawnFails \/ SendInitialize \/ InitializeFails \/ SendInitialized
    BY <2>1 DEF SpawnProcess, SpawnFails, SendInitialize, InitializeFails, SendInitialized
  <2>2. CASE TakeEvent \/ WriteEvent \/ WriteEventFails \/ TakeRequest
    BY <2>2 DEF TakeEvent, WriteEvent, WriteEventFails, TakeRequest
  <2>3. CASE TakeStop \/ ReaderEnded \/ SendShutdown \/ ShutdownTimeout \/ SendExit \/ Reap
    BY <2>3 DEF TakeStop, ReaderEnded, SendShutdown, ShutdownTimeout, SendExit, Reap
  <2> QED
    BY <1>1, <2>1, <2>2, <2>3 DEF HostNext
<1>2. CASE Tick \/ ActionTask \/ TooLarge \/ \E i \in PingIds : PingTask(i)
  BY <1>2 DEF Tick, TickUnresponsive, TickPings, ActionTask, WriteAction, ActionFails,
     TooLarge, EventTooLarge, ActionTooLarge,
     PingTask, WritePing, MissPing
<1>3. CASE Caller
  BY <1>3 DEF Caller, EmitEvent, InvokeAction, AskShutdown, DropHandle
<1>4. CASE Answer
  BY <1>4 DEF Answer
<1>5. CASE ReadExit
  BY <1>5 DEF ReadExit
<1>6. CASE ReadEvent \/ AnswerPing \/ Ignore
  BY <1>6 DEF ReadEvent, AnswerPing, Ignore
<1>7. CASE Die \/ StopReading
  <2>1. CASE Die
    BY <2>1 DEF Die
  <2>2. CASE StopReading
    BY <2>2 DEF StopReading
  <2> QED
    BY <1>7, <2>1, <2>2
<1>8. CASE ReaderStops
  BY <1>8 DEF ReaderStops
<1> QED
  BY <1>1, <1>2, <1>3, <1>4, <1>5, <1>6, <1>7, <1>8 DEF Next, Plugin

(* What a step does to the inbox                                            *)

\* A sender adds a command, the loop is done with its first, or neither.
Sends(f) ==
    /\ handle = "held" /\ phase \notin Over /\ inbox' = Append(inbox, f)
    /\ UNCHANGED <<phase, handle, child, pings, pipe, misses, reading, reader, heard>>
InboxMoves ==
    \/ UNCHANGED <<inbox, emitted>> /\ (action' = "none" <=> action = "none")
    \/ /\ emitted < MaxEvents /\ emitted' = emitted + 1 /\ UNCHANGED action
       /\ Sends(Event(emitted + 1))
    \/ /\ action = "none" /\ action' = "queued" /\ UNCHANGED emitted
       /\ Sends(Plain("invoke_action"))
    \/ /\ ~Contains(inbox, Plain("shutdown")) /\ UNCHANGED <<emitted, action>>
       /\ Sends(Plain("shutdown"))
    \/ /\ phase \in {"serving", "sendingEvent"} /\ phase' = "serving"
       /\ inbox # <<>> /\ Head(inbox).kind \in {"event", "invoke_action"} /\ inbox' = Tail(inbox)
       /\ UNCHANGED <<emitted, handle, child>>
       /\ action' = "none" => action = "none"

LEMMA InboxSteps ==
  ASSUME IInv, Next
  PROVE  InboxMoves
<1> USE SessionConstants DEF IInv, Control, hostVars, pluginVars, Goto, End, InboxMoves
<1>1. CASE HostNext
  <2>1. CASE WriteEvent
    BY <2>1 DEF WriteEvent, Sending
  <2>2. CASE TakeRequest
    BY <2>2 DEF TakeRequest, Received
  <2>3. CASE ~WriteEvent /\ ~TakeRequest
    BY <1>1, <2>3 DEF HostNext, SpawnProcess, SpawnFails, SendInitialize, InitializeFails, SendInitialized,
       TakeEvent, WriteEventFails, TakeStop, ReaderEnded, SendShutdown, ShutdownTimeout, SendExit, Reap
  <2> QED
    BY <2>1, <2>2, <2>3
<1>2. CASE Tick \/ ActionTask \/ TooLarge \/ \E i \in PingIds : PingTask(i)
  BY <1>2 DEF Tick, TickUnresponsive, TickPings, ActionTask, WriteAction, ActionFails,
     TooLarge, EventTooLarge, ActionTooLarge,
     PingTask, WritePing, MissPing
<1>3. CASE Caller
  BY <1>3 DEF Caller, EmitEvent, InvokeAction, AskShutdown, DropHandle, Sends
<1>4. CASE Answer
  BY <1>4 DEF Answer
<1>5. CASE ReadEvent \/ AnswerPing \/ Ignore \/ ReadExit
  BY <1>5 DEF ReadEvent, AnswerPing, Ignore, ReadExit
<1>6. CASE Die \/ StopReading \/ ReaderStops
  BY <1>6 DEF Die, StopReading, ReaderStops
<1> QED
  BY <1>1, <1>2, <1>3, <1>4, <1>5, <1>6 DEF Next, Plugin

\* The inbox keeps its type and bound, and Shutdown stays in it.
LEMMA InboxKeeps ==
  ASSUME IInv, Next
  PROVE  /\ inbox' \in Seq(Commands) /\ Len(inbox') <= MaxEvents + 2
         /\ InboxCounted'
         /\ Contains(inbox, Plain("shutdown")) => Contains(inbox', Plain("shutdown"))
<1> DEFINE stop == Plain("shutdown")
<1>0. /\ inbox \in Seq(Commands) /\ Len(inbox) \in Nat /\ emitted \in 0..MaxEvents /\ MaxEvents \in Nat
      /\ InboxCounted /\ emitted' \in 0..MaxEvents /\ stop \in Commands
  BY SimpleTypes, LenProperties, SessionConstants, FrameKinds DEF IInv, TypeOK
<1> HIDE DEF stop
<1>1. inbox' \in Seq(Commands) /\ InboxCounted' /\ (Contains(inbox, stop) => Contains(inbox', stop))
  <2>1. CASE UNCHANGED <<inbox, emitted>> /\ (action' = "none" <=> action = "none")
    BY <1>0, <2>1 DEF InboxCounted, Count
  <2>2. CASE /\ emitted < MaxEvents /\ emitted' = emitted + 1 /\ UNCHANGED action
             /\ Sends(Event(emitted + 1))
    <3>1. Event(emitted + 1) \in Commands /\ Event(emitted + 1) # stop
      BY <1>0, <2>2, FrameKinds DEF Events, stop
    <3> QED
      BY <1>0, <2>2, <3>1, Appended DEF InboxCounted, Count, Sends, stop
  <2>3. CASE /\ action = "none" /\ action' = "queued" /\ UNCHANGED emitted
             /\ Sends(Plain("invoke_action"))
    <3>1. Plain("invoke_action") \in Commands /\ Plain("invoke_action") # stop
      BY FrameKinds DEF stop
    <3> QED
      BY <1>0, <2>3, <3>1, Appended DEF InboxCounted, Count, Sends, stop
  <2>4. CASE /\ ~Contains(inbox, Plain("shutdown")) /\ UNCHANGED <<emitted, action>>
             /\ Sends(Plain("shutdown"))
    BY <1>0, <2>4, Appended DEF InboxCounted, Count, Sends, stop
  <2>5. CASE /\ inbox # <<>> /\ Head(inbox).kind \in {"event", "invoke_action"} /\ inbox' = Tail(inbox)
             /\ UNCHANGED emitted
             /\ action' = "none" => action = "none"
    <3>1. Head(inbox) # stop
      BY <2>5, FrameKinds DEF stop
    <3>2. /\ Tail(inbox) \in Seq(Commands) /\ Len(Tail(inbox)) = Len(inbox) - 1
          /\ Contains(Tail(inbox), stop) <=> Contains(inbox, stop)
      BY <1>0, <2>5, <3>1, Behead
    <3>3. /\ inbox' \in Seq(Commands) /\ Len(inbox') = Len(inbox) - 1 /\ emitted' = emitted
          /\ Contains(inbox', stop) <=> Contains(inbox, stop)
      BY <2>5, <3>2
    <3>4. Count(action # "none") <= Count(action' # "none")
      BY <2>5 DEF Count
    <3>5. Count(Contains(inbox', stop)) = Count(Contains(inbox, stop))
      BY <3>3 DEF Count
    <3>6. InboxCounted'
      BY <1>0, <3>3, <3>4, <3>5 DEF InboxCounted, Count, stop
    <3> QED
      BY <3>3, <3>6
  <2> QED
    BY InboxSteps, <2>1, <2>2, <2>3, <2>4, <2>5 DEF InboxMoves
<1>2. Len(inbox') <= MaxEvents + 2
  BY <1>0, <1>1, LenProperties DEF InboxCounted, Count
<1> QED
  BY <1>1, <1>2 DEF stop

(* Control: phases, process, handle and pings                               *)

LEMMA EarlyKeeps ==
  ASSUME IInv, Next
  PROVE  Early'
<1> USE SessionConstants DEF IInv, TypeOK, Phases, Control, Early, Before, hostVars, pluginVars, Goto, End
<1>1. CASE HostNext
  BY <1>1 DEF HostNext, SpawnProcess, SpawnFails, SendInitialize, InitializeFails, SendInitialized,
     TakeEvent, WriteEvent, WriteEventFails, TakeRequest, TakeStop, ReaderEnded, SendShutdown,
     ShutdownTimeout, SendExit, Reap, Received
<1>2. CASE Tick \/ ActionTask \/ TooLarge
  BY <1>2 DEF Tick, TickUnresponsive, TickPings, ActionTask, WriteAction, ActionFails,
     TooLarge, EventTooLarge, ActionTooLarge
<1>3. ASSUME NEW i \in PingIds, PingTask(i) PROVE Early'
  BY <1>3 DEF PingTask, WritePing, MissPing
<1>4. CASE Caller
  BY <1>4 DEF Caller, EmitEvent, InvokeAction, AskShutdown, DropHandle
<1>5. CASE Answer
  BY <1>5 DEF Answer
<1>6. CASE AnswerPing
  <2>1. phase \in Before => pings' = pings
    <3>1. ASSUME phase \in Before PROVE pings' = pings
      <4>1. pings = [i \in PingIds |-> "free"]
        BY <3>1
      <4> QED
        BY <1>6, <4>1 DEF AnswerPing, SetPing
    <3> QED
      BY <3>1
  <2> QED
    BY <1>6, <2>1 DEF AnswerPing
<1>7. CASE ReadEvent \/ Ignore \/ ReadExit
  BY <1>7 DEF ReadEvent, Ignore, ReadExit
<1>8. CASE Die \/ StopReading \/ ReaderStops
  BY <1>8 DEF Die, StopReading, ReaderStops
<1> QED
  BY <1>1, <1>2, <1>3, <1>4, <1>5, <1>6, <1>7, <1>8 DEF Next, Plugin

LEMMA LivesKeeps ==
  ASSUME IInv, Next
  PROVE  Lives'
<1> USE SessionConstants DEF IInv, TypeOK, Phases, Control, Lives, DeadWhenOver, Over, hostVars, pluginVars, Goto, End
<1>1. CASE SpawnProcess \/ SpawnFails
  BY <1>1 DEF SpawnProcess, SpawnFails
<1>2. CASE SendInitialize \/ InitializeFails \/ SendInitialized
  BY <1>2 DEF SendInitialize, InitializeFails, SendInitialized
<1>3. CASE TakeEvent \/ WriteEvent \/ WriteEventFails \/ TakeRequest \/ TakeStop \/ ReaderEnded
  BY <1>3 DEF TakeEvent, WriteEvent, WriteEventFails, TakeRequest, TakeStop, HearsStop, ReaderEnded, Received
<1>4. CASE SendShutdown \/ ShutdownTimeout \/ SendExit \/ Reap
  BY <1>4 DEF SendShutdown, ShutdownTimeout, SendExit, Reap
<1>10. CASE Tick \/ ActionTask \/ TooLarge \/ \E i \in PingIds : PingTask(i)
  BY <1>10 DEF Tick, TickUnresponsive, TickPings, ActionTask, WriteAction, ActionFails,
     TooLarge, EventTooLarge, ActionTooLarge,
     PingTask, WritePing, MissPing
<1>11. CASE Caller
  BY <1>11 DEF Caller, EmitEvent, InvokeAction, AskShutdown, DropHandle
<1>5. CASE Answer
  BY <1>5 DEF Answer, Reads
<1>6. CASE ReadExit
  BY <1>6 DEF ReadExit, Takes, Reads
<1>7. CASE ReadEvent \/ Ignore \/ AnswerPing
  BY <1>7 DEF ReadEvent, Ignore, AnswerPing
<1>8. CASE Die \/ StopReading
  BY <1>8 DEF Die, StopReading
<1>9. CASE ReaderStops
  BY <1>9 DEF ReaderStops
<1> QED
  BY <1>1, <1>2, <1>3, <1>4, <1>5, <1>6, <1>7, <1>8, <1>9, <1>10, <1>11 DEF Next, HostNext, Plugin

\* An event is only written from the head of the inbox.
LEMMA SendingKeeps ==
  ASSUME IInv, Next
  PROVE  Sending'
<1> SUFFICES ASSUME phase' = "sendingEvent"
             PROVE  inbox' # <<>> /\ Head(inbox').kind = "event"
  BY DEF Sending
<1> USE DEF hostVars, pluginVars, Goto, End
<1>0. inbox \in Seq(Commands) /\ emitted \in Nat /\ MaxEvents \in Nat /\ Sending
  BY SessionConstants DEF IInv, TypeOK, Control
<1>1. CASE TakeEvent
  BY <1>1 DEF TakeEvent, Received
<1>2. CASE ~TakeEvent
  <2>1. phase = "sendingEvent"
    <3>1. CASE HostNext
      BY <1>2, <3>1 DEF HostNext, SpawnProcess, SpawnFails, SendInitialize, InitializeFails, SendInitialized,
         WriteEvent, WriteEventFails, TakeRequest, TakeStop, ReaderEnded, SendShutdown,
         ShutdownTimeout, SendExit, Reap
    <3>2. CASE Tick \/ ActionTask \/ TooLarge \/ \E i \in PingIds : PingTask(i)
      BY <3>2 DEF Tick, TickUnresponsive, TickPings, ActionTask, WriteAction, ActionFails,
         TooLarge, EventTooLarge, ActionTooLarge,
         PingTask, WritePing, MissPing
    <3>3. CASE Caller
      BY <3>3 DEF Caller, EmitEvent, InvokeAction, AskShutdown, DropHandle
    <3>4. CASE Plugin \/ ReaderStops
      BY <3>4 DEF Plugin, ReadEvent, Answer, AnswerPing, Ignore, ReadExit, Die, StopReading, ReaderStops
    <3> QED
      BY <3>1, <3>2, <3>3, <3>4 DEF Next
  <2>2. inbox # <<>> /\ Head(inbox).kind = "event"
    BY <1>0, <2>1 DEF Sending
  <2>3. \/ inbox' = inbox
        \/ \E f \in Commands : inbox' = Append(inbox, f)
    <3>1. emitted < MaxEvents => Event(emitted + 1) \in Commands
      BY <1>0, FrameKinds DEF Events
    <3> QED
      BY <2>1, <3>1, InboxSteps, FrameKinds DEF InboxMoves, Sends
  <2> QED
    BY <1>0, <2>2, <2>3, Appended
<1> QED
  BY <1>1, <1>2

\* A shutdown begins when it is asked for, and what asked for it stays.
LEMMA ClosingKeeps ==
  ASSUME IInv, Next
  PROVE  Closing'
<1> USE DEF hostVars, pluginVars, Goto, End
<1>0. /\ inbox \in Seq(Commands) /\ Closing /\ Early /\ Lives
      /\ Contains(inbox, Plain("shutdown")) => Contains(inbox', Plain("shutdown"))
  BY InboxKeeps DEF IInv, TypeOK, Control
<1>1. CASE TakeStop
  <2>1. CASE Received("shutdown")
    <3>1. Head(inbox) = Plain("shutdown") /\ Contains(inbox, Head(inbox))
      BY <1>0, <2>1, Behead, FrameKinds DEF Received
    <3> QED
      BY <1>0, <3>1 DEF Closing, Asked
  <2>2. CASE handle = "dropped"
    BY <1>1, <2>2 DEF TakeStop, Closing, Asked
  <2> QED
    BY <1>1, <2>1, <2>2 DEF TakeStop, HearsStop
<1>2. CASE ~TakeStop
  <2>1. phase' \in Ending => phase \in Ending
    <3>1. CASE HostNext
      BY <1>2, <3>1 DEF HostNext, SpawnProcess, SpawnFails, SendInitialize, InitializeFails, SendInitialized,
         TakeEvent, WriteEvent, WriteEventFails, TakeRequest, ReaderEnded, SendShutdown,
         ShutdownTimeout, SendExit, Reap, Ending
    <3>2. CASE Tick \/ ActionTask \/ TooLarge \/ \E i \in PingIds : PingTask(i)
      BY <3>2 DEF Tick, TickUnresponsive, TickPings, ActionTask, WriteAction, ActionFails,
         TooLarge, EventTooLarge, ActionTooLarge,
         PingTask, WritePing, MissPing, Ending
    <3>3. CASE Caller
      BY <3>3 DEF Caller, EmitEvent, InvokeAction, AskShutdown, DropHandle
    <3>4. CASE Plugin \/ ReaderStops
      BY <3>4 DEF Plugin, ReadEvent, Answer, AnswerPing, Ignore, ReadExit, Die, StopReading, ReaderStops, Ending
    <3> QED
      BY <3>1, <3>2, <3>3, <3>4 DEF Next
  <2>2. handle = "dropped" => handle' = "dropped"
    <3>1. CASE HostNext
      BY <1>0, <3>1 DEF HostNext, SpawnProcess, SpawnFails, SendInitialize, InitializeFails, SendInitialized,
         TakeEvent, WriteEvent, WriteEventFails, TakeRequest, TakeStop, ReaderEnded, SendShutdown,
         ShutdownTimeout, SendExit, Reap, Early, Before
    <3>2. CASE Tick \/ ActionTask \/ TooLarge \/ \E i \in PingIds : PingTask(i)
      BY <3>2 DEF Tick, TickUnresponsive, TickPings, ActionTask, WriteAction, ActionFails,
         TooLarge, EventTooLarge, ActionTooLarge,
         PingTask, WritePing, MissPing
    <3>3. CASE Caller
      BY <3>3 DEF Caller, EmitEvent, InvokeAction, AskShutdown, DropHandle
    <3>4. CASE Plugin \/ ReaderStops
      BY <3>4 DEF Plugin, ReadEvent, Answer, AnswerPing, Ignore, ReadExit, Die, StopReading, ReaderStops
    <3> QED
      BY <3>1, <3>2, <3>3, <3>4 DEF Next
  <2> QED
    BY <1>0, <2>1, <2>2 DEF Closing, Asked
<1> QED
  BY <1>1, <1>2

(* What a step does to the pipe                                             *)

\* A frame is read, disowned or written; one that the loop writes is no
\* earlier than any before it, one of a spawned request comes after the
\* handshake.
PipeMoves ==
    \/ UNCHANGED pipe
    \/ pipe # <<>> /\ pipe' = Tail(pipe)
    \/ \E i \in PingIds : pipe' = Disown(i)
    \/ \E f \in Frames :
        /\ Len(pipe) < PipeCap /\ pipe' = Append(pipe, f)
        /\ \/ Spawned(f) /\ phase \notin Before
           \/ Latest <= Stage(f) /\ Stage(f) <= Latest'

LEMMA PipeSteps ==
  ASSUME IInv, Next
  PROVE  PipeMoves
<1> USE DEF hostVars, pluginVars, Goto, End
<1>0. inbox \in Seq(Commands) /\ Early /\ Sending /\ phase \in Phases
  BY DEF IInv, TypeOK, Control
<1>1. CASE SendInitialize \/ SendInitialized \/ SendExit \/ SendShutdown
  <2>1. CASE SendInitialize
    BY <2>1, FrameKinds DEF SendInitialize, Write, CanWrite, PipeMoves, Latest, Stage
  <2>2. CASE SendInitialized
    BY <2>2, FrameKinds DEF SendInitialized, Write, CanWrite, PipeMoves, Latest, Stage
  <2>3. CASE SendExit
    BY <2>3, FrameKinds DEF SendExit, Write, CanWrite, PipeMoves, Latest, Stage
  <2>4. CASE SendShutdown
    BY <2>4, FrameKinds DEF SendShutdown, Write, CanWrite, PipeMoves, Latest, Stage
  <2> QED
    BY <1>1, <2>1, <2>2, <2>3, <2>4
<1>2. CASE WriteEvent
  <2>1. Head(inbox) \in Frames /\ Stage(Head(inbox)) = 3
    BY <1>0, <1>2, Behead, FrameKinds, Stages DEF WriteEvent, Sending
  <2> QED
    BY <1>2, <2>1 DEF WriteEvent, Write, CanWrite, PipeMoves, Latest
<1>3. CASE SpawnProcess \/ SpawnFails \/ InitializeFails \/ TakeEvent \/ WriteEventFails \/ TakeRequest
           \/ TakeStop \/ ReaderEnded \/ ShutdownTimeout \/ Reap
  BY <1>3 DEF SpawnProcess, SpawnFails, InitializeFails, TakeEvent, WriteEventFails, TakeRequest,
     TakeStop, ReaderEnded, ShutdownTimeout, Reap, PipeMoves
<1>4. CASE Tick
  BY <1>4 DEF Tick, TickUnresponsive, TickPings, PipeMoves
<1>5. ASSUME NEW i \in PingIds, PingTask(i) PROVE PipeMoves
  <2>1. CASE WritePing(i)
    BY <1>0, <2>1, FrameKinds DEF WritePing, Write, CanWrite, PipeMoves, Early, Spawned
  <2>2. CASE MissPing(i)
    BY <2>2 DEF MissPing, PipeMoves
  <2> QED
    BY <1>5, <2>1, <2>2 DEF PingTask
<1>6. CASE ActionTask
  <2>1. CASE WriteAction
    BY <1>0, <2>1, FrameKinds DEF WriteAction, Write, CanWrite, PipeMoves, Early, Spawned
  <2>2. CASE ActionFails
    BY <2>2 DEF ActionFails, PipeMoves
  <2> QED
    BY <1>6, <2>1, <2>2 DEF ActionTask
<1>7. CASE Caller
  BY <1>7 DEF Caller, EmitEvent, InvokeAction, AskShutdown, DropHandle, PipeMoves
<1>8. CASE ReadEvent \/ AnswerPing \/ Ignore \/ ReadExit
  BY <1>8 DEF ReadEvent, AnswerPing, Ignore, ReadExit, Takes, Reads, PipeMoves
<1>9. CASE Answer
  BY <1>9 DEF Answer, Reads, PipeMoves
<1>10. CASE Die \/ StopReading \/ ReaderStops
  BY <1>10 DEF Die, StopReading, ReaderStops, PipeMoves
<1>11. CASE TooLarge
  BY <1>11 DEF TooLarge, EventTooLarge, ActionTooLarge, PipeMoves
<1> QED
  BY <1>1, <1>2, <1>3, <1>4, <1>5, <1>6, <1>7, <1>8, <1>9, <1>10, <1>11 DEF Next, HostNext, Plugin

\* A lifetime goes on, never back.
PhaseOrder ==
    {<<"spawning", "initializing">>, <<"initializing", "awaitInit">>, <<"awaitInit", "initialized">>,
     <<"initialized", "serving">>, <<"serving", "sendingEvent">>, <<"sendingEvent", "serving">>,
     <<"serving", "shutdownWrite">>, <<"shutdownWrite", "shutdownWait">>,
     <<"shutdownWrite", "exitWrite">>, <<"shutdownWait", "exitWrite">>, <<"exitWrite", "reaping">>}
PhaseMoves == phase' = phase \/ phase' \in Over \/ <<phase, phase'>> \in PhaseOrder

LEMMA PhaseSteps ==
  ASSUME Next
  PROVE  PhaseMoves
<1> USE DEF hostVars, pluginVars, Goto, End, PhaseMoves, PhaseOrder, Over
<1>1. CASE SpawnProcess \/ SpawnFails \/ SendInitialize \/ InitializeFails \/ SendInitialized
  BY <1>1 DEF SpawnProcess, SpawnFails, SendInitialize, InitializeFails, SendInitialized
<1>2. CASE TakeEvent \/ WriteEvent \/ WriteEventFails \/ TakeRequest \/ TakeStop \/ ReaderEnded
  BY <1>2 DEF TakeEvent, WriteEvent, WriteEventFails, TakeRequest, TakeStop, HearsStop, ReaderEnded, Received
<1>3. CASE SendShutdown \/ ShutdownTimeout \/ SendExit \/ Reap
  BY <1>3 DEF SendShutdown, ShutdownTimeout, SendExit, Reap
<1>4. CASE Tick \/ ActionTask \/ TooLarge \/ \E i \in PingIds : PingTask(i)
  BY <1>4 DEF Tick, TickUnresponsive, TickPings, ActionTask, WriteAction, ActionFails,
     TooLarge, EventTooLarge, ActionTooLarge,
     PingTask, WritePing, MissPing
<1>5. CASE Caller
  BY <1>5 DEF Caller, EmitEvent, InvokeAction, AskShutdown, DropHandle
<1>6. CASE Answer
  BY <1>6 DEF Answer
<1>7. CASE ReadEvent \/ AnswerPing \/ Ignore \/ ReadExit
  BY <1>7 DEF ReadEvent, AnswerPing, Ignore, ReadExit
<1>8. CASE Die \/ StopReading \/ ReaderStops
  BY <1>8 DEF Die, StopReading, ReaderStops
<1> QED
  BY <1>1, <1>2, <1>3, <1>4, <1>5, <1>6, <1>7, <1>8 DEF Next, HostNext, Plugin

LEMMA LatestGrows ==
  ASSUME IInv, Next
  PROVE  Latest \in 0..5 /\ Latest' \in 0..5 /\ Latest <= Latest' /\ (phase \notin Before => 3 <= Latest)
<1>0. phase \in Phases /\ phase' \in Phases
  BY SimpleTypes DEF IInv, TypeOK
<1>1. Latest \in 0..5 /\ Latest' \in 0..5 /\ (phase \notin Before => 3 <= Latest)
  BY <1>0 DEF Latest, Before, Phases
<1>2. phase' = phase => Latest' = Latest
  BY DEF Latest
<1>3. phase' \in Over => Latest' = 5
  BY DEF Latest, Over
<1>4. <<phase, phase'>> \in PhaseOrder => Latest <= Latest'
  BY DEF Latest, PhaseOrder
<1> QED
  BY <1>1, <1>2, <1>3, <1>4, PhaseSteps DEF PhaseMoves

LEMMA PipeKeeps ==
  ASSUME IInv, Next
  PROVE  pipe' \in Seq(Frames) /\ Len(pipe') <= PipeCap /\ Staged' /\ FrameOrder'
<1>0. /\ pipe \in Seq(Frames) /\ Len(pipe) \in Nat /\ Len(pipe) <= PipeCap /\ PipeCap \in Nat
      /\ Staged /\ FrameOrder
      /\ Latest \in 0..5 /\ Latest' \in 0..5 /\ Latest <= Latest' /\ (phase \notin Before => 3 <= Latest)
  BY SessionConstants, LenProperties, LatestGrows DEF IInv, TypeOK
<1>1. CASE UNCHANGED pipe
  BY <1>0, <1>1, Stages DEF Staged, FrameOrder
<1>2. CASE pipe # <<>> /\ pipe' = Tail(pipe)
  <2>1. /\ pipe' \in Seq(Frames) /\ Len(pipe') = Len(pipe) - 1 /\ Len(pipe') \in Nat
        /\ \A k \in 1..Len(pipe') : k + 1 \in 1..Len(pipe) /\ pipe'[k] = pipe[k + 1]
    BY <1>0, <1>2, Behead
  <2>2. ASSUME NEW k \in 1..Len(pipe') PROVE Stage(pipe'[k]) <= Latest'
    <3>1. Stage(pipe[k + 1]) <= Latest
      BY <1>0, <2>1 DEF Staged
    <3>2. Stage(pipe[k + 1]) \in 1..5
      BY Stages
    <3> QED
      BY <1>0, <2>1, <3>1, <3>2
  <2>3. ASSUME NEW j \in 1..Len(pipe'), NEW k \in 1..Len(pipe'), j < k
        PROVE  \/ Stage(pipe'[j]) <= Stage(pipe'[k])
               \/ Spawned(pipe'[k]) /\ Stage(pipe'[j]) > 2
    <3>1. /\ j + 1 \in 1..Len(pipe) /\ k + 1 \in 1..Len(pipe)
          /\ pipe'[j] = pipe[j + 1] /\ pipe'[k] = pipe[k + 1]
      BY <2>1
    <3>2. j + 1 < k + 1
      BY <2>1, <2>3
    <3>3. \/ Stage(pipe[j + 1]) <= Stage(pipe[k + 1])
          \/ Spawned(pipe[k + 1]) /\ Stage(pipe[j + 1]) > 2
      BY <1>0, <3>1, <3>2 DEF FrameOrder
    <3> QED
      BY <3>1, <3>3
  <2>4. FrameOrder'
    BY <2>3 DEF FrameOrder
  <2>5. Staged'
    BY <2>2 DEF Staged
  <2>6. Len(pipe') <= PipeCap
    BY <1>0, <2>1
  <2> QED
    BY <2>1, <2>4, <2>5, <2>6
<1>3. ASSUME NEW i \in PingIds, pipe' = Disown(i)
      PROVE  pipe' \in Seq(Frames) /\ Len(pipe') <= PipeCap /\ Staged' /\ FrameOrder'
  <2>1. \A k \in 1..Len(pipe) : pipe[k] \in Frames
    BY <1>0, LenProperties
  <2>2. /\ pipe' = [k \in 1..Len(pipe) |-> IF pipe[k] = Ping(i) THEN Plain("stalePing") ELSE pipe[k]]
        /\ \A k \in 1..Len(pipe) :
            (IF pipe[k] = Ping(i) THEN Plain("stalePing") ELSE pipe[k]) \in Frames
    BY <1>3, <2>1, FrameKinds DEF Disown
  <2>3. pipe' \in Seq(Frames) /\ Len(pipe') = Len(pipe)
    BY <1>0, <2>2
  <2>4. \A k \in 1..Len(pipe) :
            /\ Stage(pipe'[k]) = Stage(pipe[k])
            /\ Spawned(pipe'[k]) <=> Spawned(pipe[k])
    BY <1>0, <1>3, <2>2, FrameKinds, Stages DEF Spawned
  <2>5. \A k \in 1..Len(pipe) : Stage(pipe[k]) \in 1..5 /\ Stage(pipe[k]) <= Latest
    BY Stages, <1>0 DEF Staged
  <2>6. Staged'
    <3>1. ASSUME NEW k \in 1..Len(pipe) PROVE Stage(pipe'[k]) <= Latest'
      <4>1. /\ Stage(pipe'[k]) = Stage(pipe[k]) /\ Stage(pipe[k]) \in 1..5
            /\ Stage(pipe[k]) <= Latest
        BY <2>4, <2>5
      <4> QED
        BY <1>0, <4>1
    <3> QED
      BY <2>3, <3>1 DEF Staged
  <2>7. ASSUME NEW j \in 1..Len(pipe'), NEW k \in 1..Len(pipe'), j < k
        PROVE  \/ Stage(pipe'[j]) <= Stage(pipe'[k])
               \/ Spawned(pipe'[k]) /\ Stage(pipe'[j]) > 2
    <3>1. \/ Stage(pipe[j]) <= Stage(pipe[k])
          \/ Spawned(pipe[k]) /\ Stage(pipe[j]) > 2
      BY <1>0, <2>3, <2>7 DEF FrameOrder
    <3>2. /\ Stage(pipe'[j]) = Stage(pipe[j]) /\ Stage(pipe'[k]) = Stage(pipe[k])
          /\ Spawned(pipe'[k]) <=> Spawned(pipe[k])
      BY <2>3, <2>4
    <3> QED
      BY <3>1, <3>2
  <2>8. FrameOrder'
    BY <2>7 DEF FrameOrder
  <2> QED
    BY <1>0, <2>3, <2>6, <2>8
<1>4. ASSUME NEW f \in Frames, Len(pipe) < PipeCap, pipe' = Append(pipe, f),
             \/ Spawned(f) /\ phase \notin Before
             \/ Latest <= Stage(f) /\ Stage(f) <= Latest'
      PROVE  pipe' \in Seq(Frames) /\ Len(pipe') <= PipeCap /\ Staged' /\ FrameOrder'
  <2>1. /\ pipe' \in Seq(Frames) /\ Len(pipe') = Len(pipe) + 1
        /\ \A k \in 1..Len(pipe) : pipe'[k] = pipe[k]
        /\ pipe'[Len(pipe) + 1] = f
    BY <1>0, <1>4, Appended
  <2>2. Stage(f) \in 1..5 /\ Stage(f) <= Latest' /\ (Spawned(f) => Stage(f) = 3)
    BY <1>0, <1>4, Stages DEF Spawned
  <2>3. \A k \in 1..Len(pipe) : Stage(pipe[k]) \in 1..5 /\ Stage(pipe[k]) <= Latest
    BY <1>0, Stages DEF Staged
  <2>4. Staged'
    BY <1>0, <2>1, <2>2, <2>3 DEF Staged
  <2>5. ASSUME NEW j \in 1..Len(pipe'), NEW k \in 1..Len(pipe'), j < k
        PROVE  \/ Stage(pipe'[j]) <= Stage(pipe'[k])
               \/ Spawned(pipe'[k]) /\ Stage(pipe'[j]) > 2
    <3>1. j \in 1..Len(pipe) /\ pipe'[j] = pipe[j]
      BY <1>0, <2>1, <2>5
    <3>2. CASE k \in 1..Len(pipe)
      <4>1. pipe'[k] = pipe[k]
        BY <1>0, <2>1, <3>2
      <4>2. \/ Stage(pipe[j]) <= Stage(pipe[k])
            \/ Spawned(pipe[k]) /\ Stage(pipe[j]) > 2
        BY <1>0, <2>5, <3>1, <3>2 DEF FrameOrder
      <4> QED
        BY <3>1, <4>1, <4>2
    <3>3. CASE k = Len(pipe) + 1
      <4>1. pipe'[k] = f /\ Stage(pipe[j]) \in 1..5 /\ Stage(pipe[j]) <= Latest
        BY <2>1, <2>3, <3>1, <3>3
      <4>2. CASE Spawned(f)
        <5>1. Stage(f) = 3
          BY <2>2, <4>2
        <5> QED
          BY <3>1, <4>1, <4>2, <5>1
      <4>3. CASE Latest <= Stage(f)
        <5>1. Stage(pipe[j]) <= Stage(f)
          BY <1>0, <2>2, <4>1, <4>3
        <5> QED
          BY <3>1, <4>1, <5>1
      <4> QED
        BY <1>4, <4>2, <4>3
    <3> QED
      BY <1>0, <2>1, <3>2, <3>3
  <2> QED
    BY <1>0, <1>4, <2>1, <2>4, <2>5 DEF FrameOrder
<1> QED
  BY PipeSteps, <1>1, <1>2, <1>3, <1>4 DEF PipeMoves

(* What a step does to the pings                                            *)

SetsPing(i, st) == pings' = [pings EXCEPT ![i] = st]
PingMoves ==
    \/ UNCHANGED <<pings, misses>>
    \/ \E i \in PingIds :
        \/ pings[i] = "free" /\ SetsPing(i, "writing") /\ UNCHANGED misses /\ misses < MissLimit
        \/ pings[i] = "writing" /\ SetsPing(i, "waiting") /\ UNCHANGED misses
        \/ pings[i] # "free" /\ SetsPing(i, "free") /\ misses' = misses + 1
        \/ SetsPing(i, "free") /\ misses' = 0

LEMMA PingSteps ==
  ASSUME IInv, Next
  PROVE  PingMoves
<1> USE DEF hostVars, pluginVars, Goto, End, PingMoves, SetsPing, SetPing
<1>1. CASE HostNext
  BY <1>1 DEF HostNext, SpawnProcess, SpawnFails, SendInitialize, InitializeFails, SendInitialized,
     TakeEvent, WriteEvent, WriteEventFails, TakeRequest, TakeStop, ReaderEnded, SendShutdown,
     ShutdownTimeout, SendExit, Reap
<1>2. CASE Tick
  BY <1>2 DEF Tick, TickUnresponsive, TickPings
<1>3. CASE ActionTask \/ TooLarge \/ Caller
  BY <1>3 DEF ActionTask, WriteAction, ActionFails,
     TooLarge, EventTooLarge, ActionTooLarge, Caller, EmitEvent, InvokeAction, AskShutdown, DropHandle
<1>4. ASSUME NEW i \in PingIds, PingTask(i) PROVE PingMoves
  BY <1>4 DEF PingTask, WritePing, MissPing
<1>5. CASE AnswerPing
  <2>1. Head(pipe).n \in PingIds
    BY <1>5, Behead, FrameKinds DEF AnswerPing, Takes, Reads, IInv, TypeOK
  <2> QED
    BY <1>5, <2>1 DEF AnswerPing
<1>6. CASE Answer
  BY <1>6 DEF Answer
<1>7. CASE ReadEvent \/ Ignore \/ ReadExit \/ Die \/ StopReading \/ ReaderStops
  BY <1>7 DEF ReadEvent, Ignore, ReadExit, Die, StopReading, ReaderStops
<1> QED
  BY <1>1, <1>2, <1>3, <1>4, <1>5, <1>6, <1>7 DEF Next, Plugin

LEMMA BusyCount ==
  ASSUME pings \in [PingIds -> {"free", "writing", "waiting"}]
  PROVE  /\ IsFiniteSet(Busy) /\ Cardinality(Busy) \in Nat /\ Cardinality(Busy) <= MaxPings
<1>1. IsFiniteSet(PingIds) /\ Cardinality(PingIds) = MaxPings
  BY FS_Interval, SessionConstants DEF PingIds
<1>2. Busy \subseteq PingIds
  BY DEF Busy
<1> QED
  BY <1>1, <1>2, FS_Subset, FS_CardinalityType

LEMMA PingsKeep ==
  ASSUME IInv, Next
  PROVE  /\ pings' \in [PingIds -> {"free", "writing", "waiting"}]
         /\ misses' \in 0..MissLimit + MaxPings /\ MissesCounted'
<1>0. /\ pings \in [PingIds -> {"free", "writing", "waiting"}] /\ misses \in Nat
      /\ MissLimit \in Nat /\ MaxPings \in Nat /\ MissesCounted
      /\ IsFiniteSet(Busy) /\ Cardinality(Busy) \in Nat /\ Cardinality(Busy) <= MaxPings
  BY BusyCount, SessionConstants DEF IInv, TypeOK
<1>1. pings' \in [PingIds -> {"free", "writing", "waiting"}] /\ misses' \in Nat
  BY <1>0, PingSteps DEF PingMoves, SetsPing
<1>2. IsFiniteSet(Busy') /\ Cardinality(Busy') \in Nat /\ Cardinality(Busy') <= MaxPings
  <2>1. IsFiniteSet(PingIds) /\ Cardinality(PingIds) = MaxPings
    BY FS_Interval, SessionConstants DEF PingIds
  <2>2. Busy' \subseteq PingIds
    BY DEF Busy
  <2> QED
    BY <2>1, <2>2, FS_Subset, FS_CardinalityType
<1>3. misses' + Cardinality(Busy') <= MissLimit + MaxPings
  <2>1. CASE UNCHANGED <<pings, misses>>
    BY <1>0, <2>1 DEF Busy, MissesCounted
  <2>2. ASSUME NEW i \in PingIds, UNCHANGED misses, misses < MissLimit
        PROVE  misses' + Cardinality(Busy') <= MissLimit + MaxPings
    BY <1>0, <1>2, <2>2
  <2>3. ASSUME NEW i \in PingIds, pings[i] = "writing", SetsPing(i, "waiting"), UNCHANGED misses
        PROVE  misses' + Cardinality(Busy') <= MissLimit + MaxPings
    <3>1. Busy' = Busy
      BY <1>0, <2>3 DEF Busy, SetsPing
    <3> QED
      BY <1>0, <2>3, <3>1 DEF MissesCounted
  <2>4. ASSUME NEW i \in PingIds, pings[i] # "free", SetsPing(i, "free"), misses' = misses + 1
        PROVE  misses' + Cardinality(Busy') <= MissLimit + MaxPings
    <3>1. Busy' = Busy \ {i} /\ i \in Busy
      BY <1>0, <2>4 DEF Busy, SetsPing
    <3>2. Cardinality(Busy') = Cardinality(Busy) - 1
      BY <1>0, <3>1, FS_RemoveElement
    <3> QED
      BY <1>0, <2>4, <3>2 DEF MissesCounted
  <2>5. ASSUME misses' = 0
        PROVE  misses' + Cardinality(Busy') <= MissLimit + MaxPings
    BY <1>0, <1>2, <2>5
  <2> QED
    BY PingSteps, <2>1, <2>2, <2>3, <2>4, <2>5 DEF PingMoves
<1> QED
  BY <1>0, <1>1, <1>2, <1>3 DEF MissesCounted

LEMMA HeardTyped ==
  ASSUME IInv, Next
  PROVE  heard' \in 0..MaxEvents
<1> USE DEF hostVars, pluginVars, Goto, End
<1>0. heard \in 0..MaxEvents /\ pipe \in Seq(Frames) /\ MaxEvents \in Nat
  BY SessionConstants DEF IInv, TypeOK
<1>1. CASE ReadEvent
  <2>1. Head(pipe) \in Frames /\ Head(pipe).kind = "event" /\ heard' = Head(pipe).n
    BY <1>0, <1>1, Behead DEF ReadEvent, Takes, Reads
  <2>2. Head(pipe).n \in Events
    BY <2>1 DEF Frames, EventFrames, PingFrames, PlainFrames, Plain
  <2> QED
    BY <1>0, <2>1, <2>2 DEF Events
<1>2. CASE ~ReadEvent
  <2>1. heard' = heard
    <3>1. CASE HostNext
      BY <3>1 DEF HostNext, SpawnProcess, SpawnFails, SendInitialize, InitializeFails, SendInitialized,
         TakeEvent, WriteEvent, WriteEventFails, TakeRequest, TakeStop, ReaderEnded, SendShutdown,
         ShutdownTimeout, SendExit, Reap
    <3>2. CASE Tick \/ ActionTask \/ TooLarge \/ \E i \in PingIds : PingTask(i)
      BY <3>2 DEF Tick, TickUnresponsive, TickPings, ActionTask, WriteAction, ActionFails,
         TooLarge, EventTooLarge, ActionTooLarge,
         PingTask, WritePing, MissPing
    <3>3. CASE Caller
      BY <3>3 DEF Caller, EmitEvent, InvokeAction, AskShutdown, DropHandle
    <3>4. CASE Plugin \/ ReaderStops
      BY <1>2, <3>4 DEF Plugin, Answer, AnswerPing, Ignore, ReadExit, Die, StopReading, ReaderStops
    <3> QED
      BY <3>1, <3>2, <3>3, <3>4 DEF Next
  <2> QED
    BY <1>0, <2>1
<1> QED
  BY <1>1, <1>2

-----------------------------------------------------------------------------
(* The invariant *)

LEMMA InitInv == Init => IInv
<1> SUFFICES ASSUME Init PROVE IInv
  OBVIOUS
<1>1. <<>> \in Seq(Commands) /\ <<>> \in Seq(Frames) /\ Len(<<>>) = 0
  OBVIOUS
<1>2. TypeOK
  BY <1>1, SessionConstants DEF Init, TypeOK, Phases
<1>3. Control
  BY DEF Init, Control, Early, Lives, DeadWhenOver, Over, Sending, Closing, Ending
<1>4. MissesCounted
  <2>1. Cardinality(Busy) <= MaxPings /\ Cardinality(Busy) \in Nat
    BY <1>2, BusyCount DEF TypeOK
  <2> QED
    BY <2>1, SessionConstants DEF Init, MissesCounted
<1>5. InboxCounted
  BY <1>1 DEF Init, InboxCounted, Count, Contains
<1>6. Staged /\ FrameOrder
  BY <1>1 DEF Init, Staged, FrameOrder
<1> QED
  BY <1>2, <1>3, <1>4, <1>5, <1>6 DEF IInv

LEMMA NextInv == IInv /\ [Next]_vars => IInv'
<1>1. ASSUME IInv, Next PROVE IInv'
  <2>1. TypeOK'
    BY <1>1, SimpleTypes, InboxKeeps, PipeKeeps, PingsKeep, HeardTyped DEF IInv, TypeOK
  <2>2. Control'
    BY <1>1, EarlyKeeps, LivesKeeps, SendingKeeps, ClosingKeeps DEF Control
  <2> QED
    BY <1>1, <2>1, <2>2, InboxKeeps, PipeKeeps, PingsKeep DEF IInv
<1>2. ASSUME IInv, UNCHANGED vars PROVE IInv'
  BY <1>2 DEF vars, IInv, TypeOK, MissesCounted, Busy, InboxCounted, Count, Control, Early, Lives, DeadWhenOver,
     Sending, Closing, Asked, Staged, Latest, FrameOrder
<1> QED
  BY <1>1, <1>2

(* The lifetime keeps its types: no more pings are missed than the limit    *)
(* and those on their way, and the inbox never holds two shutdowns.         *)
THEOREM TypeCorrect == Spec => []TypeOK
<1>1. IInv => TypeOK
  BY DEF IInv
<1> QED
  BY InitInv, NextInv, <1>1, PTL DEF Spec

(* Whichever of its ends run_once takes, the process is down when it        *)
(* returns.                                                                 *)
THEOREM ProcessIsDown == Spec => []DeadWhenOver
<1>1. IInv => DeadWhenOver
  BY DEF IInv, Control, Lives
<1> QED
  BY InitInv, NextInv, <1>1, PTL DEF Spec

(* Frames keep the order of the protocol: nothing before the handshake is   *)
(* over, nothing of the loop after the shutdown, for any pipe.              *)
THEOREM FramesInOrder == Spec => []FrameOrder
<1>1. IInv => FrameOrder
  BY DEF IInv
<1> QED
  BY InitInv, NextInv, <1>1, PTL DEF Spec

-----------------------------------------------------------------------------
(* Events keep their order                                                  *)

\* What carries the same events in the same order.
Same(s, t) == \A ns : InOrder(s, ns) => InOrder(t, ns)

LEMMA EventsDiffer ==
  ASSUME NEW n \in Events
  PROVE  /\ Event(n).kind = "event" /\ Event(n).n = n
         /\ \A f \in EventFrames : f = Event(f.n)
         /\ \A f : f.kind # "event" => f # Event(n)
BY DEF Event, EventFrames, Events

LEMMA OtherAppended ==
  ASSUME NEW S, NEW s \in Seq(S), NEW f \in S, f.kind # "event"
  PROVE  Same(s, Append(s, f))
<1> SUFFICES ASSUME NEW ns, InOrder(s, ns) PROVE InOrder(Append(s, f), ns)
  BY DEF Same
<1>1. \A n \in Events : Contains(Append(s, f), Event(n)) <=> Contains(s, Event(n))
  BY Appended, EventsDiffer
<1>2. ASSUME NEW j \in 1..Len(Append(s, f)), NEW k \in 1..Len(Append(s, f)), j < k,
             Append(s, f)[j].kind = "event", Append(s, f)[k].kind = "event"
      PROVE  Append(s, f)[j].n < Append(s, f)[k].n
  <2>1. /\ Len(Append(s, f)) = Len(s) + 1 /\ Len(s) \in Nat
        /\ \A i \in 1..Len(s) : Append(s, f)[i] = s[i]
        /\ Append(s, f)[Len(s) + 1] = f
    BY Appended
  <2>2. j \in 1..Len(s) /\ k \in 1..Len(s)
    BY <1>2, <2>1
  <2>3. Append(s, f)[j] = s[j] /\ Append(s, f)[k] = s[k]
    BY <2>1, <2>2
  <2> QED
    BY <1>2, <2>2, <2>3 DEF InOrder
<1> QED
  BY <1>1, <1>2 DEF InOrder

LEMMA TailAscends ==
  ASSUME NEW S, NEW s \in Seq(S), s # <<>>, NEW ns, InOrder(s, ns)
  PROVE  \A j, k \in 1..Len(Tail(s)) :
            j < k /\ Tail(s)[j].kind = "event" /\ Tail(s)[k].kind = "event"
                => Tail(s)[j].n < Tail(s)[k].n
<1> SUFFICES ASSUME NEW j \in 1..Len(Tail(s)), NEW k \in 1..Len(Tail(s)), j < k,
                    Tail(s)[j].kind = "event", Tail(s)[k].kind = "event"
             PROVE  Tail(s)[j].n < Tail(s)[k].n
  OBVIOUS
<1>1. /\ j + 1 \in 1..Len(s) /\ k + 1 \in 1..Len(s) /\ j + 1 < k + 1
      /\ Tail(s)[j] = s[j + 1] /\ Tail(s)[k] = s[k + 1]
  BY Behead
<1> QED
  BY <1>1 DEF InOrder

LEMMA OtherTaken ==
  ASSUME NEW S, NEW s \in Seq(S), s # <<>>, Head(s).kind # "event"
  PROVE  Same(s, Tail(s))
<1> SUFFICES ASSUME NEW ns, InOrder(s, ns) PROVE InOrder(Tail(s), ns)
  BY DEF Same
<1>1. \A n \in Events : Contains(Tail(s), Event(n)) <=> Contains(s, Event(n))
  BY Behead, EventsDiffer
<1> QED
  BY <1>1, TailAscends DEF InOrder

LEMMA EventAppended ==
  ASSUME NEW S, NEW s \in Seq(S), NEW a \in Nat, NEW b \in Nat, a <= b + 1,
         b + 1 \in Events, Event(b + 1) \in S, InOrder(s, a..b),
         \A k \in 1..Len(s) : s[k].kind = "event" => s[k] \in EventFrames
  PROVE  InOrder(Append(s, Event(b + 1)), a..(b + 1))
<1> DEFINE t == Append(s, Event(b + 1))
<1>0. /\ Len(t) = Len(s) + 1 /\ Len(s) \in Nat
      /\ \A i \in 1..Len(s) : t[i] = s[i]
      /\ t[Len(s) + 1] = Event(b + 1)
      /\ \A d : Contains(t, d) <=> Contains(s, d) \/ d = Event(b + 1)
  BY Appended
<1> HIDE DEF t
<1>1. \A n \in Events : Contains(t, Event(n)) <=> n \in a..(b + 1)
  <2>1. ASSUME NEW n \in Events PROVE Contains(t, Event(n)) <=> n \in a..(b + 1)
    <3>1. Event(n) = Event(b + 1) <=> n = b + 1
      BY EventsDiffer
    <3>2. Contains(s, Event(n)) <=> n \in a..b
      BY DEF InOrder
    <3>3. n \in Nat
      BY SessionConstants DEF Events
    <3> QED
      BY <1>0, <3>1, <3>2, <3>3
  <2> QED
    BY <2>1
<1>2. ASSUME NEW j \in 1..Len(t), NEW k \in 1..Len(t), j < k,
             t[j].kind = "event", t[k].kind = "event"
      PROVE  t[j].n < t[k].n
  <2>1. j \in 1..Len(s) /\ t[j] = s[j]
    BY <1>0, <1>2
  <2>2. CASE k \in 1..Len(s)
    BY <1>0, <1>2, <2>1, <2>2 DEF InOrder
  <2>3. CASE k = Len(s) + 1
    <3>1. s[j] \in EventFrames /\ s[j].n \in Events /\ s[j] = Event(s[j].n)
      BY <1>2, <2>1, EventsDiffer, FrameKinds
    <3>2. Contains(s, Event(s[j].n))
      BY <2>1, <3>1 DEF Contains
    <3>3. s[j].n \in a..b
      BY <3>1, <3>2 DEF InOrder
    <3>4. t[k].n = b + 1
      BY <1>0, <2>3, EventsDiffer
    <3> QED
      BY <2>1, <3>3, <3>4
  <2> QED
    BY <1>0, <2>2, <2>3
<1> QED
  BY <1>1, <1>2 DEF InOrder, t

LEMMA EventTaken ==
  ASSUME NEW S, NEW s \in Seq(S), s # <<>>, Head(s) \in EventFrames,
         NEW a \in Nat \ {0}, NEW b \in Nat, InOrder(s, a..b)
  PROVE  a \in Events /\ a <= b /\ Head(s) = Event(a) /\ InOrder(Tail(s), (a + 1)..b)
<1>0. /\ Head(s) = s[1] /\ Len(s) \in Nat \ {0} /\ Contains(s, Head(s))
      /\ \A i \in 1..Len(Tail(s)) : i + 1 \in 1..Len(s) /\ Tail(s)[i] = s[i + 1]
      /\ \A d : d # Head(s) => (Contains(Tail(s), d) <=> Contains(s, d))
  BY Behead, HeadTailProperties
<1>1. PICK m \in Events : Head(s) = Event(m)
  BY EventsDiffer, FrameKinds
<1>2. m \in a..b /\ MaxEvents \in Nat
  BY <1>0, <1>1, SessionConstants DEF InOrder
<1>3. a \in Events /\ a <= b
  BY <1>2 DEF Events
<1>4. m = a
  <2>1. Contains(s, Event(a))
    BY <1>3 DEF InOrder
  <2>2. PICK k \in 1..Len(s) : s[k] = Event(a)
    BY <2>1 DEF Contains
  <2>3. 1 \in 1..Len(s) /\ s[1].kind = "event" /\ s[1].n = m /\ s[k].kind = "event" /\ s[k].n = a
    BY <1>0, <1>1, <1>3, <2>2, EventsDiffer
  <2>4. k # 1 => m < a
    BY <2>3 DEF InOrder
  <2> QED
    BY <1>2, <2>3, <2>4
<1>5. ~Contains(Tail(s), Event(a))
  <2> SUFFICES ASSUME Contains(Tail(s), Event(a)) PROVE FALSE
    OBVIOUS
  <2>1. PICK i \in 1..Len(Tail(s)) : Tail(s)[i] = Event(a)
    BY DEF Contains
  <2>2. /\ 1 \in 1..Len(s) /\ i + 1 \in 1..Len(s) /\ 1 < i + 1
        /\ s[1].kind = "event" /\ s[1].n = a /\ s[i + 1].kind = "event" /\ s[i + 1].n = a
    BY <1>0, <1>1, <1>3, <1>4, <2>1, EventsDiffer
  <2> QED
    BY <1>3, <2>2, SessionConstants DEF InOrder, Events
<1>6. ASSUME NEW n \in Events
      PROVE  Contains(Tail(s), Event(n)) <=> n \in (a + 1)..b
  <2>1. n \in Nat /\ (Contains(s, Event(n)) <=> n \in a..b)
    BY SessionConstants DEF InOrder, Events
  <2>2. n # a => Event(n) # Head(s)
    BY <1>1, <1>4, EventsDiffer
  <2> QED
    BY <1>0, <1>5, <2>1, <2>2
<1> QED
  BY <1>1, <1>3, <1>4, <1>6, TailAscends DEF InOrder

LEMMA Disowned ==
  ASSUME pipe \in Seq(Frames), NEW i \in PingIds
  PROVE  Same(pipe, Disown(i))
<1> SUFFICES ASSUME NEW ns, InOrder(pipe, ns) PROVE InOrder(Disown(i), ns)
  BY DEF Same
<1>1. /\ Len(pipe) \in Nat /\ Len(Disown(i)) = Len(pipe)
      /\ \A k \in 1..Len(pipe) :
            Disown(i)[k] = IF pipe[k] = Ping(i) THEN Plain("stalePing") ELSE pipe[k]
  BY LenProperties DEF Disown
<1>2. \A k \in 1..Len(pipe) :
            /\ Disown(i)[k].kind = "event" <=> pipe[k].kind = "event"
            /\ pipe[k].kind = "event" => Disown(i)[k] = pipe[k]
  BY <1>1, FrameKinds
<1>3. \A n \in Events : Contains(Disown(i), Event(n)) <=> Contains(pipe, Event(n))
  BY <1>1, <1>2, EventsDiffer DEF Contains
<1> QED
  BY <1>1, <1>2, <1>3 DEF InOrder

\* An event is emitted, written or heard, or the events stay where they are.
EventMoves ==
    \/ Same(pipe, pipe') /\ Same(inbox, inbox') /\ UNCHANGED <<heard, emitted>>
    \/ /\ emitted < MaxEvents /\ emitted' = emitted + 1
       /\ inbox' = Append(inbox, Event(emitted + 1)) /\ UNCHANGED <<pipe, heard>>
    \/ /\ inbox # <<>> /\ Head(inbox).kind = "event"
       /\ inbox' = Tail(inbox) /\ pipe' = Append(pipe, Head(inbox))
       /\ UNCHANGED <<heard, emitted>>
    \/ /\ pipe # <<>> /\ Head(pipe).kind = "event"
       /\ pipe' = Tail(pipe) /\ heard' = Head(pipe).n /\ UNCHANGED <<inbox, emitted>>

LEMMA EventSteps ==
  ASSUME IInv, Next
  PROVE  EventMoves
<1> USE DEF hostVars, pluginVars, Goto, End
<1>0. /\ pipe \in Seq(Frames) /\ inbox \in Seq(Commands) /\ Sending
      /\ Same(pipe, pipe) /\ Same(inbox, inbox)
  BY DEF IInv, TypeOK, Control, Same
\* The writes and reads of frames that are no events.
<1>1. ASSUME NEW k \in {"initialize", "initialized", "shutdown", "exit", "invoke_action"},
             pipe' = Append(pipe, Plain(k))
      PROVE  Same(pipe, pipe')
  BY <1>0, <1>1, OtherAppended, FrameKinds
<1>2. CASE SendInitialize \/ SendInitialized \/ SendShutdown \/ SendExit
  <2>1. UNCHANGED <<inbox, heard, emitted>>
    BY <1>2 DEF SendInitialize, SendInitialized, SendShutdown, SendExit
  <2>2. \/ UNCHANGED pipe
        \/ \E k \in {"initialize", "initialized", "shutdown", "exit"} : pipe' = Append(pipe, Plain(k))
    BY <1>2 DEF SendInitialize, SendInitialized, SendShutdown, SendExit, Write
  <2> QED
    BY <1>0, <1>1, <2>1, <2>2 DEF EventMoves
<1>3. CASE WriteEvent
  BY <1>0, <1>3 DEF WriteEvent, Write, Sending, EventMoves
<1>4. CASE TakeRequest
  BY <1>0, <1>4, OtherTaken DEF TakeRequest, Received, EventMoves
<1>5. CASE SpawnProcess \/ SpawnFails \/ InitializeFails \/ TakeEvent \/ WriteEventFails
           \/ TakeStop \/ ReaderEnded \/ ShutdownTimeout \/ Reap
  BY <1>0, <1>5 DEF SpawnProcess, SpawnFails, InitializeFails, TakeEvent, WriteEventFails,
     TakeStop, ReaderEnded, ShutdownTimeout, Reap, EventMoves
<1>6. CASE Tick
  BY <1>0, <1>6 DEF Tick, TickUnresponsive, TickPings, EventMoves
<1>7. ASSUME NEW i \in PingIds, PingTask(i) PROVE EventMoves
  <2>1. CASE WritePing(i)
    <3>1. Same(pipe, pipe')
      BY <1>0, <2>1, OtherAppended, FrameKinds DEF WritePing, Write
    <3> QED
      BY <1>0, <2>1, <3>1 DEF WritePing, EventMoves
  <2>2. CASE MissPing(i)
    BY <1>0, <2>2, Disowned DEF MissPing, EventMoves
  <2> QED
    BY <1>7, <2>1, <2>2 DEF PingTask
<1>8. CASE ActionTask \/ TooLarge
  BY <1>0, <1>1, <1>8 DEF ActionTask, WriteAction, ActionFails,
     TooLarge, EventTooLarge, ActionTooLarge, Write, EventMoves
<1>9. CASE EmitEvent
  BY <1>9 DEF EmitEvent, EventMoves
<1>10. CASE InvokeAction \/ AskShutdown
  <2>1. PICK k \in {"invoke_action", "shutdown"} : inbox' = Append(inbox, Plain(k))
    BY <1>10 DEF InvokeAction, AskShutdown
  <2>2. Plain(k) \in Commands /\ Plain(k).kind # "event"
    BY FrameKinds
  <2>3. Same(inbox, inbox')
    BY <1>0, <2>1, <2>2, OtherAppended
  <2> QED
    BY <1>0, <1>10, <2>3 DEF InvokeAction, AskShutdown, EventMoves
<1>11. CASE ReadEvent
  BY <1>11 DEF ReadEvent, Takes, Reads, EventMoves
<1>12. CASE Answer \/ AnswerPing \/ Ignore \/ ReadExit
  <2>1. /\ pipe # <<>> /\ Head(pipe).kind # "event" /\ pipe' = Tail(pipe)
        /\ UNCHANGED <<inbox, heard, emitted>>
    BY <1>12 DEF Answer, AnswerPing, Ignore, ReadExit, Takes, Reads
  <2> QED
    BY <1>0, <2>1, OtherTaken DEF EventMoves
<1>13. CASE DropHandle \/ Die \/ StopReading \/ ReaderStops
  BY <1>0, <1>13 DEF DropHandle, Die, StopReading, ReaderStops, EventMoves
<1> QED
  BY <1>2, <1>3, <1>4, <1>5, <1>6, <1>7, <1>8, <1>9, <1>10, <1>11, <1>12, <1>13
     DEF Next, HostNext, Caller, Plugin

LEMMA EventsKeep ==
  ASSUME IInv, EventsInOrder, Next
  PROVE  EventsInOrder'
<1>0. /\ pipe \in Seq(Frames) /\ inbox \in Seq(Commands) /\ MaxEvents \in Nat
      /\ heard \in 0..MaxEvents /\ emitted \in 0..MaxEvents
      /\ \A k \in 1..Len(pipe) : pipe[k].kind = "event" => pipe[k] \in EventFrames
      /\ \A k \in 1..Len(inbox) : inbox[k].kind = "event" => inbox[k] \in EventFrames
  <2>1. /\ pipe \in Seq(Frames) /\ inbox \in Seq(Commands) /\ MaxEvents \in Nat
        /\ heard \in 0..MaxEvents /\ emitted \in 0..MaxEvents
    BY SessionConstants DEF IInv, TypeOK
  <2>2. /\ \A k \in 1..Len(pipe) : pipe[k] \in Frames
        /\ \A k \in 1..Len(inbox) : inbox[k] \in Commands
    BY <2>1, LenProperties
  <2>3. \A f \in Frames \cup Commands : f.kind = "event" => f \in EventFrames
    BY DEF Frames, Commands, PingFrames, PlainFrames, Plain
  <2> QED
    BY <2>1, <2>2, <2>3
<1>1. PICK sent \in heard..emitted :
            InOrder(pipe, (heard + 1)..sent) /\ InOrder(inbox, (sent + 1)..emitted)
  BY DEF EventsInOrder
<1>2. sent \in Nat /\ heard \in Nat /\ emitted \in Nat /\ heard <= sent /\ sent <= emitted
  BY <1>0, <1>1
<1>3. CASE Same(pipe, pipe') /\ Same(inbox, inbox') /\ UNCHANGED <<heard, emitted>>
  BY <1>1, <1>3 DEF Same, EventsInOrder
<1>4. CASE /\ emitted < MaxEvents /\ emitted' = emitted + 1
           /\ inbox' = Append(inbox, Event(emitted + 1)) /\ UNCHANGED <<pipe, heard>>
  <2>1. emitted + 1 \in Events /\ Event(emitted + 1) \in Commands
    BY <1>0, <1>4, FrameKinds DEF Events
  <2>2. InOrder(inbox', (sent + 1)..(emitted + 1))
    BY <1>0, <1>1, <1>2, <1>4, <2>1, EventAppended
  <2>3. sent \in heard'..emitted'
    BY <1>2, <1>4
  <2> QED
    BY <1>1, <1>4, <2>2, <2>3 DEF EventsInOrder
<1>5. CASE /\ inbox # <<>> /\ Head(inbox).kind = "event"
           /\ inbox' = Tail(inbox) /\ pipe' = Append(pipe, Head(inbox))
           /\ UNCHANGED <<heard, emitted>>
  <2>1. Head(inbox) \in EventFrames
    BY <1>0, <1>5, Behead DEF Commands, Plain
  <2>2. /\ sent + 1 \in Events /\ sent + 1 <= emitted /\ Head(inbox) = Event(sent + 1)
        /\ InOrder(inbox', (sent + 2)..emitted)
    <3>1. /\ sent + 1 \in Events /\ sent + 1 <= emitted /\ Head(inbox) = Event(sent + 1)
          /\ InOrder(Tail(inbox), ((sent + 1) + 1)..emitted)
      BY <1>0, <1>1, <1>2, <1>5, <2>1, EventTaken
    <3>2. (sent + 1) + 1 = sent + 2
      BY <1>2
    <3> QED
      BY <1>5, <3>1, <3>2
  <2>3. InOrder(pipe', (heard + 1)..(sent + 1))
    <3>1. Event(sent + 1) \in Frames
      BY <2>2, FrameKinds
    <3> QED
      BY <1>0, <1>1, <1>2, <1>5, <2>2, <3>1, EventAppended
  <2>4. sent + 1 \in heard'..emitted' /\ (sent + 1) + 1 = sent + 2
    BY <1>2, <1>5, <2>2
  <2> QED
    BY <1>5, <2>2, <2>3, <2>4 DEF EventsInOrder
<1>6. CASE /\ pipe # <<>> /\ Head(pipe).kind = "event"
           /\ pipe' = Tail(pipe) /\ heard' = Head(pipe).n /\ UNCHANGED <<inbox, emitted>>
  <2>1. Head(pipe) \in EventFrames
    BY <1>0, <1>6, Behead DEF Frames, PingFrames, PlainFrames, Plain
  <2>2. /\ heard + 1 \in Events /\ heard + 1 <= sent /\ Head(pipe) = Event(heard + 1)
        /\ InOrder(Tail(pipe), ((heard + 1) + 1)..sent)
    BY <1>0, <1>1, <1>2, <1>6, <2>1, EventTaken
  <2>3. heard' = heard + 1
    BY <1>6, <2>2, EventsDiffer
  <2>4. InOrder(pipe', (heard' + 1)..sent) /\ sent \in heard'..emitted'
    BY <1>2, <1>6, <2>2, <2>3
  <2> QED
    BY <1>1, <1>6, <2>4 DEF EventsInOrder
<1> QED
  BY EventSteps, <1>3, <1>4, <1>5, <1>6 DEF EventMoves

(* Whatever the plugin does, each event reaches it at most once and in the  *)
(* order it was emitted in, and none is left out before one that did.       *)
THEOREM EventsStayInOrder == Spec => []EventsInOrder
<1>1. Init => EventsInOrder
  <2> SUFFICES ASSUME Init PROVE InOrder(<<>>, 1..0) /\ pipe = <<>> /\ inbox = <<>>
                                 /\ heard = 0 /\ emitted = 0
    BY DEF EventsInOrder
  <2> QED
    BY DEF Init, InOrder, Contains
<1>2. IInv /\ EventsInOrder /\ [Next]_vars => EventsInOrder'
  <2>1. ASSUME EventsInOrder, UNCHANGED vars PROVE EventsInOrder'
    BY <2>1 DEF vars, EventsInOrder, InOrder
  <2> QED
    BY <2>1, EventsKeep
<1> QED
  BY InitInv, NextInv, <1>1, <1>2, PTL DEF Spec

-----------------------------------------------------------------------------
(* The detailed lifetime implements PluginRun                               *)

\* Where PluginRun is, and what it has been asked.
RunOf(ph) == CASE ph = "spawning" -> "spawning"
               [] ph \in {"initializing", "awaitInit", "initialized"} -> "handshake"
               [] ph \in {"serving", "sendingEvent"} -> "serving"
               [] ph \in {"shutdownWrite", "shutdownWait", "exitWrite", "reaping"} -> "closing"
               [] OTHER -> ph

\* A step that PluginRun does not see.
LEMMA Unseen ==
  ASSUME RunOf(phase') = RunOf(phase), child' = "up" <=> child = "up",
         phase' \in Over <=> phase \in Over,
         phase \notin Over => (Asked' <=> Asked)
  PROVE  UNCHANGED Run!vars
BY DEF Run!vars, RunOf, Asked

LEMMA RunSteps ==
  ASSUME IInv, Next
  PROVE  Run!Next \/ UNCHANGED Run!vars
<1> USE DEF hostVars, pluginVars, Goto, End
<1>0. /\ phase \in Phases /\ inbox \in Seq(Commands) /\ Early /\ Lives /\ Sending /\ Closing
      /\ child \in {"none", "up", "dead"}
      /\ Contains(inbox, Plain("shutdown")) => Contains(inbox', Plain("shutdown"))
  BY InboxKeeps DEF IInv, TypeOK, Control
\* Nobody has asked for anything during the handshake.
<1>1. phase \in Before => ~Asked
  BY <1>0 DEF Early, Asked, Contains
<1>2. CASE SpawnProcess
  <2>1. ~Asked /\ ~Asked'
    BY <1>1, <1>2 DEF SpawnProcess, Before, Asked
  <2> QED
    BY <1>2, <2>1 DEF SpawnProcess, Run!Next, Run!Spawn, Asked
<1>3. ASSUME phase \in Before, End("crashed"), UNCHANGED handle
      PROVE  Run!Next
  <2>1. ~Asked
    BY <1>1, <1>3
  <2> QED
    BY <1>3, <2>1 DEF Before, Over, Run!Next, Run!Spawn, Run!EndHandshake, Asked
<1>4. ASSUME phase \in {"serving", "sendingEvent"}, End("crashed")
      PROVE  Run!Next
  BY <1>4 DEF Over, Run!Next, Run!Crash
<1>5. CASE SendInitialize
  <2>1. Asked' <=> Asked
    BY <1>5 DEF SendInitialize, Asked
  <2> QED
    BY <1>5, <2>1, Unseen DEF SendInitialize, RunOf, Over
<1>6. CASE SendInitialized
  <2>1. ~Asked /\ ~Asked'
    BY <1>0, <1>1, <1>6 DEF SendInitialized, Before, Asked
  <2> QED
    BY <1>6, <2>1 DEF SendInitialized, Run!Next, Run!EndHandshake, Over, Asked
<1>7. CASE TakeEvent \/ WriteEvent \/ TakeRequest
  <2>1. /\ phase \in {"serving", "sendingEvent"} /\ phase' \in {"serving", "sendingEvent"}
        /\ UNCHANGED <<child, handle>>
    BY <1>7 DEF TakeEvent, WriteEvent, TakeRequest, Received
  <2>2. Asked' <=> Asked
    <3>1. CASE TakeEvent
      BY <3>1 DEF TakeEvent, Asked
    <3>2. CASE WriteEvent \/ TakeRequest
      <4>1. inbox # <<>> /\ Head(inbox) # Plain("shutdown") /\ inbox' = Tail(inbox) /\ handle' = handle
        BY <1>0, <3>2, FrameKinds DEF WriteEvent, TakeRequest, Received, Sending
      <4> QED
        BY <1>0, <4>1, Behead DEF Asked
    <3> QED
      BY <1>7, <3>1, <3>2
  <2> QED
    BY <2>1, <2>2, Unseen DEF RunOf, Over
<1>8. CASE TakeStop
  <2>1. Asked /\ Asked' /\ phase = "serving" /\ phase' = "shutdownWrite" /\ child' = child
    BY <1>8, ClosingKeeps DEF TakeStop, HearsStop, Received, Closing, Ending, Asked
  <2> QED
    BY <2>1 DEF Over, Run!Next, Run!Close, Asked
<1>9. CASE SendShutdown \/ ShutdownTimeout \/ SendExit
  <2>1. phase \in Ending /\ phase' \in Ending /\ UNCHANGED <<child, handle, inbox>>
    BY <1>9 DEF SendShutdown, ShutdownTimeout, SendExit, Ending
  <2> QED
    BY <2>1, Unseen DEF RunOf, Over, Ending, Asked
<1>10. CASE Reap
  BY <1>10 DEF Reap, Over, Run!Next, Run!FinishClosing
<1>11. CASE SpawnFails \/ InitializeFails
  BY <1>3, <1>11 DEF SpawnFails, InitializeFails, Before
<1>12. CASE WriteEventFails \/ EventTooLarge \/ ReaderEnded \/ TickUnresponsive
  BY <1>4, <1>12 DEF WriteEventFails, EventTooLarge, ReaderEnded, TickUnresponsive
<1>13. CASE TickPings \/ ActionTask \/ ActionTooLarge \/ ReadEvent \/ AnswerPing \/ Ignore
           \/ StopReading \/ ReaderStops
  <2>1. UNCHANGED <<phase, child, handle, inbox>>
    BY <1>13 DEF TickPings, ActionTask, WriteAction, ActionFails, ActionTooLarge, ReadEvent, AnswerPing, Ignore,
       StopReading, ReaderStops
  <2> QED
    BY <2>1, Unseen DEF Asked
<1>14. ASSUME NEW i \in PingIds, PingTask(i) PROVE UNCHANGED Run!vars
  <2>1. UNCHANGED <<phase, child, handle, inbox>>
    BY <1>14 DEF PingTask, WritePing, MissPing
  <2> QED
    BY <2>1, Unseen DEF Asked
<1>15. CASE EmitEvent \/ InvokeAction
  <2>1. UNCHANGED <<phase, child, handle>>
    BY <1>15 DEF EmitEvent, InvokeAction
  <2>2. Asked' <=> Asked
    <3>1. CASE EmitEvent
      <4>1. emitted + 1 \in Events
        BY <3>1, SessionConstants DEF EmitEvent, Events, IInv, TypeOK
      <4>2. Event(emitted + 1) \in Commands /\ Event(emitted + 1) # Plain("shutdown")
        BY <4>1, FrameKinds
      <4> QED
        BY <1>0, <3>1, <4>2, Appended DEF EmitEvent, Asked
    <3>2. CASE InvokeAction
      <4>1. Plain("invoke_action") \in Commands /\ Plain("invoke_action") # Plain("shutdown")
        BY FrameKinds
      <4> QED
        BY <1>0, <3>2, <4>1, Appended DEF InvokeAction, Asked
    <3> QED
      BY <1>15, <3>1, <3>2
  <2> QED
    BY <2>1, <2>2, Unseen
<1>16. CASE AskShutdown \/ DropHandle
  <2>1. /\ phase \in {"serving", "sendingEvent"} \cup Ending /\ phase \notin Over
        /\ UNCHANGED <<phase, child>>
    BY <1>0, <1>16 DEF AskShutdown, DropHandle, Early, Before, Over, Phases, Ending
  <2>2. Asked'
    <3>1. CASE AskShutdown
      BY <1>0, <3>1, Appended, FrameKinds DEF AskShutdown, Asked
    <3>2. CASE DropHandle
      BY <3>2 DEF DropHandle, Asked
    <3> QED
      BY <1>16, <3>1, <3>2
  <2> QED
    BY <2>1, <2>2 DEF Ending, Asked, Run!Next, Run!Ask
<1>17. CASE Answer
  <2>1. /\ UNCHANGED <<child, handle, inbox>>
        /\ \/ phase' = phase
           \/ phase = "awaitInit" /\ phase' = "initialized"
           \/ phase = "shutdownWait" /\ phase' = "exitWrite"
    BY <1>17 DEF Answer
  <2> QED
    BY <2>1, Unseen DEF RunOf, Over, Asked
<1>18. CASE ReadExit \/ Die
  <2>1. /\ child = "up" /\ child' \in {"up", "dead"} /\ UNCHANGED <<phase, handle, inbox>>
    BY <1>18 DEF ReadExit, Die, Takes, Reads
  <2>2. CASE child' = "up"
    BY <2>1, <2>2, Unseen DEF Asked
  <2>3. CASE child' = "dead"
    <3>1. phase \notin Over /\ phase # "spawning"
      BY <1>0, <2>1 DEF Lives, DeadWhenOver
    <3> QED
      BY <1>0, <2>1, <2>3, <3>1 DEF Phases, Over, Run!Next, Run!Dies
  <2> QED
    BY <2>1, <2>2, <2>3
<1> QED
  BY <1>2, <1>5, <1>6, <1>7, <1>8, <1>9, <1>10, <1>11, <1>12, <1>13, <1>14, <1>15, <1>16, <1>17, <1>18
     DEF Next, HostNext, Tick, TooLarge, Caller, Plugin

(* Frame by frame, with a plugin that does whatever it likes, the lifetime  *)
(* is the one PluginRun describes and every supervisor of PluginLifecycle   *)
(* runs: it closes only when asked to and ends with the process down.       *)
THEOREM SessionImplementsRun == Spec => ImplementsRun
<1>1. Init => Run!Init
  BY DEF Init, Run!Init, Over, Contains
<1>2. Spec => []IInv
  BY InitInv, NextInv, PTL DEF Spec
<1>3. IInv /\ [Next]_vars => [Run!Next]_(Run!vars)
  <2>1. ASSUME IInv, UNCHANGED vars PROVE UNCHANGED Run!vars
    BY <2>1, Unseen DEF vars, Asked
  <2> QED
    BY <2>1, RunSteps
<1> QED
  BY <1>1, <1>2, <1>3, PTL DEF Spec, ImplementsRun, Run!Spec
=============================================================================
