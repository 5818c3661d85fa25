---------------------------- MODULE IrcJoin_proofs ----------------------------
(***************************************************************************)
(* Proofs about IrcJoin, for any windows, channels, calls and bounds.      *)
(***************************************************************************)
EXTENDS IrcJoin, TLAPS

-----------------------------------------------------------------------------
(* Types *)

LEMMA IdleTyped == Idle \in CallRecords /\ NoWatch \in Lists
<1>1. (CHOOSE c \in Channels : TRUE) \in Channels
  BY IrcConstants
<1> QED
  BY <1>1 DEF Idle, CallRecords, Steps, NoWatch, Lists

(* A call that moves on keeps its type.                                     *)
LEMMA GotoTyped ==
  ASSUME call \in [Windows -> CallRecords], NEW w \in Windows, NEW pc \in Steps,
         Goto(w, pc) \/ Done(w)
  PROVE  call' \in [Windows -> CallRecords]
BY IdleTyped DEF Goto, Done, CallRecords

LEMMA AfterJoinTyped ==
  ASSUME call \in [Windows -> CallRecords], NEW w \in Windows, AfterJoin(w)
  PROVE  call' \in [Windows -> CallRecords]
<1>1. "sweep" \in Steps /\ "reap" \in Steps
  BY DEF Steps
<1> QED
  BY <1>1, GotoTyped DEF AfterJoin

LEMMA PartTyped ==
  ASSUME call \in [Windows -> CallRecords], NEW w \in Windows,
         NEW cs \in SUBSET Channels, Part(w, cs)
  PROVE  call' \in [Windows -> CallRecords]
<1>1. CASE cs = {}
  BY <1>1, GotoTyped DEF Part, Steps
<1>2. CASE cs # {}
  BY <1>2 DEF Part, CallRecords, Steps
<1> QED
  BY <1>1, <1>2

LEMMA BeginTyped ==
  ASSUME call \in [Windows -> CallRecords], NEW w \in Windows, NEW op, NEW c \in Channels,
         NEW pc \in Steps, Begin(w, op, c, pc)
  PROVE  call' \in [Windows -> CallRecords]
BY IdleTyped DEF Begin, CallRecords

(* A claim given back.                                                      *)
LEMMA ReleaseTyped ==
  ASSUME TypeOK, NEW w
  PROVE  \A c \in Channels : claims[c] \in SUBSET Windows
                             /\ Release(c, w) \in SUBSET Windows
BY DEF TypeOK, Release

(* The tracker and the socket.                                              *)
LEMMA RecordTyped ==
  ASSUME TypeOK, NEW cs \in SUBSET Channels, NEW nudge \in BOOLEAN,
         RecordSent(cs, nudge)
  PROVE  pending' \in [Channels -> 0..MaxAttempts] /\ nudged' \cup deferred' \subseteq Channels
<1>1. \A d \in Channels : Attempts(d) \in 0..MaxAttempts
  BY IrcConstants DEF TypeOK, Attempts
<1>2. pending' \in [Channels -> 0..MaxAttempts]
  BY <1>1 DEF TypeOK, RecordSent
<1>3. nudged' \cup deferred' \subseteq Channels
  BY DEF TypeOK, RecordSent
<1> QED
  BY <1>2, <1>3

LEMMA ForgetTyped ==
  ASSUME TypeOK, NEW cs, Forget(cs)
  PROVE  /\ pending' \in [Channels -> 0..MaxAttempts]
         /\ nudged' \cup deferred' \subseteq Channels /\ confirmed' \subseteq Channels
<1>1. pending' \in [Channels -> 0..MaxAttempts]
  BY IrcConstants DEF TypeOK, Forget
<1> QED
  BY <1>1 DEF TypeOK, Forget

LEMMA ConfirmTyped ==
  ASSUME TypeOK, NEW c \in Channels, Confirm(c)
  PROVE  /\ pending' \in [Channels -> 0..MaxAttempts]
         /\ nudged' \cup deferred' \subseteq Channels /\ confirmed' \subseteq Channels
<1>1. pending' \in [Channels -> 0..MaxAttempts]
  BY IrcConstants DEF TypeOK, Confirm
<1> QED
  BY <1>1 DEF TypeOK, Confirm

LEMMA SendTyped ==
  ASSUME TypeOK, NEW cs, NEW line \in {"JOIN", "PART"}, Send(cs, line)
  PROVE  wire' \in [Channels -> Seq({"JOIN", "PART"})]
<1>1. \A c \in Channels : Append(wire[c], line) \in Seq({"JOIN", "PART"})
  BY DEF TypeOK
<1> QED
  BY <1>1 DEF Send, TypeOK

LEMMA InitTyped == Init => TypeOK
<1>1. /\ NoWatch \in Lists
      /\ NoBurst \in [now : SUBSET Channels, later : SUBSET Channels]
  BY IdleTyped DEF NoBurst
<1>2. Init => wire \in [Channels -> Seq({"JOIN", "PART"})]
  <2>1. <<>> \in Seq({"JOIN", "PART"})
    OBVIOUS
  <2> QED
    BY <2>1 DEF Init
<1>3. Init => call \in [Windows -> CallRecords]
  BY IdleTyped DEF Init
<1>4. Init => pending \in [Channels -> 0..MaxAttempts] /\ faults \in 0..MaxFaults
  BY IrcConstants DEF Init
<1> QED
  BY <1>1, <1>2, <1>3, <1>4 DEF TypeOK, CallRecords, Init

LEMMA BeginsTyped ==
  ASSUME TypeOK, NEW w \in Windows, NEW c \in Channels, CallBegins(w, c)
  PROVE  TypeOK'
<1>0. call \in [Windows -> CallRecords]
  BY DEF TypeOK, CallRecords
<1>1. call' \in [Windows -> CallRecords]
  <2>1. ASSUME NEW op \in Ops, Join(w, op, c) PROVE call' \in [Windows -> CallRecords]
    BY <1>0, <2>1, IdleTyped DEF Join, CallRecords, Steps
  <2>2. CASE Leave(w, c)
    <3> DEFINE r == [Idle EXCEPT !.op = "leave", !.pc = "part", !.todo = {c}]
    <3>1. call' = call \/ call' = [call EXCEPT ![w] = r]
      BY <2>2 DEF Leave
    <3>2. r \in CallRecords
      BY <2>2, IdleTyped DEF Leave, CallRecords, Steps
    <3> HIDE DEF r
    <3> QED
      BY <1>0, <3>1, <3>2
  <2>3. CASE Nudge(w, c)
    BY <1>0, <2>3, IdleTyped DEF TypeOK, CallRecords, Nudge, Steps
  <2>4. \A s \in {"want", "sweep", "stop"} : s \in Steps
    BY DEF Steps
  <2>5. ASSUME NEW op \in Ops, EnsureOnly(w, op, c) \/ ColdStart(w, op, c)
        PROVE  call' \in [Windows -> CallRecords]
    <3>1. Begin(w, op, c, "want") \/ Begin(w, op, c, "stop")
      BY <2>5 DEF EnsureOnly, ColdStart
    <3> QED
      BY <1>0, <2>4, <3>1, BeginTyped
  <2>6. CASE Close(w, c) \/ Stop(w, c)
    <3>1. Begin(w, "close", c, "sweep") \/ Begin(w, "stop", c, "stop")
      BY <2>6 DEF Close, Stop
    <3> QED
      BY <1>0, <2>4, <3>1, BeginTyped
  <2> QED
    BY <2>1, <2>2, <2>3, <2>5, <2>6 DEF CallBegins
<1>2. claims' \in [Channels -> SUBSET Windows]
  <2>1. ASSUME NEW op \in Ops, Join(w, op, c) PROVE claims' \in [Channels -> SUBSET Windows]
    BY <2>1 DEF TypeOK, Join
  <2>2. CASE Leave(w, c)
    BY <2>2, ReleaseTyped DEF TypeOK, Leave
  <2>3. CASE claims' = claims
    BY <2>3 DEF TypeOK
  <2> QED
    BY <2>1, <2>2, <2>3
       DEF CallBegins, EnsureOnly, Close, Stop, ColdStart, Nudge, books
<1>3. UNCHANGED <<desired, pending, nudged, confirmed, deferred, session, network>>
  BY DEF CallBegins, Join, EnsureOnly, Close, Stop, ColdStart, Leave, Nudge, books
<1> QED
  BY <1>1, <1>2, <1>3 DEF TypeOK, CallRecords, session, network

LEMMA CallsTyped ==
  ASSUME TypeOK, NEW w \in Windows, CallStep(w)
  PROVE  TypeOK'
<1>0. call \in [Windows -> CallRecords] /\ call[w] \in CallRecords
  BY DEF TypeOK, CallRecords
<1>a. call[w].ch \in Channels /\ call[w].todo \subseteq Channels
  BY <1>0 DEF CallRecords
<1>s. \A s \in {"idle", "want", "probe", "await", "write", "record", "undo",
          "unclaim", "sweep", "reap", "orphans", "part", "drop", "forget", "nudge",
          "nudged", "stop", "empty", "clear", "disclaim", "seed",
          "claim", "spawn"} : s \in Steps
  BY DEF Steps
<1> USE DEF books, session, network
<1>1. CASE Want(w)
  BY <1>0, <1>a, <1>1 DEF TypeOK, CallRecords, Want, Steps
<1>2. CASE Probe(w)
  <2>1. call' \in [Windows -> CallRecords]
    <3>1. CASE AfterJoin(w)
      BY <1>0, <3>1, AfterJoinTyped
    <3>2. CASE ~AfterJoin(w)
      <4>1. call' = [call EXCEPT ![w].pc = "await", ![w].alive = supervisor]
        BY <1>2, <3>2 DEF Probe
      <4>2. supervisor \in BOOLEAN
        BY DEF TypeOK
      <4> QED
        BY <1>0, <4>1, <4>2 DEF CallRecords, Steps
    <3> QED
      BY <3>1, <3>2
  <2> QED
    BY <1>2, <2>1 DEF TypeOK, CallRecords, Probe
<1>3. CASE GetWriter(w)
  <2>1. call' = [call EXCEPT ![w].pc = "write", ![w].via = TRUE]
    BY <1>3 DEF GetWriter
  <2>2. call' \in [Windows -> CallRecords]
    BY <1>0, <1>s, <2>1 DEF CallRecords
  <2> QED
    BY <1>3, <2>2 DEF TypeOK, CallRecords, GetWriter
<1>4. CASE NoWriter(w)
  <2>1. call' \in [Windows -> CallRecords]
    BY <1>0, <1>4, <1>s, AfterJoinTyped, GotoTyped DEF NoWriter
  <2> QED
    BY <1>4, <2>1 DEF TypeOK, CallRecords, NoWriter
<1>5. CASE WriteJoin(w)
  <2>1. call' \in [Windows -> CallRecords]
    BY <1>0, <1>5, <1>s, GotoTyped DEF WriteJoin
  <2>2. wire' \in [Channels -> Seq({"JOIN", "PART"})]
    BY <1>5, SendTyped DEF WriteJoin
  <2> QED
    BY <1>5, <2>1, <2>2 DEF TypeOK, CallRecords, WriteJoin
<1>6. CASE WriteFails(w)
  <2>1. call' \in [Windows -> CallRecords]
    BY <1>0, <1>6, <1>s, GotoTyped DEF WriteFails
  <2> QED
    BY <1>6, <2>1 DEF TypeOK, CallRecords, WriteFails
<1>7. CASE Record(w)
  <2>1. call' \in [Windows -> CallRecords]
    BY <1>0, <1>7, AfterJoinTyped DEF Record
  <2>2. pending' \in [Channels -> 0..MaxAttempts] /\ nudged' \cup deferred' \subseteq Channels
    BY <1>7, <1>a, RecordTyped DEF Record
  <2> QED
    BY <1>7, <2>1, <2>2 DEF TypeOK, CallRecords, Record
<1>8. CASE Undo(w)
  <2>1. call' \in [Windows -> CallRecords]
    BY <1>0, <1>8, <1>s, AfterJoinTyped, GotoTyped DEF Undo
  <2> QED
    BY <1>8, <2>1 DEF TypeOK, CallRecords, Undo
<1>9. CASE Unclaim(w)
  <2>1. call' \in [Windows -> CallRecords]
    BY <1>0, <1>9, AfterJoinTyped DEF Unclaim
  <2> QED
    BY <1>9, <2>1, <1>a DEF TypeOK, CallRecords, Unclaim
<1>10. CASE Sweep(w)
  <2>1. {c \in Channels \ Keep(w) : claims[c] = {w}} \in SUBSET Channels
    OBVIOUS
  <2>2. call' \in [Windows -> CallRecords]
    BY <1>0, <1>10, <2>1, PartTyped DEF Sweep
  <2>3. claims' \in [Channels -> SUBSET Windows]
    <3>1. claims' = [c \in Channels |-> IF c \in Keep(w) THEN claims[c] ELSE Release(c, w)]
      BY <1>10 DEF Sweep
    <3>2. \A c \in Channels :
              (IF c \in Keep(w) THEN claims[c] ELSE Release(c, w)) \in SUBSET Windows
      BY ReleaseTyped
    <3> QED
      BY <3>1, <3>2
  <2> QED
    BY <1>10, <2>2, <2>3 DEF TypeOK, CallRecords, Sweep
<1>11. CASE Reap(w)
  <2>1. desired \ {call[w].ch} \subseteq Channels
    BY DEF TypeOK
  <2>2. call' \in [Windows -> CallRecords]
    BY <1>0, <1>11, <2>1 DEF CallRecords, Reap, Steps
  <2> QED
    BY <1>11, <2>2 DEF TypeOK, CallRecords, Reap
<1>12. CASE Orphans(w)
  <2>1. {c \in call[w].todo : claims[c] = {}} \in SUBSET Channels
    BY <1>a
  <2>2. call' \in [Windows -> CallRecords]
    BY <1>0, <1>12, <2>1, PartTyped DEF Orphans
  <2> QED
    BY <1>12, <2>2 DEF TypeOK, CallRecords, Orphans
<1>13. ASSUME NEW c \in Channels, PartWire(w, c) PROVE TypeOK'
  <2>1. call' \in [Windows -> CallRecords]
    BY <1>0, <1>13 DEF PartWire, CallRecords, Steps
  <2>2. wire' \in [Channels -> Seq({"JOIN", "PART"})]
    BY <1>13, SendTyped DEF TypeOK, CallRecords, PartWire
  <2> QED
    BY <1>13, <2>1, <2>2 DEF TypeOK, CallRecords, PartWire
<1>14. CASE PartDrop(w)
  <2>1. call' \in [Windows -> CallRecords]
    BY <1>0, <1>14, <1>s, GotoTyped DEF PartDrop
  <2> QED
    BY <1>14, <2>1 DEF TypeOK, CallRecords, PartDrop
<1>15. CASE PartForget(w)
  <2>1. call[w].todo \ {call[w].ch} \in SUBSET Channels
    BY <1>a
  <2>2. call' \in [Windows -> CallRecords]
    BY <1>0, <1>15, <2>1, PartTyped DEF PartForget
  <2>3. /\ pending' \in [Channels -> 0..MaxAttempts] /\ nudged' \cup deferred' \subseteq Channels
        /\ confirmed' \subseteq Channels
    BY <1>15, IrcConstants DEF TypeOK, CallRecords, PartForget, Forget
  <2> QED
    BY <1>15, <2>2, <2>3 DEF TypeOK, CallRecords, PartForget
<1>16. ASSUME NEW c \in Channels, NudgeMark(w, c) PROVE TypeOK'
  <2>1. CASE pending[c] > 0
    <3>1. call' \in [Windows -> CallRecords]
      <4>1. CASE Done(w)
        BY <1>0, <1>s, <4>1, GotoTyped
      <4>2. CASE ~Done(w)
        <5>1. call' = [call EXCEPT ![w].todo = @ \ {c}]
          BY <1>16, <2>1, <4>2 DEF NudgeMark
        <5> QED
          BY <1>0, <1>a, <5>1 DEF CallRecords
      <4> QED
        BY <4>1, <4>2
    <3> QED
      BY <1>16, <2>1, <3>1 DEF TypeOK, CallRecords, NudgeMark
  <2>2. CASE ~(pending[c] > 0)
    <3>1. call' \in [Windows -> CallRecords]
      <4>1. call' = [call EXCEPT ![w].pc = "nudged", ![w].ch = c]
        BY <1>16, <2>2 DEF NudgeMark
      <4> QED
        BY <1>0, <4>1 DEF CallRecords, Steps
    <3>2. pending' \in [Channels -> 0..MaxAttempts] /\ nudged' \cup deferred' \subseteq Channels
      BY <1>16, <2>2, RecordTyped DEF NudgeMark
    <3>3. confirmed' \subseteq Channels /\ UNCHANGED <<claims, desired, session, network>>
      BY <1>16, <2>2 DEF TypeOK, NudgeMark
    <3> QED
      BY <3>1, <3>2, <3>3 DEF TypeOK, CallRecords
  <2> QED
    BY <2>1, <2>2
<1>17. CASE NudgeWrite(w)
  <2>1. call' \in [Windows -> CallRecords]
    <3>1. CASE Done(w)
      BY <1>0, <1>s, <3>1, GotoTyped
    <3>2. CASE ~Done(w)
      BY <1>0, <1>a, <1>17, <3>2 DEF NudgeWrite, CallRecords, Steps
    <3> QED
      BY <3>1, <3>2
  <2>2. wire' \in [Channels -> Seq({"JOIN", "PART"})]
    BY <1>17, SendTyped DEF TypeOK, CallRecords, NudgeWrite
  <2> QED
    BY <1>17, <2>1, <2>2 DEF TypeOK, CallRecords, NudgeWrite
<1>18. CASE StopSession(w)
  <2>1. call' \in [Windows -> CallRecords]
    BY <1>0, <1>18, <1>s, GotoTyped DEF StopSession
  <2>2. /\ watch' \in Lists
        /\ burst' \in [now : SUBSET Channels, later : SUBSET Channels]
    BY <1>18, IdleTyped DEF StopSession, NoBurst
  <2>3. wire' \in [Channels -> Seq({"JOIN", "PART"})]
    <3>1. <<>> \in Seq({"JOIN", "PART"})
      OBVIOUS
    <3> QED
      BY <1>18, <3>1 DEF StopSession
  <2> QED
    BY <1>18, <2>1, <2>2, <2>3 DEF TypeOK, CallRecords, StopSession
<1>19. CASE StopDesired(w)
  <2>1. call' \in [Windows -> CallRecords]
    BY <1>0, <1>19, <1>s, GotoTyped DEF StopDesired
  <2> QED
    BY <1>19, <2>1 DEF TypeOK, CallRecords, StopDesired
<1>20. CASE StopTracker(w)
  <2>1. call' \in [Windows -> CallRecords]
    BY <1>0, <1>20, <1>s, GotoTyped DEF StopTracker
  <2> QED
    BY <1>20, <2>1, ForgetTyped DEF TypeOK, CallRecords, StopTracker
<1>21. CASE StopClaims(w)
  <2>1. call' \in [Windows -> CallRecords]
    BY <1>0, <1>21, <1>s, GotoTyped DEF StopClaims
  <2>2. claims' \in [Channels -> SUBSET Windows]
    BY <1>21 DEF StopClaims
  <2> QED
    BY <1>21, <2>1, <2>2 DEF TypeOK, CallRecords, StopClaims
<1>22. CASE Seed(w)
  <2>1. call' \in [Windows -> CallRecords]
    BY <1>0, <1>22, <1>s, GotoTyped DEF Seed
  <2> QED
    BY <1>22, <2>1, <1>a DEF TypeOK, CallRecords, Seed
<1>23. CASE SeedClaims(w)
  <2>1. call' \in [Windows -> CallRecords]
    BY <1>0, <1>23, <1>s, GotoTyped DEF SeedClaims
  <2>2. claims' \in [Channels -> SUBSET Windows]
    BY <1>23 DEF SeedClaims
  <2> QED
    BY <1>23, <2>1, <2>2 DEF TypeOK, CallRecords, SeedClaims
<1>24. CASE Spawn(w)
  <2>1. call' \in [Windows -> CallRecords]
    BY <1>0, <1>24, GotoTyped, <1>s DEF Spawn
  <2> QED
    BY <1>24, <2>1, <1>a DEF TypeOK, CallRecords, Spawn
<1> QED
  BY <1>1, <1>2, <1>3, <1>4, <1>5, <1>6, <1>7, <1>8, <1>9, <1>10, <1>11, <1>12, <1>13,
     <1>14, <1>15, <1>16, <1>17, <1>18, <1>19, <1>20, <1>21, <1>22, <1>23, <1>24
     DEF CallStep

LEMMA WireGone == [c \in Channels |-> <<>>] \in [Channels -> Seq({"JOIN", "PART"})]
<1>1. <<>> \in Seq({"JOIN", "PART"})
  OBVIOUS
<1> QED
  BY <1>1

LEMMA SessionTyped ==
  ASSUME TypeOK, SessionStep
  PROVE  TypeOK'
<1> USE DEF books, session, network
<1>1. CASE Connect
  <2>1. call' \in [Windows -> CallRecords]
    <3>1. call \in [Windows -> CallRecords]
      BY DEF TypeOK, CallRecords
    <3>2. call' = [v \in Windows |-> [call[v] EXCEPT !.via = FALSE]]
      BY <1>1 DEF Connect
    <3>3. \A v \in Windows : [call[v] EXCEPT !.via = FALSE] \in CallRecords
      BY <3>1 DEF CallRecords
    <3> QED
      BY <3>2, <3>3
  <2> QED
    BY <1>1, <2>1 DEF TypeOK, CallRecords, Connect
<1>2. CASE ListChannels
  <2>1. burst' \in [now : SUBSET Channels, later : SUBSET Channels]
    <3>1. (IF desired = {} THEN {initial} \cap Channels ELSE desired) \subseteq Channels
      BY DEF TypeOK
    <3> QED
      BY <1>2, <3>1 DEF ListChannels
  <2> QED
    BY <1>2, <2>1 DEF TypeOK, ListChannels
<1>3. CASE BurstJoin
  <2>1. wire' \in [Channels -> Seq({"JOIN", "PART"})]
    BY <1>3, SendTyped DEF BurstJoin
  <2> QED
    BY <1>3, <2>1 DEF TypeOK, BurstJoin
<1>4. CASE BurstRecord
  <2>1. burst.now \cup burst.later \in SUBSET Channels
    BY DEF TypeOK
  <2>2. pending' \in [Channels -> 0..MaxAttempts] /\ nudged' \cup deferred' \subseteq Channels
    BY <1>4, <2>1, RecordTyped DEF BurstRecord
  <2>3. burst' \in [now : SUBSET Channels, later : SUBSET Channels]
    BY <1>4 DEF TypeOK, BurstRecord
  <2> QED
    BY <1>4, <2>2, <2>3 DEF TypeOK, BurstRecord
<1>5. CASE PacedJoin
  <2>1. wire' \in [Channels -> Seq({"JOIN", "PART"})]
    BY <1>5, SendTyped DEF PacedJoin
  <2>2. burst' \in [now : SUBSET Channels, later : SUBSET Channels]
    <3>1. PICK batch \in SUBSET burst.later \ {{}} :
              burst' = [burst EXCEPT !.later = @ \ batch]
      BY <1>5 DEF PacedJoin
    <3>2. burst.later \ batch \subseteq Channels
      BY DEF TypeOK
    <3> QED
      BY <3>1, <3>2 DEF TypeOK
  <2> QED
    BY <1>5, <2>1, <2>2 DEF TypeOK, PacedJoin
<1>6. CASE SessionEnds
  <2>1. /\ watch' \in Lists
        /\ burst' \in [now : SUBSET Channels, later : SUBSET Channels]
    BY <1>6, IdleTyped DEF SessionEnds, NoBurst
  <2> QED
    BY <1>6, <2>1 DEF TypeOK, SessionEnds
<1>7. CASE ClearTracker
  BY <1>7, ForgetTyped DEF TypeOK, ClearTracker
<1>8. ASSUME NEW c \in Channels, Read(c) PROVE TypeOK'
  <2>1. inbound' \in [Channels -> SUBSET {"frame", "suspended"}]
    <3>1. PICK f \in {"frame", "suspended"} : inbound' = [inbound EXCEPT ![c] = @ \ {f}]
      BY <1>8 DEF Read
    <3>2. inbound[c] \ {f} \subseteq {"frame", "suspended"}
      BY DEF TypeOK
    <3> QED
      BY <3>1, <3>2 DEF TypeOK
  <2>2. /\ pending' \in [Channels -> 0..MaxAttempts]
        /\ nudged' \cup deferred' \subseteq Channels /\ confirmed' \subseteq Channels
    <3>1. CASE Confirm(c) \/ Forget({c})
      BY <3>1, ForgetTyped, ConfirmTyped
    <3>2. CASE UNCHANGED <<pending, nudged, confirmed, deferred>>
      BY <3>2 DEF TypeOK
    <3> QED
      BY <1>8, <3>1, <3>2 DEF Read
  <2>3. desired' \subseteq Channels
    BY <1>8 DEF TypeOK, Read
  <2> QED
    BY <1>8, <2>1, <2>2, <2>3 DEF TypeOK, Read
<1> QED
  BY <1>1, <1>2, <1>3, <1>4, <1>5, <1>6, <1>7, <1>8 DEF SessionStep

(* The rest of the watchdog's list.                                         *)
LEMMA WatchOnTyped ==
  ASSUME TypeOK, NEW retry \in SUBSET Channels, NEW drop \in SUBSET Channels,
         WatchOn(retry, drop)
  PROVE  watch' \in Lists
<1>1. [watch EXCEPT !.pc = "work", !.retry = retry, !.drop = drop] \in Lists
  BY DEF TypeOK, Lists
<1> QED
  BY <1>1, IdleTyped DEF WatchOn

LEMMA WatchTyped ==
  ASSUME TypeOK, WatchStep
  PROVE  TypeOK'
<1> USE DEF books, session, network
<1>1. ASSUME NEW c \in Channels, WatchJoins(c) PROVE TypeOK'
  <2>1. wire' \in [Channels -> Seq({"JOIN", "PART"})]
    BY <1>1, SendTyped DEF WatchJoins
  <2>2. watch' \in Lists
    BY <1>1 DEF TypeOK, WatchJoins, Lists
  <2> QED
    BY <1>1, <2>1, <2>2 DEF TypeOK, WatchJoins
<1>2. CASE WatchRecords
  <2>1. {watch.ch} \in SUBSET Channels /\ watch.retry \ {watch.ch} \in SUBSET Channels
        /\ watch.drop \in SUBSET Channels
    BY DEF TypeOK, Lists
  <2>2. pending' \in [Channels -> 0..MaxAttempts] /\ nudged' \cup deferred' \subseteq Channels
    BY <1>2, <2>1, RecordTyped DEF WatchRecords
  <2>3. watch' \in Lists
    BY <1>2, <2>1, WatchOnTyped DEF WatchRecords
  <2> QED
    BY <1>2, <2>2, <2>3 DEF TypeOK, WatchRecords
<1>3. CASE WatchLooks
  <2>1. PICK due \in SUBSET Channels \ {{}} :
            /\ Overdue(due)
            /\ watch' = [watch EXCEPT !.pc = "work", !.cooled = cooled,
                            !.retry = {c \in due : pending[c] < MaxAttempts},
                            !.drop = {c \in due : pending[c] = MaxAttempts}]
    BY <1>3 DEF WatchLooks
  <2>2. watch' \in Lists
    <3>1. /\ {c \in due : pending[c] < MaxAttempts} \in SUBSET Channels
          /\ {c \in due : pending[c] = MaxAttempts} \in SUBSET Channels
      OBVIOUS
    <3> QED
      BY <2>1, <3>1 DEF TypeOK, Lists
  <2>3. faults' \in 0..MaxFaults
    BY <2>1, IrcConstants DEF TypeOK, Overdue
  <2> QED
    BY <1>3, <2>2, <2>3 DEF TypeOK, WatchLooks
<1>4. ASSUME NEW c \in Channels, WatchGivesUp(c) PROVE TypeOK'
  <2>1. pending' \in [Channels -> 0..MaxAttempts]
    BY <1>4, IrcConstants DEF TypeOK, WatchGivesUp
  <2>2. deferred' \cup nudged' \subseteq Channels /\ cooled' \in BOOLEAN
    BY <1>4 DEF TypeOK, WatchGivesUp
  <2>3. watch' \in Lists
    <3>1. watch.retry \in SUBSET Channels /\ watch.drop \ {c} \in SUBSET Channels
      BY DEF TypeOK, Lists
    <3>2. [NoWatch EXCEPT !.pc = "shut"] \in Lists
      BY IdleTyped DEF Lists
    <3> QED
      BY <1>4, <3>1, <3>2, WatchOnTyped DEF WatchGivesUp
  <2> QED
    BY <1>4, <2>1, <2>2, <2>3 DEF TypeOK, WatchGivesUp
<1>5. CASE WatchShuts
  <2>1. /\ link' \in BOOLEAN /\ inRoom' \subseteq Channels
        /\ wire' \in [Channels -> Seq({"JOIN", "PART"})]
        /\ inbound' \in [Channels -> SUBSET {"frame", "suspended"}]
    BY <1>5, WireGone DEF WatchShuts, SocketGone
  <2>2. [NoWatch EXCEPT !.pc = "done"] \in Lists
    BY IdleTyped DEF Lists
  <2> QED
    BY <1>5, <2>1, <2>2 DEF TypeOK, WatchShuts
<1> QED
  BY <1>1, <1>2, <1>3, <1>4, <1>5 DEF WatchStep

LEMMA EnvironmentTyped ==
  ASSUME TypeOK, Environment
  PROVE  TypeOK'
<1> USE DEF books, session, network
<1>1. CASE CoolsDown
  BY <1>1 DEF TypeOK, CoolsDown
<1>2. CASE SocketDies
  <2>1. SocketGone /\ wire' \in [Channels -> Seq({"JOIN", "PART"})]
    BY <1>2, WireGone DEF SocketDies, SocketGone
  <2>2. inbound' \in [Channels -> SUBSET {"frame", "suspended"}]
    BY <2>1 DEF SocketGone
  <2>3. faults' \in 0..MaxFaults
    BY <1>2, IrcConstants DEF TypeOK, SocketDies
  <2> QED
    BY <1>2, <2>1, <2>2, <2>3 DEF TypeOK, SocketDies, SocketGone
<1>3. ASSUME NEW c \in Channels, wire[c] # <<>>, wire' = [wire EXCEPT ![c] = Tail(@)]
      PROVE  wire' \in [Channels -> Seq({"JOIN", "PART"})]
  <2>1. Tail(wire[c]) \in Seq({"JOIN", "PART"})
    BY <1>3 DEF TypeOK
  <2> QED
    BY <1>3, <2>1 DEF TypeOK
<1>4. ASSUME NEW c \in Channels, ServerTakes(c) PROVE TypeOK'
  <2>1. wire' \in [Channels -> Seq({"JOIN", "PART"})]
    BY <1>3, <1>4 DEF ServerTakes
  <2>2. /\ inbound' \in [Channels -> SUBSET {"frame", "suspended"}]
        /\ inRoom' \subseteq Channels
    <3>1. CASE UNCHANGED inbound
      BY <1>4, <3>1 DEF TypeOK, ServerTakes
    <3>2. ASSUME NEW f \in {"frame", "suspended"},
                 inbound' = [inbound EXCEPT ![c] = @ \cup {f}]
          PROVE  inbound' \in [Channels -> SUBSET {"frame", "suspended"}]
      <4>1. inbound[c] \cup {f} \in SUBSET {"frame", "suspended"}
        BY DEF TypeOK
      <4> QED
        BY <3>2, <4>1 DEF TypeOK
    <3>3. inRoom' \subseteq Channels
      BY <1>4 DEF TypeOK, ServerTakes
    <3> QED
      BY <1>4, <3>1, <3>2, <3>3 DEF ServerTakes
  <2> QED
    BY <1>4, <2>1, <2>2 DEF TypeOK, ServerTakes
<1>5. ASSUME NEW c \in Channels, ServerTalks(c) PROVE TypeOK'
  BY <1>5 DEF TypeOK, ServerTalks
<1>6. ASSUME NEW c \in Channels, JoinLost(c) PROVE TypeOK'
  <2>1. wire' \in [Channels -> Seq({"JOIN", "PART"})]
    BY <1>3, <1>6 DEF JoinLost
  <2> QED
    BY <1>6, <2>1, IrcConstants DEF TypeOK, JoinLost
<1>7. ASSUME NEW c \in Channels, Suspend(c) PROVE TypeOK'
  BY <1>7, IrcConstants DEF TypeOK, Suspend
<1> QED
  BY <1>1, <1>2, <1>4, <1>5, <1>6, <1>7 DEF Environment

LEMMA NextTyped == TypeOK /\ [Next]_vars => TypeOK'
<1>1. TypeOK /\ Next => TypeOK'
  BY CallsTyped, BeginsTyped, SessionTyped, WatchTyped, EnvironmentTyped DEF Next, Work
<1>2. TypeOK /\ UNCHANGED vars => TypeOK'
  BY DEF TypeOK, vars, books, session, network
<1> QED
  BY <1>1, <1>2

(* Whatever the windows call at once, every record, set and frame stays     *)
(* what the maps of irc_service.rs hold, and no attempt is counted beyond   *)
(* JOIN_MAX_ATTEMPTS.                                                       *)
THEOREM TypeCorrect == Spec => []TypeOK
<1> QED
  BY InitTyped, NextTyped, PTL DEF Spec

-----------------------------------------------------------------------------
(* What the calls know.                                                     *)
(*                                                                          *)
(* ClaimedDesired speaks of the moments without a call.  To keep it, the    *)
(* invariant says what a call in flight may still do: which channel it has  *)
(* claimed and not yet entered in `desired`, whose entry it may take back,  *)
(* and that what it parts is held by nobody.                                *)

Covered(c) == c \in desired \/ c \in suspended

OneCall ==
    \A v, w \in Windows : call[v].pc # "idle" /\ call[w].pc # "idle" => v = w

\* The notice of a suspension is read after the suspension.
Refused == \A c \in Channels : "suspended" \in inbound[c] => c \in suspended

\* Nobody but w holds the channel of its call, and w does by this call.
Mine(w) ==
    \/ call[w].ch \in suspended
    \/ /\ claims[call[w].ch] \subseteq {w}
       /\ call[w].fresh \/ claims[call[w].ch] = {}

Knows(w) ==
    /\ call[w].pc = "want" /\ call[w].ch \notin desired => Mine(w)
    /\ call[w].pc \in {"probe", "await", "write", "undo"} /\ call[w].wanted => Mine(w)
    /\ call[w].pc = "claim" => Covered(call[w].ch)
    /\ call[w].pc \in {"part", "drop", "forget"} =>
            \A c \in call[w].todo : claims[c] = {}
    /\ call[w].pc \in {"drop", "forget"} => call[w].ch \in call[w].todo

\* The call of w is why c may be held and not desired.
Excuses(w, c) ==
    \/ call[w].pc \in {"clear", "disclaim"}
    \/ call[w].pc = "want" /\ call[w].ch = c
    \/ call[w].pc = "unclaim" /\ call[w].ch = c /\ claims[c] \subseteq {w}

Held ==
    \A c \in Channels :
        claims[c] # {} => Covered(c) \/ \E w \in Windows : Excuses(w, c)

CallInv == OneCall /\ Refused /\ Held /\ \A w \in Windows : Knows(w)
IInv == TypeOK /\ CallInv

\* What a step of the call of w leaves alone.
Alone(w) ==
    /\ \A v \in Windows \ {w} : call'[v] = call[v]
    /\ suspended' = suspended
    /\ \A c \in Channels : inbound'[c] \subseteq inbound[c]

-----------------------------------------------------------------------------
(* How a call moves. *)

LEMMA GotoMoves ==
  ASSUME call \in [Windows -> CallRecords], NEW w \in Windows, NEW pc, Goto(w, pc)
  PROVE  /\ call'[w].pc = pc /\ call'[w].ch = call[w].ch
         /\ call'[w].fresh = call[w].fresh /\ call'[w].wanted = call[w].wanted
         /\ call'[w].todo = call[w].todo
         /\ \A v \in Windows \ {w} : call'[v] = call[v]
BY DEF Goto, CallRecords

LEMMA DoneMoves ==
  ASSUME call \in [Windows -> CallRecords], NEW w \in Windows, Done(w)
  PROVE  /\ call'[w].pc = "idle"
         /\ \A v \in Windows \ {w} : call'[v] = call[v]
BY DEF Done, Idle

LEMMA AfterJoinMoves ==
  ASSUME call \in [Windows -> CallRecords], NEW w \in Windows, AfterJoin(w)
  PROVE  /\ call'[w].pc \in {"sweep", "reap", "idle"}
         /\ \A v \in Windows \ {w} : call'[v] = call[v]
BY GotoMoves, DoneMoves DEF AfterJoin

LEMMA PartMoves ==
  ASSUME call \in [Windows -> CallRecords], NEW w \in Windows, NEW cs, Part(w, cs)
  PROVE  /\ \/ call'[w].pc = "idle"
            \/ call'[w].pc = "part" /\ call'[w].todo = cs
         /\ \A v \in Windows \ {w} : call'[v] = call[v]
<1>1. CASE cs = {}
  BY <1>1, DoneMoves DEF Part
<1>2. CASE cs # {}
  BY <1>2 DEF Part, CallRecords
<1> QED
  BY <1>1, <1>2

(* With one call in flight, its excuse is the only one.                     *)
LEMMA OneExcuse ==
  ASSUME OneCall, Held, NEW w \in Windows, call[w].pc # "idle"
  PROVE  \A c \in Channels : claims[c] # {} => Covered(c) \/ Excuses(w, c)
BY DEF OneCall, Held, Excuses

LEMMA AloneKeeps ==
  ASSUME CallInv, NEW w \in Windows, call[w].pc # "idle", Alone(w), Held', Knows(w)'
  PROVE  CallInv'
<1>1. \A v \in Windows \ {w} : call'[v].pc = "idle"
  BY DEF CallInv, OneCall, Alone
<1>2. OneCall'
  BY <1>1 DEF OneCall
<1>3. Refused'
  BY DEF CallInv, Refused, Alone
<1>4. \A v \in Windows : Knows(v)'
  BY <1>1 DEF Knows
<1> QED
  BY <1>2, <1>3, <1>4 DEF CallInv

-----------------------------------------------------------------------------
(* The steps of a call keep the invariant. *)

LEMMA CallKeeps ==
  ASSUME IInv, NEW w \in Windows, CallStep(w)
  PROVE  CallInv'
<1>0. call \in [Windows -> CallRecords] /\ call[w] \in CallRecords
  BY DEF IInv, TypeOK, CallRecords
<1>1. CallInv /\ Knows(w) /\ OneCall /\ Held
  BY DEF IInv, CallInv
<1>2. call[w].pc # "idle" => \A c \in Channels : claims[c] # {} => Covered(c) \/ Excuses(w, c)
  BY <1>1, OneExcuse
<1> SUFFICES call[w].pc # "idle" /\ Alone(w) /\ Held' /\ Knows(w)'
  BY <1>1, AloneKeeps
<1> USE DEF books, session, network
<1>3. CASE Want(w)
  <2>1. /\ call'[w].pc \in {"probe", "await"} /\ call'[w].ch = call[w].ch
        /\ call'[w].fresh = call[w].fresh
        /\ call'[w].wanted = (call[w].ch \notin desired)
    BY <1>0, <1>3 DEF Want, CallRecords
  <2>2. Alone(w)
    <3>1. \A v \in Windows \ {w} : call'[v] = call[v]
      BY <1>0, <1>3 DEF Want
    <3> QED
      BY <1>3, <3>1 DEF Want, Alone
  <2>3. Held'
    <3>1. \A c \in Channels : Covered(c) \/ c = call[w].ch => Covered(c)'
      BY <1>3 DEF Want, Covered
    <3>2. call[w].pc = "want" /\ claims' = claims
      BY <1>3 DEF Want
    <3> QED
      BY <1>2, <3>1, <3>2 DEF Held, Excuses
  <2>4. Knows(w)'
    <3>0. UNCHANGED <<claims, suspended>>
      BY <1>3 DEF Want
    <3>1. Mine(w) => Mine(w)'
      BY <2>1, <3>0 DEF Mine
    <3>2. call[w].ch \notin desired => Mine(w)
      BY <1>1, <1>3 DEF Want, Knows
    <3> QED
      BY <2>1, <3>1, <3>2 DEF Knows
  <2> QED
    BY <1>3, <2>2, <2>3, <2>4 DEF Want
<1>4. CASE Probe(w) \/ GetWriter(w) \/ NoWriter(w) \/ WriteJoin(w) \/ WriteFails(w)
  <2>1. /\ call[w].pc \in {"probe", "await", "write"}
        /\ UNCHANGED <<claims, desired, suspended, inbound>>
    BY <1>4 DEF Probe, GetWriter, NoWriter, WriteJoin, WriteFails
  <2>2. /\ \/ call'[w].pc \in {"sweep", "reap", "idle", "record"}
           \/ /\ call'[w].pc \in {"await", "write", "undo"}
              /\ call'[w].ch = call[w].ch /\ call'[w].fresh = call[w].fresh
              /\ call'[w].wanted = call[w].wanted
        /\ \A v \in Windows \ {w} : call'[v] = call[v]
    <3>1. CASE Probe(w)
      <4>1. CASE AfterJoin(w)
        BY <1>0, <4>1, AfterJoinMoves
      <4>2. CASE ~AfterJoin(w)
        <5>1. call' = [call EXCEPT ![w].pc = "await", ![w].alive = supervisor]
          BY <3>1, <4>2 DEF Probe
        <5> QED
          BY <1>0, <5>1 DEF CallRecords
      <4> QED
        BY <4>1, <4>2
    <3>2. CASE GetWriter(w)
      BY <1>0, <3>2 DEF GetWriter, CallRecords
    <3>3. CASE NoWriter(w)
      BY <1>0, <3>3, AfterJoinMoves, GotoMoves DEF NoWriter
    <3>4. CASE WriteJoin(w)
      BY <1>0, <3>4, GotoMoves DEF WriteJoin
    <3>5. CASE WriteFails(w)
      BY <1>0, <3>5, GotoMoves DEF WriteFails
    <3> QED
      BY <1>4, <3>1, <3>2, <3>3, <3>4, <3>5
  <2>3. Held'
    BY <1>2, <2>1 DEF Held, Covered, Excuses
  <2>4. Knows(w)'
    BY <1>1, <2>1, <2>2 DEF Knows, Mine
  <2> QED
    BY <2>1, <2>2, <2>3, <2>4 DEF Alone
<1>5. CASE Record(w)
  <2>1. /\ call'[w].pc \in {"sweep", "reap", "idle"}
        /\ \A v \in Windows \ {w} : call'[v] = call[v]
    BY <1>0, <1>5, AfterJoinMoves DEF Record
  <2>2. Held'
    BY <1>2, <1>5 DEF Record, Held, Covered, Excuses
  <2> QED
    BY <1>5, <2>1, <2>2 DEF Record, Knows, Alone
<1>6. CASE Undo(w)
  <2>1. /\ \/ call'[w].pc \in {"sweep", "reap", "idle"} /\ ~call[w].fresh
           \/ call'[w].pc = "unclaim" /\ call'[w].ch = call[w].ch /\ call[w].fresh
        /\ \A v \in Windows \ {w} : call'[v] = call[v]
    BY <1>0, <1>6, AfterJoinMoves, GotoMoves DEF Undo
  <2>2. Held'
    <3>1. ASSUME NEW c \in Channels, claims'[c] # {}, ~Covered(c)'
          PROVE  Excuses(w, c)'
      <4>1. Covered(c)
        BY <1>2, <1>6, <3>1 DEF Undo, Excuses
      <4>2. call[w].wanted /\ c = call[w].ch /\ c \notin suspended
        BY <1>6, <3>1, <4>1 DEF Undo, Covered
      <4>3. Mine(w) /\ claims' = claims
        BY <1>1, <1>6, <4>2 DEF Undo, Knows
      <4> QED
        BY <2>1, <3>1, <4>2, <4>3 DEF Mine, Excuses
    <3> QED
      BY <3>1 DEF Held
  <2> QED
    BY <1>6, <2>1, <2>2 DEF Undo, Knows, Alone
<1>7. CASE Unclaim(w)
  <2>1. /\ call'[w].pc \in {"sweep", "reap", "idle"}
        /\ \A v \in Windows \ {w} : call'[v] = call[v]
    BY <1>0, <1>7, AfterJoinMoves DEF Unclaim
  <2>2. claims' = [claims EXCEPT ![call[w].ch] = @ \ {w}] /\ UNCHANGED <<desired, suspended>>
    BY <1>7 DEF Unclaim
  <2>3. Held'
    <3>1. claims \in [Channels -> SUBSET Windows]
      BY DEF IInv, TypeOK
    <3>2. ASSUME NEW c \in Channels, claims'[c] # {} PROVE Covered(c)
      <4>1. claims[c] # {}
        BY <2>2, <3>1, <3>2
      <4>2. ~(call[w].ch = c /\ claims[c] \subseteq {w})
        BY <2>2, <3>1, <3>2
      <4> QED
        BY <1>2, <1>7, <4>1, <4>2 DEF Unclaim, Excuses
    <3> QED
      BY <2>2, <3>2 DEF Held, Covered
  <2> QED
    BY <1>7, <2>1, <2>3 DEF Unclaim, Knows, Alone
<1>8. CASE Sweep(w)
  <2> DEFINE cs == {c \in Channels \ Keep(w) : claims[c] = {w}}
  <2>1. /\ \/ call'[w].pc = "idle"
           \/ call'[w].pc = "part" /\ call'[w].todo = cs
        /\ \A v \in Windows \ {w} : call'[v] = call[v]
    BY <1>0, <1>8, PartMoves DEF Sweep
  <2>2. \A c \in Channels :
            claims'[c] = IF c \in Keep(w) THEN claims[c] ELSE claims[c] \ {w}
    BY <1>8 DEF Sweep, Release
  <2>3. call[w].pc = "sweep" /\ UNCHANGED <<desired, suspended, inbound>>
    BY <1>8 DEF Sweep
  <2>4. Held'
    BY <1>2, <2>2, <2>3 DEF Held, Covered, Excuses
  <2>5. \A c \in cs : claims'[c] = {}
    BY <2>2
  <2>6. Knows(w)'
    BY <2>1, <2>5 DEF Knows
  <2> QED
    BY <2>1, <2>3, <2>4, <2>6 DEF Alone
<1>9. CASE Reap(w)
  <2>1. call'[w].pc = "orphans" /\ \A v \in Windows \ {w} : call'[v] = call[v]
    BY <1>0, <1>9 DEF Reap, CallRecords
  <2>2. Held'
    BY <1>2, <1>9 DEF Reap, Held, Covered, Excuses
  <2> QED
    BY <1>9, <2>1, <2>2 DEF Reap, Knows, Alone
<1>10. CASE Orphans(w)
  <2>1. /\ \/ call'[w].pc = "idle"
           \/ call'[w].pc = "part" /\ call'[w].todo = {c \in call[w].todo : claims[c] = {}}
        /\ \A v \in Windows \ {w} : call'[v] = call[v]
    BY <1>0, <1>10, PartMoves DEF Orphans
  <2>2. Held'
    BY <1>2, <1>10 DEF Orphans, Held, Covered, Excuses
  <2> QED
    BY <1>10, <2>1, <2>2 DEF Orphans, Knows, Alone
<1>11. ASSUME NEW c \in Channels, PartWire(w, c)
       PROVE  call[w].pc # "idle" /\ Alone(w) /\ Held' /\ Knows(w)'
  <2>1. /\ call'[w].pc = "drop" /\ call'[w].ch = c /\ call'[w].todo = call[w].todo
        /\ \A v \in Windows \ {w} : call'[v] = call[v]
    BY <1>0, <1>11 DEF PartWire, CallRecords
  <2>2. Held'
    BY <1>2, <1>11 DEF PartWire, Held, Covered, Excuses
  <2>3. Knows(w)'
    BY <1>1, <1>11, <2>1 DEF PartWire, Knows
  <2> QED
    BY <1>11, <2>1, <2>2, <2>3 DEF PartWire, Alone
<1>12. CASE PartDrop(w)
  <2>1. /\ call'[w].pc = "forget" /\ call'[w].ch = call[w].ch /\ call'[w].todo = call[w].todo
        /\ \A v \in Windows \ {w} : call'[v] = call[v]
    BY <1>0, <1>12, GotoMoves DEF PartDrop
  <2>2. claims[call[w].ch] = {}
    BY <1>1, <1>12 DEF PartDrop, Knows
  <2>3. Held'
    BY <1>2, <1>12, <2>2 DEF PartDrop, Held, Covered, Excuses
  <2>4. Knows(w)'
    BY <1>1, <1>12, <2>1 DEF PartDrop, Knows
  <2> QED
    BY <1>12, <2>1, <2>3, <2>4 DEF PartDrop, Alone
<1>13. CASE PartForget(w)
  <2>1. /\ \/ call'[w].pc = "idle"
           \/ call'[w].pc = "part" /\ call'[w].todo = call[w].todo \ {call[w].ch}
        /\ \A v \in Windows \ {w} : call'[v] = call[v]
    BY <1>0, <1>13, PartMoves DEF PartForget
  <2>2. Held'
    BY <1>2, <1>13 DEF PartForget, Held, Covered, Excuses
  <2>3. Knows(w)'
    BY <1>1, <1>13, <2>1 DEF PartForget, Knows
  <2> QED
    BY <1>13, <2>1, <2>2, <2>3 DEF PartForget, Alone
<1>14. ASSUME NEW c \in Channels, NudgeMark(w, c)
       PROVE  call[w].pc # "idle" /\ Alone(w) /\ Held' /\ Knows(w)'
  <2>1. call[w].pc = "nudge" /\ UNCHANGED <<claims, desired, suspended, inbound>>
    BY <1>14 DEF NudgeMark
  <2>2. /\ call'[w].pc \in {"idle", "nudge", "nudged"}
        /\ \A v \in Windows \ {w} : call'[v] = call[v]
    <3>1. CASE Done(w)
      BY <1>0, <3>1, DoneMoves
    <3>2. CASE ~Done(w)
      <4>1. \/ call' = [call EXCEPT ![w].todo = @ \ {c}]
            \/ call' = [call EXCEPT ![w].pc = "nudged", ![w].ch = c]
        BY <1>14, <3>2 DEF NudgeMark
      <4> QED
        BY <1>0, <2>1, <4>1 DEF CallRecords
    <3> QED
      BY <3>1, <3>2
  <2>3. Held'
    BY <1>2, <2>1 DEF Held, Covered, Excuses
  <2> QED
    BY <2>1, <2>2, <2>3 DEF Knows, Alone
<1>15. CASE NudgeWrite(w)
  <2>1. call[w].pc = "nudged" /\ UNCHANGED <<claims, desired, suspended, inbound>>
    BY <1>15 DEF NudgeWrite
  <2>2. /\ call'[w].pc \in {"idle", "nudge"}
        /\ \A v \in Windows \ {w} : call'[v] = call[v]
    <3>1. CASE Done(w)
      BY <1>0, <3>1, DoneMoves
    <3>2. CASE ~Done(w)
      <4>1. \E rest : call' = [call EXCEPT ![w].pc = "nudge", ![w].todo = rest]
        BY <1>15, <3>2 DEF NudgeWrite
      <4> QED
        BY <1>0, <4>1 DEF CallRecords
    <3> QED
      BY <3>1, <3>2
  <2>3. Held'
    BY <1>2, <2>1 DEF Held, Covered, Excuses
  <2> QED
    BY <2>1, <2>2, <2>3 DEF Knows, Alone
<1>16. CASE StopSession(w)
  <2>1. call'[w].pc = "empty" /\ \A v \in Windows \ {w} : call'[v] = call[v]
    BY <1>0, <1>16, GotoMoves DEF StopSession
  <2>2. Held'
    BY <1>2, <1>16 DEF StopSession, Held, Covered, Excuses
  <2> QED
    BY <1>16, <2>1, <2>2 DEF StopSession, Knows, Alone
<1>17. CASE StopDesired(w) \/ StopTracker(w)
  <2>1. /\ call'[w].pc \in {"clear", "disclaim"}
        /\ \A v \in Windows \ {w} : call'[v] = call[v]
    BY <1>0, <1>17, GotoMoves DEF StopDesired, StopTracker
  <2>2. Held'
    BY <2>1 DEF Held, Excuses
  <2> QED
    BY <1>17, <2>1, <2>2 DEF StopDesired, StopTracker, Knows, Alone
<1>18. CASE StopClaims(w)
  <2>1. /\ call'[w].pc \in {"idle", "seed"}
        /\ \A v \in Windows \ {w} : call'[v] = call[v]
    BY <1>0, <1>18, GotoMoves, DoneMoves DEF StopClaims
  <2>2. Held'
    BY <1>18 DEF StopClaims, Held
  <2> QED
    BY <1>18, <2>1, <2>2 DEF StopClaims, Knows, Alone
<1>19. CASE Seed(w)
  <2>1. /\ call'[w].pc = "claim" /\ call'[w].ch = call[w].ch
        /\ \A v \in Windows \ {w} : call'[v] = call[v]
    BY <1>0, <1>19, GotoMoves DEF Seed
  <2>2. Held'
    BY <1>2, <1>19 DEF Seed, Held, Covered, Excuses
  <2> QED
    BY <1>19, <2>1, <2>2 DEF Seed, Knows, Covered, Alone
<1>20. CASE SeedClaims(w)
  <2>1. call'[w].pc = "spawn" /\ \A v \in Windows \ {w} : call'[v] = call[v]
    BY <1>0, <1>20, GotoMoves DEF SeedClaims
  <2>2. Covered(call[w].ch)
    BY <1>1, <1>20 DEF SeedClaims, Knows
  <2>3. Held'
    BY <1>20, <2>2 DEF SeedClaims, Held, Covered
  <2> QED
    BY <1>20, <2>1, <2>3 DEF SeedClaims, Knows, Alone
<1>21. CASE Spawn(w)
  <2>1. call'[w].pc = "idle" /\ \A v \in Windows \ {w} : call'[v] = call[v]
    BY <1>0, <1>21, DoneMoves DEF Spawn
  <2>2. Held'
    BY <1>2, <1>21 DEF Spawn, Held, Covered, Excuses
  <2> QED
    BY <1>21, <2>1, <2>2 DEF Spawn, Knows, Alone
<1> QED
  BY <1>3, <1>4, <1>5, <1>6, <1>7, <1>8, <1>9, <1>10, <1>11, <1>12, <1>13, <1>14, <1>15,
     <1>16, <1>17, <1>18, <1>19, <1>20, <1>21 DEF CallStep

-----------------------------------------------------------------------------
(* Everything else that runs. *)

\* The session, the watchdog and the server do not touch the claims, and take
\* only suspended channels out of `desired`.
Beside ==
    /\ claims' = claims
    /\ suspended \subseteq suspended'
    /\ desired \subseteq desired' \cup suspended
    /\ \A v \in Windows :
            /\ call'[v].pc = call[v].pc /\ call'[v].ch = call[v].ch
            /\ call'[v].fresh = call[v].fresh /\ call'[v].wanted = call[v].wanted
            /\ call'[v].todo = call[v].todo

LEMMA BesideKeeps ==
  ASSUME CallInv, Beside, Refused'
  PROVE  CallInv'
<1>1. \A c : Covered(c) => Covered(c)'
  BY DEF Beside, Covered
<1>2. OneCall'
  BY DEF CallInv, OneCall, Beside
<1>3. \A v \in Windows, c \in Channels : Excuses(v, c) => Excuses(v, c)'
  BY DEF Beside, Excuses
<1>4. Held'
  BY <1>1, <1>3 DEF CallInv, Held, Beside
<1>5. ASSUME NEW v \in Windows PROVE Knows(v)'
  <2>1. Mine(v) => Mine(v)'
    BY DEF Beside, Mine
  <2>2. call[v].ch \in suspended => Mine(v)'
    BY DEF Beside, Mine
  <2>3. Knows(v)
    BY DEF CallInv
  <2>4. call'[v].pc = "want" /\ call'[v].ch \notin desired' => Mine(v)'
    BY <2>1, <2>2, <2>3 DEF Knows, Beside
  <2>5. call'[v].pc \in {"probe", "await", "write", "undo"} /\ call'[v].wanted => Mine(v)'
    BY <2>1, <2>3 DEF Knows, Beside
  <2>6. call'[v].pc = "claim" => Covered(call[v].ch)'
    BY <1>1, <2>3 DEF Knows, Beside
  <2>7. call'[v].pc \in {"part", "drop", "forget"} => \A c \in call'[v].todo : claims'[c] = {}
    BY <2>3 DEF Knows, Beside
  <2>8. call'[v].pc \in {"drop", "forget"} => call'[v].ch \in call'[v].todo
    BY <2>3 DEF Knows, Beside
  <2> QED
    BY <2>4, <2>5, <2>6, <2>7, <2>8 DEF Knows
<1> QED
  BY <1>2, <1>4, <1>5 DEF CallInv

LEMMA OthersBeside ==
  ASSUME IInv, SessionStep \/ WatchStep \/ Environment
  PROVE  Beside /\ Refused'
<1>0. Refused
  BY DEF IInv, CallInv
<1> USE DEF books, session, network
<1>1. CASE Connect
  <2>1. \A v \in Windows :
            /\ call'[v].pc = call[v].pc /\ call'[v].ch = call[v].ch
            /\ call'[v].fresh = call[v].fresh /\ call'[v].wanted = call[v].wanted
            /\ call'[v].todo = call[v].todo
    <3>1. call \in [Windows -> CallRecords]
      BY DEF IInv, TypeOK, CallRecords
    <3> QED
      BY <1>1, <3>1 DEF Connect, CallRecords
  <2> QED
    BY <1>0, <1>1, <2>1 DEF Connect, Beside, Refused
<1>2. CASE ListChannels \/ BurstJoin \/ BurstRecord \/ PacedJoin \/ SessionEnds \/ ClearTracker
  <2>1. UNCHANGED <<claims, desired, call, suspended, inbound>>
    BY <1>2 DEF ListChannels, BurstJoin, BurstRecord, PacedJoin, SessionEnds, ClearTracker
  <2> QED
    BY <1>0, <2>1 DEF Beside, Refused
<1>3. ASSUME NEW c \in Channels, Read(c) PROVE Beside /\ Refused'
  <2>1. /\ UNCHANGED <<claims, call, suspended>>
        /\ \A d \in Channels : inbound'[d] \subseteq inbound[d]
    <3>1. PICK f \in {"frame", "suspended"} : inbound' = [inbound EXCEPT ![c] = @ \ {f}]
      BY <1>3 DEF Read
    <3>2. inbound \in [Channels -> SUBSET {"frame", "suspended"}]
      BY DEF IInv, TypeOK
    <3> QED
      BY <1>3, <3>1, <3>2 DEF Read
  <2>2. desired \subseteq desired' \cup suspended
    BY <1>0, <1>3 DEF Read, Refused
  <2> QED
    BY <1>0, <2>1, <2>2 DEF Beside, Refused
<1>4. CASE WatchStep
  <2>1. ASSUME NEW c \in Channels, WatchJoins(c) \/ WatchGivesUp(c)
        PROVE  UNCHANGED <<claims, desired, call, suspended, inbound>>
    BY <2>1 DEF WatchJoins, WatchGivesUp
  <2>2. WatchLooks \/ WatchRecords => UNCHANGED <<claims, desired, call, suspended, inbound>>
    BY DEF WatchLooks, WatchRecords
  <2>3. /\ UNCHANGED <<claims, desired, call, suspended>>
        /\ \A c \in Channels : inbound'[c] \subseteq inbound[c]
    <3>1. CASE WatchShuts
      BY <3>1 DEF WatchShuts, SocketGone
    <3>2. CASE ~WatchShuts
      <4>1. UNCHANGED <<claims, desired, call, suspended, inbound>>
        BY <1>4, <2>1, <2>2, <3>2 DEF WatchStep
      <4> QED
        BY <4>1
    <3> QED
      BY <3>1, <3>2
  <2> QED
    BY <1>0, <2>3 DEF Beside, Refused
<1>f. inbound \in [Channels -> SUBSET {"frame", "suspended"}]
  BY DEF IInv, TypeOK
<1>5. CASE CoolsDown \/ SocketDies \/ \E c \in Channels : ServerTalks(c) \/ JoinLost(c) \/ Suspend(c)
  <2>1. UNCHANGED <<claims, desired, call>> /\ suspended \subseteq suspended'
    BY <1>5 DEF CoolsDown, SocketDies, SocketGone, ServerTalks, JoinLost, Suspend
  <2>2. ASSUME NEW c \in Channels, ServerTalks(c)
        PROVE  \A d \in Channels : "suspended" \in inbound'[d] => "suspended" \in inbound[d]
    BY <1>f, <2>2 DEF ServerTalks
  <2>3. \A d \in Channels : "suspended" \in inbound'[d] => "suspended" \in inbound[d]
    BY <1>5, <2>2 DEF CoolsDown, SocketDies, SocketGone, JoinLost, Suspend
  <2> QED
    BY <1>0, <2>1, <2>3 DEF Beside, Refused
<1>6. ASSUME NEW c \in Channels, ServerTakes(c) PROVE Beside /\ Refused'
  <2>1. UNCHANGED <<claims, desired, call, suspended>>
    BY <1>6 DEF ServerTakes
  <2>2. \A d \in Channels : "suspended" \in inbound'[d] =>
            "suspended" \in inbound[d] \/ d \in suspended
    <3>1. CASE UNCHANGED inbound
      BY <3>1
    <3>2. CASE inbound' = [inbound EXCEPT ![c] = @ \cup {"frame"}]
      BY <1>f, <3>2
    <3>3. CASE c \in suspended /\ inbound' = [inbound EXCEPT ![c] = @ \cup {"suspended"}]
      BY <1>f, <3>3
    <3> QED
      BY <1>6, <3>1, <3>2, <3>3 DEF ServerTakes
  <2> QED
    BY <1>0, <2>1, <2>2 DEF Beside, Refused
<1> QED
  BY <1>1, <1>2, <1>3, <1>4, <1>5, <1>6 DEF SessionStep, Environment

(* A call that begins is the only one.                                      *)
LEMMA BegunIs ==
  ASSUME call \in [Windows -> CallRecords], NoCall, NEW w \in Windows, NEW r,
         call' = [call EXCEPT ![w] = r]
  PROVE  /\ call'[w] = r /\ \A v \in Windows \ {w} : call'[v] = call[v]
         /\ \A v \in Windows : call'[v].pc \in {"idle", r.pc}
<1>1. call'[w] = r /\ \A v \in Windows \ {w} : call'[v] = call[v]
  OBVIOUS
<1> QED
  BY <1>1 DEF NoCall

(* A call that begins finds no other.                                       *)
LEMMA BeginKeeps ==
  ASSUME IInv, NoCall, NEW w \in Windows, NEW c \in Channels, CallBegins(w, c)
  PROVE  CallInv'
<1>a. TypeOK
  BY DEF IInv
<1>0. call \in [Windows -> CallRecords] /\ claims \in [Channels -> SUBSET Windows]
  BY <1>a DEF TypeOK, CallRecords
<1>1. \A d \in Channels : claims[d] # {} => Covered(d)
  BY DEF IInv, CallInv, Held, NoCall, Excuses
<1>2. /\ UNCHANGED <<desired, suspended, inbound>>
      /\ \A v \in Windows \ {w} : call'[v] = call[v]
  <2> USE DEF books, session, network
  <2>1. CASE Leave(w, c)
    BY <1>0, <2>1 DEF Leave
  <2>2. CASE Close(w, c) \/ Stop(w, c)
    BY <1>0, <2>2 DEF Close, Stop, Begin
  <2>3. CASE Nudge(w, c)
    BY <1>0, <2>3 DEF Nudge
  <2>4. ASSUME NEW op \in Ops, Join(w, op, c)
        PROVE  /\ UNCHANGED <<desired, suspended, inbound>>
               /\ \A v \in Windows \ {w} : call'[v] = call[v]
    BY <1>0, <2>4 DEF Join
  <2>5. ASSUME NEW op \in Ops, EnsureOnly(w, op, c) \/ ColdStart(w, op, c)
        PROVE  /\ UNCHANGED <<desired, suspended, inbound>>
               /\ \A v \in Windows \ {w} : call'[v] = call[v]
    BY <1>0, <2>5 DEF EnsureOnly, ColdStart, Begin
  <2> QED
    BY <2>1, <2>2, <2>3, <2>4, <2>5 DEF CallBegins
<1>3. \A v \in Windows \ {w} : call'[v].pc = "idle"
  BY <1>2 DEF NoCall
<1> SUFFICES Held' /\ Knows(w)'
  <2>1. OneCall'
    BY <1>3 DEF OneCall
  <2>2. Refused'
    BY <1>2 DEF IInv, CallInv, Refused
  <2>3. Held' /\ Knows(w)' => \A v \in Windows : Knows(v)'
    BY <1>3 DEF Knows
  <2> QED
    BY <2>1, <2>2, <2>3 DEF CallInv
<1>4. ASSUME NEW op \in Ops, Join(w, op, c) PROVE Held' /\ Knows(w)'
  <2>1. /\ call'[w].pc = "want" /\ call'[w].ch = c
        /\ call'[w].fresh = (w \notin claims[c])
    BY <1>0, <1>4, IdleTyped DEF Join, CallRecords
  <2>2. claims' = [claims EXCEPT ![c] = @ \cup {w}]
    BY <1>4 DEF Join
  <2>3. Excuses(w, c)'
    BY <2>1 DEF Excuses
  <2>4. Held'
    BY <1>0, <1>1, <1>2, <2>2, <2>3 DEF Held, Covered
  <2>5. c \notin desired' => Mine(w)'
    BY <1>0, <1>1, <1>2, <2>1, <2>2 DEF Mine, Covered
  <2> QED
    BY <2>1, <2>4, <2>5 DEF Knows
<1>5. CASE claims' = claims /\ call'[w].pc \in {"sweep", "stop", "nudge", "idle"}
  BY <1>1, <1>2, <1>5 DEF Held, Covered, Knows
<1>6. ASSUME NEW op, Begin(w, op, c, "want"), claims' = claims PROVE Held' /\ Knows(w)'
  <2>1. call'[w].pc = "want" /\ call'[w].ch = c /\ ~call'[w].wanted
    BY <1>0, <1>6, IdleTyped DEF Begin, CallRecords, Idle
  <2>2. c \notin desired' => Mine(w)'
    BY <1>1, <1>2, <1>6, <2>1 DEF Mine, Covered
  <2> QED
    BY <1>1, <1>2, <1>6, <2>1, <2>2 DEF Held, Covered, Knows
<1>7. CASE Leave(w, c)
  <2>1. claims' = [claims EXCEPT ![c] = claims[c] \ {w}]
    BY <1>7 DEF Leave, Release
  <2>2. Held'
    BY <1>0, <1>1, <1>2, <2>1 DEF Held, Covered
  <2>3. CASE claims[c] \ {w} # {}
    <3>1. call'[w].pc = "idle"
      BY <1>7, <2>3 DEF Leave, Release
    <3> QED
      BY <2>2, <3>1 DEF Knows
  <2>4. CASE claims[c] \ {w} = {}
    <3>1. call'[w].pc = "part" /\ call'[w].todo = {c}
      BY <1>0, <1>7, <2>4, IdleTyped DEF Leave, Release, CallRecords
    <3> QED
      BY <1>0, <2>1, <2>2, <2>4, <3>1 DEF Knows
  <2> QED
    BY <2>3, <2>4
<1>8. ASSUME NEW op, NEW pc \in {"sweep", "stop"}, Begin(w, op, c, pc)
      PROVE  call'[w].pc = pc
  BY <1>0, <1>8, IdleTyped DEF Begin, CallRecords
<1>9. CASE Close(w, c) \/ Stop(w, c) \/ \E op \in Ops : ColdStart(w, op, c)
  BY <1>5, <1>8, <1>9 DEF Close, Stop, ColdStart, books
<1>10. CASE Nudge(w, c)
  <2>1. call'[w].pc = "nudge" /\ claims' = claims
    BY <1>0, <1>10, IdleTyped DEF Nudge, CallRecords, books
  <2> QED
    BY <1>5, <2>1
<1>11. CASE \E op \in Ops : EnsureOnly(w, op, c)
  BY <1>6, <1>11 DEF EnsureOnly, books
<1> QED
  BY <1>4, <1>7, <1>9, <1>10, <1>11 DEF CallBegins

-----------------------------------------------------------------------------
(* The theorems. *)

LEMMA InitInv == Init => IInv
<1>1. Init => CallInv
  BY DEF Init, CallInv, OneCall, Refused, Held, Knows, Idle
<1> QED
  BY <1>1, InitTyped DEF IInv

LEMMA NextInv == IInv /\ [PatientNext]_vars => IInv'
<1>1. ASSUME IInv, Work PROVE IInv'
  <2>1. CASE \E w \in Windows : CallStep(w)
    BY <1>1, <2>1, CallKeeps, CallsTyped DEF IInv
  <2>2. CASE SessionStep \/ WatchStep \/ Environment
    <3>1. CallInv'
      BY <1>1, <2>2, OthersBeside, BesideKeeps DEF IInv
    <3>2. TypeOK'
      BY <1>1, <2>2, SessionTyped, WatchTyped, EnvironmentTyped DEF IInv
    <3> QED
      BY <3>1, <3>2 DEF IInv
  <2> QED
    BY <1>1, <2>1, <2>2 DEF Work
<1>2. ASSUME IInv, NoCall, NEW w \in Windows, NEW c \in Channels, CallBegins(w, c)
      PROVE  IInv'
  BY <1>2, BeginKeeps, BeginsTyped DEF IInv
<1>3. ASSUME IInv, UNCHANGED vars PROVE IInv'
  <2>1. TypeOK'
    BY <1>3, NextTyped DEF IInv
  <2>2. Beside /\ Refused'
    BY <1>3 DEF Beside, IInv, CallInv, Refused, vars, books, network
  <2> QED
    BY <1>3, <2>1, <2>2, BesideKeeps DEF IInv
<1> QED
  BY <1>1, <1>2, <1>3 DEF PatientNext

LEMMA InvHolds == PatientSpec => []IInv
<1> QED
  BY InitInv, NextInv, PTL DEF PatientSpec

(* While the windows take turns, a channel a window holds is one the        *)
(* connection wants to be in, whatever fails on the way: a JOIN that could  *)
(* not be written takes its claim back with its entry (ensure_joined,       *)
(* join_channel).                                                           *)
THEOREM ClaimsAreDesired == PatientSpec => []ClaimedDesired
<1>1. IInv => ClaimedDesired
  BY DEF IInv, CallInv, Held, Covered, Excuses, NoCall, ClaimedDesired
<1> QED
  BY <1>1, InvHolds, PTL

-----------------------------------------------------------------------------
(* What the tracker believes.                                               *)
(*                                                                          *)
(* BelievedIsJoined speaks of the moments without a call, too.  The         *)
(* invariant follows a channel that is desired, or about to be: nothing but *)
(* JOINs is on the wire for it and a frame of it means the server has the   *)
(* connection there, until a call begins to part it.                        *)

Parts(w, c) == call[w].pc = "drop" /\ call[w].ch = c
Wants(w, c) == call[w].pc = "want" /\ call[w].ch = c
\* A JOIN that is about to be recorded: written, or going to be on this link.
Asks(w, c) ==
    /\ call[w].ch = c
    /\ call[w].pc \in {"await", "write", "record"}
    /\ call[w].pc = "write" => call[w].via

Parting(c) == \E w \in Windows : Parts(w, c)
Wanting(c) == \E w \in Windows : Wants(w, c)
Asking(c) == \E w \in Windows : Asks(w, c)

Wanted(c) == (c \in desired /\ ~Parting(c)) \/ Wanting(c)
AllJoins(s) == \A i \in 1..Len(s) : s[i] = "JOIN"
Clean(c) ==
    \/ c \in suspended
    \/ AllJoins(wire[c]) /\ ("frame" \in inbound[c] => c \in inRoom)

Trusted(c) ==
    /\ link /\ c \in desired /\ c \in confirmed /\ pending[c] = 0
    /\ ~Parting(c) /\ ~Asking(c)
Explained(c) == c \in inRoom \/ c \in suspended \/ c \in deferred
Sound(c) == (Wanted(c) => Clean(c)) /\ (Trusted(c) => Explained(c))

\* A link that is up belongs to a session; one that is down carries nothing.
Linked ==
    /\ link => writer /\ stage \notin {"off", "closing"}
    /\ ~link => inRoom = {} /\ \A c \in Channels : wire[c] = <<>> /\ inbound[c] = {}

\* A stop leaves no supervisor until the call ends, and no session begins with
\* channels already confirmed.
Stopping == {"empty", "clear", "disclaim", "seed", "claim", "spawn"}
Stopped ==
    /\ \A w \in Windows : call[w].pc \in Stopping => ~supervisor /\ stage = "off"
    /\ stage = "off" /\ (\A w \in Windows : call[w].pc \notin {"empty", "clear"})
         => confirmed = {}

JoinInv == Linked /\ Stopped /\ \A c \in Channels : Sound(c)
JInv == IInv /\ JoinInv

LEMMA AllJoinsKept ==
  ASSUME NEW s \in Seq({"JOIN", "PART"}), AllJoins(s)
  PROVE  /\ AllJoins(Append(s, "JOIN"))
         /\ s # <<>> => AllJoins(Tail(s)) /\ Head(s) = "JOIN"
<1>1. AllJoins(Append(s, "JOIN"))
  <2>1. Len(Append(s, "JOIN")) = Len(s) + 1 /\ Len(s) \in Nat
    OBVIOUS
  <2>2. ASSUME NEW i \in 1..(Len(s) + 1) PROVE Append(s, "JOIN")[i] = "JOIN"
    <3>1. CASE i = Len(s) + 1
      BY <2>1, <3>1
    <3>2. CASE i # Len(s) + 1
      <4>1. i \in 1..Len(s)
        BY <2>1, <3>2
      <4>2. Append(s, "JOIN")[i] = s[i]
        BY <4>1
      <4> QED
        BY <4>1, <4>2 DEF AllJoins
    <3> QED
      BY <3>1, <3>2
  <2> QED
    BY <2>1, <2>2 DEF AllJoins
<1>2. ASSUME s # <<>> PROVE AllJoins(Tail(s)) /\ Head(s) = "JOIN"
  <2>1. Len(Tail(s)) = Len(s) - 1 /\ Len(s) \in Nat \ {0} /\ Head(s) = s[1]
    BY <1>2
  <2>2. \A i \in 1..(Len(s) - 1) : Tail(s)[i] = s[i + 1]
    BY <1>2
  <2>3. \A i \in 1..(Len(s) - 1) : i + 1 \in 1..Len(s)
    BY <2>1
  <2>4. AllJoins(Tail(s))
    BY <2>1, <2>2, <2>3 DEF AllJoins
  <2>5. 1 \in 1..Len(s)
    BY <2>1
  <2> QED
    BY <2>1, <2>4, <2>5 DEF AllJoins
<1> QED
  BY <1>1, <1>2

\* A line that is written to the socket is not a PART.
LEMMA JoinsKeepClean ==
  ASSUME TypeOK, NEW cs, Send(cs, "JOIN") \/ wire' = wire,
         inbound' = inbound, inRoom' = inRoom, suspended' = suspended,
         NEW c \in Channels, Clean(c)
  PROVE  Clean(c)'
<1>1. wire[c] \in Seq({"JOIN", "PART"})
  BY DEF TypeOK
<1>2. wire'[c] = wire[c] \/ wire'[c] = Append(wire[c], "JOIN")
  BY DEF Send
<1>3. AllJoins(wire[c]) => AllJoins(wire'[c])
  BY <1>1, <1>2, AllJoinsKept
<1> QED
  BY <1>3 DEF Clean

\* What is sent on a dead link goes nowhere.
LEMMA SendLinked ==
  ASSUME Linked, NEW cs, NEW line, Send(cs, line), link' = link,
         writer' = writer, stage' = stage, inbound' = inbound, inRoom' = inRoom
  PROVE  Linked'
BY DEF Linked, Send

LEMMA DeadIsClean ==
  ASSUME ~link, Linked, NEW c \in Channels
  PROVE  Clean(c)
<1>1. wire[c] = <<>> /\ inbound[c] = {}
  BY DEF Linked
<1>2. AllJoins(<<>>)
  BY DEF AllJoins
<1> QED
  BY <1>1, <1>2 DEF Clean

(* The call under way is the only one that parts, wants or asks.            *)
LEMMA OnlyCall ==
  ASSUME OneCall, NEW w \in Windows, call[w].pc # "idle"
  PROVE  \A c : /\ Parting(c) = Parts(w, c) /\ Wanting(c) = Wants(w, c)
                /\ Asking(c) = Asks(w, c)
<1>1. \A v \in Windows : v # w => call[v].pc = "idle"
  BY DEF OneCall
<1> QED
  BY <1>1 DEF Parting, Wanting, Asking, Parts, Wants, Asks

LEMMA OnlyCallNext ==
  ASSUME OneCall, NEW w \in Windows, call[w].pc # "idle",
         \A v \in Windows \ {w} : call'[v] = call[v]
  PROVE  \A c : /\ Parting(c)' = Parts(w, c)' /\ Wanting(c)' = Wants(w, c)'
                /\ Asking(c)' = Asks(w, c)'
<1>1. \A v \in Windows : v # w => call'[v].pc = "idle"
  BY DEF OneCall
<1> QED
  BY <1>1 DEF Parting, Wanting, Asking, Parts, Wants, Asks

-----------------------------------------------------------------------------
(* The steps of a call, again. *)

\* A step that changes nothing but the call, the claims and, in that it takes
\* channels out, `desired`, and that asks for nothing it did not ask for.
LEMMA ModestStep ==
  ASSUME JoinInv, NEW c \in Channels,
         UNCHANGED <<pending, confirmed, deferred, link, wire, inbound, inRoom, suspended>>,
         desired' \subseteq desired,
         c \in desired' /\ Parting(c) => Parting(c)',
         ~Wanting(c)',
         link /\ Asking(c) => Asking(c)'
  PROVE  Sound(c)'
<1>1. Sound(c)
  BY DEF JoinInv
<1>2. Wanted(c)' => Wanted(c)
  BY DEF Wanted
<1>3. Clean(c)' = Clean(c) /\ Explained(c)' = Explained(c)
  BY DEF Clean, Explained
<1>4. Trusted(c)' => Trusted(c)
  BY DEF Trusted
<1> QED
  BY <1>1, <1>2, <1>3, <1>4 DEF Sound

\* The stop goes on and nothing else does, or the call does not stop.
LEMMA StoppedKept ==
  ASSUME JoinInv, NEW w \in Windows, \A v \in Windows \ {w} : call'[v] = call[v],
         UNCHANGED <<supervisor, stage>>, confirmed' \subseteq confirmed,
         call'[w].pc \in Stopping => call[w].pc \in Stopping,
         call[w].pc = "empty" => call'[w].pc = "clear",
         call[w].pc = "clear" => confirmed' = {}
  PROVE  Stopped'
<1>1. ASSUME NEW v \in Windows, call'[v].pc \in Stopping
      PROVE  ~supervisor' /\ stage' = "off"
  BY <1>1 DEF JoinInv, Stopped
<1>2. ASSUME stage' = "off", \A v \in Windows : call'[v].pc \notin {"empty", "clear"}
      PROVE  confirmed' = {}
  <2>1. \A v \in Windows \ {w} : call[v].pc \notin {"empty", "clear"}
    BY <1>2
  <2>2. call[w].pc # "empty"
    BY <1>2
  <2>3. call[w].pc # "clear" => confirmed = {}
    BY <1>2, <2>1, <2>2 DEF JoinInv, Stopped
  <2> QED
    BY <2>3
<1> QED
  BY <1>1, <1>2 DEF Stopped

(* ensure_joined: what was neither confirmed nor asked for is asked for.    *)
LEMMA EnsureSound ==
  ASSUME JInv, NEW w \in Windows,
         \/ Want(w) \/ Probe(w) \/ GetWriter(w) \/ NoWriter(w) \/ WriteJoin(w)
         \/ WriteFails(w) \/ Record(w) \/ Undo(w)
  PROVE  JoinInv'
<1> USE DEF books, session, network
<1>0. /\ call \in [Windows -> CallRecords] /\ call[w] \in CallRecords
      /\ TypeOK /\ OneCall /\ JoinInv /\ Linked
  BY DEF JInv, JoinInv, IInv, CallInv, TypeOK, CallRecords
<1>1. /\ call[w].pc \in {"want", "probe", "await", "write", "record", "undo"}
      /\ UNCHANGED <<supervisor, stage, writer, link, inbound, inRoom, suspended, confirmed>>
  BY DEF Want, Probe, GetWriter, NoWriter, WriteJoin, WriteFails, Record, Undo
<1>2. /\ call'[w].pc \in {"probe", "await", "write", "record", "undo", "unclaim",
                          "sweep", "reap", "idle"}
      /\ \A v \in Windows \ {w} : call'[v] = call[v]
  <2>1. CASE Want(w)
    BY <1>0, <2>1 DEF Want, CallRecords
  <2>2. CASE Probe(w)
    <3>1. CASE AfterJoin(w)
      BY <1>0, <3>1, AfterJoinMoves
    <3>2. CASE ~AfterJoin(w)
      <4>1. call' = [call EXCEPT ![w].pc = "await", ![w].alive = supervisor]
        BY <2>2, <3>2 DEF Probe
      <4> QED
        BY <1>0, <4>1 DEF CallRecords
    <3> QED
      BY <3>1, <3>2
  <2>3. CASE GetWriter(w)
    BY <1>0, <2>3 DEF GetWriter, CallRecords
  <2>4. CASE NoWriter(w) \/ WriteJoin(w) \/ WriteFails(w) \/ Record(w) \/ Undo(w)
    BY <1>0, <2>4, AfterJoinMoves, GotoMoves DEF NoWriter, WriteJoin, WriteFails, Record, Undo
  <2> QED
    BY <2>1, <2>2, <2>3, <2>4
<1>3. \A c : /\ Parting(c) = Parts(w, c) /\ Wanting(c) = Wants(w, c) /\ Asking(c) = Asks(w, c)
             /\ Parting(c)' = Parts(w, c)' /\ Wanting(c)' = Wants(w, c)'
             /\ Asking(c)' = Asks(w, c)'
  BY <1>0, <1>1, <1>2, OnlyCall, OnlyCallNext
<1>4. \A c : ~Parting(c) /\ ~Parting(c)' /\ ~Wanting(c)'
  BY <1>1, <1>2, <1>3 DEF Parts, Wants
<1>5. Stopped'
  BY <1>0, <1>1, <1>2, StoppedKept DEF Stopping
<1>6. Linked'
  <2>1. CASE WriteJoin(w)
    BY <1>0, <1>1, <2>1, SendLinked DEF WriteJoin
  <2>2. CASE UNCHANGED wire
    BY <1>0, <1>1, <2>2 DEF Linked
  <2> QED
    BY <2>1, <2>2 DEF Want, Probe, GetWriter, NoWriter, WriteFails, Record, Undo
<1>7. ASSUME NEW c \in Channels PROVE Sound(c)'
  <2>0. Sound(c)
    BY <1>0 DEF JoinInv
  <2>1. CASE Want(w)
    <3>1. UNCHANGED <<pending, deferred, wire>> /\ desired' = desired \cup {call[w].ch}
      BY <2>1 DEF Want
    <3>2. /\ call[w].pc = "want" /\ call'[w].ch = call[w].ch
          /\ call[w].ch \notin desired => call'[w].pc = "await"
      BY <1>0, <2>1 DEF Want, CallRecords
    <3>3. Wanted(c)' => Wanted(c)
      BY <1>3, <1>4, <3>1, <3>2 DEF Wanted, Wants
    <3>4. Clean(c)' = Clean(c) /\ Explained(c)' = Explained(c)
      BY <1>1, <3>1 DEF Clean, Explained
    <3>5. Trusted(c)' => Trusted(c)
      <4>1. CASE c \in desired
        <5>1. ~Asking(c)
          BY <1>3, <3>2 DEF Asks
        <5> QED
          BY <1>1, <1>4, <3>1, <4>1, <5>1 DEF Trusted
      <4>2. CASE c \notin desired
        <5>1. Trusted(c)' => c = call[w].ch
          BY <3>1, <4>2 DEF Trusted
        <5>2. c = call[w].ch => Asking(c)'
          BY <1>3, <3>2, <4>2 DEF Asks
        <5> QED
          BY <5>1, <5>2 DEF Trusted
      <4> QED
        BY <4>1, <4>2
    <3> QED
      BY <2>0, <3>3, <3>4, <3>5 DEF Sound
  <2>2. CASE Probe(w) \/ GetWriter(w) \/ NoWriter(w) \/ WriteFails(w) \/ Undo(w)
    <3>1. UNCHANGED <<pending, deferred, wire>> /\ desired' \subseteq desired
      BY <2>2 DEF Probe, GetWriter, NoWriter, WriteFails, Undo
    <3>2. link /\ Asking(c) => Asking(c)'
      <4>1. CASE Probe(w) \/ Undo(w)
        BY <1>3, <4>1 DEF Probe, Undo, Asks
      <4>2. CASE GetWriter(w)
        <5>1. call'[w].pc = "write" /\ call'[w].via /\ call'[w].ch = call[w].ch
          BY <1>0, <4>2 DEF GetWriter, CallRecords
        <5> QED
          BY <1>3, <5>1 DEF Asks
      <4>3. CASE NoWriter(w)
        BY <1>0, <4>3 DEF NoWriter, Linked
      <4>4. CASE WriteFails(w)
        BY <1>3, <4>4 DEF WriteFails, Asks
      <4> QED
        BY <2>2, <4>1, <4>2, <4>3, <4>4
    <3> QED
      BY <1>0, <1>1, <1>4, <3>1, <3>2, ModestStep
  <2>3. CASE WriteJoin(w)
    <3>1. call[w].pc = "write" /\ call'[w].pc = "record" /\ call'[w].ch = call[w].ch
      BY <1>0, <2>3, GotoMoves DEF WriteJoin
    <3>2. UNCHANGED <<pending, deferred, desired>>
      BY <2>3 DEF WriteJoin
    <3>3. Clean(c) => Clean(c)'
      BY <1>0, <1>1, <2>3, JoinsKeepClean DEF WriteJoin
    <3>4. Wanted(c)' => Wanted(c)
      BY <1>4, <3>2 DEF Wanted
    <3>5. Trusted(c)' => Trusted(c)
      BY <1>1, <1>3, <1>4, <3>1, <3>2 DEF Trusted, Asks
    <3> QED
      BY <1>1, <2>0, <3>2, <3>3, <3>4, <3>5 DEF Sound, Explained
  <2>4. CASE Record(w)
    <3>1. /\ call[w].pc = "record" /\ UNCHANGED <<desired, wire>>
          /\ RecordSent({call[w].ch}, FALSE)
      BY <2>4 DEF Record
    <3>2. Wanted(c)' => Wanted(c)
      BY <1>4, <3>1 DEF Wanted
    <3>3. Clean(c)' = Clean(c)
      BY <1>1, <3>1 DEF Clean
    <3>4. CASE c = call[w].ch
      <4>1. pending'[c] # 0
        BY <1>0, <3>1, <3>4, IrcConstants DEF RecordSent, Attempts, TypeOK
      <4> QED
        BY <2>0, <3>2, <3>3, <4>1 DEF Sound, Trusted
    <3>5. CASE c # call[w].ch
      <4>1. pending'[c] = pending[c] /\ (c \in deferred' <=> c \in deferred)
        BY <3>1, <3>5 DEF RecordSent
      <4>2. Trusted(c)' => Trusted(c)
        BY <1>1, <1>3, <1>4, <3>1, <3>5, <4>1 DEF Trusted, Asks
      <4> QED
        BY <1>1, <2>0, <3>2, <3>3, <4>1, <4>2 DEF Sound, Explained
    <3> QED
      BY <3>4, <3>5
  <2> QED
    BY <2>1, <2>2, <2>3, <2>4
<1> QED
  BY <1>5, <1>6, <1>7 DEF JoinInv

(* Steps that look at the claims or change them.                            *)
LEMMA ClaimsSound ==
  ASSUME JInv, NEW w \in Windows,
         Unclaim(w) \/ Sweep(w) \/ Reap(w) \/ Orphans(w) \/ StopClaims(w) \/ SeedClaims(w)
  PROVE  JoinInv'
<1> USE DEF books, session, network
<1>0. call \in [Windows -> CallRecords] /\ OneCall /\ JoinInv
  BY DEF JInv, IInv, CallInv, TypeOK, CallRecords
<1>1. /\ call[w].pc \in {"unclaim", "sweep", "reap", "orphans", "disclaim", "claim"}
      /\ UNCHANGED <<pending, confirmed, deferred, desired>>
      /\ UNCHANGED <<supervisor, stage, writer, link, wire, inbound, inRoom, suspended>>
  BY DEF Unclaim, Sweep, Reap, Orphans, StopClaims, SeedClaims
<1>2. /\ call'[w].pc \in {"sweep", "reap", "idle", "orphans", "part", "seed", "spawn"}
      /\ call'[w].pc \in Stopping => call[w].pc \in Stopping
      /\ \A v \in Windows \ {w} : call'[v] = call[v]
  <2>1. CASE Unclaim(w)
    BY <1>0, <2>1, AfterJoinMoves DEF Unclaim, Stopping
  <2>2. CASE Sweep(w) \/ Orphans(w)
    BY <1>0, <2>2, PartMoves DEF Sweep, Orphans, Stopping
  <2>3. CASE Reap(w)
    BY <1>0, <2>3 DEF Reap, CallRecords, Stopping
  <2>4. CASE StopClaims(w) \/ SeedClaims(w)
    BY <1>0, <2>4, GotoMoves, DoneMoves DEF StopClaims, SeedClaims, Stopping
  <2> QED
    BY <2>1, <2>2, <2>3, <2>4
<1>3. \A c : ~Parting(c) /\ ~Wanting(c)' /\ ~Asking(c)
  BY <1>0, <1>1, <1>2, OnlyCall, OnlyCallNext DEF Parts, Wants, Asks
<1>4. Stopped'
  BY <1>0, <1>1, <1>2, StoppedKept
<1>5. Linked'
  BY <1>0, <1>1 DEF JoinInv, Linked
<1>6. ASSUME NEW c \in Channels PROVE Sound(c)'
  BY <1>0, <1>1, <1>3, ModestStep
<1> QED
  BY <1>4, <1>5, <1>6 DEF JoinInv

LEMMA PartWireMoves ==
  ASSUME call \in [Windows -> CallRecords], NEW w \in Windows, NEW d \in Channels,
         PartWire(w, d)
  PROVE  /\ call[w].pc = "part" /\ call'[w].pc = "drop" /\ call'[w].ch = d
         /\ \A v \in Windows \ {w} : call'[v] = call[v]
BY DEF PartWire, CallRecords

(* part_channel: what is parted is not desired when the next call begins.   *)
LEMMA PartSound ==
  ASSUME JInv, NEW w \in Windows,
         PartDrop(w) \/ PartForget(w) \/ \E c \in Channels : PartWire(w, c)
  PROVE  JoinInv'
<1> USE DEF books, session, network
<1>0. call \in [Windows -> CallRecords] /\ OneCall /\ JoinInv /\ Linked
  BY DEF JInv, JoinInv, IInv, CallInv, TypeOK, CallRecords
<1>1. /\ call[w].pc \in {"part", "drop", "forget"}
      /\ UNCHANGED <<supervisor, stage, writer, link, inbound, inRoom, suspended>>
      /\ confirmed' \subseteq confirmed /\ desired' \subseteq desired
  BY DEF PartDrop, PartForget, PartWire, Forget
<1>2. /\ call'[w].pc \in {"part", "drop", "forget", "idle"}
      /\ \A v \in Windows \ {w} : call'[v] = call[v]
  <2>1. CASE PartDrop(w)
    BY <1>0, <2>1, GotoMoves DEF PartDrop
  <2>2. CASE PartForget(w)
    BY <1>0, <2>2, PartMoves DEF PartForget
  <2>3. ASSUME NEW d \in Channels, PartWire(w, d)
        PROVE  call'[w].pc = "drop" /\ \A v \in Windows \ {w} : call'[v] = call[v]
    BY <1>0, <2>3, PartWireMoves
  <2> QED
    BY <2>1, <2>2, <2>3
<1>3. \A c : /\ Parting(c) = Parts(w, c) /\ Parting(c)' = Parts(w, c)'
             /\ ~Wanting(c)' /\ ~Asking(c)
  BY <1>0, <1>1, <1>2, OnlyCall, OnlyCallNext DEF Wants, Asks
<1>4. Stopped'
  BY <1>0, <1>1, <1>2, StoppedKept DEF Stopping
<1>5. Linked'
  <2>1. CASE \E c \in Channels : Send({c}, "PART") /\ UNCHANGED <<link, writer, stage, inbound, inRoom>>
    BY <1>0, <2>1, SendLinked
  <2>2. CASE UNCHANGED wire
    BY <1>0, <1>1, <2>2 DEF Linked
  <2> QED
    BY <1>1, <2>1, <2>2 DEF PartDrop, PartForget, PartWire
<1>6. ASSUME NEW c \in Channels PROVE Sound(c)'
  <2>0. Sound(c)
    BY <1>0 DEF JoinInv
  <2>1. ASSUME NEW d \in Channels, PartWire(w, d) PROVE Sound(c)'
    <3>1. /\ UNCHANGED <<pending, confirmed, deferred, desired>>
          /\ Send({d}, "PART") \/ wire' = wire
          /\ call[w].pc = "part" /\ call'[w].pc = "drop" /\ call'[w].ch = d
      <4>1. UNCHANGED <<pending, confirmed, deferred, desired>> /\ (Send({d}, "PART") \/ wire' = wire)
        BY <2>1 DEF PartWire
      <4> QED
        BY <1>0, <2>1, <4>1, PartWireMoves
    <3>2. CASE c = d
      <4>1. Parting(c)'
        BY <1>3, <3>1, <3>2 DEF Parts
      <4> QED
        BY <1>3, <4>1 DEF Sound, Wanted, Trusted
    <3>3. CASE c # d
      <4>1. wire'[c] = wire[c]
        BY <3>1, <3>3 DEF Send
      <4>2. ~Parting(c)
        BY <1>3, <3>1 DEF Parts
      <4>3. (Wanted(c)' => Wanted(c)) /\ (Trusted(c)' => Trusted(c))
        BY <1>1, <1>3, <3>1, <4>2 DEF Wanted, Trusted
      <4>4. Clean(c)' = Clean(c) /\ Explained(c)' = Explained(c)
        BY <1>1, <3>1, <4>1 DEF Clean, Explained
      <4> QED
        BY <2>0, <4>3, <4>4 DEF Sound
    <3> QED
      BY <3>2, <3>3
  <2>2. CASE PartDrop(w)
    <3>1. UNCHANGED <<pending, confirmed, deferred, wire>> /\ desired' = desired \ {call[w].ch}
      BY <2>2 DEF PartDrop
    <3>2. c \in desired' => ~Parting(c)
      BY <1>3, <3>1 DEF Parts
    <3> QED
      BY <1>0, <1>1, <1>3, <3>1, <3>2, ModestStep
  <2>3. CASE PartForget(w)
    <3>1. /\ UNCHANGED <<desired, wire>> /\ Forget({call[w].ch}) /\ ~Parting(c)
      BY <1>3, <2>3 DEF PartForget, Parts
    <3>2. (Wanted(c)' => Wanted(c)) /\ Clean(c)' = Clean(c)
      BY <1>1, <1>3, <3>1 DEF Wanted, Clean
    <3>3. Trusted(c)' => c # call[w].ch
      BY <3>1 DEF Trusted, Forget
    <3>4. c # call[w].ch => (Trusted(c)' => Trusted(c)) /\ Explained(c)' = Explained(c)
      BY <1>1, <1>3, <3>1 DEF Trusted, Explained, Forget
    <3> QED
      BY <2>0, <3>2, <3>3, <3>4 DEF Sound
  <2> QED
    BY <2>1, <2>2, <2>3
<1> QED
  BY <1>4, <1>5, <1>6 DEF JoinInv

(* nudge_channels: what is asked again is no longer taken for confirmed.    *)
LEMMA NudgeSound ==
  ASSUME JInv, NEW w \in Windows,
         NudgeWrite(w) \/ \E c \in Channels : NudgeMark(w, c)
  PROVE  JoinInv'
<1> USE DEF books, session, network
<1>0. /\ call \in [Windows -> CallRecords] /\ TypeOK /\ OneCall /\ JoinInv /\ Linked
  BY DEF JInv, JoinInv, IInv, CallInv, TypeOK, CallRecords
<1>1. /\ call[w].pc \in {"nudge", "nudged"}
      /\ UNCHANGED <<supervisor, stage, writer, link, inbound, inRoom, suspended, desired>>
      /\ confirmed' \subseteq confirmed
  BY DEF NudgeWrite, NudgeMark
<1>2. /\ call'[w].pc \in {"nudge", "nudged", "idle"}
      /\ \A v \in Windows \ {w} : call'[v] = call[v]
  <2>1. CASE Done(w)
    BY <1>0, <2>1, DoneMoves
  <2>2. CASE ~Done(w)
    <3>1. \/ \E rest : call' = [call EXCEPT ![w].pc = "nudge", ![w].todo = rest]
          \/ \E c : call' = [call EXCEPT ![w].todo = @ \ {c}]
          \/ \E c : call' = [call EXCEPT ![w].pc = "nudged", ![w].ch = c]
      BY <2>2 DEF NudgeWrite, NudgeMark
    <3> QED
      BY <1>0, <1>1, <3>1 DEF CallRecords
  <2> QED
    BY <2>1, <2>2
<1>3. \A c : ~Parting(c) /\ ~Wanting(c)' /\ ~Asking(c) /\ ~Asking(c)' /\ ~Parting(c)'
  BY <1>0, <1>1, <1>2, OnlyCall, OnlyCallNext DEF Parts, Wants, Asks
<1>4. Stopped'
  BY <1>0, <1>1, <1>2, StoppedKept DEF Stopping
<1>5. Linked'
  <2>1. CASE \E cs : Send(cs, "JOIN") /\ UNCHANGED <<link, writer, stage, inbound, inRoom>>
    BY <1>0, <2>1, SendLinked
  <2>2. CASE UNCHANGED wire
    BY <1>0, <1>1, <2>2 DEF Linked
  <2> QED
    BY <1>1, <2>1, <2>2 DEF NudgeWrite, NudgeMark
<1>6. ASSUME NEW c \in Channels PROVE Sound(c)'
  <2>0. Sound(c) /\ (Wanted(c)' => Wanted(c))
    BY <1>0, <1>1, <1>3 DEF JoinInv, Wanted
  <2>1. CASE NudgeWrite(w)
    <3>1. UNCHANGED <<pending, confirmed, deferred>>
      BY <2>1 DEF NudgeWrite
    <3>2. Clean(c) => Clean(c)'
      BY <1>0, <1>1, <2>1, JoinsKeepClean DEF NudgeWrite
    <3>3. (Trusted(c)' => Trusted(c)) /\ Explained(c)' = Explained(c)
      BY <1>1, <1>3, <3>1 DEF Trusted, Explained
    <3> QED
      BY <2>0, <3>2, <3>3 DEF Sound
  <2>2. ASSUME NEW d \in Channels, NudgeMark(w, d) PROVE Sound(c)'
    <3>1. Clean(c)' = Clean(c)
      BY <1>1, <2>2 DEF Clean, NudgeMark
    <3>2. CASE UNCHANGED books
      <4>1. (Trusted(c)' => Trusted(c)) /\ Explained(c)' = Explained(c)
        BY <1>1, <1>3, <3>2 DEF Trusted, Explained
      <4> QED
        BY <2>0, <3>1, <4>1 DEF Sound
    <3>3. CASE confirmed' = confirmed \ {d} /\ RecordSent({d}, TRUE)
      <4>1. Trusted(c)' => c # d
        BY <3>3 DEF Trusted
      <4>2. c # d => (Trusted(c)' => Trusted(c)) /\ Explained(c)' = Explained(c)
        BY <1>1, <1>3, <3>3 DEF Trusted, Explained, RecordSent
      <4> QED
        BY <2>0, <3>1, <4>1, <4>2 DEF Sound
    <3> QED
      BY <2>2, <3>2, <3>3 DEF NudgeMark
  <2> QED
    BY <2>1, <2>2
<1> QED
  BY <1>4, <1>5, <1>6 DEF JoinInv

(* stop() and a cold start: the link is down before the books are cleared.  *)
LEMMA StopSound ==
  ASSUME JInv, NEW w \in Windows,
         StopSession(w) \/ StopDesired(w) \/ StopTracker(w) \/ Seed(w) \/ Spawn(w)
  PROVE  JoinInv'
<1> USE DEF books, session, network
<1>0. call \in [Windows -> CallRecords] /\ OneCall /\ JoinInv /\ Linked /\ TypeOK
  BY DEF JInv, JoinInv, IInv, CallInv, TypeOK, CallRecords
<1>1. /\ call[w].pc \in {"stop", "empty", "clear", "seed", "spawn"}
      /\ call[w].pc # "stop" => ~link /\ UNCHANGED <<link, wire, inbound, inRoom>>
  <2>1. call[w].pc \in Stopping => ~link
    BY <1>0 DEF JoinInv, Stopped, Linked
  <2> QED
    BY <2>1 DEF StopSession, StopDesired, StopTracker, Seed, Spawn, Stopping
<1>2. /\ \A v \in Windows \ {w} : call'[v] = call[v]
      /\ StopSession(w) => call'[w].pc = "empty"
      /\ StopDesired(w) => call'[w].pc = "clear"
      /\ StopTracker(w) => call'[w].pc = "disclaim"
      /\ Seed(w) => call'[w].pc = "claim"
      /\ Spawn(w) => call'[w].pc = "idle"
  <2>1. StopSession(w) => call'[w].pc = "empty" /\ \A v \in Windows \ {w} : call'[v] = call[v]
    BY <1>0, GotoMoves DEF StopSession
  <2>2. StopDesired(w) => call'[w].pc = "clear" /\ \A v \in Windows \ {w} : call'[v] = call[v]
    BY <1>0, GotoMoves DEF StopDesired
  <2>3. StopTracker(w) => call'[w].pc = "disclaim" /\ \A v \in Windows \ {w} : call'[v] = call[v]
    BY <1>0, GotoMoves DEF StopTracker
  <2>4. Seed(w) => call'[w].pc = "claim" /\ \A v \in Windows \ {w} : call'[v] = call[v]
    BY <1>0, GotoMoves DEF Seed
  <2>5. Spawn(w) => call'[w].pc = "idle" /\ \A v \in Windows \ {w} : call'[v] = call[v]
    BY <1>0, DoneMoves DEF Spawn
  <2> QED
    BY <2>1, <2>2, <2>3, <2>4, <2>5
<1>3. ~link' /\ inRoom' = {} /\ \A c \in Channels : wire'[c] = <<>> /\ inbound'[c] = {}
  <2>1. CASE call[w].pc = "stop"
    BY <2>1 DEF StopSession, StopDesired, StopTracker, Seed, Spawn
  <2>2. CASE call[w].pc # "stop"
    BY <1>0, <1>1, <2>2 DEF Linked
  <2> QED
    BY <2>1, <2>2
<1>4. Linked'
  BY <1>3 DEF Linked
<1>5. \A c \in Channels : Sound(c)'
  <2>1. \A c \in Channels : Clean(c)'
    BY <1>3 DEF Clean, AllJoins
  <2> QED
    BY <1>3, <2>1 DEF Sound, Trusted
<1>6. Stopped'
  <2>1. CASE StopSession(w)
    <3>1. call'[w].pc = "empty" /\ ~supervisor' /\ stage' = "off"
      BY <1>2, <2>1 DEF StopSession
    <3>2. \A v \in Windows : v # w => call'[v].pc = "idle"
      BY <1>0, <1>1, <1>2 DEF OneCall
    <3> QED
      BY <3>1, <3>2 DEF Stopped, Stopping
  <2>2. CASE StopDesired(w) \/ Seed(w)
    <3>1. /\ UNCHANGED <<supervisor, stage, confirmed>> /\ call'[w].pc \in {"clear", "claim"}
          /\ call[w].pc \in {"empty", "seed"} /\ (call[w].pc = "empty" => call'[w].pc = "clear")
      BY <1>2, <2>2 DEF StopDesired, Seed
    <3> QED
      BY <1>0, <1>2, <3>1, StoppedKept DEF Stopping
  <2>3. CASE StopTracker(w)
    <3>1. confirmed' = {}
      BY <1>0, <2>3 DEF StopTracker, Forget, TypeOK
    <3>2. /\ UNCHANGED <<supervisor, stage>>
          /\ call[w].pc = "clear" /\ call'[w].pc = "disclaim"
      BY <1>2, <2>3 DEF StopTracker
    <3> QED
      BY <1>0, <1>2, <3>1, <3>2, StoppedKept DEF Stopping
  <2>4. CASE Spawn(w)
    <3>1. /\ call[w].pc = "spawn" /\ call'[w].pc = "idle"
          /\ UNCHANGED <<stage, confirmed>>
      BY <1>2, <2>4 DEF Spawn
    <3>2. \A v \in Windows : v # w => call'[v].pc = "idle" /\ call[v].pc = "idle"
      BY <1>0, <1>2, <3>1 DEF OneCall
    <3> QED
      BY <1>0, <3>1, <3>2 DEF JoinInv, Stopped, Stopping
  <2> QED
    BY <2>1, <2>2, <2>3, <2>4
<1> QED
  BY <1>4, <1>5, <1>6 DEF JoinInv

LEMMA CallsSound ==
  ASSUME JInv, NEW w \in Windows, CallStep(w)
  PROVE  JoinInv'
BY EnsureSound, ClaimsSound, PartSound, NudgeSound, StopSound DEF CallStep

-----------------------------------------------------------------------------
(* The session, the watchdog and the server.                                *)

LEMMA SameCall ==
  ASSUME call' = call
  PROVE  \A c : /\ Parting(c)' = Parting(c) /\ Wanting(c)' = Wanting(c)
                /\ Asking(c)' = Asking(c)
BY DEF Parting, Wanting, Asking, Parts, Wants, Asks

LEMMA StillStopped ==
  ASSUME JoinInv, UNCHANGED <<call, supervisor>>,
         \/ stage' = stage /\ confirmed' \subseteq confirmed
         \/ stage # "off" /\ (stage' = "off" => confirmed' = {})
  PROVE  Stopped'
BY DEF JoinInv, Stopped

\* A step that asks for no channel and trusts in none that it did not.
LEMMA StillSound ==
  ASSUME JoinInv, NEW c \in Channels, call' = call,
         c \in desired' => c \in desired,
         Clean(c) => Clean(c)',
         Trusted(c)' => Trusted(c) /\ (Clean(c) /\ Explained(c) => Explained(c)')
  PROVE  Sound(c)'
<1>1. Sound(c)
  BY DEF JoinInv
<1>2. Wanted(c)' => Wanted(c)
  BY SameCall DEF Wanted
<1>3. Trusted(c) => Wanted(c)
  BY DEF Trusted, Wanted
<1> QED
  BY <1>1, <1>2, <1>3 DEF Sound

LEMMA DeadIsSound ==
  ASSUME Linked', ~link', NEW c \in Channels
  PROVE  Sound(c)'
<1>1. wire'[c] = <<>> /\ inbound'[c] = {}
  BY DEF Linked
<1>2. Clean(c)'
  BY <1>1 DEF Clean, AllJoins
<1> QED
  BY <1>2 DEF Sound, Trusted

\* More JOINs on the wire.
LEMMA JoinsSound ==
  ASSUME JInv, NEW cs, Send(cs, "JOIN") \/ wire' = wire,
         UNCHANGED <<books, call, supervisor, inbound, inRoom, suspended, link, writer>>,
         \/ stage' = stage
         \/ stage \notin {"off", "closing"} /\ stage' \notin {"off", "closing"}
  PROVE  JoinInv'
<1> USE DEF books
<1>0. JoinInv /\ TypeOK
  BY DEF JInv, IInv
<1>1. Linked'
  BY <1>0 DEF JoinInv, Linked, Send
<1>2. Stopped'
  BY <1>0, StillStopped
<1>3. ASSUME NEW c \in Channels PROVE Sound(c)'
  <2>1. Clean(c) => Clean(c)'
    BY <1>0, JoinsKeepClean
  <2>2. (Trusted(c)' => Trusted(c)) /\ Explained(c)' = Explained(c)
    BY SameCall DEF Trusted, Explained
  <2> QED
    BY <1>0, <2>1, <2>2, StillSound
<1> QED
  BY <1>1, <1>2, <1>3 DEF JoinInv

\* What was asked for awaits an answer.
LEMMA RecordsSound ==
  ASSUME JInv, NEW cs \in SUBSET Channels, RecordSent(cs, FALSE),
         UNCHANGED <<desired, confirmed, call, supervisor, writer, network>>,
         \/ stage' = stage
         \/ stage \notin {"off", "closing"} /\ stage' \notin {"off", "closing"}
  PROVE  JoinInv'
<1> USE DEF network
<1>0. JoinInv /\ TypeOK
  BY DEF JInv, IInv
<1>1. Linked'
  BY <1>0 DEF JoinInv, Linked
<1>2. Stopped'
  BY <1>0, StillStopped
<1>3. ASSUME NEW c \in Channels PROVE Sound(c)'
  <2>1. Clean(c) => Clean(c)'
    BY DEF Clean
  <2>2. CASE c \in cs
    <3>1. pending'[c] # 0
      BY <1>0, <2>2, IrcConstants DEF RecordSent, Attempts, TypeOK
    <3> QED
      BY <1>0, <2>1, <3>1, StillSound DEF Trusted
  <2>3. CASE c \notin cs
    <3>1. pending'[c] = pending[c] /\ (c \in deferred' <=> c \in deferred)
      BY <2>3 DEF RecordSent
    <3>2. (Trusted(c)' => Trusted(c)) /\ Explained(c)' = Explained(c)
      BY <3>1, SameCall DEF Trusted, Explained
    <3> QED
      BY <1>0, <2>1, <3>2, StillSound
  <2> QED
    BY <2>2, <2>3
<1> QED
  BY <1>1, <1>2, <1>3 DEF JoinInv

LEMMA SessionSound ==
  ASSUME JInv, SessionStep
  PROVE  JoinInv'
<1> USE DEF books, session, network
<1>0. JoinInv /\ Linked /\ Stopped /\ TypeOK /\ OneCall
  BY DEF JInv, JoinInv, IInv, CallInv
<1>1. CASE Connect
  <2>1. /\ call' = [w \in Windows |-> [call[w] EXCEPT !.via = FALSE]]
        /\ supervisor /\ supervisor' /\ stage = "off" /\ stage' = "up" /\ writer' /\ link'
        /\ UNCHANGED <<books, wire, inbound, inRoom, suspended>>
    BY <1>1 DEF Connect
  <2>2. ~link /\ confirmed = {}
    BY <1>0, <2>1 DEF Linked, Stopped, Stopping
  <2>3. \A w \in Windows : call'[w].pc = call[w].pc
    BY <1>0, <2>1 DEF TypeOK, CallRecords
  <2>4. Linked' /\ Stopped'
    BY <1>0, <2>1, <2>2, <2>3 DEF Linked, Stopped
  <2>5. ASSUME NEW c \in Channels PROVE Sound(c)'
    <3>1. Clean(c)'
      BY <1>0, <2>1, <2>2, DeadIsClean DEF Clean
    <3> QED
      BY <2>1, <2>2, <3>1 DEF Sound, Trusted
  <2> QED
    BY <2>4, <2>5 DEF JoinInv
<1>2. CASE ListChannels
  <2>1. /\ UNCHANGED <<books, call, supervisor, wire, inbound, inRoom, suspended, link, writer>>
        /\ stage = "up" /\ stage' = "burst"
    BY <1>2 DEF ListChannels
  <2> QED
    BY <2>1, JoinsSound
<1>3. CASE BurstJoin
  <2>1. /\ Send(burst.now, "JOIN") /\ stage = "burst" /\ stage' = "joined"
        /\ UNCHANGED <<books, call, supervisor, inbound, inRoom, suspended, link, writer>>
    BY <1>3 DEF BurstJoin
  <2> QED
    BY <2>1, JoinsSound
<1>4. CASE PacedJoin
  <2>1. PICK cs : Send(cs, "JOIN")
    BY <1>4 DEF PacedJoin
  <2>2. UNCHANGED <<books, call, supervisor, stage, inbound, inRoom, suspended, link, writer>>
    BY <1>4 DEF PacedJoin
  <2> QED
    BY <2>1, <2>2, JoinsSound
<1>5. CASE BurstRecord
  <2>1. burst.now \cup burst.later \in SUBSET Channels
    BY <1>0 DEF TypeOK
  <2>2. /\ RecordSent(burst.now \cup burst.later, FALSE) /\ stage = "joined" /\ stage' = "run"
        /\ UNCHANGED <<desired, confirmed, call, supervisor, writer, network>>
    BY <1>5 DEF BurstRecord
  <2> QED
    BY <2>1, <2>2, RecordsSound
<1>6. CASE SessionEnds \/ ClearTracker
  <2>1. /\ stage # "off" /\ ~link /\ stage' \in {"closing", "off"}
        /\ stage' = "off" => confirmed' = {}
        /\ UNCHANGED <<call, supervisor, link, wire, inbound, inRoom>>
    BY <1>0, <1>6 DEF Linked, SessionEnds, ClearTracker, Forget, TypeOK
  <2>2. Linked' /\ Stopped'
    BY <1>0, <2>1, StillStopped DEF Linked
  <2> QED
    BY <2>1, <2>2, DeadIsSound DEF JoinInv
<1>7. ASSUME NEW d \in Channels, Read(d) PROVE JoinInv'
  <2>1. /\ stage = "run" /\ link /\ inbound' \in [Channels -> SUBSET {"frame", "suspended"}]
        /\ \A c \in Channels : inbound'[c] \subseteq inbound[c]
        /\ UNCHANGED <<call, supervisor, stage, writer, link, wire, inRoom, suspended>>
    <3>1. PICK frame \in {"frame", "suspended"} : inbound' = [inbound EXCEPT ![d] = @ \ {frame}]
      BY <1>7 DEF Read
    <3>2. inbound \in [Channels -> SUBSET {"frame", "suspended"}]
      BY <1>0 DEF TypeOK
    <3>3. /\ inbound' \in [Channels -> SUBSET {"frame", "suspended"}]
          /\ \A c \in Channels : inbound'[c] \subseteq inbound[c]
      BY <3>1, <3>2
    <3> QED
      BY <1>7, <3>3 DEF Read
  <2>2. Linked' /\ Stopped'
    BY <1>0, <2>1, StillStopped DEF Linked
  <2>3. ASSUME NEW c \in Channels PROVE Sound(c)'
    <3>0. Clean(c) => Clean(c)'
      BY <2>1 DEF Clean
    <3>1. CASE Confirm(d) /\ "frame" \in inbound[d] /\ desired' = desired
      <4>1. CASE c # d
        <5>1. (Trusted(c)' => Trusted(c)) /\ Explained(c)' = Explained(c)
          BY <1>0, <2>1, <3>1, <4>1, SameCall DEF Trusted, Explained, Confirm, TypeOK
        <5> QED
          BY <1>0, <2>1, <3>0, <3>1, <5>1, StillSound
      <4>2. CASE c = d
        <5>1. Trusted(c)' => Wanted(c)
          BY <2>1, <3>1, SameCall DEF Trusted, Wanted
        <5>2. Wanted(c)' => Wanted(c)
          BY <2>1, <3>1, SameCall DEF Wanted
        <5>3. Clean(c) => Explained(c)'
          BY <2>1, <3>1, <4>2 DEF Clean, Explained
        <5> QED
          BY <1>0, <3>0, <5>1, <5>2, <5>3 DEF JoinInv, Sound
      <4> QED
        BY <4>1, <4>2
    <3>2. CASE Forget({d}) /\ desired' = desired \ {d}
      <4>1. Trusted(c)' => c # d
        BY <3>2 DEF Trusted
      <4>2. c # d => (Trusted(c)' => Trusted(c)) /\ Explained(c)' = Explained(c)
        BY <2>1, <3>2, SameCall DEF Trusted, Explained, Forget
      <4> QED
        BY <1>0, <2>1, <3>0, <3>2, <4>1, <4>2, StillSound
    <3>3. CASE UNCHANGED <<pending, nudged, confirmed, deferred, desired>>
      <4>1. (Trusted(c)' => Trusted(c)) /\ Explained(c)' = Explained(c)
        BY <2>1, <3>3, SameCall DEF Trusted, Explained
      <4> QED
        BY <1>0, <2>1, <3>0, <3>3, <4>1, StillSound
    <3> QED
      BY <1>7, <3>1, <3>2, <3>3 DEF Read
  <2> QED
    BY <2>2, <2>3 DEF JoinInv
<1> QED
  BY <1>1, <1>2, <1>3, <1>4, <1>5, <1>6, <1>7 DEF SessionStep

LEMMA WatchSound ==
  ASSUME JInv, WatchStep
  PROVE  JoinInv'
<1> USE DEF books, session, network
<1>0. JoinInv /\ Linked /\ Stopped /\ TypeOK
  BY DEF JInv, JoinInv, IInv
<1>1. ASSUME NEW d \in Channels, WatchJoins(d) PROVE JoinInv'
  <2>1. /\ Send({d}, "JOIN")
        /\ UNCHANGED <<books, call, supervisor, stage, inbound, inRoom, suspended, link, writer>>
    BY <1>1 DEF WatchJoins
  <2> QED
    BY <2>1, JoinsSound
<1>2. CASE WatchRecords
  <2>1. /\ {watch.ch} \in SUBSET Channels /\ RecordSent({watch.ch}, FALSE)
        /\ UNCHANGED <<desired, confirmed, call, supervisor, stage, writer, network>>
    BY <1>0, <1>2 DEF WatchRecords, TypeOK, Lists
  <2> QED
    BY <2>1, RecordsSound
<1>3. CASE WatchLooks
  <2>1. UNCHANGED <<books, call, supervisor, stage, wire, inbound, inRoom, suspended, link, writer>>
    BY <1>3 DEF WatchLooks
  <2> QED
    BY <2>1, JoinsSound
<1>4. ASSUME NEW d \in Channels, WatchGivesUp(d) PROVE JoinInv'
  <2>1. /\ pending' = [pending EXCEPT ![d] = 0]
        /\ deferred' = IF pending[d] > 0 THEN deferred \cup {d} ELSE deferred
        /\ UNCHANGED <<confirmed, desired, call, supervisor, stage, writer, link,
                       inRoom, wire, inbound, suspended>>
    BY <1>4 DEF WatchGivesUp
  <2>2. Linked' /\ Stopped'
    BY <1>0, <2>1, StillStopped DEF Linked
  <2>3. ASSUME NEW c \in Channels PROVE Sound(c)'
    <3>1. Clean(c) => Clean(c)'
      BY <2>1 DEF Clean
    <3>2. Explained(c) => Explained(c)'
      BY <2>1 DEF Explained
    <3>3. CASE c = d /\ pending[c] > 0
      <4>1. Explained(c)'
        BY <2>1, <3>3 DEF Explained
      <4>2. Wanted(c)' => Wanted(c)
        BY <2>1, SameCall DEF Wanted
      <4> QED
        BY <1>0, <3>1, <4>1, <4>2 DEF JoinInv, Sound
    <3>4. CASE ~(c = d /\ pending[c] > 0)
      <4>1. pending'[c] = pending[c]
        BY <1>0, <2>1, <3>4 DEF TypeOK
      <4>2. Trusted(c)' => Trusted(c)
        BY <2>1, <4>1, SameCall DEF Trusted
      <4> QED
        BY <1>0, <2>1, <3>1, <3>2, <4>2, StillSound
    <3> QED
      BY <3>3, <3>4
  <2> QED
    BY <2>2, <2>3 DEF JoinInv
<1>5. CASE WatchShuts
  <2>1. SocketGone /\ UNCHANGED <<confirmed, call, supervisor, stage>>
    BY <1>5 DEF WatchShuts
  <2>2. Linked' /\ ~link' /\ Stopped'
    BY <1>0, <2>1, StillStopped DEF Linked, SocketGone
  <2> QED
    BY <2>2, DeadIsSound DEF JoinInv
<1> QED
  BY <1>1, <1>2, <1>3, <1>4, <1>5 DEF WatchStep

\* The server takes one line of d, or the network loses it.
LEMMA LineGone ==
  ASSUME TypeOK, NEW d \in Channels, wire[d] # <<>>,
         wire' = [wire EXCEPT ![d] = Tail(@)], NEW c \in Channels, AllJoins(wire[c])
  PROVE  AllJoins(wire'[c]) /\ (c = d => Head(wire[d]) = "JOIN")
<1>1. wire \in [Channels -> Seq({"JOIN", "PART"})] /\ wire[c] \in Seq({"JOIN", "PART"})
  BY DEF TypeOK
<1>2. CASE c = d
  <2>1. wire'[c] = Tail(wire[c])
    BY <1>1, <1>2, Zenon
  <2> QED
    BY <1>1, <1>2, <2>1, AllJoinsKept
<1>3. CASE c # d
  <2>1. wire'[c] = wire[c]
    BY <1>1, <1>3, Zenon
  <2> QED
    BY <1>3, <2>1
<1> QED
  BY <1>2, <1>3

LEMMA ServerSound ==
  ASSUME JInv, Environment
  PROVE  JoinInv'
<1> USE DEF books, session, network
<1>0. JoinInv /\ Linked /\ Stopped /\ TypeOK
  BY DEF JInv, JoinInv, IInv
<1>1. CASE CoolsDown
  <2>1. UNCHANGED <<books, call, supervisor, stage, wire, inbound, inRoom, suspended, link, writer>>
    BY <1>1 DEF CoolsDown
  <2> QED
    BY <2>1, JoinsSound
<1>2. CASE SocketDies
  <2>1. Linked' /\ ~link' /\ UNCHANGED <<call, supervisor, stage, confirmed>>
    BY <1>2 DEF Linked, SocketDies, SocketGone
  <2> QED
    BY <1>0, <2>1, StillStopped, DeadIsSound DEF JoinInv
<1>3. ASSUME NEW d \in Channels, ServerTakes(d) PROVE JoinInv'
  <2>1. /\ wire[d] # <<>> /\ wire' = [wire EXCEPT ![d] = Tail(@)]
        /\ UNCHANGED <<books, call, supervisor, stage, writer, suspended, link>>
    BY <1>3 DEF ServerTakes
  <2>2. Linked' /\ Stopped'
    BY <1>0, <2>1, StillStopped DEF Linked
  <2>3. ASSUME NEW c \in Channels PROVE Sound(c)'
    <3>1. CASE c # d
      <4>1. (c \in inRoom' <=> c \in inRoom) /\ inbound'[c] = inbound[c]
        BY <1>0, <1>3, <3>1 DEF ServerTakes, TypeOK
      <4>2. Clean(c) => Clean(c)'
        BY <1>0, <2>1, <4>1, LineGone DEF Clean
      <4>3. (Trusted(c)' => Trusted(c)) /\ Explained(c)' = Explained(c)
        BY <2>1, <4>1, SameCall DEF Trusted, Explained
      <4> QED
        BY <1>0, <2>1, <4>2, <4>3, StillSound
    <3>2. CASE c = d /\ c \in suspended
      <4>1. Clean(c)' /\ Explained(c)'
        BY <2>1, <3>2 DEF Clean, Explained
      <4> QED
        BY <4>1 DEF Sound
    <3>3. CASE c = d /\ c \notin suspended
      <4>1. Clean(c) => AllJoins(wire'[c]) /\ Head(wire[d]) = "JOIN"
        BY <1>0, <2>1, <3>3, LineGone DEF Clean
      <4>2. Clean(c) => c \in inRoom'
        BY <1>3, <3>3, <4>1 DEF ServerTakes
      <4>3. (Wanted(c)' => Wanted(c)) /\ (Trusted(c)' => Wanted(c))
        BY <2>1, SameCall DEF Wanted, Trusted
      <4> QED
        BY <1>0, <4>1, <4>2, <4>3 DEF JoinInv, Sound, Clean, Explained
    <3> QED
      BY <3>1, <3>2, <3>3
  <2> QED
    BY <2>2, <2>3 DEF JoinInv
<1>4. ASSUME NEW d \in Channels, ServerTalks(d) PROVE JoinInv'
  <2>1. /\ d \in inRoom /\ inbound' = [inbound EXCEPT ![d] = @ \cup {"frame"}]
        /\ UNCHANGED <<books, call, supervisor, stage, writer, suspended, link, wire, inRoom>>
    BY <1>4 DEF ServerTalks
  <2>2. Linked' /\ Stopped'
    BY <1>0, <2>1, StillStopped DEF Linked
  <2>3. ASSUME NEW c \in Channels PROVE Sound(c)'
    <3>1. c # d => inbound'[c] = inbound[c]
      BY <1>0, <2>1 DEF TypeOK
    <3>2. Clean(c) => Clean(c)'
      BY <2>1, <3>1 DEF Clean
    <3>3. (Trusted(c)' => Trusted(c)) /\ Explained(c)' = Explained(c)
      BY <2>1, SameCall DEF Trusted, Explained
    <3> QED
      BY <1>0, <2>1, <3>2, <3>3, StillSound
  <2> QED
    BY <2>2, <2>3 DEF JoinInv
<1>5. ASSUME NEW d \in Channels, JoinLost(d) PROVE JoinInv'
  <2>1. /\ wire[d] # <<>> /\ wire' = [wire EXCEPT ![d] = Tail(@)]
        /\ UNCHANGED <<books, call, supervisor, stage, writer, suspended, link, inbound, inRoom>>
    BY <1>5 DEF JoinLost
  <2>2. Linked' /\ Stopped'
    BY <1>0, <2>1, StillStopped DEF Linked
  <2>3. ASSUME NEW c \in Channels PROVE Sound(c)'
    <3>1. Clean(c) => Clean(c)'
      BY <1>0, <2>1, LineGone DEF Clean
    <3>2. (Trusted(c)' => Trusted(c)) /\ Explained(c)' = Explained(c)
      BY <2>1, SameCall DEF Trusted, Explained
    <3> QED
      BY <1>0, <2>1, <3>1, <3>2, StillSound
  <2> QED
    BY <2>2, <2>3 DEF JoinInv
<1>6. ASSUME NEW d \in Channels, Suspend(d) PROVE JoinInv'
  <2>1. /\ suspended' = suspended \cup {d} /\ inRoom' = inRoom \ {d}
        /\ UNCHANGED <<books, call, supervisor, stage, writer, link, wire, inbound>>
    BY <1>6 DEF Suspend
  <2>2. Linked' /\ Stopped'
    BY <1>0, <2>1, StillStopped DEF Linked
  <2>3. ASSUME NEW c \in Channels PROVE Sound(c)'
    <3>1. (Clean(c) => Clean(c)') /\ (Explained(c) => Explained(c)')
      BY <2>1 DEF Clean, Explained
    <3>2. Trusted(c)' => Trusted(c)
      BY <2>1, SameCall DEF Trusted
    <3> QED
      BY <1>0, <2>1, <3>1, <3>2, StillSound
  <2> QED
    BY <2>2, <2>3 DEF JoinInv
<1> QED
  BY <1>1, <1>2, <1>3, <1>4, <1>5, <1>6 DEF Environment

(* A call begins with one of these steps, and only takes or gives a claim.  *)
LEMMA BeginMoves ==
  ASSUME TypeOK, NoCall, NEW w \in Windows, NEW d \in Channels, CallBegins(w, d)
  PROVE  /\ UNCHANGED <<desired, pending, nudged, confirmed, deferred, session, network>>
         /\ \A v \in Windows : call'[v].pc \in {"idle", "want", "part", "sweep", "stop", "nudge"}
<1>c. call \in [Windows -> CallRecords]
  BY DEF TypeOK
<1>1. UNCHANGED <<desired, pending, nudged, confirmed, deferred, session, network>>
  <2> USE DEF books, session, network
  <2>1. CASE Leave(w, d) \/ Close(w, d) \/ Stop(w, d) \/ Nudge(w, d)
    BY <2>1 DEF Leave, Close, Stop, Nudge
  <2>2. ASSUME NEW op \in Ops, Join(w, op, d) \/ EnsureOnly(w, op, d) \/ ColdStart(w, op, d)
        PROVE  UNCHANGED <<desired, pending, nudged, confirmed, deferred, session, network>>
    BY <2>2 DEF Join, EnsureOnly, ColdStart
  <2> QED
    BY <2>1, <2>2 DEF CallBegins
<1>i. Idle \in CallRecords
  BY IdleTyped
<1> DEFINE Begun ==
      \A v \in Windows : call'[v].pc \in {"idle", "want", "part", "sweep", "stop", "nudge"}
<1>2. Begun
  <2>1. ASSUME NEW r, call' = [call EXCEPT ![w] = r],
               r.pc \in {"want", "part", "sweep", "stop", "nudge"}
        PROVE  Begun
    <3>1. \A v \in Windows : call'[v].pc \in {"idle", r.pc}
      BY <1>c, <2>1, BegunIs
    <3> QED
      BY <2>1, <3>1
  <2>2. ASSUME NEW op, NEW pc \in {"want", "sweep", "stop"}, Begin(w, op, d, pc)
        PROVE  Begun
    <3> DEFINE r == [Idle EXCEPT !.op = op, !.ch = d, !.pc = pc]
    <3>1. call' = [call EXCEPT ![w] = r]
      BY <2>2 DEF Begin
    <3>2. r.pc = pc
      BY <1>i DEF CallRecords
    <3> HIDE DEF r
    <3> QED
      BY <2>1, <3>1, <3>2
  <2>3. CASE Leave(w, d)
    <3> DEFINE r == [Idle EXCEPT !.op = "leave", !.pc = "part", !.todo = {d}]
    <3>1. call' = call \/ call' = [call EXCEPT ![w] = r]
      BY <2>3 DEF Leave
    <3>2. r.pc = "part"
      BY <1>i DEF CallRecords
    <3> HIDE DEF r
    <3>3. CASE call' = call
      BY <3>3 DEF NoCall
    <3>4. CASE call' = [call EXCEPT ![w] = r]
      BY <2>1, <3>2, <3>4
    <3> QED
      BY <3>1, <3>3, <3>4
  <2>4. CASE Nudge(w, d)
    <3> DEFINE r == [Idle EXCEPT !.op = "nudge", !.pc = "nudge", !.via = TRUE, !.todo = desired]
    <3>1. call' = [call EXCEPT ![w] = r]
      BY <2>4 DEF Nudge
    <3>2. r.pc = "nudge"
      BY <1>i DEF CallRecords
    <3> HIDE DEF r
    <3> QED
      BY <2>1, <3>1, <3>2
  <2>5. ASSUME NEW op \in Ops, Join(w, op, d) PROVE Begun
    <3> DEFINE r == [Idle EXCEPT !.op = op, !.ch = d, !.pc = "want",
                                 !.fresh = w \notin claims[d]]
    <3>1. call' = [call EXCEPT ![w] = r]
      BY <2>5 DEF Join
    <3>2. r.pc = "want"
      BY <1>i DEF CallRecords
    <3> HIDE DEF r
    <3> QED
      BY <2>1, <3>1, <3>2
  <2>6. CASE Close(w, d) \/ Stop(w, d)
    <3>1. Begin(w, "close", d, "sweep") \/ Begin(w, "stop", d, "stop")
      BY <2>6 DEF Close, Stop
    <3> QED
      BY <2>2, <3>1
  <2>7. ASSUME NEW op \in Ops, EnsureOnly(w, op, d) \/ ColdStart(w, op, d) PROVE Begun
    <3>1. Begin(w, op, d, "want") \/ Begin(w, op, d, "stop")
      BY <2>7 DEF EnsureOnly, ColdStart
    <3> QED
      BY <2>2, <3>1
  <2> QED
    BY <2>3, <2>4, <2>5, <2>6, <2>7 DEF CallBegins
<1> QED
  BY <1>1, <1>2

(* A call begins: no other is under way, and a channel that is not desired  *)
(* has nothing on the wire.                                                 *)
LEMMA BeginSound ==
  ASSUME JInv, NoCall, \A c \in Channels \ desired : wire[c] = <<>> /\ inbound[c] = {},
         NEW w \in Windows, NEW d \in Channels, CallBegins(w, d)
  PROVE  JoinInv'
<1>0. JoinInv /\ TypeOK
  BY DEF JInv, IInv
<1>1. UNCHANGED <<desired, pending, confirmed, deferred, session, network>>
  BY <1>0, BeginMoves
<1>2. \A v \in Windows : call'[v].pc \in {"idle", "want", "part", "sweep", "stop", "nudge"}
  BY <1>0, BeginMoves
<1> USE DEF books, session, network
<1>3. Linked' /\ Stopped'
  <2>1. Linked'
    BY <1>0, <1>1 DEF JoinInv, Linked
  <2>2. stage = "off" => confirmed = {}
    BY <1>0 DEF JoinInv, Stopped, NoCall
  <2> QED
    BY <1>1, <1>2, <2>1, <2>2 DEF Stopped, Stopping
<1>4. ASSUME NEW c \in Channels PROVE Sound(c)'
  <2>1. ~Parting(c) /\ ~Asking(c)
    BY DEF NoCall, Parting, Asking, Parts, Asks
  <2>2. Clean(c)
    <3>1. CASE c \in desired
      BY <1>0, <2>1, <3>1 DEF JoinInv, Sound, Wanted
    <3>2. CASE c \notin desired
      BY <3>2 DEF Clean, AllJoins
    <3> QED
      BY <3>1, <3>2
  <2>3. Clean(c)' /\ (Trusted(c)' => Trusted(c)) /\ Explained(c)' = Explained(c)
    BY <1>1, <2>1, <2>2 DEF Clean, Trusted, Explained
  <2> QED
    BY <1>0, <2>3 DEF JoinInv, Sound
<1> QED
  BY <1>3, <1>4 DEF JoinInv

LEMMA JInitInv == Init => JInv
<1> SUFFICES ASSUME Init PROVE JInv
  OBVIOUS
<1>1. Linked /\ Stopped
  BY DEF Init, Linked, Stopped, Stopping, Idle
<1>2. ASSUME NEW c \in Channels PROVE Sound(c)
  <2>1. Clean(c)
    BY <1>1, DeadIsClean DEF Init
  <2> QED
    BY <2>1 DEF Init, Sound, Trusted
<1> QED
  BY <1>1, <1>2, InitInv DEF JInv, JoinInv

LEMMA JNextInv == JInv /\ [PatientNext]_vars => JInv'
<1>1. ASSUME JInv, Work PROVE JoinInv'
  BY <1>1, CallsSound, SessionSound, WatchSound, ServerSound DEF Work
<1>2. ASSUME JInv, UNCHANGED vars PROVE JoinInv'
  <2>1. UNCHANGED <<books, call, supervisor, stage, wire, inbound, inRoom, suspended, link, writer>>
    BY <1>2 DEF vars, session, network
  <2> QED
    BY <1>2, <2>1, JoinsSound
<1>3. ASSUME JInv, PatientNext, ~Work PROVE JoinInv'
  BY <1>3, BeginSound DEF PatientNext
<1> QED
  BY <1>1, <1>2, <1>3, NextInv DEF JInv

LEMMA JInvHolds == PatientSpec => []JInv
BY JInitInv, JNextInv, PTL DEF PatientSpec

(* While the windows take turns and nothing of an earlier stay is under     *)
(* way, what the tracker takes for joined is joined, or its JOIN is the     *)
(* last thing on the wire: no PART follows it there, a frame of the channel *)
(* comes from a room the connection is in, and no session begins with what  *)
(* an earlier one had confirmed (JoinTracker::confirm, clear_join_tracking).*)
THEOREM BelievedAreJoined == PatientSpec => []BelievedIsJoined
<1>1. JInv => BelievedIsJoined
  <2> SUFFICES ASSUME JInv, Quiet,
                      NEW c \in (confirmed \cap desired) \ (suspended \cup deferred),
                      pending[c] = 0
               PROVE  Joined(c)
    BY DEF BelievedIsJoined
  <2>0. c \in Channels /\ Sound(c) /\ wire[c] \in Seq({"JOIN", "PART"})
    BY DEF JInv, JoinInv, IInv, TypeOK
  <2>1. ~Parting(c) /\ ~Asking(c)
    BY DEF Quiet, NoCall, Parting, Asking, Parts, Asks
  <2>2. Clean(c) /\ Explained(c)
    BY <2>0, <2>1 DEF Sound, Wanted, Trusted, Quiet
  <2>3. AllJoins(wire[c]) /\ c \in inRoom
    BY <2>2 DEF Clean, Explained
  <2>4. CASE wire[c] = <<>>
    BY <2>3, <2>4 DEF Joined
  <2>5. CASE wire[c] # <<>>
    <3>1. Len(wire[c]) \in 1..Len(wire[c])
      BY <2>0, <2>5
    <3> QED
      BY <2>3, <2>5, <3>1 DEF AllJoins, Joined, Coming
  <2> QED
    BY <2>4, <2>5
<1> QED
  BY <1>1, JInvHolds, PTL

-----------------------------------------------------------------------------
(* What is asked for.                                                       *)
(*                                                                          *)
(* ClaimedAsked follows a desired channel from the listing of the session's *)
(* channels on: it is on the session's list until the burst is recorded,    *)
(* and from then on in the tracker or answered.                             *)

Due(c) ==
    /\ link /\ stage \in {"burst", "joined", "run"}
    /\ c \in desired /\ ~Parting(c) /\ ~Asking(c)
Listed(c) == stage \in {"burst", "joined"} /\ c \in burst.now \cup burst.later
Asked(c) == Explained(c) \/ Followed(c) \/ Listed(c)

AskInv ==
    /\ stage \notin {"off", "closing"} => writer
    /\ \A w \in Windows : call[w].pc = "forget" => call[w].ch \notin desired
    /\ \A c \in Channels : Due(c) => Asked(c)
AInv == JInv /\ AskInv

\* A step that leaves the books of c alone.
LEMMA SameAsked ==
  ASSUME NEW c, UNCHANGED <<pending, nudged, deferred, inRoom, suspended, stage, burst>>
  PROVE  Asked(c)' = Asked(c)
BY DEF Asked, Explained, Followed, Listed

\* What was recorded is followed.
LEMMA RecordedAsked ==
  ASSUME TypeOK, NEW cs \in SUBSET Channels, RecordSent(cs, FALSE), NEW c \in Channels
  PROVE  /\ c \in cs => Followed(c)'
         /\ c \notin cs => /\ Followed(c)' = Followed(c)
                           /\ (c \in deferred)' = (c \in deferred)
<1>1. c \in cs => pending'[c] > 0
  BY IrcConstants DEF RecordSent, Attempts, TypeOK
<1>2. c \notin cs => pending'[c] = pending[c]
  BY DEF RecordSent
<1> QED
  BY <1>1, <1>2 DEF RecordSent, Followed

LEMMA EnsureAsked ==
  ASSUME AInv, NEW w \in Windows,
         \/ Want(w) \/ Probe(w) \/ GetWriter(w) \/ NoWriter(w) \/ WriteJoin(w)
         \/ WriteFails(w) \/ Record(w) \/ Undo(w)
  PROVE  AskInv'
<1> USE DEF books, session, network
<1>0. /\ call \in [Windows -> CallRecords] /\ call[w] \in CallRecords
      /\ TypeOK /\ OneCall /\ AskInv
  BY DEF AInv, JInv, IInv, CallInv, TypeOK
<1>1. /\ call[w].pc \in {"want", "probe", "await", "write", "record", "undo"}
      /\ UNCHANGED <<stage, writer, link, inRoom, suspended, burst>>
  BY DEF Want, Probe, GetWriter, NoWriter, WriteJoin, WriteFails, Record, Undo
<1>2. /\ call'[w].pc # "forget" /\ \A v \in Windows \ {w} : call'[v] = call[v]
      /\ Want(w) /\ call[w].ch \notin desired => call'[w].pc = "await" /\ call'[w].ch = call[w].ch
      /\ WriteJoin(w) => call'[w].pc = "record" /\ call'[w].ch = call[w].ch
      /\ GetWriter(w) => call'[w].pc = "write" /\ call'[w].ch = call[w].ch /\ call'[w].via
  <2>1. CASE Want(w)
    BY <1>0, <2>1 DEF Want, Probe, GetWriter, WriteJoin, CallRecords
  <2>2. CASE Probe(w)
    <3>1. CASE AfterJoin(w)
      BY <1>0, <2>2, <3>1, AfterJoinMoves DEF Want, Probe, GetWriter, WriteJoin
    <3>2. CASE ~AfterJoin(w)
      <4>1. call' = [call EXCEPT ![w].pc = "await", ![w].alive = supervisor]
        BY <2>2, <3>2 DEF Probe
      <4> QED
        BY <1>0, <2>2, <4>1 DEF Want, Probe, GetWriter, WriteJoin, CallRecords
    <3> QED
      BY <3>1, <3>2
  <2>3. CASE GetWriter(w)
    BY <1>0, <2>3 DEF Want, GetWriter, WriteJoin, CallRecords
  <2>4. CASE NoWriter(w)
    BY <1>0, <2>4, AfterJoinMoves, GotoMoves DEF NoWriter, Want, GetWriter, WriteJoin
  <2>5. CASE WriteJoin(w)
    BY <1>0, <2>5, GotoMoves DEF Want, GetWriter, WriteJoin
  <2>6. CASE WriteFails(w)
    BY <1>0, <2>6, GotoMoves DEF WriteFails, Want, GetWriter, WriteJoin
  <2>7. CASE Record(w)
    BY <1>0, <2>7, AfterJoinMoves DEF Record, Want, GetWriter, WriteJoin
  <2>8. CASE Undo(w)
    BY <1>0, <2>8, AfterJoinMoves, GotoMoves DEF Undo, Want, GetWriter, WriteJoin
  <2> QED
    BY <2>1, <2>2, <2>3, <2>4, <2>5, <2>6, <2>7, <2>8
<1>3. \A c : ~Parting(c) /\ Asking(c) = Asks(w, c) /\ Asking(c)' = Asks(w, c)'
  BY <1>0, <1>1, <1>2, OnlyCall, OnlyCallNext DEF Parts
<1>4. \A v \in Windows : call'[v].pc # "forget"
  <2>1. \A v \in Windows : v # w => call'[v].pc = "idle"
    BY <1>0, <1>1, <1>2 DEF OneCall
  <2> QED
    BY <1>2, <2>1
<1>5. ASSUME NEW c \in Channels, Due(c)' PROVE Asked(c)'
  <2>1. link /\ writer /\ stage \in {"burst", "joined", "run"} /\ c \in desired' /\ ~Asks(w, c)'
    BY <1>0, <1>1, <1>3, <1>5 DEF Due, AskInv
  <2>2. c \in desired
    BY <1>2, <2>1 DEF Want, Probe, GetWriter, NoWriter, WriteJoin, WriteFails, Record, Undo, Asks
  <2>3. CASE Record(w)
    <3>1. {call[w].ch} \in SUBSET Channels /\ RecordSent({call[w].ch}, FALSE)
      BY <1>0, <2>3 DEF Record, CallRecords
    <3>2. CASE c = call[w].ch
      BY <1>0, <3>1, <3>2, RecordedAsked DEF Asked
    <3>3. CASE c # call[w].ch
      <4>1. Due(c)
        BY <1>3, <2>1, <2>2, <3>3 DEF Due, Asks
      <4>2. Asked(c)
        BY <1>0, <4>1 DEF AskInv
      <4>3. Followed(c)' = Followed(c) /\ (c \in deferred)' = (c \in deferred)
        BY <1>0, <3>1, <3>3, RecordedAsked
      <4> QED
        BY <1>1, <4>2, <4>3 DEF Asked, Explained, Listed
    <3> QED
      BY <3>2, <3>3
  <2>4. CASE ~Record(w)
    <3>1. UNCHANGED <<pending, nudged, deferred>>
      BY <2>4 DEF Want, Probe, GetWriter, NoWriter, WriteJoin, WriteFails, Undo
    <3>2. ~Asks(w, c)
      <4>1. ASSUME Asks(w, c) PROVE GetWriter(w) \/ WriteJoin(w)
        BY <2>1, <2>4, <4>1
           DEF Asks, Want, Probe, NoWriter, WriteFails, Undo
      <4> QED
        BY <1>2, <2>1, <4>1 DEF Asks
    <3>3. Asked(c)
      BY <1>0, <1>3, <2>1, <2>2, <3>2 DEF AskInv, Due
    <3> QED
      BY <1>1, <3>1, <3>3, SameAsked
  <2> QED
    BY <2>3, <2>4
<1> QED
  BY <1>0, <1>1, <1>4, <1>5 DEF AskInv

LEMMA ClaimsAsked ==
  ASSUME AInv, NEW w \in Windows,
         Unclaim(w) \/ Sweep(w) \/ Reap(w) \/ Orphans(w) \/ StopClaims(w) \/ SeedClaims(w)
  PROVE  AskInv'
<1> USE DEF books, session, network
<1>0. call \in [Windows -> CallRecords] /\ OneCall /\ AskInv
  BY DEF AInv, JInv, IInv, CallInv, TypeOK
<1>1. /\ call[w].pc \in {"unclaim", "sweep", "reap", "orphans", "disclaim", "claim"}
      /\ UNCHANGED <<pending, nudged, deferred, desired, stage, writer, link, burst,
                     inRoom, suspended>>
  BY DEF Unclaim, Sweep, Reap, Orphans, StopClaims, SeedClaims
<1>2. /\ call'[w].pc \in {"sweep", "reap", "idle", "orphans", "part", "seed", "spawn"}
      /\ \A v \in Windows \ {w} : call'[v] = call[v]
  <2>1. CASE Unclaim(w)
    BY <1>0, <2>1, AfterJoinMoves DEF Unclaim
  <2>2. CASE Sweep(w) \/ Orphans(w)
    BY <1>0, <2>2, PartMoves DEF Sweep, Orphans
  <2>3. CASE Reap(w)
    BY <1>0, <2>3 DEF Reap, CallRecords
  <2>4. CASE StopClaims(w) \/ SeedClaims(w)
    BY <1>0, <2>4, GotoMoves, DoneMoves DEF StopClaims, SeedClaims
  <2> QED
    BY <2>1, <2>2, <2>3, <2>4
<1>3. \A c : ~Parting(c) /\ ~Asking(c)
  BY <1>0, <1>1, OnlyCall DEF Parts, Asks
<1>4. \A c \in Channels : Due(c)' => Asked(c)'
  BY <1>0, <1>1, <1>3, SameAsked DEF Due, AskInv
<1> QED
  BY <1>0, <1>1, <1>2, <1>4 DEF AskInv

LEMMA PartAsked ==
  ASSUME AInv, NEW w \in Windows,
         PartDrop(w) \/ PartForget(w) \/ \E c \in Channels : PartWire(w, c)
  PROVE  AskInv'
<1> USE DEF books, session, network
<1>0. call \in [Windows -> CallRecords] /\ OneCall /\ AskInv
  BY DEF AInv, JInv, IInv, CallInv, TypeOK
<1>1. /\ call[w].pc \in {"part", "drop", "forget"}
      /\ UNCHANGED <<stage, writer, link, burst, inRoom, suspended>>
  BY DEF PartDrop, PartForget, PartWire
<1>2. /\ PartDrop(w) => call'[w].pc = "forget" /\ call'[w].ch = call[w].ch
      /\ PartForget(w) => call'[w].pc \in {"part", "idle"}
      /\ \A d \in Channels : PartWire(w, d) => call'[w].pc = "drop" /\ call'[w].ch = d
      /\ \A v \in Windows \ {w} : call'[v] = call[v]
  <2>1. PartDrop(w) => /\ call'[w].pc = "forget" /\ call'[w].ch = call[w].ch
                       /\ \A v \in Windows \ {w} : call'[v] = call[v]
    BY <1>0, GotoMoves DEF PartDrop
  <2>2. PartForget(w) => /\ call'[w].pc \in {"part", "idle"}
                         /\ \A v \in Windows \ {w} : call'[v] = call[v]
    BY <1>0, PartMoves DEF PartForget
  <2>3. \A d \in Channels : PartWire(w, d) =>
                         /\ call'[w].pc = "drop" /\ call'[w].ch = d
                         /\ \A v \in Windows \ {w} : call'[v] = call[v]
    BY <1>0, PartWireMoves
  <2> QED
    BY <2>1, <2>2, <2>3
<1>3. \A c : /\ Parting(c) = Parts(w, c) /\ Parting(c)' = Parts(w, c)' /\ ~Asking(c)
  BY <1>0, <1>1, <1>2, OnlyCall, OnlyCallNext DEF Asks
<1>4. ASSUME NEW v \in Windows, call'[v].pc = "forget" PROVE call'[v].ch \notin desired'
  <2>1. v = w
    BY <1>0, <1>1, <1>2, <1>4 DEF OneCall
  <2>2. PartDrop(w)
    BY <1>2, <1>4, <2>1
  <2> QED
    BY <1>2, <2>1, <2>2 DEF PartDrop
<1>5. ASSUME NEW c \in Channels, Due(c)' PROVE Asked(c)'
  <2>1. ASSUME NEW d \in Channels, PartWire(w, d) PROVE Asked(c)'
    <3>1. UNCHANGED <<pending, nudged, deferred, desired>> /\ call[w].pc = "part"
      BY <2>1 DEF PartWire
    <3>2. Due(c)
      BY <1>1, <1>3, <1>5, <3>1 DEF Due, Parts
    <3> QED
      BY <1>0, <1>1, <3>1, <3>2, SameAsked DEF AskInv
  <2>2. CASE PartDrop(w)
    <3>1. /\ UNCHANGED <<pending, nudged, deferred>> /\ desired' = desired \ {call[w].ch}
      BY <2>2 DEF PartDrop
    <3>2. Due(c)
      BY <1>1, <1>3, <1>5, <3>1 DEF Due, Parts
    <3> QED
      BY <1>0, <1>1, <3>1, <3>2, SameAsked DEF AskInv
  <2>3. CASE PartForget(w)
    <3>1. UNCHANGED desired /\ Forget({call[w].ch}) /\ call[w].pc = "forget"
      BY <2>3 DEF PartForget
    <3>2. c # call[w].ch
      BY <1>0, <1>5, <3>1 DEF AskInv, Due
    <3>3. Due(c)
      BY <1>1, <1>3, <1>5, <3>1 DEF Due, Parts
    <3>4. Asked(c)
      BY <1>0, <3>3 DEF AskInv
    <3> QED
      BY <1>1, <3>1, <3>2, <3>4 DEF Asked, Explained, Followed, Listed, Forget
  <2> QED
    BY <2>1, <2>2, <2>3
<1> QED
  BY <1>0, <1>1, <1>4, <1>5 DEF AskInv

(* A nudge is recorded where the answer had come, or had been given up.     *)
LEMMA NudgeAsked ==
  ASSUME AInv, NEW w \in Windows,
         NudgeWrite(w) \/ \E c \in Channels : NudgeMark(w, c)
  PROVE  AskInv'
<1> USE DEF books, session, network
<1>0. call \in [Windows -> CallRecords] /\ OneCall /\ AskInv /\ TypeOK
  BY DEF AInv, JInv, IInv, CallInv, TypeOK
<1>1. /\ call[w].pc \in {"nudge", "nudged"}
      /\ UNCHANGED <<stage, writer, link, burst, inRoom, suspended, desired, deferred>>
  BY DEF NudgeWrite, NudgeMark, RecordSent
<1>2. /\ call'[w].pc \in {"nudge", "nudged", "idle"}
      /\ \A v \in Windows \ {w} : call'[v] = call[v]
  <2>1. CASE Done(w)
    BY <1>0, <2>1, DoneMoves
  <2>2. CASE ~Done(w)
    <3>1. \/ \E rest : call' = [call EXCEPT ![w].pc = "nudge", ![w].todo = rest]
          \/ \E c : call' = [call EXCEPT ![w].todo = @ \ {c}]
          \/ \E c : call' = [call EXCEPT ![w].pc = "nudged", ![w].ch = c]
      BY <2>2 DEF NudgeWrite, NudgeMark
    <3> QED
      BY <1>0, <1>1, <3>1 DEF CallRecords
  <2> QED
    BY <2>1, <2>2
<1>3. \A c : ~Parting(c) /\ ~Asking(c)
  BY <1>0, <1>1, OnlyCall DEF Parts, Asks
<1>4. ASSUME NEW c \in Channels, Due(c)' PROVE Asked(c)'
  <2>1. Asked(c)
    BY <1>0, <1>1, <1>3, <1>4 DEF Due, AskInv
  <2>2. CASE UNCHANGED <<pending, nudged>>
    BY <1>1, <2>1, <2>2, SameAsked
  <2>3. ASSUME NEW d \in Channels, pending[d] = 0, RecordSent({d}, TRUE) PROVE Asked(c)'
    <3>1. c = d => ~Followed(c)
      BY <2>3 DEF Followed
    <3>2. c # d => Followed(c)' = Followed(c)
      BY <2>3 DEF Followed, RecordSent
    <3> QED
      BY <1>1, <2>1, <3>1, <3>2 DEF Asked, Explained, Listed
  <2>4. \A d \in Channels : ~(pending[d] > 0) => pending[d] = 0
    BY <1>0 DEF TypeOK
  <2> QED
    BY <2>2, <2>3, <2>4 DEF NudgeWrite, NudgeMark
<1> QED
  BY <1>0, <1>1, <1>2, <1>4 DEF AskInv

LEMMA StopAsked ==
  ASSUME AInv, NEW w \in Windows,
         StopSession(w) \/ StopDesired(w) \/ StopTracker(w) \/ Seed(w) \/ Spawn(w)
  PROVE  AskInv'
<1> USE DEF books, session, network
<1>0. call \in [Windows -> CallRecords] /\ OneCall /\ Stopped
  BY DEF AInv, JInv, JoinInv, IInv, CallInv, TypeOK
<1>1. call[w].pc # "idle" /\ stage' = "off"
  BY <1>0 DEF Stopped, Stopping, StopSession, StopDesired, StopTracker, Seed, Spawn
<1>2. call'[w].pc # "forget" /\ \A v \in Windows \ {w} : call'[v] = call[v]
  BY <1>0, GotoMoves, DoneMoves DEF StopSession, StopDesired, StopTracker, Seed, Spawn
<1>3. \A v \in Windows : call'[v].pc # "forget"
  BY <1>0, <1>1, <1>2 DEF OneCall
<1> QED
  BY <1>1, <1>3 DEF AskInv, Due

LEMMA BeginAsked ==
  ASSUME AInv, NoCall, NEW w \in Windows, NEW d \in Channels, CallBegins(w, d)
  PROVE  AskInv'
<1>0. TypeOK /\ AskInv
  BY DEF AInv, JInv, IInv
<1>1. /\ UNCHANGED <<desired, pending, nudged, deferred, session, network>>
      /\ \A v \in Windows : call'[v].pc # "forget"
  BY <1>0, BeginMoves
<1>2. \A c : ~Parting(c) /\ ~Asking(c)
  BY DEF NoCall, Parting, Asking, Parts, Asks
<1>3. \A c \in Channels : Due(c)' => Asked(c)'
  BY <1>0, <1>1, <1>2, SameAsked DEF Due, AskInv, session, network
<1> QED
  BY <1>0, <1>1, <1>3 DEF AskInv, session

\* No call moves; what is due was due, and stays asked for.
LEMMA OthersAsked ==
  ASSUME AskInv, call' = call, desired' \subseteq desired,
         stage' \notin {"off", "closing"} => writer',
         \A c \in Channels : Due(c)' => Due(c) /\ (Asked(c) => Asked(c)')
  PROVE  AskInv'
BY DEF AskInv

LEMMA SessionAsked ==
  ASSUME AInv, SessionStep
  PROVE  AskInv'
<1> USE DEF books, session, network
<1>0. TypeOK /\ AskInv /\ JoinInv
  BY DEF AInv, JInv, IInv
<1>1. CASE Connect
  <2>1. /\ writer' /\ stage' = "up" /\ desired' = desired
        /\ call' = [w \in Windows |-> [call[w] EXCEPT !.via = FALSE]]
    BY <1>1 DEF Connect
  <2>2. \A w \in Windows : call'[w].pc = call[w].pc /\ call'[w].ch = call[w].ch
    BY <1>0, <2>1 DEF TypeOK, CallRecords
  <2> QED
    BY <1>0, <2>1, <2>2 DEF AskInv, Due
<1>2. CASE ListChannels
  <2>1. /\ stage = "up" /\ stage' = "burst" /\ UNCHANGED <<call, desired, writer>>
    BY <1>2 DEF ListChannels
  <2>2. ASSUME NEW c \in Channels, c \in desired PROVE Listed(c)'
    <3>1. PICK now \in SUBSET desired : burst' = [now |-> now, later |-> desired \ now]
      BY <1>2, <2>2 DEF ListChannels
    <3> QED
      BY <2>1, <2>2, <3>1 DEF Listed
  <2> QED
    BY <1>0, <2>1, <2>2 DEF AskInv, Due, Asked
<1>3. CASE BurstJoin \/ PacedJoin
  <2>1. /\ UNCHANGED <<books, call, writer, link, inRoom, suspended>>
        /\ \/ stage = "burst" /\ stage' = "joined" /\ burst' = burst
           \/ stage = "run" /\ stage' = "run"
    BY <1>3 DEF BurstJoin, PacedJoin
  <2>2. \A c \in Channels : Due(c)' => Due(c) /\ (Asked(c) => Asked(c)')
    BY <2>1, SameCall DEF Due, Asked, Explained, Followed, Listed
  <2> QED
    BY <1>0, <2>1, <2>2, OthersAsked DEF AskInv
<1>4. CASE BurstRecord
  <2> DEFINE cs == burst.now \cup burst.later
  <2>1. cs \in SUBSET Channels
    BY <1>0 DEF TypeOK
  <2>2. /\ RecordSent(cs, FALSE) /\ stage = "joined" /\ stage' = "run"
        /\ UNCHANGED <<desired, call, writer, link, inRoom, suspended>>
    BY <1>4 DEF BurstRecord
  <2>3. ASSUME NEW c \in Channels, Due(c)' PROVE Due(c) /\ (Asked(c) => Asked(c)')
    <3>1. Due(c)
      BY <2>2, <2>3, SameCall DEF Due
    <3>2. CASE c \in cs
      BY <1>0, <2>1, <2>2, <3>1, <3>2, RecordedAsked DEF Asked
    <3>3. CASE c \notin cs
      <4>1. Followed(c)' = Followed(c) /\ (c \in deferred)' = (c \in deferred)
        BY <1>0, <2>1, <2>2, <3>3, RecordedAsked
      <4> QED
        BY <2>2, <3>1, <3>3, <4>1 DEF Asked, Explained, Listed
    <3> QED
      BY <3>2, <3>3
  <2> QED
    BY <1>0, <2>2, <2>3, OthersAsked DEF AskInv
<1>5. CASE SessionEnds \/ ClearTracker
  <2>1. stage' \in {"off", "closing"} /\ UNCHANGED <<call, desired>>
    BY <1>5 DEF SessionEnds, ClearTracker
  <2> QED
    BY <1>0, <2>1 DEF AskInv, Due
<1>6. ASSUME NEW d \in Channels, Read(d) PROVE AskInv'
  <2>1. UNCHANGED <<call, stage, burst, writer, link, inRoom, suspended>> /\ desired' \subseteq desired
    BY <1>6 DEF Read
  <2>2. ASSUME NEW c \in Channels, Due(c)' PROVE Due(c) /\ (Asked(c) => Asked(c)')
    <3>1. Due(c)
      BY <2>1, <2>2, SameCall DEF Due
    <3>2. CASE Confirm(d) /\ "frame" \in inbound[d]
      <4>1. CASE c = d
        <5>1. Clean(c)
          BY <1>0, <3>1 DEF JoinInv, Sound, Wanted, Due
        <5> QED
          BY <2>1, <3>1, <3>2, <4>1, <5>1 DEF Clean, Asked, Explained
      <4>2. CASE c # d
        <5>1. pending'[c] = pending[c] /\ (c \in nudged' <=> c \in nudged)
              /\ (c \in deferred' <=> c \in deferred)
          BY <1>0, <3>2, <4>2 DEF Confirm, TypeOK
        <5> QED
          BY <2>1, <3>1, <5>1 DEF Asked, Explained, Followed, Listed
      <4> QED
        BY <4>1, <4>2
    <3>3. CASE UNCHANGED <<pending, nudged, deferred>>
      BY <2>1, <3>1, <3>3, SameAsked
    <3>4. CASE Forget({d}) /\ desired' = desired \ {d}
      <4>1. c # d
        BY <2>2, <3>4 DEF Due
      <4> QED
        BY <2>1, <3>1, <3>4, <4>1 DEF Asked, Explained, Followed, Listed, Forget
    <3> QED
      BY <1>6, <3>2, <3>3, <3>4 DEF Read
  <2> QED
    BY <1>0, <2>1, <2>2, OthersAsked DEF AskInv
<1> QED
  BY <1>1, <1>2, <1>3, <1>4, <1>5, <1>6 DEF SessionStep

LEMMA WatchAsked ==
  ASSUME AInv, WatchStep
  PROVE  AskInv'
<1> USE DEF books, session, network
<1>0. TypeOK /\ AskInv
  BY DEF AInv, JInv, IInv
<1>1. ASSUME UNCHANGED <<books, call, stage, burst, writer, link, inRoom, suspended>>
      PROVE  AskInv'
  <2>1. \A c \in Channels : Due(c)' => Due(c) /\ (Asked(c) => Asked(c)')
    BY <1>1, SameCall, SameAsked DEF Due
  <2> QED
    BY <1>0, <1>1, <2>1, OthersAsked DEF AskInv
<1>2. ASSUME NEW d \in Channels, WatchJoins(d) PROVE AskInv'
  BY <1>1, <1>2 DEF WatchJoins
<1>3. CASE WatchLooks
  BY <1>1, <1>3 DEF WatchLooks
<1>4. CASE WatchRecords
  <2>1. /\ RecordSent({watch.ch}, FALSE) /\ {watch.ch} \in SUBSET Channels
        /\ UNCHANGED <<desired, call, stage, burst, writer, link, inRoom, suspended>>
    BY <1>0, <1>4 DEF WatchRecords, TypeOK, Lists
  <2>2. ASSUME NEW c \in Channels, Due(c)' PROVE Due(c) /\ (Asked(c) => Asked(c)')
    <3>1. Due(c)
      BY <2>1, <2>2, SameCall DEF Due
    <3>2. CASE c = watch.ch
      BY <1>0, <2>1, <3>1, <3>2, RecordedAsked DEF Asked
    <3>3. CASE c # watch.ch
      <4>1. Followed(c)' = Followed(c) /\ (c \in deferred)' = (c \in deferred)
        BY <1>0, <2>1, <3>3, RecordedAsked
      <4> QED
        BY <2>1, <3>1, <4>1 DEF Asked, Explained, Listed
    <3> QED
      BY <3>2, <3>3
  <2> QED
    BY <1>0, <2>1, <2>2, OthersAsked DEF AskInv
<1>5. ASSUME NEW d \in Channels, WatchGivesUp(d) PROVE AskInv'
  <2>1. /\ pending' = [pending EXCEPT ![d] = 0] /\ nudged' = nudged \ {d}
        /\ deferred' = IF pending[d] > 0 THEN deferred \cup {d} ELSE deferred
        /\ UNCHANGED <<desired, call, stage, burst, writer, link, inRoom, suspended>>
    BY <1>5 DEF WatchGivesUp
  <2>2. ASSUME NEW c \in Channels, Due(c)' PROVE Due(c) /\ (Asked(c) => Asked(c)')
    <3>1. Due(c)
      BY <2>1, <2>2, SameCall DEF Due
    <3>2. CASE c = d /\ pending[c] > 0
      BY <2>1, <3>1, <3>2 DEF Asked, Explained
    <3>3. CASE ~(c = d /\ pending[c] > 0)
      <4>1. Followed(c) => Followed(c)'
        BY <1>0, <2>1, <3>3 DEF Followed, TypeOK
      <4> QED
        BY <2>1, <3>1, <4>1 DEF Asked, Explained, Listed
    <3> QED
      BY <3>2, <3>3
  <2> QED
    BY <1>0, <2>1, <2>2, OthersAsked DEF AskInv
<1>6. CASE WatchShuts
  <2>1. ~link' /\ UNCHANGED <<desired, call, stage, writer>>
    BY <1>6 DEF WatchShuts, SocketGone
  <2> QED
    BY <1>0, <2>1 DEF AskInv, Due
<1> QED
  BY <1>2, <1>3, <1>4, <1>5, <1>6 DEF WatchStep

LEMMA ServerAsked ==
  ASSUME AInv, Environment
  PROVE  AskInv'
<1> USE DEF books, session, network
<1>0. TypeOK /\ AskInv /\ JoinInv
  BY DEF AInv, JInv, IInv
<1>1. CASE SocketDies
  <2>1. ~link' /\ UNCHANGED <<desired, call, stage, writer>>
    BY <1>1 DEF SocketDies, SocketGone
  <2> QED
    BY <1>0, <2>1 DEF AskInv, Due
<1>2. ASSUME UNCHANGED <<books, call, stage, burst, writer, link>>,
             \A c \in Channels : Due(c) => (Explained(c) => Explained(c)')
      PROVE  AskInv'
  <2>1. \A c \in Channels : Due(c)' => Due(c) /\ (Asked(c) => Asked(c)')
    BY <1>2, SameCall DEF Due, Asked, Followed, Listed
  <2> QED
    BY <1>0, <1>2, <2>1, OthersAsked DEF AskInv
<1>3. CASE CoolsDown \/ \E c \in Channels : ServerTalks(c) \/ JoinLost(c) \/ Suspend(c)
  <2>1. /\ UNCHANGED <<books, call, stage, burst, writer, link>>
        /\ inRoom \subseteq inRoom' \cup suspended' /\ suspended \subseteq suspended'
    BY <1>3 DEF CoolsDown, ServerTalks, JoinLost, Suspend
  <2> QED
    BY <1>2, <2>1 DEF Explained
<1>4. ASSUME NEW d \in Channels, ServerTakes(d) PROVE AskInv'
  <2>1. /\ wire[d] # <<>> /\ wire' = [wire EXCEPT ![d] = Tail(@)]
        /\ UNCHANGED <<books, call, stage, burst, writer, link, suspended>>
        /\ \/ Head(wire[d]) = "PART" /\ inRoom' = inRoom \ {d}
           \/ inRoom \subseteq inRoom'
    BY <1>4 DEF ServerTakes
  <2>2. ASSUME NEW c \in Channels, Due(c), Explained(c) PROVE Explained(c)'
    <3>1. Clean(c)
      BY <1>0, <2>2 DEF JoinInv, Sound, Wanted, Due
    <3>2. CASE c \in suspended
      BY <2>1, <3>2 DEF Explained
    <3>3. CASE AllJoins(wire[c])
      <4>1. c = d => Head(wire[d]) = "JOIN"
        BY <1>0, <2>1, <3>3, LineGone
      <4> QED
        BY <2>1, <2>2, <4>1 DEF Explained
    <3> QED
      BY <3>1, <3>2, <3>3 DEF Clean
  <2> QED
    BY <1>2, <2>1, <2>2
<1> QED
  BY <1>1, <1>3, <1>4 DEF Environment

LEMMA ANextInv == AInv /\ [PatientNext]_vars => AInv'
<1>1. ASSUME AInv, NEW w \in Windows, CallStep(w) PROVE AskInv'
  BY <1>1, EnsureAsked, ClaimsAsked, PartAsked, NudgeAsked, StopAsked DEF CallStep
<1>2. ASSUME AInv, Work PROVE AskInv'
  BY <1>1, <1>2, SessionAsked, WatchAsked, ServerAsked DEF Work
<1>3. ASSUME AInv, PatientNext, ~Work PROVE AskInv'
  BY <1>3, BeginAsked DEF PatientNext
<1>4. ASSUME AInv, UNCHANGED vars PROVE AskInv'
  <2>1. UNCHANGED <<pending, nudged, deferred, inRoom, suspended, stage, burst, link, desired,
                    call, writer>>
    BY <1>4 DEF vars, books, session, network
  <2>2. \A c \in Channels : Due(c)' => Due(c) /\ (Asked(c) => Asked(c)')
    BY <2>1, SameCall, SameAsked DEF Due
  <2> QED
    BY <1>4, <2>1, <2>2, OthersAsked DEF AInv, AskInv
<1> QED
  BY <1>2, <1>3, <1>4, JNextInv DEF AInv

(* While the windows take turns, nobody forgets a channel that a window     *)
(* holds: from the burst of a session on, the connection is in it, or its   *)
(* JOIN is in the tracker for the watchdog, or Twitch or the watchdog has   *)
(* said that it is given up (irc_session, ensure_joined, nudge_channels).   *)
THEOREM ClaimsAreAsked == PatientSpec => []ClaimedAsked
<1>1. Init => AInv
  BY JInitInv DEF Init, AInv, AskInv, Due, Idle
<1>2. AInv => ClaimedAsked
  <2> SUFFICES ASSUME AInv, NoCall, stage = "run", link,
                      NEW c \in Channels, claims[c] # {}
               PROVE  c \in inRoom \cup suspended \cup deferred \/ Followed(c)
    BY DEF ClaimedAsked
  <2>1. c \in desired \/ c \in suspended
    BY DEF AInv, JInv, IInv, CallInv, Held, Covered, Excuses, NoCall
  <2>2. ~Parting(c) /\ ~Asking(c)
    BY DEF NoCall, Parting, Asking, Parts, Asks
  <2>3. c \in desired => Asked(c)
    BY <2>2 DEF AInv, AskInv, Due
  <2> QED
    BY <2>1, <2>3 DEF Asked, Explained, Listed
<1> QED
  BY <1>1, <1>2, ANextInv, PTL DEF PatientSpec

=============================================================================
