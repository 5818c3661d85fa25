--------------------------- MODULE LivePoll_proofs ---------------------------
(***************************************************************************)
(* Proofs about LivePoll, for any number of channels, workers, broadcasts  *)
(* and upsets.                                                             *)
(***************************************************************************)
EXTENDS LivePoll, TLAPS

Polls == [pc : {"idle", "asks", "decides", "posts"}, muted : SUBSET Channels,
          streams : [Channels -> Numbers], alerts : SUBSET Channels]
Pushed == [pc : {"idle", "posts"}, c : Channels, b : Numbers]
Tellings == [Channels -> [Broadcasts -> 0..2]]
Pairs == Channels \X Broadcasts

\* Nobody knows of a broadcast that has not begun, only a worker that posts has
\* alerts, and what the push service posts is a broadcast.
Aired(c) ==
    /\ live[c] \in {0, aired[c]}
    /\ \A b \in Broadcasts : pushes[c][b] > 0 => b <= aired[c]
    /\ \A w \in Pollers : poll[w].streams[c] <= aired[c]
Handed ==
    /\ \A w \in Pollers : poll[w].pc # "posts" => poll[w].alerts = {}
    /\ push.pc = "posts" => push.b # 0

TInv == TypeOK /\ Handed /\ \A c \in Channels : Aired(c)

LEMMA NumbersAre ==
  /\ Numbers \subseteq Nat /\ Broadcasts \subseteq Numbers \ {0}
  /\ 0 \in Numbers /\ 1 \in Broadcasts /\ \A b \in Numbers : b # 0 => b \in Broadcasts
  BY PollConstants DEF Numbers, Broadcasts

LEMMA IdleTyped ==
  /\ Nothing \in [Channels -> Numbers] /\ IdlePoll \in Polls /\ IdlePush \in Pushed
  /\ IdlePoll.pc = "idle" /\ IdlePoll.alerts = {} /\ IdlePoll.streams = Nothing
  /\ IdlePush.pc = "idle"
<1>1. Nothing \in [Channels -> Numbers]
  BY NumbersAre DEF Nothing
<1>2. IdlePoll \in Polls
  BY <1>1 DEF IdlePoll, Polls
<1>3. (CHOOSE c \in Channels : TRUE) \in Channels
  BY PollConstants
<1>4. IdlePush \in Pushed
  BY <1>3, NumbersAre DEF IdlePush, Pushed
<1> QED
  BY <1>1, <1>2, <1>4 DEF IdlePoll, IdlePush

LEMMA Typed ==
  ASSUME TInv
  PROVE  /\ live \in [Channels -> Numbers] /\ aired \in [Channels -> Numbers]
         /\ pushes \in Tellings /\ told \in Tellings
         /\ record \in [Channels -> Numbers] /\ \A c \in Channels : record[c] <= aired[c]
         /\ poll \in [Pollers -> Polls] /\ push \in Pushed
         /\ silent \subseteq Pairs /\ early \subseteq Pairs
         /\ \A w \in Pollers : /\ poll[w] \in Polls /\ Streams(w) \in [Channels -> Numbers]
                               /\ \A c \in poll[w].alerts : Streams(w)[c] # 0
  BY DEF TInv, TypeOK, Polls, Pushed, Tellings, Pairs, Streams

LEMMA Counted ==
  ASSUME TInv, NEW c \in Channels
  PROVE  aired[c] \in Nat /\ live[c] \in Nat /\ record[c] \in Nat /\ 0 <= aired[c]
  BY PollConstants DEF TInv, TypeOK, Numbers

(* The upsets stay within their number.                                     *)
LEMMA Upset ==
  ASSUME TInv,
         \/ UNCHANGED bounds
         \/ UNCHANGED faults /\ UNCHANGED mutes /\ Calm /\ ends' = ends + 1
         \/ UNCHANGED ends /\ UNCHANGED mutes /\ Calm /\ faults' = faults + 1
         \/ UNCHANGED ends /\ UNCHANGED faults /\ Calm /\ mutes' = mutes + 1
  PROVE  /\ mutes' \in Nat /\ faults' \in Nat /\ ends' \in Nat
         /\ mutes' + faults' + ends' <= MaxUpsets
  BY PollConstants DEF TInv, TypeOK, bounds, Calm

LEMMA SavesTyped ==
  ASSUME TInv, NEW new \in [Channels -> Numbers], Saves(new),
         \A c \in Channels : new[c] <= aired[c]
  PROVE  /\ record' \in [Channels -> Numbers] /\ exists' \in BOOLEAN
         /\ \A c \in Channels : record'[c] <= aired[c]
         /\ \/ UNCHANGED faults
            \/ Calm /\ faults' = faults + 1
<1>1. \A c \in Channels : Nothing[c] = 0 /\ 0 <= aired[c]
  BY Counted DEF Nothing
<1> QED
  BY <1>1, IdleTyped DEF Saves, TInv, TypeOK, file

LEMMA TellsTyped ==
  ASSUME TInv, NEW c \in Channels, NEW b \in Numbers, Tells(c, b)
  PROVE  told' \in Tellings
<1>1. told[c] \in [Broadcasts -> 0..2]
  BY DEF TInv, TypeOK
<1> DEFINE row == [told[c] EXCEPT ![b] = IF @ < 2 THEN @ + 1 ELSE @]
<1>2. row \in [Broadcasts -> 0..2]
  <2>1. \A n \in 0..2 : (IF n < 2 THEN n + 1 ELSE n) \in 0..2
    OBVIOUS
  <2>2. row = [x \in Broadcasts |->
                 IF x = b THEN IF told[c][x] < 2 THEN told[c][x] + 1 ELSE told[c][x]
                 ELSE told[c][x]]
    BY <1>1
  <2> QED
    BY <1>1, <2>1, <2>2
<1>3. told' = [told EXCEPT ![c] = row]
  BY <1>1 DEF Tells
<1> HIDE DEF row
<1> QED
  BY <1>2, <1>3 DEF TInv, TypeOK, Tellings

(* What a worker does to the workers.                                       *)
LEMMA PollTyped ==
  ASSUME TInv, NEW w \in Pollers, NEW p \in Polls, poll' = [poll EXCEPT ![w] = p],
         p.pc # "posts" => p.alerts = {},
         \A c \in p.alerts : p.streams[c] # 0,
         \A c \in Channels : p.streams[c] <= aired[c]
  PROVE  /\ poll' \in [Pollers -> Polls]
         /\ \A v \in Pollers : \A c \in poll'[v].alerts : poll'[v].streams[c] # 0
         /\ \A v \in Pollers : poll'[v].pc # "posts" => poll'[v].alerts = {}
         /\ \A c \in Channels : \A v \in Pollers : poll'[v].streams[c] <= aired[c]
<1>1. poll' \in [Pollers -> Polls] /\ poll'[w] = p /\ \A v \in Pollers \ {w} : poll'[v] = poll[v]
  BY Typed
<1> QED
  BY <1>1, Typed DEF TInv, Handed, Aired, Streams

LEMMA NothingAired ==
  ASSUME TInv PROVE \A c \in Channels : IdlePoll.streams[c] <= aired[c]
  BY Counted, IdleTyped DEF Nothing

LEMMA PollsTyped ==
  ASSUME TInv, NEW w \in Pollers, Poll(w)
  PROVE  TInv'
<1>0. UNCHANGED <<live, aired, pushes, muted, push, early>>
  BY DEF Poll, PollBegins, PollHears, Hears, FetchFails, PollDecides, PollPosts, twitch
<1>1. SUFFICES /\ poll' \in [Pollers -> Polls]
               /\ \A v \in Pollers : \A c \in poll'[v].alerts : poll'[v].streams[c] # 0
               /\ \A v \in Pollers : poll'[v].pc # "posts" => poll'[v].alerts = {}
               /\ \A c \in Channels : \A v \in Pollers : poll'[v].streams[c] <= aired[c]
               /\ told' \in Tellings /\ silent' \subseteq Pairs
               /\ record' \in [Channels -> Numbers] /\ exists' \in BOOLEAN
               /\ \A c \in Channels : record'[c] <= aired[c]
               /\ mutes' \in Nat /\ faults' \in Nat /\ ends' \in Nat
               /\ mutes' + faults' + ends' <= MaxUpsets
  BY <1>0 DEF TInv, TypeOK, Handed, Aired, Polls, Tellings, Pairs
<1>2. CASE PollBegins(w)
  <2> DEFINE p == [poll[w] EXCEPT !.pc = "asks", !.muted = muted]
  <2>1. poll' = [poll EXCEPT ![w] = p] /\ poll[w].pc = "idle"
    BY <1>2, Typed DEF PollBegins
  <2>2. /\ p \in Polls /\ p.alerts = poll[w].alerts /\ p.streams = poll[w].streams
        /\ p.alerts = {}
    BY <2>1, Typed DEF Polls, TInv, TypeOK, Handed
  <2> HIDE DEF p
  <2>3. \A c \in Channels : p.streams[c] <= aired[c]
    BY <2>2 DEF TInv, Aired
  <2> QED
    BY <1>2, <2>1, <2>2, <2>3, PollTyped, Typed, Upset
       DEF PollBegins, TInv, TypeOK, file, bounds
<1>3. CASE PollHears(w)
  <2>1. PICK listed \in SUBSET Channels : Hears(w, listed)
    BY <1>3 DEF PollHears
  <2> DEFINE heard == [c \in Channels |-> IF c \in listed THEN live[c] ELSE 0]
             p == [poll[w] EXCEPT !.pc = "decides", !.streams = heard]
  <2>2. poll' = [poll EXCEPT ![w] = p] /\ poll[w].pc = "asks"
    BY <2>1, Typed DEF Hears
  <2>3. heard \in [Channels -> Numbers] /\ \A c \in Channels : heard[c] <= aired[c]
    <3>1. \A c \in Channels : heard[c] \in {0, live[c]}
      OBVIOUS
    <3>2. heard \in [Channels -> Numbers]
      BY <3>1, Typed, NumbersAre
    <3> HIDE DEF heard
    <3>3. \A c \in Channels : 0 <= aired[c] /\ live[c] <= aired[c]
      BY Typed, Counted, NumbersAre DEF TInv, Aired
    <3> QED
      BY <3>1, <3>2, <3>3
  <2> HIDE DEF heard
  <2>4. p \in Polls /\ p.alerts = {} /\ p.streams = heard
    BY <2>2, <2>3, Typed DEF Polls, TInv, Handed
  <2> HIDE DEF p
  <2> QED
    BY <2>1, <2>2, <2>3, <2>4, PollTyped, Typed, Upset
       DEF Hears, TInv, TypeOK, file, bounds
<1>4. CASE FetchFails(w)
  <2>1. poll' = [poll EXCEPT ![w] = IdlePoll]
    BY <1>4 DEF FetchFails
  <2> QED
    BY <1>4, <2>1, IdleTyped, NothingAired, PollTyped, Typed, Upset
       DEF FetchFails, TInv, TypeOK, file, bounds
<1>5. CASE PollDecides(w)
  <2>1. PICK old \in SUBSET Aged : Saves(Decided(w, old))
    BY <1>5 DEF PollDecides
  <2>2. /\ Decided(w, old) \in [Channels -> Numbers]
        /\ \A c \in Channels : Decided(w, old)[c] <= aired[c]
    BY Typed, Counted, NumbersAre DEF Decided, TInv, Aired, Streams
  <2>3. New(w) \subseteq Channels /\ \A c \in New(w) : Streams(w)[c] # 0
    BY DEF New, Considered
  <2>4. PICK alerts \in {New(w), {}} :
            /\ poll' = [poll EXCEPT ![w] =
                   IF alerts = {} THEN IdlePoll
                   ELSE [poll[w] EXCEPT !.pc = "posts", !.muted = {}, !.alerts = alerts]]
            /\ poll[w].pc = "decides"
    BY <1>5, Typed DEF PollDecides
  <2> DEFINE q == [poll[w] EXCEPT !.pc = "posts", !.muted = {}, !.alerts = alerts]
  <2>5. /\ q \in Polls /\ q.pc = "posts" /\ q.alerts = alerts /\ q.streams = Streams(w)
    BY <2>3, <2>4, Typed DEF Polls, Streams
  <2> HIDE DEF q
  <2>6. PICK p \in {IdlePoll, q} : poll' = [poll EXCEPT ![w] = p]
    BY <2>4 DEF q
  <2>7. /\ p \in Polls
        /\ p.pc # "posts" => p.alerts = {}
        /\ \A c \in p.alerts : p.streams[c] # 0
        /\ \A c \in Channels : p.streams[c] <= aired[c]
    BY <2>3, <2>5, <2>4, IdleTyped, NothingAired DEF TInv, Aired, Streams
  <2>8. \A c \in New(w) : <<c, Streams(w)[c]>> \in Pairs
    BY <2>3, Typed, NumbersAre DEF Pairs
  <2>9. silent' \subseteq Pairs
    BY <1>5, <2>8, Typed DEF PollDecides
  <2> QED
    BY <1>5, <2>1, <2>2, <2>6, <2>7, <2>9, SavesTyped, PollTyped, Typed, Upset
       DEF PollDecides, bounds
<1>6. CASE PollPosts(w)
  <2>1. PICK c \in poll[w].alerts :
           /\ Tells(c, Streams(w)[c])
           /\ poll' = [poll EXCEPT ![w] =
                   IF poll[w].alerts = {c} THEN IdlePoll
                   ELSE [poll[w] EXCEPT !.alerts = poll[w].alerts \ {c}]]
    BY <1>6 DEF PollPosts
  <2>2. c \in Channels /\ Streams(w)[c] \in Numbers
    BY Typed DEF Polls
  <2> DEFINE q == [poll[w] EXCEPT !.alerts = poll[w].alerts \ {c}]
  <2>3. /\ q \in Polls /\ q.pc = "posts" /\ q.alerts \subseteq poll[w].alerts
        /\ q.streams = Streams(w)
    BY <1>6, Typed DEF PollPosts, Polls, Streams
  <2> HIDE DEF q
  <2>4. PICK p \in {IdlePoll, q} : poll' = [poll EXCEPT ![w] = p]
    BY <2>1 DEF q
  <2>5. /\ p \in Polls
        /\ p.pc # "posts" => p.alerts = {}
        /\ \A d \in p.alerts : p.streams[d] # 0
        /\ \A d \in Channels : p.streams[d] <= aired[d]
    BY <2>3, <2>4, Typed, IdleTyped, NothingAired DEF TInv, Aired, Streams
  <2> QED
    BY <1>6, <2>1, <2>2, <2>4, <2>5, TellsTyped, PollTyped, Typed, Upset
       DEF PollPosts, TInv, TypeOK, file, bounds
<1> QED
  BY <1>2, <1>3, <1>4, <1>5, <1>6 DEF Poll

LEMMA ArrivesTyped ==
  ASSUME TInv, NEW c \in Channels, NEW b \in Broadcasts, Arrives(c, b)
  PROVE  /\ pushes' \in Tellings /\ b <= aired[c]
         /\ \A d \in Channels : \A n \in Broadcasts : pushes'[d][n] > 0 => pushes[d][n] > 0
<1>1. pushes[c] \in [Broadcasts -> 0..2] /\ pushes[c][b] \in 1..2
  BY DEF TInv, TypeOK, Arrives
<1> DEFINE row == [pushes[c] EXCEPT ![b] = @ - 1]
<1>2. row \in [Broadcasts -> 0..2] /\ row[b] = pushes[c][b] - 1
      /\ \A n \in Broadcasts \ {b} : row[n] = pushes[c][n]
  <2>1. pushes[c][b] - 1 \in 0..2
    BY <1>1
  <2> QED
    BY <1>1, <2>1
<1>3. pushes' = [pushes EXCEPT ![c] = row]
  BY DEF Arrives
<1> HIDE DEF row
<1>4. /\ pushes' \in Tellings /\ pushes'[c] = row
      /\ \A d \in Channels \ {c} : pushes'[d] = pushes[d]
  BY <1>2, <1>3 DEF TInv, TypeOK, Tellings
<1>5. \A d \in Channels : \A n \in Broadcasts : pushes'[d][n] > 0 => pushes[d][n] > 0
  BY <1>1, <1>2, <1>4
<1>6. b <= aired[c]
  BY <1>1 DEF TInv, Aired
<1> QED
  BY <1>4, <1>5, <1>6

LEMMA PushTyped ==
  ASSUME TInv, NEW c \in Channels, NEW b \in Broadcasts, Push(c, b)
  PROVE  TInv'
<1>0. /\ Arrives(c, b) /\ UNCHANGED <<live, aired, muted, poll, told, silent, mutes, ends>>
  BY DEF Push, PushMuted, PushEarly, PushClaims, bounds
<1>1. b \in Numbers /\ b # 0 /\ <<c, b>> \in Pairs
  BY NumbersAre DEF Pairs
<1>2. [pc |-> "posts", c |-> c, b |-> b] \in Pushed
  BY <1>1 DEF Pushed
<1>3. SUFFICES /\ push' \in Pushed
               /\ push'.pc = "posts" => push'.b # 0
               /\ early' \subseteq Pairs
               /\ record' \in [Channels -> Numbers] /\ exists' \in BOOLEAN
               /\ \A d \in Channels : record'[d] <= aired[d]
               /\ mutes' \in Nat /\ faults' \in Nat /\ ends' \in Nat
               /\ mutes' + faults' + ends' <= MaxUpsets
  BY <1>0, ArrivesTyped DEF TInv, TypeOK, Handed, Aired, Pushed, Tellings, Pairs
<1>4. CASE PushMuted(c, b)
  BY <1>4, Typed, Upset DEF PushMuted, TInv, TypeOK, Handed, file, bounds
<1>5. CASE PushEarly(c, b)
  BY <1>1, <1>2, <1>5, Typed, Upset DEF PushEarly, TInv, TypeOK, file, bounds
<1>6. CASE PushClaims(c, b)
  <2> DEFINE new == IF Claim(c, b) THEN [record EXCEPT ![c] = b] ELSE record
  <2>1. Saves(new)
    BY <1>6 DEF PushClaims
  <2>2. new \in [Channels -> Numbers] /\ \A d \in Channels : new[d] <= aired[d]
    BY <1>0, <1>1, ArrivesTyped, Typed
  <2> HIDE DEF new
  <2>3. /\ push' \in Pushed
        /\ push'.pc = "posts" => push'.b # 0
    BY <1>1, <1>2, <1>6, Typed DEF PushClaims, TInv, Handed
  <2>4. early' \subseteq Pairs
    BY <1>6, Typed DEF PushClaims
  <2> QED
    BY <1>0, <2>1, <2>2, <2>3, <2>4, SavesTyped, Upset DEF bounds
<1> QED
  BY <1>4, <1>5, <1>6 DEF Push

LEMMA LivesTyped ==
  ASSUME TInv, NEW c \in Channels, GoesLive(c)
  PROVE  /\ TInv' /\ aired[c] + 1 \in Broadcasts /\ live'[c] = aired[c] + 1
         /\ \A d \in Channels \ {c} : live'[d] = live[d] /\ pushes'[d] = pushes[d]
         /\ \A b \in Broadcasts \ {aired[c] + 1} : pushes'[c][b] = pushes[c][b]
<1>1. /\ aired[c] + 1 \in Broadcasts /\ aired[c] + 1 \in Numbers
      /\ live' = [live EXCEPT ![c] = aired[c] + 1]
      /\ aired' = [aired EXCEPT ![c] = aired[c] + 1]
      /\ aired[c] < aired[c] + 1 /\ aired[c] \in Nat
  BY Counted, PollConstants DEF GoesLive, Numbers, Broadcasts
<1>2. PICK n \in {0, 2} : pushes' = [pushes EXCEPT ![c][aired[c] + 1] = n]
  BY DEF GoesLive
<1> DEFINE row == [pushes[c] EXCEPT ![aired[c] + 1] = n]
<1>3. row \in [Broadcasts -> 0..2] /\ \A b \in Broadcasts \ {aired[c] + 1} : row[b] = pushes[c][b]
  BY <1>1 DEF TInv, TypeOK
<1>4. pushes' = [pushes EXCEPT ![c] = row]
  BY <1>2
<1> HIDE DEF row
<1>5. /\ pushes' \in Tellings
      /\ \A d \in Channels \ {c} : pushes'[d] = pushes[d]
      /\ \A b \in Broadcasts \ {aired[c] + 1} : pushes'[c][b] = pushes[c][b]
  BY <1>3, <1>4 DEF TInv, TypeOK, Tellings
<1>6. live' \in [Channels -> Numbers] /\ aired' \in [Channels -> Numbers]
  BY <1>1 DEF TInv, TypeOK
<1>7. \A d \in Channels : Aired(d)' /\ record[d] <= aired'[d]
  <2> TAKE d \in Channels
  <2>1. \A w \in Pollers : poll[w].streams[d] \in Nat
    BY Typed, NumbersAre DEF Streams
  <2>2. CASE d # c
    BY <1>1, <1>5, <2>2 DEF GoesLive, TInv, TypeOK, Aired
  <2>3. CASE d = c
    <3>1. aired'[c] = aired[c] + 1 /\ live'[c] = aired[c] + 1
      BY <1>1 DEF TInv, TypeOK
    <3>2. \A b \in Broadcasts : pushes'[c][b] > 0 => b <= aired[c] + 1
      <4> TAKE b \in Broadcasts
      <4>1. b \in Nat
        BY NumbersAre
      <4> QED
        BY <1>1, <1>5, <4>1 DEF TInv, Aired
    <3>3. \A w \in Pollers : poll[w].streams[c] <= aired[c] + 1
      BY <1>1, <2>1, <2>3 DEF TInv, Aired
    <3>4. record[c] <= aired[c] + 1
      BY <1>1, Counted DEF TInv, TypeOK
    <3> QED
      BY <2>3, <3>1, <3>2, <3>3, <3>4 DEF GoesLive, Aired
  <2> QED
    BY <2>2, <2>3
<1>8. TInv'
  BY <1>5, <1>6, <1>7 DEF GoesLive, TInv, TypeOK, Handed, Tellings, file, bounds
<1> QED
  BY <1>1, <1>5, <1>8 DEF TInv, TypeOK

LEMMA KilledTyped ==
  ASSUME TInv, Killed
  PROVE  TInv'
<1>1. /\ poll' \in [Pollers -> Polls] /\ push' \in Pushed /\ push'.pc = "idle"
      /\ \A w \in Pollers : poll'[w] = IdlePoll
  BY IdleTyped DEF Killed
<1>4. silent' \subseteq Pairs
  BY Typed DEF Killed, Pairs
<1>5. mutes' \in Nat /\ faults' \in Nat /\ ends' \in Nat
      /\ mutes' + faults' + ends' <= MaxUpsets
  BY Upset DEF Killed
<1>6. \A c \in Channels : Aired(c)'
  BY <1>1, NothingAired, IdleTyped DEF Killed, Aired, TInv, twitch
<1> QED
  BY <1>1, <1>4, <1>5, <1>6, IdleTyped
     DEF Killed, TInv, TypeOK, Handed, Polls, Pushed, Pairs, twitch, file

LEMMA OthersTyped ==
  ASSUME TInv, PushPosts \/ \E c \in Channels : GoesOff(c) \/ Mutes(c)
  PROVE  TInv'
<1>1. CASE PushPosts
  <2>1. push.c \in Channels /\ push.b \in Numbers
    BY Typed DEF Pushed
  <2>2. told' \in Tellings /\ push' \in Pushed /\ push'.pc = "idle"
    BY <1>1, <2>1, TellsTyped, IdleTyped DEF PushPosts
  <2> QED
    BY <1>1, <2>2 DEF PushPosts, TInv, TypeOK, Handed, Aired, Tellings, Pushed, twitch, file,
                      bounds
<1>2. ASSUME NEW c \in Channels, GoesOff(c) PROVE TInv'
  <2>1. live' \in [Channels -> Numbers] /\ \A d \in Channels : live'[d] \in {0, live[d]}
    BY <1>2, NumbersAre DEF GoesOff, TInv, TypeOK
  <2> QED
    BY <1>2, <2>1 DEF GoesOff, TInv, TypeOK, Handed, Aired, file, bounds
<1>3. ASSUME NEW c \in Channels, Mutes(c) PROVE TInv'
  BY <1>3, Upset DEF Mutes, TInv, TypeOK, Handed, Aired, twitch, file
<1> QED
  BY <1>1, <1>2, <1>3

LEMMA TInvKept ==
  ASSUME TInv, [Next]_vars
  PROVE  TInv'
<1>1. CASE UNCHANGED vars
  BY <1>1 DEF vars, TInv, TypeOK, Handed, Aired
<1> QED
  BY <1>1, PollsTyped, PushTyped, LivesTyped, KilledTyped, OthersTyped DEF Next, Work

LEMMA InitTyped == Init => TInv
<1> SUFFICES ASSUME Init PROVE TInv
  OBVIOUS
<1>1. live \in [Channels -> Numbers] /\ \A c \in Channels : live[c] \in {0, 1}
  BY NumbersAre DEF Init, Numbers, Broadcasts
<1>2. pushes \in Tellings /\ told \in Tellings
      /\ \A c \in Channels : \A b \in Broadcasts : pushes[c][b] = 0
  BY DEF Init, Tellings
<1>3. \A c \in Channels : Nothing[c] = 0
  BY DEF Nothing
<1>4. mutes = 0 /\ faults = 0 /\ ends = 0
  BY DEF Init
<1> QED
  BY <1>1, <1>2, <1>3, <1>4, IdleTyped, PollConstants
     DEF Init, TInv, TypeOK, Handed, Aired, Polls, Pushed, Tellings

(* Every variable keeps its type, only what is live is announced, and the   *)
(* record is never ahead of what has aired.                                 *)
THEOREM TypeCorrect == Spec => []TypeOK
<1>1. TInv /\ [Next]_vars => TInv'
  BY TInvKept
<1>2. TInv => TypeOK
  BY DEF TInv
<1> QED
  BY <1>1, <1>2, InitTyped, PTL DEF Spec

-----------------------------------------------------------------------------
(* Each broadcast is announced once, as long as no write of the record      *)
(* fails.                                                                   *)

\* A broadcast that no lane will take up again: it is on record, or nothing that
\* names it is on its way.
Past(c, b) ==
    \/ b <= record[c]
    \/ /\ pushes[c][b] = 0 /\ live[c] # b /\ b <= aired[c]
       /\ \A w \in Pollers : poll[w].pc = "decides" => Streams(w)[c] # b

\* A broadcast is announced, dropped, or in one hand; and then it is past.
Told(c, b) == told[c][b] # 0
Dropped(c, b) == <<c, b>> \in silent
Used(c, b) ==
    Told(c, b) \/ Dropped(c, b) \/ Carries(c, b) \/ \E w \in Pollers : Holds(w, c, b)
Once(c, b) ==
    /\ told[c][b] <= 1
    /\ Told(c, b) => ~Dropped(c, b)
    /\ Told(c, b) \/ Dropped(c, b) => ~Carries(c, b)
    /\ Told(c, b) \/ Dropped(c, b) \/ Carries(c, b) => \A w \in Pollers : ~Holds(w, c, b)
    /\ \A v, w \in Pollers : Holds(v, c, b) /\ Holds(w, c, b) => v = w
    /\ Used(c, b) => Past(c, b)

\* Who is patient decides over the broadcasts that are on.
Fresh(w) ==
    poll[w].pc = "decides" => \A c \in Channels : Streams(w)[c] \in {0, aired[c]}

AInv ==
    /\ TInv /\ \A w \in Pollers : Fresh(w)
    /\ faults = 0 => \A c \in Channels, b \in Broadcasts : <<c, b>> \notin early => Once(c, b)

LEMMA FreshKept ==
  ASSUME AInv, [PatientNext]_vars, NEW w \in Pollers
  PROVE  Fresh(w)'
<1> SUFFICES ASSUME poll'[w].pc = "decides", NEW c \in Channels
             PROVE  poll'[w].streams[c] \in {0, aired'[c]}
  BY DEF Fresh, Streams
<1>0. poll \in [Pollers -> Polls]
  BY Typed DEF AInv
<1>1. CASE \E d \in Channels : GoesLive(d) /\ \A v \in Pollers : poll[v].pc # "decides"
  BY <1>1 DEF GoesLive
<1>2. ASSUME NEW v \in Pollers, Poll(v) PROVE poll'[w].streams[c] \in {0, aired'[c]}
  <2>1. aired' = aired
    BY <1>2 DEF Poll, PollBegins, PollHears, Hears, FetchFails, PollDecides, PollPosts, twitch
  <2>2. CASE v # w
    <3>1. poll'[w] = poll[w]
      BY <1>2, <2>2, <1>0 DEF Poll, PollBegins, PollHears, Hears, FetchFails, PollDecides,
                              PollPosts
    <3> QED
      BY <2>1, <3>1 DEF AInv, Fresh, Streams
  <2>3. CASE v = w /\ PollHears(w)
    <3>1. PICK listed \in SUBSET Channels : Hears(w, listed)
      BY <2>3 DEF PollHears
    <3>2. poll'[w].streams[c] \in {0, live[c]}
      BY <1>0, <3>1 DEF Hears, Polls
    <3> QED
      BY <2>1, <3>2 DEF AInv, TInv, Aired
  <2>4. CASE v = w /\ ~PollHears(w)
    <3>1. CASE PollBegins(w)
      BY <1>0, <3>1 DEF PollBegins, Polls
    <3>2. CASE FetchFails(w)
      BY <1>0, <3>2, IdleTyped DEF FetchFails
    <3>3. CASE PollDecides(w)
      <4>1. PICK alerts \in SUBSET Channels : poll' = [poll EXCEPT ![w] =
                IF alerts = {} THEN IdlePoll
                ELSE [poll[w] EXCEPT !.pc = "posts", !.muted = {}, !.alerts = alerts]]
        BY <3>3 DEF PollDecides, New, Considered
      <4> QED
        BY <1>0, <4>1, IdleTyped DEF Polls
    <3>4. CASE PollPosts(w)
      <4>1. PICK d \in poll[w].alerts : poll' = [poll EXCEPT ![w] =
                IF poll[w].alerts = {d} THEN IdlePoll
                ELSE [poll[w] EXCEPT !.alerts = poll[w].alerts \ {d}]]
        BY <3>4 DEF PollPosts
      <4> QED
        BY <1>0, <3>4, <4>1, IdleTyped DEF PollPosts, Polls
    <3> QED
      BY <1>2, <2>4, <3>1, <3>2, <3>3, <3>4 DEF Poll
  <2> QED
    BY <2>2, <2>3, <2>4
<1>3. CASE Killed
  BY <1>3, IdleTyped DEF Killed
<1>4. CASE UNCHANGED <<poll, aired>>
  BY <1>4 DEF AInv, Fresh, Streams
<1> QED
  BY <1>1, <1>2, <1>3, <1>4
     DEF PatientNext, Work, Push, PushMuted, PushEarly, PushClaims, PushPosts, GoesOff, Mutes,
         twitch, vars

(* Nothing changes for a broadcast that nobody announces, drops or takes.   *)
LEMMA Frame ==
  ASSUME NEW c \in Channels, NEW b \in Broadcasts, Once(c, b),
         told'[c][b] = told[c][b], Dropped(c, b)' <=> Dropped(c, b),
         Carries(c, b)' <=> Carries(c, b),
         \A w \in Pollers : Holds(w, c, b)' <=> Holds(w, c, b),
         Past(c, b) => Past(c, b)'
  PROVE  Once(c, b)'
  BY DEF Once, Used, Told

\* What the lemmas below say of a step: it keeps what holds of one broadcast.
Sure(c, b) == faults' = 0 /\ <<c, b>> \notin early' /\ Once(c, b)

LEMMA DecidesOnce ==
  ASSUME AInv, NEW w \in Pollers, PollDecides(w), NEW c \in Channels, NEW b \in Broadcasts,
         Sure(c, b)
  PROVE  Once(c, b)'
<1>0. /\ poll \in [Pollers -> Polls] /\ b \in Nat /\ b # 0 /\ poll[w].pc = "decides"
      /\ UNCHANGED <<live, aired, pushes, told, push, early>>
      /\ ~Holds(w, c, b)
  BY Typed, NumbersAre DEF AInv, TInv, Handed, Holds, PollDecides, twitch
<1>1. /\ aired[c] \in Nat /\ record[c] \in Nat /\ live[c] \in {0, aired[c]}
      /\ record[c] <= aired[c] /\ Streams(w)[c] \in {0, aired[c]}
  BY <1>0, Counted DEF AInv, TInv, TypeOK, Aired, Fresh
<1>2. PICK old \in SUBSET Aged : Saves(Decided(w, old))
  BY DEF PollDecides
<1>3. record'[c] = Decided(w, old)[c]
  <2>1. faults' # faults + 1
    BY DEF Sure, AInv, TInv, TypeOK
  <2> QED
    BY <1>2, <2>1 DEF Saves
<1>4. /\ poll'[w].pc # "decides" /\ \A v \in Pollers \ {w} : poll'[v] = poll[v]
      /\ Holds(w, c, b)' <=> exists /\ c \in New(w) /\ Streams(w)[c] = b
  <2>1. PICK alerts \in {New(w), {}} :
            /\ alerts = IF exists THEN New(w) ELSE {}
            /\ poll' = [poll EXCEPT ![w] =
                   IF alerts = {} THEN IdlePoll
                   ELSE [poll[w] EXCEPT !.pc = "posts", !.muted = {}, !.alerts = alerts]]
    BY <1>0 DEF PollDecides
  <2>2. CASE alerts = {}
    BY <1>0, <2>1, <2>2, IdleTyped DEF Holds
  <2>3. CASE alerts # {}
    BY <1>0, <2>1, <2>3 DEF Holds, Streams, Polls
  <2> QED
    BY <2>2, <2>3
<1>5. \A v \in Pollers \ {w} : Holds(v, c, b)' <=> Holds(v, c, b)
  BY <1>4 DEF Holds, Streams
<1>6. c \in Considered(w) => Streams(w)[c] = aired[c] /\ record'[c] = aired[c]
  BY <1>1, <1>3 DEF Considered, Decided
<1>7. Past(c, b) => Past(c, b)'
  <2>1. CASE c \in Considered(w) /\ b <= record[c]
    BY <1>0, <1>1, <1>6, <2>1 DEF Past
  <2>2. CASE c \notin Considered(w) /\ c \notin old /\ b <= record[c]
    BY <1>3, <2>2 DEF Past, Decided
  <2>3. CASE c \in old /\ b <= record[c]
    <3>1. /\ live[c] # record[c] /\ pushes[c][b] = 0
          /\ \A v \in Pollers : poll[v].streams[c] # b
      BY <1>0, <1>1, <2>3 DEF Aged
    <3> QED
      BY <1>0, <1>1, <1>4, <2>3, <3>1 DEF Past, Streams
  <2>4. CASE ~(b <= record[c])
    BY <1>0, <1>4, <2>4 DEF Past, Streams
  <2> QED
    BY <2>1, <2>2, <2>3, <2>4
<1>8. CASE c \in New(w) /\ Streams(w)[c] = b
  <2>1. c \in Considered(w) /\ b = aired[c] /\ record[c] # b
    BY <1>0, <1>1, <1>8 DEF New, Considered
  <2>2. ~Past(c, b)
    BY <1>0, <1>1, <1>8, <2>1 DEF Past
  <2>3. Past(c, b)'
    BY <1>1, <1>6, <2>1 DEF Past
  <2>4. ~Used(c, b) /\ told[c][b] = 0
    BY <2>2 DEF Sure, Once, Used, Told
  <2>5. Dropped(c, b)' => ~exists
    BY <2>4 DEF PollDecides, Used, Dropped
  <2> QED
    BY <1>0, <1>4, <1>5, <2>3, <2>4, <2>5 DEF Once, Used, Told, Carries
<1>9. CASE ~(c \in New(w) /\ Streams(w)[c] = b)
  <2>1. Dropped(c, b)' <=> Dropped(c, b)
    BY <1>9 DEF PollDecides, Dropped
  <2> QED
    BY <1>0, <1>4, <1>5, <1>7, <1>9, <2>1, Frame DEF Sure, Carries
<1> QED
  BY <1>8, <1>9

LEMMA PostsOnce ==
  ASSUME AInv, NEW w \in Pollers, PollPosts(w), NEW c \in Channels, NEW b \in Broadcasts,
         Sure(c, b)
  PROVE  Once(c, b)'
<1>0. /\ poll \in [Pollers -> Polls] /\ told \in Tellings
      /\ UNCHANGED <<live, aired, pushes, record, push, silent>>
  BY Typed DEF AInv, PollPosts, twitch, file
<1>1. PICK d \in poll[w].alerts :
           /\ Tells(d, Streams(w)[d])
           /\ poll' = [poll EXCEPT ![w] =
                   IF poll[w].alerts = {d} THEN IdlePoll
                   ELSE [poll[w] EXCEPT !.alerts = poll[w].alerts \ {d}]]
  BY DEF PollPosts
<1>2. d \in Channels /\ Streams(w)[d] \in Numbers
  BY <1>0 DEF Polls, Streams
<1>3. /\ \A v \in Pollers \ {w} : poll'[v] = poll[v]
      /\ Holds(w, c, b)' <=> Holds(w, c, b) /\ c # d
      /\ poll[w].pc = "posts" /\ poll'[w].pc # "decides"
  <2>1. CASE poll[w].alerts = {d}
    BY <1>0, <1>1, <2>1, IdleTyped DEF PollPosts, Holds
  <2>2. CASE poll[w].alerts # {d}
    BY <1>0, <1>1, <2>2 DEF PollPosts, Holds, Streams, Polls
  <2> QED
    BY <2>1, <2>2
<1>4. Past(c, b) => Past(c, b)'
  BY <1>0, <1>3 DEF Past, Streams
<1>5. \A v \in Pollers \ {w} : Holds(v, c, b)' <=> Holds(v, c, b)
  BY <1>3 DEF Holds, Streams
<1>6. CASE d = c /\ Streams(w)[d] = b
  <2>1. Holds(w, c, b)
    BY <1>6 DEF Holds
  <2>2. told[c][b] = 0 /\ ~Dropped(c, b) /\ ~Carries(c, b) /\ Past(c, b)
        /\ \A v \in Pollers \ {w} : ~Holds(v, c, b)
    BY <2>1 DEF Sure, Once, Used, Told
  <2>3. told'[c][b] = 1
    BY <1>0, <1>1, <1>6, <2>2 DEF Tells, Tellings
  <2> QED
    BY <1>0, <1>3, <1>4, <1>5, <1>6, <2>2, <2>3 DEF Once, Used, Told, Dropped, Carries
<1>7. CASE ~(d = c /\ Streams(w)[d] = b)
  <2>1. told'[c][b] = told[c][b]
    BY <1>0, <1>1, <1>2, <1>7 DEF Tells, Tellings
  <2>2. Holds(w, c, b)' <=> Holds(w, c, b)
    BY <1>3, <1>7 DEF Holds
  <2> QED
    BY <1>0, <1>4, <1>5, <2>1, <2>2, Frame DEF Sure, Dropped, Carries
<1> QED
  BY <1>6, <1>7

(* A worker that begins, hears or fails has nothing to post.                *)
LEMMA AsksOnce ==
  ASSUME AInv, NEW w \in Pollers, PollBegins(w) \/ PollHears(w) \/ FetchFails(w),
         NEW c \in Channels, NEW b \in Broadcasts, Sure(c, b)
  PROVE  Once(c, b)'
<1>0. /\ poll \in [Pollers -> Polls] /\ b \in Nat /\ b # 0
      /\ poll[w].pc # "posts" /\ poll[w].alerts = {}
      /\ UNCHANGED <<live, aired, pushes, record, told, push, silent>>
  BY Typed, NumbersAre
     DEF AInv, TInv, Handed, PollBegins, PollHears, Hears, FetchFails, twitch, file
<1>1. /\ \A v \in Pollers \ {w} : poll'[v] = poll[v]
      /\ poll'[w].alerts = {}
      /\ poll'[w].pc = "decides" => poll'[w].streams[c] \in {0, live[c]}
  <2>1. CASE PollBegins(w)
    BY <1>0, <2>1 DEF PollBegins, Polls
  <2>2. CASE FetchFails(w)
    BY <1>0, <2>2, IdleTyped DEF FetchFails
  <2>3. ASSUME NEW listed \in SUBSET Channels, Hears(w, listed)
        PROVE  /\ \A v \in Pollers \ {w} : poll'[v] = poll[v]
               /\ poll'[w].alerts = {} /\ poll'[w].streams[c] \in {0, live[c]}
    BY <1>0, <2>3 DEF Hears, Polls
  <2> QED
    BY <2>1, <2>2, <2>3 DEF PollHears
<1>2. \A v \in Pollers : Holds(v, c, b)' <=> Holds(v, c, b)
  BY <1>0, <1>1 DEF Holds, Streams
<1>3. Past(c, b) => Past(c, b)'
  BY <1>0, <1>1 DEF Past, Streams
<1> QED
  BY <1>0, <1>2, <1>3, Frame DEF Sure, Dropped, Carries

(* A push is claimed only for a broadcast later than the record: none that  *)
(* was announced, dropped or taken.                                         *)
LEMMA PushOnce ==
  ASSUME AInv, NEW d \in Channels, NEW n \in Broadcasts, Push(d, n),
         NEW c \in Channels, NEW b \in Broadcasts, Sure(c, b)
  PROVE  Once(c, b)'
<1>0. /\ Arrives(d, n) /\ b \in Nat /\ n \in Nat
      /\ record \in [Channels -> Numbers] /\ Numbers \subseteq Nat
      /\ UNCHANGED <<live, aired, poll, told, silent>>
      /\ push.pc = "idle" /\ ~Carries(c, b)
  BY Typed, NumbersAre
     DEF AInv, Push, PushMuted, PushEarly, PushClaims, Arrives, Carries
<1>1. pushes[c][b] = 0 => pushes'[c][b] = 0
  <2>1. /\ pushes[c][b] \in 0..2 /\ pushes'[c][b] \in 0..2
        /\ pushes'[c][b] > 0 => pushes[c][b] > 0
    BY <1>0, ArrivesTyped, Typed DEF AInv, Tellings
  <2> QED
    BY <2>1
<1>2. \A v \in Pollers : Holds(v, c, b)' <=> Holds(v, c, b)
  BY <1>0 DEF Holds, Streams
<1>3. record[c] <= record'[c] /\ record[c] \in Nat /\ record'[c] \in Nat
      => (Past(c, b) => Past(c, b)')
  BY <1>0, <1>1 DEF Past, Streams
<1>4. record[c] \in Nat
  BY <1>0
<1>5. CASE PushMuted(d, n)
  <2>1. UNCHANGED <<record, push>>
    BY <1>5 DEF PushMuted, file
  <2> QED
    BY <1>0, <1>2, <1>3, <1>4, <2>1, Frame DEF Sure, Dropped, Carries
<1>6. CASE PushEarly(d, n)
  <2>1. ~Carries(c, b)' /\ record' = record
    BY <1>6 DEF PushEarly, Sure, Carries, file
  <2> QED
    BY <1>0, <1>2, <1>3, <1>4, <2>1, Frame DEF Sure, Dropped
<1>7. CASE PushClaims(d, n)
  <2>1. record' = IF Claim(d, n) THEN [record EXCEPT ![d] = n] ELSE record
    <3>1. faults' # faults + 1
      BY DEF Sure, AInv, TInv, TypeOK
    <3> DEFINE new == IF Claim(d, n) THEN [record EXCEPT ![d] = n] ELSE record
    <3>2. Saves(new)
      BY <1>7 DEF PushClaims
    <3> HIDE DEF new
    <3>3. record' = new
      BY <3>1, <3>2 DEF Saves
    <3> QED
      BY <3>3 DEF new
  <2>2. record'[c] \in Nat /\ record[c] <= record'[c]
    <3>1. CASE Claim(d, n) /\ c = d
      BY <1>0, <1>4, <2>1, <3>1 DEF Claim
    <3>2. CASE ~(Claim(d, n) /\ c = d)
      <4>1. record'[c] = record[c]
        BY <1>0, <2>1, <3>2
      <4> QED
        BY <1>4, <4>1
    <3> QED
      BY <3>1, <3>2
  <2>3. Past(c, b) => Past(c, b)'
    BY <1>3, <1>4, <2>2
  <2>4. CASE Claim(d, n) /\ d = c /\ n = b
    <3>1. ~Past(c, b)
      BY <1>0, <1>4, <2>4 DEF Past, Claim, Arrives, AInv, TInv, TypeOK
    <3>2. ~Used(c, b) /\ told[c][b] = 0
      BY <3>1 DEF Sure, Once, Used, Told
    <3>3. Past(c, b)'
      BY <1>0, <2>1, <2>4 DEF Past
    <3> QED
      BY <1>0, <1>2, <3>2, <3>3 DEF Once, Used, Told, Dropped
  <2>5. CASE ~(Claim(d, n) /\ d = c /\ n = b)
    <3>1. ~Carries(c, b)'
      BY <1>0, <1>7, <2>5 DEF PushClaims, Carries
    <3> QED
      BY <1>0, <1>2, <2>3, <3>1, Frame DEF Sure, Dropped
  <2> QED
    BY <2>4, <2>5
<1> QED
  BY <1>5, <1>6, <1>7 DEF Push

LEMMA PushPostsOnce ==
  ASSUME AInv, PushPosts, NEW c \in Channels, NEW b \in Broadcasts, Sure(c, b)
  PROVE  Once(c, b)'
<1>0. /\ told \in Tellings /\ push.c \in Channels /\ push.b \in Numbers
      /\ Tells(push.c, push.b) /\ ~Carries(c, b)'
      /\ UNCHANGED <<live, aired, pushes, record, poll, silent>>
  BY Typed, IdleTyped DEF AInv, PushPosts, Pushed, Carries, twitch, file
<1>1. Past(c, b) => Past(c, b)'
  BY <1>0 DEF Past, Streams
<1>2. \A v \in Pollers : Holds(v, c, b)' <=> Holds(v, c, b)
  BY <1>0 DEF Holds, Streams
<1>3. CASE Carries(c, b)
  <2>1. told[c][b] = 0 /\ ~Dropped(c, b) /\ Past(c, b) /\ \A v \in Pollers : ~Holds(v, c, b)
    BY <1>3 DEF Sure, Once, Used, Told
  <2>2. told'[c][b] = 1
    BY <1>0, <1>3, <2>1 DEF Tells, Tellings, Carries
  <2> QED
    BY <1>0, <1>1, <1>2, <2>1, <2>2 DEF Once, Used, Told, Dropped
<1>4. CASE ~Carries(c, b)
  <2>1. told'[c][b] = told[c][b]
    BY <1>0, <1>4 DEF Tells, Tellings, Carries, PushPosts
  <2> QED
    BY <1>0, <1>1, <1>2, <1>4, <2>1, Frame DEF Sure, Dropped
<1> QED
  BY <1>3, <1>4

(* What is lost with the process is dropped, and in no hand any more.       *)
LEMMA KilledOnce ==
  ASSUME AInv, Killed, NEW c \in Channels, NEW b \in Broadcasts, Sure(c, b)
  PROVE  Once(c, b)'
<1>0. /\ UNCHANGED <<live, aired, pushes, record, told, early>>
      /\ ~Carries(c, b)'
      /\ \A w \in Pollers : ~Holds(w, c, b)' /\ poll'[w].pc = "idle"
  BY IdleTyped DEF Killed, Carries, Holds, Streams, twitch, file
<1>1. Dropped(c, b)' <=> Dropped(c, b) \/ Carries(c, b) \/ \E w \in Pollers : Holds(w, c, b)
  <2>1. <<c, b>> \in Channels \X Broadcasts /\ <<c, b>>[1] = c /\ <<c, b>>[2] = b
    OBVIOUS
  <2> QED
    BY <1>0, <2>1 DEF Killed, Dropped, Sure
<1>2. Past(c, b) => Past(c, b)'
  BY <1>0 DEF Past, Streams
<1> QED
  BY <1>0, <1>1, <1>2 DEF Sure, Once, Used, Told

(* A broadcast that begins is not past, and those before it stay so.        *)
LEMMA LivesOnce ==
  ASSUME AInv, NEW d \in Channels, GoesLive(d) \/ GoesOff(d) \/ Mutes(d),
         NEW c \in Channels, NEW b \in Broadcasts, Sure(c, b)
  PROVE  Once(c, b)'
<1>0. /\ UNCHANGED <<record, poll, told, push, silent>> /\ b \in Nat /\ b # 0
      /\ aired[c] \in Nat
  BY Counted, NumbersAre DEF AInv, GoesLive, GoesOff, Mutes, file
<1>1. CASE GoesLive(d)
  <2>1. CASE c # d
    <3>1. live'[c] = live[c] /\ pushes'[c] = pushes[c] /\ aired'[c] = aired[c]
      BY <1>1, <2>1, LivesTyped DEF AInv, GoesLive, TInv, TypeOK
    <3> QED
      BY <1>0, <3>1, Frame DEF Sure, Past, Streams, Dropped, Carries, Holds
  <2>2. CASE c = d
    <3>1. /\ live'[c] = aired[c] + 1 /\ aired'[c] = aired[c] + 1
          /\ b <= aired[c] => pushes'[c][b] = pushes[c][b]
      BY <1>0, <1>1, <2>2, LivesTyped DEF AInv, GoesLive, TInv, TypeOK
    <3>2. Past(c, b) => Past(c, b)'
      BY <1>0, <3>1 DEF Past, Streams
    <3> QED
      BY <1>0, <3>2, Frame DEF Sure, Dropped, Carries, Holds, Streams
  <2> QED
    BY <2>1, <2>2
<1>2. CASE GoesOff(d) \/ Mutes(d)
  <2>1. live'[c] \in {0, live[c]} /\ UNCHANGED <<aired, pushes>>
    BY <1>2 DEF AInv, GoesOff, Mutes, twitch, TInv, TypeOK
  <2> QED
    BY <1>0, <2>1, Frame DEF Sure, Past, Streams, Dropped, Carries, Holds
<1> QED
  BY <1>1, <1>2

LEMMA AInvKept ==
  ASSUME AInv, [PatientNext]_vars
  PROVE  AInv'
<1>1. TInv'
  BY TInvKept DEF AInv, PatientNext, Next
<1>2. \A w \in Pollers : Fresh(w)'
  BY FreshKept
<1>3. (faults' = 0 => faults = 0) /\ early \subseteq early'
  <2>1. \A n \in Nat : n + 1 # 0
    OBVIOUS
  <2>2. faults \in Nat
    BY DEF AInv, TInv, TypeOK
  <2>3. ASSUME NEW w \in Pollers, Poll(w) PROVE faults' \in {faults, faults + 1} /\ early' = early
    BY <2>3 DEF Poll, PollBegins, PollHears, Hears, FetchFails, PollDecides, PollPosts, Saves,
                bounds
  <2>4. ASSUME NEW c \in Channels, NEW b \in Broadcasts, Push(c, b)
        PROVE  faults' \in {faults, faults + 1} /\ early \subseteq early'
    BY <2>4 DEF Push, PushMuted, PushEarly, PushClaims, Saves, bounds
  <2>5. ASSUME NEW c \in Channels, GoesLive(c) \/ GoesOff(c) \/ Mutes(c)
        PROVE  faults' = faults /\ early' = early
    BY <2>5 DEF GoesLive, GoesOff, Mutes, bounds
  <2>6. CASE PushPosts \/ Killed \/ UNCHANGED vars
    BY <2>6 DEF PushPosts, Killed, vars, bounds
  <2> QED
    BY <2>1, <2>2, <2>3, <2>4, <2>5, <2>6 DEF PatientNext, Work
<1>4. ASSUME faults' = 0, NEW c \in Channels, NEW b \in Broadcasts, <<c, b>> \notin early'
      PROVE  Once(c, b)'
  <2>1. Sure(c, b)
    BY <1>3, <1>4 DEF Sure, AInv
  <2>2. CASE UNCHANGED vars
    BY <2>1, <2>2, Frame DEF Sure, vars, Past, Streams, Dropped, Carries, Holds
  <2> QED
    BY <2>1, <2>2, DecidesOnce, PostsOnce, AsksOnce, PushOnce, PushPostsOnce, KilledOnce, LivesOnce
       DEF PatientNext, Work, Poll
<1> QED
  BY <1>1, <1>2, <1>4 DEF AInv

LEMMA InitAnnounced == Init => AInv
<1> SUFFICES ASSUME Init PROVE AInv
  OBVIOUS
<1>1. \A w \in Pollers : Fresh(w)
  BY IdleTyped DEF Init, Fresh
<1>2. ASSUME NEW c \in Channels, NEW b \in Broadcasts PROVE Once(c, b)
  <2>1. told[c][b] = 0 /\ ~Dropped(c, b) /\ ~Carries(c, b) /\ \A w \in Pollers : ~Holds(w, c, b)
    BY IdleTyped DEF Init, Dropped, Carries, Holds
  <2> QED
    BY <2>1 DEF Once, Used, Told
<1> QED
  BY <1>1, <1>2, InitTyped DEF AInv

(* Polls, pushes and repeated pushes make one alert of a broadcast, and one *)
(* that was recorded and never posted makes none, as long as no broadcast   *)
(* begins between the answer of Twitch and the decision about it.           *)
THEOREM AnnouncedOnlyOnce == PatientSpec => []AnnouncedOnce
<1>1. AInv /\ [PatientNext]_vars => AInv'
  BY AInvKept
<1>2. AInv => AnnouncedOnce
  <2> SUFFICES ASSUME AInv, faults = 0, NEW c \in Channels, NEW b \in Broadcasts,
                      <<c, b>> \notin early
               PROVE  told[c][b] <= IF <<c, b>> \in silent THEN 0 ELSE 1
    BY DEF AnnouncedOnce
  <2>1. told[c][b] \in 0..2 /\ Once(c, b)
    BY DEF AInv, TInv, TypeOK
  <2> QED
    BY <2>1 DEF Once, Told, Dropped
<1> QED
  BY <1>1, <1>2, InitAnnounced, PTL DEF PatientSpec
=============================================================================
