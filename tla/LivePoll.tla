------------------------------- MODULE LivePoll -------------------------------
(***************************************************************************)
(* Go-live alerts on an Android phone: a background poll (a periodic       *)
(* worker and one the app runs when it comes to the front) and a push lane *)
(* decide what to announce over one record on the disk, notify_state.json  *)
(* (src-tauri/src/services/live_poll.rs, android_notify.rs).               *)
(*                                                                         *)
(* Each lane reads, decides and writes the record under one lock: a step.  *)
(* Twitch is asked before that, and the alert is posted after it.          *)
(* Broadcasts of a channel are numbered; two are the same if they have the *)
(* same number (same_broadcast), and a higher one is later.                *)
(***************************************************************************)
EXTENDS Naturals, FiniteSets

CONSTANTS
    Channels,       \* channels the viewer follows
    Pollers,        \* workers that poll
    MaxBroadcasts,  \* bound: broadcasts of a channel
    MaxUpsets       \* bound: channels muted and unmuted, writes of the record
                    \* that fail or are cut off, and ends of the process

ASSUME PollConstants ==
    Channels # {} /\ MaxBroadcasts \in Nat \ {0} /\ MaxUpsets \in Nat

VARIABLES
    live,     \* the broadcast a channel is in, 0 none
    aired,    \* the latest broadcast of each channel
    pushes,   \* pushes of a broadcast on their way to the phone
    muted,    \* the channels muted in the settings
    exists,   \* notify_state.json is there
    record,   \* what it loads as: the broadcast announced for each channel
    poll,     \* each worker: where it is, the mutes and streams it works with,
              \* and what it has to post
    push,     \* the push receiver, likewise
    told,     \* history: how often each broadcast was announced
    silent,   \* history: broadcasts recorded and never posted
    early,    \* history: broadcasts announced when there was no record
    mutes, faults, ends  \* how often of each

vars == <<live, aired, pushes, muted, exists, record, poll, push, told, silent,
          early, mutes, faults, ends>>
twitch == <<live, aired, pushes>>
file == <<exists, record>>
bounds == <<mutes, faults, ends>>
Calm == mutes + faults + ends < MaxUpsets

Broadcasts == 1..MaxBroadcasts
Numbers == 0..MaxBroadcasts
Nothing == [c \in Channels |-> 0]
IdlePoll == [pc |-> "idle", muted |-> {}, streams |-> Nothing, alerts |-> {}]
IdlePush == [pc |-> "idle", c |-> CHOOSE c \in Channels : TRUE, b |-> 0]

Init ==
    /\ live \in [Channels -> {0, 1}] /\ aired = live
    /\ pushes = [c \in Channels |-> [b \in Broadcasts |-> 0]]
    /\ muted \in SUBSET Channels
    /\ exists \in BOOLEAN /\ record = Nothing
    /\ poll = [w \in Pollers |-> IdlePoll] /\ push = IdlePush
    /\ told = [c \in Channels |-> [b \in Broadcasts |-> 0]]
    /\ silent = {} /\ early = {}
    /\ mutes = 0 /\ faults = 0 /\ ends = 0

-----------------------------------------------------------------------------
(* The record *)

(* write_state ignores a failure.  fs::write empties the file first, and    *)
(* one that does not load is an empty record, not a missing one.            *)
Saves(new) ==
    \/ record' = new /\ exists' = TRUE /\ UNCHANGED faults
    \/ /\ Calm /\ faults' = faults + 1
       /\ \/ UNCHANGED file
          \/ record' = Nothing /\ exists' = TRUE

(* Not seen live for SHOWN_TTL_SECS: no push and no answer is that late,    *)
(* and no live channel is left out, or kept muted, for that long.           *)
Aged == {c \in Channels : /\ record[c] # 0 /\ live[c] # record[c]
                          /\ \A b \in 1..record[c] :
                                /\ pushes[c][b] = 0
                                /\ \A w \in Pollers : poll[w].streams[c] # b}

-----------------------------------------------------------------------------
(* The poll: collect_all, collect, decide, and the worker that posts        *)

PollBegins(w) ==
    /\ poll[w].pc = "idle"
    /\ poll' = [poll EXCEPT ![w].pc = "asks", ![w].muted = muted]
    /\ UNCHANGED <<twitch, muted, file, push, told, silent, early, bounds>>

(* The followed channels that are live; Twitch may leave one out.           *)
Hears(w, listed) ==
    /\ poll[w].pc = "asks"
    /\ poll' = [poll EXCEPT ![w].pc = "decides",
            ![w].streams = [c \in Channels |-> IF c \in listed THEN live[c] ELSE 0]]
    /\ UNCHANGED <<twitch, muted, file, push, told, silent, early, bounds>>
PollHears(w) == \E listed \in SUBSET Channels : Hears(w, listed)

FetchFails(w) ==
    /\ poll[w].pc = "asks"
    /\ poll' = [poll EXCEPT ![w] = IdlePoll]
    /\ UNCHANGED <<twitch, muted, file, push, told, silent, early, bounds>>

Streams(w) == poll[w].streams
Considered(w) == {c \in Channels : Streams(w)[c] # 0 /\ c \notin poll[w].muted}
(* Variant: channels that are not in the list are not left out.             *)
NewUnlisted(w) == {c \in Channels \ poll[w].muted : record[c] # Streams(w)[c]}
New(w) == {c \in Considered(w) : record[c] # Streams(w)[c]}

(* Variants: whatever is not live is dropped; a muted channel is recorded.  *)
DecidedLiveOnly(w, old) ==
    [c \in Channels |-> IF c \in Considered(w) THEN Streams(w)[c] ELSE 0]
DecidedMuted(w, old) ==
    [c \in Channels |-> IF Streams(w)[c] # 0 THEN Streams(w)[c]
                        ELSE IF c \in old THEN 0 ELSE record[c]]

(* What decide leaves in the record.                                        *)
Decided(w, old) ==
    [c \in Channels |-> IF c \in Considered(w) THEN Streams(w)[c]
                        ELSE IF c \in old THEN 0 ELSE record[c]]

(* The first run finds no file and announces nothing.                       *)
PollDecides(w) ==
    LET alerts == IF exists THEN New(w) ELSE {} IN
    /\ poll[w].pc = "decides"
    /\ \E old \in SUBSET Aged : Saves(Decided(w, old))
    /\ poll' = [poll EXCEPT ![w] =
            IF alerts = {} THEN IdlePoll
            ELSE [@ EXCEPT !.pc = "posts", !.muted = {}, !.alerts = alerts]]
    /\ silent' = IF exists THEN silent ELSE silent \cup {<<c, Streams(w)[c]>> : c \in New(w)}
    /\ UNCHANGED <<twitch, muted, push, told, early, mutes, ends>>

Tells(c, b) == told' = [told EXCEPT ![c][b] = IF @ < 2 THEN @ + 1 ELSE @]

PollPosts(w) ==
    /\ poll[w].pc = "posts"
    /\ \E c \in poll[w].alerts :
        /\ Tells(c, Streams(w)[c])
        /\ poll' = [poll EXCEPT ![w] = IF poll[w].alerts = {c} THEN IdlePoll
                                       ELSE [poll[w] EXCEPT !.alerts = @ \ {c}]]
    /\ UNCHANGED <<twitch, muted, file, push, silent, early, bounds>>

-----------------------------------------------------------------------------
(* The push lane: claim_push, claim, and the service that posts             *)

Arrives(c, b) ==
    /\ push.pc = "idle" /\ pushes[c][b] > 0
    /\ pushes' = [pushes EXCEPT ![c][b] = @ - 1]

PushMuted(c, b) ==
    /\ Arrives(c, b) /\ c \in muted
    /\ UNCHANGED <<live, aired, muted, file, poll, push, told, silent, early, bounds>>

(* With no record the push shows and records nothing.                       *)
PushEarly(c, b) ==
    /\ Arrives(c, b) /\ c \notin muted /\ ~exists
    /\ push' = [pc |-> "posts", c |-> c, b |-> b]
    /\ early' = early \cup {<<c, b>>}
    /\ UNCHANGED <<live, aired, muted, file, poll, told, silent, bounds>>

(* An older broadcast never replaces a newer one.                           *)
Claim(c, b) == record[c] < b

PushClaims(c, b) ==
    /\ Arrives(c, b) /\ c \notin muted /\ exists
    /\ Saves(IF Claim(c, b) THEN [record EXCEPT ![c] = b] ELSE record)
    /\ push' = IF Claim(c, b) THEN [pc |-> "posts", c |-> c, b |-> b] ELSE push
    /\ UNCHANGED <<live, aired, muted, poll, told, silent, early, mutes, ends>>

PushPosts ==
    /\ push.pc = "posts"
    /\ Tells(push.c, push.b)
    /\ push' = IdlePush
    /\ UNCHANGED <<twitch, muted, file, poll, silent, early, bounds>>

-----------------------------------------------------------------------------
(* Twitch, the push server and the viewer                                   *)

(* The push of a broadcast is lost, or may come and come again.             *)
GoesLive(c) ==
    /\ live[c] = 0 /\ aired[c] < MaxBroadcasts
    /\ aired' = [aired EXCEPT ![c] = @ + 1]
    /\ live' = [live EXCEPT ![c] = aired[c] + 1]
    /\ \E n \in {0, 2} : pushes' = [pushes EXCEPT ![c][aired[c] + 1] = n]
    /\ UNCHANGED <<muted, file, poll, push, told, silent, early, bounds>>

GoesOff(c) ==
    /\ live[c] # 0
    /\ live' = [live EXCEPT ![c] = 0]
    /\ UNCHANGED <<aired, pushes, muted, file, poll, push, told, silent, early, bounds>>

Mutes(c) ==
    /\ Calm /\ mutes' = mutes + 1
    /\ muted' = IF c \in muted THEN muted \ {c} ELSE muted \cup {c}
    /\ UNCHANGED <<twitch, file, poll, push, told, silent, early, faults, ends>>

(* What is yet to be posted: a worker's alerts, and the push service's.     *)
Holds(w, c, b) == c \in poll[w].alerts /\ Streams(w)[c] = b
Carries(c, b) == push.pc = "posts" /\ push.c = c /\ push.b = b

(* The process is killed: what was recorded and not posted is never told.   *)
Killed ==
    /\ Calm /\ ends' = ends + 1
    /\ silent' = silent \cup {p \in Channels \X Broadcasts :
            \/ \E w \in Pollers : Holds(w, p[1], p[2])
            \/ Carries(p[1], p[2]) /\ p \notin early}
    /\ poll' = [w \in Pollers |-> IdlePoll] /\ push' = IdlePush
    /\ UNCHANGED <<twitch, muted, file, told, early, mutes, faults>>

-----------------------------------------------------------------------------
Poll(w) == PollBegins(w) \/ PollHears(w) \/ FetchFails(w) \/ PollDecides(w) \/ PollPosts(w)
Push(c, b) == PushMuted(c, b) \/ PushEarly(c, b) \/ PushClaims(c, b)
Work ==
    \/ PushPosts \/ Killed
    \/ \E w \in Pollers : Poll(w)
    \/ \E c \in Channels : GoesOff(c) \/ Mutes(c) \/ \E b \in Broadcasts : Push(c, b)

Next == Work \/ \E c \in Channels : GoesLive(c)
Spec == Init /\ [][Next]_vars

(* No broadcast begins between the answer of Twitch and the decision about  *)
(* it.  The code does not see to it; Spec shows what happens otherwise.     *)
PatientNext ==
    \/ Work
    \/ \E c \in Channels : GoesLive(c) /\ \A w \in Pollers : poll[w].pc # "decides"
PatientSpec == Init /\ [][PatientNext]_vars

(* The workers and the push service run, and a network that comes back      *)
(* again and again answers each worker in the end, with all that is live.   *)
Fairness ==
    /\ \A w \in Pollers :
        /\ WF_vars(PollBegins(w)) /\ WF_vars(PollDecides(w)) /\ WF_vars(PollPosts(w))
        /\ SF_vars(Hears(w, Channels))
    /\ WF_vars(PushPosts)
LiveSpec == PatientSpec /\ Fairness

-----------------------------------------------------------------------------
(* Types; a record holds only what has aired, and only what is live is     *)
(* announced (decide).                                                      *)
TypeOK ==
    /\ live \in [Channels -> Numbers] /\ aired \in [Channels -> Numbers]
    /\ pushes \in [Channels -> [Broadcasts -> 0..2]]
    /\ muted \subseteq Channels /\ exists \in BOOLEAN
    /\ record \in [Channels -> Numbers] /\ \A c \in Channels : record[c] <= aired[c]
    /\ poll \in [Pollers -> [pc : {"idle", "asks", "decides", "posts"}, muted : SUBSET Channels,
                             streams : [Channels -> Numbers], alerts : SUBSET Channels]]
    /\ \A w \in Pollers : \A c \in poll[w].alerts : poll[w].streams[c] # 0
    /\ push \in [pc : {"idle", "posts"}, c : Channels, b : Numbers]
    /\ told \in [Channels -> [Broadcasts -> 0..2]]
    /\ silent \subseteq Channels \X Broadcasts /\ early \subseteq Channels \X Broadcasts
    /\ mutes \in Nat /\ faults \in Nat /\ ends \in Nat
    /\ mutes + faults + ends <= MaxUpsets

(* "The record that keeps any broadcast from alerting twice" (mod doc):     *)
(* polls, pushes and repeated pushes of a broadcast make one alert, and one *)
(* that was recorded and not posted, on the first run or because the        *)
(* process was killed, never alerts ("costs an alert, never a repeat",      *)
(* collect).  A push that found no record is not recorded (claim_push), and *)
(* nothing stops a repeat once a write of the record has failed.            *)
AnnouncedOnce ==
    faults = 0 => \A c \in Channels, b \in Broadcasts :
        <<c, b>> \notin early => told[c][b] <= IF <<c, b>> \in silent THEN 0 ELSE 1

(* A channel that stays live and is not muted is announced in the end,      *)
(* also one that was muted when it went live (decide).                      *)
ToldInTheEnd ==
    \A c \in Channels, b \in Broadcasts :
        live[c] = b /\ c \notin muted
            ~> \/ told[c][b] > 0 \/ <<c, b>> \in silent
               \/ live[c] # b \/ c \in muted
=============================================================================
