--------------------------- MODULE ChatSendLimiter ---------------------------
(***************************************************************************)
(* The chat send limiter (services/chat_send_limiter.rs) with the tasks    *)
(* that use it: paced jobs, which book a slot, sleep until it comes, send  *)
(* and have the send recorded, and the user, whose typed messages are only *)
(* recorded.  Every function of the limiter runs under one mutex, so each  *)
(* is one action; what interleaves is everything between a booking and the *)
(* record of its send.                                                     *)
(***************************************************************************)
EXTENDS Integers, Sequences, FiniteSets, SequencesExt

CONSTANTS
    Channels,            \* chats, one of them possibly the account's own
    Lines,               \* texts a message can have
    Jobs,                \* tasks that send paced messages
    Primary,             \* login of the signed-in account (its own channel)
    None,                \* an Option that holds nothing
    Window,              \* WINDOW
    ViewerPerWindow,     \* VIEWER_PER_WINDOW
    PrivilegedPerWindow, \* PRIVILEGED_PER_WINDOW
    ViewerSpacing,       \* VIEWER_SPACING
    PrivilegedSpacing,   \* PRIVILEGED_SPACING
    MaxWait,             \* MAX_WAIT
    DuplicateSpan,       \* DUPLICATE_SPAN
    PendingSpan,         \* how long a slot nobody sent on can be claimed
    ClaimAhead,          \* how early a send can claim its slot
    RoomModes,           \* the room modes ROOMSTATE can report
    Horizon,             \* bound: the last instant
    MaxMade,             \* bound: messages booked or counted
    MaxNotes             \* bound: frames of the IRC reader and account changes

ASSUME LimiterAssumption ==
    /\ {ViewerPerWindow, PrivilegedPerWindow, ViewerSpacing, PrivilegedSpacing}
          \subseteq Nat \ {0}
    /\ Window \in Nat \ {0} /\ PendingSpan \in Nat /\ PendingSpan < Window
    /\ {MaxWait, ClaimAhead, DuplicateSpan, Horizon, MaxMade, MaxNotes} \subseteq Nat
    /\ RoomModes \subseteq [slow : Nat, shut : BOOLEAN, unique : BOOLEAN]
    /\ None \notin Nat

VARIABLES
    now,        \* the clock
    sends,      \* Limiter::sends
    facts,      \* Limiter::channels
    ownLogin,   \* Limiter::own_login
    jobs,       \* per job, the message it sleeps on, or None
    made,       \* history: entries put into `sends`
    delivered,  \* history: instants at which messages of this account went out
    notes       \* frames and account changes so far

limiter == <<sends, facts, ownLogin>>
vars == <<now, sends, facts, ownLogin, jobs, made, delivered, notes>>

Roles == {"viewer", "privileged"}
Limits == {ViewerPerWindow, PrivilegedPerWindow}
Gaps == {ViewerSpacing, PrivilegedSpacing} \cup {m.slow : m \in RoomModes}

\* Modes a room is in: the spacing slow mode asks for (0 = off), whether the
\* account is shut out (sub-only without a sub, or emote-only), unique chat.
NoModes == [slow |-> 0, shut |-> FALSE, unique |-> FALSE]
NoFacts == [modes |-> NoModes, role |-> None, lastSlot |-> None,
            lastText |-> None, pending |-> <<>>]

Later(a, b) == IF a = None \/ a < b THEN b ELSE a

-----------------------------------------------------------------------------
\* The functions of `impl Limiter`.

\* USERSTATE's word, or the account's own channel before it came.
Privileged(c, login) ==
    IF facts[c].role # None THEN facts[c].role = "privileged" ELSE login = c

PerWindow(c, login) ==
    IF Privileged(c, login) THEN PrivilegedPerWindow ELSE ViewerPerWindow

Spacing(c, login) ==
    IF Privileged(c, login) THEN PrivilegedSpacing
    ELSE IF facts[c].modes.slow > ViewerSpacing THEN facts[c].modes.slow
         ELSE ViewerSpacing

\* `in_window`: messages counted in (end - WINDOW, end].
InWindow(s, end) == {i \in DOMAIN s : s[i].at <= end /\ end - s[i].at < Window}

\* Variant: a new message is put last, whatever its instant.
InsertLast(s, m) == Append(s, m)

\* `insert_send`: before the first message of a later instant.
InsertSend(s, m) ==
    LET later == {i \in DOMAIN s : s[i].at > m.at}
    IN  InsertAt(s, IF later = {} THEN Len(s) + 1 ELSE Min(later), m)

\* What is left of a queue whose head is popped until it is one that stays.
From(s, stay) == IF stay = {} THEN <<>> ELSE SubSeq(s, Min(stay), Len(s))

\* `prune`: messages that left the window, and booked slots nobody sent on.
Kept == From(sends, {i \in DOMAIN sends : now - sends[i].at < Window})
Waiting(p) == From(p, {i \in DOMAIN p : now - p[i] <= PendingSpan})
PrunedFacts ==
    [c \in Channels |-> [facts[c] EXCEPT !.pending = Waiting(facts[c].pending)]]

\* `refusal`: only a viewer is refused; a repeat of the last text is, within
\* DUPLICATE_SPAN of it or for ever in unique chat.
Refused(c, text, login) ==
    /\ ~Privileged(c, login)
    /\ \/ facts[c].modes.shut
       \/ /\ facts[c].lastText # None
          /\ facts[c].lastText.text = text
          /\ \/ now - facts[c].lastText.at < DuplicateSpan
             \/ facts[c].modes.unique

\* No message may go at `at` under `limit`: its own window is full.
Full(s, at, limit) == Cardinality(InWindow(s, at)) >= limit

\* Messages booked for later than `at` that have no room for one before them.
Blocking(s, at) ==
    {i \in DOMAIN s : /\ s[i].at > at /\ s[i].at - at < Window
                      /\ Full(s, s[i].at, s[i].limit)}

\* Variant: only the window that ends at the new message is looked at.
SettleOwnWindow(s, limit) ==
    LET settle[at \in Nat] ==
            IF Full(s, at, limit) THEN settle[s[Min(InWindow(s, at))].at + Window]
            ELSE at
    IN  settle

\* Variant: a full window is waited out one instant too long.
SettleLate(s, limit) ==
    LET settle[at \in Nat] ==
            IF Full(s, at, limit) THEN settle[s[Min(InWindow(s, at))].at + Window + 1]
            ELSE IF Blocking(s, at) # {} THEN settle[s[Min(Blocking(s, at))].at + 1]
            ELSE at
    IN  settle

\* The loop of `earliest`: where it ends when it is at `at`.  A full window of
\* its own is waited out until its oldest message leaves; a full later window
\* is avoided by going right after the message it ends at.
Settle(s, limit) ==
    LET settle[at \in Nat] ==
            IF Full(s, at, limit) THEN settle[s[Min(InWindow(s, at))].at + Window]
            ELSE IF Blocking(s, at) # {} THEN settle[s[Min(Blocking(s, at))].at + 1]
            ELSE at
    IN  settle

\* `earliest`: the first instant from now on that keeps the channel's spacing
\* and fits its own window and those that end at messages booked for later.
Start(c, login) ==
    IF facts[c].lastSlot = None THEN now
    ELSE Later(now, facts[c].lastSlot + Spacing(c, login))
Earliest(c, login) == Settle(Kept, PerWindow(c, login))[Start(c, login)]

\* An entry of `sends`; only `at` and `limit` are in the code, the rest is
\* history that no guard reads.
Entry(c, at, limit, gap, paced) ==
    [at |-> at, limit |-> limit, n |-> made, channel |-> c, gap |-> gap,
     paced |-> paced]

\* Variant: any slot booked in the channel is claimed, however far ahead.
AnyNear(p) == DOMAIN p
\* Booked slots near enough to be the one a message went out on.
Near(p) == {i \in DOMAIN p : p[i] <= now + ClaimAhead}

\* `record`, on a slot `acquire` booked: the send is already counted.
Claim(c, text) ==
    LET f == PrunedFacts[c] IN
    /\ Near(f.pending) # {}
    /\ sends' = Kept
    /\ facts' = [PrunedFacts EXCEPT ![c] = [f EXCEPT
          !.pending = RemoveAt(f.pending, Min(Near(f.pending))),
          !.lastText = [text |-> text, at |-> now]]]
    /\ UNCHANGED made

\* `record`, when no booked slot is near: the send counts from now on.
CountNow(c, text) ==
    LET f == PrunedFacts[c] IN
    /\ Near(f.pending) = {} /\ made < MaxMade
    /\ sends' = InsertSend(Kept, Entry(c, now, PerWindow(c, ownLogin), 0, FALSE))
    /\ facts' = [PrunedFacts EXCEPT ![c] = [f EXCEPT
          !.lastSlot = Later(f.lastSlot, now),
          !.lastText = [text |-> text, at |-> now]]]
    /\ made' = made + 1

\* Instants within the span that SendsCovered speaks of.
Lately == {i \in DOMAIN delivered : now - delivered[i] < Window - PendingSpan}

\* `record_sent`, which send_message calls once Twitch took the message.
RecordSent(c, text) ==
    /\ Claim(c, text) \/ CountNow(c, text)
    /\ delivered' = Append(From(delivered, Lately), now)
    /\ UNCHANGED <<now, ownLogin, notes>>

-----------------------------------------------------------------------------

Init ==
    /\ now = 0
    /\ sends = <<>>
    /\ facts = [c \in Channels |-> NoFacts]
    /\ ownLogin = None
    /\ jobs = [j \in Jobs |-> None]
    /\ made = 0
    /\ delivered = <<>>
    /\ notes = 0

Tick ==
    /\ now < Horizon
    /\ now' = now + 1
    /\ UNCHANGED <<limiter, jobs, made, delivered, notes>>

\* `acquire` of a paced job: the slot is booked, the job sleeps until it comes.
Acquire(j, c, text) ==
    /\ jobs[j] = None
    /\ made < MaxMade
    /\ ~Refused(c, text, Primary)
    /\ LET at == Earliest(c, Primary) IN
        /\ at - now <= MaxWait
        /\ sends' = InsertSend(Kept, Entry(c, at, PerWindow(c, Primary),
                                           Spacing(c, Primary), TRUE))
        /\ facts' = [PrunedFacts EXCEPT ![c] = [PrunedFacts[c] EXCEPT
              !.lastSlot = at, !.lastText = [text |-> text, at |-> at],
              !.pending = Append(PrunedFacts[c].pending, at)]]
        /\ jobs' = [jobs EXCEPT ![j] = [channel |-> c, text |-> text, slot |-> at]]
    /\ ownLogin' = Primary
    /\ made' = made + 1
    /\ UNCHANGED <<now, delivered, notes>>

\* `acquire` that is refused, because of the room, a repeat, or too long a wait.
AcquireRefused(c, text) ==
    /\ \/ Refused(c, text, Primary)
       \/ Earliest(c, Primary) - now > MaxWait
    /\ sends' = Kept
    /\ facts' = PrunedFacts
    /\ ownLogin' = Primary
    /\ UNCHANGED <<now, jobs, made, delivered, notes>>

\* The job wakes at its slot or later, sends, and Twitch takes the message.
SendPaced(j) ==
    /\ jobs[j] # None
    /\ now >= jobs[j].slot
    /\ RecordSent(jobs[j].channel, jobs[j].text)
    /\ jobs' = [jobs EXCEPT ![j] = None]

\* Twitch drops the message, or the send fails: nothing is recorded.
SendDropped(j) ==
    /\ jobs[j] # None
    /\ now >= jobs[j].slot
    /\ jobs' = [jobs EXCEPT ![j] = None]
    /\ UNCHANGED <<now, limiter, made, delivered, notes>>

\* A message the user typed went out.
SendTyped(c, text) ==
    /\ RecordSent(c, text)
    /\ UNCHANGED jobs

\* The composer or a job asks what is in force: `budget` prunes, too.
AskBudget ==
    /\ sends' = Kept
    /\ facts' = PrunedFacts
    /\ ownLogin' = Primary
    /\ UNCHANGED <<now, jobs, made, delivered, notes>>

\* USERSTATE: the account's badges in a channel, in its own the broadcaster's.
NoteOwnBadges(c, role) ==
    /\ c = Primary => role = "privileged"
    /\ notes < MaxNotes
    /\ facts' = [facts EXCEPT ![c].role = role]
    /\ notes' = notes + 1
    /\ UNCHANGED <<now, sends, ownLogin, jobs, made, delivered>>

\* ROOMSTATE, merged with what was known; also a change of the account's own
\* sub, as far as it shuts the account out or lets it in.
NoteRoomState(c, modes) ==
    /\ notes < MaxNotes
    /\ facts' = [facts EXCEPT ![c].modes = modes]
    /\ notes' = notes + 1
    /\ UNCHANGED <<now, sends, ownLogin, jobs, made, delivered>>

\* Another account signs in; jobs that sleep on a slot are not told.
ResetAccount ==
    /\ notes < MaxNotes
    /\ sends' = <<>>
    /\ facts' = [c \in Channels |-> NoFacts]
    /\ ownLogin' = None
    /\ delivered' = <<>>
    /\ notes' = notes + 1
    /\ UNCHANGED <<now, jobs, made>>

Next ==
    \/ Tick
    \/ \E j \in Jobs :
         \/ \E c \in Channels, text \in Lines : Acquire(j, c, text)
         \/ SendPaced(j)
         \/ SendDropped(j)
    \/ \E c \in Channels :
         \/ \E text \in Lines : AcquireRefused(c, text) \/ SendTyped(c, text)
         \/ \E role \in Roles : NoteOwnBadges(c, role)
         \/ \E modes \in RoomModes : NoteRoomState(c, modes)
    \/ AskBudget
    \/ ResetAccount

Spec == Init /\ [][Next]_vars

-----------------------------------------------------------------------------

\* Types of the limiter's state; slots booked in a channel wait in order.
TypeOK ==
    /\ now \in 0..Horizon
    /\ \A i \in DOMAIN sends :
          /\ sends[i].at \in Nat
          /\ sends[i].limit \in {ViewerPerWindow, PrivilegedPerWindow}
          /\ i > 1 => sends[i - 1].at <= sends[i].at
    /\ \A c \in Channels :
          /\ facts[c].role \in Roles \cup {None}
          /\ facts[c].lastSlot \in Nat \cup {None}
          /\ facts[c].modes \in RoomModes \cup {NoModes}
          /\ LET p == facts[c].pending IN
               \A i \in DOMAIN p : i > 1 => p[i - 1] < p[i]
    /\ ownLogin \in {None, Primary}

\* Messages that went out cannot fall out of the count: those of the last
\* WINDOW less the time a slot can be claimed late are all matched by messages
\* the limiter counts, whatever mixture of claimed slots, slots left by dropped
\* sends, late answers and typed messages recorded them (`record`, `prune`: "A
\* send on a slot `acquire` booked is already counted").
SendsCovered ==
    Cardinality(Lately) <=
        Cardinality({i \in DOMAIN sends : /\ sends[i].at <= now + ClaimAhead
                                          /\ now - sends[i].at < Window})

\* Whether a message could go at `at` leaving room in every window it enters,
\* those that end at that very instant included.
Free(c, at) ==
    /\ facts[c].lastSlot # None => at >= facts[c].lastSlot + Spacing(c, Primary)
    /\ Cardinality(InWindow(Kept, at)) < PerWindow(c, Primary)
    /\ \A i \in DOMAIN Kept :
          Kept[i].at \in at..(at + Window - 1)
             => Cardinality(InWindow(Kept, Kept[i].at)) < Kept[i].limit

\* No message waits longer than it has to: there is never a free instant
\* before the slot a channel would get ("The earliest instant at or after
\* `now` a send in `channel` may go", `earliest`).
NoNeedlessWait ==
    \A c \in Channels :
        \A at \in now..(Earliest(c, Primary) - 1) : ~Free(c, at)

\* The limiter keeps the promise of SendBudget: every booking fits, wherever
\* the loop of `earliest` ends (`book`, `earliest`, `record`, `prune`).
Counted == Range(sends)
Slots == [c \in Channels |-> facts[c].lastSlot]
Budget == INSTANCE SendBudget WITH NoSlot <- None, sends <- Counted, last <- Slots
ImplementsBudget == Budget!Spec

\* No booking overfills a window, whichever order the bookings of the account's
\* channels were made in: when a paced message goes out, at most its budget of
\* paced messages went out inside its window ("A later booking must never push
\* an earlier-booked send over its own budget", the field `sends`; `earliest`).
WithinBudget == Budget!WithinBudget

-----------------------------------------------------------------------------
\* What the code says of itself and does not keep.

\* "A later booking must never push an earlier-booked send over its own
\* budget" (chat_send_limiter.rs:192), read with the test's `in_window(*end) <=
\* *budget` for every entry (line 1024).
NeverOverBudget ==
    \A i \in DOMAIN sends : sends[i].paced =>
        Cardinality({k \in InWindow(sends, sends[i].at) : sends[k].paced})
            <= sends[i].limit

\* "A paced send right after a typed one waits the per-channel gap"
\* (chat_send_limiter.rs:960, a comment of the test
\* recorded_sends_count_against_the_window).
SpacedAfterTyped ==
    [][\A c \in Channels, text \in Lines :
          SendTyped(c, text)
             => Earliest(c, Primary)' >= now + Spacing(c, Primary)]_vars

\* A "viewer repeating their last message in the channel inside 30 s" is
\* refused (chat_send_limiter.rs:22): of two lines that wait for their slots in
\* a viewer's channel with no third between them, the second is another text.
NoRepeat ==
    \A j, k \in Jobs :
        (/\ jobs[j] # None /\ jobs[k] # None
         /\ now < jobs[j].slot /\ jobs[j].slot < jobs[k].slot
         /\ jobs[k].channel = jobs[j].channel
         /\ ~Privileged(jobs[j].channel, Primary)
         /\ jobs[k].slot - jobs[j].slot < DuplicateSpan
         /\ \A i \in DOMAIN sends :
               sends[i].channel = jobs[j].channel
                  => sends[i].at \notin (jobs[j].slot + 1)..(jobs[k].slot - 1))
        => jobs[j].text # jobs[k].text

=============================================================================
