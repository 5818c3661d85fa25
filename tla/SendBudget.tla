----------------------------- MODULE SendBudget -----------------------------
(***************************************************************************)
(* What the chat send limiter promises, without saying how it finds a      *)
(* slot: messages an account sends on its own ("paced" ones) are booked    *)
(* ahead of time, possibly for a later instant than a booking made         *)
(* earlier, and no booking overfills Twitch's rolling window, neither its  *)
(* own nor one that ends at a message booked before it.  Messages the user *)
(* types are counted, never held back.  ChatSendLimiter implements this    *)
(* module; ChatSendLimiter_proofs proves that, and the promise itself, for *)
(* every value of the constants.                                           *)
(***************************************************************************)
EXTENDS Integers, FiniteSets

CONSTANTS Channels,   \* chats the account writes to
          Limits,     \* window budgets of the roles an account can have
          Gaps,       \* spacings a channel can ask for between two messages
          Window,     \* length of Twitch's rolling window
          MaxWait,    \* how far ahead a slot may be booked
          NoSlot,     \* no message booked or sent in a channel yet
          Horizon,    \* bound: the last instant of a behaviour
          MaxMade     \* bound: messages booked or counted

VARIABLES now,     \* the clock
          sends,   \* messages counted against the window, sent or booked
          last,    \* per channel, the latest slot taken
          made     \* messages booked or counted so far

vars == <<now, sends, last, made>>

\* A counted message: the place of its booking in the order of bookings, its
\* instant, and the budget and the spacing it was booked under.
Entry == [n : Nat, at : Nat, channel : Channels, paced : BOOLEAN,
          limit : Limits, gap : Gaps \cup {0}]

\* The messages of S inside the window that ends at `end`.
Within(S, end) == {s \in S : s.at <= end /\ end - s.at < Window}

\* The messages that still count at the present instant.
Live == {s \in sends : now - s.at < Window}

\* One more message fits at `at`, in the window that ends there and in every
\* window that ends at a message booked for later.
Fits(at, limit) ==
    /\ Cardinality(Within(Live, at)) < limit
    /\ \A u \in Live :
          (u.at > at /\ u.at - at < Window)
             => Cardinality(Within(Live, u.at)) < u.limit

Init ==
    /\ now = 0
    /\ sends = {}
    /\ last = [c \in Channels |-> NoSlot]
    /\ made = 0

\* Time passes.
Tick ==
    /\ now < Horizon
    /\ now' = now + 1
    /\ UNCHANGED <<sends, last, made>>

\* A paced message is given the slot `at`.
Book(c, limit, gap, at) ==
    /\ made < MaxMade
    /\ last[c] # NoSlot => at >= last[c] + gap
    /\ last' = [last EXCEPT ![c] = at]
    /\ Fits(at, limit)
    /\ sends' = Live \cup {[n |-> made, at |-> at, channel |-> c,
                            paced |-> TRUE, limit |-> limit, gap |-> gap]}
    /\ made' = made + 1
    /\ UNCHANGED now

\* A message went out that nobody booked: it counts from now on.
Count(c, limit) ==
    /\ made < MaxMade
    /\ sends' = Live \cup {[n |-> made, at |-> now, channel |-> c,
                            paced |-> FALSE, limit |-> limit, gap |-> 0]}
    /\ last' = [last EXCEPT ![c] = IF @ = NoSlot \/ @ < now THEN now ELSE @]
    /\ made' = made + 1
    /\ UNCHANGED now

\* Messages that left the window are forgotten.
Forget ==
    /\ sends' = Live
    /\ UNCHANGED <<now, last, made>>

\* Another account signs in: the history belonged to the old one.
Reset ==
    /\ sends' = {}
    /\ last' = [c \in Channels |-> NoSlot]
    /\ UNCHANGED <<now, made>>

Next ==
    \/ Tick
    \/ \E c \in Channels, limit \in Limits, gap \in Gaps,
          at \in now..(now + MaxWait) : Book(c, limit, gap, at)
    \/ \E c \in Channels, limit \in Limits : Count(c, limit)
    \/ Forget
    \/ Reset

Spec == Init /\ [][Next]_vars

-----------------------------------------------------------------------------

\* Every variable keeps its type, and each counted message was booked or
\* counted before the next number was given out (chat_send_limiter.rs,
\* `Limiter::sends`).
TypeOK ==
    /\ now \in 0..Horizon
    /\ sends \subseteq Entry
    /\ IsFiniteSet(sends)
    /\ last \in [Channels -> Nat \cup {NoSlot}]
    /\ made \in 0..MaxMade
    /\ \A s \in sends : s.n < made

\* The paced messages that go out in the window ending at e, those booked
\* after e for the very same instant left out.
Ahead(e) ==
    {f \in Within(sends, e.at) : f.paced /\ (f.at = e.at => f.n <= e.n)}

\* No booking overfills a window, whichever order the bookings were made in:
\* when a paced message goes out, at most its budget of paced messages went
\* out inside the window ("A later booking must never push an earlier-booked
\* send over its own budget", the field `sends` of `Limiter`; `earliest`).
WithinBudget ==
    \A e \in sends : e.paced => Cardinality(Ahead(e)) <= e.limit

\* A paced message keeps its channel's spacing to every message booked or
\* counted there before it, and so bookings of one channel never overtake
\* each other (`earliest` on `last_slot`).
Spaced ==
    \A e, f \in sends :
        (e.channel = f.channel /\ f.paced /\ e.n < f.n) => f.at >= e.at + f.gap

=============================================================================
