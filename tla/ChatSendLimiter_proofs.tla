------------------------ MODULE ChatSendLimiter_proofs ------------------------
(***************************************************************************)
(* Proofs about the chat send limiter, for every value of the constants:   *)
(* what SendBudget promises, and that the limiter keeps it.                *)
(***************************************************************************)
EXTENDS ChatSendLimiter, TLAPS, FiniteSetTheorems, SequenceTheorems

LEMMA BudgetConstants ==
    /\ Limits \subseteq Nat /\ \A n \in Limits : n >= 1
    /\ Gaps \subseteq Nat
    /\ Window \in Nat \ {0} /\ MaxWait \in Nat /\ Horizon \in Nat /\ MaxMade \in Nat
    /\ None \notin Nat
BY LimiterAssumption DEF Limits, Gaps

\* The instance counts as the limiter does.
LEMMA BudgetCounts ==
    /\ \A S : Budget!IsFiniteSet(S) <=> IsFiniteSet(S)
    /\ \A S : Budget!Cardinality(S) = Cardinality(S)
<1>1. ASSUME NEW S PROVE Budget!IsFiniteSet(S) <=> IsFiniteSet(S)
  BY DEF Budget!IsFiniteSet, IsFiniteSet
<1>2. ASSUME NEW S PROVE Budget!Cardinality(S) = Cardinality(S)
  BY DEF Budget!Cardinality, Cardinality
<1> QED
  BY <1>1, <1>2

USE BudgetConstants, BudgetCounts

-----------------------------------------------------------------------------
(* The promise: SendBudget *)

\* The channel's last slot is never earlier than a message counted there.
LastIsLatest ==
    \A s \in Counted : Slots[s.channel] # None /\ s.at <= Slots[s.channel]

\* The inductive invariant: Budget!WithinBudget rests on the types alone (every
\* booking looks at every window it enters), Spaced on the last slot.
BInv == Budget!TypeOK /\ LastIsLatest /\ Budget!Spaced /\ Budget!WithinBudget

\* The message a booking or a count adds.
Added(c, paced, limit, gap, at) ==
    [n |-> made, at |-> at, channel |-> c, paced |-> paced,
     limit |-> limit, gap |-> gap]

-----------------------------------------------------------------------------
\* Types.

\* The present messages are well-typed and finitely many.
LEMMA LiveTypes ==
    ASSUME Budget!TypeOK
    PROVE  Budget!Live \subseteq Counted /\ IsFiniteSet(Budget!Live)
<1>1. Budget!Live \subseteq Counted
  BY DEF Budget!Live
<1> QED
  BY <1>1, FS_Subset DEF Budget!TypeOK

\* A step that adds one message keeps the types of the messages.
LEMMA AddedTypes ==
    ASSUME Budget!TypeOK, NEW c \in Channels, NEW paced \in BOOLEAN,
           NEW limit \in Limits, NEW gap \in Gaps \cup {0}, NEW at \in Nat,
           Counted' = Budget!Live \cup {Added(c, paced, limit, gap, at)},
           made' = made + 1
    PROVE  /\ Counted' \subseteq Budget!Entry
           /\ IsFiniteSet(Counted')
           /\ \A s \in Counted' : s.n < made'
<1>1. Budget!Live \subseteq Counted /\ IsFiniteSet(Budget!Live)
  BY LiveTypes
<1>2. Added(c, paced, limit, gap, at) \in Budget!Entry
  BY DEF Added, Budget!Entry, Budget!TypeOK
<1>3. Counted' \subseteq Budget!Entry
  BY <1>1, <1>2 DEF Budget!TypeOK
<1>4. IsFiniteSet(Counted')
  BY <1>1, FS_AddElement
<1>5. ASSUME NEW s \in Counted'
      PROVE  s.n < made'
  <2>1. CASE s \in Budget!Live
    BY <2>1, <1>1 DEF Budget!TypeOK, Budget!Entry
  <2>2. CASE s = Added(c, paced, limit, gap, at)
    BY <2>2 DEF Added, Budget!TypeOK
  <2> QED
    BY <2>1, <2>2
<1> QED
  BY <1>3, <1>4, <1>5

\* The initial state and every step keep the types.
LEMMA TypeInit == Budget!Init => Budget!TypeOK
BY FS_EmptySet DEF Budget!Init, Budget!TypeOK

LEMMA TypeNext == Budget!TypeOK /\ [Budget!Next]_Budget!vars => Budget!TypeOK'
<1> SUFFICES ASSUME Budget!TypeOK, [Budget!Next]_Budget!vars
             PROVE  Budget!TypeOK'
  OBVIOUS
<1>0. Budget!Live \subseteq Counted /\ IsFiniteSet(Budget!Live)
  BY LiveTypes
<1>1. CASE Budget!Tick
  BY <1>1 DEF Budget!Tick, Budget!TypeOK
<1>2. ASSUME NEW c \in Channels, NEW limit \in Limits, NEW gap \in Gaps,
             NEW at \in now..(now + MaxWait), Budget!Book(c, limit, gap, at)
      PROVE  Budget!TypeOK'
  <2>1. at \in Nat
    BY DEF Budget!TypeOK
  <2>2. /\ Counted' \subseteq Budget!Entry
        /\ IsFiniteSet(Counted')
        /\ \A s \in Counted' : s.n < made'
    BY <1>2, <2>1, AddedTypes DEF Budget!Book, Added
  <2>3. now' \in 0..Horizon /\ made' \in 0..MaxMade
    BY <1>2 DEF Budget!Book, Budget!TypeOK
  <2>4. Slots' \in [Channels -> Nat \cup {None}]
    BY <1>2, <2>1 DEF Budget!Book, Budget!TypeOK
  <2> QED
    BY <2>2, <2>3, <2>4 DEF Budget!TypeOK
<1>3. ASSUME NEW c \in Channels, NEW limit \in Limits, Budget!Count(c, limit)
      PROVE  Budget!TypeOK'
  <2>1. now \in Nat
    BY DEF Budget!TypeOK
  <2>2. /\ Counted' \subseteq Budget!Entry
        /\ IsFiniteSet(Counted')
        /\ \A s \in Counted' : s.n < made'
    BY <1>3, <2>1, AddedTypes DEF Budget!Count, Added
  <2>3. now' \in 0..Horizon /\ made' \in 0..MaxMade
    BY <1>3 DEF Budget!Count, Budget!TypeOK
  <2>4. Slots' \in [Channels -> Nat \cup {None}]
    BY <1>3, <2>1 DEF Budget!Count, Budget!TypeOK
  <2> QED
    BY <2>2, <2>3, <2>4 DEF Budget!TypeOK
<1>4. CASE Budget!Forget
  BY <1>4, <1>0 DEF Budget!Forget, Budget!TypeOK
<1>5. CASE Budget!Reset
  BY <1>5, FS_EmptySet DEF Budget!Reset, Budget!TypeOK
<1>6. CASE UNCHANGED Budget!vars
  BY <1>6 DEF Budget!vars, Budget!TypeOK
<1> QED
  BY <1>1, <1>2, <1>3, <1>4, <1>5, <1>6 DEF Budget!Next

-----------------------------------------------------------------------------
\* Spacing.

\* A step that forgets some messages and does nothing else harms nothing.
LEMMA FewerMessages ==
    ASSUME BInv, Counted' \subseteq Counted, Slots' = Slots
    PROVE  LastIsLatest' /\ Budget!Spaced'
BY DEF BInv, LastIsLatest, Budget!Spaced

\* A booking leaves the last slot the latest and keeps the spacing.
LEMMA BookSpaced ==
    ASSUME BInv, NEW c \in Channels, NEW limit \in Limits, NEW gap \in Gaps,
           NEW at \in now..(now + MaxWait), Budget!Book(c, limit, gap, at)
    PROVE  LastIsLatest' /\ Budget!Spaced'
<1> DEFINE x == Added(c, TRUE, limit, gap, at)
<1>1. Budget!Live \subseteq Counted
  BY DEF Budget!Live
<1>2. Counted' = Budget!Live \cup {x} /\ Slots' = [Slots EXCEPT ![c] = at]
  BY DEF Budget!Book, Added
<1>3. x.n = made /\ x.at = at /\ x.channel = c /\ x.gap = gap
  BY DEF Added
<1>4. \A s \in Counted : s \in Budget!Entry /\ s.n < made
  BY DEF BInv, Budget!TypeOK
<1> HIDE DEF x
<1>5. \A s \in Counted : s.channel = c => s.at + gap <= at
  <2> SUFFICES ASSUME NEW s \in Counted, s.channel = c
               PROVE  s.at + gap <= at
    OBVIOUS
  <2>1. Slots[c] # None /\ s.at <= Slots[c]
    BY DEF BInv, LastIsLatest
  <2>2. Slots[c] \in Nat /\ s.at \in Nat /\ at \in Nat
    BY <2>1, <1>4 DEF BInv, Budget!TypeOK, Budget!Entry
  <2>3. at >= Slots[c] + gap
    BY <2>1 DEF Budget!Book
  <2>4. gap \in Nat
    OBVIOUS
  <2> QED
    BY <2>1, <2>2, <2>3, <2>4
<1>6. LastIsLatest'
  <2> SUFFICES ASSUME NEW s \in Counted'
               PROVE  Slots'[s.channel] # None /\ s.at <= Slots'[s.channel]
    BY DEF LastIsLatest
  <2>0. at \in Nat /\ at # None
    BY DEF BInv, Budget!TypeOK
  <2>1. CASE s = x
    <3>1. Slots'[c] = at
      BY <1>2 DEF BInv, Budget!TypeOK
    <3> QED
      BY <3>1, <2>0, <2>1, <1>3
  <2>2. CASE s \in Budget!Live /\ s.channel = c
    <3>1. s.at \in Nat /\ s.at + gap <= at
      BY <2>2, <1>1, <1>4, <1>5 DEF Budget!Entry
    <3> QED
      BY <3>1, <2>0, <2>2, <1>2 DEF BInv, Budget!TypeOK
  <2>3. CASE s \in Budget!Live /\ s.channel # c
    <3>1. Slots[s.channel] # None /\ s.at <= Slots[s.channel]
      BY <2>3, <1>1 DEF BInv, LastIsLatest
    <3>2. s.channel \in Channels
      BY <2>3, <1>1, <1>4 DEF Budget!Entry
    <3> QED
      BY <3>1, <3>2, <2>3, <1>2 DEF BInv, Budget!TypeOK
  <2> QED
    BY <2>1, <2>2, <2>3, <1>2
<1>7. Budget!Spaced'
  <2> SUFFICES ASSUME NEW e \in Counted', NEW f \in Counted',
                      e.channel = f.channel, f.paced, e.n < f.n
               PROVE  f.at >= e.at + f.gap
    BY DEF Budget!Spaced
  <2>0. made \in Nat
    BY DEF BInv, Budget!TypeOK
  <2>1. CASE f = x /\ e \in Budget!Live
    <3>1. e \in Budget!Entry /\ e.at + gap <= at
      BY <2>1, <1>1, <1>3, <1>4, <1>5
    <3>2. e.at \in Nat /\ at \in Nat /\ gap \in Nat
      BY <3>1 DEF Budget!Entry, BInv, Budget!TypeOK
    <3> QED
      BY <3>1, <3>2, <2>1, <1>3
  <2>2. CASE e = x
    <3>1. f # x /\ made < f.n
      BY <2>0, <2>2, <1>3
    <3>2. f \in Budget!Entry /\ f.n < made
      BY <3>1, <1>1, <1>2, <1>4
    <3>3. f.n \in Nat
      BY <3>2 DEF Budget!Entry
    <3> QED
      BY <3>1, <3>2, <3>3, <2>0
  <2>3. CASE e \in Budget!Live /\ f \in Budget!Live
    BY <2>3, <1>1 DEF BInv, Budget!Spaced
  <2> QED
    BY <2>1, <2>2, <2>3, <1>2
<1> QED
  BY <1>6, <1>7

\* A typed message only ever moves the last slot forward; it is not paced, so
\* nothing is asked of it.
LEMMA CountSpaced ==
    ASSUME BInv, NEW c \in Channels, NEW limit \in Limits, Budget!Count(c, limit)
    PROVE  LastIsLatest' /\ Budget!Spaced'
<1> DEFINE x == Added(c, FALSE, limit, 0, now)
<1>1. Budget!Live \subseteq Counted
  BY DEF Budget!Live
<1>2. /\ Counted' = Budget!Live \cup {x}
      /\ Slots' = [Slots EXCEPT ![c] = IF @ = None \/ @ < now THEN now ELSE @]
  BY DEF Budget!Count, Added
<1>3. x.n = made /\ x.at = now /\ x.channel = c /\ x.paced = FALSE
  BY DEF Added
<1>4. \A s \in Counted : s \in Budget!Entry /\ s.n < made
  BY DEF BInv, Budget!TypeOK
<1>5. now \in Nat /\ now # None /\ Slots \in [Channels -> Nat \cup {None}]
  BY DEF BInv, Budget!TypeOK
<1> HIDE DEF x
<1>6. Slots'[c] \in Nat /\ Slots'[c] # None /\ now <= Slots'[c]
  BY <1>2, <1>5
<1>7. LastIsLatest'
  <2> SUFFICES ASSUME NEW s \in Counted'
               PROVE  Slots'[s.channel] # None /\ s.at <= Slots'[s.channel]
    BY DEF LastIsLatest
  <2>1. CASE s = x
    BY <2>1, <1>3, <1>6
  <2>2. CASE s \in Budget!Live
    <3>1. /\ Slots[s.channel] # None /\ s.at <= Slots[s.channel]
          /\ s.channel \in Channels /\ s.at \in Nat
      BY <2>2, <1>1, <1>4 DEF BInv, LastIsLatest, Budget!Entry
    <3> QED
      BY <3>1, <1>2, <1>5
  <2> QED
    BY <2>1, <2>2, <1>2
<1>8. Budget!Spaced'
  <2> SUFFICES ASSUME NEW e \in Counted', NEW f \in Counted',
                      e.channel = f.channel, f.paced, e.n < f.n
               PROVE  f.at >= e.at + f.gap
    BY DEF Budget!Spaced
  <2>1. f \in Budget!Live
    BY <1>2, <1>3
  <2>2. CASE e \in Budget!Live
    BY <2>1, <2>2, <1>1 DEF BInv, Budget!Spaced
  <2>3. CASE e = x
    <3>1. f \in Budget!Entry /\ f.n < made /\ made < f.n
      BY <2>1, <2>3, <1>1, <1>3, <1>4
    <3>2. f.n \in Nat /\ made \in Nat
      BY <3>1 DEF Budget!Entry, BInv, Budget!TypeOK
    <3> QED
      BY <3>1, <3>2
  <2> QED
    BY <2>2, <2>3, <1>2
<1> QED
  BY <1>7, <1>8

-----------------------------------------------------------------------------
\* The budget of a window.

\* Fewer messages, or other ones that nobody booked, fill no window.
LEMMA NothingPacedAdded ==
    ASSUME BInv, \A s \in Counted' : s.paced => s \in Counted
    PROVE  Budget!WithinBudget'
<1> SUFFICES ASSUME NEW e \in Counted', e.paced
             PROVE  Cardinality(Budget!Ahead(e)') <= e.limit
  BY DEF Budget!WithinBudget
<1>1. e \in Counted /\ Cardinality(Budget!Ahead(e)) <= e.limit
  BY DEF BInv, Budget!WithinBudget
<1>2. Budget!Ahead(e)' \subseteq Budget!Ahead(e) /\ Budget!Ahead(e) \subseteq Counted
  BY DEF Budget!Ahead, Budget!Within
<1>3. IsFiniteSet(Budget!Ahead(e))
  BY <1>2, FS_Subset DEF BInv, Budget!TypeOK
<1>4. Cardinality(Budget!Ahead(e)') <= Cardinality(Budget!Ahead(e))
  BY <1>2, <1>3, FS_Subset
<1>5. /\ IsFiniteSet(Budget!Ahead(e)')
      /\ e.limit \in Nat
  BY <1>1, <1>2, <1>3, FS_Subset DEF BInv, Budget!TypeOK, Budget!Entry
<1> QED
  BY <1>1, <1>3, <1>4, <1>5, FS_CardinalityType

\* Where a window has room for one more, one more leaves it within budget.
LEMMA OneMore ==
    ASSUME NEW S, IsFiniteSet(S), NEW T, NEW x, T \subseteq S \cup {x},
           NEW limit \in Nat, Cardinality(S) < limit
    PROVE  Cardinality(T) <= limit
<1>1. IsFiniteSet(S \cup {x}) /\ Cardinality(S \cup {x}) <= Cardinality(S) + 1
  <2>1. Cardinality(S) \in Nat
    BY FS_CardinalityType
  <2>2. /\ IsFiniteSet(S \cup {x})
        /\ Cardinality(S \cup {x}) =
              IF x \in S THEN Cardinality(S) ELSE Cardinality(S) + 1
    BY FS_AddElement, Zenon
  <2> QED
    BY <2>1, <2>2
<1>2. IsFiniteSet(T) /\ Cardinality(T) <= Cardinality(S \cup {x})
  BY <1>1, FS_Subset
<1>3. /\ Cardinality(S) \in Nat
      /\ Cardinality(S \cup {x}) \in Nat
      /\ Cardinality(T) \in Nat
  BY <1>1, <1>2, FS_CardinalityType
<1> QED
  BY <1>1, <1>2, <1>3

\* A booking overfills no window: not its own, and not one that ends at a
\* message booked before it.
LEMMA BookWithinBudget ==
    ASSUME BInv, NEW c \in Channels, NEW limit \in Limits, NEW gap \in Gaps,
           NEW at \in now..(now + MaxWait), Budget!Book(c, limit, gap, at)
    PROVE  Budget!WithinBudget'
<1> DEFINE x == Added(c, TRUE, limit, gap, at)
<1>1. Budget!Live \subseteq Counted /\ IsFiniteSet(Budget!Live)
  BY LiveTypes DEF BInv
<1>2. Counted' = Budget!Live \cup {x}
  BY DEF Budget!Book, Added
<1>3. x.n = made /\ x.at = at /\ x.limit = limit
  BY DEF Added
<1>4. \A s \in Budget!Live : s \in Budget!Entry /\ s.n < made /\ s.n \in Nat /\ s.limit \in Nat
  BY <1>1 DEF BInv, Budget!TypeOK, Budget!Entry
<1>5. \A end : Budget!Within(Budget!Live, end) \subseteq Budget!Live /\ IsFiniteSet(Budget!Within(Budget!Live, end))
  BY <1>1, FS_Subset DEF Budget!Within
<1>6. made \in Nat
  BY DEF BInv, Budget!TypeOK
<1> HIDE DEF x
<1> SUFFICES ASSUME NEW e \in Counted', e.paced
             PROVE  Cardinality(Budget!Ahead(e)') <= e.limit
  BY DEF Budget!WithinBudget
<1>7. CASE e = x
  <2>1. Budget!Ahead(e)' \subseteq Budget!Within(Budget!Live, at) \cup {x}
    BY <1>2, <1>3, <1>7 DEF Budget!Ahead, Budget!Within
  <2>2. Cardinality(Budget!Within(Budget!Live, at)) < limit
    BY DEF Budget!Book, Budget!Fits
  <2>3. limit \in Nat
    OBVIOUS
  <2> QED
    BY <2>1, <2>2, <2>3, <1>3, <1>5, <1>7, OneMore
<1>8. CASE e \in Budget!Live /\ x \in Budget!Ahead(e)'
  <2>0. e \in Budget!Entry /\ e.n < made /\ e.n \in Nat
    BY <1>4, <1>8
  <2>1. x.at <= e.at /\ e.at - x.at < Window /\ (x.at = e.at => x.n <= e.n)
    BY <1>8 DEF Budget!Ahead, Budget!Within
  <2>2. at # e.at
    BY <2>0, <2>1, <1>3, <1>6
  <2>3. e.at \in Nat /\ at \in Nat
    BY <2>0 DEF Budget!Entry, BInv, Budget!TypeOK
  <2>4. e.at > at /\ e.at - at < Window
    BY <2>1, <2>2, <2>3, <1>3
  <2>5. Cardinality(Budget!Within(Budget!Live, e.at)) < e.limit
    BY <2>4, <1>8 DEF Budget!Book, Budget!Fits
  <2>6. Budget!Ahead(e)' \subseteq Budget!Within(Budget!Live, e.at) \cup {x}
    BY <1>2 DEF Budget!Ahead, Budget!Within
  <2>7. e.limit \in Nat
    BY <1>4, <1>8
  <2> QED
    BY <2>5, <2>6, <2>7, <1>5, OneMore
<1>9. CASE e \in Budget!Live /\ x \notin Budget!Ahead(e)'
  <2>1. Budget!Ahead(e)' \subseteq Budget!Ahead(e) /\ Budget!Ahead(e) \subseteq Counted
    BY <1>1, <1>2, <1>9 DEF Budget!Ahead, Budget!Within
  <2>2. IsFiniteSet(Budget!Ahead(e))
    BY <2>1, FS_Subset DEF BInv, Budget!TypeOK
  <2>3. IsFiniteSet(Budget!Ahead(e)') /\ Cardinality(Budget!Ahead(e)') <= Cardinality(Budget!Ahead(e))
    BY <2>1, <2>2, FS_Subset
  <2>4. Cardinality(Budget!Ahead(e)) <= e.limit
    BY <1>1, <1>9 DEF BInv, Budget!WithinBudget
  <2> QED
    BY <2>2, <2>3, <2>4, <1>4, <1>9, FS_CardinalityType
<1> QED
  BY <1>2, <1>7, <1>8, <1>9

-----------------------------------------------------------------------------
\* The inductive invariant.

LEMMA InvInit == Budget!Init => BInv
<1> SUFFICES ASSUME Budget!Init
             PROVE  BInv
  OBVIOUS
<1>1. Counted = {}
  BY DEF Budget!Init
<1> QED
  BY <1>1, TypeInit DEF BInv, LastIsLatest, Budget!Spaced, Budget!WithinBudget

LEMMA InvNext == BInv /\ [Budget!Next]_Budget!vars => BInv'
<1> SUFFICES ASSUME BInv, [Budget!Next]_Budget!vars
             PROVE  BInv'
  OBVIOUS
<1>0. Budget!TypeOK'
  BY TypeNext DEF BInv
<1>1. CASE Budget!Tick
  <2>1. Counted' = Counted /\ Slots' = Slots
    BY <1>1 DEF Budget!Tick
  <2> QED
    BY <2>1, <1>0, FewerMessages, NothingPacedAdded DEF BInv
<1>2. ASSUME NEW c \in Channels, NEW limit \in Limits, NEW gap \in Gaps,
             NEW at \in now..(now + MaxWait), Budget!Book(c, limit, gap, at)
      PROVE  BInv'
  BY <1>0, <1>2, BookSpaced, BookWithinBudget DEF BInv
<1>3. ASSUME NEW c \in Channels, NEW limit \in Limits, Budget!Count(c, limit)
      PROVE  BInv'
  <2>1. \A s \in Counted' : s.paced => s \in Counted
    BY <1>3 DEF Budget!Count, Budget!Live
  <2> QED
    BY <2>1, <1>0, <1>3, CountSpaced, NothingPacedAdded DEF BInv
<1>4. CASE Budget!Forget
  <2>1. Counted' \subseteq Counted /\ Slots' = Slots
    BY <1>4 DEF Budget!Forget, Budget!Live
  <2> QED
    BY <2>1, <1>0, FewerMessages, NothingPacedAdded DEF BInv
<1>5. CASE Budget!Reset
  <2>1. Counted' = {}
    BY <1>5 DEF Budget!Reset
  <2> QED
    BY <2>1, <1>0 DEF BInv, LastIsLatest, Budget!Spaced, Budget!WithinBudget
<1>6. CASE UNCHANGED Budget!vars
  <2>1. Counted' = Counted /\ Slots' = Slots
    BY <1>6 DEF Budget!vars
  <2> QED
    BY <2>1, <1>0, FewerMessages, NothingPacedAdded DEF BInv
<1> QED
  BY <1>1, <1>2, <1>3, <1>4, <1>5, <1>6 DEF Budget!Next

LEMMA Invariance == Budget!Spec => []BInv
BY InvInit, InvNext, PTL DEF Budget!Spec

-----------------------------------------------------------------------------
(* The queue of messages *)

\* The least of some numbers is one of them, and no more than any.
LEMMA MinIs ==
    ASSUME NEW S \in SUBSET Nat, S # {}
    PROVE  Min(S) \in S /\ \A y \in S : Min(S) <= y
<1>1. PICK x \in S : \A y \in S : <<y, x>> \notin OpToRel(<, Nat)
  BY NatLessThanWellFounded, WFMin
<1>2. ASSUME NEW y \in S PROVE x <= y
  <2>1. ~(y < x)
    <3>1. <<y, x>> \notin OpToRel(<, Nat) /\ y \in Nat /\ x \in Nat
      BY <1>1
    <3> QED
      BY <3>1, Zenon DEF OpToRel
  <2> QED
    BY <2>1
<1> QED
  BY <1>2 DEF Min

\* A message as `sends` holds it, with its history.
Message == [at : Nat, limit : Limits, n : Nat, channel : Channels,
            gap : Gaps \cup {0}, paced : BOOLEAN]

\* The queue is ordered by instant, and no message is in it twice.
Sorted(s) == \A i, k \in DOMAIN s : i < k => s[i].at <= s[k].at
Distinct(s) == \A i, k \in DOMAIN s : s[i].n = s[k].n => i = k
Good(s) == s \in Seq(Message) /\ Sorted(s) /\ Distinct(s)

\* What popping the head leaves: the rest of the queue from the first one that
\* stays, if any does.
LEMMA FromIs ==
    ASSUME NEW S, NEW s \in Seq(S), NEW stay \in SUBSET DOMAIN s
    PROVE  \E k \in 1..(Len(s) + 1) :
              /\ From(s, stay) \in Seq(S) /\ Len(From(s, stay)) = Len(s) + 1 - k
              /\ \A i \in 1..(Len(s) + 1 - k) : From(s, stay)[i] = s[i + k - 1]
              /\ \A i \in stay : k <= i
              /\ k <= Len(s) => k \in stay
<1>0. Len(s) \in Nat /\ DOMAIN s = 1..Len(s) /\ \A i \in 1..Len(s) : s[i] \in S
  BY LenProperties, ElementOfSeq
<1>1. CASE stay = {}
  <2>1. From(s, stay) = <<>>
    BY <1>1 DEF From
  <2> DEFINE k == Len(s) + 1
  <2>2. k \in 1..(Len(s) + 1) /\ Len(s) + 1 - k = 0 /\ ~(k <= Len(s))
    BY <1>0
  <2>3. From(s, stay) \in Seq(S) /\ Len(From(s, stay)) = 0
    BY <2>1
  <2> HIDE DEF k
  <2> QED
    BY <1>1, <2>2, <2>3
<1>2. CASE stay # {}
  <2>1. Min(stay) \in stay /\ \A y \in stay : Min(stay) <= y
    BY <1>0, <1>2, MinIs
  <2> DEFINE k == Min(stay)
  <2>2. k \in 1..Len(s)
    BY <1>0, <2>1
  <2>3. From(s, stay) = SubSeq(s, k, Len(s))
    BY <1>2 DEF From
  <2> HIDE DEF k
  <2>4. /\ SubSeq(s, k, Len(s)) \in Seq(S)
        /\ Len(SubSeq(s, k, Len(s))) = Len(s) - k + 1
        /\ \A i \in 1..(Len(s) - k + 1) : SubSeq(s, k, Len(s))[i] = s[k + i - 1]
    BY <1>0, <2>2, SubSeqProperties
  <2>5. \A i \in Nat : k + i - 1 = i + k - 1
    BY <2>2
  <2>6. Len(s) - k + 1 = Len(s) + 1 - k
    BY <1>0, <2>2
  <2>7. /\ k \in 1..(Len(s) + 1) /\ k \in stay /\ \A i \in stay : k <= i
        /\ From(s, stay) \in Seq(S) /\ Len(From(s, stay)) = Len(s) + 1 - k
    BY <1>0, <2>1, <2>2, <2>3, <2>4, <2>6 DEF k
  <2>8. \A i \in 1..(Len(s) + 1 - k) : From(s, stay)[i] = s[i + k - 1]
    <3> TAKE i \in 1..(Len(s) + 1 - k)
    <3>1. i \in 1..(Len(s) - k + 1)
      BY <2>6
    <3>2. From(s, stay)[i] = s[k + i - 1]
      BY <2>3, <2>4, <3>1
    <3>3. i \in Nat
      BY <3>1
    <3>4. k + i - 1 = i + k - 1
      BY <2>5, <3>3
    <3> QED
      BY <3>2, <3>4
  <2> QED
    BY <2>7, <2>8
<1> QED
  BY <1>1, <1>2

LEMMA GoodRange ==
    ASSUME NEW s, Good(s)
    PROVE  /\ DOMAIN s = 1..Len(s) /\ Len(s) \in Nat
           /\ \A i \in DOMAIN s : s[i] \in Message /\ s[i].at \in Nat
           /\ Range(s) \subseteq Message /\ IsFiniteSet(Range(s))
<1>1. DOMAIN s = 1..Len(s) /\ Len(s) \in Nat /\ \A i \in DOMAIN s : s[i] \in Message
  BY LenProperties, ElementOfSeq DEF Good
<1>2. \A i \in DOMAIN s : s[i].at \in Nat
  BY <1>1 DEF Message
<1>3. IsFiniteSet(DOMAIN s)
  BY <1>1, FS_Interval
<1>4. s \in Surjection(DOMAIN s, Range(s))
  BY DEF Surjection, Range, Good
<1>5. IsFiniteSet(Range(s))
  BY <1>3, <1>4, FS_Surjection
<1> QED
  BY <1>1, <1>2, <1>5 DEF Range

\* `prune` keeps the messages that still count, and their order.
LEMMA KeptIs ==
    ASSUME Good(sends), now \in Nat
    PROVE  /\ Good(Kept) /\ Range(Kept) = Budget!Live
           /\ \A i \in DOMAIN Kept : now - Kept[i].at < Window
<1> DEFINE stay == {i \in DOMAIN sends : now - sends[i].at < Window}
<1>0. /\ sends \in Seq(Message) /\ DOMAIN sends = 1..Len(sends) /\ Len(sends) \in Nat
      /\ \A i \in DOMAIN sends : sends[i] \in Message /\ sends[i].at \in Nat
  BY GoodRange DEF Good
<1>1. PICK k \in 1..(Len(sends) + 1) :
          /\ Kept \in Seq(Message) /\ Len(Kept) = Len(sends) + 1 - k
          /\ \A i \in 1..(Len(sends) + 1 - k) : Kept[i] = sends[i + k - 1]
          /\ \A i \in stay : k <= i
          /\ k <= Len(sends) => k \in stay
  BY <1>0, FromIs DEF Kept
<1>2. DOMAIN Kept = 1..(Len(sends) + 1 - k)
  BY <1>1, LenProperties
<1>3. \A i \in DOMAIN Kept : i + k - 1 \in DOMAIN sends /\ Kept[i] = sends[i + k - 1]
  BY <1>0, <1>1, <1>2
<1>4. \A i \in DOMAIN Kept : now - Kept[i].at < Window
  <2> TAKE i \in DOMAIN Kept
  <2>1. k \in stay /\ k <= i + k - 1 /\ k \in DOMAIN sends
    BY <1>0, <1>1, <1>2
  <2>2. sends[k].at <= sends[i + k - 1].at
    <3>1. CASE k = i + k - 1
      BY <1>0, <2>1, <3>1
    <3>2. CASE k < i + k - 1
      BY <1>0, <1>3, <2>1, <3>2 DEF Good, Sorted
    <3> QED
      BY <2>1, <3>1, <3>2, <1>2
  <2> QED
    BY <1>0, <1>3, <2>1, <2>2
<1>5. Sorted(Kept) /\ Distinct(Kept)
  <2> SUFFICES ASSUME NEW i \in DOMAIN Kept, NEW j \in DOMAIN Kept
               PROVE  /\ i < j => Kept[i].at <= Kept[j].at
                      /\ Kept[i].n = Kept[j].n => i = j
    BY DEF Sorted, Distinct
  <2>1. /\ i \in Nat /\ j \in Nat /\ k \in Nat
        /\ i < j => i + k - 1 < j + k - 1
        /\ i + k - 1 = j + k - 1 => i = j
    BY <1>0, <1>2
  <2> QED
    BY <1>3, <2>1 DEF Good, Sorted, Distinct
<1>6. Range(Kept) = Budget!Live
  <2>1. ASSUME NEW i \in DOMAIN Kept PROVE Kept[i] \in Budget!Live
    BY <1>3, <1>4 DEF Budget!Live, Counted, Range
  <2>2. ASSUME NEW e \in Budget!Live PROVE e \in Range(Kept)
    <3>1. PICK i \in DOMAIN sends : e = sends[i] /\ i \in stay
      BY DEF Budget!Live, Counted, Range
    <3>2. k <= i /\ i + 1 - k \in DOMAIN Kept /\ (i + 1 - k) + k - 1 = i
      <4>1. k <= i /\ i \in 1..Len(sends)
        BY <1>0, <1>1, <3>1
      <4> QED
        BY <1>0, <1>2, <4>1
    <3>3. Kept[i + 1 - k] = e
      BY <1>3, <3>1, <3>2
    <3> QED
      BY <3>2, <3>3 DEF Range
  <2> QED
    BY <2>1, <2>2 DEF Range
<1> QED
  BY <1>1, <1>4, <1>5, <1>6 DEF Good

\* `insert_send` keeps the order, and adds the message.
LEMMA InsertIs ==
    ASSUME NEW s, Good(s), NEW m \in Message, \A i \in DOMAIN s : s[i].n # m.n
    PROVE  Good(InsertSend(s, m)) /\ Range(InsertSend(s, m)) = Range(s) \cup {m}
<1> DEFINE later == {i \in DOMAIN s : s[i].at > m.at}
           p == IF later = {} THEN Len(s) + 1 ELSE Min(later)
           t == InsertSend(s, m)
<1>0. /\ s \in Seq(Message) /\ DOMAIN s = 1..Len(s) /\ Len(s) \in Nat /\ m.at \in Nat
      /\ \A i \in DOMAIN s : s[i] \in Message /\ s[i].at \in Nat
  BY GoodRange DEF Good, Message
<1>1. /\ p \in 1..(Len(s) + 1)
      /\ \A i \in 1..(p - 1) : s[i].at <= m.at
      /\ \A i \in p..Len(s) : m.at < s[i].at
  <2>1. CASE later = {}
    BY <1>0, <2>1
  <2>2. CASE later # {}
    <3>0. later \in SUBSET Nat
      BY <1>0
    <3>1. Min(later) \in later /\ \A y \in later : Min(later) <= y
      BY <2>2, <3>0, MinIs
    <3>2. p = Min(later)
      BY <2>2
    <3> HIDE DEF p
    <3>3. /\ p \in DOMAIN s /\ s[p].at > m.at
          /\ \A i \in 1..(p - 1) : i \in DOMAIN s /\ i \notin later
      <4>1. p \in later /\ \A y \in later : p <= y
        BY <3>1, <3>2
      <4>2. p \in 1..Len(s)
        BY <1>0, <4>1
      <4>3. ASSUME NEW i \in 1..(p - 1) PROVE i \in DOMAIN s /\ i \notin later
        <5>1. ~(p <= i) /\ i \in 1..Len(s)
          BY <1>0, <4>2
        <5> QED
          BY <1>0, <4>1, <5>1
      <4> QED
        BY <4>1, <4>2, <4>3
    <3>4. \A i \in p..Len(s) : s[p].at <= s[i].at
      <4> TAKE i \in p..Len(s)
      <4>1. CASE i = p
        BY <1>0, <3>3, <4>1
      <4>2. CASE i # p
        BY <1>0, <3>3, <4>2 DEF Good, Sorted
      <4> QED
        BY <4>1, <4>2
    <3> QED
      BY <1>0, <3>3, <3>4
  <2> QED
    BY <2>1, <2>2
<1>2. t = InsertAt(s, p, m)
  BY DEF InsertSend
<1> HIDE DEF p, t
<1>3. /\ t \in Seq(Message) /\ Len(t) = Len(s) + 1
      /\ \A i \in 1..(p - 1) : t[i] = s[i]
      /\ t[p] = m
      /\ \A i \in (p + 1)..(Len(s) + 1) : t[i] = s[i - 1]
  <2> DEFINE a == SubSeq(s, 1, p - 1)
             b == SubSeq(s, p, Len(s))
  <2>1. a \in Seq(Message) /\ Len(a) = p - 1 /\ \A i \in 1..(p - 1) : a[i] = s[i]
    BY <1>0, <1>1, SubSeqProperties
  <2>2. /\ b \in Seq(Message) /\ Len(b) = Len(s) - p + 1
        /\ \A i \in 1..(Len(s) - p + 1) : b[i] = s[p + i - 1]
    BY <1>0, <1>1, SubSeqProperties
  <2>3. t = a \o <<m>> \o b
    BY <1>2 DEF InsertAt
  <2> HIDE DEF a, b
  <2>4. /\ <<m>> \in Seq(Message) /\ Len(<<m>>) = 1 /\ <<m>>[1] = m
    OBVIOUS
  <2>5. /\ a \o <<m>> \in Seq(Message) /\ Len(a \o <<m>>) = p
        /\ \A i \in 1..p : (a \o <<m>>)[i] = IF i <= p - 1 THEN a[i] ELSE <<m>>[i - (p - 1)]
    BY <1>1, <2>1, <2>4, ConcatProperties
  <2>6. /\ t \in Seq(Message) /\ Len(t) = Len(s) + 1
        /\ \A i \in 1..(Len(s) + 1) : t[i] = IF i <= p THEN (a \o <<m>>)[i] ELSE b[i - p]
    <3> DEFINE am == a \o <<m>>
    <3>1. am \in Seq(Message) /\ Len(am) = p /\ t = am \o b
      BY <2>3, <2>5
    <3> HIDE DEF am
    <3>4. /\ am \o b \in Seq(Message) /\ Len(am \o b) = Len(am) + Len(b)
          /\ \A i \in 1..(Len(am) + Len(b)) :
                (am \o b)[i] = IF i <= Len(am) THEN am[i] ELSE b[i - Len(am)]
      <4>1. am \in Seq(Message) /\ b \in Seq(Message)
        BY <2>2, <3>1
      <4> HIDE <2>2, <3>1
      <4> QED
        BY <4>1, ConcatProperties
    <3>2. /\ t \in Seq(Message) /\ Len(t) = Len(am) + Len(b)
          /\ \A i \in 1..(Len(am) + Len(b)) : t[i] = IF i <= Len(am) THEN am[i] ELSE b[i - Len(am)]
      BY <3>1, <3>4, Zenon
    <3>3. Len(am) + Len(b) = Len(s) + 1
      BY <1>0, <1>1, <2>2, <3>1
    <3> QED
      BY <3>1, <3>2, <3>3 DEF am
  <2>7. \A i \in 1..(p - 1) : t[i] = s[i]
    BY <1>0, <1>1, <2>1, <2>5, <2>6
  <2>8. t[p] = m
    BY <1>0, <1>1, <2>4, <2>5, <2>6
  <2>9. \A i \in (p + 1)..(Len(s) + 1) : t[i] = s[i - 1]
    <3> TAKE i \in (p + 1)..(Len(s) + 1)
    <3>1. i - p \in 1..(Len(s) - p + 1) /\ p + (i - p) - 1 = i - 1
      BY <1>0, <1>1
    <3> QED
      BY <1>0, <1>1, <2>2, <2>6, <3>1
  <2> QED
    BY <2>6, <2>7, <2>8, <2>9
<1>4. DOMAIN t = 1..(Len(s) + 1)
  BY <1>3, LenProperties
<1> DEFINE from(i) == IF i < p THEN i ELSE i - 1
<1>5. \A i \in DOMAIN t : \/ i = p /\ t[i] = m
                          \/ i # p /\ from(i) \in DOMAIN s /\ t[i] = s[from(i)]
  <2> TAKE i \in DOMAIN t
  <2>1. CASE i = p
    BY <1>3, <2>1
  <2>2. CASE i < p
    <3>1. i \in 1..(p - 1) /\ i \in 1..Len(s) /\ from(i) = i
      BY <1>0, <1>1, <1>4, <2>2
    <3> QED
      BY <1>0, <1>3, <2>2, <3>1
  <2>3. CASE i > p
    <3>1. i \in (p + 1)..(Len(s) + 1) /\ i - 1 \in 1..Len(s) /\ from(i) = i - 1
      BY <1>0, <1>1, <1>4, <2>3
    <3> QED
      BY <1>0, <1>3, <2>3, <3>1
  <2> QED
    BY <1>1, <1>4, <2>1, <2>2, <2>3
<1>6. Sorted(t)
  <2> SUFFICES ASSUME NEW i \in DOMAIN t, NEW k \in DOMAIN t, i < k
               PROVE  t[i].at <= t[k].at
    BY DEF Sorted
  <2>1. CASE i = p
    <3>1. t[k] = s[k - 1] /\ k - 1 \in p..Len(s) /\ t[i] = m
      BY <1>0, <1>1, <1>3, <1>4, <2>1
    <3> QED
      BY <1>0, <1>1, <3>1
  <2>2. CASE k = p
    <3>1. t[i] = s[i] /\ i \in 1..(p - 1) /\ t[k] = m
      BY <1>0, <1>1, <1>3, <1>4, <2>2
    <3> QED
      BY <1>1, <3>1
  <2>3. CASE i # p /\ k # p
    <3>1. from(i) < from(k)
      BY <1>0, <1>1, <1>4, <2>3
    <3>2. /\ t[i] = s[from(i)] /\ t[k] = s[from(k)]
          /\ from(i) \in DOMAIN s /\ from(k) \in DOMAIN s
      BY <1>5, <2>3
    <3> HIDE DEF from
    <3> QED
      BY <3>1, <3>2 DEF Good, Sorted
  <2> QED
    BY <2>1, <2>2, <2>3
<1>7. Distinct(t)
  <2> SUFFICES ASSUME NEW i \in DOMAIN t, NEW k \in DOMAIN t, t[i].n = t[k].n
               PROVE  i = k
    BY DEF Distinct
  <2>1. CASE i # p /\ k # p
    <3>1. /\ t[i] = s[from(i)] /\ t[k] = s[from(k)]
          /\ from(i) \in DOMAIN s /\ from(k) \in DOMAIN s
      BY <1>5, <2>1
    <3> HIDE DEF from
    <3>2. from(i) = from(k)
      BY <3>1 DEF Good, Distinct
    <3> QED
      BY <1>1, <1>4, <2>1, <3>2 DEF from
  <2> HIDE DEF from
  <2> QED
    BY <1>5, <2>1
<1>8. Range(t) = Range(s) \cup {m}
  <2>1. \A i \in DOMAIN t : t[i] \in Range(s) \cup {m}
    <3> HIDE DEF from
    <3> QED
      BY <1>5 DEF Range
  <2>2. m \in Range(t)
    BY <1>1, <1>3, <1>4 DEF Range
  <2>3. ASSUME NEW i \in DOMAIN s PROVE s[i] \in Range(t)
    <3>1. CASE i < p
      <4>1. i \in DOMAIN t /\ t[i] = s[i]
        BY <1>0, <1>1, <1>3, <1>4, <3>1
      <4> QED
        BY <4>1 DEF Range
    <3>2. CASE ~(i < p)
      <4>1. i + 1 \in DOMAIN t /\ t[i + 1] = s[i + 1 - 1] /\ i + 1 - 1 = i
        BY <1>0, <1>1, <1>3, <1>4, <3>2
      <4> QED
        BY <4>1 DEF Range
    <3> QED
      BY <3>1, <3>2
  <2> QED
    BY <2>1, <2>2, <2>3 DEF Range
<1> QED
  BY <1>3, <1>6, <1>7, <1>8 DEF Good, t

\* The window of the limiter counts what SendBudget counts.
LEMMA InWindowIs ==
    ASSUME NEW s, Good(s), NEW end
    PROVE  /\ InWindow(s, end) \subseteq DOMAIN s
           /\ IsFiniteSet(InWindow(s, end)) /\ Cardinality(InWindow(s, end)) \in Nat
           /\ Cardinality(InWindow(s, end)) = Cardinality(Budget!Within(Range(s), end))
<1> DEFINE W == InWindow(s, end)
           T == Budget!Within(Range(s), end)
           f == [i \in W |-> s[i]]
<1>1. W \subseteq DOMAIN s
  BY DEF InWindow
<1>2. IsFiniteSet(DOMAIN s)
  BY GoodRange, FS_Interval
<1>3. IsFiniteSet(W)
  BY <1>1, <1>2, FS_Subset
<1>4. \A i \in W : s[i] \in T
  BY DEF InWindow, Budget!Within, Range
<1>5. \A e \in T : \E i \in W : s[i] = e
  BY DEF InWindow, Budget!Within, Range
<1>6. \A i, k \in W : s[i] = s[k] => i = k
  BY <1>1 DEF Good, Distinct
<1> HIDE DEF W, T
<1>7. f \in Bijection(W, T)
  BY <1>4, <1>5, <1>6 DEF Bijection, Injection, Surjection, IsInjective
<1>8. Cardinality(T) = Cardinality(W)
  BY <1>3, <1>7, FS_Bijection DEF ExistsBijection
<1> QED
  BY <1>1, <1>3, <1>8, FS_CardinalityType DEF W, T

-----------------------------------------------------------------------------
(* The loop of `earliest` *)

\* Where the loop ends, and where it goes from an instant at which it does not.
Stops(s, limit, at) == ~Full(s, at, limit) /\ Blocking(s, at) = {}
Jump(s, limit, at) ==
    IF Full(s, at, limit) THEN s[Min(InWindow(s, at))].at + Window
    ELSE s[Min(Blocking(s, at))].at + 1

\* Out of a full window the loop goes to where its oldest message leaves it, and
\* else right after a message that blocks it: always to a later instant.
LEMMA JumpIs ==
    ASSUME NEW s, Good(s), NEW limit \in Limits, NEW at \in Nat, ~Stops(s, limit, at)
    PROVE  /\ Jump(s, limit, at) \in Nat /\ Jump(s, limit, at) > at
           /\ \/ /\ Full(s, at, limit)
                 /\ \E i \in InWindow(s, at) :
                       /\ Jump(s, limit, at) = s[i].at + Window
                       /\ \A k \in InWindow(s, at) : s[i].at <= s[k].at
              \/ \E i \in Blocking(s, at) : Jump(s, limit, at) = s[i].at + 1
<1>0. DOMAIN s \subseteq Nat /\ \A i \in DOMAIN s : s[i].at \in Nat
  BY GoodRange
<1>1. CASE Full(s, at, limit)
  <2> DEFINE W == InWindow(s, at)
             i == Min(W)
  <2>1. W \subseteq DOMAIN s /\ W # {}
    <3>1. Cardinality(W) >= limit /\ limit >= 1 /\ limit \in Nat
      BY <1>1 DEF Full
    <3>2. Cardinality({}) = 0
      BY FS_EmptySet
    <3> QED
      BY <3>1, <3>2, InWindowIs
  <2>2. i \in W /\ \A y \in W : i <= y
    BY <1>0, <2>1, MinIs
  <2>3. Jump(s, limit, at) = s[i].at + Window
    BY <1>1 DEF Jump
  <2> HIDE DEF i
  <2>4. \A k \in W : s[i].at <= s[k].at
    <3> TAKE k \in W
    <3>1. CASE i = k
      BY <1>0, <2>1, <3>1
    <3>2. CASE i # k
      <4>1. i \in DOMAIN s /\ k \in DOMAIN s /\ i < k
        BY <1>0, <2>1, <2>2, <3>2
      <4> QED
        BY <4>1 DEF Good, Sorted
    <3> QED
      BY <3>1, <3>2
  <2>5. s[i].at \in Nat /\ at - s[i].at < Window
    BY <1>0, <2>1, <2>2 DEF InWindow
  <2>6. s[i].at + Window \in Nat /\ s[i].at + Window > at
    BY <2>5
  <2> QED
    BY <1>1, <2>2, <2>3, <2>4, <2>6
<1>2. CASE ~Full(s, at, limit)
  <2> DEFINE B == Blocking(s, at)
             i == Min(B)
  <2>1. B \subseteq DOMAIN s /\ B # {}
    BY <1>2 DEF Stops, Blocking
  <2>2. i \in B
    BY <1>0, <2>1, MinIs
  <2>3. Jump(s, limit, at) = s[i].at + 1
    BY <1>2 DEF Jump
  <2> HIDE DEF i
  <2>4. s[i].at \in Nat /\ s[i].at > at
    BY <1>0, <2>1, <2>2 DEF Blocking
  <2> QED
    BY <2>2, <2>3, <2>4
<1> QED
  BY <1>1, <1>2

\* Past the window of the last message the loop ends at once.
LEMMA Bounded ==
    ASSUME NEW s, Good(s), NEW limit \in Limits
    PROVE  \E b \in Nat : \A at \in Nat : at >= b => Stops(s, limit, at)
<1>0. DOMAIN s = 1..Len(s) /\ Len(s) \in Nat /\ \A i \in DOMAIN s : s[i].at \in Nat
  BY GoodRange
<1>1. \E b \in Nat : \A i \in DOMAIN s : s[i].at + Window <= b
  <2>1. CASE Len(s) = 0
    BY <1>0, <2>1
  <2>2. CASE Len(s) # 0
    <3>1. Len(s) \in DOMAIN s
      BY <1>0, <2>2
    <3>2. \A i \in DOMAIN s : s[i].at <= s[Len(s)].at
      <4> TAKE i \in DOMAIN s
      <4>1. CASE i = Len(s)
        BY <1>0, <4>1
      <4>2. CASE i # Len(s)
        <5>1. i < Len(s)
          BY <1>0, <4>2
        <5> QED
          BY <3>1, <5>1 DEF Good, Sorted
      <4> QED
        BY <4>1, <4>2
    <3>3. s[Len(s)].at \in Nat /\ s[Len(s)].at + Window \in Nat
      BY <1>0, <3>1
    <3>4. \A i \in DOMAIN s : s[i].at + Window <= s[Len(s)].at + Window
      <4> TAKE i \in DOMAIN s
      <4>1. s[i].at \in Nat /\ s[i].at <= s[Len(s)].at
        BY <1>0, <3>2
      <4> QED
        BY <3>3, <4>1
    <3> QED
      BY <3>3, <3>4
  <2> QED
    BY <2>1, <2>2
<1>2. PICK b \in Nat : \A i \in DOMAIN s : s[i].at + Window <= b
  BY <1>1
<1>3. ASSUME NEW at \in Nat, at >= b PROVE Stops(s, limit, at)
  <2>1. InWindow(s, at) = {} /\ Blocking(s, at) = {}
    BY <1>0, <1>2, <1>3 DEF InWindow, Blocking
  <2>2. ~Full(s, at, limit)
    BY <2>1, FS_EmptySet DEF Full
  <2> QED
    BY <2>1, <2>2 DEF Stops
<1> QED
  BY <1>3

\* The equation of the loop.
Loops(s, limit, f) ==
    f = [at \in Nat |->
            IF Full(s, at, limit) THEN f[s[Min(InWindow(s, at))].at + Window]
            ELSE IF Blocking(s, at) # {} THEN f[s[Min(Blocking(s, at))].at + 1]
            ELSE at]

\* It has a solution: solved from the end on, one instant after the other.
LEMMA LoopEnds ==
    ASSUME NEW s, Good(s), NEW limit \in Limits
    PROVE  \E f : Loops(s, limit, f)
<1>1. PICK b \in Nat : \A at \in Nat : at >= b => Stops(s, limit, at)
  BY Bounded
<1> DEFINE D(k) == {at \in Nat : at + k >= b}
           Solves(f, k) ==
               \A at \in D(k) : f[at] = IF Stops(s, limit, at) THEN at
                                        ELSE f[Jump(s, limit, at)]
           K == {k \in Nat : ~\E f : Solves(f, k)}
<1>2. K = {}
  <2> SUFFICES ASSUME K # {} PROVE FALSE
    OBVIOUS
  <2>1. PICK k \in K : \A y \in K : k <= y
    <3>1. K \in SUBSET Nat
      OBVIOUS
    <3> HIDE DEF K
    <3> QED
      BY <3>1, MinIs
  <2>2. k \in Nat /\ ~\E f : Solves(f, k)
    BY <2>1
  <2>3. CASE k = 0
    <3> DEFINE f == [at \in Nat |-> at]
    <3>1. Solves(f, k)
      BY <1>1, <2>3
    <3> QED
      BY <2>2, <3>1
  <2>4. CASE k # 0
    <3>1. k - 1 \in Nat /\ k - 1 \notin K
      <4> HIDE DEF K, D, Solves
      <4>1. k - 1 \in Nat /\ ~(k <= k - 1)
        BY <2>2, <2>4
      <4> QED
        BY <2>1, <4>1
    <3>2. PICK f : Solves(f, k - 1)
      BY <3>1
    <3> DEFINE g == [at \in Nat |-> IF at \in D(k - 1) THEN f[at]
                                    ELSE IF Stops(s, limit, at) THEN at
                                    ELSE f[Jump(s, limit, at)]]
    <3>3. ASSUME NEW at \in D(k), ~Stops(s, limit, at) PROVE Jump(s, limit, at) \in D(k - 1)
      <4>1. at \in Nat /\ at + k >= b /\ Jump(s, limit, at) \in Nat /\ Jump(s, limit, at) > at
        BY <3>3, JumpIs
      <4> HIDE DEF K
      <4> QED
        BY <2>2, <4>1
    <3>4. Solves(g, k)
      <4> SUFFICES ASSUME NEW at \in D(k)
                   PROVE  g[at] = IF Stops(s, limit, at) THEN at ELSE g[Jump(s, limit, at)]
        OBVIOUS
      <4>1. g[at] = IF Stops(s, limit, at) THEN at ELSE f[Jump(s, limit, at)]
        BY <3>2
      <4>2. ~Stops(s, limit, at) => g[Jump(s, limit, at)] = f[Jump(s, limit, at)]
        BY <3>3
      <4> HIDE DEF g, D
      <4> QED
        BY <4>1, <4>2
    <3> HIDE DEF g, Solves
    <3> QED
      BY <2>2, <3>4
  <2> QED
    BY <2>3, <2>4
<1>3. PICK f : Solves(f, b)
  BY <1>2
<1>4. \A at \in Nat : f[at] = IF Stops(s, limit, at) THEN at ELSE f[Jump(s, limit, at)]
  BY <1>3
<1> DEFINE g == [at \in Nat |-> f[at]]
<1>5. \A at \in Nat : g[at] = IF Stops(s, limit, at) THEN at ELSE g[Jump(s, limit, at)]
  BY <1>4, JumpIs
<1>6. g = [at \in Nat |-> g[at]]
  OBVIOUS
<1> HIDE DEF g, D, Solves, K
<1>7. g = [at \in Nat |-> IF Stops(s, limit, at) THEN at ELSE g[Jump(s, limit, at)]]
  BY <1>5, <1>6
<1>8. Loops(s, limit, g)
  BY <1>7 DEF Loops, Stops, Jump
<1> QED
  BY <1>8

LEMMA SettleIs ==
    ASSUME NEW s, Good(s), NEW limit \in Limits, NEW at \in Nat
    PROVE  Settle(s, limit)[at] = IF Stops(s, limit, at) THEN at
                                  ELSE Settle(s, limit)[Jump(s, limit, at)]
<1> DEFINE f == Settle(s, limit)
<1>1. f = CHOOSE g : Loops(s, limit, g)
  BY DEF Settle, Loops
<1> HIDE DEF f
<1>2. Loops(s, limit, f)
  BY <1>1, LoopEnds
<1>3. f[at] = IF Stops(s, limit, at) THEN at ELSE f[Jump(s, limit, at)]
  BY <1>2 DEF Loops, Stops, Jump
<1> QED
  BY <1>3 DEF f

\* The loop ends where one more message fits, and never before where it began.
LEMMA Settles ==
    ASSUME NEW s, Good(s), NEW limit \in Limits, NEW at \in Nat
    PROVE  /\ Settle(s, limit)[at] \in Nat /\ Settle(s, limit)[at] >= at
           /\ Stops(s, limit, Settle(s, limit)[at])
<1> DEFINE f == Settle(s, limit)
           Ends(a) == f[a] \in Nat /\ f[a] >= a /\ Stops(s, limit, f[a])
<1>1. PICK b \in Nat : \A a \in Nat : a >= b => Stops(s, limit, a)
  BY Bounded
<1>2. \A a \in Nat : f[a] = IF Stops(s, limit, a) THEN a ELSE f[Jump(s, limit, a)]
  BY SettleIs
<1>3. \A a \in Nat : ~Stops(s, limit, a) => Jump(s, limit, a) \in Nat /\ Jump(s, limit, a) > a
  BY JumpIs
<1> DEFINE K == {k \in Nat : \E a \in Nat : a + k >= b /\ ~Ends(a)}
<1> HIDE DEF f
<1>4. K = {}
  <2> SUFFICES ASSUME K # {} PROVE FALSE
    OBVIOUS
  <2>1. PICK k \in K : \A y \in K : k <= y
    <3>1. K \in SUBSET Nat
      OBVIOUS
    <3> HIDE DEF K
    <3> QED
      BY <3>1, MinIs
  <2>2. PICK a \in Nat : k \in Nat /\ a + k >= b /\ ~Ends(a)
    BY <2>1
  <2>3. ~Stops(s, limit, a)
    BY <1>2, <2>2
  <2>4. f[a] = f[Jump(s, limit, a)]
    BY <1>2, <2>3
  <2> DEFINE j == Jump(s, limit, a)
  <2>5. j \in Nat /\ j > a
    BY <1>3, <2>3
  <2> HIDE DEF j
  <2>6. k # 0
    BY <1>1, <2>2, <2>3
  <2>7. k - 1 \in Nat /\ k - 1 \notin K
    BY <2>1, <2>2, <2>6
  <2>8. j + (k - 1) >= b
    BY <2>2, <2>5
  <2>9. Ends(j)
    BY <2>5, <2>7, <2>8
  <2> QED
    BY <2>2, <2>4, <2>5, <2>9 DEF j
<1>5. b \notin K
  BY <1>4
<1>6. Ends(at)
  BY <1>5
<1> QED
  BY <1>6 DEF f

\* An instant that leaves room in every window it enters.
Open(s, limit, at) ==
    /\ Cardinality(InWindow(s, at)) < limit
    /\ \A i \in DOMAIN s : s[i].at \in at..(at + Window - 1)
                             => Cardinality(InWindow(s, s[i].at)) < s[i].limit

\* The loop goes past no such instant: a full window is full until its oldest
\* message leaves it, and a message that blocks it blocks what comes before.
LEMMA JumpsOverNone ==
    ASSUME NEW s, Good(s), NEW limit \in Limits, NEW at \in Nat, ~Stops(s, limit, at),
           NEW open \in Nat, at <= open, Open(s, limit, open)
    PROVE  Jump(s, limit, at) <= open
<1>0. \A i \in DOMAIN s : s[i] \in Message /\ s[i].at \in Nat /\ s[i].limit \in Nat
  BY GoodRange DEF Message
<1>3. Jump(s, limit, at) \in Nat
  BY JumpIs
<1> SUFFICES ASSUME open < Jump(s, limit, at) PROVE FALSE
  BY <1>3
<1>1. CASE /\ Full(s, at, limit)
           /\ \E i \in InWindow(s, at) :
                 /\ Jump(s, limit, at) = s[i].at + Window
                 /\ \A k \in InWindow(s, at) : s[i].at <= s[k].at
  <2>1. PICK i \in InWindow(s, at) :
                 /\ Jump(s, limit, at) = s[i].at + Window
                 /\ \A k \in InWindow(s, at) : s[i].at <= s[k].at
    BY <1>1
  <2>2. \A k \in InWindow(s, at) : k \in InWindow(s, open)
    <3> TAKE k \in InWindow(s, at)
    <3>1. /\ k \in DOMAIN s /\ i \in DOMAIN s /\ s[k].at <= at
          /\ s[i].at \in Nat /\ s[k].at \in Nat /\ s[i].at <= s[k].at
      BY <1>0, <2>1 DEF InWindow
    <3>2. open - s[i].at < Window
      BY <2>1, <3>1
    <3> QED
      BY <3>1, <3>2 DEF InWindow
  <2>3. Cardinality(InWindow(s, at)) <= Cardinality(InWindow(s, open))
    BY <2>2, InWindowIs, FS_Subset
  <2>4. /\ Cardinality(InWindow(s, at)) \in Nat /\ Cardinality(InWindow(s, open)) \in Nat
        /\ limit \in Nat
    BY InWindowIs
  <2> QED
    BY <1>1, <2>3, <2>4 DEF Full, Open
<1>2. ASSUME NEW i \in Blocking(s, at), Jump(s, limit, at) = s[i].at + 1 PROVE FALSE
  <2>1. /\ i \in DOMAIN s /\ s[i].at \in Nat /\ s[i].at - at < Window
        /\ Full(s, s[i].at, s[i].limit)
    BY <1>0 DEF Blocking
  <2>2. open <= s[i].at /\ s[i].at < open + Window
    BY <1>2, <2>1
  <2>3. s[i].at \in open..(open + Window - 1)
    BY <2>1, <2>2
  <2>4. Cardinality(InWindow(s, s[i].at)) \in Nat /\ s[i].limit \in Nat
    BY <1>0, <2>1, InWindowIs
  <2> QED
    BY <2>1, <2>3, <2>4 DEF Open, Full
<1> QED
  BY <1>1, <1>2, JumpIs

LEMMA SettlesSoon ==
    ASSUME NEW s, Good(s), NEW limit \in Limits, NEW at \in Nat,
           NEW open \in Nat, at <= open, Open(s, limit, open)
    PROVE  Settle(s, limit)[at] <= open
<1> DEFINE f == Settle(s, limit)
           K == {k \in Nat : \E a \in Nat : a <= open /\ a + k >= open /\ ~(f[a] <= open)}
<1>1. \A a \in Nat : f[a] = IF Stops(s, limit, a) THEN a ELSE f[Jump(s, limit, a)]
  BY SettleIs
<1>2. \A a \in Nat : a <= open /\ ~Stops(s, limit, a)
          => Jump(s, limit, a) \in Nat /\ Jump(s, limit, a) > a /\ Jump(s, limit, a) <= open
  BY JumpIs, JumpsOverNone
<1> HIDE DEF f
<1>3. K = {}
  <2> SUFFICES ASSUME K # {} PROVE FALSE
    OBVIOUS
  <2>1. PICK k \in K : \A y \in K : k <= y
    <3>1. K \in SUBSET Nat
      OBVIOUS
    <3> HIDE DEF K
    <3> QED
      BY <3>1, MinIs
  <2>2. PICK a \in Nat : k \in Nat /\ a <= open /\ a + k >= open /\ ~(f[a] <= open)
    BY <2>1
  <2>3. ~Stops(s, limit, a)
    BY <1>1, <2>2
  <2> DEFINE j == Jump(s, limit, a)
  <2>4. f[a] = f[j] /\ j \in Nat /\ j > a /\ j <= open
    BY <1>1, <1>2, <2>2, <2>3
  <2> HIDE DEF j
  <2>5. k # 0
    BY <2>2, <2>4
  <2>6. k - 1 \in Nat /\ k - 1 \notin K
    <3> HIDE DEF K
    <3>1. k - 1 \in Nat /\ ~(k <= k - 1)
      BY <2>2, <2>5
    <3> QED
      BY <2>1, <3>1
  <2>7. j + (k - 1) >= open
    BY <2>2, <2>4
  <2> QED
    BY <2>2, <2>4, <2>6, <2>7
<1>4. open \notin K
  BY <1>3
<1> QED
  BY <1>4 DEF f

-----------------------------------------------------------------------------
(* Types of the limiter *)

Texts == [text : Lines, at : Nat]
Facts == [modes : RoomModes \cup {NoModes}, role : Roles \cup {None},
          lastSlot : Nat \cup {None}, lastText : Texts \cup {None}, pending : Seq(Nat)]
Sleeping == [channel : Channels, text : Lines, slot : Nat]

\* Slots booked in a channel wait in order, none later than its last slot.
Rising(p) == \A i, k \in DOMAIN p : i < k => p[i] < p[k]
Fine(f) ==
    /\ f \in Facts /\ Rising(f.pending)
    /\ \A i \in DOMAIN f.pending : f.lastSlot \in Nat /\ f.pending[i] <= f.lastSlot

LInv ==
    /\ now \in 0..Horizon /\ made \in 0..MaxMade
    /\ Good(sends) /\ \A i \in DOMAIN sends : sends[i].n < made
    /\ facts \in [Channels -> Facts] /\ \A c \in Channels : Fine(facts[c])
    /\ ownLogin \in {None, Primary}
    /\ jobs \in [Jobs -> Sleeping \cup {None}]
    /\ delivered \in Seq(Nat)

LEMMA Shape ==
    ASSUME NEW f \in Facts
    PROVE  /\ f.pending \in Seq(Nat) /\ Len(f.pending) \in Nat
           /\ DOMAIN f.pending = 1..Len(f.pending)
           /\ \A i \in DOMAIN f.pending : f.pending[i] \in Nat
           /\ f.modes \in RoomModes \cup {NoModes} /\ f.role \in Roles \cup {None}
           /\ f.lastSlot \in Nat \cup {None} /\ f.lastText \in Texts \cup {None}
<1>1. f.pending \in Seq(Nat)
  BY DEF Facts
<1>2. Len(f.pending) \in Nat /\ DOMAIN f.pending = 1..Len(f.pending)
  BY <1>1, LenProperties
<1>3. \A i \in DOMAIN f.pending : f.pending[i] \in Nat
  BY <1>1, <1>2, ElementOfSeq
<1> QED
  BY <1>1, <1>2, <1>3 DEF Facts

\* The budget and the spacing of a channel are among those of SendBudget.
LEMMA RoleIs ==
    ASSUME LInv, NEW c \in Channels, NEW login
    PROVE  /\ PerWindow(c, login) \in Limits
           /\ Spacing(c, login) \in Gaps /\ Spacing(c, login) \in Nat \ {0}
<1>1. PerWindow(c, login) \in Limits
  BY DEF PerWindow, Limits
<1>2. facts[c].modes \in RoomModes \cup {NoModes}
  BY Shape DEF LInv
<1>3. facts[c].modes.slow > ViewerSpacing => facts[c].modes \in RoomModes
                                              /\ facts[c].modes.slow \in Nat
  BY <1>2, LimiterAssumption DEF NoModes
<1> QED
  BY <1>1, <1>3, LimiterAssumption DEF Spacing, Gaps

\* What `prune` leaves of the booked slots of a channel.
LEMMA WaitingIs ==
    ASSUME LInv, NEW f, Fine(f)
    PROVE  /\ Waiting(f.pending) \in Seq(Nat) /\ Rising(Waiting(f.pending))
           /\ Range(Waiting(f.pending)) \subseteq Range(f.pending)
           /\ \A i \in DOMAIN Waiting(f.pending) : now - Waiting(f.pending)[i] <= PendingSpan
           /\ Fine([f EXCEPT !.pending = Waiting(f.pending)])
<1> DEFINE p == f.pending
           q == Waiting(p)
           stay == {i \in DOMAIN p : now - p[i] <= PendingSpan}
<1>0. /\ p \in Seq(Nat) /\ Len(p) \in Nat /\ DOMAIN p = 1..Len(p) /\ Rising(p)
      /\ \A i \in DOMAIN p : p[i] \in Nat
  BY Shape DEF Fine
<1> HIDE DEF p
<1>1. PICK k \in 1..(Len(p) + 1) :
          /\ q \in Seq(Nat) /\ Len(q) = Len(p) + 1 - k
          /\ \A i \in 1..(Len(p) + 1 - k) : q[i] = p[i + k - 1]
          /\ \A i \in stay : k <= i
          /\ k <= Len(p) => k \in stay
  BY <1>0, FromIs DEF Waiting
<1>2. DOMAIN q = 1..(Len(p) + 1 - k)
  BY <1>1, LenProperties
<1>9. Len(p) \in Nat /\ k \in 1..(Len(p) + 1)
  BY <1>0
<1>3. \A i \in DOMAIN q : i + k - 1 \in DOMAIN p /\ q[i] = p[i + k - 1] /\ q[i] \in Nat
  <2> TAKE i \in DOMAIN q
  <2>1. i \in 1..(Len(p) + 1 - k)
    BY <1>2
  <2> HIDE DEF q
  <2>2. i + k - 1 \in 1..Len(p)
    BY <1>9, <2>1
  <2> QED
    BY <1>0, <1>1, <2>1, <2>2
<1>4. \A i \in DOMAIN q : now - q[i] <= PendingSpan
  <2> TAKE i \in DOMAIN q
  <2>1. k \in stay /\ k <= i + k - 1 /\ k \in DOMAIN p
    <3>1. i \in 1..(Len(p) + 1 - k)
      BY <1>2
    <3>2. k <= i + k - 1 /\ k <= Len(p)
      BY <1>9, <3>1
    <3> QED
      BY <1>1, <3>2
  <2>2. p[k] <= p[i + k - 1]
    <3>1. CASE k = i + k - 1
      BY <1>0, <2>1, <3>1
    <3>2. CASE k < i + k - 1
      BY <1>0, <1>3, <2>1, <3>2 DEF Rising
    <3> QED
      BY <2>1, <3>1, <3>2, <1>2
  <2>3. now \in Nat /\ p[k] \in Nat /\ p[i + k - 1] \in Nat /\ PendingSpan \in Nat
    BY <1>0, <1>3, <2>1, LimiterAssumption DEF LInv
  <2> QED
    BY <1>3, <2>1, <2>2, <2>3
<1>5. Rising(q)
  <2> SUFFICES ASSUME NEW i \in DOMAIN q, NEW j \in DOMAIN q, i < j PROVE q[i] < q[j]
    BY DEF Rising
  <2>1. i + k - 1 < j + k - 1
    BY <1>0, <1>2
  <2> QED
    BY <1>0, <1>3, <2>1 DEF Rising
<1>6. Range(q) \subseteq Range(p)
  BY <1>3 DEF Range
<1> HIDE DEF q
<1>7. Fine([f EXCEPT !.pending = q])
  <2>1. [f EXCEPT !.pending = q] \in Facts /\ [f EXCEPT !.pending = q].pending = q
        /\ [f EXCEPT !.pending = q].lastSlot = f.lastSlot
    BY <1>1 DEF Fine, Facts
  <2>2. \A i \in DOMAIN q : f.lastSlot \in Nat /\ q[i] <= f.lastSlot
    BY <1>3 DEF Fine, p
  <2> QED
    BY <1>5, <2>1, <2>2 DEF Fine
<1> QED
  BY <1>1, <1>4, <1>5, <1>6, <1>7 DEF p, q

LEMMA PrunedIs ==
    ASSUME LInv
    PROVE  /\ PrunedFacts \in [Channels -> Facts]
           /\ \A c \in Channels :
                 /\ PrunedFacts[c] = [facts[c] EXCEPT !.pending = Waiting(facts[c].pending)]
                 /\ Fine(PrunedFacts[c])
                 /\ PrunedFacts[c].lastSlot = facts[c].lastSlot
                 /\ PrunedFacts[c].pending = Waiting(facts[c].pending)
<1>1. \A c \in Channels :
          /\ PrunedFacts[c] = [facts[c] EXCEPT !.pending = Waiting(facts[c].pending)]
          /\ Fine(PrunedFacts[c])
  BY WaitingIs DEF LInv, PrunedFacts
<1>2. \A c \in Channels : /\ PrunedFacts[c].lastSlot = facts[c].lastSlot
                          /\ PrunedFacts[c].pending = Waiting(facts[c].pending)
  BY <1>1 DEF LInv, Facts
<1>3. PrunedFacts \in [Channels -> Facts]
  BY <1>1 DEF PrunedFacts, Fine
<1> QED
  BY <1>1, <1>2, <1>3

\* A channel's facts are replaced; the others' are pruned.
LEMMA Replaced ==
    ASSUME LInv, NEW c \in Channels, NEW f, Fine(f), facts' = [PrunedFacts EXCEPT ![c] = f]
    PROVE  /\ facts' \in [Channels -> Facts] /\ \A d \in Channels : Fine(facts'[d])
           /\ facts'[c] = f /\ \A d \in Channels \ {c} : facts'[d] = PrunedFacts[d]
           /\ Slots' = [Slots EXCEPT ![c] = f.lastSlot]
<1>1. PrunedFacts \in [Channels -> Facts] /\ f \in Facts
  BY PrunedIs DEF Fine
<1>2. /\ facts' \in [Channels -> Facts] /\ facts'[c] = f
      /\ \A d \in Channels \ {c} : facts'[d] = PrunedFacts[d]
  BY <1>1
<1>3. \A d \in Channels : Fine(facts'[d])
  BY <1>2, PrunedIs
<1>4. \A d \in Channels \ {c} : facts'[d].lastSlot = facts[d].lastSlot
  BY <1>2, PrunedIs
<1>5. Slots' = [Slots EXCEPT ![c] = f.lastSlot]
  BY <1>2, <1>4 DEF Slots
<1> QED
  BY <1>2, <1>3, <1>5

\* A slot is taken out of those that wait.
LEMMA RemovedIs ==
    ASSUME NEW p \in Seq(Nat), Rising(p), NEW i \in DOMAIN p
    PROVE  /\ RemoveAt(p, i) \in Seq(Nat) /\ Rising(RemoveAt(p, i))
           /\ Range(RemoveAt(p, i)) = Range(p) \ {p[i]}
<1> DEFINE q == RemoveAt(p, i)
           a == SubSeq(p, 1, i - 1)
           b == SubSeq(p, i + 1, Len(p))
           from(k) == IF k < i THEN k ELSE k + 1
<1>0. Len(p) \in Nat /\ DOMAIN p = 1..Len(p) /\ \A k \in DOMAIN p : p[k] \in Nat
  BY LenProperties, ElementOfSeq
<1> DEFINE n == Len(p)
<1>12. n \in Nat /\ i \in 1..n
  BY <1>0
<1>1. a \in Seq(Nat) /\ Len(a) = i - 1 /\ \A k \in 1..(i - 1) : a[k] = p[k]
  BY <1>0, SubSeqProperties
<1>2. /\ b \in Seq(Nat) /\ Len(b) = Len(p) - i
      /\ \A k \in 1..(Len(p) - i) : b[k] = p[k + i]
  <2>0. i + 1 \in Int /\ n \in Int /\ \A k \in (i + 1)..n : p[k] \in Nat
    BY <1>0, <1>12
  <2>1. /\ b \in Seq(Nat) /\ Len(b) = IF i + 1 <= n THEN n - (i + 1) + 1 ELSE 0
        /\ \A k \in 1..(n - (i + 1) + 1) : b[k] = p[(i + 1) + k - 1]
    <3> HIDE DEF n
    <3>1. LET c == SubSeq(p, i + 1, n) IN
          /\ c \in Seq(Nat) /\ Len(c) = IF i + 1 <= n THEN n - (i + 1) + 1 ELSE 0
          /\ \A k \in 1..(n - (i + 1) + 1) : c[k] = p[(i + 1) + k - 1]
      BY <2>0, SubSeqProperties
    <3> QED
      BY <3>1 DEF n
  <2> HIDE DEF b, n
  <2>2. n - (i + 1) + 1 = n - i /\ \A k \in 1..(n - i) : (i + 1) + k - 1 = k + i
    BY <1>12
  <2>3. Len(b) = n - i
    BY <1>12, <2>1
  <2> QED
    BY <2>1, <2>2, <2>3 DEF n
<1>3. q = a \o b
  BY DEF RemoveAt
<1> HIDE DEF a, b, q
<1>4. /\ a \o b \in Seq(Nat) /\ Len(a \o b) = Len(a) + Len(b)
      /\ \A k \in 1..(Len(a) + Len(b)) : (a \o b)[k] = IF k <= Len(a) THEN a[k] ELSE b[k - Len(a)]
  <2>1. a \in Seq(Nat) /\ b \in Seq(Nat)
    BY <1>1, <1>2
  <2> QED
    BY <2>1, ConcatProperties
<1>5. /\ q \in Seq(Nat) /\ DOMAIN q = 1..(Len(p) - 1)
      /\ \A k \in DOMAIN q : q[k] = IF k <= i - 1 THEN a[k] ELSE b[k - (i - 1)]
  <2>1. Len(a) + Len(b) = Len(p) - 1
    BY <1>0, <1>1, <1>2
  <2>2. q \in Seq(Nat) /\ Len(q) = Len(p) - 1
    BY <1>3, <1>4, <2>1
  <2>3. DOMAIN q = 1..(Len(p) - 1)
    BY <2>2, LenProperties
  <2> QED
    BY <1>1, <1>3, <1>4, <2>1, <2>2, <2>3
<1>6. \A k \in DOMAIN q : k \in Nat /\ from(k) \in DOMAIN p /\ from(k) # i /\ q[k] = p[from(k)]
  <2> TAKE k \in DOMAIN q
  <2>1. CASE k < i
    <3>1. k \in 1..(n - 1) /\ i \in 1..n
      BY <1>5, <1>12
    <3>2. k \in Nat /\ k \in 1..(i - 1) /\ k \in 1..n /\ k <= i - 1 /\ k # i
      <4> HIDE DEF n
      <4> QED
        BY <1>12, <2>1, <3>1
    <3>3. from(k) = k
      BY <2>1
    <3>4. q[k] = a[k] /\ a[k] = p[k]
      BY <1>1, <1>5, <3>2
    <3>5. k \in DOMAIN p
      BY <1>0, <3>2
    <3> HIDE DEF from, n
    <3> QED
      BY <3>2, <3>3, <3>4, <3>5
  <2>2. CASE ~(k < i)
    <3>1. /\ k - (i - 1) \in 1..(n - i) /\ k + 1 \in 1..n /\ ~(k <= i - 1)
          /\ (k - (i - 1)) + i = k + 1 /\ k + 1 # i /\ k \in Nat
      <4>1. k \in 1..(n - 1)
        BY <1>5
      <4> HIDE DEF n
      <4> QED
        BY <1>12, <2>2, <4>1
    <3>2. from(k) = k + 1
      BY <2>2
    <3>3. q[k] = b[k - (i - 1)]
      BY <1>5, <3>1
    <3>4. b[k - (i - 1)] = p[k + 1]
      <4> DEFINE j == k - (i - 1)
      <4>1. j \in 1..(n - i) /\ j + i = k + 1
        BY <3>1
      <4> HIDE DEF j, n
      <4>2. b[j] = p[j + i]
        BY <1>2, <4>1 DEF n
      <4> QED
        BY <4>1, <4>2 DEF j
    <3>5. k + 1 \in DOMAIN p
      BY <1>0, <3>1
    <3> HIDE DEF from, n
    <3> QED
      BY <3>1, <3>2, <3>3, <3>4, <3>5
  <2> QED
    BY <2>1, <2>2
<1>7. \A k \in DOMAIN p : k # i => \E j \in DOMAIN q : from(j) = k
  <2> TAKE k \in DOMAIN p
  <2>1. CASE k < i
    <3>1. k \in DOMAIN q
      BY <1>0, <1>5, <2>1
    <3> QED
      BY <2>1, <3>1
  <2>2. CASE k > i
    <3>1. k - 1 \in DOMAIN q /\ ~(k - 1 < i) /\ (k - 1) + 1 = k
      <4>1. k \in 1..n
        BY <1>0
      <4>2. k - 1 \in 1..(n - 1) /\ ~(k - 1 < i) /\ (k - 1) + 1 = k
        <5> HIDE DEF n
        <5> QED
          BY <1>12, <2>2, <4>1
      <4> QED
        BY <1>5, <4>2
    <3> QED
      BY <3>1
  <2>3. k # i => k < i \/ k > i
    BY <1>0, <1>12
  <2> QED
    BY <2>1, <2>2, <2>3
<1>8. \A k, j \in DOMAIN q : k < j => from(k) < from(j)
  <2> TAKE k, j \in DOMAIN q
  <2>1. k \in Int /\ j \in Int /\ i \in Int
    <3>1. k \in 1..(n - 1) /\ j \in 1..(n - 1)
      BY <1>5
    <3> HIDE DEF n
    <3> QED
      BY <1>12, <3>1
  <2> HIDE DEF n
  <2> QED
    BY <2>1
<1> HIDE DEF from
<1>9. Rising(q)
  BY <1>6, <1>8 DEF Rising
<1>10. \A k \in DOMAIN p : k # i => p[k] # p[i]
  <2> TAKE k \in DOMAIN p
  <2>1. k \in Nat /\ i \in Nat /\ p[k] \in Nat /\ p[i] \in Nat
    BY <1>0
  <2> QED
    BY <2>1 DEF Rising
<1>11. Range(q) = Range(p) \ {p[i]}
  BY <1>6, <1>7, <1>10 DEF Range
<1> QED
  BY <1>5, <1>9, <1>11 DEF q

\* A later slot is put after those that wait.
LEMMA AppendedIs ==
    ASSUME NEW p \in Seq(Nat), Rising(p), NEW t \in Nat, \A i \in DOMAIN p : p[i] < t
    PROVE  /\ Append(p, t) \in Seq(Nat) /\ Rising(Append(p, t))
           /\ Range(Append(p, t)) = Range(p) \cup {t}
<1>0. Len(p) \in Nat /\ DOMAIN p = 1..Len(p) /\ \A k \in DOMAIN p : p[k] \in Nat
  BY LenProperties, ElementOfSeq
<1> DEFINE q == Append(p, t)
<1>1. /\ q \in Seq(Nat) /\ Len(q) = Len(p) + 1 /\ q[Len(p) + 1] = t
      /\ \A i \in 1..Len(p) : q[i] = p[i]
  BY <1>0, AppendProperties
<1>2. DOMAIN q = 1..(Len(p) + 1)
  BY <1>1, LenProperties
<1> HIDE DEF q
<1>3. Rising(q)
  <2> SUFFICES ASSUME NEW i \in DOMAIN q, NEW k \in DOMAIN q, i < k PROVE q[i] < q[k]
    BY DEF Rising
  <2>1. i \in 1..Len(p) /\ q[i] = p[i]
    BY <1>0, <1>1, <1>2
  <2>2. CASE k = Len(p) + 1
    BY <1>0, <1>1, <2>1, <2>2
  <2>3. CASE k # Len(p) + 1
    <3>1. k \in 1..Len(p) /\ q[k] = p[k]
      BY <1>0, <1>1, <1>2, <2>3
    <3> QED
      BY <1>0, <2>1, <3>1 DEF Rising
  <2> QED
    BY <2>2, <2>3
<1>4. Range(q) = Range(p) \cup {t}
  <2>1. \A i \in DOMAIN q : q[i] \in Range(p) \cup {t}
    <3> TAKE i \in DOMAIN q
    <3>1. i \in 1..Len(p) \/ i = Len(p) + 1
      BY <1>0, <1>2
    <3> QED
      BY <1>0, <1>1, <3>1 DEF Range
  <2>2. \A i \in DOMAIN p : i \in DOMAIN q /\ q[i] = p[i]
    BY <1>0, <1>1, <1>2
  <2>3. Len(p) + 1 \in DOMAIN q
    BY <1>0, <1>2
  <2> QED
    BY <1>1, <2>1, <2>2, <2>3 DEF Range
<1> QED
  BY <1>1, <1>3, <1>4 DEF q

-----------------------------------------------------------------------------
(* Every step keeps the types, and is a step of SendBudget *)

LEMMA KeptTyped ==
    ASSUME LInv
    PROVE  /\ Good(Kept) /\ Range(Kept) = Budget!Live
           /\ \A i \in DOMAIN Kept : Kept[i].n < made /\ now - Kept[i].at < Window
<1>1. /\ Good(Kept) /\ Range(Kept) = Budget!Live
      /\ \A i \in DOMAIN Kept : now - Kept[i].at < Window
  BY KeptIs DEF LInv
<1>2. \A e \in Budget!Live : e.n < made
  BY DEF LInv, Budget!Live, Counted, Range
<1> QED
  BY <1>1, <1>2 DEF Range

\* One more message, counted from `at` on.
LEMMA AddedIs ==
    ASSUME LInv, NEW c \in Channels, NEW at \in Nat, NEW limit \in Limits,
           NEW gap \in Gaps \cup {0}, NEW paced \in BOOLEAN,
           sends' = InsertSend(Kept, Entry(c, at, limit, gap, paced)), made' = made + 1,
           made < MaxMade
    PROVE  /\ Good(sends') /\ \A i \in DOMAIN sends' : sends'[i].n < made'
           /\ made' \in 0..MaxMade
           /\ Counted' = Budget!Live \cup {Added(c, paced, limit, gap, at)}
<1> DEFINE m == Entry(c, at, limit, gap, paced)
<1>1. m \in Message /\ m.n = made /\ m = Added(c, paced, limit, gap, at) /\ made \in Nat
  BY DEF Entry, Message, Added, LInv
<1> HIDE DEF m
<1>2. \A i \in DOMAIN Kept : Kept[i].n # m.n
  <2> TAKE i \in DOMAIN Kept
  <2>1. Kept[i].n < made /\ Kept[i] \in Message
    BY KeptTyped, GoodRange
  <2>2. Kept[i].n \in Nat
    BY <2>1 DEF Message
  <2> QED
    BY <1>1, <2>1, <2>2
<1>3. Good(sends') /\ Range(sends') = Budget!Live \cup {m}
  BY <1>1, <1>2, KeptTyped, InsertIs DEF m
<1>4. \A e \in Range(sends') : e.n < made'
  <2> TAKE e \in Range(sends')
  <2>1. CASE e = m
    BY <1>1, <2>1
  <2>2. CASE e \in Budget!Live
    <3>1. PICK i \in DOMAIN Kept : e = Kept[i]
      BY <2>2, KeptTyped DEF Range
    <3>2. e.n < made /\ e \in Message
      BY <3>1, KeptTyped, GoodRange
    <3>3. e.n \in Nat
      BY <3>2 DEF Message
    <3> QED
      BY <1>1, <3>2, <3>3
  <2> QED
    BY <1>3, <2>1, <2>2
<1>5. \A i \in DOMAIN sends' : sends'[i].n < made'
  BY <1>4 DEF Range
<1>6. made' \in 0..MaxMade
  BY <1>1
<1> QED
  BY <1>1, <1>3, <1>5, <1>6 DEF Counted

\* The instant `earliest` gives: not before now, spaced, and with room.
LEMMA EarliestIs ==
    ASSUME LInv, NEW c \in Channels, NEW at, at = Earliest(c, Primary)
    PROVE  /\ at \in Nat /\ now <= at
           /\ facts[c].lastSlot # None => at >= facts[c].lastSlot + Spacing(c, Primary)
           /\ Budget!Fits(at, PerWindow(c, Primary))
<1> DEFINE s == Kept
           limit == PerWindow(c, Primary)
           start == Start(c, Primary)
<1>1. /\ limit \in Limits /\ Spacing(c, Primary) \in Nat /\ now \in Nat /\ now # None
      /\ facts[c].lastSlot \in Nat \cup {None}
  BY RoleIs, Shape DEF LInv
<1>2. /\ start \in Nat /\ now <= start
      /\ facts[c].lastSlot # None => start >= facts[c].lastSlot + Spacing(c, Primary)
  BY <1>1 DEF Start, Later
<1>3. at = Settle(s, limit)[start]
  BY DEF Earliest
<1>4. Good(s) /\ Range(s) = Budget!Live /\ \A i \in DOMAIN s : s[i] \in Message
  BY KeptTyped, GoodRange
<1> HIDE DEF s, limit, start
<1>5. at \in Nat /\ at >= start /\ Stops(s, limit, at)
  BY <1>1, <1>2, <1>3, <1>4, Settles
<1>6. \A end : /\ Cardinality(InWindow(s, end)) = Cardinality(Budget!Within(Budget!Live, end))
               /\ Cardinality(InWindow(s, end)) \in Nat
  BY <1>4, InWindowIs
<1>7. Cardinality(Budget!Within(Budget!Live, at)) < limit
  BY <1>1, <1>5, <1>6 DEF Stops, Full
<1>8. ASSUME NEW u \in Budget!Live, u.at > at, u.at - at < Window
      PROVE  Cardinality(Budget!Within(Budget!Live, u.at)) < u.limit
  <2>1. PICK i \in DOMAIN s : u = s[i]
    BY <1>4 DEF Range
  <2>2. ~Full(s, s[i].at, s[i].limit)
    BY <1>5, <1>8, <2>1 DEF Stops, Blocking
  <2>3. u.limit \in Nat
    BY <1>4, <2>1 DEF Message
  <2> QED
    BY <1>6, <2>1, <2>2, <2>3 DEF Full
<1>9. Budget!Fits(at, limit)
  BY <1>7, <1>8 DEF Budget!Fits
<1>10. /\ now <= at
       /\ facts[c].lastSlot # None => at >= facts[c].lastSlot + Spacing(c, Primary)
  BY <1>1, <1>2, <1>5
<1> QED
  BY <1>5, <1>9, <1>10 DEF limit

\* What went out lately, and one more.
LEMMA DeliveredTyped ==
    ASSUME LInv, delivered' = Append(From(delivered, Lately), now)
    PROVE  delivered' \in Seq(Nat)
<1>1. Lately \in SUBSET DOMAIN delivered /\ delivered \in Seq(Nat) /\ now \in Nat
  BY DEF Lately, LInv
<1>2. From(delivered, Lately) \in Seq(Nat)
  BY <1>1, FromIs
<1> QED
  BY <1>1, <1>2

Kin == LInv' /\ [Budget!Next]_(Budget!vars)

\* Nothing but the clock, the facts, the jobs and the account changes.
LEMMA StillKept ==
    ASSUME LInv, UNCHANGED <<sends, made, delivered>>, now' = now, Slots' = Slots,
           facts' \in [Channels -> Facts], \A c \in Channels : Fine(facts'[c]),
           ownLogin' \in {None, Primary}, jobs' \in [Jobs -> Sleeping \cup {None}]
    PROVE  Kin
<1>1. Counted' = Counted
  BY DEF Counted
<1>2. UNCHANGED Budget!vars
  BY <1>1 DEF Budget!vars
<1>3. LInv'
  BY DEF LInv
<1> QED
  BY <1>2, <1>3 DEF Kin

LEMMA PruneKept ==
    ASSUME LInv, sends' = Kept, UNCHANGED <<now, made>>, Slots' = Slots,
           facts' \in [Channels -> Facts], \A c \in Channels : Fine(facts'[c]),
           ownLogin' \in {None, Primary}, jobs' \in [Jobs -> Sleeping \cup {None}],
           delivered' \in Seq(Nat)
    PROVE  Kin
<1>1. Counted' = Budget!Live
  BY KeptTyped DEF Counted
<1>2. Budget!Forget
  BY <1>1 DEF Budget!Forget
<1>3. LInv'
  BY KeptTyped DEF LInv
<1> QED
  BY <1>2, <1>3 DEF Kin, Budget!Next

LEMMA RecordKept ==
    ASSUME LInv, NEW c \in Channels, NEW text \in Lines, RecordSent(c, text),
           jobs' \in [Jobs -> Sleeping \cup {None}]
    PROVE  Kin
<1> DEFINE f == PrunedFacts[c]
<1>0. /\ delivered' \in Seq(Nat) /\ ownLogin' \in {None, Primary} /\ now' = now
      /\ now \in Nat /\ now \in 0..Horizon
  BY DeliveredTyped DEF RecordSent, LInv
<1>1. Fine(f) /\ f \in Facts /\ f.lastSlot = facts[c].lastSlot
  BY PrunedIs DEF Fine
<1>2. /\ f.pending \in Seq(Nat) /\ DOMAIN f.pending = 1..Len(f.pending) /\ Len(f.pending) \in Nat
      /\ Rising(f.pending) /\ f.lastSlot \in Nat \cup {None}
      /\ \A i \in DOMAIN f.pending : f.pending[i] \in Nat
  BY <1>1, Shape DEF Fine
<1>3. [text |-> text, at |-> now] \in Texts
  BY <1>0 DEF Texts
<1>4. CASE Claim(c, text)
  <2> DEFINE near == Near(f.pending)
             i == Min(near)
             q == RemoveAt(f.pending, i)
             g == [f EXCEPT !.pending = q, !.lastText = [text |-> text, at |-> now]]
  <2>1. near # {} /\ near \subseteq DOMAIN f.pending
    BY <1>4 DEF Claim, Near
  <2>2. i \in DOMAIN f.pending
    BY <1>2, <2>1, MinIs
  <2>3. facts' = [PrunedFacts EXCEPT ![c] = g] /\ sends' = Kept /\ made' = made
    BY <1>4 DEF Claim
  <2> HIDE DEF i
  <2>4. q \in Seq(Nat) /\ Rising(q) /\ Range(q) \subseteq Range(f.pending)
    BY <1>2, <2>2, RemovedIs
  <2> HIDE DEF q
  <2>5. g \in Facts /\ g.pending = q /\ g.lastSlot = f.lastSlot
    BY <1>1, <1>3, <2>4 DEF Facts
  <2> HIDE DEF g
  <2>6. \A k \in DOMAIN q : \E j \in DOMAIN f.pending : q[k] = f.pending[j]
    BY <2>4 DEF Range
  <2>7. Fine(g)
    BY <1>1, <2>4, <2>5, <2>6 DEF Fine
  <2>8. /\ facts' \in [Channels -> Facts] /\ \A d \in Channels : Fine(facts'[d])
        /\ Slots' = [Slots EXCEPT ![c] = g.lastSlot]
    BY <2>3, <2>7, Replaced
  <2>9. Slots' = Slots
    BY <1>1, <2>5, <2>8 DEF Slots
  <2> QED
    BY <1>0, <2>3, <2>8, <2>9, PruneKept
<1>5. CASE CountNow(c, text)
  <2> DEFINE limit == PerWindow(c, ownLogin)
             g == [f EXCEPT !.lastSlot = Later(f.lastSlot, now),
                            !.lastText = [text |-> text, at |-> now]]
  <2>1. limit \in Limits
    BY RoleIs
  <2>2. /\ made < MaxMade /\ made' = made + 1
        /\ sends' = InsertSend(Kept, Entry(c, now, limit, 0, FALSE))
        /\ facts' = [PrunedFacts EXCEPT ![c] = g]
    BY <1>5 DEF CountNow
  <2> HIDE DEF limit
  <2>3. /\ Good(sends') /\ \A i \in DOMAIN sends' : sends'[i].n < made'
        /\ made' \in 0..MaxMade
        /\ Counted' = Budget!Live \cup {Added(c, FALSE, limit, 0, now)}
    BY <1>0, <2>1, <2>2, AddedIs
  <2>4. /\ Later(f.lastSlot, now) \in Nat
        /\ f.lastSlot \in Nat => f.lastSlot <= Later(f.lastSlot, now)
    BY <1>0, <1>2 DEF Later
  <2>5. g \in Facts /\ g.pending = f.pending /\ g.lastSlot = Later(f.lastSlot, now)
    BY <1>1, <1>3, <2>4 DEF Facts
  <2> HIDE DEF g
  <2>6. Fine(g)
    <3>1. \A i \in DOMAIN g.pending : g.lastSlot \in Nat /\ g.pending[i] <= g.lastSlot
      <4> TAKE i \in DOMAIN g.pending
      <4>1. f.lastSlot \in Nat /\ f.pending[i] <= f.lastSlot /\ f.pending[i] \in Nat
        BY <1>1, <1>2, <2>5 DEF Fine
      <4> QED
        BY <2>4, <2>5, <4>1
    <3> QED
      BY <1>1, <2>5, <3>1 DEF Fine
  <2>7. /\ facts' \in [Channels -> Facts] /\ \A d \in Channels : Fine(facts'[d])
        /\ Slots' = [Slots EXCEPT ![c] = g.lastSlot]
    BY <2>2, <2>6, Replaced
  <2>8. Slots[c] = f.lastSlot
    BY <1>1 DEF Slots
  <2>9. Slots' = [Slots EXCEPT ![c] = IF @ = None \/ @ < now THEN now ELSE @]
    BY <2>5, <2>7, <2>8 DEF Later
  <2>10. Budget!Count(c, limit)
    BY <1>0, <2>2, <2>3, <2>9 DEF Budget!Count, Added
  <2>11. LInv'
    BY <1>0, <2>3, <2>7 DEF LInv
  <2> QED
    BY <2>1, <2>10, <2>11 DEF Kin, Budget!Next
<1> QED
  BY <1>4, <1>5 DEF RecordSent

LEMMA AcquireKept ==
    ASSUME LInv, NEW j \in Jobs, NEW c \in Channels, NEW text \in Lines, Acquire(j, c, text)
    PROVE  Kin
<1> DEFINE f == PrunedFacts[c]
           at == Earliest(c, Primary)
           limit == PerWindow(c, Primary)
           gap == Spacing(c, Primary)
           g == [f EXCEPT !.lastSlot = at, !.lastText = [text |-> text, at |-> at],
                          !.pending = Append(f.pending, at)]
<1>0. /\ made < MaxMade /\ made' = made + 1 /\ at - now <= MaxWait
      /\ sends' = InsertSend(Kept, Entry(c, at, limit, gap, TRUE))
      /\ facts' = [PrunedFacts EXCEPT ![c] = g]
      /\ jobs' = [jobs EXCEPT ![j] = [channel |-> c, text |-> text, slot |-> at]]
      /\ ownLogin' = Primary /\ UNCHANGED <<now, delivered>>
  BY DEF Acquire
<1>1. Fine(f) /\ f \in Facts /\ f.lastSlot = facts[c].lastSlot
  BY PrunedIs DEF Fine
<1>2. /\ f.pending \in Seq(Nat) /\ Rising(f.pending) /\ f.lastSlot \in Nat \cup {None}
      /\ \A i \in DOMAIN f.pending : f.pending[i] \in Nat
  BY <1>1, Shape DEF Fine
<1>3. /\ at \in Nat /\ now <= at /\ Budget!Fits(at, limit)
      /\ facts[c].lastSlot # None => at >= facts[c].lastSlot + gap
  BY EarliestIs
<1>4. limit \in Limits /\ gap \in Gaps /\ gap \in Nat \ {0}
  BY RoleIs
<1> HIDE DEF at, limit, gap
<1>5. \A i \in DOMAIN f.pending : f.pending[i] < at
  <2> TAKE i \in DOMAIN f.pending
  <2>1. f.lastSlot \in Nat /\ f.pending[i] <= f.lastSlot /\ f.pending[i] \in Nat
    BY <1>1, <1>2 DEF Fine
  <2>2. f.lastSlot # None /\ at >= f.lastSlot + gap
    BY <1>1, <1>3, <2>1
  <2> QED
    BY <1>3, <1>4, <2>1, <2>2
<1> DEFINE q == Append(f.pending, at)
<1>6. q \in Seq(Nat) /\ Rising(q) /\ Range(q) = Range(f.pending) \cup {at}
  BY <1>2, <1>3, <1>5, AppendedIs
<1> HIDE DEF q
<1>7. g \in Facts /\ g.pending = q /\ g.lastSlot = at
  BY <1>1, <1>3, <1>6 DEF Facts, Texts, q
<1> HIDE DEF g
<1>8. Fine(g)
  <2>1. \A k \in DOMAIN q : q[k] <= at
    <3> TAKE k \in DOMAIN q
    <3>1. q[k] = at \/ \E i \in DOMAIN f.pending : q[k] = f.pending[i]
      BY <1>6 DEF Range
    <3> QED
      BY <1>2, <1>3, <1>5, <3>1
  <2> QED
    BY <1>3, <1>6, <1>7, <2>1 DEF Fine
<1>9. /\ facts' \in [Channels -> Facts] /\ \A d \in Channels : Fine(facts'[d])
      /\ Slots' = [Slots EXCEPT ![c] = at]
  BY <1>0, <1>7, <1>8, Replaced
<1>10. /\ Good(sends') /\ \A i \in DOMAIN sends' : sends'[i].n < made'
       /\ made' \in 0..MaxMade
       /\ Counted' = Budget!Live \cup {Added(c, TRUE, limit, gap, at)}
  BY <1>0, <1>3, <1>4, AddedIs
<1>11. Slots[c] # None => at >= Slots[c] + gap
  BY <1>3 DEF Slots
<1>12. at \in now..(now + MaxWait)
  BY <1>0, <1>3 DEF LInv
<1>13. Budget!Book(c, limit, gap, at)
  BY <1>0, <1>3, <1>9, <1>10, <1>11 DEF Budget!Book, Added
<1>14. jobs' \in [Jobs -> Sleeping \cup {None}]
  BY <1>0, <1>3 DEF LInv, Sleeping
<1>15. LInv'
  BY <1>0, <1>9, <1>10, <1>14 DEF LInv
<1>16. Budget!Next
  BY <1>4, <1>12, <1>13 DEF Budget!Next
<1> QED
  BY <1>15, <1>16 DEF Kin

LEMMA StepKept ==
    ASSUME LInv, [Next]_vars
    PROVE  Kin
<1>0. /\ PrunedFacts \in [Channels -> Facts] /\ \A c \in Channels : Fine(PrunedFacts[c])
      /\ facts' = PrunedFacts => Slots' = Slots
  BY PrunedIs DEF Slots
<1>1. CASE Tick
  <2>1. now' = now + 1 /\ now < Horizon
        /\ UNCHANGED <<sends, facts, ownLogin, jobs, made, delivered>>
    BY <1>1 DEF Tick, limiter
  <2>2. UNCHANGED <<Counted, Slots>>
    BY <2>1 DEF Counted, Slots
  <2>3. now' \in 0..Horizon
    BY <2>1 DEF LInv
  <2>4. LInv'
    BY <2>1, <2>3 DEF LInv
  <2>5. Budget!Tick
    BY <2>1, <2>2 DEF Budget!Tick
  <2> QED
    BY <2>4, <2>5 DEF Kin, Budget!Next
<1>2. ASSUME NEW j \in Jobs, NEW c \in Channels, NEW text \in Lines, Acquire(j, c, text)
      PROVE  Kin
  BY <1>2, AcquireKept
<1>3. ASSUME NEW j \in Jobs, SendPaced(j) PROVE Kin
  <2>1. jobs[j].channel \in Channels /\ jobs[j].text \in Lines
    BY <1>3 DEF SendPaced, LInv, Sleeping
  <2>2. jobs' \in [Jobs -> Sleeping \cup {None}]
    BY <1>3 DEF SendPaced, LInv
  <2> QED
    BY <1>3, <2>1, <2>2, RecordKept DEF SendPaced
<1>4. ASSUME NEW j \in Jobs, SendDropped(j) PROVE Kin
  <2>1. jobs' \in [Jobs -> Sleeping \cup {None}]
    BY <1>4 DEF SendDropped, LInv
  <2>2. UNCHANGED <<now, sends, facts, ownLogin, made, delivered, Slots>>
    BY <1>4 DEF SendDropped, limiter, Slots
  <2> QED
    BY <2>1, <2>2, StillKept DEF LInv
<1>5. ASSUME NEW c \in Channels, NEW text \in Lines, SendTyped(c, text) PROVE Kin
  BY <1>5, RecordKept DEF SendTyped, LInv
<1>6. CASE AskBudget \/ \E c \in Channels, text \in Lines : AcquireRefused(c, text)
  <2>1. /\ sends' = Kept /\ facts' = PrunedFacts /\ ownLogin' = Primary
        /\ UNCHANGED <<now, jobs, made, delivered>>
    BY <1>6 DEF AskBudget, AcquireRefused
  <2> QED
    BY <1>0, <2>1, PruneKept DEF LInv
<1>7. ASSUME NEW c \in Channels, NEW f, facts' = [facts EXCEPT ![c] = f],
             f \in Facts, f.pending = facts[c].pending, f.lastSlot = facts[c].lastSlot,
             UNCHANGED <<now, sends, ownLogin, jobs, made, delivered>>
      PROVE  Kin
  <2>1. /\ facts' \in [Channels -> Facts] /\ facts'[c] = f
        /\ \A d \in Channels \ {c} : facts'[d] = facts[d]
    BY <1>7 DEF LInv
  <2>2. Fine(f)
    BY <1>7 DEF LInv, Fine
  <2>3. \A d \in Channels : Fine(facts'[d])
    BY <2>1, <2>2 DEF LInv
  <2>4. Slots' = Slots
    BY <1>7, <2>1 DEF Slots
  <2> QED
    BY <1>7, <2>1, <2>3, <2>4, StillKept DEF LInv
<1>8. ASSUME NEW c \in Channels, NEW role \in Roles, NoteOwnBadges(c, role) PROVE Kin
  <2> DEFINE f == [facts[c] EXCEPT !.role = role]
  <2>1. facts' = [facts EXCEPT ![c] = f]
    BY <1>8 DEF NoteOwnBadges
  <2>2. f \in Facts /\ f.pending = facts[c].pending /\ f.lastSlot = facts[c].lastSlot
    BY DEF LInv, Facts
  <2> HIDE DEF f
  <2> QED
    BY <1>7, <1>8, <2>1, <2>2 DEF NoteOwnBadges
<1>9. ASSUME NEW c \in Channels, NEW modes \in RoomModes, NoteRoomState(c, modes) PROVE Kin
  <2> DEFINE f == [facts[c] EXCEPT !.modes = modes]
  <2>1. facts' = [facts EXCEPT ![c] = f]
    BY <1>9 DEF NoteRoomState
  <2>2. f \in Facts /\ f.pending = facts[c].pending /\ f.lastSlot = facts[c].lastSlot
    BY DEF LInv, Facts
  <2> HIDE DEF f
  <2> QED
    BY <1>7, <1>9, <2>1, <2>2 DEF NoteRoomState
<1>10. CASE ResetAccount
  <2>1. NoFacts \in Facts /\ Fine(NoFacts) /\ NoFacts.lastSlot = None
    BY DEF NoFacts, Facts, Fine, Rising
  <2>2. Good(<<>>) /\ Range(<<>>) = {}
    BY DEF Good, Sorted, Distinct, Range
  <2>3. /\ sends' = <<>> /\ facts' = [c \in Channels |-> NoFacts] /\ ownLogin' = None
        /\ delivered' = <<>> /\ UNCHANGED <<now, jobs, made>>
    BY <1>10 DEF ResetAccount
  <2>4. Counted' = {} /\ Slots' = [c \in Channels |-> None]
    BY <2>1, <2>2, <2>3 DEF Counted, Slots
  <2>5. Budget!Reset
    BY <2>3, <2>4 DEF Budget!Reset
  <2>6. LInv'
    BY <2>1, <2>2, <2>3 DEF LInv
  <2> QED
    BY <2>5, <2>6 DEF Kin, Budget!Next
<1>11. CASE UNCHANGED vars
  <2>1. UNCHANGED <<now, sends, facts, ownLogin, jobs, made, delivered, Slots>>
    BY <1>11 DEF vars, Slots
  <2> QED
    BY <2>1, StillKept DEF LInv
<1> QED
  BY <1>1, <1>2, <1>3, <1>4, <1>5, <1>6, <1>8, <1>9, <1>10, <1>11 DEF Next

LEMMA InitKept == Init => LInv /\ Budget!Init
<1> SUFFICES ASSUME Init PROVE LInv /\ Budget!Init
  OBVIOUS
<1>1. NoFacts \in Facts /\ Fine(NoFacts) /\ NoFacts.lastSlot = None
  BY DEF NoFacts, Facts, Fine, Rising
<1>2. Good(<<>>) /\ Range(<<>>) = {}
  BY DEF Good, Sorted, Distinct, Range
<1>3. LInv
  BY <1>1, <1>2 DEF Init, LInv
<1>4. Counted = {} /\ Slots = [c \in Channels |-> None]
  BY <1>1, <1>2 DEF Init, Counted, Slots
<1>5. Budget!Init
  BY <1>4 DEF Init, Budget!Init
<1> QED
  BY <1>3, <1>5

LEMMA TypesKept == Spec => []LInv
<1>1. LInv /\ [Next]_vars => LInv'
  BY StepKept DEF Kin
<1> QED
  BY <1>1, InitKept, PTL DEF Spec

-----------------------------------------------------------------------------
(* Every message that went out is counted *)

\* A message the limiter counts has been sent once its slot no longer waits.
Sent(e) == e.paced => e.at \notin Range(facts[e.channel].pending)

\* f gives each message that went out lately the one that was counted for it:
\* another for each, near its instant, and no slot that is still waited for.
Matched(f) ==
    /\ f \in [Lately -> Counted] /\ IsInjective(f)
    /\ \A i \in Lately :
          /\ delivered[i] <= now
          /\ f[i].at <= delivered[i] + ClaimAhead /\ delivered[i] - f[i].at <= PendingSpan
          /\ Sent(f[i])

\* A slot that is waited for is counted.
Booked ==
    \A c \in Channels : \A t \in Range(facts[c].pending) :
        \E e \in Counted : e.paced /\ e.channel = c /\ e.at = t

CInv == LInv /\ BInv /\ Booked /\ \E f : Matched(f)

LEMMA CountedIs ==
    ASSUME LInv
    PROVE  /\ Counted \subseteq Message /\ Budget!Live \subseteq Counted
           /\ \A e \in Counted : e.at \in Nat /\ e.channel \in Channels
           /\ delivered \in Seq(Nat) /\ Len(delivered) \in Nat /\ now \in Nat
           /\ DOMAIN delivered = 1..Len(delivered)
           /\ \A i \in DOMAIN delivered : delivered[i] \in Nat
<1>1. Counted \subseteq Message /\ Budget!Live \subseteq Counted
  BY GoodRange DEF LInv, Counted, Budget!Live
<1>2. delivered \in Seq(Nat)
  BY DEF LInv
<1>3. /\ Len(delivered) \in Nat /\ DOMAIN delivered = 1..Len(delivered)
      /\ \A i \in DOMAIN delivered : delivered[i] \in Nat
  BY <1>2, LenProperties, ElementOfSeq
<1> QED
  BY <1>1, <1>2, <1>3 DEF Message, LInv

\* `prune` forgets neither what went out lately nor a slot that waits.
LEMMA PruneSafe ==
    ASSUME CInv
    PROVE  /\ \A f : Matched(f) => \A i \in Lately : f[i] \in Budget!Live
           /\ \A c \in Channels : /\ PrunedFacts[c].pending = Waiting(facts[c].pending)
                                  /\ Range(PrunedFacts[c].pending) \subseteq Range(facts[c].pending)
                                  /\ \A i \in DOMAIN PrunedFacts[c].pending :
                                        now - PrunedFacts[c].pending[i] <= PendingSpan
           /\ \A c \in Channels : \A t \in Range(PrunedFacts[c].pending) :
                 \E e \in Budget!Live : e.paced /\ e.channel = c /\ e.at = t
<1>0. /\ LInv /\ Booked /\ PendingSpan \in Nat /\ Window \in Nat /\ PendingSpan < Window
      /\ \A c \in Channels : Fine(facts[c])
  BY LimiterAssumption DEF CInv, LInv
<1>1. ASSUME NEW f, Matched(f), NEW i \in Lately PROVE f[i] \in Budget!Live
  <2>1. /\ f[i] \in Counted /\ now - delivered[i] < Window - PendingSpan
        /\ delivered[i] - f[i].at <= PendingSpan
    BY <1>1 DEF Matched, Lately
  <2>2. f[i].at \in Nat /\ delivered[i] \in Nat /\ now \in Nat
    BY <1>0, <2>1, CountedIs DEF Lately
  <2>3. now - f[i].at < Window
    BY <1>0, <2>1, <2>2
  <2> QED
    BY <2>1, <2>3 DEF Budget!Live
<1>2. ASSUME NEW c \in Channels
      PROVE  /\ PrunedFacts[c].pending = Waiting(facts[c].pending)
             /\ Range(PrunedFacts[c].pending) \subseteq Range(facts[c].pending)
             /\ \A i \in DOMAIN PrunedFacts[c].pending :
                   now - PrunedFacts[c].pending[i] <= PendingSpan
  BY <1>0, PrunedIs, WaitingIs
<1>3. ASSUME NEW c \in Channels, NEW t \in Range(PrunedFacts[c].pending)
      PROVE  \E e \in Budget!Live : e.paced /\ e.channel = c /\ e.at = t
  <2>1. t \in Range(facts[c].pending) /\ now - t <= PendingSpan
    BY <1>2 DEF Range
  <2>2. PICK e \in Counted : e.paced /\ e.channel = c /\ e.at = t
    BY <1>0, <2>1 DEF Booked
  <2>3. t \in Nat /\ now \in Nat
    BY <1>0, <2>2, CountedIs
  <2>4. now - e.at < Window
    BY <1>0, <2>1, <2>2, <2>3
  <2> QED
    BY <2>2, <2>4 DEF Budget!Live
<1> QED
  BY <1>1, <1>2, <1>3

\* A step after which no more messages went out.
LEMMA MatchStays ==
    ASSUME CInv, NEW f, Matched(f), now' \in Nat, now <= now',
           delivered' = delivered, \A i \in Lately : f[i] \in Counted' /\ Sent(f[i])'
    PROVE  \E g : Matched(g)'
<1> DEFINE g == [i \in Lately' |-> f[i]]
<1>0. /\ now \in Nat /\ \A i \in DOMAIN delivered : delivered[i] \in Nat
      /\ DOMAIN delivered' = DOMAIN delivered
  BY CountedIs DEF CInv
<1>1. Lately' \subseteq Lately
  <2>1. ASSUME NEW i \in Lately' PROVE i \in Lately
    <3>1. i \in DOMAIN delivered /\ now' - delivered[i] < Window - PendingSpan
      BY <2>1 DEF Lately
    <3>2. now - delivered[i] < Window - PendingSpan
      BY <1>0, <3>1, LimiterAssumption
    <3> QED
      BY <3>1, <3>2 DEF Lately
  <2> QED
    BY <2>1
<1>2. g \in [Lately' -> Counted'] /\ \A i \in Lately' : g[i] = f[i] /\ f[i] \in Counted' /\ Sent(f[i])'
  BY <1>1
<1>3. IsInjective(g)
  BY <1>1, <1>2 DEF IsInjective, Matched
<1>4. \A i \in Lately' :
          /\ delivered'[i] <= now'
          /\ g[i].at <= delivered'[i] + ClaimAhead /\ delivered'[i] - g[i].at <= PendingSpan
  <2> TAKE i \in Lately'
  <2>1. /\ i \in Lately /\ delivered[i] <= now /\ delivered[i] \in Nat
        /\ f[i].at <= delivered[i] + ClaimAhead /\ delivered[i] - f[i].at <= PendingSpan
    BY <1>0, <1>1 DEF Matched, Lately
  <2>2. delivered[i] <= now'
    BY <1>0, <2>1
  <2> QED
    BY <1>2, <2>1, <2>2
<1>5. PICK h : h = g
  OBVIOUS
<1> HIDE DEF g
<1>6. Matched(h)'
  BY <1>2, <1>3, <1>4, <1>5 DEF Matched
<1> QED
  BY <1>6

\* A message goes out, and `e` is the one counted for it.
LEMMA MatchGrows ==
    ASSUME CInv, NEW f, Matched(f), now' = now,
           delivered' = Append(From(delivered, Lately), now),
           \A i \in Lately : f[i] \in Counted' /\ Sent(f[i])',
           NEW e \in Counted', e.at \in Nat, Sent(e)', \A i \in Lately : f[i] # e,
           e.at <= now + ClaimAhead, now - e.at <= PendingSpan
    PROVE  \E g : Matched(g)'
<1>0. /\ delivered \in Seq(Nat) /\ Lately \in SUBSET DOMAIN delivered /\ now \in Nat
      /\ Len(delivered) \in Nat /\ DOMAIN delivered = 1..Len(delivered)
      /\ \A i \in DOMAIN delivered : delivered[i] \in Nat
  BY CountedIs DEF CInv, Lately
<1> DEFINE d == From(delivered, Lately)
<1>1. PICK k \in 1..(Len(delivered) + 1) :
          /\ d \in Seq(Nat) /\ Len(d) = Len(delivered) + 1 - k
          /\ \A i \in 1..(Len(delivered) + 1 - k) : d[i] = delivered[i + k - 1]
  BY <1>0, FromIs
<1> HIDE DEF d
<1>2. Len(d) \in Nat /\ \A i \in 1..Len(d) : i + k - 1 \in DOMAIN delivered /\ d[i] = delivered[i + k - 1]
  BY <1>0, <1>1
<1>3. /\ delivered' \in Seq(Nat) /\ DOMAIN delivered' = 1..(Len(d) + 1)
      /\ \A i \in 1..Len(d) : delivered'[i] = d[i]
      /\ delivered'[Len(d) + 1] = now
  BY <1>0, <1>1, <1>2 DEF d
<1>4. PICK g : g = [i \in Lately' |-> IF i = Len(d) + 1 THEN e ELSE f[i + k - 1]]
  OBVIOUS
<1>5. ASSUME NEW i \in Lately'
      PROVE  \/ i = Len(d) + 1 /\ g[i] = e /\ delivered'[i] = now
             \/ /\ i \in 1..Len(d) /\ i # Len(d) + 1
                /\ i + k - 1 \in Lately /\ g[i] = f[i + k - 1]
                /\ delivered'[i] = delivered[i + k - 1]
  <2>1. i \in 1..(Len(d) + 1) /\ now - delivered'[i] < Window - PendingSpan
    BY <1>3 DEF Lately
  <2>2. CASE i = Len(d) + 1
    BY <1>3, <1>4, <2>2
  <2>3. CASE i # Len(d) + 1
    <3>1. i \in 1..Len(d)
      BY <1>2, <2>1, <2>3
    <3>2. /\ i + k - 1 \in DOMAIN delivered /\ delivered'[i] = delivered[i + k - 1]
          /\ g[i] = f[i + k - 1]
      BY <1>2, <1>3, <1>4, <2>3, <3>1
    <3> QED
      BY <2>1, <2>3, <3>1, <3>2 DEF Lately
  <2> QED
    BY <2>2, <2>3
<1>6. g \in [Lately' -> Counted'] /\ DOMAIN g = Lately'
  <2>1. \A i \in Lately' : g[i] \in Counted'
    BY <1>5
  <2> QED
    BY <1>4, <2>1
<1>7. \A i, l \in Lately' : g[i] = g[l] => i = l
  <2> TAKE i, l \in Lately'
  <2>1. CASE i = Len(d) + 1 \/ l = Len(d) + 1
    <3>1. \A j \in Lately' : (g[j] = e /\ j = Len(d) + 1) \/ (g[j] # e /\ j # Len(d) + 1)
      BY <1>5
    <3> QED
      BY <2>1, <3>1
  <2>2. CASE i # Len(d) + 1 /\ l # Len(d) + 1
    <3>1. /\ i + k - 1 \in Lately /\ g[i] = f[i + k - 1] /\ i \in Int
          /\ l + k - 1 \in Lately /\ g[l] = f[l + k - 1] /\ l \in Int
      BY <1>5, <2>2
    <3>2. g[i] = g[l] => i + k - 1 = l + k - 1
      BY <3>1 DEF Matched, IsInjective
    <3>3. k \in Int
      BY <1>1
    <3> QED
      BY <3>1, <3>2, <3>3
  <2> QED
    BY <2>1, <2>2
<1>8. \A i \in Lately' :
          /\ delivered'[i] <= now' /\ g[i].at <= delivered'[i] + ClaimAhead
          /\ delivered'[i] - g[i].at <= PendingSpan /\ Sent(g[i])'
  <2> TAKE i \in Lately'
  <2>1. CASE i = Len(d) + 1
    <3>1. g[i] = e /\ delivered'[i] = now
      BY <1>5, <2>1
    <3>2. Sent(g[i])'
      BY <3>1 DEF Sent
    <3>3. delivered'[i] <= now' /\ delivered'[i] = now
      BY <1>0, <3>1
    <3> HIDE <1>0, <1>5
    <3> QED
      BY <3>1, <3>2, <3>3
  <2>2. CASE i # Len(d) + 1
    <3> DEFINE j == i + k - 1
    <3>1. j \in Lately /\ g[i] = f[j] /\ delivered'[i] = delivered[j]
      BY <1>5, <2>2
    <3> HIDE DEF j
    <3> QED
      BY <3>1 DEF Matched
  <2> QED
    BY <2>1, <2>2
<1>9. Matched(g)'
  BY <1>6, <1>7, <1>8 DEF Matched, IsInjective
<1> QED
  BY <1>9

LEMMA PromiseKept ==
    ASSUME CInv, [Next]_vars
    PROVE  LInv' /\ BInv'
<1>1. LInv /\ BInv
  BY DEF CInv
<1>2. Kin
  BY <1>1, StepKept
<1> QED
  BY <1>1, <1>2, InvNext DEF Kin

\* Nothing is counted, no slot is taken and none is used.
LEMMA SameCovered ==
    ASSUME CInv, [Next]_vars, sends' = sends, delivered' = delivered,
           \A c \in Channels : facts'[c].pending = facts[c].pending,
           now' \in Nat, now <= now'
    PROVE  CInv'
<1>0. LInv' /\ BInv' /\ LInv /\ Booked
  BY PromiseKept DEF CInv
<1>1. Counted' = Counted /\ \A e \in Counted : e.channel \in Channels
  BY <1>0, CountedIs DEF Counted
<1>2. Booked'
  BY <1>0, <1>1 DEF Booked
<1>3. PICK f : Matched(f)
  BY DEF CInv
<1>4. ASSUME NEW i \in Lately PROVE f[i] \in Counted' /\ Sent(f[i])'
  <2>1. f[i] \in Counted /\ Sent(f[i])
    BY <1>3 DEF Matched
  <2> QED
    BY <1>1, <2>1 DEF Sent
<1>5. \E g : Matched(g)'
  BY <1>3, <1>4, MatchStays
<1> QED
  BY <1>0, <1>2, <1>5 DEF CInv

\* `prune`, and nothing else.
LEMMA PrunedCovered ==
    ASSUME CInv, [Next]_vars, sends' = Kept, facts' = PrunedFacts,
           UNCHANGED <<delivered, now>>
    PROVE  CInv'
<1>0. LInv' /\ BInv' /\ LInv
  BY PromiseKept DEF CInv
<1>1. Counted' = Budget!Live /\ \A e \in Counted : e.channel \in Channels /\ now \in Nat
  BY <1>0, KeptTyped, CountedIs DEF Counted
<1>2. Booked'
  BY <1>1, PruneSafe DEF Booked
<1>3. PICK f : Matched(f)
  BY DEF CInv
<1>4. ASSUME NEW i \in Lately PROVE f[i] \in Counted' /\ Sent(f[i])'
  <2>1. f[i] \in Counted /\ Sent(f[i]) /\ f[i] \in Budget!Live
    BY <1>3, PruneSafe DEF Matched
  <2>2. Range(PrunedFacts[f[i].channel].pending) \subseteq Range(facts[f[i].channel].pending)
    BY <1>1, <2>1, PruneSafe
  <2> QED
    BY <1>1, <2>1, <2>2 DEF Sent
<1>5. now \in Nat
  BY <1>0, CountedIs
<1>6. \E g : Matched(g)'
  BY <1>3, <1>4, <1>5, MatchStays
<1> QED
  BY <1>0, <1>2, <1>6 DEF CInv

\* A slot is booked: it is later than every message counted in its channel.
LEMMA AcquireCovered ==
    ASSUME CInv, [Next]_vars, NEW j \in Jobs, NEW c \in Channels, NEW text \in Lines,
           Acquire(j, c, text)
    PROVE  CInv'
<1>0. LInv' /\ BInv' /\ LInv /\ BInv /\ LastIsLatest /\ now \in Nat
  BY PromiseKept, CountedIs DEF CInv, BInv
<1> DEFINE f == PrunedFacts[c]
           at == Earliest(c, Primary)
           limit == PerWindow(c, Primary)
           gap == Spacing(c, Primary)
           g == [f EXCEPT !.lastSlot = at, !.lastText = [text |-> text, at |-> at],
                          !.pending = Append(f.pending, at)]
           x == Added(c, TRUE, limit, gap, at)
<1>1. /\ made < MaxMade /\ made' = made + 1
      /\ sends' = InsertSend(Kept, Entry(c, at, limit, gap, TRUE))
      /\ facts' = [PrunedFacts EXCEPT ![c] = g]
      /\ UNCHANGED <<now, delivered>>
  BY DEF Acquire
<1>2. /\ at \in Nat /\ limit \in Limits /\ gap \in Gaps /\ gap \in Nat \ {0}
      /\ facts[c].lastSlot # None => at >= facts[c].lastSlot + gap
  BY <1>0, EarliestIs, RoleIs
<1> HIDE DEF at, limit, gap
<1>3. Counted' = Budget!Live \cup {x}
  BY <1>0, <1>1, <1>2, AddedIs
<1>4. x.paced /\ x.channel = c /\ x.at = at
  BY DEF Added
<1>5. f \in Facts /\ PrunedFacts \in [Channels -> Facts] /\ f.pending \in Seq(Nat)
  BY <1>0, PrunedIs DEF Facts
<1>6. g.pending = Append(f.pending, at)
  BY <1>5 DEF Facts
<1>7. /\ facts'[c].pending = Append(f.pending, at)
      /\ \A d \in Channels \ {c} : facts'[d].pending = PrunedFacts[d].pending
  BY <1>1, <1>5, <1>6
<1>8. Range(Append(f.pending, at)) = Range(f.pending) \cup {at}
  <2>1. Fine(f)
    BY <1>0, PrunedIs
  <2>2. \A i \in DOMAIN f.pending : f.pending[i] < at
    <3> TAKE i \in DOMAIN f.pending
    <3>1. f.lastSlot \in Nat /\ f.pending[i] <= f.lastSlot /\ f.pending[i] \in Nat
      BY <1>5, <2>1, Shape DEF Fine
    <3>2. f.lastSlot = facts[c].lastSlot /\ facts[c].lastSlot # None
      BY <1>0, <3>1, PrunedIs
    <3> QED
      BY <1>2, <3>1, <3>2
  <2> QED
    BY <1>2, <1>5, <2>1, <2>2, AppendedIs DEF Fine
<1>9. \A e \in Counted : e.channel = c => e.at # at
  <2> TAKE e \in Counted
  <2> HAVE e.channel = c
  <2>1. facts[c].lastSlot # None /\ e.at <= facts[c].lastSlot
    BY <1>0 DEF LastIsLatest, Slots
  <2>2. facts[c].lastSlot \in Nat /\ e.at \in Nat
    BY <1>0, <2>1, CountedIs, Shape DEF LInv
  <2> QED
    BY <1>2, <2>1, <2>2
<1> HIDE DEF g, x
<1>10. Booked'
  <2> SUFFICES ASSUME NEW d \in Channels, NEW t \in Range(facts'[d].pending)
               PROVE  \E e \in Counted' : e.paced /\ e.channel = d /\ e.at = t
    BY DEF Booked
  <2>1. CASE d = c /\ t = at
    BY <1>3, <1>4, <2>1
  <2>2. CASE ~(d = c /\ t = at)
    <3>1. t \in Range(PrunedFacts[d].pending)
      BY <1>7, <1>8, <2>2
    <3> QED
      BY <1>3, <3>1, PruneSafe
  <2> QED
    BY <2>1, <2>2
<1>11. PICK h : Matched(h)
  BY DEF CInv
<1>12. ASSUME NEW i \in Lately PROVE h[i] \in Counted' /\ Sent(h[i])'
  <2>1. h[i] \in Counted /\ Sent(h[i]) /\ h[i] \in Budget!Live
    BY <1>11, PruneSafe DEF Matched
  <2>2. h[i].channel \in Channels
    BY <1>0, <2>1, CountedIs
  <2>3. Range(PrunedFacts[h[i].channel].pending) \subseteq Range(facts[h[i].channel].pending)
    BY <2>2, PruneSafe
  <2>4. h[i].paced => h[i].at \notin Range(facts'[h[i].channel].pending)
    BY <1>7, <1>8, <1>9, <2>1, <2>2, <2>3 DEF Sent
  <2> QED
    BY <1>3, <2>1, <2>4 DEF Sent
<1>13. \E k : Matched(k)'
  BY <1>0, <1>1, <1>11, <1>12, MatchStays
<1> QED
  BY <1>0, <1>10, <1>13 DEF CInv

\* A message goes out: on a slot that was counted when it was booked, or
\* counted now.
LEMMA RecordCovered ==
    ASSUME CInv, [Next]_vars, NEW c \in Channels, NEW text \in Lines, RecordSent(c, text)
    PROVE  CInv'
<1>0. LInv' /\ BInv' /\ LInv /\ BInv /\ now \in Nat /\ Booked
  BY PromiseKept, CountedIs DEF CInv
<1>1. now' = now /\ delivered' = Append(From(delivered, Lately), now)
  BY DEF RecordSent
<1>2. PICK h : Matched(h)
  BY DEF CInv
<1>3. ASSUME NEW i \in Lately
      PROVE  /\ h[i] \in Counted /\ Sent(h[i]) /\ h[i] \in Budget!Live
             /\ h[i].channel \in Channels
             /\ Range(PrunedFacts[h[i].channel].pending)
                   \subseteq Range(facts[h[i].channel].pending)
  <2>1. h[i] \in Counted /\ Sent(h[i]) /\ h[i] \in Budget!Live
    BY <1>2, PruneSafe DEF Matched
  <2>2. h[i].channel \in Channels
    BY <1>0, <2>1, CountedIs
  <2> QED
    BY <2>1, <2>2, PruneSafe
<1> DEFINE f == PrunedFacts[c]
<1>4. /\ PrunedFacts \in [Channels -> Facts] /\ f \in Facts /\ f.pending \in Seq(Nat)
      /\ Rising(f.pending) /\ \A i \in DOMAIN f.pending : f.pending[i] \in Nat
  BY <1>0, PrunedIs, Shape DEF Fine
<1>5. CASE Claim(c, text)
  <2> DEFINE near == Near(f.pending)
             i == Min(near)
             t == f.pending[i]
             q == RemoveAt(f.pending, i)
             g == [f EXCEPT !.pending = q, !.lastText = [text |-> text, at |-> now]]
  <2>1. near # {} /\ near \in SUBSET DOMAIN f.pending
    BY <1>5 DEF Claim, Near
  <2>2. i \in near /\ i \in DOMAIN f.pending
    <3>1. DOMAIN f.pending \in SUBSET Nat
      BY <1>4, LenProperties
    <3> QED
      BY <2>1, <3>1, MinIs
  <2>3. facts' = [PrunedFacts EXCEPT ![c] = g] /\ sends' = Kept
    BY <1>5 DEF Claim
  <2>4. t <= now + ClaimAhead /\ now - t <= PendingSpan /\ t \in Range(f.pending)
    BY <2>2, PruneSafe DEF Near, Range
  <2> HIDE DEF i
  <2>5. Range(q) = Range(f.pending) \ {t}
    BY <1>4, <2>2, RemovedIs
  <2> HIDE DEF q, t
  <2>6. g.pending = q
    BY <1>4 DEF Facts
  <2> HIDE DEF g
  <2>7. facts'[c].pending = q /\ \A d \in Channels \ {c} : facts'[d] = PrunedFacts[d]
    BY <1>4, <2>3, <2>6
  <2>8. Counted' = Budget!Live
    BY <1>0, <2>3, KeptTyped DEF Counted
  <2>9. \A d \in Channels : Range(facts'[d].pending) \subseteq Range(PrunedFacts[d].pending)
    BY <2>5, <2>7
  <2>10. Booked'
    BY <2>8, <2>9, PruneSafe DEF Booked
  <2>11. PICK e \in Budget!Live : e.paced /\ e.channel = c /\ e.at = t
    BY <2>4, PruneSafe
  <2>12. e \in Counted' /\ e.at \in Nat
    BY <1>0, <2>8, CountedIs
  <2>13. Sent(e)'
    <3>1. e.at \notin Range(facts'[e.channel].pending)
      BY <2>5, <2>7, <2>11
    <3> QED
      BY <3>1 DEF Sent
  <2>14. ~Sent(e)
    <3>1. t \in Range(facts[c].pending)
      BY <2>4, PruneSafe
    <3> QED
      BY <2>11, <3>1 DEF Sent
  <2>15. \A k \in Lately : h[k] # e
    BY <1>3, <2>14
  <2>16. ASSUME NEW k \in Lately PROVE h[k] \in Counted' /\ Sent(h[k])'
    <3>1. Range(facts'[h[k].channel].pending) \subseteq Range(facts[h[k].channel].pending)
      BY <1>3, <2>9
    <3> QED
      BY <1>3, <2>8, <3>1 DEF Sent
  <2>17. \E k : Matched(k)'
    BY <1>1, <1>2, <2>4, <2>11, <2>12, <2>13, <2>15, <2>16, MatchGrows
  <2> QED
    BY <1>0, <2>10, <2>17 DEF CInv
<1>6. CASE CountNow(c, text)
  <2> DEFINE limit == PerWindow(c, ownLogin)
             g == [f EXCEPT !.lastSlot = Later(f.lastSlot, now),
                            !.lastText = [text |-> text, at |-> now]]
             e == Added(c, FALSE, limit, 0, now)
  <2>1. /\ made < MaxMade /\ made' = made + 1
        /\ sends' = InsertSend(Kept, Entry(c, now, limit, 0, FALSE))
        /\ facts' = [PrunedFacts EXCEPT ![c] = g]
    BY <1>6 DEF CountNow
  <2>2. limit \in Limits
    BY <1>0, RoleIs
  <2> HIDE DEF limit
  <2>3. Counted' = Budget!Live \cup {e}
    BY <1>0, <2>1, <2>2, AddedIs
  <2>4. ~e.paced /\ e.at = now /\ e.n = made
    BY DEF Added
  <2>5. g.pending = f.pending
    BY <1>4 DEF Facts
  <2> HIDE DEF g
  <2>6. \A d \in Channels : facts'[d].pending = PrunedFacts[d].pending
    BY <1>4, <2>1, <2>5
  <2>7. PICK x : x = e
    OBVIOUS
  <2> HIDE DEF e
  <2>8. Booked'
    <3> SUFFICES ASSUME NEW d \in Channels, NEW t \in Range(facts'[d].pending)
                 PROVE  \E b \in Counted' : b.paced /\ b.channel = d /\ b.at = t
      BY DEF Booked
    <3>1. \E b \in Budget!Live : b.paced /\ b.channel = d /\ b.at = t
      BY <2>6, PruneSafe
    <3> QED
      BY <2>3, <3>1
  <2>9. x \in Counted' /\ x.at = now /\ ~x.paced
    BY <2>3, <2>4, <2>7
  <2>10. Sent(x)'
    BY <2>9 DEF Sent
  <2>11. \A k \in Lately : h[k] # x
    <3> TAKE k \in Lately
    <3>1. h[k].n < made /\ h[k].n \in Nat /\ made \in Nat
      BY <1>0, <1>3 DEF BInv, Budget!TypeOK, Budget!Entry
    <3> QED
      BY <2>4, <2>7, <3>1
  <2>12. ASSUME NEW k \in Lately PROVE h[k] \in Counted' /\ Sent(h[k])'
    <3>1. Range(facts'[h[k].channel].pending) \subseteq Range(facts[h[k].channel].pending)
      BY <1>3, <2>6
    <3> QED
      BY <1>3, <2>3, <3>1 DEF Sent
  <2>13. x.at \in Nat /\ x.at <= now + ClaimAhead /\ now - x.at <= PendingSpan
    BY <1>0, <2>9, LimiterAssumption
  <2>14. \E k : Matched(k)'
    BY <1>1, <1>2, <2>9, <2>10, <2>11, <2>12, <2>13, MatchGrows
  <2> QED
    BY <1>0, <2>8, <2>14 DEF CInv
<1> QED
  BY <1>5, <1>6 DEF RecordSent

LEMMA CoverInit == Init => CInv
<1> SUFFICES ASSUME Init PROVE CInv
  OBVIOUS
<1>1. LInv /\ BInv
  BY InitKept, InvInit
<1>2. \A c \in Channels : Range(facts[c].pending) = {}
  BY DEF Init, NoFacts, Range
<1>3. Booked
  BY <1>2 DEF Booked
<1>4. Lately = {}
  BY DEF Init, Lately
<1>5. Matched([i \in {} |-> i])
  BY <1>4 DEF Matched, IsInjective
<1> QED
  BY <1>1, <1>3, <1>5 DEF CInv

LEMMA CoverNext == CInv /\ [Next]_vars => CInv'
<1> SUFFICES ASSUME CInv, [Next]_vars PROVE CInv'
  OBVIOUS
<1>0. LInv /\ LInv' /\ BInv' /\ now \in Nat /\ facts \in [Channels -> Facts]
  BY PromiseKept, CountedIs DEF CInv, LInv
<1>1. CASE Tick
  <2>1. now' = now + 1 /\ UNCHANGED <<sends, facts, delivered>>
    BY <1>1 DEF Tick, limiter
  <2> QED
    BY <1>0, <2>1, SameCovered
<1>2. ASSUME NEW j \in Jobs, NEW c \in Channels, NEW text \in Lines, Acquire(j, c, text)
      PROVE  CInv'
  BY <1>2, AcquireCovered
<1>3. ASSUME NEW j \in Jobs, SendPaced(j) PROVE CInv'
  <2>1. jobs[j].channel \in Channels /\ jobs[j].text \in Lines
    BY <1>0, <1>3 DEF SendPaced, LInv, Sleeping
  <2> QED
    BY <1>3, <2>1, RecordCovered DEF SendPaced
<1>4. ASSUME NEW j \in Jobs, SendDropped(j) PROVE CInv'
  <2>1. UNCHANGED <<now, sends, facts, delivered>>
    BY <1>4 DEF SendDropped, limiter
  <2> QED
    BY <1>0, <2>1, SameCovered
<1>5. ASSUME NEW c \in Channels, NEW text \in Lines, SendTyped(c, text) PROVE CInv'
  BY <1>5, RecordCovered DEF SendTyped
<1>6. CASE AskBudget \/ \E c \in Channels, text \in Lines : AcquireRefused(c, text)
  BY <1>6, PrunedCovered DEF AskBudget, AcquireRefused
<1>7. ASSUME NEW c \in Channels, NEW role \in Roles, NoteOwnBadges(c, role) PROVE CInv'
  <2>1. \A d \in Channels : facts'[d].pending = facts[d].pending
    BY <1>0, <1>7 DEF NoteOwnBadges, Facts
  <2> QED
    BY <1>0, <1>7, <2>1, SameCovered DEF NoteOwnBadges
<1>8. ASSUME NEW c \in Channels, NEW modes \in RoomModes, NoteRoomState(c, modes)
      PROVE  CInv'
  <2>1. \A d \in Channels : facts'[d].pending = facts[d].pending
    BY <1>0, <1>8 DEF NoteRoomState, Facts
  <2> QED
    BY <1>0, <1>8, <2>1, SameCovered DEF NoteRoomState
<1>9. CASE ResetAccount
  <2>1. /\ sends' = <<>> /\ facts' = [c \in Channels |-> NoFacts] /\ delivered' = <<>>
    BY <1>9 DEF ResetAccount
  <2>2. Booked'
    BY <2>1 DEF Booked, NoFacts, Range
  <2>3. Lately' = {}
    BY <2>1 DEF Lately
  <2>4. Matched([i \in {} |-> i])'
    BY <2>3 DEF Matched, IsInjective
  <2> QED
    BY <1>0, <2>2, <2>4 DEF CInv
<1>10. CASE UNCHANGED vars
  <2>1. UNCHANGED <<now, sends, facts, delivered>>
    BY <1>10 DEF vars
  <2> QED
    BY <1>0, <2>1, SameCovered
<1> QED
  BY <1>1, <1>2, <1>3, <1>4, <1>5, <1>6, <1>7, <1>8, <1>9, <1>10 DEF Next

\* As many messages count as went out lately.
LEMMA CoverCounts == CInv => SendsCovered
<1> SUFFICES ASSUME CInv PROVE SendsCovered
  OBVIOUS
<1> DEFINE C == {i \in DOMAIN sends : /\ sends[i].at <= now + ClaimAhead
                                      /\ now - sends[i].at < Window}
<1>1. PICK f : Matched(f)
  BY DEF CInv
<1> DEFINE g == [i \in Lately |-> CHOOSE k \in DOMAIN sends : sends[k] = f[i]]
<1>2. ASSUME NEW i \in Lately PROVE g[i] \in C /\ sends[g[i]] = f[i]
  <2>1. /\ f[i] \in Counted /\ delivered[i] <= now /\ f[i].at <= delivered[i] + ClaimAhead
        /\ f[i] \in Budget!Live
    BY <1>1, PruneSafe DEF Matched
  <2>2. \E k \in DOMAIN sends : sends[k] = f[i]
    BY <2>1 DEF Counted, Range
  <2>3. g[i] \in DOMAIN sends /\ sends[g[i]] = f[i]
    BY <2>2
  <2>4. now \in Nat /\ f[i].at \in Nat /\ delivered[i] \in Nat
    BY <2>1, CountedIs DEF CInv, Lately
  <2>5. f[i].at <= now + ClaimAhead
    BY <2>1, <2>4, LimiterAssumption
  <2>6. now - f[i].at < Window
    BY <2>1 DEF Budget!Live
  <2> QED
    BY <2>3, <2>5, <2>6
<1> HIDE DEF C
<1>3. g \in [Lately -> C]
  BY <1>2
<1> HIDE DEF g
<1>4. IsInjective(g)
  BY <1>1, <1>2, <1>3 DEF IsInjective, Matched
<1>5. g \in Injection(Lately, C)
  BY <1>3, <1>4 DEF Injection
<1>6. IsFiniteSet(C)
  <2>1. Good(sends)
    BY DEF CInv, LInv
  <2>2. IsFiniteSet(DOMAIN sends)
    BY <2>1, GoodRange, FS_Interval
  <2> QED
    BY <2>2, FS_Subset DEF C
<1>7. Cardinality(Lately) <= Cardinality(C)
  BY <1>5, <1>6, FS_Injection
<1> QED
  BY <1>7 DEF SendsCovered, C

-----------------------------------------------------------------------------
(* The theorems *)

\* Every variable keeps its type; the queue stays ordered by instant through
\* `insert_send` and `prune`, and slots of one channel wait in order.
THEOREM TypeCorrect == Spec => []TypeOK
<1>1. LInv => TypeOK
  <2> SUFFICES ASSUME LInv PROVE TypeOK
    OBVIOUS
  <2>1. ASSUME NEW i \in DOMAIN sends
        PROVE  /\ sends[i].at \in Nat
               /\ sends[i].limit \in {ViewerPerWindow, PrivilegedPerWindow}
               /\ i > 1 => sends[i - 1].at <= sends[i].at
    <3>0. Good(sends)
      BY DEF LInv
    <3>1. /\ sends[i] \in Message /\ sends[i].at \in Nat
          /\ DOMAIN sends = 1..Len(sends) /\ Len(sends) \in Nat
      BY <3>0, GoodRange
    <3>2. sends[i].limit \in Limits
      BY <3>1 DEF Message
    <3>3. i > 1 => i - 1 \in DOMAIN sends /\ i - 1 < i
      BY <3>1
    <3> QED
      BY <3>0, <3>1, <3>2, <3>3 DEF Good, Sorted, Limits
  <2>2. ASSUME NEW c \in Channels
        PROVE  /\ facts[c].role \in Roles \cup {None}
               /\ facts[c].lastSlot \in Nat \cup {None}
               /\ facts[c].modes \in RoomModes \cup {NoModes}
               /\ \A i \in DOMAIN facts[c].pending :
                     i > 1 => facts[c].pending[i - 1] < facts[c].pending[i]
    <3>1. facts[c] \in Facts /\ Rising(facts[c].pending)
      BY DEF LInv, Fine
    <3>2. DOMAIN facts[c].pending = 1..Len(facts[c].pending) /\ Len(facts[c].pending) \in Nat
      BY <3>1, Shape
    <3>3. \A i \in DOMAIN facts[c].pending :
             i > 1 => i - 1 \in DOMAIN facts[c].pending /\ i - 1 < i
      BY <3>2
    <3>4. \A i \in DOMAIN facts[c].pending :
             i > 1 => facts[c].pending[i - 1] < facts[c].pending[i]
      BY <3>1, <3>2, <3>3 DEF Rising
    <3> QED
      BY <3>1, <3>4, Shape
  <2> QED
    BY <2>1, <2>2 DEF TypeOK, LInv
<1> QED
  BY <1>1, TypesKept, PTL

\* Every function of the limiter does what SendBudget says it may, or nothing
\* there: a slot `earliest` gives fits every window it enters, for each channel,
\* role and room mode, however long the queue (`earliest`, `insert_send`,
\* `prune`, `book`, `record`).
THEOREM KeepsBudget == Spec => ImplementsBudget
<1>1. LInv /\ [Next]_vars => [Budget!Next]_(Budget!vars)
  BY StepKept DEF Kin
<1> QED
  BY <1>1, InitKept, TypesKept, PTL DEF Spec, ImplementsBudget, Budget!Spec

\* No booking overfills a window, its own or one that ends at a message booked
\* before it, in whatever order the channels' bookings are made.
THEOREM NeverOverfills == Spec => []WithinBudget
<1>1. BInv => WithinBudget
  BY DEF BInv, WithinBudget
<1> QED
  BY <1>1, KeepsBudget, Invariance, PTL DEF ImplementsBudget

\* A paced message keeps its channel's spacing to all that was booked or
\* counted there before, so no booking overtakes another of its channel.
THEOREM NeverTooSoon == Spec => []Budget!Spaced
<1>1. BInv => Budget!Spaced
  BY DEF BInv
<1> QED
  BY <1>1, KeepsBudget, Invariance, PTL DEF ImplementsBudget

\* The loop of `earliest` passes over no instant at which the message could go,
\* so the slot is the first free one: nothing waits longer than it has to.
THEOREM NothingWaitsInVain == Spec => []NoNeedlessWait
<1>1. LInv => NoNeedlessWait
  <2> SUFFICES ASSUME LInv, NEW c \in Channels,
                      NEW at \in now..(Earliest(c, Primary) - 1), Free(c, at)
               PROVE  FALSE
    BY DEF NoNeedlessWait
  <2> DEFINE limit == PerWindow(c, Primary)
             start == Start(c, Primary)
  <2>1. /\ limit \in Limits /\ Spacing(c, Primary) \in Nat /\ now \in Nat
        /\ facts[c].lastSlot \in Nat \cup {None}
    BY RoleIs, Shape DEF LInv
  <2>2. Earliest(c, Primary) \in Nat
    BY EarliestIs
  <2>3. at \in Nat /\ now <= at /\ at < Earliest(c, Primary)
    BY <2>1, <2>2
  <2>4. start \in Nat /\ start <= at
    BY <2>1, <2>3 DEF Free, Start, Later
  <2>5. Open(Kept, limit, at)
    BY DEF Free, Open
  <2>6. Good(Kept) /\ Earliest(c, Primary) = Settle(Kept, limit)[start]
    BY KeptTyped DEF Earliest
  <2> HIDE DEF limit, start
  <2>7. Settle(Kept, limit)[start] <= at
    <3>1. /\ Good(Kept) /\ limit \in Limits /\ start \in Nat /\ at \in Nat
          /\ start <= at /\ Open(Kept, limit, at)
      BY <2>1, <2>3, <2>4, <2>5, <2>6
    <3> QED
      BY <3>1, SettlesSoon, Zenon
  <2> QED
    BY <2>2, <2>3, <2>6, <2>7
<1> QED
  BY <1>1, TypesKept, PTL

\* Every message that went out in the last WINDOW, less the time a slot can be
\* claimed late, is matched by a message of its own that the limiter counts:
\* a send claims the slot it was booked on or is counted when it goes out, and
\* `prune` gives a slot up only once no send can claim it (`record`, `prune`).
THEOREM NothingGoesUncounted == Spec => []SendsCovered
BY CoverInit, CoverNext, CoverCounts, PTL DEF Spec

=============================================================================
