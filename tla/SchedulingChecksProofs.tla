----------------------- MODULE SchedulingChecksProofs -----------------------
(***************************************************************************)
(* What the documentation asks of the scheduler, for every curriculum,     *)
(* every batch size, every review state and day, and every group size.     *)
(***************************************************************************)
EXTENDS SchedulingChecks, SchedulingProofs

(* The questions the module asks, and that an answer does not change.      *)
Asked ==
    /\ enabled \subseteq Packs
    /\ Dated(review)
    /\ \A u \in DOMAIN review : review[u].due \in Nat \cup {Never}
    /\ tie \in Ties
    /\ split \in [count : Nat, high : Nat \ {0}]
    /\ batch = GenerateBatch(enabled, review, Today, tie)
    /\ chunks = Chunks(Members, split.high, [x \in Members |-> <<x>>])

\* A behaviour begins with a question and its answer.
LEMMA AskedInit == Init => Asked
<1> SUFFICES ASSUME Init PROVE Asked
  OBVIOUS
<1>1. tie \in Ties
  BY OrdersAreTies DEF Init, AskBatch, AskChunks
<1>2. CASE AskBatch
  <2>1. PICK S \in SUBSET Units : review \in [S -> {Introduced} \cup Practised]
    BY <1>2 DEF AskBatch
  <2>2. \A s \in {Introduced} \cup Practised : s.due \in Nat \cup {Never} /\ s.due \in Int
    BY ChecksAssumption DEF Introduced, Practised, Never
  <2>3. /\ DOMAIN review \subseteq Units
        /\ \A u \in DOMAIN review : review[u].due \in Nat \cup {Never} /\ review[u].due \in Int
    BY <2>1, <2>2
  <2>4. split \in [count : Nat, high : Nat \ {0}] /\ enabled \subseteq Packs
    BY <1>2 DEF AskBatch
  <2> QED BY <1>1, <2>3, <2>4 DEF Init, Asked, Dated
<1>3. CASE AskChunks
  <2>1. DOMAIN review = {} /\ enabled = {}
    BY <1>3 DEF AskChunks
  <2>2. split \in [count : Nat, high : Nat \ {0}]
    BY <1>3, ChecksAssumption DEF AskChunks
  <2> QED BY <1>1, <2>1, <2>2 DEF Init, Asked, Dated
<1> QED BY <1>2, <1>3 DEF Init

\* The question stands.
LEMMA AskedStep == Asked /\ [Next]_<<inputs, batch, chunks>> => Asked'
BY DEF Asked, Next, inputs, Members

\* What is checked is what generate_batch and _split answer to an input that
\* the path service can give them.
THEOREM QuestionsStand == Spec => []Asked
BY AskedInit, AskedStep, PTL DEF Spec

-----------------------------------------------------------------------------
(* The module's words for what is due and unseen are those of the lemmas.  *)
LEMMA SameWords ==
    ASSUME Asked
    PROVE  /\ Due = DueIn(enabled, review, Today)
           /\ Unseen = UnseenIn(enabled, review)
           /\ \A u : Alone(u) <=> Unpaired(u, Unseen)
           /\ Due \subseteq DOMAIN review
<1>1. \A u \in DOMAIN review :
        review[u].due \in 0 .. Today <=> IsDue(review[u], Today)
  BY ChecksAssumption DEF Asked, IsDue, Never
<1> QED BY <1>1 DEF Due, DueIn, KnownIn, Unseen, UnseenIn, Alone, Unpaired

\* The candidates, and their keys, for the question asked.
Offered == Candidates(enabled, review, Today)
Reviewed == Source(enabled, review, Today)
Order == CandidateKey(enabled, review, Today, tie)

\* A batch is the first of its candidates in the order of their keys.
LEMMA BatchFacts ==
    ASSUME Asked
    PROVE  /\ PrefixOf(batch, Offered, Order)
           /\ Keyed(Offered, 8, Order)
           /\ Reviewed \subseteq DOMAIN review
           /\ \A i \in Offered : Order[i] = IF i.kind = "new" THEN NewItemKey(i)
                                            ELSE ReviewItemKey(i, Reviewed, review, tie)
           /\ Apart(Offered, enabled, Reviewed, Due, Unseen)
<1>1. /\ enabled \subseteq Packs /\ Dated(review) /\ tie \in Ties
      /\ batch = GenerateBatch(enabled, review, Today, tie)
  BY DEF Asked
<1>2. PrefixOf(batch, Offered, Order)
  BY <1>1, BatchIsPrefixOf DEF Offered, Order
<1>3. Keyed(Offered, 8, Order)
  BY <1>1, CandidatesKeyed DEF Offered, Order
<1>4. Reviewed \subseteq DOMAIN review
  BY DEF Reviewed, Source, KnownIn, DueIn
<1>5. \A i \in Offered : Order[i] = IF i.kind = "new" THEN NewItemKey(i)
                                    ELSE ReviewItemKey(i, Reviewed, review, tie)
  BY DEF CandidateKey, Offered, Order, Reviewed
<1>6. Apart(Offered, enabled, Reviewed, Due, Unseen)
  BY <1>1, CandidatesFacts, SameWords DEF Offered, Reviewed
<1> QED BY <1>2, <1>3, <1>4, <1>5, <1>6

(* A batch has legitimate items only, and not too many.                    *)
LEMMA SoundWhenAsked == Asked => BatchIsSound
<1> SUFFICES ASSUME Asked PROVE Cardinality(batch) <= BatchSize /\ ItemsLegitimate
  BY DEF BatchIsSound
<1>1. PrefixOf(batch, Offered, Order) /\ Apart(Offered, enabled, Reviewed, Due, Unseen)
  BY BatchFacts
<1>2. Cardinality(batch) <= BatchSize
  BY <1>1 DEF PrefixOf
<1>3. /\ Reviewed \subseteq Units /\ Unseen \subseteq Units
      /\ \A u : Alone(u) <=> Unpaired(u, Unseen)
  <2>1. Reviewed \subseteq Units
    BY BatchFacts DEF Asked, Dated
  <2>2. Unseen \subseteq Units
    BY UnitFields DEF Asked, Unseen
  <2> QED BY <2>1, <2>2, SameWords
<1>4. \A s \in Specs : s \in Offered
  BY <1>1 DEF PrefixOf, Specs
<1>5. ASSUME NEW s \in Specs
      PROVE  /\ s.pack \in enabled
             /\ s.units # {}
             /\ s.units \subseteq GroupOf(Units, s.pack, s.activity)
             /\ Cardinality(s.units) <= MaxMembers[s.activity]
             /\ s.kind = "new" => s.units \subseteq Unseen
             /\ s.kind = "review" /\ (Due # {} \/ \E u \in Unseen : ~Alone(u))
                  => s.units \subseteq Due
  <2>1. s.pack \in enabled /\ Proper(s, Reviewed, Unseen)
    BY <1>1, <1>4 DEF Apart
  <2>2. \A S : GroupOf(S, s.pack, s.activity) \subseteq S
    BY DEF GroupOf
  <2>3. \A S \in SUBSET Units :
          GroupOf(S, s.pack, s.activity) \subseteq GroupOf(Units, s.pack, s.activity)
    BY DEF GroupOf
  <2>4. ASSUME NEW S \in SUBSET Units, ItemOver(s, S)
        PROVE  /\ s.units # {} /\ s.units \subseteq S
               /\ s.units \subseteq GroupOf(Units, s.pack, s.activity)
               /\ Cardinality(s.units) <= MaxMembers[s.activity]
    <3>1. s.activity \in Activities /\ Cardinality(s.units) \in 1 .. MaxMembers[s.activity]
      BY <2>4 DEF ItemOver
    <3> QED BY <2>2, <2>3, <2>4, <3>1 DEF ItemOver
  <2>5. Due # {} \/ (\E u \in Unseen : ~Alone(u)) => Reviewed = Due
    BY <1>1, <1>3 DEF Apart
  <2>6. CASE s.kind = "review" /\ ItemOver(s, Reviewed)
    BY <1>3, <2>1, <2>4, <2>5, <2>6
  <2>7. CASE s.kind = "new" /\ ItemOver(s, Unseen)
    BY <1>3, <2>1, <2>4, <2>7
  <2> QED BY <2>1, <2>6, <2>7 DEF Proper
<1> QED BY <1>2, <1>5 DEF ItemsLegitimate

(* A batch is of legitimate items, BatchSize at most, whatever the          *)
(* curriculum, the review states, the day and the order of ties.           *)
THEOREM BatchIsAlwaysSound == Spec => []BatchIsSound
BY QuestionsStand, SoundWhenAsked, PTL

(* Room to spare means that nothing due and nothing to learn is left out,   *)
(* no unit is in two items, and a curriculum with a unit has an item.      *)
LEMMA CompleteWhenAsked == Asked => NothingLeftOut
<1> SUFFICES ASSUME Asked PROVE NothingLeftOut
  OBVIOUS
<1>1. PrefixOf(batch, Offered, Order) /\ Apart(Offered, enabled, Reviewed, Due, Unseen)
  BY BatchFacts
<1>2. \A u : Alone(u) <=> Unpaired(u, Unseen)
  BY SameWords
<1>3. \A s \in Specs : s \in Offered
  BY <1>1 DEF PrefixOf, Specs
<1>4. ASSUME Cardinality(batch) < BatchSize,
             NEW u \in Due \cup {v \in Unseen : ~Alone(v)}
      PROVE  u \in UNION {s.units : s \in Specs}
  <2>1. PICK i \in Offered : u \in i.units
    BY <1>1, <1>2 DEF Apart
  <2>2. i \in Specs
    BY <1>1, <1>4 DEF PrefixOf, Specs
  <2> QED BY <2>1, <2>2
<1>5. \A s, t \in Specs : s # t => s.units \cap t.units = {}
  BY <1>1, <1>3 DEF Apart
<1>6. ASSUME batch = {}, NEW p \in enabled PROVE UnitsOf(p) = {}
  <2>1. Candidates(enabled, review, Today) = {}
    BY <1>1, <1>6 DEF PrefixOf, Offered
  <2> QED BY <2>1, NoCandidateNoUnit DEF Asked
<1> QED BY <1>4, <1>5, <1>6 DEF NothingLeftOut

\* A batch with room to spare leaves out no due unit and no unseen one but a
\* character with none to pair, has no unit twice, and is empty only if there is
\* nothing to learn (generate_batch and its fallback to early reviews).
THEOREM NothingIsLeftOut == Spec => []NothingLeftOut
BY QuestionsStand, CompleteWhenAsked, PTL

-----------------------------------------------------------------------------
(* The order of the batch.                                                 *)

(* The key of a review of due units begins with the earliest due day.      *)
LEMMA DueLeads ==
    ASSUME Asked, NEW i, ItemOver(i, Due)
    PROVE  LET lead == FirstKey(i.units, review)
           IN  lead[1] = 0 /\ lead[2] = EarliestDue(i)
<1> DEFINE day == [u \in i.units |-> review[u].due]
           days == {day[u] : u \in i.units}
<1>1. /\ Dated(review) /\ Due \subseteq DOMAIN review
      /\ \A u \in Due : review[u].due \in Int /\ review[u].due # Never
  BY SameWords, ChecksAssumption DEF Asked, Due, Never
<1>2. IsFiniteSet(i.units) /\ i.units \subseteq Due
  BY DEF ItemOver, GroupOf
<1>3. PICK u \in i.units :
        /\ FirstKey(i.units, review) = DueKey(review, u)
        /\ \A v \in i.units \ {u} : LexLess(DueKey(review, u), DueKey(review, v))
  BY <1>1, FirstKeyFacts
<1>4. \A v \in i.units : /\ DueKey(review, v) \in Key(3)
                         /\ DueKey(review, v)[1] = 0
                         /\ DueKey(review, v)[2] = review[v].due
  BY <1>1, <1>2, DueKeyType
<1>5. \A v \in i.units : review[u].due <= review[v].due
  <2> TAKE v \in i.units
  <2>1. CASE v = u
    BY <1>1, <1>2, <2>1
  <2>2. CASE v # u
    <3>1. LexLess(DueKey(review, u), DueKey(review, v))
      BY <1>3, <2>2
    <3>2. \A j \in 1 .. 2 - 1 : DueKey(review, u)[j] = DueKey(review, v)[j]
      BY <1>4
    <3>3. 3 \in Nat /\ 2 \in 1 .. 3
      OBVIOUS
    <3>4. DueKey(review, u)[2] <= DueKey(review, v)[2]
      BY <1>4, <3>1, <3>2, <3>3, LexPrefix
    <3> QED BY <1>4, <3>4
  <2> QED BY <2>1, <2>2
<1>6. Min(days) = review[u].due
  <2>1. days \subseteq Int
    BY <1>1, <1>2
  <2>2. IsFiniteSet(days)
    <3> HIDE DEF day
    <3> QED BY <1>2, ImageOfFinite
  <2>3. review[u].due \in days /\ \A d \in days : review[u].due <= d
    BY <1>5
  <2> HIDE DEF days
  <2>4. Min(days) \in days /\ \A d \in days : Min(days) <= d
    BY <2>1, <2>2, <2>3, MinOfFinite
  <2>5. Min(days) \in Int /\ review[u].due \in Int
    BY <2>1, <2>3, <2>4
  <2>6. Min(days) <= review[u].due /\ review[u].due <= Min(days)
    BY <2>3, <2>4
  <2> QED BY <2>5, <2>6
<1>7. days = {review[v].due : v \in i.units}
  OBVIOUS
<1>8. EarliestDue(i) = review[u].due
  BY <1>6, <1>7 DEF EarliestDue
<1> QED BY <1>3, <1>4, <1>8

\* The order of the keys is the order that is promised.
LEMMA OrderWhenAsked == Asked => BatchOrder
<1> SUFFICES ASSUME Asked, NEW b \in batch, NEW c \in batch, b.offset < c.offset
             PROVE  /\ c.spec.kind = "review" => b.spec.kind = "review"
                    /\ b.spec.kind = "review" /\ c.spec.kind = "review" /\ Due # {} =>
                         EarliestDue(b.spec) <= EarliestDue(c.spec)
                    /\ b.spec.kind = "new" /\ c.spec.kind = "new" =>
                         \A u \in b.spec.units, v \in c.spec.units :
                            \/ u.pack < v.pack
                            \/ /\ u.pack = v.pack
                               /\ \/ ActivityOrder[u.activity] < ActivityOrder[v.activity]
                                  \/ u.activity = v.activity /\ u.ref < v.ref
  BY DEF BatchOrder
<1> DEFINE i == b.spec
           j == c.spec
           s == Order[i]
           t == Order[j]
<1>1. /\ PrefixOf(batch, Offered, Order) /\ Apart(Offered, enabled, Reviewed, Due, Unseen)
      /\ Keyed(Offered, 8, Order)
      /\ Reviewed \subseteq DOMAIN review /\ Dated(review) /\ tie \in Ties
      /\ \A k \in Offered : Order[k] = IF k.kind = "new" THEN NewItemKey(k)
                                       ELSE ReviewItemKey(k, Reviewed, review, tie)
  BY BatchFacts DEF Asked
<1>2. /\ i \in Offered /\ j \in Offered /\ LexLess(s, t)
      /\ Proper(i, Reviewed, Unseen) /\ Proper(j, Reviewed, Unseen)
  BY <1>1 DEF PrefixOf, Apart
<1>3. i # j
  <2>1. b.offset \in Nat /\ (b.spec = c.spec => b = c)
    BY <1>1 DEF PrefixOf
  <2> QED BY <2>1
<1>4. s \in Key(8) /\ t \in Key(8)
  BY <1>1, <1>2 DEF Keyed
<1>5. Reviewed \subseteq Units /\ Unseen \subseteq Units /\ 8 \in Nat
  <2>1. Unseen \subseteq Units
    BY UnitFields DEF Asked, Unseen
  <2> QED BY <1>1, <2>1 DEF Dated
<1>6. ASSUME NEW k \in Offered, Proper(k, Reviewed, Unseen), k.kind = "new"
      PROVE  /\ Order[k] = NewItemKey(k) /\ ItemOver(k, Unseen)
             /\ Order[k][1] = 1 /\ Order[k][2] = k.pack
             /\ Order[k][3] = ActivityOrder[k.activity] /\ Order[k][4] = Foremost(k)
             /\ \E u \in k.units : u.ref = Foremost(k)
             /\ \A u \in k.units : u.ref \in Nat /\ u.ref >= Foremost(k)
             /\ \A u \in k.units : u.pack = k.pack /\ u.activity = k.activity
             /\ k.pack \in Nat /\ ActivityOrder[k.activity] \in 1 .. 3
  <2>1. Order[k] = NewItemKey(k) /\ ItemOver(k, Unseen)
    BY <1>1, <1>6 DEF Proper
  <2>2. \A u \in k.units : u.pack = k.pack /\ u.activity = k.activity
    BY <2>1 DEF ItemOver, GroupOf
  <2>3. k.pack \in Nat
    BY <2>1, PacksAreNumbers DEF ItemOver
  <2> QED BY <1>5, <2>1, <2>2, <2>3, NewItemKeyFacts
<1>7. ASSUME NEW k \in Offered, Proper(k, Reviewed, Unseen), k.kind = "review"
      PROVE  /\ ItemOver(k, Reviewed) /\ Order[k][1] = 0
             /\ Order[k][2] = FirstKey(k.units, review)[1]
             /\ Order[k][3] = FirstKey(k.units, review)[2]
  <2>1. Order[k] = ReviewItemKey(k, Reviewed, review, tie) /\ ItemOver(k, Reviewed)
    BY <1>1, <1>7 DEF Proper
  <2> QED BY <1>1, <2>1, ReviewItemKeyFacts
<1>8. (i.kind = "new" \/ i.kind = "review") /\ (j.kind = "new" \/ j.kind = "review")
  BY <1>2 DEF Proper
<1> HIDE DEF i, j, s, t
<1>9. ASSUME j.kind = "review", i.kind = "new" PROVE FALSE
  <2>1. s[1] = 1 /\ t[1] = 0
    BY <1>2, <1>6, <1>7, <1>9 DEF s, t
  <2>2. \A l \in 1 .. 1 - 1 : s[l] = t[l]
    OBVIOUS
  <2>3. 1 \in 1 .. 8
    OBVIOUS
  <2>4. s[1] <= t[1]
    BY <1>2, <1>4, <1>5, <2>2, <2>3, LexPrefix
  <2> QED BY <2>1, <2>4
<1>10. ASSUME i.kind = "review", j.kind = "review", Due # {}
       PROVE  EarliestDue(i) <= EarliestDue(j)
  <2>1. Reviewed = Due
    BY <1>1, <1>10 DEF Apart
  <2>2. /\ s[1] = 0 /\ s[2] = 0 /\ s[3] = EarliestDue(i)
        /\ t[1] = 0 /\ t[2] = 0 /\ t[3] = EarliestDue(j)
    BY <1>2, <1>7, <1>10, <2>1, DueLeads DEF s, t
  <2>3. \A l \in 1 .. 3 - 1 : s[l] = t[l]
    BY <2>2
  <2>4. 3 \in 1 .. 8
    OBVIOUS
  <2>5. s[3] <= t[3]
    BY <1>2, <1>4, <1>5, <2>3, <2>4, LexPrefix
  <2> QED BY <2>2, <2>5
<1>11. ASSUME i.kind = "new", j.kind = "new", NEW u \in i.units, NEW v \in j.units
       PROVE  \/ u.pack < v.pack
              \/ /\ u.pack = v.pack
                 /\ \/ ActivityOrder[u.activity] < ActivityOrder[v.activity]
                    \/ u.activity = v.activity /\ u.ref < v.ref
  <2>1. /\ s[1] = 1 /\ s[2] = i.pack /\ s[3] = ActivityOrder[i.activity] /\ s[4] = Foremost(i)
        /\ i.pack \in Nat /\ ActivityOrder[i.activity] \in 1 .. 3
        /\ u.pack = i.pack /\ u.activity = i.activity
    BY <1>2, <1>6, <1>11 DEF s
  <2>2. /\ t[1] = 1 /\ t[2] = j.pack /\ t[3] = ActivityOrder[j.activity] /\ t[4] = Foremost(j)
        /\ j.pack \in Nat /\ ActivityOrder[j.activity] \in 1 .. 3
        /\ v.pack = j.pack /\ v.activity = j.activity
    BY <1>2, <1>6, <1>11 DEF t
  <2>3. s[2] <= t[2]
    <3>1. \A l \in 1 .. 2 - 1 : s[l] = t[l]
      BY <2>1, <2>2
    <3>2. 2 \in 1 .. 8
      OBVIOUS
    <3> QED BY <1>2, <1>4, <1>5, <3>1, <3>2, LexPrefix
  <2>4. i.pack = j.pack => s[3] <= t[3]
    <3> HAVE i.pack = j.pack
    <3>1. \A l \in 1 .. 3 - 1 : s[l] = t[l]
      <4>1. \A l \in 1 .. 3 - 1 : l = 1 \/ l = 2
        OBVIOUS
      <4> QED BY <2>1, <2>2, <4>1
    <3>2. 3 \in 1 .. 8
      OBVIOUS
    <3> QED BY <1>2, <1>4, <1>5, <3>1, <3>2, LexPrefix
  <2>5. ASSUME i.pack = j.pack, ActivityOrder[i.activity] = ActivityOrder[j.activity]
        PROVE  i.activity = j.activity /\ u.ref < v.ref
    <3>1. s[4] <= t[4]
      <4>1. \A l \in 1 .. 4 - 1 : s[l] = t[l]
        <5>1. \A l \in 1 .. 4 - 1 : l = 1 \/ l = 2 \/ l = 3
          OBVIOUS
        <5> QED BY <2>1, <2>2, <2>5, <5>1
      <4>2. 4 \in 1 .. 8
        OBVIOUS
      <4> QED BY <1>2, <1>4, <1>5, <4>1, <4>2, LexPrefix
    <3>2. i.activity = j.activity
      <4>1. i.activity \in Activities /\ j.activity \in Activities
        BY <1>2, <1>6, <1>11 DEF ItemOver
      <4> QED BY <2>5, <4>1 DEF ActivityOrder, Activities
    <3>3. \/ \A x \in i.units, y \in j.units : x.ref < y.ref
          \/ \A x \in i.units, y \in j.units : y.ref < x.ref
      BY <1>1, <1>2, <1>3, <1>11, <2>5, <3>2 DEF Apart, i, j
    <3>4. PICK x \in i.units : x.ref = Foremost(i) /\ x.ref \in Nat
      BY <1>2, <1>6, <1>11
    <3>5. PICK y \in j.units : y.ref = Foremost(j) /\ y.ref \in Nat
      BY <1>2, <1>6, <1>11
    <3>6. x.ref <= y.ref
      BY <2>1, <2>2, <3>1, <3>4, <3>5
    <3>7. ~(y.ref < x.ref)
      BY <3>4, <3>5, <3>6
    <3> QED BY <3>2, <3>3, <3>7
  <2>6. CASE i.pack = j.pack /\ ActivityOrder[i.activity] = ActivityOrder[j.activity]
    BY <2>1, <2>2, <2>5, <2>6
  <2>7. CASE i.pack = j.pack /\ ActivityOrder[i.activity] # ActivityOrder[j.activity]
    BY <2>1, <2>2, <2>4, <2>7
  <2>8. CASE i.pack # j.pack
    BY <2>1, <2>2, <2>3, <2>8
  <2> QED BY <2>6, <2>7, <2>8
<1> QED BY <1>8, <1>9, <1>10, <1>11 DEF i, j

(* Reviews first, the longest due first; then new material in curriculum    *)
(* order.                                                                  *)
THEOREM BatchIsOrdered == Spec => []BatchOrder
BY QuestionsStand, OrderWhenAsked, PTL

-----------------------------------------------------------------------------
(* Splitting a group of numbered members.                                  *)

ByNumber(n) == [x \in 1 .. n |-> <<x>>]

\* The k-th chunk, from 0, of n members.
Run(n, high, k) == ChunkStart(n, high, k) + 1 .. ChunkStart(n, high, k + 1)

\* How many numbers there are up to n.
LEMMA CountUpTo ==
    ASSUME NEW n \in Nat
    PROVE  IsFiniteSet(1 .. n) /\ Cardinality(1 .. n) = n
<1>1. 1 \in Int /\ n \in Int /\ (1 > n => n = 0)
  OBVIOUS
<1>2. IsFiniteSet(1 .. n) /\ Cardinality(1 .. n) = IF 1 > n THEN 0 ELSE n - 1 + 1
  BY <1>1, FS_Interval, Zenon
<1> QED BY <1>1, <1>2

\* Numbers in their order: each has its predecessor as its index.
LEMMA NumbersKeyed ==
    ASSUME NEW n \in Nat
    PROVE  /\ Keyed(1 .. n, 1, ByNumber(n))
           /\ \A x \in 1 .. n : IndexIn(1 .. n, x, ByNumber(n)) = x - 1
<1>1. \A x \in 1 .. n : ByNumber(n)[x] = <<x>> /\ ByNumber(n)[x] \in Key(1)
  BY DEF ByNumber, Key
<1>2. \A x, y \in 1 .. n : ByNumber(n)[x] = ByNumber(n)[y] => x = y
  BY <1>1
<1>3. ASSUME NEW x \in 1 .. n PROVE IndexIn(1 .. n, x, ByNumber(n)) = x - 1
  <2>1. \A y \in 1 .. n : LexLess(ByNumber(n)[y], ByNumber(n)[x]) <=> y < x
    BY <1>1 DEF LexLess
  <2>2. {y \in 1 .. n : LexLess(ByNumber(n)[y], ByNumber(n)[x])} = 1 .. x - 1
    BY <2>1
  <2>3. x - 1 \in Nat
    OBVIOUS
  <2> QED BY <2>2, <2>3, CountUpTo DEF IndexIn
<1> QED BY <1>1, <1>2, <1>3 DEF Keyed

(* The chunks of numbered members are the runs between the starts.         *)
LEMMA RunsAreChunks ==
    ASSUME NEW n \in Nat, NEW high \in Nat \ {0}
    PROVE  LET m == ChunkCount(n, high)
           IN  /\ Chunks(1 .. n, high, ByNumber(n)) = {Run(n, high, k) : k \in 0 .. m - 1}
               /\ m \in Nat
               /\ \A k \in 0 .. m - 1 :
                    /\ ChunkStart(n, high, k) \in Nat /\ ChunkStart(n, high, k + 1) \in Nat
                    /\ ChunkStart(n, high, k) < ChunkStart(n, high, k + 1)
                    /\ ChunkStart(n, high, k + 1) <= n
<1> DEFINE m == ChunkCount(n, high)
           Start(k) == ChunkStart(n, high, k)
<1>1. Cardinality(1 .. n) = n
  BY CountUpTo
<1>2. m \in Nat /\ m <= n
  BY ChunkCountBounds
<1>3. \A k \in 0 .. m - 1 : Start(k) \in Nat /\ Start(k + 1) \in Nat
                            /\ Start(k) < Start(k + 1) /\ Start(k + 1) <= n
  <2> SUFFICES ASSUME NEW k \in 0 .. m - 1
               PROVE  Start(k) \in Nat /\ Start(k + 1) \in Nat
                      /\ Start(k) < Start(k + 1) /\ Start(k + 1) <= n
    OBVIOUS
  <2>1. n \in Nat \ {0}
    BY <1>2
  <2>2. /\ Start(m) = n /\ \A l \in 0 .. m : Start(l) \in Nat
        /\ \A l \in 0 .. m - 1 : Start(l + 1) - Start(l) \in 1 .. high
        /\ \A l, o \in 0 .. m : l <= o => Start(l) <= Start(o)
    BY <2>1, ChunkBounds
  <2> HIDE DEF Start, m
  <2>3. k \in 0 .. m /\ k + 1 \in 0 .. m /\ m \in 0 .. m /\ k + 1 <= m
    BY <1>2
  <2>4. Start(k) \in Nat /\ Start(k + 1) \in Nat /\ Start(k + 1) <= Start(m)
    BY <2>2, <2>3
  <2>5. Start(k + 1) - Start(k) \in 1 .. high
    BY <2>2
  <2> QED BY <2>2, <2>4, <2>5
<1>4. \A k \in 0 .. m - 1 : Part(1 .. n, high, ByNumber(n), k) = Run(n, high, k)
  <2> TAKE k \in 0 .. m - 1
  <2>1. Part(1 .. n, high, ByNumber(n), k)
          = {x \in 1 .. n : /\ Start(k) <= IndexIn(1 .. n, x, ByNumber(n))
                            /\ IndexIn(1 .. n, x, ByNumber(n)) < Start(k + 1)}
    BY <1>1 DEF Part
  <2>2. Run(n, high, k) = Start(k) + 1 .. Start(k + 1)
    BY DEF Run
  <2> HIDE DEF Start
  <2>3. /\ Start(k) \in Nat /\ Start(k + 1) \in Nat
        /\ Start(k) < Start(k + 1) /\ Start(k + 1) <= n
    BY <1>3
  <2>4. \A x \in 1 .. n : IndexIn(1 .. n, x, ByNumber(n)) = x - 1
    BY NumbersKeyed
  <2>5. Part(1 .. n, high, ByNumber(n), k)
          = {x \in 1 .. n : Start(k) <= x - 1 /\ x - 1 < Start(k + 1)}
    BY <2>1, <2>4
  <2>6. {x \in 1 .. n : Start(k) <= x - 1 /\ x - 1 < Start(k + 1)} = Start(k) + 1 .. Start(k + 1)
    BY <2>3
  <2> QED BY <2>2, <2>5, <2>6
<1>5. Chunks(1 .. n, high, ByNumber(n))
        = {Part(1 .. n, high, ByNumber(n), k) : k \in 0 .. m - 1}
  BY <1>1, ChunksAreTheParts
<1> HIDE DEF m
<1> QED BY <1>2, <1>3, <1>4, <1>5 DEF m

(* The ends of a run, and its size.                                        *)
LEMMA RunEnds ==
    ASSUME NEW a \in Nat, NEW b \in Nat, a < b
    PROVE  /\ Min(a + 1 .. b) = a + 1 /\ Max(a + 1 .. b) = b
           /\ Cardinality(a + 1 .. b) = b - a
<1> DEFINE S == a + 1 .. b
<1>1. a + 1 \in Int /\ b \in Int /\ ~(a + 1 > b)
  OBVIOUS
<1>2. IsFiniteSet(S) /\ Cardinality(S) = b - (a + 1) + 1
  BY <1>1, FS_Interval, Zenon
<1>3. S \subseteq Int /\ a + 1 \in S /\ b \in S /\ \A x \in S : a + 1 <= x /\ x <= b
  OBVIOUS
<1> HIDE DEF S
<1>4. Min(S) \in S /\ \A y \in S : Min(S) <= y
  BY <1>2, <1>3, MinOfFinite
<1>5. Max(S) \in S /\ \A y \in S : Max(S) >= y
  BY <1>2, <1>3, MaxOfFinite
<1>6. Min(S) = a + 1
  <2>1. Min(S) \in Int /\ Min(S) <= a + 1 /\ a + 1 <= Min(S)
    BY <1>3, <1>4
  <2> QED BY <2>1
<1>7. Max(S) = b
  <2>1. Max(S) \in Int /\ Max(S) >= b /\ Max(S) <= b
    BY <1>3, <1>5
  <2> QED BY <2>1
<1> QED BY <1>2, <1>6, <1>7 DEF S

(* Past the most members of an item, no chunk is as small as half of it.    *)
LEMMA HalfFull ==
    ASSUME NEW n \in Nat, NEW high \in {1, 3, 5}, n > high
    PROVE  n \div ChunkCount(n, high) >= high \div 2 + 1
<1> DEFINE m == ChunkCount(n, high)
           q == n \div m
           r == n % m
<1>1. high \in Nat \ {0}
  OBVIOUS
<1>2. m \in Nat \ {0} /\ m <= n /\ (m - 1) * high < n
  BY <1>1, ChunkCountBounds
<1> HIDE DEF m
<1>3. q \in Nat /\ r \in 0 .. m - 1 /\ n = m * q + r
  BY <1>2, Division
<1> HIDE DEF q, r
<1>4. q # 0
  <2> SUFFICES ASSUME q = 0 PROVE FALSE
    OBVIOUS
  <2>1. m * q = 0
    BY <1>2
  <2> QED BY <1>2, <1>3, <2>1
<1>5. CASE high = 1
  BY <1>3, <1>4, <1>5 DEF q, m
<1>6. CASE high = 3
  <2>1. ASSUME q = 1 PROVE FALSE
    <3>1. m * q = m
      BY <1>2, <2>1
    <3> QED BY <1>2, <1>3, <1>6, <3>1
  <2>2. q >= 2
    BY <1>3, <1>4, <2>1
  <2> QED BY <1>6, <2>2 DEF q, m
<1>7. CASE high = 5
  <2>1. ASSUME q = 1 PROVE FALSE
    <3>1. m * q = m
      BY <1>2, <2>1
    <3> QED BY <1>2, <1>3, <1>7, <3>1
  <2>2. ASSUME q = 2 PROVE FALSE
    <3>1. m * q = m + m
      BY <1>2, <2>2
    <3> QED BY <1>2, <1>3, <1>7, <3>1
  <2>3. q >= 3
    BY <1>3, <1>4, <2>1, <2>2
  <2> QED BY <1>7, <2>3 DEF q, m
<1> QED BY <1>5, <1>6, <1>7

\* Even chunks, from the sizes of _chunk_sizes.
LEMMA FairWhenAsked == Asked => ChunksFair
<1> SUFFICES ASSUME Asked PROVE ChunksPartition /\ ChunksEven
  BY DEF ChunksFair
<1> DEFINE n == split.count
           high == split.high
           m == ChunkCount(n, high)
           Start(k) == ChunkStart(n, high, k)
           R(k) == Run(n, high, k)
<1>1. n \in Nat /\ high \in Nat \ {0}
  BY DEF Asked
<1>2. chunks = Chunks(1 .. n, high, ByNumber(n)) /\ Members = 1 .. n
  BY DEF Asked, Members, ByNumber
<1>3. /\ chunks = {R(k) : k \in 0 .. m - 1} /\ m \in Nat
      /\ \A k \in 0 .. m - 1 : /\ Start(k) \in Nat /\ Start(k + 1) \in Nat
                               /\ Start(k) < Start(k + 1) /\ Start(k + 1) <= n
  BY <1>1, <1>2, RunsAreChunks
<1>4. /\ UNION chunks = Members
      /\ \A c \in chunks : c # {} /\ IsFiniteSet(c) /\ Cardinality(c) \in 1 .. high
      /\ \A c, d \in chunks : c # d => c \cap d = {}
  <2>1. IsFiniteSet(1 .. n) /\ Keyed(1 .. n, 1, ByNumber(n)) /\ 1 \in Nat
    BY <1>1, CountUpTo, NumbersKeyed
  <2> DEFINE S == 1 .. n
             key == ByNumber(n)
  <2> HIDE DEF n, high, S, key
  <2>2. SharesOut(Chunks(S, high, key), S, high, key)
    BY <1>1, <2>1, ChunksSplit DEF S, key
  <2>3. chunks = Chunks(S, high, key) /\ Members = S
    BY <1>2 DEF S, key
  <2> QED BY <2>2, <2>3 DEF SharesOut
<1>5. \A k : R(k) = Start(k) + 1 .. Start(k + 1)
  BY DEF Run
<1> HIDE DEF n, high, m, Start, R
<1>6. \A k \in 0 .. m - 1 : /\ Min(R(k)) = Start(k) + 1 /\ Max(R(k)) = Start(k + 1)
                            /\ Cardinality(R(k)) = Start(k + 1) - Start(k)
  BY <1>3, <1>5, RunEnds
<1>7. ChunksPartition
  <2>1. \A k \in 0 .. m - 1 : R(k) = Min(R(k)) .. Max(R(k))
    BY <1>5, <1>6
  <2>2. \A c \in chunks : c = Min(c) .. Max(c)
    BY <1>3, <2>1
  <2> QED BY <1>4, <2>2 DEF ChunksPartition
<1>8. CASE n = 0
  <2>1. chunks = {}
    <3>1. Members = {}
      BY <1>1, <1>2, <1>8
    <3> QED BY <1>4, <3>1
  <2> QED BY <1>7, <1>8, <2>1 DEF ChunksEven, n
<1>9. CASE n # 0
  <2>1. /\ \A k, l \in 0 .. m : k <= l => Start(k) <= Start(l)
        /\ \A k, l \in 0 .. m - 1 : k <= l =>
             (Start(k + 1) - Start(k)) - (Start(l + 1) - Start(l)) \in {0, 1}
        /\ \A k \in 0 .. m - 1 : Start(k + 1) - Start(k) >= n \div m
    BY <1>1, <1>9, ChunkBounds DEF m, Start
  <2>2. (m - 1) * high < n
    BY <1>1, <1>9, ChunkCountBounds DEF m
  <2>3. Cardinality(chunks) = m
    <3> DEFINE run == [k \in 0 .. m - 1 |-> R(k)]
    <3>1. \A k, l \in 0 .. m - 1 : R(k) = R(l) => k = l
      <4> SUFFICES ASSUME NEW k \in 0 .. m - 1, NEW l \in 0 .. m - 1, R(k) = R(l), k < l
                   PROVE  FALSE
        BY <1>3
      <4>1. k + 1 \in 0 .. m /\ l \in 0 .. m /\ k + 1 <= l
        BY <1>3
      <4>2. Start(k + 1) <= Start(l)
        BY <2>1, <4>1
      <4>3. Start(k) + 1 = Start(l) + 1
        BY <1>6
      <4> QED BY <1>3, <4>2, <4>3
    <3>2. run \in Bijection(0 .. m - 1, chunks)
      BY <1>3, <3>1 DEF Bijection, Injection, Surjection, IsInjective
    <3>3. IsFiniteSet(0 .. m - 1) /\ Cardinality(0 .. m - 1) = m
      <4>1. 0 \in Int /\ m - 1 \in Int /\ (0 > m - 1 => m = 0)
        BY <1>3
      <4>2. /\ IsFiniteSet(0 .. m - 1)
            /\ Cardinality(0 .. m - 1) = IF 0 > m - 1 THEN 0 ELSE (m - 1) - 0 + 1
        BY <4>1, FS_Interval, Zenon
      <4> QED BY <1>3, <4>1, <4>2
    <3> HIDE DEF run
    <3> QED BY <3>2, <3>3, FS_Bijection DEF ExistsBijection
  <2>4. \A c \in chunks : \E k \in 0 .. m - 1 :
          /\ Min(c) = Start(k) + 1 /\ Cardinality(c) = Start(k + 1) - Start(k)
    BY <1>3, <1>6
  <2>5. ASSUME NEW c \in chunks, NEW d \in chunks, Min(c) < Min(d)
        PROVE  Cardinality(c) - Cardinality(d) \in {0, 1}
    <3>1. PICK k \in 0 .. m - 1 : Min(c) = Start(k) + 1 /\ Cardinality(c) = Start(k + 1) - Start(k)
      BY <2>4
    <3>2. PICK l \in 0 .. m - 1 : Min(d) = Start(l) + 1 /\ Cardinality(d) = Start(l + 1) - Start(l)
      BY <2>4
    <3>3. Start(k) < Start(l)
      BY <1>3, <2>5, <3>1, <3>2
    <3>4. k <= l
      <4> SUFFICES ASSUME l <= k PROVE FALSE
        BY <1>3, <3>3
      <4>1. l \in 0 .. m /\ k \in 0 .. m
        BY <1>3
      <4>2. Start(l) <= Start(k)
        BY <2>1, <4>1
      <4> QED BY <1>3, <3>3, <4>2
    <3> QED BY <2>1, <3>1, <3>2, <3>4
  <2>6. ASSUME n > high, high \in {MaxMembers[a] : a \in Activities}, NEW c \in chunks
        PROVE  Cardinality(c) >= high \div 2 + 1
    <3>1. high \in {1, 3, 5}
      BY <2>6 DEF MaxMembers, Activities
    <3>2. n \div m >= high \div 2 + 1
      BY <1>1, <2>6, <3>1, HalfFull DEF m
    <3>3. PICK k \in 0 .. m - 1 : Cardinality(c) = Start(k + 1) - Start(k)
      BY <2>4
    <3>4. Start(k + 1) - Start(k) >= n \div m
      BY <2>1
    <3>5. n \div m \in Int /\ high \div 2 + 1 \in Int /\ Start(k + 1) - Start(k) \in Int
      <4>1. m \in Nat \ {0}
        BY <1>3
      <4> QED BY <1>1, <1>3, <4>1
    <3> QED BY <3>2, <3>3, <3>4, <3>5
  <2>7. \A c \in chunks : Cardinality(c) <= high
    BY <1>1, <1>4
  <2> QED BY <1>7, <2>2, <2>3, <2>5, <2>6, <2>7 DEF ChunksEven, n, high
<1> QED BY <1>8, <1>9

(* Any number of members is split without loss into as few chunks as can    *)
(* be, none over the limit, as even as can be.                             *)
THEOREM ChunksAreFair == Spec => []ChunksFair
BY QuestionsStand, FairWhenAsked, PTL
=============================================================================
