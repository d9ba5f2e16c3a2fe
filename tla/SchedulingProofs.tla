-------------------------- MODULE SchedulingProofs --------------------------
(***************************************************************************)
(* Facts about the scheduler, for every curriculum, all review states,     *)
(* every day and every order of ties: what its operators range over, how   *)
(* sorting and splitting work out, and what generate_batch returns.        *)
(***************************************************************************)
EXTENDS Scheduling, FiniteSetTheorems, WellFoundedInduction, TLAPS

(* A finite, nonempty set of integers has a greatest member.               *)
LEMMA MaxOfFinite ==
    ASSUME NEW S, S \subseteq Int, IsFiniteSet(S), S # {}
    PROVE  Max(S) \in S /\ \A y \in S : Max(S) >= y
<1> DEFINE Above(x) == {y \in S : y > x}
           Family == {Above(x) : x \in S}
<1>1. IsWellFoundedOn(StrictSubsetOrdering(S), FiniteSubsetsOf(S))
  BY FS_StrictSubsetOrderingWellFounded
<1>2. Family \subseteq FiniteSubsetsOf(S)
  BY FS_FiniteSubsetsOfFinite
<1>3. Family # {}
  OBVIOUS
<1>4. PICK A \in Family :
        \A B \in Family : <<B, A>> \notin StrictSubsetOrdering(S)
  <2> HIDE DEF Family
  <2> QED BY <1>1, <1>2, <1>3, WFMin
<1>5. PICK x \in S : A = Above(x)
  OBVIOUS
<1>6. \A y \in S : x >= y
  <2> SUFFICES ASSUME NEW y \in S, ~(x >= y) PROVE FALSE
    OBVIOUS
  <2>1. x \in Int /\ y \in Int /\ y > x
    OBVIOUS
  <2>2. Above(y) \subseteq Above(x)
    <3> SUFFICES ASSUME NEW z \in S, z > y PROVE z > x
      OBVIOUS
    <3>1. z \in Int
      OBVIOUS
    <3> QED BY <2>1, <3>1
  <2>3. y \in Above(x) /\ y \notin Above(y)
    BY <2>1
  <2>4. <<Above(y), Above(x)>> \in StrictSubsetOrdering(S)
    <3> HIDE DEF Above
    <3>1. Above(y) \in SUBSET S /\ Above(x) \in SUBSET S
      BY DEF Above
    <3> QED BY <2>2, <2>3, <3>1 DEF StrictSubsetOrdering
  <2> QED BY <1>4, <1>5, <2>4
<1> QED BY <1>6 DEF Max

(* The image of a finite set under a function is finite.                   *)
LEMMA ImageOfFinite ==
    ASSUME NEW S, IsFiniteSet(S), NEW f
    PROVE  IsFiniteSet({f[x] : x \in S})
<1> DEFINE T == {f[x] : x \in S}
           g == [x \in S |-> f[x]]
<1>1. g \in Surjection(S, T)
  BY DEF Surjection
<1> QED BY <1>1, FS_Surjection

(* Two finite sets have a finite union; a set of two is finite.            *)
LEMMA UnionOfTwo ==
    ASSUME NEW S, NEW T, IsFiniteSet(S), IsFiniteSet(T)
    PROVE  IsFiniteSet(S \cup T)
BY FS_Union, Zenon

\* A set of two is finite.
LEMMA PairFinite ==
    ASSUME NEW a, NEW b
    PROVE  IsFiniteSet({a, b})
<1>1. IsFiniteSet({a}) /\ IsFiniteSet({b})
  BY FS_Singleton, Zenon
<1>2. {a, b} = {a} \cup {b}
  OBVIOUS
<1> QED BY <1>1, <1>2, UnionOfTwo, Zenon

-----------------------------------------------------------------------------
(* The units and the item specifications of a curriculum are finitely many. *)

\* A pack has finitely many units.
LEMMA UnitsOfFinite ==
    ASSUME NEW p \in Packs
    PROVE  IsFiniteSet(UnitsOf(p))
<1> DEFINE Chars == {"trace", "match"} \X (1 .. NumChars[p])
           c == [x \in Chars |-> Unit(p, x[1], x[2])]
           s == [i \in 1 .. NumSentences[p] |-> Unit(p, "sentence", i)]
<1>1. NumChars[p] \in Nat /\ NumSentences[p] \in Nat
  BY CurriculumAssumption
<1>2. IsFiniteSet({"trace", "match"})
  BY PairFinite
<1>3. IsFiniteSet(1 .. NumChars[p]) /\ IsFiniteSet(1 .. NumSentences[p])
  <2>1. 1 \in Int /\ NumChars[p] \in Int /\ NumSentences[p] \in Int
    BY <1>1
  <2> QED BY <2>1, FS_Interval, Zenon
<1>4. IsFiniteSet(Chars)
  BY <1>2, <1>3, FS_Product
<1>5. IsFiniteSet({c[x] : x \in Chars})
  <2> HIDE DEF Chars, c
  <2> QED BY <1>4, ImageOfFinite
<1>6. IsFiniteSet({s[i] : i \in 1 .. NumSentences[p]})
  <2> HIDE DEF s
  <2> QED BY <1>3, ImageOfFinite
<1>7. IsFiniteSet({c[x] : x \in Chars} \cup {s[i] : i \in 1 .. NumSentences[p]})
  <2> HIDE DEF Chars, c, s
  <2> QED BY <1>5, <1>6, UnionOfTwo
<1>8. ASSUME NEW u \in UnitsOf(p)
      PROVE  u \in {c[x] : x \in Chars} \cup {s[i] : i \in 1 .. NumSentences[p]}
  <2>1. CASE \E a \in {"trace", "match"}, i \in 1 .. NumChars[p] : u = Unit(p, a, i)
    <3>1. PICK a \in {"trace", "match"}, i \in 1 .. NumChars[p] : u = Unit(p, a, i)
      BY <2>1
    <3>2. <<a, i>> \in Chars /\ c[<<a, i>>] = u
      BY <3>1
    <3> QED BY <3>2
  <2>2. CASE \E i \in 1 .. NumSentences[p] : u = Unit(p, "sentence", i)
    BY <2>2
  <2>3. \/ \E a \in {"trace", "match"}, i \in 1 .. NumChars[p] : u = Unit(p, a, i)
        \/ \E i \in 1 .. NumSentences[p] : u = Unit(p, "sentence", i)
    <3> HIDE DEF Chars, c, s
    <3> QED BY DEF UnitsOf
  <2> HIDE DEF Chars, c, s
  <2> QED BY <2>1, <2>2, <2>3
<1> QED
  <2> HIDE DEF Chars, c, s
  <2> QED BY <1>7, <1>8, FS_Subset

\* There are finitely many units.
LEMMA UnitsFinite == IsFiniteSet(Units)
<1> DEFINE F == [p \in Packs |-> UnitsOf(p)]
<1>1. IsFiniteSet({F[p] : p \in Packs})
  <2> HIDE DEF F
  <2> QED BY CurriculumAssumption, ImageOfFinite
<1>2. \A T \in {F[p] : p \in Packs} : IsFiniteSet(T)
  BY UnitsOfFinite
<1>3. Units = UNION {F[p] : p \in Packs}
  BY DEF Units
<1> QED
  <2> HIDE DEF F
  <2> QED BY <1>1, <1>2, <1>3, FS_UNION

\* There are finitely many specifications of items.
LEMMA ItemSpecFinite == IsFiniteSet(ItemSpec)
<1> DEFINE Fields == (Packs \X Activities) \X ({"new", "review"} \X SUBSET Units)
           spec == [x \in Fields |->
                      [pack |-> x[1][1], activity |-> x[1][2],
                       kind |-> x[2][1], units |-> x[2][2]]]
<1>1. IsFiniteSet(Activities) /\ IsFiniteSet({"new", "review"})
  <2>1. Activities = {"trace", "match"} \cup {"sentence", "sentence"}
    BY DEF Activities
  <2> QED BY <2>1, PairFinite, UnionOfTwo, Zenon
<1>2. IsFiniteSet(SUBSET Units)
  BY UnitsFinite, FS_SUBSET
<1>3. IsFiniteSet(Packs \X Activities) /\ IsFiniteSet({"new", "review"} \X SUBSET Units)
  BY <1>1, <1>2, CurriculumAssumption, FS_Product
<1>4. IsFiniteSet(Fields)
  BY <1>3, FS_Product
<1>5. IsFiniteSet({spec[x] : x \in Fields})
  <2> HIDE DEF Fields, spec
  <2> QED BY <1>4, ImageOfFinite
<1>6. ASSUME NEW i \in ItemSpec PROVE i \in {spec[x] : x \in Fields}
  <2> DEFINE x == <<<<i.pack, i.activity>>, <<i.kind, i.units>>>>
  <2>1. x \in Fields
    BY DEF ItemSpec
  <2>2. spec[x] = i
    BY <2>1 DEF ItemSpec
  <2> QED BY <2>1, <2>2
<1>7. ItemSpec \in SUBSET {spec[x] : x \in Fields}
  <2> HIDE DEF Fields, spec
  <2> QED BY <1>6
<1> QED
  <2> HIDE DEF Fields, spec
  <2> QED BY <1>5, <1>7, FS_Subset

-----------------------------------------------------------------------------
(* A completion takes a state one rung up, to a day not before the day of   *)
(* the completion.                                                          *)
LEMMA ApplyCompletionType ==
    ASSUME NEW state, state.reps \in Nat, NEW at \in Nat
    PROVE  /\ ApplyCompletion(state, at) \in [reps : Nat, due : Nat \cup {Never}]
           /\ ApplyCompletion(state, at).reps = state.reps + 1
           /\ ApplyCompletion(state, at).due > at
<1>1. Len(LADDER) = 5
  BY DEF LADDER
<1>2. ASSUME NEW n \in 1 .. 5 PROVE LADDER[n] \in Nat \ {0}
  BY DEF LADDER
<1>3. Interval(state.reps + 1) \in Nat \ {0}
  BY <1>1, <1>2 DEF Interval
<1> QED BY <1>3 DEF ApplyCompletion

(* The chunks of a set, and so the units of the items made from them, are   *)
(* parts of it.                                                             *)
LEMMA ChunksAreParts ==
    ASSUME NEW S, NEW high, NEW key, NEW c \in Chunks(S, high, key)
    PROVE  c \subseteq S
BY DEF Chunks

\* What is made of some units of a pack is of that pack and those units.
LEMMA SpecsForType ==
    ASSUME NEW S, S \subseteq Units, NEW p \in Packs, NEW a \in Activities,
           NEW kind \in {"new", "review"}, NEW key,
           NEW i \in SpecsFor(S, p, a, kind, key)
    PROVE  /\ i \in ItemSpec
           /\ i.pack = p
           /\ i.kind = kind
           /\ i.units \subseteq S
<1>1. PICK c \in Chunks(S, MaxMembers[a], key) :
        i = [pack |-> p, activity |-> a, kind |-> kind, units |-> c]
  BY DEF SpecsFor
<1>2. c \subseteq S
  BY ChunksAreParts
<1> QED BY <1>1, <1>2 DEF ItemSpec

(* What is scheduled as new material or for review: lessons over units of   *)
(* an enabled pack, over unseen units only if they are new.                 *)
LEMMA NewMaterialItemsType ==
    ASSUME NEW enabled, enabled \subseteq Packs, NEW review,
           NEW i \in NewMaterialItems(enabled, review)
    PROVE  /\ i \in ItemSpec
           /\ i.pack \in enabled
           /\ i.kind = "new"
           /\ i.units \subseteq UnitsOf(i.pack) \ DOMAIN review
<1> DEFINE Unseen(p, a) == GroupOf(UnitsOf(p) \ DOMAIN review, p, a)
<1>1. PICK p \in enabled, a \in Activities :
        i \in SpecsFor(Unseen(p, a), p, a, "new", RefKey(Unseen(p, a)))
  BY DEF NewMaterialItems
<1>2. Unseen(p, a) \subseteq UnitsOf(p) \ DOMAIN review /\ UnitsOf(p) \subseteq Units
  BY DEF GroupOf, Units
<1>3. i \in ItemSpec /\ i.pack = p /\ i.kind = "new" /\ i.units \subseteq Unseen(p, a)
  <2> HIDE DEF Unseen
  <2>1. Unseen(p, a) \subseteq Units /\ p \in Packs
    BY <1>2
  <2> QED BY <1>1, <2>1, SpecsForType, ZenonT(30)
<1> QED
  <2> HIDE DEF Unseen
  <2> QED BY <1>2, <1>3

\* Review items are of enabled packs and of the units that were given.
LEMMA ReviewItemsType ==
    ASSUME NEW enabled, enabled \subseteq Packs, NEW S, S \subseteq Units, NEW review,
           NEW i \in ReviewItems(enabled, S, review)
    PROVE  /\ i \in ItemSpec
           /\ i.pack \in enabled
           /\ i.kind = "review"
           /\ i.units \subseteq {u \in S : u.pack = i.pack}
<1> DEFINE key == [u \in S |-> DueKey(review, u)]
<1>1. PICK p \in enabled, a \in Activities :
        i \in SpecsFor(GroupOf(S, p, a), p, a, "review", key)
  BY DEF ReviewItems
<1>2. GroupOf(S, p, a) \subseteq {u \in S : u.pack = p}
  BY DEF GroupOf
<1>3. /\ i \in ItemSpec /\ i.pack = p /\ i.kind = "review"
      /\ i.units \subseteq GroupOf(S, p, a)
  <2> HIDE DEF key
  <2>1. GroupOf(S, p, a) \subseteq Units /\ p \in Packs
    BY <1>2
  <2> QED BY <1>1, <2>1, SpecsForType
<1> QED BY <1>2, <1>3

(* The batch: finitely many items, each over units of one enabled pack,     *)
(* unseen if the item is new, at an offset between 1 and the batch size.    *)
LEMMA GenerateBatchType ==
    ASSUME NEW enabled, enabled \subseteq Packs,
           NEW review, DOMAIN review \subseteq Units, NEW now, NEW tie
    PROVE  LET batch == GenerateBatch(enabled, review, now, tie)
           IN  /\ IsFiniteSet(batch)
               /\ \A b \in batch :
                    /\ b.spec \in ItemSpec
                    /\ b.spec.pack \in enabled
                    /\ b.offset \in Nat \ {0}
                    /\ b.spec.kind = "new" =>
                         b.spec.units \subseteq UnitsOf(b.spec.pack) \ DOMAIN review
<1> DEFINE known == {u \in DOMAIN review : u.pack \in enabled}
           due == {u \in known : IsDue(review[u], now)}
           wanted == ReviewItems(enabled, due, review) \cup NewMaterialItems(enabled, review)
           exhausted == wanted = {}
           source == IF exhausted THEN known ELSE due
           candidates == IF exhausted THEN ReviewItems(enabled, known, review) ELSE wanted
           key == [item \in candidates |->
                     IF item.kind = "new" THEN NewItemKey(item)
                     ELSE ReviewItemKey(item, source, review, tie)]
           Offset(item) == IndexIn(candidates, item, key) + 1
           chosen == {c \in candidates : Offset(c) <= BatchSize}
           batch == {[spec |-> item, offset |-> Offset(item)] : item \in chosen}
<1>1. \A i \in candidates : /\ i \in ItemSpec
                            /\ i.pack \in enabled
                            /\ i.kind = "new" => i.units \subseteq UnitsOf(i.pack) \ DOMAIN review
  <2>1. known \subseteq Units /\ due \subseteq Units
    OBVIOUS
  <2> HIDE DEF known, due
  <2> QED BY <2>1, NewMaterialItemsType, ReviewItemsType
<1>2. IsFiniteSet(candidates)
  <2> HIDE DEF candidates
  <2> QED BY <1>1, ItemSpecFinite, FS_Subset, candidates \subseteq ItemSpec
<1>3. \A item \in candidates : Offset(item) \in Nat \ {0}
  <2> HIDE DEF candidates, key
  <2> TAKE item \in candidates
  <2>1. IsFiniteSet({y \in candidates : LexLess(key[y], key[item])})
    BY <1>2, FS_Subset
  <2>2. IndexIn(candidates, item, key) \in Nat
    BY <2>1, FS_CardinalityType DEF IndexIn
  <2> QED BY <2>2
<1>4. batch = GenerateBatch(enabled, review, now, tie)
  BY DEF GenerateBatch
<1>5. IsFiniteSet(batch)
  <2> DEFINE f == [item \in chosen |-> [spec |-> item, offset |-> Offset(item)]]
  <2> HIDE DEF candidates, Offset
  <2>1. IsFiniteSet(chosen)
    BY <1>2, FS_Subset
  <2>2. IsFiniteSet({f[item] : item \in chosen})
    <3> HIDE DEF f, chosen
    <3> QED BY <2>1, ImageOfFinite
  <2>3. {f[item] : item \in chosen} = batch
    OBVIOUS
  <2> QED BY <2>2, <2>3
<1> QED
  <2> HIDE DEF candidates, Offset
  <2> QED BY <1>1, <1>3, <1>4, <1>5


-----------------------------------------------------------------------------
(* A finite, nonempty set of integers has a least member.                  *)
LEMMA MinOfFinite ==
    ASSUME NEW S, S \subseteq Int, IsFiniteSet(S), S # {}
    PROVE  Min(S) \in S /\ \A y \in S : Min(S) <= y
<1> DEFINE f == [x \in S |-> -x]
           Back == {f[x] : x \in S}
<1>1. IsFiniteSet(Back)
  <2> HIDE DEF f
  <2> QED BY ImageOfFinite
<1>2. Back \subseteq Int /\ Back # {}
  <2>1. \A x \in S : f[x] \in Int
    OBVIOUS
  <2> QED BY <2>1
<1>3. PICK m \in Back : \A y \in Back : m >= y
  <2> HIDE DEF Back
  <2> QED BY <1>1, <1>2, MaxOfFinite
<1>4. PICK x \in S : m = -x
  OBVIOUS
<1>5. \A y \in S : x <= y
  <2> TAKE y \in S
  <2>1. -x >= -y
    BY <1>3, <1>4
  <2> QED BY <2>1
<1> QED BY <1>5 DEF Min

-----------------------------------------------------------------------------
(* Sort keys of one length are totally ordered.                            *)

Key(n) == [1 .. n -> Int]

\* No key is before itself.
LEMMA LexIrreflexive ==
    ASSUME NEW n \in Nat, NEW s \in Key(n)
    PROVE  ~LexLess(s, s)
BY DEF LexLess, Key

\* The order of keys is transitive.
LEMMA LexTransitive ==
    ASSUME NEW n \in Nat, NEW s \in Key(n), NEW t \in Key(n), NEW u \in Key(n),
           LexLess(s, t), LexLess(t, u)
    PROVE  LexLess(s, u)
<1>1. PICK i \in 1 .. n : s[i] < t[i] /\ \A j \in 1 .. i - 1 : s[j] = t[j]
  BY DEF LexLess, Key
<1>2. PICK k \in 1 .. n : t[k] < u[k] /\ \A j \in 1 .. k - 1 : t[j] = u[j]
  BY DEF LexLess, Key
<1>3. DOMAIN s = 1 .. n /\ \A j \in 1 .. n : s[j] \in Int /\ t[j] \in Int /\ u[j] \in Int
  BY DEF Key
<1>4. CASE i <= k
  <2>1. s[i] < u[i]
    <3>1. CASE i = k
      BY <1>1, <1>2, <1>3, <3>1
    <3>2. CASE i < k
      BY <1>1, <1>2, <1>3, <3>2
    <3> QED BY <1>4, <3>1, <3>2
  <2>2. \A j \in 1 .. i - 1 : s[j] = u[j]
    BY <1>1, <1>2, <1>4
  <2> QED BY <1>3, <2>1, <2>2 DEF LexLess
<1>5. CASE k < i
  <2>1. s[k] < u[k] /\ \A j \in 1 .. k - 1 : s[j] = u[j]
    BY <1>1, <1>2, <1>3, <1>5
  <2> QED BY <1>3, <2>1 DEF LexLess
<1> QED BY <1>4, <1>5

(* Where two keys first differ decides.                                    *)
LEMMA LexTotal ==
    ASSUME NEW n \in Nat, NEW s \in Key(n), NEW t \in Key(n), s # t
    PROVE  LexLess(s, t) \/ LexLess(t, s)
<1> DEFINE Differ == {i \in 1 .. n : s[i] # t[i]}
<1>1. Differ # {} /\ Differ \subseteq Int
  BY SMTT(30) DEF Key
<1>2. IsFiniteSet(Differ)
  BY FS_Interval, FS_Subset
<1>3. PICK i \in Differ : \A j \in Differ : i <= j
  <2> HIDE DEF Differ
  <2> QED BY <1>1, <1>2, MinOfFinite
<1>4. \A j \in 1 .. i - 1 : s[j] = t[j]
  BY <1>3
<1>5. s[i] \in Int /\ t[i] \in Int /\ s[i] # t[i] /\ DOMAIN s = 1 .. n /\ DOMAIN t = 1 .. n
  BY DEF Key
<1> QED BY <1>4, <1>5 DEF LexLess

(* Of two keys in order, the later is at least the earlier one at the first *)
(* place where they may differ.                                            *)
LEMMA LexPrefix ==
    ASSUME NEW n \in Nat, NEW s \in Key(n), NEW t \in Key(n), LexLess(s, t),
           NEW k \in 1 .. n, \A j \in 1 .. k - 1 : s[j] = t[j]
    PROVE  s[k] <= t[k]
<1>1. PICK i \in 1 .. n : s[i] < t[i] /\ \A j \in 1 .. i - 1 : s[j] = t[j]
  BY DEF LexLess, Key
<1>2. \A j \in 1 .. n : s[j] \in Int /\ t[j] \in Int
  BY DEF Key
<1>3. CASE i < k
  <2>1. i \in 1 .. k - 1
    BY <1>3
  <2> QED BY <1>1, <1>2, <2>1
<1>4. CASE i = k
  BY <1>1, <1>2, <1>4
<1>5. CASE i > k
  <2>1. k \in 1 .. i - 1
    BY <1>5
  <2> QED BY <1>1, <1>2, <2>1
<1> QED BY <1>3, <1>4, <1>5

-----------------------------------------------------------------------------
(* Sorting: the places of the members of a finite set are 0, 1, ... in the  *)
(* order of their keys, when no two members have the same key.             *)

Keyed(S, n, key) ==
    /\ \A x \in S : key[x] \in Key(n)
    /\ \A x, y \in S : key[x] = key[y] => x = y

\* The index of an element grows with its key.
LEMMA IndexOrder ==
    ASSUME NEW S, IsFiniteSet(S), NEW n \in Nat, NEW key, Keyed(S, n, key)
    PROVE  /\ \A x \in S : IndexIn(S, x, key) \in 0 .. Cardinality(S) - 1
           /\ \A x, y \in S : LexLess(key[x], key[y]) => IndexIn(S, x, key) < IndexIn(S, y, key)
<1> DEFINE Before(x) == {y \in S : LexLess(key[y], key[x])}
<1>1. \A x \in S : Before(x) \in SUBSET S /\ x \notin Before(x)
  BY LexIrreflexive DEF Keyed
<1>2. \A x \in S : /\ IsFiniteSet(Before(x)) /\ Cardinality(Before(x)) \in Nat
                   /\ Cardinality(Before(x)) < Cardinality(S)
  <2> TAKE x \in S
  <2> HIDE DEF Before
  <2>1. /\ IsFiniteSet(Before(x)) /\ Cardinality(Before(x)) <= Cardinality(S)
        /\ Cardinality(S) = Cardinality(Before(x)) => S = Before(x)
    BY <1>1, FS_Subset
  <2>2. Cardinality(Before(x)) \in Nat /\ Cardinality(S) \in Nat
    BY <2>1, FS_CardinalityType
  <2> QED BY <1>1, <2>1, <2>2
<1>3. ASSUME NEW x \in S, NEW y \in S, LexLess(key[x], key[y])
      PROVE  Cardinality(Before(x)) < Cardinality(Before(y))
  <2>1. Before(x) \in SUBSET Before(y) /\ x \in Before(y)
    BY <1>3, LexTransitive DEF Keyed
  <2> HIDE DEF Before
  <2>2. /\ Cardinality(Before(x)) <= Cardinality(Before(y))
        /\ Cardinality(Before(y)) = Cardinality(Before(x)) => Before(y) = Before(x)
    BY <1>2, <2>1, FS_Subset
  <2> QED BY <1>1, <1>2, <2>1, <2>2
<1>4. \A x \in S : IndexIn(S, x, key) = Cardinality(Before(x))
  BY DEF IndexIn
<1>5. Cardinality(S) \in Nat
  BY FS_CardinalityType
<1> QED
  <2> HIDE DEF Before
  <2> QED BY <1>2, <1>3, <1>4, <1>5

(* The converse, by totality.                                              *)
LEMMA IndexLess ==
    ASSUME NEW S, IsFiniteSet(S), NEW n \in Nat, NEW key, Keyed(S, n, key),
           NEW x \in S, NEW y \in S
    PROVE  /\ IndexIn(S, x, key) < IndexIn(S, y, key) <=> LexLess(key[x], key[y])
           /\ IndexIn(S, x, key) = IndexIn(S, y, key) => x = y
<1>1. key[x] \in Key(n) /\ key[y] \in Key(n) /\ (key[x] = key[y] => x = y)
  BY DEF Keyed
<1>2. IndexIn(S, x, key) \in Int /\ IndexIn(S, y, key) \in Int
  <2>1. /\ IndexIn(S, x, key) \in 0 .. Cardinality(S) - 1
        /\ IndexIn(S, y, key) \in 0 .. Cardinality(S) - 1
    BY IndexOrder
  <2> QED BY <2>1
<1>3. /\ LexLess(key[x], key[y]) => IndexIn(S, x, key) < IndexIn(S, y, key)
      /\ LexLess(key[y], key[x]) => IndexIn(S, y, key) < IndexIn(S, x, key)
  BY IndexOrder
<1>4. CASE x = y
  BY <1>1, <1>2, <1>4, LexIrreflexive
<1>5. CASE x # y
  <2>1. LexLess(key[x], key[y]) \/ LexLess(key[y], key[x])
    BY <1>1, <1>5, LexTotal
  <2> QED BY <1>2, <1>3, <2>1
<1> QED BY <1>4, <1>5

(* No place is empty: an injection of a finite set into as many places is   *)
(* a surjection.                                                           *)
LEMMA IndexOnto ==
    ASSUME NEW S, IsFiniteSet(S), NEW n \in Nat, NEW key, Keyed(S, n, key),
           NEW k \in 0 .. Cardinality(S) - 1
    PROVE  \E x \in S : IndexIn(S, x, key) = k
<1> DEFINE Places == 0 .. Cardinality(S) - 1
           index == [x \in S |-> IndexIn(S, x, key)]
<1>1. Cardinality(S) \in Nat
  BY FS_CardinalityType
<1>2. IsFiniteSet(Places) /\ Cardinality(Places) = Cardinality(S)
  <2>1. Cardinality(S) - 1 \in Int /\ 0 \in Int
    BY <1>1
  <2>2. /\ IsFiniteSet(Places)
        /\ Cardinality(Places) = IF 0 > Cardinality(S) - 1 THEN 0 ELSE Cardinality(S) - 1 - 0 + 1
    BY <2>1, FS_Interval, Zenon
  <2> QED BY <1>1, <2>2
<1>3. index \in Injection(S, Places)
  <2>1. \A x \in S : IndexIn(S, x, key) \in Places
    BY IndexOrder
  <2>2. \A x, y \in S : IndexIn(S, x, key) = IndexIn(S, y, key) => x = y
    BY IndexLess
  <2> QED BY <2>1, <2>2 DEF Injection, IsInjective
<1>4. index \in Surjection(S, Places)
  <2> HIDE DEF index, Places
  <2> QED BY <1>2, <1>3, FS_Injection
<1> QED BY <1>4 DEF Surjection

-----------------------------------------------------------------------------
(* Splitting: n members go into the fewest chunks of at most high, evenly. *)

\* Quotient and remainder.
LEMMA Division ==
    ASSUME NEW n \in Nat, NEW m \in Nat \ {0}
    PROVE  /\ n \div m \in Nat /\ n % m \in 0 .. m - 1
           /\ n = m * (n \div m) + (n % m)
<1>1. n \div m \in Nat /\ n % m \in 0 .. m - 1
  OBVIOUS
<1>2. n \in Int /\ m \in Int /\ m > 0
  OBVIOUS
<1>3. n = m * (n \div m) + (n % m)
  BY <1>2, Z3
<1> QED BY <1>1, <1>3

\* More of the same is more.
LEMMA TimesMonotone ==
    ASSUME NEW k \in Nat, NEW l \in Nat, k <= l, NEW q \in Nat
    PROVE  k * q <= l * q /\ k * q \in Nat
OBVIOUS

(* As few chunks as can be: at least one if there is a member, never more   *)
(* than members, enough for all, and one fewer would not do.               *)
LEMMA ChunkCountBounds ==
    ASSUME NEW n \in Nat, NEW high \in Nat \ {0}
    PROVE  LET m == ChunkCount(n, high)
           IN  /\ m \in Nat /\ m <= n /\ (n # 0 => m # 0)
               /\ n <= m * high
               /\ n # 0 => (m - 1) * high < n
<1> DEFINE m == (n + high - 1) \div high
           r == (n + high - 1) % high
<1>1. n + high - 1 \in Nat
  OBVIOUS
<1>2. m \in Nat /\ r \in 0 .. high - 1 /\ n + high - 1 = high * m + r
  BY <1>1, Division
<1>3. m = ChunkCount(n, high)
  BY DEF ChunkCount
<1> HIDE DEF m, r
<1>4. high * m = m * high /\ (m - 1) * high = m * high - high /\ m * high \in Nat
  BY <1>2
<1>5. n <= m * high /\ m * high <= n + high - 1
  BY <1>2, <1>4
<1>6. n # 0 => m # 0
  <2>1. CASE m = 0
    BY <1>5, <2>1
  <2> QED BY <2>1
<1>7. m <= n
  <2> SUFFICES ASSUME m >= n + 1 PROVE FALSE
    BY <1>2
  <2>1. (n + 1) * high <= m * high
    BY <1>2, TimesMonotone
  <2>2. (n + 1) * high = n * high + high
    OBVIOUS
  <2>3. n <= n * high /\ n * high \in Nat
    <3>1. 1 * n <= high * n
      BY TimesMonotone
    <3> QED BY <3>1
  <2>4. m * high \in Nat
    BY <1>4
  <2> QED BY <1>5, <2>1, <2>2, <2>3, <2>4
<1> QED BY <1>2, <1>3, <1>4, <1>5, <1>6, <1>7

(* The chunks start at 0 and end at n; each has a member and at most high;  *)
(* of two, the earlier has as many members or one more.                    *)
LEMMA ChunkBounds ==
    ASSUME NEW n \in Nat \ {0}, NEW high \in Nat \ {0}
    PROVE  LET m == ChunkCount(n, high)
               Start(k) == ChunkStart(n, high, k)
               Size(k) == Start(k + 1) - Start(k)
           IN  /\ Start(0) = 0 /\ Start(m) = n
               /\ \A k \in 0 .. m : Start(k) \in Nat
               /\ \A k \in 0 .. m - 1 : Size(k) \in 1 .. high
               /\ \A k, l \in 0 .. m : k <= l => Start(k) <= Start(l)
               /\ \A k, l \in 0 .. m - 1 : k <= l => Size(k) - Size(l) \in {0, 1}
               /\ \A k \in 0 .. m - 1 : Size(k) >= n \div m
<1> DEFINE m == ChunkCount(n, high)
           q == n \div m
           r == n % m
           Start(k) == ChunkStart(n, high, k)
<1>1. m \in Nat \ {0} /\ m <= n /\ n <= m * high
  BY ChunkCountBounds
<1>2. q \in Nat /\ r \in 0 .. m - 1 /\ n = m * q + r
  <2> HIDE DEF m
  <2> QED BY <1>1, Division
<1>3. \A k : Start(k) = k * q + (IF k < r THEN k ELSE r)
  BY DEF ChunkStart
<1> HIDE DEF m, q, r, Start
<1>4. q >= 1
  <2> SUFFICES ASSUME q = 0 PROVE FALSE
    BY <1>2
  <2>1. m * q = 0
    BY <1>1
  <2> QED BY <1>1, <1>2, <2>1
<1>5. q < high \/ (q = high /\ r = 0)
  <2> SUFFICES ASSUME q > high \/ (q = high /\ r # 0) PROVE FALSE
    BY <1>2
  <2>1. m * high <= m * q
    <3>1. high * m <= q * m
      BY <1>1, <1>2, TimesMonotone
    <3> QED BY <1>1, <1>2, <3>1
  <2>2. CASE r # 0
    BY <1>1, <1>2, <2>1, <2>2
  <2>3. CASE q > high
    <3>1. (high + 1) * m <= q * m
      BY <1>1, <1>2, <2>3, TimesMonotone
    <3>2. (high + 1) * m = m * high + m /\ q * m = m * q
      BY <1>1, <1>2
    <3>3. m * high \in Nat /\ m * q \in Nat
      BY <1>1, <1>2
    <3> QED BY <1>1, <1>2, <3>1, <3>2, <3>3
  <2> QED BY <2>2, <2>3
<1>6. \A k \in Nat : /\ Start(k) \in Nat /\ k * q \in Nat
                     /\ Start(k + 1) - Start(k) = IF k < r THEN q + 1 ELSE q
  <2> TAKE k \in Nat
  <2>1. k * q \in Nat /\ (k + 1) * q = k * q + q
    BY <1>2
  <2>2. Start(k) = k * q + (IF k < r THEN k ELSE r)
    BY <1>3
  <2>3. Start(k + 1) = (k * q + q) + (IF k + 1 < r THEN k + 1 ELSE r)
    BY <1>3, <2>1
  <2> QED BY <1>2, <2>1, <2>2, <2>3
<1>7. Start(0) = 0
  BY <1>2, <1>3
<1>8. Start(m) = n
  BY <1>1, <1>2, <1>3
<1>9. \A k, l \in Nat : k <= l => Start(k) <= Start(l)
  <2> TAKE k, l \in Nat
  <2> HAVE k <= l
  <2>1. k * q <= l * q /\ k * q \in Nat /\ l * q \in Nat
    BY <1>2, TimesMonotone
  <2>2. Start(k) = k * q + (IF k < r THEN k ELSE r)
    BY <1>3
  <2>3. Start(l) = l * q + (IF l < r THEN l ELSE r)
    BY <1>3
  <2> QED BY <1>2, <2>1, <2>2, <2>3
<1>10. \A k \in 0 .. m - 1 : Start(k + 1) - Start(k) \in 1 .. high
  BY <1>1, <1>2, <1>4, <1>5, <1>6
<1>11. 0 .. m \subseteq Nat /\ 0 .. m - 1 \subseteq Nat
  BY <1>1
<1>12. \A k, l \in 0 .. m - 1 :
          k <= l => (Start(k + 1) - Start(k)) - (Start(l + 1) - Start(l)) \in {0, 1}
  <2> TAKE k, l \in 0 .. m - 1
  <2>1. /\ Start(k + 1) - Start(k) = IF k < r THEN q + 1 ELSE q
        /\ Start(l + 1) - Start(l) = IF l < r THEN q + 1 ELSE q
    BY <1>6, <1>11
  <2> QED BY <1>1, <1>2, <2>1
<1>13. \A k \in 0 .. m - 1 : Start(k + 1) - Start(k) >= q
  BY <1>2, <1>6, <1>11
<1> QED BY <1>6, <1>7, <1>8, <1>9, <1>10, <1>11, <1>12, <1>13 DEF m, q, Start

(* The k-th chunk: the members whose places are from its start to the next. *)
Part(S, high, key, k) ==
    LET n == Cardinality(S)
    IN  {x \in S : /\ ChunkStart(n, high, k) <= IndexIn(S, x, key)
                   /\ IndexIn(S, x, key) < ChunkStart(n, high, k + 1)}

\* The chunks are the parts, one for each number below their count.
LEMMA ChunksAreTheParts ==
    ASSUME NEW S, NEW high, NEW key
    PROVE  Chunks(S, high, key)
             = {Part(S, high, key, k) : k \in 0 .. ChunkCount(Cardinality(S), high) - 1}
BY DEF Chunks, Part

(* Members of an earlier chunk come before those of a later one, and every  *)
(* member is in a chunk; a chunk has as many members as it has places.      *)
LEMMA PartsInOrder ==
    ASSUME NEW S, IsFiniteSet(S), S # {}, NEW high \in Nat \ {0},
           NEW w \in Nat, NEW key, Keyed(S, w, key)
    PROVE  LET n == Cardinality(S)
               m == ChunkCount(n, high)
           IN  /\ \A k, l \in 0 .. m - 1 : k < l =>
                    \A x \in Part(S, high, key, k), y \in Part(S, high, key, l) :
                        LexLess(key[x], key[y])
               /\ \A x \in S : \E k \in 0 .. m - 1 : x \in Part(S, high, key, k)
               /\ \A k \in 0 .. m - 1 :
                    /\ IsFiniteSet(Part(S, high, key, k))
                    /\ Cardinality(Part(S, high, key, k))
                         = ChunkStart(n, high, k + 1) - ChunkStart(n, high, k)
<1> DEFINE n == Cardinality(S)
           m == ChunkCount(n, high)
           Start(k) == ChunkStart(n, high, k)
           Index(x) == IndexIn(S, x, key)
           P(k) == Part(S, high, key, k)
<1>1. n \in Nat \ {0}
  BY FS_CardinalityType, FS_EmptySet
<1>2. m \in Nat \ {0} /\ m <= n
  <2> HIDE DEF n
  <2> QED BY <1>1, ChunkCountBounds
<1>3. /\ Start(0) = 0 /\ Start(m) = n
      /\ \A k \in 0 .. m : Start(k) \in Nat
      /\ \A k \in 0 .. m - 1 : Start(k + 1) - Start(k) \in 1 .. high
      /\ \A k, l \in 0 .. m : k <= l => Start(k) <= Start(l)
  <2> HIDE DEF n
  <2> QED BY <1>1, ChunkBounds
<1>4. \A x \in S : Index(x) \in 0 .. n - 1
  BY IndexOrder
<1>5. \A x, y \in S : /\ Index(x) < Index(y) <=> LexLess(key[x], key[y])
                      /\ Index(x) = Index(y) => x = y
  BY IndexLess
<1>6. \A i \in 0 .. n - 1 : \E x \in S : Index(x) = i
  BY IndexOnto
<1>7. \A k : P(k) = {x \in S : Start(k) <= Index(x) /\ Index(x) < Start(k + 1)}
  BY DEF Part
<1> HIDE DEF n, m, Start, Index, P
<1>8. ASSUME NEW k \in 0 .. m - 1, NEW l \in 0 .. m - 1, k < l, NEW x \in P(k), NEW y \in P(l)
      PROVE  LexLess(key[x], key[y])
  <2>1. /\ x \in S /\ y \in S
        /\ Index(x) < Start(k + 1) /\ Start(l) <= Index(y)
    BY <1>7
  <2>2. Start(k + 1) <= Start(l) /\ Start(k + 1) \in Nat /\ Start(l) \in Nat
    BY <1>2, <1>3, <1>8
  <2>3. Index(x) < Index(y)
    BY <1>1, <1>4, <2>1, <2>2
  <2> QED BY <1>5, <2>1, <2>3
<1>9. ASSUME NEW x \in S PROVE \E k \in 0 .. m - 1 : x \in P(k)
  <2> DEFINE Begun == {k \in 0 .. m - 1 : Start(k) <= Index(x)}
  <2>1. Index(x) \in 0 .. n - 1
    BY <1>4
  <2>2. 0 \in Begun /\ Begun \subseteq Int
    BY <1>1, <1>2, <1>3, <2>1
  <2>3. IsFiniteSet(Begun)
    <3>1. 0 \in Int /\ m - 1 \in Int
      BY <1>2
    <3>2. IsFiniteSet(0 .. m - 1)
      BY <3>1, FS_Interval, Zenon
    <3>3. Begun \subseteq 0 .. m - 1
      OBVIOUS
    <3> HIDE DEF Begun
    <3> QED BY <3>2, <3>3, FS_Subset
  <2>4. PICK k \in Begun : \A l \in Begun : k >= l
    <3> HIDE DEF Begun
    <3> QED BY <2>2, <2>3, MaxOfFinite
  <2>5. Index(x) < Start(k + 1)
    <3>1. CASE k + 1 = m
      BY <1>1, <1>3, <2>1, <3>1
    <3>2. CASE k + 1 # m
      <4>1. k + 1 \in 0 .. m - 1 /\ k + 1 \in 0 .. m /\ ~(k >= k + 1)
        BY <1>2, <3>2
      <4>2. ~(Start(k + 1) <= Index(x))
        BY <2>4, <4>1
      <4>3. Start(k + 1) \in Nat
        BY <1>3, <4>1
      <4> QED BY <1>1, <2>1, <4>2, <4>3
    <3> QED BY <3>1, <3>2
  <2> QED BY <1>7, <2>5
<1>10. ASSUME NEW k \in 0 .. m - 1
       PROVE  IsFiniteSet(P(k)) /\ Cardinality(P(k)) = Start(k + 1) - Start(k)
  <2> DEFINE Places == Start(k) .. Start(k + 1) - 1
             index == [x \in P(k) |-> Index(x)]
  <2>1. /\ Start(k) \in Nat /\ Start(k + 1) \in Nat
        /\ Start(k + 1) <= n /\ Start(k) < Start(k + 1)
    <3>1. k \in 0 .. m /\ k + 1 \in 0 .. m /\ m \in 0 .. m
      BY <1>2
    <3>2. Start(k) \in Nat /\ Start(k + 1) \in Nat /\ Start(k + 1) <= Start(m)
      BY <1>3, <3>1
    <3>3. Start(k + 1) - Start(k) \in 1 .. high
      BY <1>3
    <3> QED BY <1>3, <3>2, <3>3
  <2>2. IsFiniteSet(Places) /\ Cardinality(Places) = Start(k + 1) - Start(k)
    <3>1. Start(k) \in Int /\ Start(k + 1) - 1 \in Int /\ ~(Start(k) > Start(k + 1) - 1)
      BY <2>1
    <3>2. IsFiniteSet(Places) /\ Cardinality(Places) = (Start(k + 1) - 1) - Start(k) + 1
      BY <3>1, FS_Interval, Zenon
    <3> QED BY <2>1, <3>2
  <2>3. P(k) \in SUBSET S
    BY <1>7
  <2>4. index \in Bijection(P(k), Places)
    <3>1. \A x \in P(k) : Index(x) \in Places
      BY <1>4, <1>7, <2>1
    <3>2. \A x, y \in P(k) : Index(x) = Index(y) => x = y
      BY <1>5, <2>3
    <3>3. \A i \in Places : \E x \in P(k) : Index(x) = i
      <4> TAKE i \in Places
      <4>1. PICK x \in S : Index(x) = i
        BY <1>1, <1>6, <2>1
      <4>2. x \in P(k)
        BY <1>7, <2>1, <4>1
      <4> QED BY <4>1, <4>2
    <3> QED BY <3>1, <3>2, <3>3 DEF Bijection, Injection, Surjection, IsInjective
  <2>5. IsFiniteSet(P(k))
    BY <2>3, FS_Subset
  <2>6. Cardinality(Places) = Cardinality(P(k))
    <3> HIDE DEF index, Places
    <3> QED BY <2>4, <2>5, FS_Bijection DEF ExistsBijection
  <2> QED BY <2>2, <2>5, <2>6
<1> QED BY <1>8, <1>9, <1>10 DEF n, m, Start, P

\* Parts that share out S, in order, of at most high members each.
SharesOut(parts, S, high, key) ==
    /\ UNION parts = S
    /\ \A c \in parts : c # {} /\ c \subseteq S /\ IsFiniteSet(c) /\ Cardinality(c) \in 1 .. high
    /\ \A c, d \in parts : c # d =>
         \/ \A x \in c, y \in d : LexLess(key[x], key[y])
         \/ \A x \in c, y \in d : LexLess(key[y], key[x])
    /\ \A c, d \in parts : c # d => c \cap d = {}

(* Every member is in one chunk and in one only; a chunk has a member and   *)
(* at most high; of two chunks, the one is before the other as a whole.     *)
LEMMA ChunksSplit ==
    ASSUME NEW S, IsFiniteSet(S), NEW high \in Nat \ {0},
           NEW w \in Nat, NEW key, Keyed(S, w, key)
    PROVE  SharesOut(Chunks(S, high, key), S, high, key)
<1> DEFINE n == Cardinality(S)
           m == ChunkCount(n, high)
           P(k) == Part(S, high, key, k)
<1>1. Chunks(S, high, key) = {P(k) : k \in 0 .. m - 1}
  BY ChunksAreTheParts
<1>2. CASE S = {}
  <2>1. n = 0
    BY <1>2, FS_EmptySet
  <2>2. m = 0
    <3>1. m \in Nat /\ m <= n
      <4> HIDE DEF n
      <4>1. n \in Nat
        BY <2>1
      <4> QED BY <4>1, ChunkCountBounds
    <3> HIDE DEF n, m
    <3> QED BY <2>1, <3>1
  <2>3. Chunks(S, high, key) = {}
    <3> HIDE DEF m, P
    <3> QED BY <1>1, <2>2
  <2> QED BY <1>2, <2>3 DEF SharesOut
<1>3. CASE S # {}
  <2>1. /\ \A k, l \in 0 .. m - 1 : k < l => \A x \in P(k), y \in P(l) : LexLess(key[x], key[y])
        /\ \A x \in S : \E k \in 0 .. m - 1 : x \in P(k)
        /\ \A k \in 0 .. m - 1 :
             /\ IsFiniteSet(P(k))
             /\ Cardinality(P(k)) = ChunkStart(n, high, k + 1) - ChunkStart(n, high, k)
    BY <1>3, PartsInOrder
  <2>2. n \in Nat \ {0}
    BY <1>3, FS_CardinalityType, FS_EmptySet
  <2>3. \A k \in 0 .. m - 1 : ChunkStart(n, high, k + 1) - ChunkStart(n, high, k) \in 1 .. high
    <3> HIDE DEF n
    <3> QED BY <2>2, ChunkBounds
  <2>4. \A k : P(k) \subseteq S
    BY DEF Part
  <2> HIDE DEF n, P
  <2>5. m \in Nat
    BY <2>2, ChunkCountBounds
  <2> HIDE DEF m
  <2>6. \A k \in 0 .. m - 1 : Cardinality(P(k)) \in 1 .. high /\ P(k) # {}
    <3>1. \A k \in 0 .. m - 1 : Cardinality(P(k)) \in 1 .. high
      BY <2>1, <2>3
    <3>2. Cardinality({}) = 0
      BY FS_EmptySet
    <3> QED BY <3>1, <3>2
  <2>7. ASSUME NEW k \in 0 .. m - 1, NEW l \in 0 .. m - 1, P(k) # P(l)
        PROVE  \/ \A x \in P(k), y \in P(l) : LexLess(key[x], key[y])
               \/ \A x \in P(k), y \in P(l) : LexLess(key[y], key[x])
    <3>1. k < l \/ l < k
      BY <2>5, <2>7
    <3> QED BY <2>1, <3>1
  <2>8. ASSUME NEW k \in 0 .. m - 1, NEW l \in 0 .. m - 1, P(k) # P(l)
        PROVE  P(k) \cap P(l) = {}
    <3>1. \A x \in S : ~LexLess(key[x], key[x])
      BY LexIrreflexive DEF Keyed
    <3> QED BY <2>4, <2>7, <2>8, <3>1
  <2>9. UNION Chunks(S, high, key) = S
    BY <1>1, <2>1, <2>4
  <2>10. \A c \in Chunks(S, high, key) :
            c # {} /\ c \subseteq S /\ IsFiniteSet(c) /\ Cardinality(c) \in 1 .. high
    BY <1>1, <2>1, <2>4, <2>6
  <2>11. \A c, d \in Chunks(S, high, key) : c # d =>
           /\ \/ \A x \in c, y \in d : LexLess(key[x], key[y])
              \/ \A x \in c, y \in d : LexLess(key[y], key[x])
           /\ c \cap d = {}
    <3> TAKE c, d \in Chunks(S, high, key)
    <3>1. PICK k \in 0 .. m - 1 : c = P(k)
      BY <1>1
    <3>2. PICK l \in 0 .. m - 1 : d = P(l)
      BY <1>1
    <3> QED BY <2>7, <2>8, <3>1, <3>2
  <2> QED BY <2>9, <2>10, <2>11 DEF SharesOut
<1> QED BY <1>2, <1>3

(* Some member comes first.                                                *)
LEMMA LexFirst ==
    ASSUME NEW S, IsFiniteSet(S), S # {}, NEW n \in Nat, NEW key, Keyed(S, n, key)
    PROVE  \E x \in S : \A y \in S \ {x} : LexLess(key[x], key[y])
<1>1. Cardinality(S) \in Nat /\ Cardinality(S) # 0
  BY FS_CardinalityType, FS_EmptySet
<1>2. 0 \in 0 .. Cardinality(S) - 1
  BY <1>1
<1>3. PICK x \in S : IndexIn(S, x, key) = 0
  BY <1>2, IndexOnto
<1>4. ASSUME NEW y \in S, y # x PROVE LexLess(key[x], key[y])
  <2>1. IndexIn(S, y, key) \in 0 .. Cardinality(S) - 1
    BY IndexOrder
  <2>2. IndexIn(S, y, key) # IndexIn(S, x, key)
    BY <1>4, IndexLess
  <2>3. IndexIn(S, x, key) < IndexIn(S, y, key)
    BY <1>1, <1>3, <2>1, <2>2
  <2> QED BY <2>3, IndexLess
<1> QED BY <1>4

-----------------------------------------------------------------------------
(* Units and their sort keys.                                              *)

\* A pack is known by its sort position, a number.
LEMMA PacksAreNumbers == \A p \in Packs : p \in Nat /\ p \in Int
BY CurriculumAssumption

\* The fields of a unit of a pack.
LEMMA UnitFields ==
    ASSUME NEW p \in Packs, NEW u \in UnitsOf(p)
    PROVE  /\ u \in Units /\ u.pack = p /\ u.activity \in Activities /\ u.ref \in Nat \ {0}
           /\ u = Unit(u.pack, u.activity, u.ref)
<1>1. NumChars[p] \in Nat /\ NumSentences[p] \in Nat
  BY CurriculumAssumption
<1>2. \/ \E a \in {"trace", "match"}, i \in 1 .. NumChars[p] : u = Unit(p, a, i)
      \/ \E i \in 1 .. NumSentences[p] : u = Unit(p, "sentence", i)
  BY DEF UnitsOf
<1>3. \E a \in Activities, i \in Nat \ {0} : u = Unit(p, a, i)
  BY <1>1, <1>2 DEF Activities
<1> QED BY <1>3 DEF Unit, Units

\* A unit is a unit of its pack.
LEMMA UnitsByPack ==
    ASSUME NEW u \in Units
    PROVE  u.pack \in Packs /\ u \in UnitsOf(u.pack)
BY UnitFields DEF Units

\* A group: units of one pack and activity.
Group(G, p, a) == G \subseteq Units /\ \A u \in G : u.pack = p /\ u.activity = a

\* The units of a pack and an activity are a group.
LEMMA GroupIsGroup ==
    ASSUME NEW S, S \subseteq Units, NEW p, NEW a
    PROVE  /\ Group(GroupOf(S, p, a), p, a) /\ IsFiniteSet(GroupOf(S, p, a))
           /\ GroupOf(S, p, a) \subseteq S
<1>1. GroupOf(S, p, a) \subseteq S
  BY DEF GroupOf
<1>2. IsFiniteSet(GroupOf(S, p, a))
  <2>1. GroupOf(S, p, a) \subseteq Units
    BY <1>1
  <2> QED BY <2>1, UnitsFinite, FS_Subset
<1> QED BY <1>1, <1>2 DEF Group, GroupOf

(* In a group the position tells units apart.                              *)
LEMMA GroupByRef ==
    ASSUME NEW G, NEW p, NEW a, Group(G, p, a), NEW u \in G, NEW v \in G
    PROVE  u.ref \in Nat \ {0} /\ (u.ref = v.ref => u = v)
BY UnitsByPack, UnitFields DEF Group

\* Within a group the positions are keys.
LEMMA RefKeyed ==
    ASSUME NEW G, NEW p, NEW a, Group(G, p, a)
    PROVE  /\ Keyed(G, 1, RefKey(G))
           /\ \A u, v \in G : LexLess(RefKey(G)[u], RefKey(G)[v]) => u.ref < v.ref
<1>1. \A u \in G : RefKey(G)[u] = <<u.ref>> /\ u.ref \in Int
  BY GroupByRef DEF RefKey
<1>2. \A u \in G : RefKey(G)[u] \in Key(1)
  BY <1>1 DEF Key
<1>3. \A u, v \in G : RefKey(G)[u] = RefKey(G)[v] => u = v
  BY <1>1, GroupByRef
<1>4. ASSUME NEW u \in G, NEW v \in G, LexLess(RefKey(G)[u], RefKey(G)[v])
      PROVE  u.ref < v.ref
  BY <1>1, <1>4 DEF LexLess
<1> QED BY <1>2, <1>3, <1>4 DEF Keyed

\* Review states whose due days are numbers.
Dated(review) == DOMAIN review \subseteq Units /\ \A u \in DOMAIN review : review[u].due \in Int

\* The key of a unit with a state: dated before undated, by due day, by position.
LEMMA DueKeyType ==
    ASSUME NEW review, Dated(review), NEW u \in DOMAIN review
    PROVE  /\ DueKey(review, u) \in Key(3)
           /\ DueKey(review, u)[3] = u.ref /\ u.ref \in Nat \ {0}
           /\ review[u].due # Never =>
                DueKey(review, u)[1] = 0 /\ DueKey(review, u)[2] = review[u].due
<1>1. u.ref \in Nat \ {0} /\ review[u].due \in Int
  BY UnitsByPack, UnitFields DEF Dated
<1> QED BY <1>1 DEF DueKey, Key

\* Within a group no two units have one such key.
LEMMA DueKeyed ==
    ASSUME NEW review, Dated(review), NEW S, S \subseteq DOMAIN review,
           NEW G, G \subseteq S, NEW p, NEW a, Group(G, p, a)
    PROVE  Keyed(G, 3, [u \in S |-> DueKey(review, u)])
<1>1. \A u \in G : DueKey(review, u) \in Key(3) /\ DueKey(review, u)[3] = u.ref
  BY DueKeyType
<1>2. \A u, v \in G : DueKey(review, u) = DueKey(review, v) => u = v
  BY <1>1, GroupByRef
<1> QED BY <1>1, <1>2 DEF Keyed

-----------------------------------------------------------------------------
(* Items.                                                                  *)

\* An item as the scheduler makes them out of the units of S.
ItemOver(i, S) ==
    /\ i.pack \in Packs /\ i.activity \in Activities
    /\ i.units # {} /\ IsFiniteSet(i.units)
    /\ i.units \subseteq GroupOf(S, i.pack, i.activity)
    /\ Cardinality(i.units) \in 1 .. MaxMembers[i.activity]

\* Items that share out a group, each a run of it in the order of the keys.
SplitOf(S, p, a, kind, key, specs) ==
    /\ \A i \in specs : ItemOver(i, S) /\ i.pack = p /\ i.activity = a /\ i.kind = kind
    /\ \A i, j \in specs : i # j =>
         /\ i.units \cap j.units = {}
         /\ \/ \A u \in i.units, v \in j.units : LexLess(key[u], key[v])
            \/ \A u \in i.units, v \in j.units : LexLess(key[v], key[u])
    /\ \A u \in GroupOf(S, p, a) : \E i \in specs : u \in i.units

(* The items made of a group: over its chunks, each unit in one of them.   *)
LEMMA SpecsForGroup ==
    ASSUME NEW p \in Packs, NEW a \in Activities, NEW S, S \subseteq Units, NEW kind,
           NEW w \in Nat, NEW key, Keyed(GroupOf(S, p, a), w, key)
    PROVE  SplitOf(S, p, a, kind, key, SpecsFor(GroupOf(S, p, a), p, a, kind, key))
<1> DEFINE G == GroupOf(S, p, a)
           high == MaxMembers[a]
           specs == SpecsFor(G, p, a, kind, key)
           item(c) == [pack |-> p, activity |-> a, kind |-> kind, units |-> c]
<1>1. high \in Nat \ {0}
  BY DEF MaxMembers, Activities
<1>2. IsFiniteSet(G)
  BY GroupIsGroup
<1>3. /\ UNION Chunks(G, high, key) = G
      /\ \A c \in Chunks(G, high, key) :
           c # {} /\ c \subseteq G /\ IsFiniteSet(c) /\ Cardinality(c) \in 1 .. high
      /\ \A c, d \in Chunks(G, high, key) : c # d =>
           \/ \A x \in c, y \in d : LexLess(key[x], key[y])
           \/ \A x \in c, y \in d : LexLess(key[y], key[x])
      /\ \A c, d \in Chunks(G, high, key) : c # d => c \cap d = {}
  <2>1. SharesOut(Chunks(G, high, key), G, high, key)
    <3> HIDE DEF G, high
    <3> QED BY <1>1, <1>2, ChunksSplit DEF G
  <2> HIDE DEF G, high
  <2> QED BY <2>1 DEF SharesOut
<1>4. specs = {item(c) : c \in Chunks(G, high, key)}
  BY DEF SpecsFor
<1>5. \A c : /\ item(c).pack = p /\ item(c).activity = a /\ item(c).kind = kind
             /\ item(c).units = c
  OBVIOUS
<1> HIDE DEF high, specs, item
<1>6. ASSUME NEW i \in specs
      PROVE  ItemOver(i, S) /\ i.pack = p /\ i.activity = a /\ i.kind = kind
  <2>1. PICK c \in Chunks(G, high, key) : i = item(c)
    BY <1>4
  <2>2. i.pack = p /\ i.activity = a /\ i.kind = kind /\ i.units = c
    BY <1>5, <2>1
  <2>3. c # {} /\ c \subseteq G /\ IsFiniteSet(c) /\ Cardinality(c) \in 1 .. high
    BY <1>3
  <2> QED BY <2>2, <2>3 DEF ItemOver, high
<1> HIDE DEF G
<1>7. ASSUME NEW i \in specs, NEW j \in specs, i # j
      PROVE  /\ i.units \cap j.units = {}
             /\ \/ \A u \in i.units, v \in j.units : LexLess(key[u], key[v])
                \/ \A u \in i.units, v \in j.units : LexLess(key[v], key[u])
  <2>1. PICK c \in Chunks(G, high, key) : i = item(c)
    BY <1>4
  <2>2. PICK d \in Chunks(G, high, key) : j = item(d)
    BY <1>4
  <2>3. c # d /\ i.units = c /\ j.units = d
    BY <1>5, <1>7, <2>1, <2>2
  <2> QED BY <1>3, <2>3
<1>8. ASSUME NEW u \in G PROVE \E i \in specs : u \in i.units
  <2>1. PICK c \in Chunks(G, high, key) : u \in c
    BY <1>3
  <2>2. item(c) \in specs /\ item(c).units = c
    BY <1>4, <1>5
  <2> QED BY <2>1, <2>2
<1> QED BY <1>6, <1>7, <1>8 DEF specs, G, SplitOf

(* Items of one group come from one split, so they are apart; those of two  *)
(* groups are over different units.                                        *)
LEMMA ItemsApart ==
    ASSUME NEW S, S \subseteq Units, NEW i, NEW j, ItemOver(i, S), ItemOver(j, S),
           i.pack # j.pack \/ i.activity # j.activity
    PROVE  i.units \cap j.units = {}
BY DEF ItemOver, GroupOf

(* Review items: every unit of S in an enabled pack is in one of them.     *)
LEMMA ReviewItemsFacts ==
    ASSUME NEW enabled, enabled \subseteq Packs, NEW review, Dated(review),
           NEW S, S \subseteq DOMAIN review
    PROVE  LET R == ReviewItems(enabled, S, review)
           IN  /\ \A i \in R : ItemOver(i, S) /\ i.pack \in enabled /\ i.kind = "review"
               /\ \A i, j \in R : i # j => i.units \cap j.units = {}
               /\ \A u \in S : u.pack \in enabled => \E i \in R : u \in i.units
<1> DEFINE key == [u \in S |-> DueKey(review, u)]
           R == ReviewItems(enabled, S, review)
           specs(p, a) == SpecsFor(GroupOf(S, p, a), p, a, "review", key)
<1>1. S \subseteq Units
  BY DEF Dated
<1>2. \A p, a : Keyed(GroupOf(S, p, a), 3, key)
  BY <1>1, GroupIsGroup, DueKeyed
<1>3. \A i : i \in R <=> \E p \in enabled, a \in Activities : i \in specs(p, a)
  <2>1. R = UNION {specs(p, a) : p \in enabled, a \in Activities}
    BY DEF ReviewItems
  <2> HIDE DEF R, specs
  <2> QED BY <2>1
<1> HIDE DEF R
<1>4. \A p \in enabled, a \in Activities :
        /\ \A i \in specs(p, a) : /\ ItemOver(i, S)
                                  /\ i.pack = p /\ i.activity = a /\ i.kind = "review"
        /\ \A i, j \in specs(p, a) : i # j => i.units \cap j.units = {}
        /\ \A u \in GroupOf(S, p, a) : \E i \in specs(p, a) : u \in i.units
  <2> TAKE p \in enabled, a \in Activities
  <2> HIDE DEF key
  <2>1. p \in Packs
    OBVIOUS
  <2>2. SplitOf(S, p, a, "review", key, specs(p, a))
    BY <1>1, <1>2, <2>1, SpecsForGroup
  <2> HIDE DEF specs
  <2> QED BY <2>2 DEF SplitOf
<1> HIDE DEF key, specs
<1>5. ASSUME NEW i \in R, NEW j \in R, i # j PROVE i.units \cap j.units = {}
  <2>1. PICK p \in enabled, a \in Activities : i \in specs(p, a)
    BY <1>3
  <2>2. PICK q \in enabled, b \in Activities : j \in specs(q, b)
    BY <1>3
  <2>3. CASE p = q /\ a = b
    BY <1>4, <1>5, <2>1, <2>2, <2>3
  <2>4. CASE p # q \/ a # b
    BY <1>1, <1>4, <2>1, <2>2, <2>4, ItemsApart
  <2> QED BY <2>3, <2>4
<1>6. ASSUME NEW u \in S, u.pack \in enabled PROVE \E i \in R : u \in i.units
  <2>1. u.activity \in Activities /\ u \in GroupOf(S, u.pack, u.activity)
    BY <1>1, UnitsByPack, UnitFields DEF GroupOf
  <2> QED BY <1>3, <1>4, <1>6, <2>1
<1> QED BY <1>3, <1>4, <1>5, <1>6 DEF R

\* A unit a pack's unseen ones leave without a partner.
Unpaired(u, unseen) ==
    u.activity = "match" /\ Cardinality(GroupOf(unseen, u.pack, "match")) < MATCH_MIN

UnseenIn(enabled, review) == (UNION {UnitsOf(p) : p \in enabled}) \ DOMAIN review

\* The unseen units of a pack are those without a state.
LEMMA UnseenGroup ==
    ASSUME NEW enabled, enabled \subseteq Packs, NEW review, NEW p \in enabled, NEW a
    PROVE  GroupOf(UnseenIn(enabled, review), p, a) = GroupOf(UnitsOf(p) \ DOMAIN review, p, a)
<1>1. ASSUME NEW u \in GroupOf(UnseenIn(enabled, review), p, a)
      PROVE  u \in GroupOf(UnitsOf(p) \ DOMAIN review, p, a)
  <2>1. PICK q \in enabled : u \in UnitsOf(q)
    BY DEF GroupOf, UnseenIn
  <2>2. u.pack = q
    BY <2>1, UnitFields
  <2> QED BY <2>1, <2>2 DEF GroupOf, UnseenIn
<1>2. ASSUME NEW u \in GroupOf(UnitsOf(p) \ DOMAIN review, p, a)
      PROVE  u \in GroupOf(UnseenIn(enabled, review), p, a)
  BY DEF GroupOf, UnseenIn
<1> QED BY <1>1, <1>2

\* New items over the unseen units, apart, and in order within a group.
FreshItems(new, unseen, enabled) ==
    /\ \A i \in new : ItemOver(i, unseen) /\ i.pack \in enabled /\ i.kind = "new"
    /\ \A i, j \in new : i # j => i.units \cap j.units = {}
    /\ \A i, j \in new : i # j /\ i.pack = j.pack /\ i.activity = j.activity =>
         \/ \A u \in i.units, v \in j.units : u.ref < v.ref
         \/ \A u \in i.units, v \in j.units : v.ref < u.ref
    /\ \A u \in unseen : ~Unpaired(u, unseen) => \E i \in new : u \in i.units

(* New items: every unseen unit that can be paired is in one of them, and   *)
(* in a pack and activity the units of one come before those of another.   *)
LEMMA NewMaterialFacts ==
    ASSUME NEW enabled, enabled \subseteq Packs, NEW review
    PROVE  FreshItems(NewMaterialItems(enabled, review), UnseenIn(enabled, review), enabled)
<1> DEFINE N == NewMaterialItems(enabled, review)
           U == UnseenIn(enabled, review)
           specs(p, a) == SpecsFor(GroupOf(U, p, a), p, a, "new", RefKey(GroupOf(U, p, a)))
           Paired(p, a) == a = "match" => Cardinality(GroupOf(U, p, a)) >= MATCH_MIN
<1>1. U \subseteq Units
  BY UnitFields DEF UnseenIn
<1>2. \A i : i \in N <=> \E p \in enabled, a \in Activities : Paired(p, a) /\ i \in specs(p, a)
  <2> DEFINE Unseen(p, a) == GroupOf(UnitsOf(p) \ DOMAIN review, p, a)
             Specs(p, a) == SpecsFor(Unseen(p, a), p, a, "new", RefKey(Unseen(p, a)))
             Groups == {g \in enabled \X Activities :
                          g[2] = "match" => Cardinality(Unseen(g[1], g[2])) >= MATCH_MIN}
  <2>1. N = UNION {Specs(g[1], g[2]) : g \in Groups}
    BY DEF NewMaterialItems
  <2>2. \A p \in enabled, a \in Activities : Unseen(p, a) = GroupOf(U, p, a)
    <3> HIDE DEF U
    <3> QED BY UnseenGroup DEF U
  <2>3. \A p \in enabled, a \in Activities : Specs(p, a) = specs(p, a)
    BY <2>2
  <2>4. \A p \in enabled, a \in Activities : <<p, a>> \in Groups <=> Paired(p, a)
    BY <2>2
  <2> HIDE DEF N, U, Specs, specs, Paired, Unseen
  <2>5. \A g \in Groups : \E p \in enabled, a \in Activities : g = <<p, a>>
    OBVIOUS
  <2> HIDE DEF Groups
  <2>6. \A i : i \in N <=> \E g \in Groups : i \in Specs(g[1], g[2])
    BY <2>1
  <2>7. \A p, a : <<p, a>>[1] = p /\ <<p, a>>[2] = a
    OBVIOUS
  <2>8. ASSUME NEW i \in N
        PROVE  \E p \in enabled, a \in Activities : Paired(p, a) /\ i \in specs(p, a)
    BY <2>3, <2>4, <2>5, <2>6, <2>7, <2>8
  <2>9. ASSUME NEW p \in enabled, NEW a \in Activities, Paired(p, a), NEW i \in specs(p, a)
        PROVE  i \in N
    <3>1. <<p, a>> \in Groups /\ i \in Specs(<<p, a>>[1], <<p, a>>[2])
      BY <2>3, <2>4, <2>9
    <3> QED BY <2>6, <3>1
  <2> QED BY <2>8, <2>9
<1> HIDE DEF N, U
<1>3. \A p, a : /\ Keyed(GroupOf(U, p, a), 1, RefKey(GroupOf(U, p, a)))
                /\ \A u, v \in GroupOf(U, p, a) :
                     LexLess(RefKey(GroupOf(U, p, a))[u], RefKey(GroupOf(U, p, a))[v]) => u.ref < v.ref
  BY <1>1, GroupIsGroup, RefKeyed
<1>4. \A p \in enabled, a \in Activities :
        /\ \A i \in specs(p, a) : /\ ItemOver(i, U)
                                  /\ i.pack = p /\ i.activity = a /\ i.kind = "new"
        /\ \A i, j \in specs(p, a) : i # j =>
             /\ i.units \cap j.units = {}
             /\ \/ \A u \in i.units, v \in j.units : u.ref < v.ref
                \/ \A u \in i.units, v \in j.units : v.ref < u.ref
        /\ \A u \in GroupOf(U, p, a) : \E i \in specs(p, a) : u \in i.units
  <2> TAKE p \in enabled, a \in Activities
  <2> DEFINE key == RefKey(GroupOf(U, p, a))
  <2>1. p \in Packs /\ Keyed(GroupOf(U, p, a), 1, key)
    BY <1>3
  <2>2. \A u, v \in GroupOf(U, p, a) : LexLess(key[u], key[v]) => u.ref < v.ref
    BY <1>3
  <2> HIDE DEF key
  <2>3. /\ \A i \in specs(p, a) : /\ ItemOver(i, U)
                                  /\ i.pack = p /\ i.activity = a /\ i.kind = "new"
        /\ \A i, j \in specs(p, a) : i # j =>
             /\ i.units \cap j.units = {}
             /\ \/ \A u \in i.units, v \in j.units : LexLess(key[u], key[v])
                \/ \A u \in i.units, v \in j.units : LexLess(key[v], key[u])
        /\ \A u \in GroupOf(U, p, a) : \E i \in specs(p, a) : u \in i.units
    <3>1. SplitOf(U, p, a, "new", key, specs(p, a))
      BY <1>1, <2>1, SpecsForGroup DEF key
    <3> HIDE DEF specs
    <3> QED BY <3>1 DEF SplitOf
  <2>4. \A i \in specs(p, a) : i.units \subseteq GroupOf(U, p, a)
    BY <2>3 DEF ItemOver
  <2> QED BY <2>2, <2>3, <2>4
<1>5. ASSUME NEW i \in N, NEW j \in N, i # j
      PROVE  /\ i.units \cap j.units = {}
             /\ i.pack = j.pack /\ i.activity = j.activity =>
                  \/ \A u \in i.units, v \in j.units : u.ref < v.ref
                  \/ \A u \in i.units, v \in j.units : v.ref < u.ref
  <2> HIDE DEF specs, Paired
  <2>1. PICK p \in enabled, a \in Activities : i \in specs(p, a)
    BY <1>2
  <2>2. PICK q \in enabled, b \in Activities : j \in specs(q, b)
    BY <1>2
  <2>3. CASE p = q /\ a = b
    BY <1>4, <1>5, <2>1, <2>2, <2>3
  <2>4. CASE p # q \/ a # b
    BY <1>1, <1>4, <2>1, <2>2, <2>4, ItemsApart
  <2> QED BY <2>3, <2>4
<1>6. ASSUME NEW u \in U, ~Unpaired(u, U) PROVE \E i \in N : u \in i.units
  <2>1. u.activity \in Activities /\ u \in GroupOf(U, u.pack, u.activity)
    BY <1>1, UnitsByPack, UnitFields DEF GroupOf
  <2>2. u.pack \in enabled
    BY UnitFields DEF U, UnseenIn
  <2>3. Paired(u.pack, u.activity)
    <3>1. IsFiniteSet(GroupOf(U, u.pack, "match"))
      BY <1>1, GroupIsGroup
    <3>2. Cardinality(GroupOf(U, u.pack, "match")) \in Nat
      BY <3>1, FS_CardinalityType
    <3> QED BY <1>6, <3>2 DEF Unpaired, MATCH_MIN
  <2> HIDE DEF specs, Paired
  <2> QED BY <1>2, <1>4, <2>1, <2>2, <2>3
<1>7. \A i \in N : ItemOver(i, U) /\ i.pack \in enabled /\ i.kind = "new"
  <2> HIDE DEF specs, Paired
  <2> QED BY <1>2, <1>4
<1> QED BY <1>5, <1>6, <1>7 DEF N, U, FreshItems

-----------------------------------------------------------------------------
(* The sort keys of the items.                                             *)

(* An item's first key is that of its first unit.                          *)
LEMMA FirstKeyFacts ==
    ASSUME NEW review, Dated(review), NEW S, S \subseteq DOMAIN review,
           NEW i, ItemOver(i, S)
    PROVE  \E u \in i.units :
              /\ FirstKey(i.units, review) = DueKey(review, u)
              /\ \A v \in i.units \ {u} : LexLess(DueKey(review, u), DueKey(review, v))
<1> DEFINE G == i.units
           key == [u \in G |-> DueKey(review, u)]
<1>1. /\ G \subseteq DOMAIN review /\ IsFiniteSet(G) /\ G # {}
      /\ Group(G, i.pack, i.activity)
  BY DEF ItemOver, GroupOf, Group, Dated
<1>2. Keyed(G, 3, key)
  BY <1>1, DueKeyed
<1>3. \E u \in G : \A v \in G \ {u} : LexLess(key[u], key[v])
  <2> HIDE DEF key, G
  <2> QED BY <1>1, <1>2, LexFirst
<1>4. \E u \in G : \A v \in G \ {u} : LexLess(DueKey(review, u), DueKey(review, v))
  BY <1>3
<1> DEFINE First(u) == \A v \in G \ {u} : LexLess(DueKey(review, u), DueKey(review, v))
           first == CHOOSE u \in G : First(u)
<1>5. first \in G /\ First(first)
  <2> HIDE DEF G
  <2> QED BY <1>4
<1>6. FirstKey(G, review) = DueKey(review, first)
  BY DEF FirstKey
<1> QED
  <2> HIDE DEF first
  <2> QED BY <1>5, <1>6

(* So is the key under which a group was met.                              *)
LEMMA MetType ==
    ASSUME NEW review, Dated(review), NEW G, G \subseteq DOMAIN review, G # {},
           NEW p, NEW a, Group(G, p, a)
    PROVE  LET keys == {DueKey(review, u) : u \in G}
               met == CHOOSE k \in keys : \A l \in keys \ {k} : LexLess(k, l)
           IN  met \in Key(3)
<1> DEFINE key == [u \in G |-> DueKey(review, u)]
           keys == {DueKey(review, u) : u \in G}
           Before(k) == \A l \in keys \ {k} : LexLess(k, l)
           met == CHOOSE k \in keys : Before(k)
<1>1. IsFiniteSet(G)
  BY UnitsFinite, FS_Subset DEF Group
<1>2. Keyed(G, 3, key)
  BY DueKeyed
<1>3. PICK u \in G : \A v \in G \ {u} : LexLess(key[u], key[v])
  <2> HIDE DEF key
  <2> QED BY <1>1, <1>2, LexFirst
<1>4. key[u] \in keys /\ Before(key[u])
  BY <1>3
<1>5. met \in keys
  <2> HIDE DEF keys, key
  <2> QED BY <1>4
<1>6. \A k \in keys : k \in Key(3)
  BY DueKeyType
<1>7. met \in Key(3)
  <2> HIDE DEF met, keys
  <2> QED BY <1>5, <1>6
<1> QED BY <1>7

\* The parts of the key of a review item.
LEMMA ReviewItemKeyFacts ==
    ASSUME NEW review, Dated(review), NEW S, S \subseteq DOMAIN review,
           NEW i, ItemOver(i, S), NEW tie \in Ties
    PROVE  LET k == ReviewItemKey(i, S, review, tie)
               lead == FirstKey(i.units, review)
           IN  /\ k \in Key(8)
               /\ k[1] = 0 /\ k[2] = lead[1] /\ k[3] = lead[2] /\ k[4] = i.pack
               /\ k[5] = lead[3] /\ k[8] = tie[i.activity]
<1> DEFINE lead == FirstKey(i.units, review)
           group == {DueKey(review, u) : u \in GroupOf(S, i.pack, i.activity)}
           met == CHOOSE k \in group : \A l \in group \ {k} : LexLess(k, l)
<1>1. lead \in Key(3)
  <2>1. PICK u \in i.units : lead = DueKey(review, u)
    BY FirstKeyFacts
  <2>2. u \in DOMAIN review
    BY DEF ItemOver, GroupOf
  <2> HIDE DEF lead
  <2> QED BY <2>1, <2>2, DueKeyType
<1>2. met \in Key(3)
  <2> DEFINE G == GroupOf(S, i.pack, i.activity)
  <2>1. G \subseteq DOMAIN review /\ G # {} /\ Group(G, i.pack, i.activity)
    BY DEF ItemOver, GroupOf, Group, Dated
  <2> HIDE DEF G
  <2>2. LET keys == {DueKey(review, u) : u \in G}
        IN  (CHOOSE k \in keys : \A l \in keys \ {k} : LexLess(k, l)) \in Key(3)
    BY <2>1, MetType
  <2> QED BY <2>2 DEF G
<1>3. ReviewItemKey(i, S, review, tie) =
        <<0, lead[1], lead[2], i.pack, lead[3], met[1], met[2], tie[i.activity]>>
  BY DEF ReviewItemKey
<1>4. i.pack \in Int
  <2> HIDE DEF lead, met, group
  <2> QED BY PacksAreNumbers DEF ItemOver
<1>5. tie[i.activity] \in Int
  BY DEF Ties, ItemOver
<1> HIDE DEF lead, met
<1>6. /\ lead[1] \in Int /\ lead[2] \in Int /\ lead[3] \in Int
      /\ met[1] \in Int /\ met[2] \in Int
  BY <1>1, <1>2 DEF Key
<1> DEFINE k == ReviewItemKey(i, S, review, tie)
<1>7. k \in [1 .. 8 -> Int]
  BY <1>3, <1>4, <1>5, <1>6
<1>8. /\ k[1] = 0 /\ k[2] = lead[1] /\ k[3] = lead[2] /\ k[4] = i.pack
      /\ k[5] = lead[3] /\ k[8] = tie[i.activity]
  BY <1>3
<1> QED BY <1>7, <1>8 DEF Key, lead

\* The least position of an item's units.
Foremost(i) == Min({u.ref : u \in i.units})

\* The parts of the key of an item of new material.
LEMMA NewItemKeyFacts ==
    ASSUME NEW S, S \subseteq Units, NEW i, ItemOver(i, S)
    PROVE  /\ NewItemKey(i) \in Key(8)
           /\ NewItemKey(i)[1] = 1 /\ NewItemKey(i)[2] = i.pack
           /\ NewItemKey(i)[3] = ActivityOrder[i.activity]
           /\ NewItemKey(i)[4] = Foremost(i)
           /\ \E u \in i.units : u.ref = Foremost(i)
           /\ \A u \in i.units : u.ref \in Nat /\ u.ref >= Foremost(i)
           /\ ActivityOrder[i.activity] \in 1 .. 3
<1> DEFINE ref == [u \in i.units |-> u.ref]
           refs == {ref[u] : u \in i.units}
<1>1. /\ IsFiniteSet(i.units) /\ i.units # {}
      /\ \A u \in i.units : u.ref \in Nat
  BY UnitsByPack, UnitFields DEF ItemOver, GroupOf
<1>2. IsFiniteSet(refs)
  <2> HIDE DEF ref
  <2> QED BY <1>1, ImageOfFinite
<1>3. refs = {u.ref : u \in i.units}
  OBVIOUS
<1>4. refs \subseteq Int /\ refs # {}
  <2>1. \A u \in i.units : ref[u] \in Int
    BY <1>1
  <2>2. PICK u \in i.units : TRUE
    BY <1>1
  <2>3. ref[u] \in refs
    OBVIOUS
  <2> HIDE DEF ref
  <2> QED BY <2>1, <2>3
<1>5. Min(refs) \in refs /\ \A r \in refs : Min(refs) <= r
  <2> HIDE DEF refs
  <2> QED BY <1>2, <1>4, MinOfFinite
<1>6. Foremost(i) = Min(refs)
  BY <1>3 DEF Foremost
<1> HIDE DEF refs
<1>7. /\ \E u \in i.units : u.ref = Foremost(i)
      /\ \A u \in i.units : u.ref >= Foremost(i)
  BY <1>3, <1>5, <1>6
<1>8. i.pack \in Int /\ ActivityOrder[i.activity] \in 1 .. 3 /\ Foremost(i) \in Int
  <2>1. i.pack \in Int
    BY PacksAreNumbers DEF ItemOver
  <2>2. i.activity = "trace" \/ i.activity = "match" \/ i.activity = "sentence"
    BY DEF ItemOver, Activities
  <2>3. ActivityOrder[i.activity] \in 1 .. 3
    BY <2>2 DEF ActivityOrder
  <2>4. Foremost(i) \in Int
    BY <1>1, <1>7
  <2> QED BY <2>1, <2>3, <2>4
<1> DEFINE k == NewItemKey(i)
<1>9. k = <<1, i.pack, ActivityOrder[i.activity], Foremost(i), 0, 0, 0, 0>>
  BY DEF NewItemKey, Foremost
<1>10. k \in [1 .. 8 -> Int]
  BY <1>8, <1>9
<1> QED BY <1>1, <1>7, <1>8, <1>9, <1>10 DEF Key

-----------------------------------------------------------------------------
(* The candidates for the batch.                                           *)

KnownIn(enabled, review) == {u \in DOMAIN review : u.pack \in enabled}
DueIn(enabled, review, now) == {u \in KnownIn(enabled, review) : IsDue(review[u], now)}

Wanted(enabled, review, now) ==
    ReviewItems(enabled, DueIn(enabled, review, now), review)
        \cup NewMaterialItems(enabled, review)

\* What is reviewed: the due units, or, with nothing wanted, all known ones.
Source(enabled, review, now) ==
    IF Wanted(enabled, review, now) = {} THEN KnownIn(enabled, review)
                                         ELSE DueIn(enabled, review, now)

Candidates(enabled, review, now) ==
    IF Wanted(enabled, review, now) = {}
    THEN ReviewItems(enabled, KnownIn(enabled, review), review)
    ELSE Wanted(enabled, review, now)

CandidateKey(enabled, review, now, tie) ==
    [item \in Candidates(enabled, review, now) |->
        IF item.kind = "new"
        THEN NewItemKey(item)
        ELSE ReviewItemKey(item, Source(enabled, review, now), review, tie)]

(* The batch is the first BatchSize candidates, in the order of their keys. *)
LEMMA BatchIsPrefix ==
    ASSUME NEW enabled, NEW review, NEW now, NEW tie
    PROVE  LET C == Candidates(enabled, review, now)
               key == CandidateKey(enabled, review, now, tie)
           IN  GenerateBatch(enabled, review, now, tie) =
                 {[spec |-> item, offset |-> IndexIn(C, item, key) + 1] :
                    item \in {c \in C : IndexIn(C, c, key) + 1 <= BatchSize}}
BY DEF GenerateBatch, Candidates, CandidateKey, Source, Wanted, KnownIn, DueIn

\* An item in its own right: over source if a review, over unseen if new.
Proper(i, source, unseen) ==
    \/ i.kind = "review" /\ ItemOver(i, source)
    \/ i.kind = "new" /\ ItemOver(i, unseen)

\* Candidates: proper items of the enabled packs, no unit in two of them, new
\* ones in order within a group, with all that is due and can be learnt; and
\* reviews of due units only while there is any such unit.
Apart(C, enabled, source, due, unseen) ==
    /\ \A i \in C : i.pack \in enabled /\ Proper(i, source, unseen)
    /\ \A i, j \in C : i # j => i.units \cap j.units = {}
    /\ \A i, j \in C :
         /\ i # j /\ i.kind = "new" /\ j.kind = "new"
         /\ i.pack = j.pack /\ i.activity = j.activity
         => \/ \A u \in i.units, v \in j.units : u.ref < v.ref
            \/ \A u \in i.units, v \in j.units : v.ref < u.ref
    /\ \A u \in due : \E i \in C : u \in i.units
    /\ \A u \in unseen : ~Unpaired(u, unseen) => \E i \in C : u \in i.units
    /\ due # {} \/ (\E u \in unseen : ~Unpaired(u, unseen)) => source = due

\* The candidates for a batch share no unit, and cover what they are made of.
LEMMA CandidatesFacts ==
    ASSUME NEW enabled, enabled \subseteq Packs, NEW review, Dated(review), NEW now
    PROVE  Apart(Candidates(enabled, review, now), enabled, Source(enabled, review, now),
                 DueIn(enabled, review, now), UnseenIn(enabled, review))
<1> DEFINE C == Candidates(enabled, review, now)
           known == KnownIn(enabled, review)
           due == DueIn(enabled, review, now)
           U == UnseenIn(enabled, review)
           W == Wanted(enabled, review, now)
           N == NewMaterialItems(enabled, review)
           source == Source(enabled, review, now)
<1>1. /\ known \subseteq DOMAIN review /\ due \subseteq known
      /\ \A u \in known : u.pack \in enabled /\ u \notin U
  BY DEF KnownIn, DueIn, UnseenIn
<1>2. \A S \in SUBSET known :
        /\ \A i \in ReviewItems(enabled, S, review) :
              ItemOver(i, S) /\ i.pack \in enabled /\ i.kind = "review"
        /\ \A i, j \in ReviewItems(enabled, S, review) : i # j => i.units \cap j.units = {}
        /\ \A u \in S : \E i \in ReviewItems(enabled, S, review) : u \in i.units
  <2> TAKE S \in SUBSET known
  <2>1. S \subseteq DOMAIN review /\ \A u \in S : u.pack \in enabled
    BY <1>1
  <2> HIDE DEF known
  <2> DEFINE R == ReviewItems(enabled, S, review)
  <2>2. \A i \in R : ItemOver(i, S) /\ i.pack \in enabled /\ i.kind = "review"
    BY <2>1, ReviewItemsFacts
  <2>3. \A i, j \in R : i # j => i.units \cap j.units = {}
    BY <2>1, ReviewItemsFacts
  <2>4. \A u \in S : \E i \in R : u \in i.units
    BY <2>1, ReviewItemsFacts
  <2> HIDE DEF R
  <2> QED BY <2>2, <2>3, <2>4 DEF R
<1>3. /\ \A i \in N : ItemOver(i, U) /\ i.pack \in enabled /\ i.kind = "new"
      /\ \A i, j \in N : i # j => i.units \cap j.units = {}
      /\ \A i, j \in N : i # j /\ i.pack = j.pack /\ i.activity = j.activity =>
           \/ \A u \in i.units, v \in j.units : u.ref < v.ref
           \/ \A u \in i.units, v \in j.units : v.ref < u.ref
      /\ \A u \in U : ~Unpaired(u, U) => \E i \in N : u \in i.units
  <2>1. FreshItems(N, U, enabled)
    BY NewMaterialFacts
  <2> HIDE DEF N, U
  <2> QED BY <2>1 DEF FreshItems
<1>4. /\ W = ReviewItems(enabled, due, review) \cup N
      /\ W # {} => C = W /\ source = due
      /\ W = {} => C = ReviewItems(enabled, known, review) /\ source = known
  BY DEF Wanted, Candidates, Source
<1>5. \A i, S : ItemOver(i, S) => i.units \subseteq S
  BY DEF ItemOver, GroupOf
<1> HIDE DEF C, known, due, U, W, N, source
<1>6. CASE W # {}
  <2>1. \A i \in C : \/ i \in ReviewItems(enabled, due, review) /\ ItemOver(i, due)
                        /\ i.pack \in enabled /\ i.kind = "review" /\ i.units \subseteq due
                     \/ i \in N /\ ItemOver(i, U)
                        /\ i.pack \in enabled /\ i.kind = "new" /\ i.units \subseteq U
    BY <1>1, <1>2, <1>3, <1>4, <1>5, <1>6
  <2>2. \A i \in C : i.pack \in enabled /\ Proper(i, source, U)
    BY <1>4, <1>6, <2>1 DEF Proper
  <2>3. due \cap U = {}
    BY <1>1
  <2>4. \A i, j \in C : i # j => i.units \cap j.units = {}
    BY <1>1, <1>2, <1>3, <2>1, <2>3
  <2>5. \A i, j \in C :
          /\ i # j /\ i.kind = "new" /\ j.kind = "new"
          /\ i.pack = j.pack /\ i.activity = j.activity
          => \/ \A u \in i.units, v \in j.units : u.ref < v.ref
             \/ \A u \in i.units, v \in j.units : v.ref < u.ref
    BY <1>3, <2>1
  <2>6. /\ \A u \in due : \E i \in C : u \in i.units
        /\ \A u \in U : ~Unpaired(u, U) => \E i \in C : u \in i.units
    BY <1>1, <1>2, <1>3, <1>4, <1>6
  <2> QED BY <1>4, <1>6, <2>2, <2>4, <2>5, <2>6 DEF C, due, U, source, Apart
<1>7. CASE W = {}
  <2>1. \A i \in C : /\ ItemOver(i, known) /\ i.pack \in enabled /\ i.kind = "review"
                     /\ i \in ReviewItems(enabled, known, review)
    BY <1>2, <1>4, <1>7
  <2>2. \A i \in C : i.pack \in enabled /\ Proper(i, source, U)
    BY <1>4, <1>7, <2>1 DEF Proper
  <2>3. \A i, j \in C : i # j => i.units \cap j.units = {}
    BY <1>2, <2>1
  <2>4. due = {} /\ \A u \in U : Unpaired(u, U)
    BY <1>1, <1>2, <1>3, <1>4, <1>7
  <2>5. \A i, j \in C : ~(i.kind = "new")
    BY <2>1
  <2> QED BY <2>2, <2>3, <2>4, <2>5 DEF C, due, U, source, Apart
<1> QED BY <1>6, <1>7

(* With no candidate at all there is no unit to learn: a character left     *)
(* without a partner to match can still be traced.                         *)
LEMMA NoCandidateNoUnit ==
    ASSUME NEW enabled, enabled \subseteq Packs, NEW review, Dated(review), NEW now,
           Candidates(enabled, review, now) = {}, NEW p \in enabled
    PROVE  UnitsOf(p) = {}
<1> DEFINE U == UnseenIn(enabled, review)
<1>1. \A u \in U : Unpaired(u, U)
  <2>1. Apart(Candidates(enabled, review, now), enabled, Source(enabled, review, now),
              DueIn(enabled, review, now), U)
    BY CandidatesFacts
  <2> HIDE DEF U
  <2> QED BY <2>1 DEF Apart
<1>2. KnownIn(enabled, review) = {}
  <2>1. ReviewItems(enabled, KnownIn(enabled, review), review) = {}
    BY DEF Candidates
  <2>2. KnownIn(enabled, review) \subseteq DOMAIN review
        /\ \A u \in KnownIn(enabled, review) : u.pack \in enabled
    BY DEF KnownIn
  <2> QED BY <2>1, <2>2, ReviewItemsFacts
<1>3. ASSUME NEW u \in UnitsOf(p) PROVE u \in U /\ u.activity = "match"
  <2>1. p \in Packs /\ u.pack = p
    BY UnitFields
  <2>2. u \notin DOMAIN review
    BY <1>2, <2>1 DEF KnownIn
  <2>3. u \in U
    BY <2>2 DEF UnseenIn
  <2> HIDE DEF U
  <2> QED BY <1>1, <2>3 DEF Unpaired
<1>4. ASSUME NEW u \in UnitsOf(p) PROVE FALSE
  <2>1. u.activity = "match" /\ p \in Packs
    BY <1>3
  <2>2. u.ref \in 1 .. NumChars[p]
    <3>1. \/ \E a \in {"trace", "match"}, i \in 1 .. NumChars[p] : u = Unit(p, a, i)
          \/ \E i \in 1 .. NumSentences[p] : u = Unit(p, "sentence", i)
      BY DEF UnitsOf
    <3>2. \A i : Unit(p, "sentence", i).activity = "sentence"
      BY DEF Unit
    <3>3. \A a, i : Unit(p, a, i).ref = i
      BY DEF Unit
    <3> QED BY <2>1, <3>1, <3>2, <3>3
  <2>3. Unit(p, "trace", u.ref) \in UnitsOf(p)
    BY <2>2 DEF UnitsOf
  <2>4. Unit(p, "trace", u.ref).activity = "trace"
    BY DEF Unit
  <2> HIDE DEF U
  <2> QED BY <1>3, <2>3, <2>4
<1> QED BY <1>4

(* No two candidates have the same key: a review's holds its pack, its      *)
(* activity (by the tie) and a position, a new item's the same.             *)
LEMMA CandidatesKeyed ==
    ASSUME NEW enabled, enabled \subseteq Packs, NEW review, Dated(review), NEW now,
           NEW tie \in Ties
    PROVE  /\ IsFiniteSet(Candidates(enabled, review, now))
           /\ Keyed(Candidates(enabled, review, now), 8, CandidateKey(enabled, review, now, tie))
<1> DEFINE C == Candidates(enabled, review, now)
           key == CandidateKey(enabled, review, now, tie)
           source == Source(enabled, review, now)
           U == UnseenIn(enabled, review)
<1>1. /\ \A i \in C : i.pack \in enabled /\ Proper(i, source, U)
      /\ \A i, j \in C : i # j => i.units \cap j.units = {}
  <2>1. Apart(C, enabled, source, DueIn(enabled, review, now), U)
    BY CandidatesFacts
  <2> HIDE DEF C, source, U
  <2> QED BY <2>1 DEF Apart
<1>2. source \subseteq DOMAIN review /\ U \subseteq Units
  BY UnitFields DEF Source, KnownIn, DueIn, UnseenIn
<1>3. \A i \in C : key[i] = IF i.kind = "new" THEN NewItemKey(i)
                            ELSE ReviewItemKey(i, source, review, tie)
  BY DEF CandidateKey
<1>4. IsFiniteSet(C)
  <2>1. C \subseteq ItemSpec
    <3>1. KnownIn(enabled, review) \subseteq Units /\ DueIn(enabled, review, now) \subseteq Units
      BY DEF KnownIn, DueIn, Dated
    <3>2. \A i \in ReviewItems(enabled, KnownIn(enabled, review), review) : i \in ItemSpec
      BY <3>1, ReviewItemsType
    <3>3. \A i \in ReviewItems(enabled, DueIn(enabled, review, now), review) : i \in ItemSpec
      BY <3>1, ReviewItemsType
    <3>4. \A i \in NewMaterialItems(enabled, review) : i \in ItemSpec
      BY NewMaterialItemsType
    <3> QED BY <3>2, <3>3, <3>4 DEF Candidates, Wanted
  <2> HIDE DEF C
  <2> QED BY <2>1, ItemSpecFinite, FS_Subset
<1> HIDE DEF C, key, source, U
<1>5. \A i \in C : key[i] \in Key(8) /\ key[i][1] = IF i.kind = "new" THEN 1 ELSE 0
  <2> TAKE i \in C
  <2>1. CASE i.kind = "new"
    BY <1>1, <1>2, <1>3, <2>1, NewItemKeyFacts, SMTT(30) DEF Proper
  <2>2. CASE i.kind # "new"
    <3>1. ItemOver(i, source)
      BY <1>1, <2>2 DEF Proper
    <3>2. key[i] = ReviewItemKey(i, source, review, tie)
      BY <1>3, <2>2
    <3> QED BY <1>2, <2>2, <3>1, <3>2, ReviewItemKeyFacts
  <2> QED BY <2>1, <2>2
<1>6. ASSUME NEW i \in C, NEW j \in C, key[i] = key[j] PROVE i = j
  <2>1. i.kind = "new" <=> j.kind = "new"
    BY <1>5, <1>6
  <2>2. CASE i.kind = "new"
    <3>1. ItemOver(i, U) /\ ItemOver(j, U) /\ key[i] = NewItemKey(i) /\ key[j] = NewItemKey(j)
      BY <1>1, <1>3, <2>1, <2>2 DEF Proper
    <3>2. /\ i.pack = j.pack /\ ActivityOrder[i.activity] = ActivityOrder[j.activity]
          /\ Foremost(i) = Foremost(j)
      BY <1>2, <1>6, <3>1, NewItemKeyFacts
    <3>3. i.activity = j.activity
      BY <3>1, <3>2 DEF ActivityOrder, Activities, ItemOver
    <3>4. PICK u \in i.units : u.ref = Foremost(i)
      BY <1>2, <3>1, NewItemKeyFacts
    <3>5. PICK v \in j.units : v.ref = Foremost(j)
      BY <1>2, <3>1, NewItemKeyFacts
    <3>6. u = v
      <4>1. Group(GroupOf(U, i.pack, i.activity), i.pack, i.activity)
        BY <1>2, GroupIsGroup
      <4>2. u \in GroupOf(U, i.pack, i.activity) /\ v \in GroupOf(U, i.pack, i.activity)
        BY <3>1, <3>2, <3>3 DEF ItemOver
      <4> QED BY <3>2, <3>4, <3>5, <4>1, <4>2, GroupByRef
    <3> QED BY <1>1, <3>6
  <2>3. CASE i.kind # "new"
    <3>1. /\ ItemOver(i, source) /\ ItemOver(j, source)
          /\ key[i] = ReviewItemKey(i, source, review, tie)
          /\ key[j] = ReviewItemKey(j, source, review, tie)
      BY <1>1, <1>3, <2>1, <2>3 DEF Proper
    <3>2. /\ i.pack = j.pack /\ tie[i.activity] = tie[j.activity]
          /\ FirstKey(i.units, review)[3] = FirstKey(j.units, review)[3]
      <4>1. /\ key[i][4] = i.pack /\ key[i][8] = tie[i.activity]
            /\ key[i][5] = FirstKey(i.units, review)[3]
        BY <1>2, <3>1, ReviewItemKeyFacts
      <4>2. /\ key[j][4] = j.pack /\ key[j][8] = tie[j.activity]
            /\ key[j][5] = FirstKey(j.units, review)[3]
        BY <1>2, <3>1, ReviewItemKeyFacts
      <4> QED BY <1>6, <4>1, <4>2
    <3>3. i.activity = j.activity
      BY <3>1, <3>2 DEF Ties, ItemOver
    <3>4. PICK u \in i.units : FirstKey(i.units, review) = DueKey(review, u)
      BY <1>2, <3>1, FirstKeyFacts
    <3>5. PICK v \in j.units : FirstKey(j.units, review) = DueKey(review, v)
      BY <1>2, <3>1, FirstKeyFacts
    <3>6. u = v
      <4>1. Group(GroupOf(source, i.pack, i.activity), i.pack, i.activity)
        BY <1>2, GroupIsGroup DEF Dated
      <4>2. u \in GroupOf(source, i.pack, i.activity) /\ v \in GroupOf(source, i.pack, i.activity)
        BY <3>1, <3>2, <3>3 DEF ItemOver
      <4>3. u \in DOMAIN review /\ v \in DOMAIN review
        BY <1>2, <4>2 DEF GroupOf
      <4>4. DueKey(review, u)[3] = u.ref /\ DueKey(review, v)[3] = v.ref
        BY <4>3, DueKeyType
      <4> QED BY <3>2, <3>4, <3>5, <4>1, <4>2, <4>4, GroupByRef
    <3> QED BY <1>1, <3>6
  <2> QED BY <2>2, <2>3
<1> QED BY <1>4, <1>5, <1>6 DEF Keyed, C, key

-----------------------------------------------------------------------------
(* The batch.                                                              *)

\* The first of the candidates, at the offsets 1, 2, ... in the order of keys.
PrefixOf(batch, C, key) ==
    /\ IsFiniteSet(batch) /\ Cardinality(batch) <= BatchSize
    /\ {b.offset : b \in batch} = 1 .. Cardinality(batch)
    /\ \A b \in batch : b.spec \in C /\ b.offset \in Nat \ {0}
    /\ \A b, c \in batch : /\ b.offset = c.offset => b = c
                           /\ b.spec = c.spec => b = c
                           /\ b.offset < c.offset => LexLess(key[b.spec], key[c.spec])
    /\ Cardinality(batch) < BatchSize => \A i \in C : \E b \in batch : b.spec = i
    /\ batch = {} => C = {}

\* A batch is the first of its candidates, as many as fit.
LEMMA BatchIsPrefixOf ==
    ASSUME NEW enabled, enabled \subseteq Packs, NEW review, Dated(review), NEW now,
           NEW tie \in Ties
    PROVE  PrefixOf(GenerateBatch(enabled, review, now, tie),
                    Candidates(enabled, review, now), CandidateKey(enabled, review, now, tie))
<1> DEFINE C == Candidates(enabled, review, now)
           key == CandidateKey(enabled, review, now, tie)
           Place(i) == IndexIn(C, i, key) + 1
           chosen == {c \in C : Place(c) <= BatchSize}
           entry(i) == [spec |-> i, offset |-> Place(i)]
           batch == GenerateBatch(enabled, review, now, tie)
           n == Cardinality(C)
           last == IF n <= BatchSize THEN n ELSE BatchSize
<1>1. batch = {entry(i) : i \in chosen}
  BY BatchIsPrefix
<1>2. IsFiniteSet(C) /\ Keyed(C, 8, key)
  BY CandidatesKeyed
<1>3. n \in Nat
  <2> HIDE DEF C
  <2> QED BY <1>2, FS_CardinalityType
<1>4. BatchSize \in Nat \ {0}
  BY CurriculumAssumption
<1>5. /\ \A i \in C : Place(i) \in 1 .. n
      /\ \A i, j \in C : /\ Place(i) = Place(j) => i = j
                         /\ Place(i) < Place(j) => LexLess(key[i], key[j])
      /\ \A k \in 1 .. n : \E i \in C : Place(i) = k
  <2> HIDE DEF C, key
  <2>1. \A i \in C : IndexIn(C, i, key) \in 0 .. n - 1
    BY <1>2, IndexOrder
  <2>2. \A i, j \in C : /\ IndexIn(C, i, key) < IndexIn(C, j, key) <=> LexLess(key[i], key[j])
                        /\ IndexIn(C, i, key) = IndexIn(C, j, key) => i = j
    BY <1>2, IndexLess
  <2>3. \A k \in 0 .. n - 1 : \E i \in C : IndexIn(C, i, key) = k
    BY <1>2, IndexOnto
  <2> HIDE DEF n
  <2>4. \A i \in C : IndexIn(C, i, key) \in Int /\ Place(i) \in 1 .. n
    BY <1>3, <2>1
  <2>5. \A i, j \in C : /\ Place(i) = Place(j) => i = j
                        /\ Place(i) < Place(j) => LexLess(key[i], key[j])
    BY <2>2, <2>4
  <2>6. ASSUME NEW k \in 1 .. n PROVE \E i \in C : Place(i) = k
    <3>1. k - 1 \in 0 .. n - 1
      BY <1>3
    <3>2. PICK i \in C : IndexIn(C, i, key) = k - 1
      BY <2>3, <3>1
    <3> QED BY <3>2
  <2> QED BY <2>4, <2>5, <2>6
<1>6. \A i : entry(i).spec = i /\ entry(i).offset = Place(i)
  OBVIOUS
<1> HIDE DEF C, key, Place, entry, batch, n
<1>7. \A b \in batch : \E i \in C : b = entry(i) /\ b.spec = i /\ b.offset = Place(i)
                                    /\ Place(i) <= BatchSize
  BY <1>1, <1>6
<1>8. \A i \in C : Place(i) <= BatchSize =>
        \E b \in batch : b.spec = i /\ b.offset = Place(i)
  BY <1>1, <1>6
<1>9. last \in Nat /\ last <= BatchSize /\ last <= n
  BY <1>3, <1>4
<1>10. \A b, c \in batch : /\ b.offset = c.offset => b = c
                           /\ b.spec = c.spec => b = c
                           /\ b.offset < c.offset => LexLess(key[b.spec], key[c.spec])
  BY <1>5, <1>7
<1>11. \A b \in batch : b.spec \in C /\ b.offset \in 1 .. last
  BY <1>3, <1>4, <1>5, <1>7
<1>12. \A k \in 1 .. last : \E b \in batch : b.offset = k
  <2> TAKE k \in 1 .. last
  <2>1. k \in 1 .. n /\ k <= BatchSize
    BY <1>3, <1>4, <1>9
  <2>2. PICK i \in C : Place(i) = k
    BY <1>5, <2>1
  <2> QED BY <1>8, <2>1, <2>2
<1>13. {b.offset : b \in batch} = 1 .. last
  BY <1>11, <1>12
<1>14. IsFiniteSet(batch) /\ Cardinality(batch) = last
  <2> DEFINE at == [b \in batch |-> b.offset]
  <2>1. at \in Bijection(batch, 1 .. last)
    BY <1>10, <1>11, <1>12 DEF Bijection, Injection, Surjection, IsInjective
  <2>2. IsFiniteSet(chosen)
    BY <1>2, FS_Subset
  <2>3. IsFiniteSet(batch)
    <3> DEFINE f == [i \in chosen |-> entry(i)]
    <3>1. batch = {f[i] : i \in chosen}
      BY <1>1
    <3> HIDE DEF f, chosen
    <3> QED BY <2>2, <3>1, ImageOfFinite
  <2>4. IsFiniteSet(1 .. last) /\ Cardinality(1 .. last) = last
    <3>1. 1 \in Int /\ last \in Int /\ (1 > last => last = 0)
      BY <1>9
    <3>2. /\ IsFiniteSet(1 .. last)
          /\ Cardinality(1 .. last) = IF 1 > last THEN 0 ELSE last - 1 + 1
      <4> HIDE DEF last
      <4> QED BY <3>1, FS_Interval, Zenon
    <3> HIDE DEF last
    <3> QED BY <3>1, <3>2
  <2>5. Cardinality(1 .. last) = Cardinality(batch)
    <3> HIDE DEF at, last
    <3> QED BY <2>1, <2>3, FS_Bijection DEF ExistsBijection
  <2> QED BY <2>3, <2>4, <2>5
<1>15. Cardinality(batch) < BatchSize => \A i \in C : \E b \in batch : b.spec = i
  <2> SUFFICES ASSUME last < BatchSize, NEW i \in C PROVE \E b \in batch : b.spec = i
    BY <1>14
  <2>1. Place(i) \in 1 .. n /\ n <= BatchSize
    BY <1>3, <1>4, <1>5
  <2> QED BY <1>3, <1>4, <1>8, <2>1
<1>16. batch = {} => C = {}
  <2> SUFFICES ASSUME batch = {}, NEW i \in C PROVE FALSE
    OBVIOUS
  <2>1. Place(i) \in 1 .. n
    BY <1>5
  <2>2. 1 \in 1 .. last
    BY <1>3, <1>4, <2>1
  <2> QED BY <1>12, <2>2
<1> HIDE DEF last
<1> QED BY <1>4, <1>9, <1>10, <1>11, <1>13, <1>14, <1>15, <1>16 DEF PrefixOf, C, key, batch

(* The orders in which the code may meet tied groups are orders.            *)
LEMMA OrdersAreTies ==
    ActivityOrder \in Ties /\ [a \in Activities |-> 4 - ActivityOrder[a]] \in Ties
<1>1. /\ ActivityOrder = [a \in Activities |-> ActivityOrder[a]]
      /\ ActivityOrder["trace"] = 1 /\ ActivityOrder["match"] = 2
      /\ ActivityOrder["sentence"] = 3
  BY DEF ActivityOrder, Activities
<1>2. \A a \in Activities : /\ ActivityOrder[a] \in 1 .. 3
                            /\ a = "trace" \/ a = "match" \/ a = "sentence"
  BY <1>1 DEF Activities
<1>3. \A a, b \in Activities : a # b => ActivityOrder[a] # ActivityOrder[b]
  BY <1>1, <1>2
<1>4. ActivityOrder \in Ties
  BY <1>1, <1>2, <1>3 DEF Ties
<1>5. \A a, b \in Activities : a # b => 4 - ActivityOrder[a] # 4 - ActivityOrder[b]
  BY <1>2, <1>3
<1>6. \A a \in Activities : 4 - ActivityOrder[a] \in 1 .. 3
  BY <1>2
<1> QED BY <1>4, <1>5, <1>6 DEF Ties

-----------------------------------------------------------------------------
(* The batch as the path service uses it.                                  *)

\* A lesson over units of one enabled pack, unseen if it is new.
Lesson(spec, enabled, review) ==
    /\ spec \in ItemSpec /\ spec.pack \in enabled
    /\ spec.units # {} /\ spec.units \subseteq UnitsOf(spec.pack)
    /\ spec.kind = "new" => spec.units \cap DOMAIN review = {}

\* Lessons at the offsets 1, 2, ..., with no unit in two of them; none only for
\* a curriculum with no unit.
Queueable(batch, enabled, review) ==
    /\ IsFiniteSet(batch)
    /\ \A b \in batch : b.offset \in 1 .. Cardinality(batch) /\ Lesson(b.spec, enabled, review)
    /\ \A b, c \in batch : b # c =>
         b.offset # c.offset /\ b.spec.units \cap c.spec.units = {}
    /\ batch = {} => \A p \in enabled : UnitsOf(p) = {}

\* A batch can be appended to the queue: distinct offsets from 1 on, units of
\* enabled packs, none of them introduced twice.
LEMMA BatchIsQueueable ==
    ASSUME NEW enabled, enabled \subseteq Packs, NEW review, Dated(review), NEW now,
           NEW tie \in Ties
    PROVE  Queueable(GenerateBatch(enabled, review, now, tie), enabled, review)
<1> DEFINE C == Candidates(enabled, review, now)
           key == CandidateKey(enabled, review, now, tie)
           batch == GenerateBatch(enabled, review, now, tie)
           source == Source(enabled, review, now)
           unseen == UnseenIn(enabled, review)
           due == DueIn(enabled, review, now)
<1>1. PrefixOf(batch, C, key)
  BY BatchIsPrefixOf
<1>2. Apart(C, enabled, source, due, unseen)
  BY CandidatesFacts
<1>3. \A b \in batch : b.spec \in ItemSpec
  BY GenerateBatchType DEF Dated
<1>4. C = {} => \A p \in enabled : UnitsOf(p) = {}
  BY NoCandidateNoUnit
<1>5. /\ source \subseteq Units /\ unseen \subseteq Units
      /\ unseen \cap DOMAIN review = {}
  <2>1. unseen \subseteq Units
    BY UnitFields DEF UnseenIn
  <2> QED BY <2>1 DEF Dated, Source, KnownIn, DueIn, UnseenIn
<1> HIDE DEF C, key, batch, source, unseen, due
<1>6. ASSUME NEW i, NEW S \in SUBSET Units, ItemOver(i, S)
      PROVE  i.units # {} /\ i.units \subseteq S /\ i.units \subseteq UnitsOf(i.pack)
  <2>1. \A u \in i.units : u \in S /\ u.pack = i.pack
    BY <1>6 DEF ItemOver, GroupOf
  <2> QED BY <1>6, <2>1, UnitsByPack DEF ItemOver
<1>7. ASSUME NEW b \in batch PROVE Lesson(b.spec, enabled, review)
  <2>1. b.spec \in C /\ b.spec \in ItemSpec
    BY <1>1, <1>3 DEF PrefixOf
  <2>2. b.spec.pack \in enabled /\ Proper(b.spec, source, unseen)
    BY <1>2, <2>1 DEF Apart
  <2>3. CASE b.spec.kind = "review" /\ ItemOver(b.spec, source)
    BY <1>5, <1>6, <2>1, <2>2, <2>3 DEF Lesson
  <2>4. CASE b.spec.kind = "new" /\ ItemOver(b.spec, unseen)
    <3>1. b.spec.units # {} /\ b.spec.units \subseteq unseen
          /\ b.spec.units \subseteq UnitsOf(b.spec.pack)
      BY <1>5, <1>6, <2>4
    <3> QED BY <1>5, <2>1, <2>2, <3>1 DEF Lesson
  <2> QED BY <2>2, <2>3, <2>4 DEF Proper
<1>8. \A b, c \in batch : b # c =>
        b.offset # c.offset /\ b.spec.units \cap c.spec.units = {}
  BY <1>1, <1>2 DEF PrefixOf, Apart
<1>9. \A b \in batch : b.offset \in 1 .. Cardinality(batch)
  BY <1>1 DEF PrefixOf
<1> QED BY <1>1, <1>4, <1>7, <1>8, <1>9 DEF Queueable, PrefixOf, batch
=============================================================================
