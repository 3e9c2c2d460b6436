-------------------------- MODULE ListLayoutProofs --------------------------
(***************************************************************************)
(* What ListLayout computes, for any list, sizes and number of lanes: a    *)
(* layout is determined by the sizes of its items and grows from any of    *)
(* its prefixes, lanes are filled without gaps, and every item in view is  *)
(* in the range of one lane.                                               *)
(*                                                                         *)
(* The functions ListLayout defines by recursion are used through two      *)
(* facts each: some function satisfies the recursion, and what holds for   *)
(* all smaller arguments holds for the next; both by the least number for  *)
(* which they would fail.                                                  *)
(***************************************************************************)
EXTENDS ListLayout, FiniteSetTheorems, SequenceTheorems, WellFoundedInduction, TLAPS

Items(lanes) == [key : Nat, start : Nat, size : Nat, end : Nat, lane : 0 .. lanes - 1]

\* Every item is put where the ones before it leave room, whatever its size.
Stacked(s, o, lanes) ==
  \A n \in DOMAIN s : \E size \in Nat :
    s[n] = Put(SubSeq(s, 1, n - 1), o.first + n - 1, size, lanes)

\* The layout of these items from these sizes.
Follows(s, o, known, lanes) ==
  \A n \in DOMAIN s : s[n] = Item(SubSeq(s, 1, n - 1), o, known, lanes)
----------------------------------------------------------------------------
(* Numbers.                                                                *)

\* A set of naturals that has an element has a least one.
LEMMA Least ==
  ASSUME NEW P \in SUBSET Nat, P # {}
  PROVE  \E m \in P : \A x \in P : m <= x
  <1> DEFINE R == OpToRel(<, Nat)
  <1>1. IsWellFoundedOn(R, Nat)
    BY NatLessThanWellFounded
  <1>2. \A m, n \in Nat : m < n => <<m, n>> \in R
    BY DEF OpToRel
  <1> HIDE DEF R
  <1>3. PICK m \in P : \A x \in P : ~(<<x, m>> \in R)
    BY <1>1, WFMin
  <1>4. \A x \in P : ~(x < m)
    BY <1>2, <1>3
  <1> QED
    BY <1>4

\* A set of naturals with a bound and an element has a greatest one.
LEMMA Greatest ==
  ASSUME NEW P \in SUBSET Nat, P # {}, NEW b \in Nat, \A x \in P : x <= b
  PROVE  \E m \in P : \A x \in P : x <= m
  <1> DEFINE Q == {b - x : x \in P}
  <1>1. \A x \in P : b - x \in Nat
    OBVIOUS
  <1>6. Q \in SUBSET Nat /\ Q # {}
    BY <1>1
  <1>2. PICK q \in Q : \A y \in Q : q <= y
    BY <1>6, Least
  <1>3. PICK m \in P : q = b - m
    BY <1>2
  <1>4. \A x \in P : b - x \in Q
    OBVIOUS
  <1>5. \A x \in P : q <= b - x
    BY <1>2, <1>4
  <1> QED
    BY <1>3, <1>5

LEMMA MaxIs ==
  ASSUME NEW S \in SUBSET Int, NEW m \in S, \A x \in S : x <= m
  PROVE  Max(S) = m
  <1> DEFINE x == Max(S)
  <1>1. \E y \in S : \A z \in S : y >= z
    OBVIOUS
  <1>2. x \in S /\ \A z \in S : x >= z
    BY <1>1 DEF Max
  <1> HIDE DEF x
  <1>3. x \in Int /\ m \in Int
    BY <1>2
  <1>4. x <= m /\ m <= x
    BY <1>2
  <1>5. x = m
    BY <1>3, <1>4
  <1> QED
    BY <1>5 DEF x

LEMMA MinIs ==
  ASSUME NEW S \in SUBSET Int, NEW m \in S, \A x \in S : m <= x
  PROVE  Min(S) = m
  <1> DEFINE x == Min(S)
  <1>1. \E y \in S : \A z \in S : y <= z
    OBVIOUS
  <1>2. x \in S /\ \A z \in S : x <= z
    BY <1>1 DEF Min
  <1> HIDE DEF x
  <1>3. x \in Int /\ m \in Int
    BY <1>2
  <1>4. x <= m /\ m <= x
    BY <1>2
  <1>5. x = m
    BY <1>3, <1>4
  <1> QED
    BY <1>5 DEF x

\* Of two numbers.
LEMMA MaxOfTwo ==
  ASSUME NEW a \in Int, NEW b \in Int
  PROVE  Max({a, b}) = IF a <= b THEN b ELSE a
  <1>1. CASE a <= b
    <2>1. Max({a, b}) = b
      BY <1>1, MaxIs
    <2> QED
      BY <1>1, <2>1
  <1>2. CASE ~(a <= b)
    <2>1. Max({a, b}) = a
      BY <1>2, MaxIs
    <2> QED
      BY <1>2, <2>1
  <1> QED
    BY <1>1, <1>2

LEMMA MinOfTwo ==
  ASSUME NEW a \in Int, NEW b \in Int
  PROVE  Min({a, b}) = IF a <= b THEN a ELSE b
  <1>1. CASE a <= b
    <2>1. Min({a, b}) = a
      BY <1>1, MinIs
    <2> QED
      BY <1>1, <2>1
  <1>2. CASE ~(a <= b)
    <2>1. Min({a, b}) = b
      BY <1>2, MinIs
    <2> QED
      BY <1>2, <2>1
  <1> QED
    BY <1>1, <1>2
----------------------------------------------------------------------------
(* Prefixes.                                                               *)

LEMMA Prefix ==
  ASSUME NEW S, NEW s \in Seq(S), NEW n \in 0 .. Len(s)
  PROVE  /\ SubSeq(s, 1, n) \in Seq(S) /\ Len(SubSeq(s, 1, n)) = n
         /\ DOMAIN SubSeq(s, 1, n) = 1 .. n
         /\ \A i \in 1 .. n : SubSeq(s, 1, n)[i] = s[i]
  <1>1. Len(s) \in Nat /\ \A i \in 1 .. Len(s) : s[i] \in S
    BY LenProperties, ElementOfSeq
  <1>2. \A i \in 1 .. n : s[i] \in S
    BY <1>1
  <1>3. /\ SubSeq(s, 1, n) \in Seq(S)
        /\ Len(SubSeq(s, 1, n)) = IF 1 <= n THEN n - 1 + 1 ELSE 0
        /\ \A i \in 1 .. n - 1 + 1 : SubSeq(s, 1, n)[i] = s[1 + i - 1]
    BY <1>1, <1>2, SubSeqProperties
  <1>4. Len(SubSeq(s, 1, n)) = n
    BY <1>1, <1>3
  <1>5. \A i \in 1 .. n : SubSeq(s, 1, n)[i] = s[i]
    BY <1>1, <1>3
  <1> QED
    BY <1>3, <1>4, <1>5, LenProperties

LEMMA PrefixOfPrefix ==
  ASSUME NEW S, NEW s \in Seq(S), NEW n \in 0 .. Len(s), NEW m \in 0 .. n
  PROVE  SubSeq(SubSeq(s, 1, n), 1, m) = SubSeq(s, 1, m)
  <1>1. Len(s) \in Nat
    BY LenProperties
  <1> DEFINE p == SubSeq(s, 1, n)
  <1>2. p \in Seq(S) /\ Len(p) = n /\ \A i \in 1 .. n : p[i] = s[i]
    BY Prefix
  <1> HIDE DEF p
  <1>3. /\ SubSeq(p, 1, m) \in Seq(S) /\ Len(SubSeq(p, 1, m)) = m
        /\ \A i \in 1 .. m : SubSeq(p, 1, m)[i] = p[i]
    BY <1>2, Prefix
  <1>4. /\ SubSeq(s, 1, m) \in Seq(S) /\ Len(SubSeq(s, 1, m)) = m
        /\ \A i \in 1 .. m : SubSeq(s, 1, m)[i] = s[i]
    BY <1>1, Prefix
  <1>5. SubSeq(p, 1, m) = SubSeq(s, 1, m)
    BY <1>1, <1>2, <1>3, <1>4, SeqEqual
  <1> QED
    BY <1>5 DEF p

\* Sequences that agree up to n have the same prefixes up to there.
LEMMA SamePrefix ==
  ASSUME NEW S, NEW s \in Seq(S), NEW t \in Seq(S),
         NEW n \in Nat, n <= Len(s), n <= Len(t), \A i \in 1 .. n : s[i] = t[i]
  PROVE  SubSeq(s, 1, n) = SubSeq(t, 1, n)
  <1>0. Len(s) \in Nat /\ Len(t) \in Nat
    BY LenProperties
  <1>1. /\ SubSeq(s, 1, n) \in Seq(S) /\ Len(SubSeq(s, 1, n)) = n
        /\ \A i \in 1 .. n : SubSeq(s, 1, n)[i] = s[i]
    BY <1>0, Prefix
  <1>2. /\ SubSeq(t, 1, n) \in Seq(S) /\ Len(SubSeq(t, 1, n)) = n
        /\ \A i \in 1 .. n : SubSeq(t, 1, n)[i] = t[i]
    BY <1>0, Prefix
  <1> QED
    BY <1>1, <1>2, SeqEqual

LEMMA Appended ==
  ASSUME NEW S, NEW s \in Seq(S), NEW e \in S
  PROVE  /\ Append(s, e) \in Seq(S) /\ Len(Append(s, e)) = Len(s) + 1 /\ Len(s) \in Nat
         /\ Append(s, e)[Len(s) + 1] = e
         /\ \A i \in 1 .. Len(s) : Append(s, e)[i] = s[i]
  BY AppendProperties, LenProperties

LEMMA PrefixGrows ==
  ASSUME NEW S, NEW s \in Seq(S), NEW n \in 1 .. Len(s)
  PROVE  Append(SubSeq(s, 1, n - 1), s[n]) = SubSeq(s, 1, n)
  <1>0. Len(s) \in Nat /\ s[n] \in S
    BY LenProperties, ElementOfSeq
  <1> DEFINE p == SubSeq(s, 1, n - 1)
             q == SubSeq(s, 1, n)
  <1>1. p \in Seq(S) /\ Len(p) = n - 1 /\ \A i \in 1 .. n - 1 : p[i] = s[i]
    BY <1>0, Prefix
  <1>2. q \in Seq(S) /\ Len(q) = n /\ \A i \in 1 .. n : q[i] = s[i]
    BY <1>0, Prefix
  <1> HIDE DEF p, q
  <1>3. /\ Append(p, s[n]) \in Seq(S) /\ Len(Append(p, s[n])) = n
        /\ Append(p, s[n])[n] = s[n]
        /\ \A i \in 1 .. n - 1 : Append(p, s[n])[i] = p[i]
    BY <1>0, <1>1, Appended
  <1>4. \A i \in 1 .. n : Append(p, s[n])[i] = q[i]
    BY <1>0, <1>1, <1>2, <1>3
  <1>5. Append(p, s[n]) = q
    BY <1>2, <1>3, <1>4, SeqEqual
  <1> QED
    BY <1>5 DEF p, q
----------------------------------------------------------------------------
(* One item.                                                               *)

\* The last items of the lanes, and those of them that end first.
Ends(items) ==
  {i \in DOMAIN items : \A j \in i + 1 .. Len(items) : items[j].lane # items[i].lane}

Lowest(items) == {i \in Ends(items) : \A j \in Ends(items) : items[i].end <= items[j].end}

LEMMA ItemFields ==
  ASSUME NEW lanes \in Nat \ {0}, NEW s \in Seq(Items(lanes)), NEW n \in DOMAIN s
  PROVE  /\ s[n] \in Items(lanes) /\ s[n].key \in Nat /\ s[n].start \in Nat
         /\ s[n].size \in Nat /\ s[n].end \in Nat /\ s[n].lane \in 0 .. lanes - 1
  <1>1. s[n] \in Items(lanes)
    BY LenProperties, ElementOfSeq
  <1> QED
    BY <1>1 DEF Items

\* An item is put below one of those that end first, unless a lane is empty.
LEMMA FurthestIs ==
  ASSUME NEW lanes \in Nat \ {0}, NEW items \in Seq(Items(lanes))
  PROVE  /\ Cardinality(Ends(items)) < lanes => Furthest(items, lanes) = 0
         /\ ~(Cardinality(Ends(items)) < lanes) => Furthest(items, lanes) \in Lowest(items)
  <1>1. /\ Cardinality(Ends(items)) < lanes => Furthest(items, lanes) = 0
        /\ ~(Cardinality(Ends(items)) < lanes) => Furthest(items, lanes) = Max(Lowest(items))
    BY DEF Furthest, Ends, Lowest
  <1>2. ASSUME ~(Cardinality(Ends(items)) < lanes)
        PROVE  Max(Lowest(items)) \in Lowest(items)
    <2>1. Ends(items) # {}
      BY <1>2, FS_EmptySet
    <2>2. Len(items) \in Nat /\ DOMAIN items = 1 .. Len(items)
      BY LenProperties
    <2>3. \A i \in DOMAIN items : items[i] \in Items(lanes)
      BY <2>2, ElementOfSeq
    <2>4. \A i \in Ends(items) : i \in DOMAIN items /\ items[i].end \in Nat
      BY <2>3 DEF Ends, Items
    <2> DEFINE E == {items[i].end : i \in Ends(items)}
    <2>5. E \in SUBSET Nat /\ E # {}
      BY <2>1, <2>4
    <2>6. PICK e \in E : \A x \in E : e <= x
      BY <2>5, Least
    <2>7. PICK i \in Ends(items) : e = items[i].end
      BY <2>6
    <2>8. i \in Lowest(items)
      BY <2>6, <2>7 DEF Lowest
    <2>9. Lowest(items) \in SUBSET Nat /\ \A x \in Lowest(items) : x <= Len(items)
      BY <2>2, <2>4 DEF Lowest
    <2>10. PICK m \in Lowest(items) : \A x \in Lowest(items) : x <= m
      BY <2>2, <2>8, <2>9, Greatest
    <2>11. Max(Lowest(items)) = m
      BY <2>9, <2>10, MaxIs
    <2> QED
      BY <2>10, <2>11
  <1> QED
    BY <1>1, <1>2

LEMMA AboveIs ==
  ASSUME NEW lanes \in Nat \ {0}, NEW items \in Seq(Items(lanes))
  PROVE  Above(items, lanes) \in 0 .. Len(items)
  <1>1. Len(items) \in Nat /\ DOMAIN items = 1 .. Len(items)
    BY LenProperties
  <1>3. \A i \in Lowest(items) : i \in 1 .. Len(items)
    BY <1>1 DEF Lowest, Ends
  <1>2. Furthest(items, lanes) \in 0 .. Len(items)
    <2>1. Furthest(items, lanes) = 0 \/ Furthest(items, lanes) \in Lowest(items)
      BY FurthestIs
    <2> QED
      BY <1>1, <1>3, <2>1
  <1> QED
    BY <1>1, <1>2 DEF Above

\* An item that is put somewhere is an item.
LEMMA PutIs ==
  ASSUME NEW lanes \in Nat \ {0}, NEW items \in Seq(Items(lanes)),
         NEW key \in Nat, NEW size \in Nat
  PROVE  /\ Put(items, key, size, lanes) \in Items(lanes)
         /\ Put(items, key, size, lanes).key = key
         /\ Put(items, key, size, lanes).size = size
         /\ Put(items, key, size, lanes).end = Put(items, key, size, lanes).start + size
         /\ Above(items, lanes) = 0 =>
              /\ Put(items, key, size, lanes).start = Lead
              /\ Put(items, key, size, lanes).lane = Len(items) % lanes
         /\ Above(items, lanes) # 0 =>
              /\ Above(items, lanes) \in DOMAIN items
              /\ Put(items, key, size, lanes).start = items[Above(items, lanes)].end
              /\ Put(items, key, size, lanes).lane = items[Above(items, lanes)].lane
  <1> DEFINE a == Above(items, lanes)
             start == IF a = 0 THEN Lead ELSE items[a].end
             lane == IF a = 0 THEN Len(items) % lanes ELSE items[a].lane
  <1>1. Len(items) \in Nat /\ DOMAIN items = 1 .. Len(items) /\ a \in 0 .. Len(items)
    BY LenProperties, AboveIs
  <1>2. a # 0 => a \in DOMAIN items /\ items[a] \in Items(lanes)
    BY <1>1, ElementOfSeq
  <1>3. Len(items) % lanes \in 0 .. lanes - 1
    BY <1>1
  <1>4. Put(items, key, size, lanes) =
          [key |-> key, start |-> start, size |-> size, end |-> start + size, lane |-> lane]
    BY DEF Put
  <1>5. start \in Nat /\ lane \in 0 .. lanes - 1
    BY <1>2, <1>3, LayoutAssumption DEF Items
  <1> HIDE DEF a, start, lane
  <1>6. Put(items, key, size, lanes) \in Items(lanes)
    BY <1>4, <1>5 DEF Items
  <1>7. /\ Put(items, key, size, lanes).key = key
        /\ Put(items, key, size, lanes).size = size
        /\ Put(items, key, size, lanes).start = start
        /\ Put(items, key, size, lanes).end = start + size
        /\ Put(items, key, size, lanes).lane = lane
    BY <1>4
  <1> QED
    BY <1>2, <1>6, <1>7 DEF a, start, lane

LEMMA SizeIs ==
  ASSUME NEW K, NEW known \in [K -> Nat \cup {None}], NEW key \in K
  PROVE  SizeOf(key, known) \in Nat
  BY LayoutAssumption DEF SizeOf

----------------------------------------------------------------------------
(* The layout.                                                             *)

\* s is done, and from there on the layout.
Continues(s, done, o, known, lanes) ==
  /\ \A n \in 1 .. Len(done) : s[n] = done[n]
  /\ \A n \in Len(done) + 1 .. Len(s) : s[n] = Item(SubSeq(s, 1, n - 1), o, known, lanes)

\* The keys of a list.
KeysOf(o) == o.first .. o.first + o.count - 1

LEMMA ItemIs ==
  ASSUME NEW lanes \in Nat \ {0}, NEW o \in [count : Nat, first : Nat], NEW K,
         NEW known \in [K -> Nat \cup {None}], KeysOf(o) \subseteq K,
         NEW s \in Seq(Items(lanes)), Len(s) < o.count
  PROVE  /\ o.first + Len(s) \in K /\ SizeOf(o.first + Len(s), known) \in Nat
         /\ Item(s, o, known, lanes) =
              Put(s, o.first + Len(s), SizeOf(o.first + Len(s), known), lanes)
         /\ Item(s, o, known, lanes) \in Items(lanes)
  <1>1. Len(s) \in Nat /\ o.count \in Nat /\ o.first \in Nat
    BY LenProperties
  <1>2. o.first + Len(s) \in K
    BY <1>1 DEF KeysOf
  <1>3. SizeOf(o.first + Len(s), known) \in Nat
    BY <1>2, SizeIs
  <1>4. Item(s, o, known, lanes) =
          Put(s, o.first + Len(s), SizeOf(o.first + Len(s), known), lanes)
    BY DEF Item
  <1>5. o.first + Len(s) \in Nat
    BY <1>1
  <1> QED
    BY <1>2, <1>3, <1>4, <1>5, PutIs

\* Every list can be laid out from every beginning.
LEMMA LayoutThere ==
  ASSUME NEW lanes \in Nat \ {0}, NEW o \in [count : Nat, first : Nat], NEW K,
         NEW known \in [K -> Nat \cup {None}], KeysOf(o) \subseteq K,
         NEW done \in Seq(Items(lanes)), Len(done) <= o.count
  PROVE  \E s \in Seq(Items(lanes)) :
           Len(s) = o.count /\ Continues(s, done, o, known, lanes)
  <1> DEFINE Good(c) == \E s \in Seq(Items(lanes)) :
                          Len(s) = c /\ Continues(s, done, o, known, lanes)
             Bad == {c \in Nat : Len(done) <= c /\ c <= o.count /\ ~Good(c)}
  <1>1. Len(done) \in Nat /\ o.count \in Nat
    BY LenProperties
  <1>2. SUFFICES ASSUME Bad # {}
                 PROVE  FALSE
    <2>1. o.count \notin Bad => Good(o.count)
      BY <1>1
    <2> QED
      BY <2>1
  <1>3. PICK c \in Bad : \A x \in Bad : c <= x
    BY <1>2, Least
  <1>4. Good(Len(done))
    BY <1>1 DEF Continues
  <1>5. c \in Nat /\ Len(done) < c /\ c <= o.count
    BY <1>1, <1>3, <1>4
  <1>6. Good(c - 1)
    <2>1. c - 1 \in Nat /\ Len(done) <= c - 1 /\ c - 1 <= o.count /\ ~(c <= c - 1)
      BY <1>1, <1>5
    <2>2. c - 1 \notin Bad
      BY <1>3, <2>1
    <2> HIDE DEF Good
    <2> QED
      BY <2>1, <2>2
  <1>7. PICK s \in Seq(Items(lanes)) : Len(s) = c - 1 /\ Continues(s, done, o, known, lanes)
    BY <1>6
  <1> DEFINE e == Item(s, o, known, lanes)
             t == Append(s, e)
  <1>8. e \in Items(lanes)
    BY <1>1, <1>5, <1>7, ItemIs
  <1>9. /\ t \in Seq(Items(lanes)) /\ Len(t) = c /\ t[c] = e
        /\ \A i \in 1 .. c - 1 : t[i] = s[i]
    BY <1>5, <1>7, <1>8, Appended
  <1> HIDE DEF t
  <1>10. ASSUME NEW n \in 0 .. c - 1
         PROVE  SubSeq(t, 1, n) = SubSeq(s, 1, n)
    BY <1>5, <1>7, <1>9, SamePrefix
  <1>11. SubSeq(t, 1, c - 1) = s
    BY <1>5, <1>7, <1>10, SubSeqFull, SMTT(30)
  <1>12. ASSUME NEW n \in Len(done) + 1 .. Len(t)
         PROVE  t[n] = Item(SubSeq(t, 1, n - 1), o, known, lanes)
    <2>1. CASE n = c
      BY <2>1, <1>9, <1>11
    <2>2. CASE n # c
      <3>1. n \in Len(done) + 1 .. Len(s) /\ n \in 1 .. c - 1 /\ n - 1 \in 0 .. c - 1
        BY <2>2, <1>1, <1>5, <1>7, <1>9
      <3>2. SubSeq(t, 1, n - 1) = SubSeq(s, 1, n - 1)
        BY <3>1, <1>10
      <3>3. s[n] = Item(SubSeq(s, 1, n - 1), o, known, lanes)
        BY <3>1, <1>7 DEF Continues
      <3> QED
        BY <3>1, <3>2, <3>3, <1>9
    <2> QED
      BY <2>1, <2>2
  <1>13. \A n \in 1 .. Len(done) : t[n] = done[n]
    BY <1>1, <1>5, <1>7, <1>9 DEF Continues
  <1>14. Continues(t, done, o, known, lanes)
    BY <1>12, <1>13 DEF Continues
  <1>15. Good(c)
    BY <1>9, <1>14
  <1> QED
    BY <1>3, <1>15

LEMMA NextIs ==
  ASSUME NEW y, NEW o, NEW known, NEW lanes
  PROVE  (CHOOSE s \in {Append(b, Item(b, o, known, lanes)) : b \in {y}} : TRUE)
           = Append(y, Item(y, o, known, lanes))
  OBVIOUS

\* The recursion has the layout as its only solution.
LEMMA LaidIs ==
  ASSUME NEW lanes \in Nat \ {0}, NEW o \in [count : Nat, first : Nat], NEW known,
         NEW done \in Seq(Items(lanes)), Len(done) <= o.count,
         NEW s \in Seq(Items(lanes)), Len(s) = o.count,
         Continues(s, done, o, known, lanes)
  PROVE  Laid(done, o, known, lanes) = s
  <1> DEFINE Body(g) ==
               [n \in 0 .. o.count |->
                  IF n <= Len(done) THEN SubSeq(done, 1, n)
                  ELSE CHOOSE x \in {Append(b, Item(b, o, known, lanes)) : b \in {g[n - 1]}} :
                         TRUE]
             f == CHOOSE g : g = Body(g)
             h == [n \in 0 .. o.count |-> SubSeq(s, 1, n)]
  <1>1. Laid(done, o, known, lanes) = f[o.count]
    BY DEF Laid
  <1>2. Len(done) \in Nat /\ o.count \in Nat
    BY LenProperties
  <1>3. ASSUME NEW n \in 0 .. o.count, n <= Len(done)
        PROVE  SubSeq(s, 1, n) = SubSeq(done, 1, n)
    <2>1. \A i \in 1 .. n : s[i] = done[i]
      BY <1>2, <1>3 DEF Continues
    <2> QED
      BY <2>1, <1>2, <1>3, SamePrefix
  <1>4. ASSUME NEW n \in 0 .. o.count, ~(n <= Len(done))
        PROVE  SubSeq(s, 1, n) =
                 Append(SubSeq(s, 1, n - 1), Item(SubSeq(s, 1, n - 1), o, known, lanes))
    <2>1. n \in Len(done) + 1 .. Len(s) /\ n \in 1 .. Len(s)
      BY <1>2, <1>4
    <2>2. s[n] = Item(SubSeq(s, 1, n - 1), o, known, lanes)
      BY <2>1 DEF Continues
    <2> QED
      BY <2>1, <2>2, PrefixGrows
  <1>5. h = Body(h)
    <2>1. ASSUME NEW n \in 0 .. o.count
          PROVE  h[n] = Body(h)[n]
      <3>1. CASE n <= Len(done)
        BY <3>1, <1>3
      <3>2. CASE ~(n <= Len(done))
        <4>1. n - 1 \in 0 .. o.count
          BY <3>2, <1>2
        <4>2. h[n - 1] = SubSeq(s, 1, n - 1)
          BY <4>1
        <4>3. Body(h)[n] = Append(h[n - 1], Item(h[n - 1], o, known, lanes))
          BY <3>2, NextIs
        <4> QED
          BY <3>2, <4>2, <4>3, <1>4
      <3> QED
        BY <3>1, <3>2
    <2> QED
      BY <2>1
  <1>6. f = Body(f)
    BY <1>5
  <1> HIDE DEF f, h
  <1>7. ASSUME NEW n \in 0 .. o.count
        PROVE  f[n] = IF n <= Len(done) THEN SubSeq(done, 1, n)
                      ELSE Append(f[n - 1], Item(f[n - 1], o, known, lanes))
    BY <1>6, NextIs
  <1> DEFINE Bad == {n \in 0 .. o.count : f[n] # SubSeq(s, 1, n)}
  <1>8. Bad = {}
    <2>1. SUFFICES ASSUME Bad # {}
                   PROVE  FALSE
      OBVIOUS
    <2>6. Bad \in SUBSET Nat
      BY <1>2
    <2> HIDE DEF Bad
    <2>2. PICK n \in Bad : \A x \in Bad : n <= x
      BY <2>1, <2>6, Least
    <2> USE DEF Bad
    <2>3. ~(n <= Len(done))
      BY <2>2, <1>3, <1>7
    <2>4. n - 1 \in 0 .. o.count /\ ~(n <= n - 1)
      BY <2>3, <1>2
    <2>5. f[n - 1] = SubSeq(s, 1, n - 1)
      BY <2>2, <2>4
    <2> QED
      BY <2>2, <2>3, <2>5, <1>4, <1>7
  <1>9. f[o.count] = SubSeq(s, 1, o.count)
    BY <1>2, <1>8
  <1> QED
    BY <1>1, <1>9, SubSeqFull

LEMMA LaidFacts ==
  ASSUME NEW lanes \in Nat \ {0}, NEW o \in [count : Nat, first : Nat], NEW K,
         NEW known \in [K -> Nat \cup {None}], KeysOf(o) \subseteq K,
         NEW done \in Seq(Items(lanes)), Len(done) <= o.count
  PROVE  /\ Laid(done, o, known, lanes) \in Seq(Items(lanes))
         /\ Len(Laid(done, o, known, lanes)) = o.count
         /\ Continues(Laid(done, o, known, lanes), done, o, known, lanes)
  <1>1. PICK s \in Seq(Items(lanes)) : Len(s) = o.count /\ Continues(s, done, o, known, lanes)
    BY LayoutThere
  <1>2. Laid(done, o, known, lanes) = s
    BY <1>1, LaidIs
  <1> QED
    BY <1>1, <1>2

\* A layout of the whole list.
LEMMA FollowsIsLaid ==
  ASSUME NEW lanes \in Nat \ {0}, NEW o \in [count : Nat, first : Nat], NEW known,
         NEW s \in Seq(Items(lanes)), Len(s) = o.count, Follows(s, o, known, lanes)
  PROVE  Laid(<<>>, o, known, lanes) = s
  <1>1. <<>> \in Seq(Items(lanes)) /\ Len(<<>>) = 0 /\ o.count \in Nat
    BY EmptySeq
  <1>2. DOMAIN s = 1 .. Len(s)
    BY LenProperties
  <1>3. Continues(s, <<>>, o, known, lanes)
    BY <1>1, <1>2 DEF Continues, Follows
  <1>4. Len(<<>>) <= o.count
    BY <1>1
  <1> QED
    BY <1>1, <1>3, <1>4, LaidIs

\* What continues a stack is one.
LEMMA ContinuesStacked ==
  ASSUME NEW lanes \in Nat \ {0}, NEW o \in [count : Nat, first : Nat], NEW K,
         NEW known \in [K -> Nat \cup {None}], KeysOf(o) \subseteq K,
         NEW done \in Seq(Items(lanes)), Len(done) <= o.count, Stacked(done, o, lanes),
         NEW s \in Seq(Items(lanes)), Len(s) = o.count,
         Continues(s, done, o, known, lanes)
  PROVE  Stacked(s, o, lanes)
  <1>1. /\ Len(done) \in Nat /\ DOMAIN done = 1 .. Len(done)
        /\ Len(s) \in Nat /\ DOMAIN s = 1 .. Len(s)
    BY LenProperties
  <1>2. ASSUME NEW n \in DOMAIN s, n <= Len(done)
        PROVE  \E size \in Nat : s[n] = Put(SubSeq(s, 1, n - 1), o.first + n - 1, size, lanes)
    <2>1. n \in DOMAIN done /\ s[n] = done[n]
      BY <1>1, <1>2 DEF Continues
    <2>2. PICK size \in Nat :
            done[n] = Put(SubSeq(done, 1, n - 1), o.first + n - 1, size, lanes)
      BY <2>1 DEF Stacked
    <2>3. n - 1 \in Nat /\ n - 1 <= Len(s) /\ n - 1 <= Len(done)
      BY <1>1, <1>2
    <2>4. \A i \in 1 .. n - 1 : s[i] = done[i]
      BY <2>3, <1>1 DEF Continues
    <2>5. SubSeq(s, 1, n - 1) = SubSeq(done, 1, n - 1)
      BY <2>3, <2>4, SamePrefix
    <2> QED
      BY <2>1, <2>2, <2>5
  <1>3. ASSUME NEW n \in DOMAIN s, ~(n <= Len(done))
        PROVE  \E size \in Nat : s[n] = Put(SubSeq(s, 1, n - 1), o.first + n - 1, size, lanes)
    <2> DEFINE p == SubSeq(s, 1, n - 1)
    <2>1. n - 1 \in 0 .. Len(s) /\ n \in Len(done) + 1 .. Len(s)
      BY <1>1, <1>3
    <2>2. p \in Seq(Items(lanes)) /\ Len(p) = n - 1
      BY <2>1, Prefix
    <2>3. s[n] = Item(p, o, known, lanes)
      BY <2>1 DEF Continues
    <2> HIDE DEF p
    <2>4. Len(p) < o.count
      BY <1>1, <2>1, <2>2
    <2>5. /\ SizeOf(o.first + Len(p), known) \in Nat
          /\ Item(p, o, known, lanes) =
               Put(p, o.first + Len(p), SizeOf(o.first + Len(p), known), lanes)
      BY <2>2, <2>4, ItemIs, SMTT(30)
    <2>6. o.first + Len(p) = o.first + n - 1
      BY <1>1, <2>2
    <2> QED
      BY <2>3, <2>5, <2>6 DEF p
  <1> QED
    BY <1>2, <1>3 DEF Stacked

----------------------------------------------------------------------------
(* Lanes.                                                                  *)

\* The item that item n was put below.
Below(s, n, lanes) == Above(SubSeq(s, 1, n - 1), lanes)

LEMMA StackedFacts ==
  ASSUME NEW lanes \in Nat \ {0}, NEW o \in [count : Nat, first : Nat],
         NEW s \in Seq(Items(lanes)), Stacked(s, o, lanes), NEW n \in DOMAIN s
  PROVE  /\ s[n] \in Items(lanes) /\ s[n].key = o.first + n - 1
         /\ s[n].end = s[n].start + s[n].size
         /\ Below(s, n, lanes) \in 0 .. n - 1
         /\ Below(s, n, lanes) = 0 => s[n].start = Lead /\ s[n].lane = (n - 1) % lanes
         /\ Below(s, n, lanes) # 0 => /\ s[n].start = s[Below(s, n, lanes)].end
                                      /\ s[n].lane = s[Below(s, n, lanes)].lane
  <1>1. Len(s) \in Nat /\ DOMAIN s = 1 .. Len(s)
    BY LenProperties
  <1>2. n \in 1 .. Len(s) /\ n - 1 \in 0 .. Len(s)
    BY <1>1
  <1> DEFINE p == SubSeq(s, 1, n - 1)
  <1>3. p \in Seq(Items(lanes)) /\ Len(p) = n - 1 /\ \A i \in 1 .. n - 1 : p[i] = s[i]
    BY <1>2, Prefix
  <1>4. PICK size \in Nat : s[n] = Put(p, o.first + n - 1, size, lanes)
    BY DEF Stacked
  <1>5. Below(s, n, lanes) = Above(p, lanes)
    BY DEF Below
  <1> HIDE DEF p
  <1>6. o.first + n - 1 \in Nat
    BY <1>2
  <1>7. Above(p, lanes) \in 0 .. n - 1
    BY <1>3, AboveIs
  <1>8. Above(p, lanes) # 0 => p[Above(p, lanes)] = s[Above(p, lanes)]
    BY <1>3, <1>7
  <1> DEFINE k == o.first + n - 1
             x == Put(p, k, size, lanes)
             a == Above(p, lanes)
  <1>11. k \in Nat
    BY <1>6
  <1> HIDE DEF k
  <1>10. /\ x \in Items(lanes) /\ x.key = k
         /\ x.end = x.start + size /\ x.size = size
         /\ a = 0 => x.start = Lead /\ x.lane = Len(p) % lanes
         /\ a # 0 => x.start = p[a].end /\ x.lane = p[a].lane
    <2>1. p \in Seq(Items(lanes))
      BY <1>3
    <2> HIDE DEF x, a
    <2>2. x \in Items(lanes)
      BY <2>1, <1>11, PutIs DEF x
    <2>3. x.key = k /\ x.size = size
      BY <2>1, <1>11, PutIs DEF x
    <2>4. x.end = x.start + size
      BY <2>1, <1>11, PutIs DEF x
    <2>5. a = 0 => x.start = Lead /\ x.lane = Len(p) % lanes
      BY <2>1, <1>11, PutIs DEF x, a
    <2>6. a # 0 => x.start = p[a].end /\ x.lane = p[a].lane
      BY <2>1, <1>11, PutIs DEF x, a
    <2> QED
      BY <2>2, <2>3, <2>4, <2>5, <2>6
  <1>12. s[n] = x /\ k = o.first + n - 1
    BY <1>4 DEF k
  <1> HIDE DEF a, x
  <1>9. /\ s[n] \in Items(lanes) /\ s[n].key = o.first + n - 1
        /\ s[n].end = s[n].start + size /\ s[n].size = size
        /\ a = 0 => s[n].start = Lead /\ s[n].lane = Len(p) % lanes
        /\ a # 0 => s[n].start = p[a].end /\ s[n].lane = p[a].lane
    BY <1>12, <1>10
  <1> QED
    BY <1>3, <1>5, <1>7, <1>8, <1>9 DEF a

\* Of the first m items, the last of each lane.
EndsTo(s, m) == {i \in 1 .. m : \A j \in i + 1 .. m : s[j].lane # s[i].lane}

LEMMA EndsAre ==
  ASSUME NEW lanes \in Nat \ {0}, NEW s \in Seq(Items(lanes)), NEW m \in 0 .. Len(s)
  PROVE  Ends(SubSeq(s, 1, m)) = EndsTo(s, m)
  <1> DEFINE p == SubSeq(s, 1, m)
  <1>1. Len(p) = m /\ DOMAIN p = 1 .. m /\ \A i \in 1 .. m : p[i] = s[i]
    BY Prefix
  <1> HIDE DEF p
  <1>2. \A i \in 1 .. m : i + 1 .. m \subseteq 1 .. m
    BY LenProperties
  <1>3. Ends(p) = EndsTo(s, m)
    BY <1>1, <1>2 DEF Ends, EndsTo
  <1> QED
    BY <1>3 DEF p

\* A lane that has items has a last one.
LEMMA LastThere ==
  ASSUME NEW lanes \in Nat \ {0}, NEW s \in Seq(Items(lanes)), NEW m \in 0 .. Len(s),
         NEW i \in 1 .. m
  PROVE  \E e \in EndsTo(s, m) : s[e].lane = s[i].lane /\ i <= e
  <1> DEFINE P == {j \in 1 .. m : s[j].lane = s[i].lane}
  <1>1. P \in SUBSET Nat /\ i \in P /\ m \in Nat /\ \A x \in P : x <= m
    BY LenProperties
  <1>2. PICK e \in P : \A x \in P : x <= e
    BY <1>1, Greatest
  <1>3. \A j \in e + 1 .. m : j \notin P /\ j \in 1 .. m
    BY <1>1, <1>2
  <1>4. e \in EndsTo(s, m)
    BY <1>3 DEF EndsTo
  <1> QED
    BY <1>1, <1>2, <1>4

\* The first items fill the lanes one by one.
LEMMA Filling ==
  ASSUME NEW lanes \in Nat \ {0}, NEW o \in [count : Nat, first : Nat],
         NEW s \in Seq(Items(lanes)), Stacked(s, o, lanes)
  PROVE  \A n \in DOMAIN s : n <= lanes => s[n].lane = n - 1 /\ Below(s, n, lanes) = 0
  <1> DEFINE Bad == {n \in DOMAIN s : n <= lanes /\ ~(s[n].lane = n - 1 /\ Below(s, n, lanes) = 0)}
  <1>1. Len(s) \in Nat /\ DOMAIN s = 1 .. Len(s)
    BY LenProperties
  <1>2. SUFFICES ASSUME Bad # {}
                 PROVE  FALSE
    OBVIOUS
  <1>3. Bad \in SUBSET Nat
    BY <1>1
  <1> HIDE DEF Bad
  <1>4. PICK n \in Bad : \A x \in Bad : n <= x
    BY <1>2, <1>3, Least
  <1> USE DEF Bad
  <1>5. n \in 1 .. Len(s) /\ n - 1 \in 0 .. Len(s) /\ n <= lanes
    BY <1>1, <1>4
  <1>6. \A i \in 1 .. n - 1 : s[i].lane = i - 1
    <2> SUFFICES ASSUME NEW i \in 1 .. n - 1
                 PROVE  s[i].lane = i - 1
      OBVIOUS
    <2>1. i \in DOMAIN s /\ i <= lanes /\ ~(n <= i)
      BY <1>1, <1>5
    <2> QED
      BY <2>1, <1>4
  <1> HIDE DEF Bad
  <1> DEFINE p == SubSeq(s, 1, n - 1)
  <1>7. p \in Seq(Items(lanes)) /\ Len(p) = n - 1
    BY <1>5, Prefix
  <1>8. Below(s, n, lanes) = 0
    <2>1. CASE lanes = 1
      BY <2>1, <1>5, <1>7 DEF Below, Above
    <2>2. CASE lanes # 1
      <3>1. EndsTo(s, n - 1) = 1 .. n - 1
        <4>1. ASSUME NEW i \in 1 .. n - 1, NEW j \in i + 1 .. n - 1
              PROVE  s[j].lane # s[i].lane
          <5>1. j \in 1 .. n - 1 /\ i # j
            BY <1>5
          <5> QED
            BY <5>1, <1>6
        <4> QED
          BY <4>1 DEF EndsTo
      <3>2. Cardinality(1 .. n - 1) = n - 1
        BY <1>5, FS_Interval
      <3>3. Cardinality(Ends(p)) < lanes
        BY <3>1, <3>2, <1>5, EndsAre
      <3>4. Furthest(p, lanes) = 0
        BY <3>3, <1>7, FurthestIs
      <3> QED
        BY <3>4, <2>2 DEF Below, Above
    <2> QED
      BY <2>1, <2>2
  <1>9. s[n].lane = (n - 1) % lanes
    BY <1>1, <1>5, <1>8, StackedFacts, SMTT(30)
  <1>10. (n - 1) % lanes = n - 1
    BY <1>5
  <1> QED
    BY <1>4, <1>8, <1>9, <1>10 DEF Bad

\* From then on an item is put below one of those that end first.
LEMMA Filled ==
  ASSUME NEW lanes \in Nat \ {0}, NEW o \in [count : Nat, first : Nat],
         NEW s \in Seq(Items(lanes)), Stacked(s, o, lanes), NEW n \in DOMAIN s, lanes < n
  PROVE  /\ Below(s, n, lanes) \in EndsTo(s, n - 1)
         /\ \A j \in EndsTo(s, n - 1) : s[Below(s, n, lanes)].end <= s[j].end
  <1>1. Len(s) \in Nat /\ DOMAIN s = 1 .. Len(s)
    BY LenProperties
  <1>2. n \in 1 .. Len(s) /\ n - 1 \in 1 .. Len(s) /\ n - 1 \in 0 .. Len(s)
    BY <1>1
  <1> DEFINE p == SubSeq(s, 1, n - 1)
  <1>3. p \in Seq(Items(lanes)) /\ Len(p) = n - 1 /\ \A i \in 1 .. n - 1 : p[i] = s[i]
    BY <1>2, Prefix
  <1>4. Ends(p) = EndsTo(s, n - 1)
    BY <1>2, EndsAre
  <1> HIDE DEF p
  <1>5. \A i \in 1 .. Len(s) : s[i].end \in Nat /\ s[i].lane \in 0 .. lanes - 1
    BY <1>1, ItemFields
  <1>6. CASE lanes = 1
    <2>1. Below(s, n, lanes) = n - 1
      BY <1>3, <1>6 DEF Below, Above, p
    <2>2. \A i \in 1 .. Len(s) : s[i].lane = 0
      BY <1>5, <1>6
    <2>3. \A j \in EndsTo(s, n - 1) : j = n - 1
      <3> SUFFICES ASSUME NEW j \in 1 .. n - 1, j # n - 1
                   PROVE  \E i \in j + 1 .. n - 1 : s[i].lane = s[j].lane
        BY DEF EndsTo
      <3>1. n - 1 \in j + 1 .. n - 1 /\ j \in 1 .. Len(s)
        BY <1>2
      <3> QED
        BY <3>1, <2>2, <1>2
    <2>4. n - 1 \in EndsTo(s, n - 1)
      BY <1>2 DEF EndsTo
    <2> QED
      BY <2>1, <2>3, <2>4, <1>2, <1>5
  <1>7. CASE lanes # 1
    <2>1. IsFiniteSet(EndsTo(s, n - 1)) /\ Cardinality(EndsTo(s, n - 1)) \in Nat
      <3>1. EndsTo(s, n - 1) \in SUBSET Nat /\ \A i \in EndsTo(s, n - 1) : i <= n - 1
        BY DEF EndsTo
      <3>2. n - 1 \in Nat
        BY <1>2
      <3>3. IsFiniteSet(EndsTo(s, n - 1))
        BY <3>1, <3>2, FS_BoundedSetOfNaturals
      <3> QED
        BY <3>3, FS_CardinalityType
    <2>2. \A l \in 0 .. lanes - 1 : \E e \in EndsTo(s, n - 1) : s[e].lane = l
      <3> SUFFICES ASSUME NEW l \in 0 .. lanes - 1
                   PROVE  \E e \in EndsTo(s, n - 1) : s[e].lane = l
        OBVIOUS
      <3>1. l + 1 \in 1 .. n - 1 /\ l + 1 \in DOMAIN s /\ l + 1 <= lanes
        BY <1>1, <1>2
      <3>4. \A m \in DOMAIN s : m <= lanes => s[m].lane = m - 1
        BY Filling
      <3>2. s[l + 1].lane = l + 1 - 1
        BY <3>1, <3>4
      <3>3. \E e \in EndsTo(s, n - 1) : s[e].lane = s[l + 1].lane
        BY <3>1, <1>2, LastThere
      <3> QED
        BY <3>2, <3>3
    <2> DEFINE f == [l \in 0 .. lanes - 1 |-> CHOOSE e \in EndsTo(s, n - 1) : s[e].lane = l]
    <2>3. \A l \in 0 .. lanes - 1 : f[l] \in EndsTo(s, n - 1) /\ s[f[l]].lane = l
      BY <2>2
    <2>4. f \in Injection(0 .. lanes - 1, EndsTo(s, n - 1))
      BY <2>3 DEF Injection, IsInjective
    <2>5. Cardinality(0 .. lanes - 1) <= Cardinality(EndsTo(s, n - 1))
      BY <2>1, <2>4, FS_Injection
    <2>6. Cardinality(0 .. lanes - 1) = lanes
      BY FS_Interval
    <2>7. Furthest(p, lanes) \in Lowest(p)
      BY <2>1, <2>5, <2>6, <1>3, <1>4, FurthestIs
    <2>8. Below(s, n, lanes) = Furthest(p, lanes)
      BY <1>7 DEF Below, Above, p
    <2>9. \A i \in EndsTo(s, n - 1) : p[i] = s[i]
      BY <1>3 DEF EndsTo
    <2>10. /\ Furthest(p, lanes) \in EndsTo(s, n - 1)
           /\ \A j \in EndsTo(s, n - 1) : p[Furthest(p, lanes)].end <= p[j].end
      BY <2>7, <1>4 DEF Lowest
    <2> QED
      BY <2>8, <2>9, <2>10
  <1> QED
    BY <1>6, <1>7

\* The items of a lane follow one another, below the padding.
LEMMA InOrder ==
  ASSUME NEW lanes \in Nat \ {0}, NEW o \in [count : Nat, first : Nat],
         NEW s \in Seq(Items(lanes)), Stacked(s, o, lanes)
  PROVE  \A j \in DOMAIN s :
           /\ Lead <= s[j].start
           /\ \A i \in 1 .. j - 1 : s[i].lane = s[j].lane => s[i].end <= s[j].start
  <1> DEFINE Ok(j) == /\ Lead <= s[j].start
                      /\ \A i \in 1 .. j - 1 : s[i].lane = s[j].lane => s[i].end <= s[j].start
             Bad == {j \in DOMAIN s : ~Ok(j)}
  <1>1. Len(s) \in Nat /\ DOMAIN s = 1 .. Len(s)
    BY LenProperties
  <1>2. SUFFICES ASSUME Bad # {}
                 PROVE  FALSE
    OBVIOUS
  <1>3. Bad \in SUBSET Nat
    BY <1>1
  <1> HIDE DEF Bad
  <1>4. PICK j \in Bad : \A x \in Bad : j <= x
    BY <1>2, <1>3, Least
  <1>5. j \in DOMAIN s /\ ~Ok(j) /\ j \in 1 .. Len(s)
    BY <1>1, <1>4 DEF Bad
  <1>6. \A i \in 1 .. j - 1 : i \in DOMAIN s /\ Ok(i)
    <2> SUFFICES ASSUME NEW i \in 1 .. j - 1
                 PROVE  i \in DOMAIN s /\ i \notin Bad
      BY DEF Bad
    <2>1. i \in DOMAIN s /\ ~(j <= i)
      BY <1>1, <1>5
    <2> QED
      BY <2>1, <1>4
  <1> DEFINE a == Below(s, j, lanes)
  <1>7. \A i \in DOMAIN s : /\ s[i].start \in Nat /\ s[i].size \in Nat /\ s[i].end \in Nat
                            /\ s[i].end = s[i].start + s[i].size
    BY StackedFacts, ItemFields
  <1>8. /\ a \in 0 .. j - 1
        /\ a = 0 => s[j].start = Lead /\ s[j].lane = (j - 1) % lanes
        /\ a # 0 => s[j].start = s[a].end /\ s[j].lane = s[a].lane
    BY <1>5, StackedFacts
  <1>9. CASE j <= lanes
    <2>1. s[j].lane = j - 1 /\ a = 0
      BY <1>5, <1>9, Filling
    <2>4. \A i \in 1 .. j - 1 : i \in DOMAIN s /\ i <= lanes
      BY <1>6, <1>9, <1>5
    <2>2. \A i \in 1 .. j - 1 : s[i].lane = i - 1
      BY <2>4, Filling
    <2>3. \A i \in 1 .. j - 1 : s[i].lane # s[j].lane
      BY <2>1, <2>2, <1>5
    <2> QED
      BY <2>1, <2>3, <1>5, <1>8, LayoutAssumption
  <1>10. CASE ~(j <= lanes)
    <2>1. a \in EndsTo(s, j - 1)
      BY <1>5, <1>10, Filled
    <2>2. a \in 1 .. j - 1 /\ \A i \in a + 1 .. j - 1 : s[i].lane # s[a].lane
      BY <2>1 DEF EndsTo
    <2>3. s[j].start = s[a].end /\ s[j].lane = s[a].lane
      BY <2>2, <1>8
    <2>4. Ok(a) /\ a \in DOMAIN s
      BY <2>2, <1>6
    <2> HIDE DEF a
    <2>5. Lead <= s[j].start
      BY <2>3, <2>4, <1>5, <1>7, LayoutAssumption, SMTT(30)
    <2>6. ASSUME NEW i \in 1 .. j - 1, s[i].lane = s[j].lane
          PROVE  s[i].end <= s[j].start
      <3>1. i <= a
        BY <2>2, <2>3, <2>6, <1>5
      <3>2. CASE i = a
        BY <3>2, <2>3, <2>4, <1>7
      <3>3. CASE i # a
        <4>1. i \in 1 .. a - 1
          BY <3>1, <3>3, <2>2, <1>5
        <4>2. s[i].end <= s[a].start
          BY <4>1, <2>3, <2>4, <2>6
        <4>3. i \in DOMAIN s /\ a \in DOMAIN s
          BY <2>4, <1>6
        <4>4. /\ s[i].end \in Nat /\ s[a].start \in Nat /\ s[a].size \in Nat
              /\ s[a].end = s[a].start + s[a].size
          BY <4>3, <1>7
        <4> QED
          BY <4>2, <4>4, <2>3, SMTT(30)
      <3> QED
        BY <3>2, <3>3
    <2> QED
      BY <2>5, <2>6, <1>5
  <1> QED
    BY <1>9, <1>10, <1>5

\* Where the first n items of lane l end.
EndOf(s, l, n) == Max({Lead} \cup {s[i].end : i \in {i \in 1 .. n : s[i].lane = l}})

LEMMA EndIs ==
  ASSUME NEW lanes \in Nat \ {0}, NEW o \in [count : Nat, first : Nat],
         NEW s \in Seq(Items(lanes)), Stacked(s, o, lanes), NEW n \in 0 .. Len(s), NEW l
  PROVE  /\ (\A i \in 1 .. n : s[i].lane # l) => EndOf(s, l, n) = Lead
         /\ \A e \in EndsTo(s, n) : s[e].lane = l => EndOf(s, l, n) = s[e].end
  <1> DEFINE E == {Lead} \cup {s[i].end : i \in {i \in 1 .. n : s[i].lane = l}}
  <1>1. Len(s) \in Nat /\ DOMAIN s = 1 .. Len(s) /\ Lead \in Nat
    BY LenProperties, LayoutAssumption
  <1>2. \A i \in 1 .. n : /\ i \in DOMAIN s /\ s[i].start \in Nat /\ s[i].size \in Nat
                          /\ s[i].end \in Nat /\ s[i].end = s[i].start + s[i].size
    BY <1>1, ItemFields, StackedFacts
  <1>3. E \in SUBSET Int
    BY <1>1, <1>2
  <1>4. EndOf(s, l, n) = Max(E)
    BY DEF EndOf
  <1>5. ASSUME \A i \in 1 .. n : s[i].lane # l
        PROVE  EndOf(s, l, n) = Lead
    <2>1. E = {Lead}
      BY <1>5
    <2>2. Lead \in E /\ \A x \in E : x <= Lead
      BY <2>1, <1>1, SMTT(30)
    <2> QED
      BY <2>2, <1>3, <1>4, MaxIs
  <1>6. ASSUME NEW e \in EndsTo(s, n), s[e].lane = l
        PROVE  EndOf(s, l, n) = s[e].end
    <2>1. e \in 1 .. n /\ \A j \in e + 1 .. n : s[j].lane # s[e].lane
      BY DEF EndsTo
    <2>2. e \in DOMAIN s /\ Lead <= s[e].start
      BY <1>2, <2>1, InOrder
    <2>3. Lead <= s[e].end
      BY <2>1, <2>2, <1>1, <1>2
    <2>4. ASSUME NEW i \in 1 .. n, s[i].lane = l
          PROVE  s[i].end <= s[e].end
      <3>1. ~(i \in e + 1 .. n)
        BY <2>1, <2>4, <1>6
      <3>2. i = e \/ i \in 1 .. e - 1
        BY <3>1, <2>1, <1>1
      <3>3. CASE i = e
        BY <3>3, <1>2
      <3>4. CASE i \in 1 .. e - 1
        <4>1. s[i].end <= s[e].start
          BY <3>4, <2>2, <2>4, <1>6, InOrder
        <4> QED
          BY <4>1, <2>1, <1>2, SMTT(30)
      <3> QED
        BY <3>2, <3>3, <3>4
    <2>5. s[e].end \in E
      BY <2>1, <1>6
    <2>6. \A x \in E : x <= s[e].end
      BY <2>3, <2>4
    <2> QED
      BY <2>5, <2>6, <1>3, <1>4, MaxIs
  <1> QED
    BY <1>5, <1>6

\* No gaps, no overlaps, and no lane runs ahead.
LEMMA Packing ==
  ASSUME NEW lanes \in Nat \ {0}, NEW o \in [count : Nat, first : Nat],
         NEW s \in Seq(Items(lanes)), Stacked(s, o, lanes), NEW n \in DOMAIN s
  PROVE  /\ s[n].start = EndOf(s, s[n].lane, n - 1)
         /\ \A l \in 0 .. lanes - 1 : s[n].start <= EndOf(s, l, n - 1)
  <1> DEFINE a == Below(s, n, lanes)
  <1>1. Len(s) \in Nat /\ DOMAIN s = 1 .. Len(s) /\ Lead \in Nat
    BY LenProperties, LayoutAssumption
  <1>2. n - 1 \in 0 .. Len(s) /\ \A i \in 1 .. n - 1 : i \in DOMAIN s
    BY <1>1
  <1>3. /\ a = 0 => s[n].start = Lead
        /\ a # 0 => s[n].start = s[a].end /\ s[n].lane = s[a].lane
    BY StackedFacts, SMTT(30)
  <1>4. \A i \in 1 .. n - 1 : s[i].end \in Nat /\ s[i].start \in Nat /\ s[i].size \in Nat
                              /\ s[i].end = s[i].start + s[i].size /\ Lead <= s[i].start
    BY <1>2, ItemFields, StackedFacts, InOrder, SMTT(30)
  <1>5. \A l \in 0 .. lanes - 1 :
          \/ EndOf(s, l, n - 1) = Lead
          \/ \E e \in EndsTo(s, n - 1) : s[e].lane = l /\ EndOf(s, l, n - 1) = s[e].end
    <2> SUFFICES ASSUME NEW l \in 0 .. lanes - 1
                 PROVE  \/ EndOf(s, l, n - 1) = Lead
                        \/ \E e \in EndsTo(s, n - 1) :
                             s[e].lane = l /\ EndOf(s, l, n - 1) = s[e].end
      OBVIOUS
    <2>1. CASE \A i \in 1 .. n - 1 : s[i].lane # l
      BY <2>1, <1>2, EndIs
    <2>2. CASE \E i \in 1 .. n - 1 : s[i].lane = l
      <3>1. PICK i \in 1 .. n - 1 : s[i].lane = l
        BY <2>2
      <3>2. PICK e \in EndsTo(s, n - 1) : s[e].lane = s[i].lane
        BY <1>2, LastThere
      <3>3. EndOf(s, l, n - 1) = s[e].end
        BY <3>1, <3>2, <1>2, EndIs
      <3> QED
        BY <3>1, <3>2, <3>3
    <2> QED
      BY <2>1, <2>2
  <1>6. \A e \in EndsTo(s, n - 1) : e \in 1 .. n - 1
    BY DEF EndsTo
  <1>7. CASE n <= lanes
    <2>1. a = 0 /\ s[n].lane = n - 1
      BY <1>7, Filling
    <2>2. \A i \in 1 .. n - 1 : i \in DOMAIN s /\ i <= lanes
      BY <1>2, <1>7, <1>1
    <2>5. \A i \in DOMAIN s : i <= lanes => s[i].lane = i - 1
      BY Filling
    <2>6. \A i \in 1 .. n - 1 : s[i].lane = i - 1
      BY <2>2, <2>5
    <2>7. \A i \in 1 .. n - 1 : i - 1 # n - 1
      BY <1>1
    <2>3. \A i \in 1 .. n - 1 : s[i].lane # s[n].lane
      BY <2>1, <2>6, <2>7
    <2>4. EndOf(s, s[n].lane, n - 1) = Lead
      BY <2>3, <1>2, EndIs
    <2>8. s[n].start = Lead
      BY <2>1, <1>3
    <2>9. \A i \in 1 .. n - 1 : Lead <= s[i].end
      BY <1>1, <1>4, SMTT(30)
    <2>10. \A l \in 0 .. lanes - 1 : Lead <= EndOf(s, l, n - 1)
      BY <2>9, <1>1, <1>5, <1>6
    <2> QED
      BY <2>4, <2>8, <2>10
  <1>8. CASE ~(n <= lanes)
    <2>1. a \in EndsTo(s, n - 1) /\ \A j \in EndsTo(s, n - 1) : s[a].end <= s[j].end
      <3>1. lanes < n
        BY <1>1, <1>8
      <3> QED
        BY <3>1, Filled
    <2>2. a # 0
      BY <2>1, <1>6, <1>1
    <2>3. s[n].start = s[a].end /\ s[n].lane = s[a].lane
      BY <2>2, <1>3
    <2> HIDE DEF a
    <2>4. EndOf(s, s[n].lane, n - 1) = s[a].end
      BY <2>1, <2>3, <1>2, EndIs
    <2>5. ASSUME NEW l \in 0 .. lanes - 1
          PROVE  s[n].start <= EndOf(s, l, n - 1)
      <3>1. l + 1 \in 1 .. n - 1 /\ l + 1 \in DOMAIN s /\ l + 1 <= lanes
        BY <1>1, <1>8
      <3>2. \A i \in DOMAIN s : i <= lanes => s[i].lane = i - 1
        BY Filling
      <3>3. s[l + 1].lane = l
        BY <3>1, <3>2
      <3>4. PICK e \in EndsTo(s, n - 1) : s[e].lane = s[l + 1].lane
        BY <3>1, <1>2, LastThere
      <3>5. EndOf(s, l, n - 1) = s[e].end
        BY <3>3, <3>4, <1>2, EndIs
      <3> QED
        BY <3>5, <2>1, <2>3
    <2> QED
      BY <2>3, <2>4, <2>5
  <1> QED
    BY <1>7, <1>8
----------------------------------------------------------------------------
(* One lane.                                                               *)

LEMMA OneLane ==
  ASSUME NEW o \in [count : Nat, first : Nat],
         NEW s \in Seq(Items(1)), Stacked(s, o, 1), NEW n \in DOMAIN s
  PROVE  /\ n = 1 => s[n].start = Lead
         /\ n # 1 => n - 1 \in DOMAIN s /\ s[n].start = s[n - 1].end
         /\ \A i \in 1 .. n - 1 : s[i].end <= s[n].start
         /\ s[n].start \in Nat /\ s[n].size \in Nat /\ s[n].end \in Nat
         /\ s[n].end = s[n].start + s[n].size
  <1>1. Len(s) \in Nat /\ DOMAIN s = 1 .. Len(s)
    BY LenProperties
  <1>2. n - 1 \in 0 .. Len(s) /\ 1 \in Nat \ {0}
    BY <1>1
  <1>3. Below(s, n, 1) = n - 1
    BY <1>2, Prefix DEF Below, Above
  <1>4. /\ Below(s, n, 1) = 0 => s[n].start = Lead
        /\ Below(s, n, 1) # 0 => s[n].start = s[Below(s, n, 1)].end
    BY <1>2, StackedFacts
  <1>5. \A i \in 1 .. n : i \in DOMAIN s /\ s[i].lane \in 0 .. 1 - 1
    BY <1>1, <1>2, ItemFields
  <1>6. \A i \in 1 .. n - 1 : s[i].lane = s[n].lane
    BY <1>1, <1>5
  <1>7. \A i \in 1 .. n - 1 : s[i].end <= s[n].start
    BY <1>2, <1>6, InOrder
  <1>8. /\ s[n].start \in Nat /\ s[n].size \in Nat /\ s[n].end \in Nat
        /\ s[n].end = s[n].start + s[n].size
    BY <1>2, ItemFields, StackedFacts
  <1> QED
    BY <1>1, <1>3, <1>4, <1>7, <1>8

LEMMA FollowsSize ==
  ASSUME NEW lanes \in Nat \ {0}, NEW o \in [count : Nat, first : Nat], NEW K,
         NEW known \in [K -> Nat \cup {None}], KeysOf(o) \subseteq K,
         NEW s \in Seq(Items(lanes)), Len(s) = o.count, Follows(s, o, known, lanes),
         NEW n \in 1 .. o.count
  PROVE  s[n].size = SizeOf(o.first + n - 1, known)
  <1>1. o.count \in Nat /\ o.first \in Nat /\ DOMAIN s = 1 .. o.count
    BY LenProperties
  <1> DEFINE p == SubSeq(s, 1, n - 1)
  <1>2. p \in Seq(Items(lanes)) /\ Len(p) = n - 1
    BY <1>1, Prefix
  <1>3. s[n] = Item(p, o, known, lanes)
    BY <1>1 DEF Follows
  <1> HIDE DEF p
  <1>4. Len(p) < o.count
    BY <1>1, <1>2
  <1> DEFINE k == o.first + Len(p)
             size == SizeOf(k, known)
  <1>5. size \in Nat /\ Item(p, o, known, lanes) = Put(p, k, size, lanes)
    BY <1>2, <1>4, ItemIs, ZenonT(60)
  <1>6. k \in Nat /\ k = o.first + n - 1
    BY <1>1, <1>2
  <1> HIDE DEF k
  <1>7. size = SizeOf(o.first + n - 1, known)
    BY <1>6
  <1> HIDE DEF size
  <1>8. Put(p, k, size, lanes).size = size
    BY <1>2, <1>5, <1>6, PutIs
  <1> QED
    BY <1>3, <1>5, <1>7, <1>8

\* The size of item k of o changes by delta from one set of sizes to the other.
Changes(o, known, other, k, delta) ==
  \A key \in KeysOf(o) :
    SizeOf(key, other) = SizeOf(key, known) + IF key = o.first + k - 1 THEN delta ELSE 0

----------------------------------------------------------------------------
(* What is in view.                                                        *)

LEMMA Middle ==
  ASSUME NEW low \in Nat, NEW high \in Int, low <= high
  PROVE  (low + high) \div 2 \in low .. high
  OBVIOUS

\* One step of the search g, which has the whole list before it.
Search(g, items, value, low, high) ==
  LET middle == (low + high) \div 2
      start  == items[middle + 1].start
  IN IF low > high THEN Max({low - 1, 0})
     ELSE IF start < value THEN g[<<middle + 1, high>>]
     ELSE IF start > value THEN g[<<low, middle - 1>>]
     ELSE middle

\* g is the search for all intervals that are shorter than n.
Searches(g, items, value, n) ==
  \A low \in 0 .. Len(items), high \in -1 .. Len(items) - 1 :
    high - low < n => g[<<low, high>>] = Search(g, items, value, low, high)

\* A step looks at shorter intervals only.
LEMMA SearchSame ==
  ASSUME NEW S, NEW items \in Seq(S), NEW value, NEW g, NEW h,
         NEW low \in 0 .. Len(items), NEW high \in -1 .. Len(items) - 1,
         \A a \in 0 .. Len(items), b \in -1 .. Len(items) - 1 :
           b - a < high - low => g[<<a, b>>] = h[<<a, b>>]
  PROVE  Search(g, items, value, low, high) = Search(h, items, value, low, high)
  <1> DEFINE middle == (low + high) \div 2
  <1>1. Len(items) \in Nat
    BY LenProperties
  <1>2. CASE low > high
    BY <1>2 DEF Search
  <1>3. CASE ~(low > high)
    <2>1. middle \in low .. high
      BY <1>1, <1>3, Middle
    <2> HIDE DEF middle
    <2>2. /\ middle + 1 \in 0 .. Len(items) /\ high - (middle + 1) < high - low
          /\ middle - 1 \in -1 .. Len(items) - 1 /\ (middle - 1) - low < high - low
      BY <1>1, <1>3, <2>1
    <2>3. /\ g[<<middle + 1, high>>] = h[<<middle + 1, high>>]
          /\ g[<<low, middle - 1>>] = h[<<low, middle - 1>>]
      BY <2>2
    <2> QED
      BY <2>3 DEF Search, middle
  <1> QED
    BY <1>2, <1>3

LEMMA SearchThere ==
  ASSUME NEW S, NEW items \in Seq(S), NEW value, NEW n \in Nat
  PROVE  \E g : Searches(g, items, value, n)
  <1> DEFINE L == 0 .. Len(items)
             H == -1 .. Len(items) - 1
             Bad == {m \in Nat : ~ \E g : Searches(g, items, value, m)}
  <1>1. SUFFICES ASSUME Bad # {}
                 PROVE  FALSE
    OBVIOUS
  <1>2. PICK m \in Bad : \A x \in Bad : m <= x
    BY <1>1, Least
  <1>3. Len(items) \in Nat
    BY LenProperties
  <1>4. CASE m = 0
    <2> DEFINE g == [part \in L \X H |-> Max({part[1] - 1, 0})]
    <2>1. ASSUME NEW low \in L, NEW high \in H, high - low < 0
          PROVE  g[<<low, high>>] = Search(g, items, value, low, high)
      <3>1. low > high
        BY <1>3, <2>1
      <3> QED
        BY <3>1 DEF Search
    <2> HIDE DEF g
    <2>2. Searches(g, items, value, 0)
      BY <2>1 DEF Searches
    <2> QED
      BY <2>2, <1>2, <1>4
  <1>5. CASE m # 0
    <2>1. m - 1 \in Nat /\ ~(m <= m - 1)
      BY <1>2, <1>5
    <2>2. m - 1 \notin Bad
      BY <2>1, <1>2
    <2>3. PICK g : Searches(g, items, value, m - 1)
      BY <2>1, <2>2
    <2> DEFINE h == [part \in L \X H |->
                       IF part[2] - part[1] < m - 1 THEN g[part]
                       ELSE Search(g, items, value, part[1], part[2])]
    <2>4. \A low \in L, high \in H :
            h[<<low, high>>] = IF high - low < m - 1 THEN g[<<low, high>>]
                           ELSE Search(g, items, value, low, high)
      OBVIOUS
    <2> HIDE DEF h
    <2>5. ASSUME NEW low \in L, NEW high \in H, high - low < m
          PROVE  h[<<low, high>>] = Search(h, items, value, low, high)
      <3>1. \A a \in L, b \in H : b - a < high - low => b - a < m - 1
        BY <1>2, <1>3, <2>5
      <3>2. \A a \in L, b \in H : b - a < high - low => g[<<a, b>>] = h[<<a, b>>]
        BY <3>1, <2>4
      <3>3. Search(g, items, value, low, high) = Search(h, items, value, low, high)
        BY <3>2, SearchSame
      <3>4. CASE high - low < m - 1
        BY <3>3, <3>4, <2>3, <2>4 DEF Searches
      <3>5. CASE ~(high - low < m - 1)
        BY <3>3, <3>5, <2>4
      <3> QED
        BY <3>4, <3>5
    <2>6. Searches(h, items, value, m)
      BY <2>5 DEF Searches
    <2> QED
      BY <2>6, <1>2
  <1> QED
    BY <1>4, <1>5

\* The search of findNearestBinarySearch is one of the whole list.
LEMMA NearestSearches ==
  ASSUME NEW S, NEW items \in Seq(S), NEW value
  PROVE  \E f : /\ Searches(f, items, value, Len(items))
                /\ Nearest(items, value) = f[<<0, Len(items) - 1>>]
  <1> DEFINE L == 0 .. Len(items)
             H == -1 .. Len(items) - 1
             Body(g) == [part \in L \X H |->
                           LET low    == part[1]
                               high   == part[2]
                               middle == (low + high) \div 2
                               start  == items[middle + 1].start
                           IN IF low > high THEN Max({low - 1, 0})
                              ELSE IF start < value THEN g[<<middle + 1, high>>]
                              ELSE IF start > value THEN g[<<low, middle - 1>>]
                              ELSE middle]
             f == CHOOSE g : g = Body(g)
  <1>1. Len(items) \in Nat
    BY LenProperties
  <1>2. Nearest(items, value) = f[<<0, Len(items) - 1>>]
    BY DEF Nearest
  <1>3. PICK g : Searches(g, items, value, Len(items))
    BY <1>1, SearchThere
  <1> DEFINE h == [part \in L \X H |-> g[<<part[1], part[2]>>]]
  <1>4. \A low \in L, high \in H : high - low < Len(items)
    BY <1>1
  <1>5. \A low \in L, high \in H : h[<<low, high>>] = g[<<low, high>>]
    OBVIOUS
  <1>6. ASSUME NEW low \in L, NEW high \in H
        PROVE  h[<<low, high>>] = Search(h, items, value, low, high)
    <2> HIDE DEF h
    <2>1. Search(g, items, value, low, high) = Search(h, items, value, low, high)
      BY <1>5, SearchSame
    <2> QED
      BY <2>1, <1>3, <1>4, <1>5 DEF Searches
  <1>7. h = Body(h)
    BY <1>6 DEF Search
  <1>8. f = Body(f)
    BY <1>7
  <1> HIDE DEF f
  <1>9. ASSUME NEW low \in L, NEW high \in H
        PROVE  f[<<low, high>>] = Search(f, items, value, low, high)
    BY <1>8 DEF Search
  <1> QED
    BY <1>2, <1>9 DEF Searches

\* An item that does not start after value, or the first.
LEMMA NearestIs ==
  ASSUME NEW lanes \in Nat \ {0}, NEW items \in Seq(Items(lanes)), NEW value \in Int
  PROVE  /\ Nearest(items, value) \in Nat
         /\ items = <<>> => Nearest(items, value) = 0
         /\ items # <<>> => Nearest(items, value) \in 0 .. Len(items) - 1
         /\ Nearest(items, value) = 0 \/ items[Nearest(items, value) + 1].start <= value
  <1> DEFINE L == 0 .. Len(items)
             H == -1 .. Len(items) - 1
             Ok(r) == /\ r = 0 \/ r \in 0 .. Len(items) - 1
                      /\ r = 0 \/ items[r + 1].start <= value
             Before(low) == low = 0 \/ items[low].start < value
  <1>1. Len(items) \in Nat /\ (items # <<>> => Len(items) # 0)
    BY EmptySeq
  <1>2. PICK f : /\ Searches(f, items, value, Len(items))
                 /\ Nearest(items, value) = f[<<0, Len(items) - 1>>]
    BY NearestSearches
  <1> DEFINE Bad == {n \in Nat : \E low \in L, high \in H :
                       Before(low) /\ high - low < n /\ ~Ok(f[<<low, high>>])}
  <1>3. Bad = {}
    <2>1. SUFFICES ASSUME Bad # {}
                   PROVE  FALSE
      OBVIOUS
    <2>2. PICK n \in Bad : \A x \in Bad : n <= x
      BY <2>1, Least
    <2>3. PICK low \in L, high \in H : Before(low) /\ high - low < n /\ ~Ok(f[<<low, high>>])
      BY <2>2
    <2>4. high - low < Len(items)
      BY <1>1
    <2>5. f[<<low, high>>] = Search(f, items, value, low, high)
      BY <2>4, <1>2 DEF Searches
    <2>6. CASE low > high
      <3>1. f[<<low, high>>] = Max({low - 1, 0})
        BY <2>5, <2>6 DEF Search
      <3>2. f[<<low, high>>] = IF low - 1 <= 0 THEN 0 ELSE low - 1
        <4> DEFINE b == low - 1
        <4>1. b \in Int /\ 0 \in Int
          BY <1>1
        <4> HIDE DEF b
        <4>2. Max({b, 0}) = IF b <= 0 THEN 0 ELSE b
          BY <4>1, MaxOfTwo
        <4> QED
          BY <3>1, <4>2 DEF b
      <3>3. \A i \in 1 .. Len(items) : items[i].start \in Nat
        BY <1>1, ItemFields, LenProperties
      <3>4. Ok(f[<<low, high>>])
        BY <3>2, <3>3, <2>3, <1>1
      <3> QED
        BY <3>4, <2>3
    <2>7. CASE ~(low > high)
      <3> DEFINE middle == (low + high) \div 2
                 start == items[middle + 1].start
      <3>1. middle \in low .. high
        BY <2>7, <1>1, Middle
      <3>2. f[<<low, high>>] = IF start < value THEN f[<<middle + 1, high>>]
                           ELSE IF start > value THEN f[<<low, middle - 1>>] ELSE middle
        BY <2>5, <2>7 DEF Search
      <3> HIDE DEF middle
      <3>3. /\ middle + 1 \in L /\ high - (middle + 1) < n - 1
            /\ middle - 1 \in H /\ (middle - 1) - low < n - 1
            /\ n - 1 \in Nat /\ ~(n <= n - 1) /\ middle \in 0 .. Len(items) - 1
            /\ middle + 1 \in 1 .. Len(items)
        BY <3>1, <2>2, <2>3, <2>7, <1>1
      <3>4. n - 1 \notin Bad
        BY <3>3, <2>2
      <3>5. items[middle + 1].start \in Nat
        BY <3>3, ItemFields, LenProperties
      <3>6. CASE start < value
        <4>1. Before(middle + 1)
          BY <3>6
        <4>2. Ok(f[<<middle + 1, high>>])
          BY <4>1, <3>3, <3>4
        <4> QED
          BY <4>2, <3>2, <3>6, <2>3
      <3>7. CASE start > value
        <4>1. Ok(f[<<low, middle - 1>>])
          BY <3>3, <3>4, <2>3
        <4>2. ~(start < value)
          BY <3>5, <3>7
        <4> QED
          BY <4>1, <4>2, <3>2, <3>7, <2>3
      <3>8. CASE ~(start < value) /\ ~(start > value)
        <4>1. start <= value
          BY <3>5, <3>8
        <4>2. Ok(middle)
          BY <4>1, <3>3
        <4> QED
          BY <4>2, <3>2, <3>8, <2>3
      <3> QED
        BY <3>6, <3>7, <3>8
    <2> QED
      BY <2>6, <2>7
  <1>4. 0 \in L /\ Len(items) - 1 \in H /\ (Len(items) - 1) - 0 < Len(items)
    BY <1>1
  <1>5. Ok(f[<<0, Len(items) - 1>>])
    BY <1>1, <1>3, <1>4
  <1>6. Ok(Nearest(items, value))
    BY <1>2, <1>5
  <1>7. items = <<>> => Len(items) = 0
    BY EmptySeq
  <1> HIDE DEF Before
  <1> QED
    BY <1>1, <1>6, <1>7

\* Where a range ends, the viewport ends or the list.
RangeFits(range, items, size, at) ==
  /\ range = <<range[1], range[2]>> /\ range[1] = Nearest(items, at)
  /\ range[1] \in Nat /\ range[2] \in Nat
  /\ items = <<>> => range[1] = 0 /\ range[2] = 0
  /\ items # <<>> =>
       /\ range[1] \in 0 .. Len(items) - 1 /\ range[2] \in range[1] .. Len(items) - 1
       /\ range[2] = Len(items) - 1 \/ items[range[2] + 1].end >= at + size
       /\ \A i \in range[1] .. range[2] - 1 : items[i + 1].end < at + size

LEMMA RangeIs ==
  ASSUME NEW lanes \in Nat \ {0}, NEW items \in Seq(Items(lanes)),
         NEW size \in Nat, NEW at \in Nat
  PROVE  RangeFits(RangeOf(items, size, at), items, size, at)
  <1> DEFINE last == Len(items) - 1
             first == Nearest(items, at)
             far == {i \in first .. last : i = last \/ items[i + 1].end >= at + size}
             to == IF far = {} THEN first ELSE Min(far)
             range == RangeOf(items, size, at)
  <1>1. range = <<first, to>> /\ range[1] = first /\ range[2] = to
    BY DEF RangeOf
  <1>6. first = Nearest(items, at)
    OBVIOUS
  <1>2. Len(items) \in Nat /\ at \in Int /\ (items = <<>> <=> Len(items) = 0)
    BY EmptySeq
  <1>3. /\ first \in Nat /\ (items = <<>> => first = 0)
        /\ items # <<>> => first \in 0 .. Len(items) - 1
    BY <1>2, NearestIs
  <1> HIDE DEF first, range
  <1>4. CASE items = <<>>
    <2>1. far = {}
      BY <1>2, <1>3, <1>4
    <2>2. to = 0 /\ first = 0
      BY <2>1, <1>3, <1>4
    <2> HIDE DEF to
    <2>3. range[1] = 0 /\ range[2] = 0 /\ range = <<range[1], range[2]>>
      BY <2>2, <1>1
    <2>4. RangeFits(range, items, size, at)
      BY <2>3, <1>1, <1>4, <1>6 DEF RangeFits
    <2> QED
      BY <2>4 DEF range
  <1>5. CASE items # <<>>
    <2>1. last \in far /\ far \in SUBSET Nat
      BY <1>2, <1>3, <1>5
    <2> HIDE DEF far
    <2>2. PICK m \in far : \A x \in far : m <= x
      BY <2>1, Least
    <2>3. far \in SUBSET Int /\ far # {}
      BY <2>1
    <2>4. Min(far) = m
      BY <2>2, <2>3, MinIs
    <2>5. to = m
      BY <2>3, <2>4
    <2>6. /\ m \in first .. last /\ (m = last \/ items[m + 1].end >= at + size)
          /\ m \in Nat
      BY <2>1, <2>2 DEF far
    <2>7. ASSUME NEW i \in first .. m - 1
          PROVE  items[i + 1].end < at + size
      <3>1. i \in first .. last /\ ~(m <= i) /\ i + 1 \in 1 .. Len(items)
        BY <1>2, <1>3, <1>5, <2>6
      <3>2. i \notin far
        BY <2>2, <3>1
      <3>3. items[i + 1].end \in Nat
        BY <3>1, ItemFields, LenProperties
      <3> QED
        BY <3>1, <3>2, <3>3 DEF far
    <2> HIDE DEF to
    <2>8. range[1] = first /\ range[2] = m /\ range = <<range[1], range[2]>>
      BY <1>1, <2>5
    <2>9. range[1] \in Nat /\ range[2] \in Nat /\ range[2] \in range[1] .. Len(items) - 1
      BY <1>3, <2>6, <2>8
    <2>10. range[2] = Len(items) - 1 \/ items[range[2] + 1].end >= at + size
      BY <2>6, <2>8
    <2>11. \A i \in range[1] .. range[2] - 1 : items[i + 1].end < at + size
      BY <2>7, <2>8
    <2>12. range[1] \in 0 .. Len(items) - 1
      BY <1>3, <1>5, <2>8
    <2>13. RangeFits(range, items, size, at)
      BY <2>8, <2>9, <2>10, <2>11, <2>12, <1>5, <1>6 DEF RangeFits
    <2> QED
      BY <2>13 DEF range
  <1> QED
    BY <1>4, <1>5

\* In a viewport without height the range is one item.
LEMMA RangeAtStart ==
  ASSUME NEW lanes \in Nat \ {0}, NEW items \in Seq(Items(lanes))
  PROVE  RangeOf(items, 0, 0)[2] = RangeOf(items, 0, 0)[1]
  <1> DEFINE r == RangeOf(items, 0, 0)
  <1>5. RangeFits(r, items, 0, 0)
    BY RangeIs
  <1>1. /\ items = <<>> => r[1] = 0 /\ r[2] = 0
        /\ items # <<>> =>
             /\ r[1] \in 0 .. Len(items) - 1 /\ r[2] \in r[1] .. Len(items) - 1
             /\ \A i \in r[1] .. r[2] - 1 : items[i + 1].end < 0 + 0
    BY <1>5 DEF RangeFits
  <1>2. Len(items) \in Nat /\ \A n \in 1 .. Len(items) : items[n].end \in Nat
    BY ItemFields, LenProperties
  <1> HIDE DEF r
  <1>3. ASSUME items # <<>>, r[1] < r[2]
        PROVE  FALSE
    <2>1. r[1] \in r[1] .. r[2] - 1 /\ r[1] + 1 \in 1 .. Len(items)
      BY <1>1, <1>2, <1>3
    <2>2. items[r[1] + 1].end < 0 + 0
      BY <2>1, <1>1, <1>3
    <2>3. items[r[1] + 1].end \in Nat
      BY <2>1, <1>2
    <2> QED
      BY <2>2, <2>3
  <1>4. r[1] = r[2]
    BY <1>1, <1>2, <1>3
  <1> QED
    BY <1>4 DEF r

\* Every item of one lane that is in view is in the range.
LEMMA Covers ==
  ASSUME NEW o \in [count : Nat, first : Nat],
         NEW items \in Seq(Items(1)), Stacked(items, o, 1),
         NEW size \in Nat, NEW at \in Nat, NEW i \in 0 .. Len(items) - 1,
         items[i + 1].end > at, items[i + 1].start < at + size
  PROVE  i \in RangeOf(items, size, at)[1] .. RangeOf(items, size, at)[2]
  <1> DEFINE r == RangeOf(items, size, at)
  <1>1. Len(items) \in Nat /\ DOMAIN items = 1 .. Len(items) /\ items # <<>> /\ 1 \in Nat \ {0}
    BY LenProperties, EmptySeq
  <1>2. /\ r[1] \in 0 .. Len(items) - 1 /\ r[2] \in r[1] .. Len(items) - 1
        /\ r[1] = Nearest(items, at)
        /\ r[2] = Len(items) - 1 \/ items[r[2] + 1].end >= at + size
    <2>1. RangeFits(r, items, size, at)
      BY <1>1, RangeIs
    <2> HIDE DEF r
    <2> QED
      BY <2>1, <1>1 DEF RangeFits
  <1> HIDE DEF r
  <1>3. r[1] = 0 \/ items[r[1] + 1].start <= at
    <2>1. at \in Int
      OBVIOUS
    <2>2. Nearest(items, at) = 0 \/ items[Nearest(items, at) + 1].start <= at
      BY <2>1, <1>1, NearestIs
    <2> QED
      BY <2>2, <1>2
  <1>4. \A j, k \in 1 .. Len(items) : j < k => items[j].end <= items[k].start
    <2> SUFFICES ASSUME NEW j \in 1 .. Len(items), NEW k \in 1 .. Len(items), j < k
                 PROVE  items[j].end <= items[k].start
      OBVIOUS
    <2>1. j \in 1 .. k - 1 /\ k \in DOMAIN items
      BY <1>1
    <2> QED
      BY <2>1, OneLane
  <1>5. \A j \in 1 .. Len(items) : items[j].end \in Nat /\ items[j].start \in Nat
    BY <1>1, ItemFields
  <1>6. r[1] <= i
    <2> SUFFICES ASSUME i < r[1]
                 PROVE  FALSE
      BY <1>2
    <2>1. i + 1 \in 1 .. Len(items) /\ r[1] + 1 \in 1 .. Len(items) /\ i + 1 < r[1] + 1
      BY <1>1, <1>2
    <2>2. items[i + 1].end <= items[r[1] + 1].start
      BY <2>1, <1>4
    <2>3. items[r[1] + 1].start <= at
      BY <1>2, <1>3
    <2> QED
      BY <2>1, <2>2, <2>3, <1>5
  <1>7. i <= r[2]
    <2> SUFFICES ASSUME r[2] < i
                 PROVE  FALSE
      BY <1>2
    <2>1. i + 1 \in 1 .. Len(items) /\ r[2] + 1 \in 1 .. Len(items) /\ r[2] + 1 < i + 1
      BY <1>1, <1>2
    <2>2. items[r[2] + 1].end <= items[i + 1].start
      BY <2>1, <1>4
    <2>3. items[r[2] + 1].end >= at + size
      BY <1>1, <1>2
    <2> QED
      BY <2>1, <2>2, <2>3, <1>5
  <1>8. i \in r[1] .. r[2]
    BY <1>2, <1>6, <1>7
  <1> QED
    BY <1>8 DEF r

\* The range is among the indexes extracted from it.
LEMMA Extracted ==
  ASSUME NEW o \in [count : Nat, first : Nat], NEW r1 \in Nat, NEW r2 \in Nat,
         NEW i \in r1 .. r2, i < o.count
  PROVE  i \in Extract(<<r1, r2>>, o)
  <1> DEFINE a == r1 - Overscan
             b == r2 + Overscan
             c == o.count - 1
  <1>1. a \in Int /\ b \in Int /\ c \in Int /\ 0 \in Int /\ a <= i /\ 0 <= i /\ i <= b /\ i <= c
    BY LayoutAssumption
  <1>2. Extract(<<r1, r2>>, o) = Max({a, 0}) .. Min({b, c})
    BY DEF Extract
  <1> HIDE DEF a, b, c
  <1>3. Max({a, 0}) = (IF a <= 0 THEN 0 ELSE a) /\ Min({b, c}) = (IF b <= c THEN b ELSE c)
    BY <1>1, MaxOfTwo, MinOfTwo
  <1> QED
    BY <1>1, <1>2, <1>3
============================================================================
