------------------------- MODULE VirtualizerProofs -------------------------
(***************************************************************************)
(* Theorems about Virtualizer, for any lists, sizes, viewports, numbers of *)
(* lanes and requests, from what ListLayoutProofs says of a layout.        *)
(*                                                                         *)
(* Three things are kept that the properties do not say.  The items before *)
(* the first pending index are what a full layout would make of them, and  *)
(* a size the list was laid out with is either recorded or the estimate.   *)
(* What is rendered is what the range of notified asks for, unless a       *)
(* rendering or the end of scrolling is due.  And the corrections are how  *)
(* far the measurements moved the first item that was not above the top.   *)
(***************************************************************************)
EXTENDS Virtualizer, ListLayoutProofs

\* The list as it was laid out.
ListTypes ==
  /\ opt \in Lists /\ laidOut = opt /\ lanes \in LaneCounts
  /\ sizes \in [Keys -> Nat \cup {None}]
  /\ cache \in Seq(Items(lanes)) /\ Len(cache) = opt.count /\ Stacked(cache, opt, lanes)
  /\ stale \in BOOLEAN
  /\ pending \subseteq 0 .. Len(cache) - 1
  /\ ~stale => pending = {}

\* Unless sizes were forgotten, what is not pending is up to date.
ListInv ==
  ~reset =>
    /\ stale => pending # {}
    /\ \A n \in DOMAIN cache :
         (\A j \in pending : n <= j)
           => cache[n] = Item(SubSeq(cache, 1, n - 1), opt, sizes, lanes)
    /\ \A n \in DOMAIN cache : sizes[cache[n].key] # None \/ cache[n].size = Estimate

AllAligns == {"start", "center", "end", "auto"}

\* What the timer of scrollToIndex asks for is an item of some list.
RetryTypes == retry = None \/ /\ \E l \in Lists : retry.index \in 0 .. l.count - 1
                              /\ retry.align \in AllAligns

ScrollTypes ==
  /\ scrolling \in BOOLEAN /\ want \in BOOLEAN /\ event \in BOOLEAN
  /\ offset \in Nat /\ top \in Nat /\ height \in Nat /\ view \in Nat /\ adj \in Int
  /\ held \in [Keys -> {"no", "live", "old"}]
  /\ real \in [Keys -> Nat]
  /\ \A k \in Keys : dom[k] = None \/ dom[k] = k - opt.first
  /\ RetryTypes
  /\ scroller \in {"none", "on", "left"}

\* The items of list o that a range asks for.
Shown(o, range) ==
  [k \in Keys |-> IF k - o.first \in Extract(range, o) \cap 0 .. o.count - 1
                  THEN k - o.first ELSE None]

\* What is in the DOM, and what maybeNotify remembers.
ViewInv ==
  /\ notified[2] = scrolling
  /\ scroller = "on" /\ ~event => top = offset
  /\ scroller = "none" => /\ view = 0 /\ offset = 0 /\ ~scrolling
                          /\ notified[1][2] = notified[1][1]
  /\ scroller = "on" /\ ~want /\ ~missed /\ ~scrolling =>
       ~stale /\ dom = Shown(opt, RangeOf(cache, view, offset))

\* The first of the items c that does not start before at is to move by this much.
Anchored(c, o, known, w, at, by) ==
  LET now == Laid(<<>>, o, known, w) IN
  \A i \in DOMAIN c :
    c[i].start >= at /\ (\A j \in 1 .. i - 1 : c[j].start < at)
      => now[i].start = c[i].start + by

AnchorInv ==
  lanes = 1 /\ ~reset /\ ~drift => Anchored(cache, opt, sizes, lanes, offset, adj)

Inv == ListTypes /\ ListInv /\ ScrollTypes /\ ViewInv /\ AnchorInv
----------------------------------------------------------------------------
LEMMA ListIs ==
  ASSUME NEW o \in Lists
  PROVE  /\ o \in [count : Nat, first : Nat] /\ o.count \in Nat /\ o.first \in Nat
         /\ KeysOf(o) \subseteq Keys
  <1>1. o \in [count : Nat, first : Nat]
    BY VirtualizerAssumption
  <1> QED
    BY <1>1 DEF Keys, KeysOf

LEMMA LanesAre ==
  ASSUME NEW l \in LaneCounts
  PROVE  l \in Nat \ {0}
  BY VirtualizerAssumption

LEMMA ClampIs ==
  ASSUME NEW x \in Int, NEW hi \in Int
  PROVE  Clamp(x, hi) \in Nat /\ (0 <= hi => Clamp(x, hi) <= hi)
  <1> DEFINE m == Min({x, hi})
  <1>1. m = IF x <= hi THEN x ELSE hi
    BY MinOfTwo
  <1>2. m \in Int /\ 0 \in Int /\ m <= hi
    BY <1>1
  <1>3. Clamp(x, hi) = Max({0, m})
    BY DEF Clamp
  <1> HIDE DEF m
  <1>4. Max({0, m}) = IF 0 <= m THEN m ELSE 0
    BY <1>2, MaxOfTwo
  <1> QED
    BY <1>2, <1>3, <1>4

\* The size of every item is the one that is known, or the estimate.
LEMMA SizesFollow ==
  ASSUME NEW w \in Nat \ {0}, NEW o \in Lists, NEW known \in [Keys -> Nat \cup {None}],
         NEW s \in Seq(Items(w)), Len(s) = o.count, Follows(s, o, known, w)
  PROVE  \A n \in 1 .. o.count : s[n].size = SizeOf(o.first + n - 1, known)
  <1>1. o \in [count : Nat, first : Nat] /\ KeysOf(o) \subseteq Keys
    BY ListIs
  <1> QED
    BY <1>1, FollowsSize, SMTT(60)

\* The keys a layout has, and the sizes it was given.
LEMMA FollowsKnown ==
  ASSUME NEW w \in Nat \ {0}, NEW o \in Lists, NEW known \in [Keys -> Nat \cup {None}],
         NEW s \in Seq(Items(w)), Len(s) = o.count, Stacked(s, o, w), Follows(s, o, known, w)
  PROVE  \A n \in DOMAIN s : known[s[n].key] # None \/ s[n].size = Estimate
  <1> SUFFICES ASSUME NEW n \in DOMAIN s
               PROVE  known[s[n].key] # None \/ s[n].size = Estimate
    OBVIOUS
  <1>1. o \in [count : Nat, first : Nat] /\ KeysOf(o) \subseteq Keys
    BY ListIs
  <1>2. n \in 1 .. o.count
    BY LenProperties
  <1>3. s[n].size = SizeOf(o.first + n - 1, known)
    BY <1>2, SizesFollow
  <1>4. s[n].key = o.first + n - 1
    BY <1>1, StackedFacts
  <1> QED
    BY <1>3, <1>4 DEF SizeOf

\* A layout from one of its prefixes.
LEMMA LaidFromPrefix ==
  ASSUME NEW w \in Nat \ {0}, NEW o \in Lists, NEW known \in [Keys -> Nat \cup {None}],
         NEW s \in Seq(Items(w)), Len(s) = o.count, Stacked(s, o, w), NEW m \in 0 .. Len(s)
  PROVE  LET new == Laid(SubSeq(s, 1, m), o, known, w) IN
         /\ new \in Seq(Items(w)) /\ Len(new) = o.count /\ Stacked(new, o, w)
         /\ (\A n \in 1 .. m : s[n] = Item(SubSeq(s, 1, n - 1), o, known, w))
              => Follows(new, o, known, w)
  <1> DEFINE done == SubSeq(s, 1, m)
             new == Laid(done, o, known, w)
  <1>1. o \in [count : Nat, first : Nat] /\ KeysOf(o) \subseteq Keys /\ o.count \in Nat
    BY ListIs
  <1>2. /\ done \in Seq(Items(w)) /\ Len(done) = m /\ DOMAIN done = 1 .. m
        /\ \A i \in 1 .. m : done[i] = s[i]
    BY Prefix
  <1>3. Len(s) \in Nat /\ DOMAIN s = 1 .. Len(s) /\ Len(done) <= o.count
    BY <1>2, LenProperties
  <1>4. \A n \in 1 .. m : SubSeq(done, 1, n - 1) = SubSeq(s, 1, n - 1)
    <2> SUFFICES ASSUME NEW n \in 1 .. m
                 PROVE  SubSeq(done, 1, n - 1) = SubSeq(s, 1, n - 1)
      OBVIOUS
    <2>1. n - 1 \in 0 .. m
      BY <1>3
    <2> QED
      BY <2>1, PrefixOfPrefix
  <1>5. Stacked(done, o, w)
    <2> SUFFICES ASSUME NEW n \in DOMAIN done
                 PROVE  \E size \in Nat :
                          done[n] = Put(SubSeq(done, 1, n - 1), o.first + n - 1, size, w)
      BY DEF Stacked
    <2>1. n \in DOMAIN s /\ n \in 1 .. m
      BY <1>2, <1>3
    <2>2. PICK size \in Nat : s[n] = Put(SubSeq(s, 1, n - 1), o.first + n - 1, size, w)
      BY <2>1 DEF Stacked
    <2>3. done[n] = s[n] /\ SubSeq(done, 1, n - 1) = SubSeq(s, 1, n - 1)
      BY <2>1, <1>2, <1>4
    <2> QED
      BY <2>2, <2>3
  <1> HIDE DEF done
  <1>6. new \in Seq(Items(w)) /\ Len(new) = o.count /\ Continues(new, done, o, known, w)
    BY <1>1, <1>2, <1>3, LaidFacts
  <1> HIDE DEF new
  <1>7. Stacked(new, o, w)
    BY <1>1, <1>2, <1>3, <1>5, <1>6, ContinuesStacked
  <1>8. ASSUME \A n \in 1 .. m : s[n] = Item(SubSeq(s, 1, n - 1), o, known, w)
        PROVE  Follows(new, o, known, w)
    <2>1. DOMAIN new = 1 .. Len(new)
      BY <1>6, LenProperties
    <2>2. ASSUME NEW n \in DOMAIN new, n <= m
          PROVE  new[n] = Item(SubSeq(new, 1, n - 1), o, known, w)
      <3>1. n \in 1 .. m /\ n - 1 \in Nat /\ n - 1 <= Len(new) /\ n - 1 <= Len(done)
        BY <2>1, <2>2, <1>1, <1>2, <1>3, <1>6
      <3>2. \A i \in 1 .. n - 1 : new[i] = done[i]
        BY <3>1, <1>2, <1>3, <1>6 DEF Continues
      <3>3. SubSeq(new, 1, n - 1) = SubSeq(done, 1, n - 1)
        BY <3>1, <3>2, <1>2, <1>6, SamePrefix
      <3>4. new[n] = s[n]
        BY <3>1, <1>2, <1>6 DEF Continues
      <3> QED
        BY <3>1, <3>3, <3>4, <1>4, <1>8
    <2>3. ASSUME NEW n \in DOMAIN new, ~(n <= m)
          PROVE  new[n] = Item(SubSeq(new, 1, n - 1), o, known, w)
      <3>1. n \in Len(done) + 1 .. Len(new)
        BY <2>1, <2>3, <1>1, <1>2, <1>3, <1>6
      <3> QED
        BY <3>1, <1>6 DEF Continues
    <2> QED
      BY <2>2, <2>3 DEF Follows
  <1> QED
    BY <1>6, <1>7, <1>8 DEF new, done

\* A layout of the whole list.
LEMMA LaidWhole ==
  ASSUME NEW w \in Nat \ {0}, NEW o \in Lists, NEW known \in [Keys -> Nat \cup {None}]
  PROVE  LET new == Laid(<<>>, o, known, w) IN
         /\ new \in Seq(Items(w)) /\ Len(new) = o.count /\ Stacked(new, o, w)
         /\ Follows(new, o, known, w)
  <1> DEFINE new == Laid(<<>>, o, known, w)
  <1>1. o \in [count : Nat, first : Nat] /\ KeysOf(o) \subseteq Keys /\ o.count \in Nat
    BY ListIs
  <1>2. <<>> \in Seq(Items(w)) /\ Len(<<>>) = 0 /\ Len(<<>>) <= o.count
    BY <1>1, EmptySeq
  <1>3. new \in Seq(Items(w)) /\ Len(new) = o.count /\ Continues(new, <<>>, o, known, w)
    BY <1>1, <1>2, LaidFacts
  <1>4. DOMAIN <<>> = {}
    OBVIOUS
  <1>5. Stacked(<<>>, o, w)
    BY <1>4 DEF Stacked
  <1> HIDE DEF new
  <1>6. Stacked(new, o, w)
    BY <1>1, <1>2, <1>3, <1>5, ContinuesStacked
  <1>7. DOMAIN new = 1 .. Len(new)
    BY <1>3, LenProperties
  <1>8. Follows(new, o, known, w)
    BY <1>2, <1>3, <1>7 DEF Continues, Follows
  <1> QED
    BY <1>3, <1>6, <1>8 DEF new
----------------------------------------------------------------------------
(* The list.                                                               *)

\* A layout brings the list up to date, or leaves what was.
LEMMA LayOutStep ==
  ASSUME ListTypes, ListInv, NEW o \in Lists, LayOut(o),
         opt' = o, lanes' = lanes, sizes' = sizes
  PROVE  ListTypes' /\ ListInv' /\ ~stale' /\ (o = laidOut /\ ~stale => cache' = cache)
  <1>0. /\ lanes \in Nat \ {0} /\ sizes \in [Keys -> Nat \cup {None}] /\ opt \in Lists
        /\ laidOut = opt /\ cache \in Seq(Items(lanes)) /\ Len(cache) = opt.count
        /\ Stacked(cache, opt, lanes) /\ pending \subseteq 0 .. Len(cache) - 1
        /\ ~stale => pending = {}
    BY LanesAre DEF ListTypes
  <1>1. /\ cache' = Measurements(o) /\ laidOut' = o /\ stale' = FALSE /\ pending' = {}
        /\ reset' = (reset /\ o = laidOut /\ (stale => pending # {}))
    BY DEF LayOut
  <1>2. SUFFICES /\ cache' \in Seq(Items(lanes)) /\ Len(cache') = o.count
                 /\ Stacked(cache', o, lanes)
                 /\ ~reset' => Follows(cache', o, sizes, lanes)
                 /\ o = laidOut /\ ~stale => cache' = cache
    <2>1. ASSUME /\ cache' \in Seq(Items(lanes)) /\ Len(cache') = o.count
                 /\ Stacked(cache', o, lanes)
                 /\ ~reset' => Follows(cache', o, sizes, lanes)
          PROVE  ListTypes' /\ ListInv'
      <3>1. ListTypes'
        BY <2>1, <1>0, <1>1 DEF ListTypes
      <3>2. ~reset' => \A n \in DOMAIN cache' :
                         sizes[cache'[n].key] # None \/ cache'[n].size = Estimate
        BY <2>1, <1>0, FollowsKnown
      <3>3. ListInv'
        BY <3>2, <2>1, <1>1 DEF ListInv, Follows
      <3> QED
        BY <3>1, <3>3
    <2> QED
      BY <2>1, <1>1
  <1>3. CASE o = laidOut /\ ~stale
    <2>1. cache' = cache
      BY <1>1, <1>3 DEF Measurements
    <2>2. ~reset' => Follows(cache, o, sizes, lanes)
      BY <1>0, <1>1, <1>3 DEF ListInv, Follows
    <2> QED
      BY <2>1, <2>2, <1>0, <1>3
  <1>4. CASE ~(o = laidOut /\ ~stale) /\ (o # laidOut \/ pending = {})
    <2>1. cache' = Laid(<<>>, o, sizes, lanes)
      BY <1>1, <1>4 DEF Measurements
    <2> QED
      BY <2>1, <1>0, <1>4, LaidWhole
  <1>5. CASE o = laidOut /\ stale /\ pending # {}
    <2>1. Len(cache) \in Nat /\ DOMAIN cache = 1 .. Len(cache)
      BY <1>0, LenProperties
    <2>2. pending \in SUBSET Nat
      BY <2>1, <1>0
    <2>3. PICK m \in pending : \A j \in pending : m <= j
      BY <2>2, <1>5, Least
    <2>4. pending \in SUBSET Int
      BY <2>2
    <2>5. Min(pending) = m
      BY <2>3, <2>4, MinIs
    <2>6. m \in 0 .. Len(cache)
      BY <2>1, <1>0
    <2>7. cache' = Laid(SubSeq(cache, 1, m), o, sizes, lanes)
      BY <2>5, <1>1, <1>5 DEF Measurements
    <2>8. ~reset' => \A n \in 1 .. m : cache[n] = Item(SubSeq(cache, 1, n - 1), o, sizes, lanes)
      <3> SUFFICES ASSUME ~reset', NEW n \in 1 .. m
                   PROVE  cache[n] = Item(SubSeq(cache, 1, n - 1), o, sizes, lanes)
        OBVIOUS
      <3>1. ~reset /\ o = opt
        BY <1>0, <1>1, <1>5
      <3>2. n \in DOMAIN cache
        BY <2>1, <2>6
      <3>3. \A j \in pending : n <= j
        BY <2>2, <2>3, <2>6
      <3> QED
        BY <3>1, <3>2, <3>3 DEF ListInv
    <2> QED
      BY <2>6, <2>7, <2>8, <1>0, <1>5, LaidFromPrefix
  <1> QED
    BY <1>3, <1>4, <1>5

\* What counts as up to date is the layout of the whole list.
LEMMA UpToDate ==
  ASSUME NEW w \in LaneCounts, NEW o \in Lists, NEW known,
         NEW c \in Seq(Items(w)), Len(c) = o.count,
         \A n \in DOMAIN c : c[n] = Item(SubSeq(c, 1, n - 1), o, known, w)
  PROVE  Laid(<<>>, o, known, w) = c
  <1>1. w \in Nat \ {0} /\ o \in [count : Nat, first : Nat]
    BY LanesAre, ListIs
  <1>2. Follows(c, o, known, w)
    BY DEF Follows
  <1> QED
    BY <1>1, <1>2, FollowsIsLaid

LEMMA ItemSame ==
  ASSUME NEW w, NEW o, NEW known, NEW other, NEW b,
         known[o.first + Len(b)] = other[o.first + Len(b)]
  PROVE  Item(b, o, known, w) = Item(b, o, other, w)
  BY DEF Item, SizeOf

\* The item of an element is the one its key names.
LEMMA MeasuredIs ==
  ASSUME ListTypes, ScrollTypes, NEW k \in Keys, dom[k] # None, dom[k] + 1 \in DOMAIN cache
  PROVE  /\ dom[k] = k - opt.first /\ dom[k] + 1 \in 1 .. opt.count
         /\ cache[dom[k] + 1].key = k
         /\ cache[dom[k] + 1].size \in Nat /\ cache[dom[k] + 1].start \in Nat
         /\ k \in KeysOf(opt) /\ k \in Nat
  <1>1. /\ opt \in [count : Nat, first : Nat] /\ opt.first \in Nat /\ opt.count \in Nat
        /\ KeysOf(opt) \subseteq Keys /\ lanes \in Nat \ {0}
    BY ListIs, LanesAre DEF ListTypes
  <1>2. cache \in Seq(Items(lanes)) /\ Len(cache) = opt.count /\ Stacked(cache, opt, lanes)
    BY DEF ListTypes
  <1>3. DOMAIN cache = 1 .. opt.count
    BY <1>2, LenProperties
  <1>4. dom[k] = k - opt.first
    BY DEF ScrollTypes
  <1> DEFINE n == dom[k] + 1
  <1>5. n \in 1 .. opt.count /\ n \in DOMAIN cache
    BY <1>3
  <1>6. cache[n].key = opt.first + n - 1
    BY <1>1, <1>2, <1>5, StackedFacts
  <1>7. cache[n].size \in Nat /\ cache[n].start \in Nat
    BY <1>1, <1>2, <1>5, ItemFields
  <1>8. \A key \in Keys : key \in Nat
    <2> SUFFICES ASSUME NEW l \in Lists, NEW key \in l.first .. l.first + l.count - 1
                 PROVE  key \in Nat
      BY DEF Keys
    <2>1. l.first \in Nat /\ l.count \in Nat
      BY ListIs
    <2> QED
      BY <2>1
  <1>9. k \in Nat
    BY <1>8
  <1>10. n = k - opt.first + 1
    BY <1>4
  <1> HIDE DEF n
  <1>11. k = opt.first + n - 1 /\ k \in KeysOf(opt)
    BY <1>1, <1>5, <1>9, <1>10 DEF KeysOf
  <1> QED
    BY <1>4, <1>5, <1>6, <1>7, <1>9, <1>11 DEF n

LEMMA MeasureList ==
  ASSUME ListTypes, ListInv, ScrollTypes, NEW k \in Keys, Measure(k)
  PROVE  ListTypes' /\ ListInv'
  <1> DEFINE i == dom[k]
             item == cache[i + 1]
             old == IF sizes[item.key] # None THEN sizes[item.key] ELSE item.size
             delta == real[k] - old
  <1>0. i # None /\ i + 1 \in DOMAIN cache
    BY DEF Measure
  <1>1. /\ i = k - opt.first /\ i + 1 \in 1 .. opt.count /\ item.key = k /\ k \in Nat
        /\ opt.first \in Nat /\ opt.count \in Nat
    BY <1>0, MeasuredIs, ListIs DEF ListTypes
  <1>2. /\ opt' = opt /\ lanes' = lanes /\ cache' = cache /\ laidOut' = laidOut
        /\ reset' = reset
        /\ delta = 0 => sizes' = sizes /\ stale' = stale /\ pending' = pending
        /\ delta # 0 => /\ sizes' = [sizes EXCEPT ![item.key] = real[k]]
                        /\ stale' = TRUE /\ pending' = Pend(i)
    BY DEF Measure
  <1>3. CASE delta = 0
    <2>1. sizes' = sizes /\ stale' = stale /\ pending' = pending
      BY <1>2, <1>3
    <2> HIDE DEF i, item, delta
    <2> QED
      BY <2>1, <1>2 DEF ListTypes, ListInv
  <1>4. CASE delta # 0
    <2> HIDE DEF delta
    <2>1. sizes' = [sizes EXCEPT ![k] = real[k]] /\ pending' = pending \cup {i}
      BY <1>1, <1>2, <1>4 DEF Pend
    <2>2. real[k] \in Nat /\ real[k] # None
      BY LayoutAssumption DEF ScrollTypes
    <2> HIDE DEF i, item
    <2>3. sizes' \in [Keys -> Nat \cup {None}] /\ i \in 0 .. Len(cache) - 1
      BY <2>1, <2>2, <1>1 DEF ListTypes
    <2>4. ListTypes'
      BY <2>1, <2>3, <1>2, <1>4 DEF ListTypes
    <2>5. ASSUME ~reset, NEW n \in DOMAIN cache, \A j \in pending' : n <= j
          PROVE  cache[n] = Item(SubSeq(cache, 1, n - 1), opt, sizes', lanes)
      <3>1. cache[n] = Item(SubSeq(cache, 1, n - 1), opt, sizes, lanes)
        BY <2>1, <2>5 DEF ListInv
      <3>2. cache \in Seq(Items(lanes)) /\ n \in 1 .. Len(cache) /\ Len(cache) \in Nat
        BY LenProperties DEF ListTypes
      <3>3. n - 1 \in 0 .. Len(cache)
        BY <3>2
      <3>4. Len(SubSeq(cache, 1, n - 1)) = n - 1
        BY <3>2, <3>3, Prefix
      <3>5. n <= i
        BY <2>1, <2>5
      <3>6. opt.first + (n - 1) # k
        BY <3>2, <3>5, <1>1
      <3>7. sizes'[opt.first + (n - 1)] = sizes[opt.first + (n - 1)]
        BY <3>6, <2>1
      <3> DEFINE p == SubSeq(cache, 1, n - 1)
      <3>8. sizes[opt.first + Len(p)] = sizes'[opt.first + Len(p)]
        BY <3>4, <3>7
      <3> HIDE DEF p
      <3>9. Item(p, opt, sizes, lanes) = Item(p, opt, sizes', lanes)
        BY <3>8, ItemSame
      <3> QED
        BY <3>1, <3>9 DEF p
    <2>6. ASSUME ~reset, NEW n \in DOMAIN cache
          PROVE  sizes'[cache[n].key] # None \/ cache[n].size = Estimate
      <3>1. sizes[cache[n].key] # None \/ cache[n].size = Estimate
        BY <2>6 DEF ListInv
      <3>2. CASE cache[n].key = k
        BY <3>2, <2>1, <2>2 DEF ListTypes
      <3>3. CASE cache[n].key # k
        BY <3>1, <3>3, <2>1
      <3> QED
        BY <3>2, <3>3
    <2>7. ListInv'
      BY <2>1, <2>5, <2>6, <1>2 DEF ListInv
    <2> QED
      BY <2>4, <2>7
  <1> QED
    BY <1>3, <1>4

\* The actions that lay the list out.
LEMMA Relaid ==
  /\ \A o, size : Render(o, size) =>
       LayOut(o) /\ opt' = o /\ UNCHANGED <<lanes, sizes, retry, real>>
  /\ ScrollEvent => \/ top = offset /\ UNCHANGED <<list, reset>>
                    \/ top # offset /\ LayOut(opt) /\ UNCHANGED <<opt, lanes, sizes>>
  /\ ScrollEnd => LayOut(opt) /\ UNCHANGED <<opt, lanes, sizes>>
  /\ \A size : RectChange(size) => LayOut(opt) /\ UNCHANGED <<opt, lanes, sizes>>
  /\ \A index, align, smooth : ScrollToIndex(index, align, smooth) =>
       LayOut(opt) /\ UNCHANGED <<opt, lanes, sizes>>
  /\ Retry => LayOut(opt) /\ UNCHANGED <<opt, lanes, sizes>>
  BY DEF Render, ScrollEvent, ScrollEnd, RectChange, ScrollToIndex, Retry, LayOutAgain

LEMMA ListStep ==
  ASSUME ListTypes, ListInv, ScrollTypes, [Next]_vars
  PROVE  ListTypes' /\ ListInv'
  <1>0. opt \in Lists
    BY DEF ListTypes
  <1>1. ASSUME UNCHANGED <<list, reset>>
        PROVE  ListTypes' /\ ListInv'
    BY <1>1 DEF ListTypes, ListInv, list
  <1>2. ASSUME NEW o \in Lists, LayOut(o), opt' = o, UNCHANGED <<lanes, sizes>>
        PROVE  ListTypes' /\ ListInv'
    BY <1>2, LayOutStep
  <1>3. CASE RenderList
    <2>1. PICK o \in Lists, size \in FirstViews : Render(o, size)
      BY <1>3 DEF RenderList
    <2> QED
      BY <2>1, <1>2, Relaid
  <1>4. CASE MeasureOne
    BY <1>4, MeasureList DEF MeasureOne
  <1>5. CASE \E n \in gone : Removed(n)
    BY <1>5, <1>1 DEF Removed
  <1>6. CASE ScrollEvent
    BY <1>0, <1>1, <1>2, <1>6, Relaid
  <1>7. CASE ScrollEnd
    BY <1>0, <1>2, <1>7, Relaid
  <1>8. CASE Retry
    BY <1>0, <1>2, <1>8, Relaid
  <1>9. CASE \E size \in Views : RectChange(size)
    BY <1>0, <1>2, <1>9, Relaid
  <1>10. CASE \E x \in Offsets : UserScroll(x) \/ ScrollBy(x)
    BY <1>10, <1>1 DEF UserScroll, ScrollBy
  <1>11. CASE \E x \in Offsets, align \in Aligns : ScrollToOffset(x, align)
    BY <1>11, <1>1 DEF ScrollToOffset
  <1>12. CASE \E index \in Asked, align \in Aligns, smooth \in BOOLEAN :
                ScrollToIndex(index, align, smooth)
    BY <1>0, <1>2, <1>12, Relaid
  <1>13. CASE \E k \in Keys, h \in Sizes : Resize(k, h)
    BY <1>13, <1>1 DEF Resize
  <1>14. CASE Forget
    <2>1. /\ opt' = opt /\ lanes' = lanes /\ cache' = cache /\ laidOut' = laidOut
          /\ pending' = pending /\ stale' = TRUE /\ reset' = TRUE
          /\ sizes' = [k \in Keys |-> None]
      BY <1>14 DEF Forget
    <2>2. sizes' \in [Keys -> Nat \cup {None}]
      BY <2>1
    <2>3. ListTypes'
      BY <2>1, <2>2 DEF ListTypes
    <2> QED
      BY <2>1, <2>3 DEF ListInv
  <1>15. CASE Unmount
    BY <1>15, <1>1 DEF Unmount
  <1>16. CASE UNCHANGED vars
    BY <1>16, <1>1 DEF vars
  <1> QED
    BY <1>3, <1>4, <1>5, <1>6, <1>7, <1>8, <1>9, <1>10, <1>11, <1>12, <1>13, <1>14, <1>15, <1>16
    DEF Next

----------------------------------------------------------------------------
(* Scrolling.                                                              *)

LEMMA TotalIs ==
  ASSUME NEW w \in Nat \ {0}, NEW s \in Seq(Items(w))
  PROVE  TotalSize(s) \in Nat
  <1>1. CASE s = <<>>
    BY <1>1, LayoutAssumption DEF TotalSize
  <1>2. CASE s # <<>>
    <2>1. Len(s) \in DOMAIN s
      BY <1>2, EmptySeq, LenProperties
    <2>2. s[Len(s)].end \in Nat
      BY <2>1, ItemFields
    <2> QED
      BY <1>2, <2>2 DEF TotalSize
  <1> QED
    BY <1>1, <1>2

\* scrollToFn, from a position and a size that are numbers.
LEMMA ScrollToIs ==
  ASSUME NEW on \in BOOLEAN, NEW x \in Int, NEW h \in Nat, NEW size \in Nat, NEW at \in Nat
  PROVE  (IF on THEN Clamp(x, h - size) ELSE at) \in Nat
  <1>1. h - size \in Int
    OBVIOUS
  <1> QED
    BY <1>1, ClampIs

\* getOffsetForAlignment
LEMMA AlignedIs ==
  ASSUME ScrollTypes, NEW to \in Int, NEW align \in AllAligns
  PROVE  Aligned(to, align) \in Nat
  <1> DEFINE how == IF align # "auto" THEN align
                    ELSE IF to > offset /\ to >= offset + view THEN "end" ELSE "start"
             at == CASE how = "start" -> to [] how = "end" -> to - view
                     [] how = "center" -> to - view \div 2
             hi == (IF scroller = "on" THEN height ELSE 0) - view
  <1>1. how \in {"start", "end", "center"}
    BY DEF AllAligns
  <1> HIDE DEF how
  <1>2. view \in Nat /\ height \in Nat
    BY DEF ScrollTypes
  <1>3. to - view \in Int /\ to - view \div 2 \in Int
    BY <1>2
  <1>4. at \in Int
    BY <1>1, <1>3
  <1>5. hi \in Int
    BY <1>2
  <1>6. Aligned(to, align) = Clamp(at, hi)
    BY DEF Aligned, how
  <1> HIDE DEF at, hi
  <1> QED
    BY <1>4, <1>5, <1>6, ClampIs

\* getOffsetForIndex, in a list that is not empty.
LEMMA OffsetIs ==
  ASSUME ListTypes, ScrollTypes, opt.count # 0, NEW items \in Seq(Items(lanes)),
         Len(items) = opt.count, NEW index \in Int, NEW align \in AllAligns
  PROVE  /\ OffsetOf(items, index, align)[1] \in Nat
         /\ OffsetOf(items, index, align)[2] \in AllAligns
  <1>0. lanes \in Nat \ {0} /\ opt.count \in Nat /\ DOMAIN items = 1 .. opt.count
    BY ListIs, LanesAre, LenProperties DEF ListTypes
  <1> DEFINE i == Clamp(index, opt.count - 1) + 1
             item == items[i]
             how == IF align # "auto" THEN align
                    ELSE IF item.end >= offset + view THEN "end"
                    ELSE IF item.start <= offset THEN "start" ELSE "auto"
             to == IF how = "end" THEN item.end ELSE item.start
  <1>1. opt.count - 1 \in Int /\ 0 <= opt.count - 1
    BY <1>0
  <1>2. Clamp(index, opt.count - 1) \in Nat /\ Clamp(index, opt.count - 1) <= opt.count - 1
    BY <1>1, ClampIs
  <1>3. i \in DOMAIN items
    BY <1>0, <1>2
  <1> HIDE DEF i
  <1>4. item.end \in Nat /\ item.start \in Nat
    BY <1>0, <1>3, ItemFields
  <1>5. OffsetOf(items, index, align) =
          IF how = "auto" THEN <<offset, "auto">> ELSE <<Aligned(to, how), how>>
    BY DEF OffsetOf, i
  <1> HIDE DEF item
  <1>6. how \in AllAligns
    BY DEF AllAligns
  <1>7. to \in Int
    BY <1>4
  <1> HIDE DEF how, to
  <1>8. Aligned(to, how) \in Nat
    BY <1>6, <1>7, AlignedIs
  <1>9. offset \in Nat
    BY DEF ScrollTypes
  <1> QED
    BY <1>5, <1>6, <1>8, <1>9

\* scrollToIndex, from a layout that is up to date.
LEMMA JumpTypes ==
  ASSUME ListTypes, ScrollTypes, cache' \in Seq(Items(lanes)), Len(cache') = opt.count,
         opt.count # 0, NEW wanted \in Int, NEW align \in AllAligns, NEW smooth,
         Jump(InList(wanted), align, smooth)
  PROVE  /\ top' \in Nat /\ event' \in BOOLEAN
         /\ scroller = "on" /\ ~event' => top' = top /\ ~event
         /\ scroller # "on" => top' = top
         /\ RetryTypes'
  <1> DEFINE index == InList(wanted)
             to == OffsetOf(cache', index, align)
  <1>0. opt \in Lists /\ opt.count \in Nat
    BY ListIs DEF ListTypes
  <1>1. opt.count - 1 \in Int /\ 0 <= opt.count - 1
    BY <1>0
  <1>2. index \in Nat /\ index <= opt.count - 1
    BY <1>1, ClampIs DEF InList
  <1>3. index \in 0 .. opt.count - 1 /\ index \in Int
    BY <1>0, <1>2
  <1> HIDE DEF index
  <1>4. to[1] \in Nat /\ to[2] \in AllAligns
    BY <1>3, OffsetIs
  <1>5. /\ top' = (IF scroller = "on" THEN Clamp(to[1], height - view) ELSE top)
        /\ event' = (event \/ top' # top)
        /\ retry' = IF Dynamic /\ ~smooth THEN [index |-> index, align |-> to[2]] ELSE None
    BY DEF Jump, ScrollTo, index
  <1> HIDE DEF to
  <1>6. top' \in Nat
    <2>1. to[1] \in Int /\ height \in Nat /\ view \in Nat /\ top \in Nat
          /\ (scroller = "on") \in BOOLEAN
      BY <1>4 DEF ScrollTypes
    <2> QED
      BY <2>1, <1>5, ScrollToIs
  <1>7. event' \in BOOLEAN
    BY <1>5 DEF ScrollTypes
  <1>8. retry' = None \/ (retry'.index = index /\ retry'.align = to[2])
    BY <1>5
  <1> QED
    BY <1>0, <1>3, <1>4, <1>5, <1>6, <1>7, <1>8 DEF RetryTypes

\* What scrolls and asks for nothing else.
LEMMA JustScrolls ==
  ASSUME ScrollTypes, top' \in Nat, event' \in BOOLEAN, want' \in BOOLEAN, RetryTypes',
         scrolling' \in BOOLEAN, offset' \in Nat, adj' \in Int, view' \in Nat,
         UNCHANGED <<opt, height, held, real, dom, scroller>>
  PROVE  ScrollTypes'
  BY DEF ScrollTypes, RetryTypes

LEMMA RenderTypes ==
  ASSUME ListTypes, ListTypes', ScrollTypes, NEW o \in Lists, NEW size \in FirstViews,
         Render(o, size)
  PROVE  ScrollTypes'
  <1> DEFINE off == {k \in Keys : dom[k] # None /\ dom'[k] = None /\ held[k] = "live"}
  <1>1. /\ opt' = o /\ dom' = VirtualItems(cache', o) /\ height' = TotalSize(cache')
        /\ held' = [k \in Keys |-> IF k \in off THEN "old" ELSE held[k]]
        /\ UNCHANGED <<retry, real>> /\ (Stay(o) \/ Attach(size))
    BY DEF Render
  <1> HIDE DEF off
  <1>2. held' \in [Keys -> {"no", "live", "old"}]
    BY <1>1 DEF ScrollTypes
  <1>3. \A k \in Keys : dom'[k] = None \/ dom'[k] = k - opt'.first
    BY <1>1 DEF VirtualItems
  <1>4. height' \in Nat
    BY <1>1, TotalIs, LanesAre DEF ListTypes
  <1>5. /\ view \in Nat /\ offset \in Nat /\ top \in Nat /\ event \in BOOLEAN /\ adj \in Int
        /\ scrolling \in BOOLEAN /\ scroller \in {"none", "on", "left"} /\ size \in Nat
    BY VirtualizerAssumption DEF ScrollTypes
  <1>6. /\ top' \in Nat /\ event' \in BOOLEAN /\ want' \in BOOLEAN /\ scrolling' \in BOOLEAN
        /\ offset' \in Nat /\ adj' \in Int /\ view' \in Nat
        /\ scroller' \in {"none", "on", "left"}
    <2>1. CASE Stay(o)
      <3>1. height' - view \in Int /\ top \in Int
        BY <1>4, <1>5
      <3>2. Clamp(top, height' - view) \in Nat
        BY <3>1, ClampIs
      <3> QED
        BY <2>1, <3>2, <1>5 DEF Stay
    <2>2. CASE Attach(size)
      <3> DEFINE at == Clamp(offset, height' - size)
      <3>1. height' - size \in Int /\ offset \in Int
        BY <1>4, <1>5
      <3>2. at \in Nat
        BY <3>1, ClampIs
      <3>3. /\ scroller' = "on" /\ view' = size /\ top' = at /\ offset' = at /\ adj' = 0
            /\ scrolling' \in BOOLEAN /\ event' \in BOOLEAN /\ want' \in BOOLEAN
        BY <2>2 DEF Attach
      <3> HIDE DEF at
      <3> QED
        BY <3>2, <3>3, <1>5
    <2> QED
      BY <2>1, <2>2, <1>1
  <1> QED
    BY <1>1, <1>2, <1>3, <1>4, <1>6 DEF ScrollTypes, RetryTypes

LEMMA MeasureTypes ==
  ASSUME ListTypes, ScrollTypes, NEW k \in Keys, Measure(k)
  PROVE  ScrollTypes'
  <1> DEFINE item == cache[dom[k] + 1]
             old == IF sizes[item.key] # None THEN sizes[item.key] ELSE item.size
             delta == real[k] - old
  <1>1. /\ item.key = k /\ item.size \in Nat
        /\ sizes[k] # None => sizes[k] \in Nat
    BY MeasuredIs DEF Measure, ListTypes
  <1>2. /\ held' = [held EXCEPT ![item.key] = "live"]
        /\ UNCHANGED <<opt, offset, view, scrolling, retry, scroller, dom, real, height>>
        /\ \/ UNCHANGED <<adj, want, top, event>>
           \/ want' = TRUE /\ UNCHANGED <<adj, top, event>>
           \/ /\ want' = TRUE /\ adj' = Adjust(delta)
              /\ top' = (IF scroller = "on" THEN Clamp(offset + adj', height - view) ELSE top)
              /\ event' = (event \/ top' # top)
    BY DEF Measure, ScrollTo
  <1>3. real[k] \in Nat /\ old \in Nat
    BY <1>1 DEF ScrollTypes
  <1>4. held' \in [Keys -> {"no", "live", "old"}]
    BY <1>1, <1>2 DEF ScrollTypes
  <1> HIDE DEF item, old
  <1>5. delta \in Int
    BY <1>3
  <1> HIDE DEF delta
  <1>6. adj' \in Int
    BY <1>2, <1>5 DEF ScrollTypes, Adjust
  <1>7. offset + adj' \in Int /\ height \in Nat /\ view \in Nat /\ top \in Nat
    BY <1>6 DEF ScrollTypes
  <1>8. (scroller = "on") \in BOOLEAN
    OBVIOUS
  <1>9. top' \in Nat
    <2>1. CASE top' = top
      BY <2>1, <1>7
    <2>2. CASE top' = (IF scroller = "on" THEN Clamp(offset + adj', height - view) ELSE top)
      BY <2>2, <1>7, <1>8, ScrollToIs
    <2> QED
      BY <2>1, <2>2, <1>2
  <1>10. event' \in BOOLEAN /\ want' \in BOOLEAN
    BY <1>2 DEF ScrollTypes
  <1> QED
    BY <1>2, <1>4, <1>6, <1>9, <1>10 DEF ScrollTypes, RetryTypes

LEMMA ScrolledTypes ==
  ASSUME ScrollTypes, NEW x \in Int, ScrollTo(x, height, view)
  PROVE  top' \in Nat /\ event' \in BOOLEAN
  <1>1. height \in Nat /\ view \in Nat /\ top \in Nat /\ (scroller = "on") \in BOOLEAN
    BY DEF ScrollTypes
  <1>2. /\ top' = (IF scroller = "on" THEN Clamp(x, height - view) ELSE top)
        /\ event' = (event \/ top' # top)
    BY DEF ScrollTo
  <1>3. top' \in Nat
    BY <1>1, <1>2, ScrollToIs
  <1> QED
    BY <1>2, <1>3 DEF ScrollTypes

LEMMA TypesStep ==
  ASSUME ListTypes, ListTypes', ScrollTypes, [Next]_vars
  PROVE  ScrollTypes'
  <1>0. /\ opt \in Lists /\ opt.count \in Nat /\ opt.first \in Nat
        /\ scrolling \in BOOLEAN /\ want \in BOOLEAN /\ event \in BOOLEAN
        /\ offset \in Nat /\ top \in Nat /\ height \in Nat /\ view \in Nat /\ adj \in Int
        /\ RetryTypes
    BY ListIs DEF ListTypes, ScrollTypes, RetryTypes
  <1>1. ASSUME UNCHANGED retry
        PROVE  RetryTypes'
    BY <1>0, <1>1 DEF RetryTypes
  <1>2. ASSUME retry' = None
        PROVE  RetryTypes'
    BY <1>2 DEF RetryTypes
  <1>3. CASE RenderList
    BY <1>3, RenderTypes DEF RenderList
  <1>4. CASE MeasureOne
    BY <1>4, MeasureTypes DEF MeasureOne
  <1>5. CASE \E n \in gone : Removed(n)
    <2>1. PICK n \in gone : Removed(n)
      BY <1>5
    <2>2. /\ held' = held \/ held' = [held EXCEPT ![n.key] = "no"]
          /\ UNCHANGED <<opt, scrolling, want, event, offset, top, height, view, adj, real, dom,
                         retry, scroller>>
      BY <2>1 DEF Removed, list, scroll, browser
    <2>3. held' \in [Keys -> {"no", "live", "old"}]
      BY <2>2 DEF ScrollTypes
    <2> QED
      BY <2>2, <2>3 DEF ScrollTypes, RetryTypes
  <1>6. CASE ScrollEvent
    <2>1. /\ event' = FALSE /\ adj' = 0 /\ UNCHANGED <<view, top, retry>>
          /\ UNCHANGED <<opt, height, held, real, dom, scroller>>
          /\ offset' \in {offset, top} /\ scrolling' \in {scrolling, TRUE}
          /\ want' \in BOOLEAN
      BY <1>0, <1>6 DEF ScrollEvent, list, Notify
    <2>2. offset' \in Nat /\ scrolling' \in BOOLEAN
      BY <2>1, <1>0
    <2>3. event' \in BOOLEAN /\ RetryTypes'
      BY <2>1, <1>1
    <2>4. adj' \in Int /\ top' \in Nat /\ view' \in Nat
      BY <2>1, <1>0
    <2>5. want' \in BOOLEAN /\ UNCHANGED <<opt, height, held, real, dom, scroller>>
      BY <2>1
    <2> QED
      BY <2>2, <2>3, <2>4, <2>5, JustScrolls
  <1>7. CASE ScrollEnd
    <2>1. /\ UNCHANGED <<event, adj, view, top, retry, offset>>
          /\ UNCHANGED <<opt, height, held, real, dom, scroller>>
          /\ scrolling' = FALSE /\ want' \in BOOLEAN
      BY <1>0, <1>7 DEF ScrollEnd, browser, Notify
    <2> QED
      BY <2>1, <1>0, <1>1, JustScrolls
  <1>8. CASE Retry
    <2>1. /\ UNCHANGED <<adj, view, offset, want, scrolling, lanes>>
          /\ UNCHANGED <<opt, height, held, real, dom, scroller>>
          /\ \/ retry' = None /\ UNCHANGED <<top, event>>
             \/ opt.count # 0 /\ Jump(InList(retry.index), retry.align, FALSE)
          /\ retry # None
      BY <1>8 DEF Retry, scroll
    <2>2. cache' \in Seq(Items(lanes)) /\ Len(cache') = opt.count
      BY <2>1 DEF ListTypes
    <2>3. retry.index \in Int /\ retry.align \in AllAligns
      BY <2>1, <1>0 DEF RetryTypes
    <2>4. top' \in Nat /\ event' \in BOOLEAN /\ RetryTypes'
      <3>1. CASE retry' = None /\ UNCHANGED <<top, event>>
        BY <3>1, <1>0, <1>2
      <3>2. CASE opt.count # 0 /\ Jump(InList(retry.index), retry.align, FALSE)
        BY <3>2, <2>2, <2>3, JumpTypes
      <3> QED
        BY <3>1, <3>2, <2>1
    <2> QED
      BY <2>1, <2>4, <1>0, JustScrolls
  <1>9. CASE \E size \in Views : RectChange(size)
    <2>1. PICK size \in Views : RectChange(size)
      BY <1>9
    <2>2. /\ UNCHANGED <<adj, offset, scrolling, retry>>
          /\ UNCHANGED <<opt, height, held, real, dom, scroller>>
          /\ view' = size /\ top' = Clamp(top, height - size)
          /\ event' \in BOOLEAN /\ want' \in BOOLEAN
      BY <2>1, <1>0 DEF RectChange, Notify
    <2>3. size \in Nat /\ height - size \in Int
      BY <1>0, VirtualizerAssumption
    <2>4. top' \in Nat
      BY <2>2, <2>3, <1>0, ClampIs
    <2> QED
      BY <2>2, <2>3, <2>4, <1>0, <1>1, JustScrolls
  <1>10. CASE \E x \in Offsets : UserScroll(x) \/ ScrollBy(x)
    <2>1. PICK x \in Offsets : UserScroll(x) \/ ScrollBy(x)
      BY <1>10
    <2>2. x \in Int /\ offset + x \in Int
      BY <1>0, VirtualizerAssumption
    <2>3. top' \in Nat /\ event' \in BOOLEAN
      BY <2>1, <2>2, ScrolledTypes DEF UserScroll, ScrollBy
    <2>4. /\ UNCHANGED <<adj, view, offset, want, scrolling>>
          /\ UNCHANGED <<opt, height, held, real, dom, scroller>>
          /\ retry' = None \/ UNCHANGED retry
      BY <2>1 DEF UserScroll, ScrollBy, list, scroll
    <2> QED
      BY <2>3, <2>4, <1>0, <1>1, <1>2, JustScrolls
  <1>11. CASE \E x \in Offsets, align \in Aligns : ScrollToOffset(x, align)
    <2>1. PICK x \in Offsets, align \in Aligns : ScrollToOffset(x, align)
      BY <1>11
    <2>2. x \in Int /\ align \in AllAligns
      BY VirtualizerAssumption DEF AllAligns
    <2>3. Aligned(x, align) \in Int
      BY <2>2, AlignedIs
    <2>4. /\ UNCHANGED <<adj, view, offset, want, scrolling>>
          /\ UNCHANGED <<opt, height, held, real, dom, scroller>>
          /\ retry' = None /\ ScrollTo(Aligned(x, align), height, view)
      BY <2>1 DEF ScrollToOffset, list, scroll
    <2>5. top' \in Nat /\ event' \in BOOLEAN
      BY <2>3, <2>4, ScrolledTypes
    <2> QED
      BY <2>4, <2>5, <1>0, <1>2, JustScrolls
  <1>12. CASE \E index \in Asked, align \in Aligns, smooth \in BOOLEAN :
                ScrollToIndex(index, align, smooth)
    <2>1. PICK index \in Asked, align \in Aligns, smooth \in BOOLEAN :
            ScrollToIndex(index, align, smooth)
      BY <1>12
    <2>2. /\ UNCHANGED <<adj, view, offset, want, scrolling, lanes>>
          /\ UNCHANGED <<opt, height, held, real, dom, scroller>>
          /\ \/ retry' = None /\ UNCHANGED <<top, event>>
             \/ opt.count # 0 /\ Jump(InList(index), align, smooth)
      BY <2>1 DEF ScrollToIndex, scroll
    <2>3. cache' \in Seq(Items(lanes)) /\ Len(cache') = opt.count
      BY <2>2 DEF ListTypes
    <2>4. index \in Int /\ align \in AllAligns
      BY VirtualizerAssumption DEF AllAligns
    <2>5. top' \in Nat /\ event' \in BOOLEAN /\ RetryTypes'
      <3>1. CASE retry' = None /\ UNCHANGED <<top, event>>
        BY <3>1, <1>0, <1>2
      <3>2. CASE opt.count # 0 /\ Jump(InList(index), align, smooth)
        BY <3>2, <2>3, <2>4, JumpTypes
      <3> QED
        BY <3>1, <3>2, <2>2
    <2> QED
      BY <2>2, <2>5, <1>0, JustScrolls
  <1>13. CASE \E k \in Keys, h \in Sizes : Resize(k, h)
    <2>1. PICK k \in Keys, h \in Sizes : Resize(k, h)
      BY <1>13
    <2>2. /\ UNCHANGED <<opt, scrolling, want, event, offset, top, height, view, adj, held, dom,
                         retry, scroller>>
          /\ real' = [real EXCEPT ![k] = h] /\ h \in Nat
      BY <2>1, VirtualizerAssumption DEF Resize, list, scroll
    <2> QED
      BY <2>2 DEF ScrollTypes, RetryTypes
  <1>14. CASE Forget
    <2>1. /\ UNCHANGED <<opt, scrolling, event, offset, top, height, view, adj, held, dom, real,
                         retry, scroller>>
          /\ want' = TRUE
      BY <1>14 DEF Forget, scroll, browser
    <2> QED
      BY <2>1 DEF ScrollTypes, RetryTypes
  <1>15. CASE Unmount
    <2>1. /\ UNCHANGED <<opt, scrolling, want, offset, top, height, view, adj, real, retry>>
          /\ scroller' = "left" /\ event' = FALSE /\ dom' = [k \in Keys |-> None]
          /\ held' = [k \in Keys |-> IF held[k] = "live" THEN "old" ELSE held[k]]
      BY <1>15 DEF Unmount, list, scroll
    <2> QED
      BY <2>1 DEF ScrollTypes, RetryTypes
  <1>16. CASE UNCHANGED vars
    BY <1>16 DEF ScrollTypes, RetryTypes, vars, list, scroll, browser
  <1> QED
    BY <1>3, <1>4, <1>5, <1>6, <1>7, <1>8, <1>9, <1>10, <1>11, <1>12, <1>13, <1>14, <1>15, <1>16
    DEF Next
----------------------------------------------------------------------------
(* What is rendered.                                                       *)

LEMMA ItemsShown ==
  ASSUME NEW items, NEW o
  PROVE  VirtualItems(items, o) = Shown(o, RangeOf(items, view, offset))
  BY DEF VirtualItems, Indexes, Shown

\* A range of one item at the top is the range in no viewport.
LEMMA RangeOfNone ==
  ASSUME NEW w \in Nat \ {0}, NEW items \in Seq(Items(w)), NEW size \in Nat,
         RangeOf(items, size, 0)[2] = RangeOf(items, size, 0)[1]
  PROVE  RangeOf(items, size, 0) = RangeOf(items, 0, 0)
  <1> DEFINE a == RangeOf(items, size, 0)
             b == RangeOf(items, 0, 0)
  <1>1. RangeFits(a, items, size, 0) /\ RangeFits(b, items, 0, 0)
    BY RangeIs
  <1>2. b[2] = b[1] /\ a[2] = a[1]
    BY RangeAtStart
  <1> HIDE DEF a, b
  <1>3. a = <<a[1], a[2]>> /\ b = <<b[1], b[2]>> /\ a[1] = b[1]
    BY <1>1 DEF RangeFits
  <1>4. a = b
    BY <1>2, <1>3
  <1> QED
    BY <1>4 DEF a, b

\* What changes nothing that is rendered, or asks for a rendering.
LEMMA ViewStays ==
  ASSUME ViewInv, UNCHANGED <<opt, scrolling, notified, offset, view, missed>>,
         scroller' = scroller, scroller = "on" /\ ~event' => top' = top /\ ~event,
         ~want' => ~want /\ dom' = dom /\ (~stale => ~stale' /\ cache' = cache)
  PROVE  ViewInv'
  BY DEF ViewInv, Shown

\* A rendering in the element that is there, and the first in a new one.
LEMMA RenderView ==
  ASSUME ListTypes, ListInv, ScrollTypes, ViewInv, NEW o \in Lists, NEW size \in FirstViews,
         Render(o, size), ListTypes', ~stale'
  PROVE  ViewInv'
  <1>1. /\ opt' = o /\ dom' = VirtualItems(cache', o) /\ missed' = FALSE
        /\ (Stay(o) \/ Attach(size))
    BY DEF Render
  <1>2. dom' = Shown(o, RangeOf(cache', view, offset))
    BY <1>1, ItemsShown
  <1>3. CASE Stay(o)
    <2>1. /\ scroller' = "on" /\ scroller = "on" /\ (event' = (event \/ top' # top))
          /\ UNCHANGED <<view, offset, scrolling, notified>>
      BY <1>3 DEF Stay
    <2>2. notified'[2] = scrolling'
      BY <2>1 DEF ViewInv
    <2>3. ~event' => top' = offset'
      BY <2>1 DEF ViewInv
    <2>4. dom' = Shown(opt', RangeOf(cache', view', offset'))
      BY <2>1, <1>1, <1>2
    <2> QED
      BY <2>1, <2>2, <2>3, <2>4 DEF ViewInv, Shown
  <1>4. CASE Attach(size)
    <2> DEFINE at == Clamp(offset, height' - size)
               mid == <<RangeOf(cache', size, offset), FALSE>>
               deps == <<RangeOf(cache', size, at), at # offset>>
    <2>1. /\ scroller = "none" /\ scroller' = "on" /\ view' = size /\ top' = at
          /\ offset' = at /\ scrolling' = (at # offset) /\ notified' = deps
          /\ want' = (mid # notified \/ deps # mid)
      BY <1>4 DEF Attach
    <2>2. view = 0 /\ offset = 0 /\ notified[1][2] = notified[1][1]
      BY <2>1 DEF ViewInv
    <2>3. notified'[2] = scrolling'
      BY <2>1
    <2>4. ASSUME ~want', ~scrolling'
          PROVE  dom' = Shown(opt', RangeOf(cache', view', offset'))
      <3>1. at = 0 /\ mid = notified
        BY <2>1, <2>2, <2>4
      <3>2. RangeOf(cache', size, 0) = notified[1]
        BY <3>1, <2>2
      <3>3. RangeOf(cache', size, 0)[2] = RangeOf(cache', size, 0)[1]
        BY <3>2, <2>2
      <3>4. size \in Nat /\ lanes' \in Nat \ {0} /\ cache' \in Seq(Items(lanes'))
        BY VirtualizerAssumption, LanesAre DEF ListTypes
      <3>5. RangeOf(cache', size, 0) = RangeOf(cache', 0, 0)
        BY <3>3, <3>4, RangeOfNone
      <3> QED
        BY <3>1, <3>5, <2>1, <2>2, <1>1, <1>2
    <2> HIDE DEF at
    <2> QED
      BY <2>1, <2>3, <2>4 DEF ViewInv, Shown
  <1> QED
    BY <1>1, <1>3, <1>4

LEMMA ViewStep ==
  ASSUME ListTypes, ListInv, ScrollTypes, ViewInv, ListTypes', [Next]_vars
  PROVE  ViewInv'
  <1>0. opt \in Lists /\ laidOut = opt
    BY DEF ListTypes
  <1>1. ASSUME LayOut(opt), UNCHANGED <<opt, lanes, sizes>>
        PROVE  ~stale' /\ (~stale => cache' = cache)
    BY <1>0, <1>1, LayOutStep
  <1>3. CASE RenderList
    <2>1. PICK o \in Lists, size \in FirstViews : Render(o, size)
      BY <1>3 DEF RenderList
    <2>2. LayOut(o)
      BY <2>1 DEF Render
    <2>3. ~stale'
      BY <2>2 DEF LayOut
    <2> QED
      BY <2>1, <2>3, RenderView
  <1>4. CASE MeasureOne
    <2>1. PICK k \in Keys : Measure(k)
      BY <1>4 DEF MeasureOne
    <2>2. /\ UNCHANGED <<opt, scrolling, notified, offset, view, missed>>
          /\ UNCHANGED <<scroller, dom, cache>>
          /\ \/ UNCHANGED <<stale, want, top, event>>
             \/ want' = TRUE /\ UNCHANGED <<top, event>>
             \/ want' = TRUE /\ event' = (event \/ top' # top)
      BY <2>1 DEF Measure, ScrollTo
    <2>3. ~event' => top' = top /\ ~event
      BY <2>2
    <2>4. ~want' => ~want /\ stale' = stale
      BY <2>2
    <2> QED
      BY <2>2, <2>3, <2>4, ViewStays
  <1>5. CASE \E n \in gone : Removed(n)
    BY <1>5, ViewStays DEF Removed, list, scroll, browser
  <1>6. CASE ScrollEvent
    <2>1. scroller = "on" /\ scroller' = "on" /\ top' = top
          /\ UNCHANGED <<opt, view, dom, missed>>
      BY <1>6 DEF ScrollEvent, list
    <2>2. CASE top = offset
      <3>1. UNCHANGED <<cache, stale, offset, scrolling, notified, want>>
        BY <2>2, <1>6 DEF ScrollEvent, list
      <3> QED
        BY <3>1, <2>1, <2>2 DEF ViewInv, Shown
    <2>3. CASE top # offset
      <3>1. offset' = top /\ scrolling' = TRUE /\ Notify(cache', view, top, TRUE)
        BY <2>3, <1>6 DEF ScrollEvent
      <3>2. notified' = <<RangeOf(cache', view, top), TRUE>>
        BY <3>1 DEF Notify
      <3> QED
        BY <3>1, <3>2, <2>1 DEF ViewInv
    <2> QED
      BY <2>2, <2>3
  <1>7. CASE ScrollEnd
    <2>1. /\ scrolling /\ scrolling' = FALSE /\ notified'[2] = FALSE
          /\ want' = (want \/ notified' # notified)
          /\ UNCHANGED <<opt, offset, view, dom, missed, scroller, top, event>>
      BY <1>7 DEF ScrollEnd, browser, Notify
    <2>2. notified[2] = TRUE
      BY <2>1 DEF ViewInv, ScrollTypes
    <2>3. want' /\ scroller # "none"
      BY <2>1, <2>2 DEF ViewInv
    <2> QED
      BY <2>1, <2>3 DEF ViewInv
  <1>8. CASE Retry
    <2>1. /\ UNCHANGED <<opt, scrolling, notified, offset, view, missed>>
          /\ UNCHANGED <<scroller, dom, want>> /\ LayOut(opt) /\ UNCHANGED <<opt, lanes, sizes>>
          /\ \/ UNCHANGED <<top, event>>
             \/ event' = (event \/ top' # top)
      BY <1>8 DEF Retry, LayOutAgain, Jump, ScrollTo, scroll
    <2>2. ~event' => top' = top /\ ~event
      BY <2>1
    <2> QED
      BY <2>1, <2>2, <1>1, ViewStays
  <1>9. CASE \E size \in Views : RectChange(size)
    <2>1. PICK size \in Views : RectChange(size)
      BY <1>9
    <2>2. /\ UNCHANGED <<opt, scrolling, offset, dom, scroller>> /\ scroller = "on"
          /\ LayOut(opt) /\ UNCHANGED <<opt, lanes, sizes>> /\ view' = size
          /\ event' = (event \/ top' # top)
          /\ notified' = <<RangeOf(cache', size, offset), scrolling>>
          /\ want' = (want \/ notified' # notified)
          /\ missed' = (missed \/ notified[1] # RangeOf(cache, view, offset))
      BY <2>1 DEF RectChange, LayOutAgain, Notify
    <2>3. ~event' => top' = offset'
      BY <2>2 DEF ViewInv
    <2>4. ASSUME ~want', ~missed', ~scrolling'
          PROVE  ~stale' /\ dom' = Shown(opt', RangeOf(cache', view', offset'))
      <3>1. ~want /\ ~missed /\ ~scrolling /\ notified' = notified
            /\ notified[1] = RangeOf(cache, view, offset)
        BY <2>2, <2>4
      <3>2. dom = Shown(opt, RangeOf(cache, view, offset))
        BY <3>1, <2>2 DEF ViewInv
      <3>3. RangeOf(cache', view', offset') = RangeOf(cache, view, offset)
        BY <3>1, <2>2
      <3> QED
        BY <3>2, <3>3, <2>2, <1>1
    <2>5. notified'[2] = scrolling'
      BY <2>2
    <2> QED
      BY <2>2, <2>3, <2>4, <2>5 DEF ViewInv, Shown
  <1>10. CASE \E x \in Offsets : UserScroll(x) \/ ScrollBy(x)
    <2>1. /\ UNCHANGED <<opt, scrolling, notified, offset, view, missed>>
          /\ UNCHANGED <<scroller, dom, want, stale, cache>> /\ event' = (event \/ top' # top)
      BY <1>10 DEF UserScroll, ScrollBy, ScrollTo, list, scroll
    <2> QED
      BY <2>1, ViewStays
  <1>11. CASE \E x \in Offsets, align \in Aligns : ScrollToOffset(x, align)
    <2>1. /\ UNCHANGED <<opt, scrolling, notified, offset, view, missed>>
          /\ UNCHANGED <<scroller, dom, want, stale, cache>> /\ event' = (event \/ top' # top)
      BY <1>11 DEF ScrollToOffset, ScrollTo, list, scroll
    <2> QED
      BY <2>1, ViewStays
  <1>12. CASE \E index \in Asked, align \in Aligns, smooth \in BOOLEAN :
                ScrollToIndex(index, align, smooth)
    <2>1. /\ UNCHANGED <<opt, scrolling, notified, offset, view, missed>>
          /\ UNCHANGED <<scroller, dom, want>> /\ LayOut(opt) /\ UNCHANGED <<opt, lanes, sizes>>
          /\ \/ UNCHANGED <<top, event>>
             \/ event' = (event \/ top' # top)
      BY <1>12 DEF ScrollToIndex, LayOutAgain, Jump, ScrollTo, scroll
    <2>2. ~event' => top' = top /\ ~event
      BY <2>1
    <2> QED
      BY <2>1, <2>2, <1>1, ViewStays
  <1>13. CASE \E k \in Keys, h \in Sizes : Resize(k, h)
    BY <1>13, ViewStays DEF Resize, list, scroll
  <1>14. CASE Forget
    BY <1>14, ViewStays DEF Forget, scroll, browser
  <1>15. CASE Unmount
    <2>1. scroller' = "left" /\ UNCHANGED <<scrolling, notified>>
      BY <1>15 DEF Unmount, scroll
    <2> QED
      BY <2>1 DEF ViewInv
  <1>16. CASE UNCHANGED vars
    BY <1>16 DEF ViewInv, Shown, vars, list, scroll, browser
  <1> QED
    BY <1>3, <1>4, <1>5, <1>6, <1>7, <1>8, <1>9, <1>10, <1>11, <1>12, <1>13, <1>14, <1>15, <1>16
    DEF Next
----------------------------------------------------------------------------
(* What is read.                                                           *)

\* A list that is up to date is to move by nothing.
LEMMA AtRest ==
  ASSUME ListTypes', ListInv', ~stale', adj' = 0
  PROVE  AnchorInv'
  <1> SUFFICES ASSUME lanes' = 1, ~reset', ~drift'
               PROVE  Anchored(cache', opt', sizes', lanes', offset', adj')
    BY DEF AnchorInv, Anchored
  <1>1. /\ lanes' \in LaneCounts /\ opt' \in Lists /\ cache' \in Seq(Items(lanes'))
        /\ Len(cache') = opt'.count /\ pending' = {}
    BY DEF ListTypes
  <1>2. \A n \in DOMAIN cache' :
          cache'[n] = Item(SubSeq(cache', 1, n - 1), opt', sizes', lanes')
    BY <1>1 DEF ListInv
  <1>3. Laid(<<>>, opt', sizes', lanes') = cache'
    BY <1>1, <1>2, UpToDate
  <1>4. \A i \in DOMAIN cache' : cache'[i].start \in Nat
    BY <1>1, LanesAre, ItemFields
  <1> QED
    BY <1>3, <1>4 DEF Anchored

\* What neither measures nor scrolls.
LEMMA AnchorStays ==
  ASSUME AnchorInv, UNCHANGED <<cache, opt, sizes, lanes, offset, adj>>,
         ~reset' /\ ~drift' => ~reset /\ ~drift
  PROVE  AnchorInv'
  BY DEF AnchorInv, Anchored

\* The list is laid out again where it is: a correction that is due stays due.
LEMMA AgainAnchor ==
  ASSUME ListTypes, ListInv, AnchorInv, ListTypes', ListInv', NEW o \in Lists,
         LayOut(o), drift' = Drifts(o), opt' = o, UNCHANGED <<lanes, sizes, offset, adj>>
  PROVE  AnchorInv'
  <1>1. ~stale' /\ (o = laidOut /\ ~stale => cache' = cache)
    BY LayOutStep
  <1>2. CASE adj = 0
    BY <1>1, <1>2, AtRest
  <1>3. CASE adj # 0 /\ (drift \/ stale \/ o # laidOut)
    <2>1. drift'
      BY <1>3 DEF Drifts
    <2> QED
      BY <2>1 DEF AnchorInv
  <1>4. CASE adj # 0 /\ ~(drift \/ stale \/ o # laidOut)
    <2>1. cache' = cache /\ opt' = opt /\ ~drift /\ o = laidOut /\ ~stale
      BY <1>1, <1>4 DEF ListTypes
    <2>2. reset' = (reset /\ o = laidOut /\ (stale => pending # {}))
      BY DEF LayOut
    <2>3. ~reset' => ~reset
      BY <2>1, <2>2
    <2> QED
      BY <2>1, <2>3, AnchorStays
  <1> QED
    BY <1>2, <1>3, <1>4

\* A size that changes by delta moves what is below its item by delta.
LEMMA Moved ==
  ASSUME NEW o \in Lists, NEW known \in [Keys -> Nat \cup {None}],
         NEW other \in [Keys -> Nat \cup {None}], NEW k \in 1 .. o.count, NEW delta \in Int,
         Changes(o, known, other, k, delta)
  PROVE  \A n \in 1 .. o.count :
           Laid(<<>>, o, other, 1)[n].start =
             Laid(<<>>, o, known, 1)[n].start + IF k < n THEN delta ELSE 0
  <1> DEFINE s == Laid(<<>>, o, known, 1)
             t == Laid(<<>>, o, other, 1)
  <1>1. o \in [count : Nat, first : Nat] /\ KeysOf(o) \subseteq Keys /\ 1 \in Nat \ {0}
    BY ListIs
  <1>2. s \in Seq(Items(1)) /\ Len(s) = o.count /\ Stacked(s, o, 1) /\ Follows(s, o, known, 1)
    BY <1>1, LaidWhole
  <1>3. t \in Seq(Items(1)) /\ Len(t) = o.count /\ Stacked(t, o, 1) /\ Follows(t, o, other, 1)
    BY <1>1, LaidWhole
  <1> SUFFICES \A n \in 1 .. o.count : t[n].start = s[n].start + IF k < n THEN delta ELSE 0
    OBVIOUS
  <1> HIDE DEF s, t
  <1> DEFINE Bad == {n \in 1 .. o.count : t[n].start # s[n].start + IF k < n THEN delta ELSE 0}
  <1>4. /\ o.count \in Nat /\ o.first \in Nat /\ 1 \in Nat \ {0}
        /\ DOMAIN s = 1 .. o.count /\ DOMAIN t = 1 .. o.count
    BY <1>1, <1>2, <1>3, LenProperties
  <1>5. SUFFICES ASSUME Bad # {}
                 PROVE  FALSE
    OBVIOUS
  <1>6. Bad \in SUBSET Nat
    BY <1>4
  <1> HIDE DEF Bad
  <1>7. PICK n \in Bad : \A x \in Bad : n <= x
    BY <1>5, <1>6, Least
  <1>8. n \in 1 .. o.count /\ t[n].start # s[n].start + IF k < n THEN delta ELSE 0
    BY <1>7 DEF Bad
  <1>9. \A m \in 1 .. o.count : s[m].size = SizeOf(o.first + m - 1, known)
    BY <1>1, <1>2, SizesFollow
  <1>10. \A m \in 1 .. o.count : t[m].size = SizeOf(o.first + m - 1, other)
    BY <1>1, <1>3, SizesFollow
  <1>11. CASE n = 1
    BY <1>4, <1>8, <1>11, <1>1, <1>2, <1>3, OneLane, LayoutAssumption
  <1>12. CASE n # 1
    <2>1. n - 1 \in 1 .. o.count /\ ~(n <= n - 1)
      BY <1>4, <1>8, <1>12
    <2>2. n - 1 \notin Bad
      BY <2>1, <1>7
    <2>3. t[n - 1].start = s[n - 1].start + IF k < n - 1 THEN delta ELSE 0
      BY <2>1, <2>2 DEF Bad
    <2>4. s[n].start = s[n - 1].end /\ t[n].start = t[n - 1].end
      BY <1>4, <1>8, <1>12, <1>1, <1>2, <1>3, OneLane
    <2>5. s[n - 1].size = SizeOf(o.first + (n - 1) - 1, known)
          /\ t[n - 1].size = SizeOf(o.first + (n - 1) - 1, other)
      BY <2>1, <1>9, <1>10
    <2>6. /\ s[n - 1].end = s[n - 1].start + s[n - 1].size /\ s[n - 1].start \in Nat
          /\ t[n - 1].end = t[n - 1].start + t[n - 1].size /\ t[n - 1].start \in Nat
          /\ s[n - 1].size \in Nat /\ t[n - 1].size \in Nat
      BY <2>1, <1>4, <1>1, <1>2, <1>3, OneLane
    <2>7. o.first + (n - 1) - 1 \in KeysOf(o)
      BY <2>1, <1>4 DEF KeysOf
    <2>8. t[n - 1].size = s[n - 1].size + IF o.first + (n - 1) - 1 = o.first + k - 1 THEN delta ELSE 0
      BY <2>5, <2>7 DEF Changes
    <2>9. t[n - 1].size = s[n - 1].size + IF k = n - 1 THEN delta ELSE 0
      BY <2>8, <1>4, <1>8
    <2>10. t[n].start = s[n].start + IF k < n THEN delta ELSE 0
      <3>1. k \in Int /\ n \in Int
        BY <1>4, <1>8
      <3>2. /\ s[n].start = s[n - 1].start + s[n - 1].size
            /\ t[n].start = t[n - 1].start + t[n - 1].size
        BY <2>4, <2>6
      <3>3. CASE k < n - 1
        BY <3>1, <3>2, <3>3, <2>3, <2>6, <2>9
      <3>4. CASE k = n - 1
        BY <3>1, <3>2, <3>4, <2>3, <2>6, <2>9
      <3>5. CASE n - 1 < k
        BY <3>1, <3>2, <3>5, <2>3, <2>6, <2>9
      <3> QED
        BY <3>1, <3>3, <3>4, <3>5
    <2> QED
      BY <2>10, <1>8
  <1> QED
    BY <1>11, <1>12

\* What is measured above the first item in view moves it by the difference.
LEMMA MeasureAnchor ==
  ASSUME ListTypes, ListInv, ScrollTypes, AnchorInv, ListTypes', NEW k \in Keys, Measure(k)
  PROVE  AnchorInv'
  <1> DEFINE m == dom[k] + 1
             item == cache[m]
             old == IF sizes[item.key] # None THEN sizes[item.key] ELSE item.size
             delta == real[k] - old
  <1>1. /\ UNCHANGED <<opt, lanes, cache, offset, reset, drift>>
        /\ delta = 0 => sizes' = sizes /\ adj' = adj
        /\ delta # 0 => /\ sizes' = [sizes EXCEPT ![item.key] = real[k]]
                        /\ adj' = IF item.start < offset THEN Adjust(delta) ELSE adj
    BY DEF Measure
  <1>2. /\ dom[k] = k - opt.first /\ m \in 1 .. opt.count /\ item.key = k
        /\ item.size \in Nat /\ item.start \in Nat /\ k \in KeysOf(opt) /\ k \in Nat
    BY MeasuredIs DEF Measure
  <1>3. CASE delta = 0
    <2>1. sizes' = sizes /\ adj' = adj
      BY <1>1, <1>3
    <2> HIDE DEF delta
    <2> QED
      BY <1>1, <2>1, AnchorStays
  <1>4. CASE delta # 0
    <2> SUFFICES ASSUME lanes' = 1, ~reset', ~drift'
                 PROVE  Anchored(cache', opt', sizes', lanes', offset', adj')
      BY DEF AnchorInv, Anchored
    <2>1. lanes = 1 /\ ~reset /\ Anchored(cache, opt, sizes, lanes, offset, adj)
      BY <1>1 DEF AnchorInv
    <2>2. /\ opt \in Lists /\ opt \in [count : Nat, first : Nat] /\ KeysOf(opt) \subseteq Keys
          /\ opt.first \in Nat /\ opt.count \in Nat
          /\ sizes \in [Keys -> Nat \cup {None}] /\ sizes' \in [Keys -> Nat \cup {None}]
          /\ cache \in Seq(Items(1)) /\ Len(cache) = opt.count /\ Stacked(cache, opt, 1)
          /\ DOMAIN cache = 1 .. opt.count /\ 1 \in Nat \ {0}
      BY <2>1, ListIs, LenProperties DEF ListTypes
    <2>3. sizes[k] # None \/ item.size = Estimate
      BY <2>1, <2>2, <1>2 DEF ListInv
    <2>4. sizes' = [sizes EXCEPT ![k] = real[k]] /\ real[k] \in Nat /\ real[k] # None
      BY <1>1, <1>2, <1>4, LayoutAssumption DEF ScrollTypes
    <2>5. old = SizeOf(k, sizes) /\ SizeOf(k, sizes) \in Nat
      BY <2>2, <2>3, <1>2, LayoutAssumption DEF SizeOf
    <2>6. SizeOf(k, sizes') = real[k]
      BY <2>2, <2>4 DEF SizeOf
    <2>7. adj' = IF item.start < offset THEN adj + delta ELSE adj
      BY <1>1, <1>4 DEF Adjust
    <2> HIDE DEF old
    <2>8. delta \in Int /\ SizeOf(k, sizes') = SizeOf(k, sizes) + delta
      BY <2>4, <2>5, <2>6
    <2> HIDE DEF delta, m
    <2>9. ASSUME NEW key \in KeysOf(opt)
          PROVE  SizeOf(key, sizes') =
                   SizeOf(key, sizes) + IF key = opt.first + m - 1 THEN delta ELSE 0
      <3>1. opt.first + m - 1 = k
        BY <1>2, <2>2 DEF m
      <3>2. CASE key = k
        BY <3>1, <3>2, <2>8
      <3>3. CASE key # k
        <4>1. sizes'[key] = sizes[key] /\ sizes[key] \in Nat \cup {None}
          BY <3>3, <2>2, <2>4
        <4>2. SizeOf(key, sizes') = SizeOf(key, sizes) /\ SizeOf(key, sizes) \in Nat
          BY <4>1, LayoutAssumption DEF SizeOf
        <4> QED
          BY <4>2, <3>1, <3>3
      <3> QED
        BY <3>2, <3>3
    <2> DEFINE s == Laid(<<>>, opt, sizes, 1)
               t == Laid(<<>>, opt, sizes', 1)
    <2>12. \A i \in DOMAIN cache :
             cache[i].start >= offset /\ (\A j \in 1 .. i - 1 : cache[j].start < offset)
               => s[i].start = cache[i].start + adj
      BY <2>1 DEF Anchored
    <2>13. t = Laid(<<>>, opt', sizes', lanes')
      BY <1>1, <2>1
    <2> HIDE DEF s, t
    <2>14. \A n \in 1 .. opt.count : t[n].start = s[n].start + IF m < n THEN delta ELSE 0
      <3>1. m \in 1 .. opt.count /\ delta \in Int
        BY <1>2, <2>8
      <3>2. /\ opt \in [count : Nat, first : Nat] /\ KeysOf(opt) \subseteq Keys
            /\ sizes \in [Keys -> Nat \cup {None}] /\ sizes' \in [Keys -> Nat \cup {None}]
        BY <2>2
      <3>3. Changes(opt, sizes, sizes', m, delta)
        BY <2>9 DEF Changes
      <3> QED
        BY <3>1, <3>2, <3>3, <2>2, Moved DEF s, t
    <2>15. ASSUME NEW i \in DOMAIN cache, cache[i].start >= offset,
                  \A j \in 1 .. i - 1 : cache[j].start < offset
           PROVE  t[i].start = cache[i].start + adj'
      <3>1. s[i].start = cache[i].start + adj
        BY <2>12, <2>15
      <3>2. t[i].start = s[i].start + IF m < i THEN delta ELSE 0
        BY <2>2, <2>14
      <3>3. cache[i].start \in Nat /\ cache[i].size \in Nat /\ adj \in Int /\ offset \in Nat
            /\ cache[i].end = cache[i].start + cache[i].size
        BY <2>2, OneLane DEF ScrollTypes
      <3>4. CASE m < i
        <4>1. item.start < offset
          BY <3>4, <2>15, <2>2, <1>2 DEF m
        <4> HIDE DEF item
        <4> QED
          BY <4>1, <3>1, <3>2, <3>3, <3>4, <2>7, <2>8
      <3>5. CASE m = i
        <4>1. ~(item.start < offset)
          BY <3>3, <3>5, <2>15 DEF m
        <4> HIDE DEF item
        <4> QED
          BY <4>1, <3>1, <3>2, <3>3, <3>5, <2>2, <2>7
      <3>6. CASE i < m
        <4>1. m \in DOMAIN cache /\ i \in 1 .. m - 1
          BY <3>6, <1>2, <2>2 DEF m
        <4>2. cache[i].end <= cache[m].start
          BY <4>1, <2>2, OneLane
        <4>3. cache[m].start \in Nat
          BY <4>1, <2>2, OneLane
        <4>4. ~(item.start < offset)
          BY <4>2, <4>3, <3>3, <2>15 DEF m
        <4>5. m \in Int /\ i \in Int
          BY <4>1, <2>2
        <4> HIDE DEF item
        <4> QED
          BY <4>4, <4>5, <3>1, <3>2, <3>3, <3>6, <2>7
      <3>7. m \in Int /\ i \in Int
        BY <1>2, <2>2 DEF m
      <3> QED
        BY <3>4, <3>5, <3>6, <3>7
    <2> QED
      BY <2>13, <2>15, <1>1 DEF Anchored
  <1> QED
    BY <1>3, <1>4

LEMMA AnchorStep ==
  ASSUME ListTypes, ListInv, ScrollTypes, AnchorInv, ListTypes', ListInv', [Next]_vars
  PROVE  AnchorInv'
  <1>0. opt \in Lists
    BY DEF ListTypes
  <1>1. ASSUME LayOutAgain(opt), UNCHANGED <<opt, lanes, sizes, offset, adj>>
        PROVE  AnchorInv'
    BY <1>0, <1>1, AgainAnchor DEF LayOutAgain
  <1>2. ASSUME UNCHANGED <<list, offset, adj, reset, drift>>
        PROVE  AnchorInv'
    BY <1>2, AnchorStays DEF list
  <1>3. CASE RenderList
    <2>1. PICK o \in Lists, size \in FirstViews : Render(o, size)
      BY <1>3 DEF RenderList
    <2>2. LayOut(o) /\ opt' = o /\ UNCHANGED <<lanes, sizes>> /\ (Stay(o) \/ Attach(size))
      BY <2>1 DEF Render
    <2>3. CASE Stay(o)
      BY <2>2, <2>3, AgainAnchor DEF Stay
    <2>4. CASE Attach(size)
      BY <2>2, <2>4, AtRest DEF Attach, LayOut
    <2> QED
      BY <2>2, <2>3, <2>4
  <1>4. CASE MeasureOne
    BY <1>4, MeasureAnchor DEF MeasureOne
  <1>5. CASE \E n \in gone : Removed(n)
    BY <1>5, <1>2 DEF Removed, scroll
  <1>6. CASE ScrollEvent
    <2>1. adj' = 0 /\ drift' = (stale /\ top = offset)
      BY <1>6 DEF ScrollEvent
    <2>2. CASE top = offset
      <3>1. UNCHANGED <<list, offset, reset>>
        BY <1>6, <2>2 DEF ScrollEvent
      <3>2. CASE stale
        BY <3>2, <2>1, <2>2 DEF AnchorInv
      <3>3. CASE ~stale
        BY <3>1, <3>3, <2>1, AtRest DEF list
      <3> QED
        BY <3>2, <3>3
    <2>3. CASE top # offset
      <3>1. LayOut(opt)
        BY <1>6, <2>3 DEF ScrollEvent
      <3> QED
        BY <3>1, <2>1, AtRest DEF LayOut
    <2> QED
      BY <2>2, <2>3
  <1>7. CASE ScrollEnd
    BY <1>1, <1>7 DEF ScrollEnd
  <1>8. CASE Retry
    BY <1>1, <1>8 DEF Retry, scroll
  <1>9. CASE \E size \in Views : RectChange(size)
    BY <1>1, <1>9 DEF RectChange
  <1>10. CASE \E x \in Offsets : UserScroll(x) \/ ScrollBy(x)
    BY <1>10, <1>2 DEF UserScroll, ScrollBy, scroll
  <1>11. CASE \E x \in Offsets, align \in Aligns : ScrollToOffset(x, align)
    BY <1>11, <1>2 DEF ScrollToOffset, scroll
  <1>12. CASE \E index \in Asked, align \in Aligns, smooth \in BOOLEAN :
                ScrollToIndex(index, align, smooth)
    BY <1>1, <1>12 DEF ScrollToIndex, scroll
  <1>13. CASE \E k \in Keys, h \in Sizes : Resize(k, h)
    BY <1>13, <1>2 DEF Resize, scroll
  <1>14. CASE Forget
    <2>1. reset'
      BY <1>14 DEF Forget
    <2> QED
      BY <2>1 DEF AnchorInv
  <1>15. CASE Unmount
    BY <1>15, <1>2 DEF Unmount, scroll
  <1>16. CASE UNCHANGED vars
    BY <1>16, <1>2 DEF vars, scroll
  <1> QED
    BY <1>3, <1>4, <1>5, <1>6, <1>7, <1>8, <1>9, <1>10, <1>11, <1>12, <1>13, <1>14, <1>15, <1>16
    DEF Next
----------------------------------------------------------------------------
(* The theorems.                                                           *)

LEMMA InitInv ==
  ASSUME Init
  PROVE  Inv
  <1>1. /\ opt \in Lists /\ lanes \in LaneCounts /\ sizes \in [Keys -> Nat \cup {None}]
        /\ laidOut = opt /\ stale = FALSE /\ pending = {}
        /\ cache = Laid(<<>>, opt, sizes, lanes)
        /\ offset = 0 /\ adj = 0 /\ view = 0 /\ scrolling = FALSE
        /\ notified = <<RangeOf(cache, 0, 0), FALSE>>
        /\ reset = FALSE /\ drift = FALSE
    BY VirtualizerAssumption DEF Init
  <1>2. lanes \in Nat \ {0}
    BY <1>1, LanesAre
  <1>3. /\ cache \in Seq(Items(lanes)) /\ Len(cache) = opt.count /\ Stacked(cache, opt, lanes)
        /\ Follows(cache, opt, sizes, lanes)
    BY <1>1, <1>2, LaidWhole
  <1>4. \A n \in DOMAIN cache : sizes[cache[n].key] # None \/ cache[n].size = Estimate
    BY <1>1, <1>2, <1>3, FollowsKnown
  <1>5. ListTypes
    BY <1>1, <1>3 DEF ListTypes
  <1>6. ListInv
    BY <1>1, <1>3, <1>4 DEF ListInv, Follows
  <1>7. ScrollTypes
    <2>1. /\ held = [k \in Keys |-> "no"] /\ retry = None /\ scroller = "none" /\ want = TRUE
          /\ dom = [k \in Keys |-> None] /\ real \in [Keys -> Nat]
          /\ height = 0 /\ top = 0 /\ event = FALSE
      BY VirtualizerAssumption DEF Init
    <2>2. held \in [Keys -> {"no", "live", "old"}] /\ \A k \in Keys : dom[k] = None
      BY <2>1
    <2>3. scrolling \in BOOLEAN /\ want \in BOOLEAN /\ event \in BOOLEAN
      BY <1>1, <2>1
    <2>4. offset \in Nat /\ top \in Nat /\ height \in Nat /\ view \in Nat /\ adj \in Int
      BY <1>1, <2>1
    <2> QED
      BY <2>1, <2>2, <2>3, <2>4 DEF ScrollTypes, RetryTypes
  <1>8. ViewInv
    <2>1. notified[1][2] = notified[1][1] /\ notified[2] = FALSE
      BY <1>1, <1>2, <1>3, RangeAtStart
    <2>2. scroller = "none"
      BY DEF Init
    <2> QED
      BY <1>1, <2>1, <2>2 DEF ViewInv
  <1>9. AnchorInv
    <2>1. \A i \in DOMAIN cache : cache[i].start \in Nat
      BY <1>2, <1>3, ItemFields
    <2> QED
      BY <1>1, <2>1 DEF AnchorInv, Anchored
  <1> QED
    BY <1>5, <1>6, <1>7, <1>8, <1>9 DEF Inv

LEMMA StepInv ==
  ASSUME Inv, [Next]_vars
  PROVE  Inv'
  <1>1. ListTypes /\ ListInv /\ ScrollTypes /\ ViewInv /\ AnchorInv
    BY DEF Inv
  <1>2. ListTypes' /\ ListInv'
    BY <1>1, ListStep
  <1>3. ScrollTypes'
    BY <1>1, <1>2, TypesStep
  <1>4. ViewInv'
    BY <1>1, <1>2, ViewStep
  <1>5. AnchorInv'
    BY <1>1, <1>2, AnchorStep
  <1> QED
    BY <1>2, <1>3, <1>4, <1>5 DEF Inv

\* The strengthening the others rest on: what is not pending is up to date,
\* what maybeNotify remembers is what is rendered, and scrollAdjustments is how
\* far the next layout moves what is read.
THEOREM Invariance == Spec => []Inv
  <1>1. Init => Inv
    BY InitInv
  <1>2. Inv /\ [Next]_vars => Inv'
    BY StepInv
  <1> QED
    BY <1>1, <1>2, PTL DEF Spec

LEMMA InvTypes ==
  ASSUME Inv
  PROVE  TypeOK
  <1>1. ListTypes /\ ScrollTypes
    BY DEF Inv
  <1>2. /\ lanes \in Nat \ {0} /\ opt \in [count : Nat, first : Nat]
        /\ KeysOf(opt) \subseteq Keys /\ cache \in Seq(Items(lanes))
        /\ Stacked(cache, opt, lanes) /\ opt.first \in Nat /\ opt.count \in Nat
        /\ DOMAIN cache = 1 .. opt.count
    BY <1>1, ListIs, LanesAre, LenProperties DEF ListTypes
  <1>3. ASSUME NEW i \in DOMAIN cache
        PROVE  cache[i] \in [key : Keys, start : Nat, size : Nat, end : Nat, lane : 0 .. lanes - 1]
    <2>1. cache[i] \in Items(lanes) /\ cache[i].key = opt.first + i - 1
      BY <1>2, <1>3, StackedFacts
    <2>2. cache[i].key \in Keys
      BY <2>1, <1>2, <1>3 DEF KeysOf
    <2> QED
      BY <2>1, <2>2 DEF Items
  <1>4. /\ opt \in Lists /\ laidOut \in Lists /\ lanes \in LaneCounts
        /\ sizes \in [Keys -> Nat \cup {None}] /\ stale \in BOOLEAN
        /\ pending \subseteq 0 .. Len(cache) - 1
    BY <1>1 DEF ListTypes
  <1>5. /\ scrolling \in BOOLEAN /\ want \in BOOLEAN /\ event \in BOOLEAN
        /\ offset \in Nat /\ top \in Nat /\ height \in Nat /\ view \in Nat /\ adj \in Int
        /\ held \in [Keys -> {"no", "live", "old"}] /\ scroller \in {"none", "on", "left"}
        /\ retry = None \/ \E l \in Lists : retry.index \in 0 .. l.count - 1
    BY <1>1 DEF ScrollTypes, RetryTypes
  <1> QED
    BY <1>3, <1>4, <1>5 DEF TypeOK

\* The variables keep their types: no index that is pending and none that
\* scrollToIndex waits for lies outside of a list, no position is negative.
THEOREM TypeCorrect == Spec => []TypeOK
  <1>1. Inv => TypeOK
    BY InvTypes
  <1> QED
    BY <1>1, Invariance, PTL

\* getMeasurements, which keeps the items before the first pending index and
\* lays out the rest, gives what a layout of the whole list would.
THEOREM CacheCorrect == Spec => []CacheMatches
  <1>1. ASSUME Inv, ~stale, laidOut = opt, ~reset
        PROVE  cache = Laid(<<>>, opt, sizes, lanes)
    <2>1. /\ lanes \in LaneCounts /\ opt \in Lists /\ cache \in Seq(Items(lanes))
          /\ Len(cache) = opt.count /\ pending = {}
      BY <1>1 DEF Inv, ListTypes
    <2>2. \A n \in DOMAIN cache : cache[n] = Item(SubSeq(cache, 1, n - 1), opt, sizes, lanes)
      BY <1>1, <2>1 DEF Inv, ListInv
    <2> QED
      BY <2>1, <2>2, UpToDate
  <1>2. Inv => CacheMatches
    BY <1>1 DEF CacheMatches
  <1> QED
    BY <1>2, Invariance, PTL

\* getFurthestMeasurement puts every item where the lane ends that ends first,
\* though it looks only back to where each lane was seen once.
THEOREM Packed == Spec => []LanesPacked
  <1>1. ASSUME Inv, NEW n \in DOMAIN cache
        PROVE  /\ cache[n].start = EndOf(cache, cache[n].lane, n - 1)
               /\ cache[n].lane \in 0 .. lanes - 1
               /\ \A l \in 0 .. lanes - 1 : cache[n].start <= EndOf(cache, l, n - 1)
    <2>1. /\ lanes \in Nat \ {0} /\ opt \in [count : Nat, first : Nat]
          /\ cache \in Seq(Items(lanes)) /\ Stacked(cache, opt, lanes)
      BY <1>1, ListIs, LanesAre DEF Inv, ListTypes
    <2>2. cache[n].lane \in 0 .. lanes - 1
      BY <2>1, <1>1, ItemFields
    <2> QED
      BY <2>1, <2>2, <1>1, Packing
  <1>2. Inv => LanesPacked
    <2> SUFFICES ASSUME Inv, NEW n \in DOMAIN cache
                 PROVE  LET ends == [l \in 0 .. lanes - 1 |-> EndOf(cache, l, n - 1)] IN
                        /\ cache[n].start = ends[cache[n].lane]
                        /\ \A l \in DOMAIN ends : cache[n].start <= ends[l]
      BY DEF LanesPacked, EndOf
    <2> QED
      BY <1>1
  <1> QED
    BY <1>2, Invariance, PTL

\* When nothing is due, the items that calculateRange finds by its search and
\* that the host was told of are all that can be seen.
THEOREM Rendered == Spec => []VisibleAreRendered
  <1>1. ASSUME Inv, lanes = 1, ~missed, scroller = "on", ~want, ~event, ~scrolling,
               NEW i \in 0 .. opt.count - 1,
               cache[i + 1].end > top, cache[i + 1].start < top + view
        PROVE  dom[opt.first + i] = i
    <2> DEFINE r == RangeOf(cache, view, offset)
    <2>1. /\ opt \in [count : Nat, first : Nat] /\ opt.count \in Nat /\ opt.first \in Nat
          /\ KeysOf(opt) \subseteq Keys
          /\ cache \in Seq(Items(1)) /\ Len(cache) = opt.count /\ Stacked(cache, opt, 1)
          /\ view \in Nat /\ offset \in Nat
      BY <1>1, ListIs DEF Inv, ListTypes, ScrollTypes
    <2>2. top = offset /\ dom = Shown(opt, r)
      BY <1>1 DEF Inv, ViewInv
    <2>3. i \in r[1] .. r[2]
      BY <1>1, <2>1, <2>2, Covers
    <2>4. RangeFits(r, cache, view, offset)
      BY <2>1, RangeIs
    <2> HIDE DEF r
    <2>5. r = <<r[1], r[2]>> /\ r[1] \in Nat /\ r[2] \in Nat
      BY <2>4 DEF RangeFits
    <2>6. i \in Nat /\ i < opt.count
      BY <1>1, <2>1
    <2>7. i \in Extract(<<r[1], r[2]>>, opt)
      BY <2>1, <2>3, <2>5, <2>6, Extracted
    <2>8. opt.first + i \in Keys /\ (opt.first + i) - opt.first = i
      BY <1>1, <2>1, <2>6 DEF KeysOf
    <2>9. i \in Extract(r, opt) \cap 0 .. opt.count - 1
      BY <1>1, <2>5, <2>7
    <2> QED
      BY <2>2, <2>8, <2>9 DEF Shown
  <1>2. Inv => VisibleAreRendered
    BY <1>1 DEF VisibleAreRendered
  <1> QED
    BY <1>2, Invariance, PTL

\* However many measurements come before the scroll event of the first, what
\* _measureElement adds up is what the next layout moves the view by.
THEOREM Holds == Spec => []ViewHolds
  <1>1. Inv => ViewHolds
    BY DEF Inv, AnchorInv, Anchored, ViewHolds
  <1> QED
    BY <1>1, Invariance, PTL
============================================================================
