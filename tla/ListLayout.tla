----------------------------- MODULE ListLayout -----------------------------
(***************************************************************************)
(* How the virtual scroller lays a list out and finds what is in view: the *)
(* functions of packages/ui/src/virtual/index.ts that Virtualizer calls    *)
(* and that keep nothing.  A list o is a record of its count and the key   *)
(* of its first item; known has the sizes measured so far, None for others.*)
(* An item is kept at its index + 1.                                       *)
(***************************************************************************)
EXTENDS Integers, Sequences, FiniteSets, FiniteSetsExt

CONSTANTS
  Overscan,
  Lead,      \* paddingStart; margins and the other paddings are zero
  Estimate,
  None

ASSUME LayoutAssumption ==
  /\ Overscan \in Nat /\ Lead \in Nat /\ Estimate \in Nat
  /\ None \notin Nat
----------------------------------------------------------------------------
\* findNearestBinarySearch: an item that starts at value, else the last that
\* starts before it, else the first.
Nearest(items, value) ==
  LET search[part \in (0 .. Len(items)) \X (-1 .. Len(items) - 1)] ==
        LET low    == part[1]
            high   == part[2]
            middle == (low + high) \div 2
            start  == items[middle + 1].start
        IN IF low > high THEN Max({low - 1, 0})
           ELSE IF start < value THEN search[<<middle + 1, high>>]
           ELSE IF start > value THEN search[<<low, middle - 1>>]
           ELSE middle
  IN search[<<0, Len(items) - 1>>]

\* calculateRange: up to the first item that ends below the viewport.
RangeOf(items, size, at) ==
  LET last  == Len(items) - 1
      first == Nearest(items, at)
      far   == {i \in first..last : i = last \/ items[i + 1].end >= at + size}
  IN <<first, IF far = {} THEN first ELSE Min(far)>>

\* defaultRangeExtractor: the range and the overscan on either side.
Extract(range, o) ==
  Max({range[1] - Overscan, 0}) .. Min({range[2] + Overscan, o.count - 1})
----------------------------------------------------------------------------
\* Mutant: an item is put below the one before it, whatever its lane.
FurthestLast(items, lanes) == Len(items)

\* getFurthestMeasurement: the last item of the lane that ends first; while a
\* lane is empty, none.  Of lanes that end together, the one filled last.
Furthest(items, lanes) ==
  LET ends == {i \in DOMAIN items :
                 \A j \in i + 1 .. Len(items) : items[j].lane # items[i].lane}
      low  == {i \in ends : \A j \in ends : items[i].end <= items[j].end}
  IN IF Cardinality(ends) < lanes THEN 0 ELSE Max(low)

\* The item that the next one is put below; with one lane, the last.
Above(items, lanes) == IF lanes = 1 THEN Len(items) ELSE Furthest(items, lanes)

Put(items, key, size, lanes) ==
  LET above == Above(items, lanes)
      start == IF above = 0 THEN Lead ELSE items[above].end
  IN [key |-> key, start |-> start, size |-> size, end |-> start + size,
      lane |-> IF above = 0 THEN Len(items) % lanes ELSE items[above].lane]

SizeOf(key, known) == IF known[key] # None THEN known[key] ELSE Estimate

\* The item that follows items in list o.
Item(items, o, known, lanes) ==
  LET key == o.first + Len(items) IN Put(items, key, SizeOf(key, known), lanes)

\* The items of list o, of which the first are already laid out.
Laid(done, o, known, lanes) ==
  LET items[n \in 0 .. o.count] ==
        IF n <= Len(done) THEN SubSeq(done, 1, n)
        ELSE CHOOSE s \in {Append(b, Item(b, o, known, lanes)) : b \in {items[n - 1]}} : TRUE
  IN items[o.count]
============================================================================
