---------------------------- MODULE Virtualizer ----------------------------
(***************************************************************************)
(* The virtual scroller, packages/ui/src/virtual/index.ts: a list of which *)
(* only the items near the viewport are in the DOM.                        *)
(*                                                                         *)
(* Sizes are estimated until an element is measured.  The layout is kept   *)
(* in measurementsCache and laid out again, from the first item that was   *)
(* measured since, when something asks for it.  An item measured above the *)
(* viewport moves the scroll position, so that what is read stays in place.*)
(*                                                                         *)
(* The host renders what getVirtualItems names and gives every element to  *)
(* measureElement; the browser tells of scrolling and of sizes later, in   *)
(* an order of its own.  An item's key is the number of the first key and  *)
(* its index: items put in front make the first key smaller.               *)
(***************************************************************************)
EXTENDS ListLayout

CONSTANTS
  Lists,     \* options of the host: [count, first]
  FirstLists, \* those it starts with
  LaneCounts,
  Sizes,     \* heights an element may have
  Views,     \* heights of the viewport, even
  FirstViews, \* those it may start with
  Offsets,   \* offsets the user or a caller scrolls to
  Asked,     \* indexes a caller scrolls to
  Restored,  \* item sizes of an earlier visit
  Heights,   \* what the elements measure at first: key -> height
  Aligns,    \* of "start", "center", "end" and "auto"
  MaxMoves   \* lanes -> how much callers, users and data do

Keys == UNION {l.first .. l.first + l.count - 1 : l \in Lists}

ASSUME VirtualizerAssumption ==
  /\ Lists \subseteq [count : Nat, first : Nat] /\ FirstLists \subseteq Lists
  /\ LaneCounts \subseteq Nat \ {0} /\ MaxMoves \in [LaneCounts -> Nat]
  /\ Sizes \subseteq Nat /\ Views \subseteq Nat /\ FirstViews \subseteq Views /\ Offsets \subseteq Nat
  /\ Asked \subseteq Int
  /\ Restored \subseteq [Keys -> Nat \cup {None}] /\ Heights \subseteq [Keys -> Nat]
  /\ Aligns \subseteq {"start", "center", "end", "auto"}

VARIABLES
  opt,       \* options: count and first key
  lanes,     \* options.lanes
  sizes,     \* itemSizeCache, None where nothing was measured
  cache,     \* measurementsCache, item i at i + 1
  laidOut,   \* options of the last layout, deps of memoOptions
  stale,     \* itemSizeCache was replaced since the last layout
  pending,   \* pendingMeasuredCacheIndexes
  offset,    \* scrollOffset
  adj,       \* scrollAdjustments
  view,      \* height of scrollRect
  scrolling, \* isScrolling, with its timer
  notified,  \* deps of maybeNotify
  held,      \* measureElementCache: key -> "no", "live", or "old" for an element that is gone
  retry,     \* the timer of scrollToIndex, [index, align] or None
  scroller,  \* scrollElement: "none", "on", and "left" after the unmount
  want,      \* host: onChange was called since the last rendering
  dom,       \* host: key -> index of the element in the DOM, None if there is none
  gone,      \* browser: observed elements that left the DOM, [key, index]
  real,      \* browser: heights of the elements
  height,    \* browser: scrollHeight
  top,       \* browser: scrollTop
  event,     \* browser: a scroll event is due
  moves,     \* bound
  reset,     \* history: measure() was called since the list was last laid out in full
  drift,     \* history: the last layout and the offset are not of one time
  missed     \* history: since the last rendering the viewport changed while the
             \* range of notified was not the one rendered

list    == <<opt, lanes, sizes, cache, laidOut, stale, pending>>
scroll  == <<offset, adj, view, scrolling, notified>>
browser == <<real, height, top, event>>
vars == <<list, scroll, held, retry, scroller, want, dom, gone, browser, moves, reset, drift,
                 missed>>
----------------------------------------------------------------------------
Clamp(x, hi) == Max({0, Min({x, hi})})

\* getMeasurements: the cache if neither the options nor the sizes changed, else
\* a layout that keeps the items before the first one measured.
Measurements(o) ==
  IF o = laidOut /\ ~stale THEN cache
  ELSE Laid(IF o # laidOut \/ pending = {} THEN <<>> ELSE SubSeq(cache, 1, Min(pending)),
            o, sizes, lanes)

LayOut(o) ==
  /\ cache' = Measurements(o)
  /\ laidOut' = o
  /\ stale' = FALSE
  /\ pending' = {}
  /\ reset' = (reset /\ o = laidOut /\ (stale => pending # {}))

\* A layout while the scroll event of a correction is due.
Drifts(o) == adj # 0 /\ (drift \/ stale \/ o # laidOut)

LayOutAgain(o) == LayOut(o) /\ drift' = Drifts(o)

TotalSize(items) == IF items = <<>> THEN Lead ELSE items[Len(items)].end

\* Mutant: only the first index of the range is compared.
NotifyStart(items, size, at, moving) ==
  LET deps == <<RangeOf(items, size, at), moving>> IN
  /\ notified' = deps
  /\ want' = (want \/ deps[1][1] # notified[1][1])

\* maybeNotify: onChange, if the range or isScrolling changed.
Notify(items, size, at, moving) ==
  LET deps == <<RangeOf(items, size, at), moving>> IN
  /\ notified' = deps
  /\ want' = (want \/ deps # notified)
----------------------------------------------------------------------------
\* The constructor lays the list out and notifies, at offset 0 in no viewport.
Init ==
  /\ opt \in FirstLists /\ lanes \in LaneCounts /\ sizes \in Restored
  /\ laidOut = opt /\ stale = FALSE /\ pending = {}
  /\ cache = Laid(<<>>, opt, sizes, lanes)
  /\ offset = 0 /\ adj = 0 /\ view = 0 /\ scrolling = FALSE
  /\ notified = <<RangeOf(cache, 0, 0), FALSE>>
  /\ held = [k \in Keys |-> "no"]
  /\ retry = None
  /\ scroller = "none"
  /\ want = TRUE
  /\ dom = [k \in Keys |-> None]
  /\ gone = {}
  /\ real \in Heights
  /\ height = 0 /\ top = 0 /\ event = FALSE
  /\ moves = 0
  /\ reset = FALSE /\ drift = FALSE /\ missed = FALSE

Move == moves < MaxMoves[lanes] /\ moves' = moves + 1

\* scrollToFn, on an element of height h: the browser stays inside of it.
ScrollTo(x, h, size) ==
  LET to == IF scroller = "on" THEN Clamp(x, h - size) ELSE top IN
  /\ top' = to
  /\ event' = (event \/ to # top)

\* getIndexes of list o, laid out as items.
Indexes(items, o) == Extract(RangeOf(items, view, offset), o) \cap 0 .. o.count - 1

\* getVirtualItems: the item each key is shown for.
VirtualItems(items, o) ==
  [k \in Keys |-> IF k - o.first \in Indexes(items, o) THEN k - o.first ELSE None]

\* _willUpdate with a new element, in a viewport of this size: it is scrolled to
\* the offset; the observers call back at once, first with the viewport, then
\* with the position the browser allowed.
Attach(size) ==
  LET at   == Clamp(offset, height' - size)
      mid  == <<RangeOf(cache', size, offset), FALSE>>
      deps == <<RangeOf(cache', size, at), at # offset>>
  IN
  /\ scroller = "none" /\ scroller' = "on"
  /\ view' = size
  /\ top' = at /\ offset' = at /\ adj' = 0 /\ scrolling' = (at # offset)
  /\ notified' = deps
  /\ want' = (mid # notified \/ deps # mid)
  /\ event' = FALSE /\ drift' = FALSE

\* _willUpdate with the same element: the browser keeps the position if it can.
Stay(o) ==
  /\ scroller = "on"
  /\ top' = Clamp(top, height' - view)
  /\ event' = (event \/ top' # top)
  /\ want' = FALSE
  /\ drift' = Drifts(o)
  /\ UNCHANGED <<scroller, view, offset, adj, scrolling, notified>>

\* The host renders: setOptions, the elements of getVirtualItems, the height of
\* getTotalSize, and _willUpdate.
Render(o, size) ==
  LET off == {k \in Keys : dom[k] # None /\ dom'[k] = None /\ held[k] = "live"} IN
  /\ want \/ o # opt
  /\ IF o = opt THEN UNCHANGED moves ELSE Move
  /\ opt' = o
  /\ LayOut(o)
  /\ dom' = VirtualItems(cache', o)
  /\ gone' = gone \cup {[key |-> k, index |-> dom[k]] : k \in off}
  /\ held' = [k \in Keys |-> IF k \in off THEN "old" ELSE held[k]]
  /\ height' = TotalSize(cache')
  /\ Stay(o) \/ Attach(size)
  /\ missed' = FALSE
  /\ UNCHANGED <<lanes, sizes, retry, real>>

\* Mutant: only the last measured index is remembered.
PendLast(i) == {i}

\* pendingMeasuredCacheIndexes.push
Pend(i) == pending \cup {i}

\* Mutant: the correction is not added to those before it.
AdjustLast(delta) == delta

\* scrollAdjustments += delta
Adjust(delta) == adj + delta

\* _measureElement of an element that is in the DOM: it is observed and kept
\* under its item's key; a size that differs is recorded, and if the item starts
\* above the scroll offset the browser is scrolled by the difference.
Measure(k) ==
  LET i     == dom[k]
      item  == cache[i + 1]
      old   == IF sizes[item.key] # None THEN sizes[item.key] ELSE item.size
      delta == real[k] - old
  IN
  /\ i # None
  /\ i + 1 \in DOMAIN cache
  /\ held' = [held EXCEPT ![item.key] = "live"]
  /\ gone' = {n \in gone : held[item.key] # "old" \/ n.key # item.key}
  /\ IF delta = 0 THEN UNCHANGED <<sizes, stale, pending, adj, want, top, event>>
     ELSE /\ sizes' = [sizes EXCEPT ![item.key] = real[k]]
          /\ stale' = TRUE
          /\ pending' = Pend(i)
          /\ want' = TRUE
          /\ IF item.start < offset
             THEN adj' = Adjust(delta) /\ ScrollTo(offset + adj', height, view)
             ELSE UNCHANGED <<adj, top, event>>
  /\ UNCHANGED <<opt, lanes, cache, laidOut, offset, view, scrolling, notified,
                 retry, scroller, dom, real, height, moves, reset, drift, missed>>

\* _measureElement of an element that left the DOM: the index it had may name
\* another item by now, or none; then the element is kept.
Removed(n) ==
  LET known == n.index + 1 \in DOMAIN cache /\ cache[n.index + 1].key = n.key IN
  /\ n \in gone
  /\ gone' = gone \ {n}
  /\ held' = IF known /\ held[n.key] = "old" THEN [held EXCEPT ![n.key] = "no"] ELSE held
  /\ UNCHANGED <<list, scroll, browser, retry, scroller, want, dom, moves, reset, drift, missed>>

\* The listener of observeElementOffset.
ScrollEvent ==
  /\ event /\ scroller = "on"
  /\ event' = FALSE
  /\ adj' = 0
  /\ drift' = (stale /\ top = offset)
  /\ IF top = offset THEN UNCHANGED <<list, offset, scrolling, notified, want, reset>>
     ELSE /\ offset' = top
          /\ scrolling' = TRUE
          /\ LayOut(opt)
          /\ Notify(cache', view, top, TRUE)
          /\ UNCHANGED <<opt, lanes, sizes>>
  /\ UNCHANGED <<view, held, retry, scroller, dom, gone, real, height, top, moves,
                 missed>>

\* The timer of isScrolling; the unmount does not clear it.
ScrollEnd ==
  /\ scrolling
  /\ scrolling' = FALSE
  /\ LayOutAgain(opt)
  /\ Notify(cache', view, offset, FALSE)
  /\ UNCHANGED <<opt, lanes, sizes, offset, adj, view, held, retry, scroller, dom, gone, browser,
                 moves, missed>>

\* The listener of observeElementRect; a larger viewport may move the list.
RectChange(size) ==
  /\ scroller = "on" /\ size # view /\ Move
  /\ view' = size
  /\ LayOutAgain(opt)
  /\ Notify(cache', size, offset, scrolling)
  /\ top' = Clamp(top, height - size)
  /\ event' = (event \/ top' # top)
  /\ missed' = (missed \/ notified[1] # RangeOf(cache, view, offset))
  /\ UNCHANGED <<opt, lanes, sizes, offset, adj, scrolling, held, retry, scroller, dom, gone,
                 real, height>>

UserScroll(x) ==
  /\ scroller = "on" /\ Move /\ x # top
  /\ ScrollTo(x, height, view)
  /\ UNCHANGED <<list, scroll, held, retry, scroller, want, dom, gone, real, height, reset, drift,
                 missed>>

\* An element changes its height.
Resize(k, h) ==
  /\ real[k] # h /\ Move
  /\ real' = [real EXCEPT ![k] = h]
  /\ UNCHANGED <<list, scroll, held, retry, scroller, want, dom, gone, height, top, event, reset,
                 drift, missed>>

\* measure: every size is forgotten; a pending index still says where the next
\* layout starts, so what is above it keeps the size it had.
Forget ==
  /\ Move
  /\ sizes' = [k \in Keys |-> None]
  /\ stale' = TRUE
  /\ want' = TRUE
  /\ reset' = TRUE
  /\ UNCHANGED <<opt, lanes, cache, laidOut, pending, scroll, held, retry, scroller, dom, gone,
                 browser, drift, missed>>

\* The cleanup of _didMount: observers and the element go, timers and
\* measureElementCache stay.
Unmount ==
  /\ scroller = "on"
  /\ scroller' = "left"
  /\ dom' = [k \in Keys |-> None]
  /\ held' = [k \in Keys |-> IF held[k] = "live" THEN "old" ELSE held[k]]
  /\ gone' = {}
  /\ event' = FALSE
  /\ UNCHANGED <<list, scroll, retry, want, real, height, top, moves, reset, drift,
                 missed>>
----------------------------------------------------------------------------
\* Mutant: the offset of an item may lie beyond the end of the list.
AlignedBeyond(to, align) ==
  LET how == IF align # "auto" THEN align
             ELSE IF to > offset /\ to >= offset + view THEN "end" ELSE "start"
  IN CASE how = "start" -> to [] how = "end" -> to - view [] how = "center" -> to - view \div 2

\* getOffsetForAlignment, within what the browser can scroll to.
Aligned(to, align) ==
  LET how == IF align # "auto" THEN align
             ELSE IF to > offset /\ to >= offset + view THEN "end" ELSE "start"
      at  == CASE how = "start" -> to [] how = "end" -> to - view
               [] how = "center" -> to - view \div 2
  IN Clamp(at, (IF scroller = "on" THEN height ELSE 0) - view)

\* Mutant: the index is taken as it is.
InListAny(index) == index

\* Math.max(0, Math.min(index, count - 1))
InList(index) == Clamp(index, opt.count - 1)

\* getOffsetForIndex: <<offset, align>>; an item in view needs no scrolling.
OffsetOf(items, index, align) ==
  LET item == items[Clamp(index, opt.count - 1) + 1]
      how  == IF align # "auto" THEN align
              ELSE IF item.end >= offset + view THEN "end"
              ELSE IF item.start <= offset THEN "start" ELSE "auto"
  IN IF how = "auto" THEN <<offset, "auto">>
     ELSE <<Aligned(IF how = "end" THEN item.end ELSE item.start, how), how>>

\* isDynamicMode: some element was measured.
Dynamic == \E k \in Keys : held[k] # "no"

\* scrollToOffset, which cancels a scrollToIndex.
ScrollToOffset(x, align) ==
  /\ Move
  /\ retry' = None
  /\ ScrollTo(Aligned(x, align), height, view)
  /\ UNCHANGED <<list, scroll, held, scroller, want, dom, gone, real, height, reset, drift,
                 missed>>

\* scrollBy, relative to the offset that was heard of last.
ScrollBy(delta) ==
  /\ Move
  /\ retry' = None
  /\ ScrollTo(offset + delta, height, view)
  /\ UNCHANGED <<list, scroll, held, scroller, want, dom, gone, real, height, reset, drift,
                 missed>>

\* The rest of scrollToIndex once its index is clamped: scroll, and look again
\* when the elements there may have been measured.
Jump(index, align, smooth) ==
  LET to == OffsetOf(cache', index, align) IN
  /\ ScrollTo(to[1], height, view)
  /\ retry' = IF Dynamic /\ ~smooth THEN [index |-> index, align |-> to[2]] ELSE None

\* scrollToIndex; in an empty list it throws once the timer is cancelled.
ScrollToIndex(index, align, smooth) ==
  /\ Move
  /\ LayOutAgain(opt)
  /\ IF opt.count = 0
     THEN retry' = None /\ UNCHANGED <<top, event>>
     ELSE Jump(InList(index), align, smooth)
  /\ UNCHANGED <<opt, lanes, sizes, scroll, held, scroller, want, dom, gone, real, height,
                 missed>>

\* The timer of scrollToIndex: it scrolls again unless the element is there and
\* the offset is what it should be.  An item that has left the list is clamped.
Retry ==
  LET key  == opt.first + retry.index
      near == /\ key \in Keys /\ held[key] # "no"
              /\ OffsetOf(cache', retry.index, retry.align)[1] = offset
  IN
  /\ retry # None
  /\ LayOutAgain(opt)
  /\ IF opt.count = 0 \/ near THEN retry' = None /\ UNCHANGED <<top, event>>
     ELSE Jump(InList(retry.index), retry.align, FALSE)
  /\ UNCHANGED <<opt, lanes, sizes, scroll, held, scroller, want, dom, gone, real, height, moves,
                 missed>>
----------------------------------------------------------------------------
MeasureOne == \E k \in Keys : Measure(k)

RenderList == \E o \in Lists, size \in FirstViews : Render(o, size)

\* The rendering that onChange asks for; no option changes.
RenderAgain == \E size \in FirstViews : Render(opt, size)

Next ==
  \/ RenderList
  \/ MeasureOne
  \/ \E n \in gone : Removed(n)
  \/ ScrollEvent \/ ScrollEnd \/ Retry
  \/ \E size \in Views : RectChange(size)
  \/ \E x \in Offsets : UserScroll(x) \/ ScrollBy(x)
  \/ \E x \in Offsets, align \in Aligns : ScrollToOffset(x, align)
  \/ \E index \in Asked, align \in Aligns, smooth \in BOOLEAN : ScrollToIndex(index, align, smooth)
  \/ \E k \in Keys, h \in Sizes : Resize(k, h)
  \/ Forget \/ Unmount

Spec == Init /\ [][Next]_vars

(* The host renders when it is asked to and hands out its elements, the       *)
(* browser delivers what is due, timers fire.                                 *)
Fairness ==
  /\ WF_vars(RenderAgain) /\ WF_vars(ScrollEvent) /\ WF_vars(ScrollEnd) /\ WF_vars(Retry)
  /\ WF_vars(MeasureOne)

FairSpec == Spec /\ Fairness
----------------------------------------------------------------------------
\* The types of the variables; the index that scrollToIndex looks at again is
\* one of the list.
TypeOK ==
  /\ opt \in Lists /\ laidOut \in Lists /\ lanes \in LaneCounts
  /\ sizes \in [Keys -> Nat \cup {None}]
  /\ \A i \in DOMAIN cache :
       cache[i] \in [key : Keys, start : Nat, size : Nat, end : Nat, lane : 0 .. lanes - 1]
  /\ stale \in BOOLEAN /\ scrolling \in BOOLEAN /\ want \in BOOLEAN /\ event \in BOOLEAN
  /\ pending \subseteq 0 .. Len(cache) - 1
  /\ offset \in Nat /\ top \in Nat /\ height \in Nat /\ view \in Nat /\ adj \in Int
  /\ held \in [Keys -> {"no", "live", "old"}]
  /\ retry = None \/ \E l \in Lists : retry.index \in 0 .. l.count - 1
  /\ scroller \in {"none", "on", "left"}

\* The layout kept from before plus what was laid out since is what a layout of
\* the whole list from the sizes known now would be, whenever it counts as up to
\* date; unless measure() forgot the sizes and a measured item was pending then.
CacheMatches ==
  ~stale /\ laidOut = opt /\ ~reset => cache = Laid(<<>>, opt, sizes, lanes)

\* An item starts where the lane ends that ends first, of the items before it:
\* lanes have no gaps and no overlaps, and none runs ahead.
LanesPacked ==
  LET EndOf(l, n) == Max({Lead} \cup {cache[i].end : i \in {i \in 1..n : cache[i].lane = l}})
  IN \A n \in DOMAIN cache :
       LET ends == [l \in 0 .. lanes - 1 |-> EndOf(l, n - 1)] IN
       /\ cache[n].start = ends[cache[n].lane]
       /\ \A l \in DOMAIN ends : cache[n].start <= ends[l]

\* When nothing is due any more, every item of one lane that is in view is in
\* the DOM: what changes the range or a size asks for a rendering; unless the
\* viewport changed while maybeNotify remembered a range that was not rendered.
VisibleAreRendered ==
  lanes = 1 /\ ~missed /\ scroller = "on" /\ ~want /\ ~event /\ ~scrolling =>
    \A i \in 0 .. opt.count - 1 :
      cache[i + 1].end > top /\ cache[i + 1].start < top + view =>
        dom[opt.first + i] = i

\* Measurements leave what is read in place, though several come before the
\* scroll event of the first: with one lane, the corrections since the layout add
\* up to what the next layout will move the first item that was not above the top
\* of the viewport; unless measure() has forgotten a size the list was laid out
\* with, or the list was laid out again before the scroll event.
ViewHolds ==
  lanes = 1 /\ ~reset /\ ~drift =>
    LET now == Laid(<<>>, opt, sizes, lanes) IN
    \A i \in DOMAIN cache :
      cache[i].start >= offset /\ (\A j \in 1 .. i - 1 : cache[j].start < offset)
      => now[i].start = cache[i].start + adj

\* With one lane, what scrollToIndex looks at again comes to rest: the item is
\* shown where it was to be or a newer call takes over, unless the host is
\* unmounted first.
RetryEnds == retry # None ~> retry = None \/ scroller = "left" \/ lanes > 1
============================================================================
