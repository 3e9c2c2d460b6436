----------------------------- MODULE LayerFeed -----------------------------
(***************************************************************************)
(* What the relay promises a viewer about simulcast layers, with no lock,  *)
(* goroutine or stream object in sight: once the viewer has asked for a    *)
(* layer, and until it asks again, it is sent packets of that layer only.  *)
(* StreamRelay implements this specification.                              *)
(***************************************************************************)
EXTENDS Integers, Sequences

CONSTANTS Views, Layers, NoLayer, Numbers

VARIABLES
  out,    \* viewer -> packets it was sent
  since   \* viewer -> the layer it last asked for, and how many packets before

feedVars == <<out, since>>

FeedInit ==
  /\ out = [v \in Views |-> <<>>]
  /\ since = [v \in Views |-> [layer |-> NoLayer, at |-> 0]]

\* The viewer asks for layer l; the empty layer leaves the choice to the relay.
Choose(v, l) ==
  /\ since' = [since EXCEPT ![v] = [layer |-> l, at |-> Len(out[v])]]
  /\ UNCHANGED out

\* A packet of layer l, numbered n, is sent to the viewer.
Deliver(v, l, n) ==
  /\ since[v].layer \in {NoLayer, l}
  /\ out' = [out EXCEPT ![v] = Append(@, [layer |-> l, seq |-> n])]
  /\ UNCHANGED since

FeedNext ==
  \E v \in Views :
    \/ \E l \in Layers \cup {NoLayer} : Choose(v, l)
    \/ \E l \in Layers, n \in Numbers : Deliver(v, l, n)

FeedSpec == FeedInit /\ [][FeedNext]_feedVars
============================================================================
