----------------------------- MODULE LogStream -----------------------------
(***************************************************************************)
(* What the log server promises about the order of log entries: each       *)
(* stream takes entries one at a time and appends them to the log in the   *)
(* order taken, in batches, each entry once.  A crash forgets what was     *)
(* taken and not appended; the stream starts again.  LogServer implements  *)
(* this specification, with one stream for every writer.                   *)
(***************************************************************************)
EXTENDS Naturals, Sequences

CONSTANTS Streams, Entries

VARIABLES
  taken,    \* stream -> entries taken since the last start, oldest first
  appended  \* stream -> how many of them are in the log

streamVars == <<taken, appended>>

StreamInit ==
  /\ taken = [s \in Streams |-> <<>>]
  /\ appended = [s \in Streams |-> 0]

\* An entry is taken, unless it was taken before.
Take(s, e) ==
  /\ \A i \in DOMAIN taken[s] : taken[s][i] # e
  /\ taken' = [taken EXCEPT ![s] = Append(@, e)]
  /\ UNCHANGED appended

\* The next entries, at least one, are appended to the log.
AppendBatch(s, n) ==
  /\ n > appended[s]
  /\ n <= Len(taken[s])
  /\ appended' = [appended EXCEPT ![s] = n]
  /\ UNCHANGED taken

Restart == taken' = [s \in Streams |-> <<>>] /\ appended' = [s \in Streams |-> 0]

StreamNext ==
  \/ \E s \in Streams, e \in Entries : Take(s, e)
  \/ \E s \in Streams : \E n \in 1..Len(taken[s]) : AppendBatch(s, n)
  \/ Restart

StreamSpec == StreamInit /\ [][StreamNext]_streamVars
============================================================================
