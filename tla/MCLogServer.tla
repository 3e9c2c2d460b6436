---------------------------- MODULE MCLogServer ----------------------------
(* Instances of LogServer.                                                  *)
EXTENDS LogServer, TLC

blob(d)  == [kind |-> "blob", db |-> d]
entry(d) == [kind |-> "entry", db |-> d]
other(d) == [kind |-> "other", db |-> d]

\* Databases 0 and 2 share writer 0 of two.
MCDbs == {0, 1, 2}

\* Commits that share a writer, mix kinds, and fill a channel.
MCShortLogs == {<<entry(0), other(1), entry(0)>>, <<blob(0), blob(1)>>, <<blob(0), entry(2)>>}
============================================================================
