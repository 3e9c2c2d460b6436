---------------------------- MODULE MCTaskServer ----------------------------
(* Instances of TaskServer.  Sessions are interchangeable.                  *)
EXTENDS TaskServer, TLC

SessionSymmetry == Permutations(Sessions)
============================================================================
