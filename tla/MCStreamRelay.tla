--------------------------- MODULE MCStreamRelay ---------------------------
(* Instances of StreamRelay.  The keys and operations a viewer or a request *)
(* may use are all the code allows; the sets below only bound how many      *)
(* publishers, tracks, viewers and requests there are.                      *)
EXTENDS StreamRelay, TLC

Symmetry == Permutations(Streams)

ReqSymmetry == Permutations(Reqs)
============================================================================
