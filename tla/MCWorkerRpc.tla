---------------------------- MODULE MCWorkerRpc ----------------------------
(* Instances of WorkerRpc.  The api has what the tabs ask for, or lacks it,  *)
(* and has an unknown of its own or not.                                     *)
EXTENDS WorkerRpc, TLC

CONSTANT work

MCMethods == {"connect", "log", "unknown", work}

MCCalled == {work}

MCNoted == {"log"}

MCApis == {{work}, {"connect"}, {"log", "unknown"}}
============================================================================
