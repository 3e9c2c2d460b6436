----------------------------- MODULE MCRpcPeer -----------------------------
(* Instances of RpcPeer.  An api set holds one method, so that a second set *)
(* is asked.                                                                *)
EXTENDS RpcPeer, TLC

Singles == {{m} : m \in Methods}
============================================================================
