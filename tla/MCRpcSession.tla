---------------------------- MODULE MCRpcSession ----------------------------
(* Small instances of RpcSession. *)
EXTENDS RpcSession

MCUserCalls == {[method |-> "bound", arg |-> 0]}
MCTimeouts  == {0}
=============================================================================
