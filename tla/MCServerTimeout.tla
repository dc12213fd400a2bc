-------------------------- MODULE MCServerTimeout ---------------------------
(* A small instance of ServerTimeout: a clock of four values, which wraps. *)
EXTENDS ServerTimeout

MCTimeouts == {0, 2, 3}

\* One msgid; an argument only where the device looks at it.
MCFrames ==
  {m \in ToDevice :
     /\ m.type = "request" => m.msgid = 1
     /\ m.type \in {"request", "notification"} =>
          \/ m.method = "rpc.attach"
          \/ m.method = "rpc.list" /\ m.arg \in {0, BadArg}
          \/ m.arg = 0}
=============================================================================
