---------------------------- MODULE MCLockOrder ----------------------------
(* Two web handlers and the goroutines of one charger; those that run and
   readLoop share are run by one task. *)
EXTENDS LockOrder

CONSTANTS operator, handler, loop, writer

Goroutines == {operator, handler, loop, writer}

Roles == [t \in Goroutines |->
    CASE t = operator -> {"handleDisconnect", "SetEndpoint"}
      [] t = handler  -> {"Stop", "handleState"}
      [] t = loop     -> {"Receive", "ReadError", "Tick"}
      [] t = writer   -> {"WriteFrame", "Subscribe"}]
=============================================================================
