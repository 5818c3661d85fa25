------------------------------ MODULE MCIrcJoin ------------------------------
(* TLC instances of IrcJoin.  The calls the windows of the app make.         *)
EXTENDS IrcJoin

AllOps == {"join", "leave", "close", "start", "reattach", "warm", "send",
           "nudge", "stop"}

=============================================================================
