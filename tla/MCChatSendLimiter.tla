------------------------- MODULE MCChatSendLimiter -------------------------
(* TLC instances of ChatSendLimiter.  One instant stands for a little over a
   second: a spacing is 1, the window 3 (of 30 s) with budgets of 1 to
   3 in place of 20 and 100. *)
EXTENDS ChatSendLimiter

Strict == [NoModes EXCEPT !.slow = 2, !.unique = TRUE]
Shut == [NoModes EXCEPT !.shut = TRUE]
MCRoomModes == {Strict, Shut}
Symmetry == Permutations(Lines) \cup Permutations(Jobs)

=============================================================================
