------------------------------ MODULE MCClient ------------------------------
(* Instance of ClientSession for TLC: every kind of frame, from both sides. *)
EXTENDS ClientSession

CONSTANTS u1, u2

MCUsers == {u1, u2}
MCRequests == {"login", "register", "chat", "loginout", "odd", "broken", "long"}
MCAnswers == {"ok", "huge"}
=============================================================================
