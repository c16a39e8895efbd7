--------------------------- MODULE MCLiveSession ---------------------------
(* One variant session and two agents: the configurations give their names.*)
EXTENDS LiveSession
=============================================================================
