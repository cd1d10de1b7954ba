-------------------------- MODULE MCLiveBroadcast --------------------------
(* Model-checking instance of LiveBroadcast.                               *)
EXTENDS LiveBroadcast
=============================================================================
