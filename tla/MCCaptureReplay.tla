-------------------------- MODULE MCCaptureReplay --------------------------
(* Captures with payloads whose bytes add up in more than one way. *)
EXTENDS CaptureReplay
MCPayloads == {<<1>>, <<1, 1>>}
=============================================================================
