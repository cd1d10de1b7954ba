------------------------- MODULE MCSessionRecorder -------------------------
(* Small instances of SessionRecorder for TLC: the cars that can be seen.  *)
EXTENDS SessionRecorder

MCCars == {0, 1, 2}     \* no car and two cars to change between
MCOneCar == {0, 1}
=============================================================================
