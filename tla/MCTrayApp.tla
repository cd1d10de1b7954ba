------------------------------ MODULE MCTrayApp ------------------------------
(* Instances of TrayApp for TLC: what may go wrong.                        *)
EXTENDS TrayApp

MCAllFaults == AllFaults
MCAllTrayFaults == AllTrayFaults
MCRefusedOnly == {"refused"}
MCNoFaults == {}
=============================================================================
