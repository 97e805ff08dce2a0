--------------------------- MODULE MCSectorWindow ---------------------------
(* SectorWindow on a disk of a few sectors of SS bytes for TLC, which       *)
(* starts blank: what it may hold is then written by the operations.        *)
EXTENDS SectorWindow

MCInit == Init /\ disk = [s \in Sectors |-> Blank]
MCSpec == MCInit /\ [][Next]_vars
=============================================================================
