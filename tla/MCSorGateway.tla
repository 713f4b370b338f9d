---------------------------- MODULE MCSorGateway ----------------------------
(* Instances of SorGateway for TLC.                                        *)
EXTENDS SorGateway, TLC

CONSTANT MaxId   \* bound on the order identifiers handed out
MCOrderIds == 1 .. MaxId
Symmetry   == Permutations(Venues)
=============================================================================
