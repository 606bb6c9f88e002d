------------------------- MODULE MCPacketOwnership -------------------------
(* Three packets: two that are assigned and one that is not. *)
EXTENDS PacketOwnership, TLC

Symmetry == Permutations(Packets) \cup Permutations(Values)

=============================================================================
