------------------------------ MODULE MCTmLink ------------------------------
(* Packets of two APIDs for checking TmLink. *)
EXTENDS TmLink, TLC

CONSTANTS hk, event

Symmetry  == Permutations({hk, event})
MCApids   == {hk, event}
MCPackets == [apid : MCApids, seq : 0 .. SeqCountModulo - 1]
==============================================================================
