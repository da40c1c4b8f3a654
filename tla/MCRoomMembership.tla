-------------------------- MODULE MCRoomMembership --------------------------
(***************************************************************************)
(* Instances of RoomMembership for TLC.                                    *)
(***************************************************************************)
EXTENDS RoomMembership, TLC

CONSTANTS c1, c2, c3, c4

Symmetry == Permutations(Client)
=============================================================================
