--------------------------- MODULE MCRoomManager ---------------------------
(***************************************************************************)
(* RoomManager on small sets of Room objects and connections.  No property *)
(* tells two members of one set apart, so all of them are symmetric; the   *)
(* sets differ from run to run, see the cfgs.                              *)
(***************************************************************************)
EXTENDS RoomManager, TLC

Symmetry ==
  Permutations(Rooms) \cup Permutations(Clients)
    \cup Permutations(Publishers) \cup Permutations(Viewers)
=============================================================================
