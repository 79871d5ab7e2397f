-------------------------- MODULE MCRoomRegistry --------------------------
(* RoomRegistry with three sockets, or two; rooms enough that one can always *)
(* be made.                                                                  *)
EXTENDS RoomRegistry

CONSTANTS c1, c2, c3

MCThree == {c1, c2, c3}
MCRoomId == 1..3
=============================================================================
