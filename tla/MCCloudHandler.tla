--------------------------- MODULE MCCloudHandler ---------------------------
(***************************************************************************)
(* Instances of CloudHandler for TLC.                                      *)
(***************************************************************************)
EXTENDS CloudHandler

CONSTANTS ec1, ec2, room1, room2

RoomSymmetry == Permutations({room1, room2})
=============================================================================
