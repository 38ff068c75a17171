-------------------------- MODULE MCMediaControl --------------------------
(***************************************************************************)
(* Instances of MediaControl for TLC.                                      *)
(***************************************************************************)
EXTENDS MediaControl

CONSTANTS r1, r2, s1, s2, s3, c1, c2

\* Two rooms: one with a client's stream and an external input, one with a
\* client's stream;
\* the subscribers are in the first.
TwoRooms == s1 :> r1 @@ s2 :> r1 @@ s3 :> r2 @@ c1 :> r1 @@ c2 :> r1
OneInput == s1 :> "erizo" @@ s2 :> "url" @@ s3 :> "erizo"

ClientSymmetry == Permutations({c1, c2})
===========================================================================
