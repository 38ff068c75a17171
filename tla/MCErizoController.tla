------------------------- MODULE MCErizoController -------------------------
(***************************************************************************)
(* Instances of ErizoController for TLC.                                   *)
(***************************************************************************)
EXTENDS ErizoController

CONSTANTS c1, c2, s1, s2, s3, e1, e2, rec

\* Streams that an ErizoJS carries, from clients or from a URL, and one that
\* only carries data.
OneErizo == s1 :> "erizo"
TwoErizo == s1 :> "erizo" @@ s2 :> "erizo"
OneOfEach == s1 :> "erizo" @@ s2 :> "url" @@ s3 :> "data"

ClientSymmetry == Permutations({c1, c2})
ErizoSymmetry == Permutations({e1, e2})
StreamSymmetry == Permutations({s1, s2})
Symmetric == ClientSymmetry \cup ErizoSymmetry \cup StreamSymmetry
=============================================================================
