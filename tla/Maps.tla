-------------------------------- MODULE Maps --------------------------------
(***************************************************************************)
(* Objects used as maps: obj[key] = value, and delete obj[key].            *)
(***************************************************************************)

With(f, x, y) == [z \in DOMAIN f \cup {x} |-> IF z = x THEN y ELSE f[z]]
Without(f, x) == [z \in DOMAIN f \ {x} |-> f[z]]
=============================================================================
