------------------------- MODULE MCConnectionManager -------------------------
(* Two connections and two descriptors, the number of a closed one reused. *)
EXTENDS ConnectionManager

===============================================================================
