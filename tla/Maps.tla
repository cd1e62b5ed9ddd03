-------------------------------- MODULE Maps --------------------------------
(***************************************************************************)
(* The containers of the runtime as functions: an unordered_map is a       *)
(* function whose domain is its keys.                                      *)
(***************************************************************************)
EmptyMap == [x \in {} |-> x]

(* f is a map from some of the keys K to values of V.                      *)
IsMap(f, K, V) == DOMAIN f \subseteq K /\ f \in [DOMAIN f -> V]

Put(f, k, v) == [x \in DOMAIN f \cup {k} |-> IF x = k THEN v ELSE f[x]]
=============================================================================
