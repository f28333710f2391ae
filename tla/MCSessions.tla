----------------------------- MODULE MCSessions -----------------------------
(* Sessions for TLC: names carry no meaning. *)
EXTENDS Sessions, TLC

Interchangeable == Permutations(Tokens) \cup Permutations(Tabs) \cup Permutations(Navs)
=============================================================================
