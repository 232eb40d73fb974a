----------------------------- MODULE MCSettings -----------------------------
(* Every kind of item alone, and a pair in which one is written before the  *)
(* other.                                                                  *)
EXTENDS Settings

MCTables ==
  {<<k>> : k \in Kinds} \cup {<<"blue", "number">>}
=============================================================================
