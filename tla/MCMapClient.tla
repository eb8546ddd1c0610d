---------------------------- MODULE MCMapClient ----------------------------
(***************************************************************************)
(* Instantiates MapClient for TLC: the byte order of the digests of the    *)
(* three keys of a map head's object is a fixed ranking.                   *)
(***************************************************************************)
EXTENDS MapClient, TLC

MCKeyRank == ("mutation_log" :> 0) @@ ("root_hash" :> 1) @@ ("tree_size" :> 2)

=============================================================================
