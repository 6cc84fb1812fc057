--------------------------- MODULE MCTransparent ---------------------------
(***************************************************************************)
(* Small instances of Transparent.                                         *)
(***************************************************************************)
EXTENDS Transparent, TLC

(* Connections are alike, and so are proxies. *)
Alike == Permutations(Conns) \cup Permutations(Keys)
=============================================================================
