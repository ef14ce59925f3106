------------------------- MODULE MCPositionsSnapshot -------------------------
(***************************************************************************)
(* Small instances of PositionsSnapshot: two keys, one or two requests.    *)
(* The windows keep the order of the code's (8 s fresh, 15 s adapter       *)
(* cache, 150 s warm, 300 s stale).                                        *)
(***************************************************************************)
EXTENDS PositionsSnapshot, TLC

AnyKey == Permutations(Keys)
=============================================================================
