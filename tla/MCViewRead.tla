----------------------------- MODULE MCViewRead -----------------------------
(***************************************************************************)
(* ViewRead with three reducers: two of them collide in the first table,   *)
(* which holds two entries, and all three do not fit in it.                *)
(***************************************************************************)
EXTENDS ViewRead, TLC

MCHashOf == (1 :> 1) @@ (2 :> 3) @@ (3 :> 1)
=============================================================================
