--------------------------- MODULE MCMemAccessList ---------------------------
(***************************************************************************)
(* MemAccessList with every aligned access of 2, 4 and 8 bytes, a byte,    *)
(* and accesses that are odd-sized or unaligned (the pieces of an access   *)
(* that crosses a word).                                                   *)
(***************************************************************************)
EXTENDS MemAccessList

MCRanges == {<<0, 8>>, <<0, 4>>, <<4, 4>>, <<0, 2>>, <<2, 2>>, <<6, 2>>, <<3, 1>>, <<1, 2>>,
             <<5, 3>>, <<2, 4>>}
=============================================================================
