---------------------------- MODULE MCTableItems ----------------------------
(* Names for model checking: four places in the order of strings, whose     *)
(* lengths put the index identifiers in another order.                      *)
EXTENDS TableItems

MCNames == 1 .. 4
MCIndex == <<3, 1, 4, 2>>
=============================================================================
