--------------------------- MODULE MCBinderAlloc ---------------------------
(***************************************************************************)
(* A small instance of BinderAlloc: mappings of five and six 8-byte words  *)
(* (the second asked for as a longer one and capped), so that a tenth of   *)
(* the mapping is less than a word and a quarter is less than two.  The    *)
(* requests take one word (the minimum, and a size rounded up), two and    *)
(* three words, or overflow in align8 or in the sum.                       *)
(***************************************************************************)
EXTENDS BinderAlloc

MCLens == {40, 100}
MCRequests == {<<0, 0, 0>>, <<12, 0, 0>>, <<5, 8, 8>>, <<125, 0, 0>>,
               <<100, 16, 16>>}
MCSenders == {1, 2}
=============================================================================
