--------------------------- MODULE MCConversions ---------------------------
(***************************************************************************)
(* TLC instances of Conversions, with a two-bit int32.                     *)
(***************************************************************************)
EXTENDS Conversions

Lowest == -2
=============================================================================
