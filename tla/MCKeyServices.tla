--------------------------- MODULE MCKeyServices ---------------------------
(***************************************************************************)
(* An instance of KeyServices for TLC: octets of two bits, three to an     *)
(* integer, an order just below 64.  Every s beside an r that is short,    *)
(* one of the full width and one that DER gives an octet more.             *)
(***************************************************************************)
EXTENDS KeyServices

MCNonces == {1, 8, 32} \X Scalars
=============================================================================
