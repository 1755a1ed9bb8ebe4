------------------------------ MODULE Signature ------------------------------
(***************************************************************************)
(* The conversion of an ECDSA signature from ASN.1 DER, as AWS KMS gives   *)
(* it, to the fixed width Casper wants: convertSignatureAsn1ToP1363 and    *)
(* normalizeS of src-kms/lib/services/keys.service.ts.  A string of octets *)
(* stands as its length and its value; the code's own numbers are Byte =   *)
(* 256, Width = 32, Overhead = 6 and Order that of secp256k1.              *)
(***************************************************************************)
EXTENDS Naturals

CONSTANTS Byte,      \* values of an octet
          Width,     \* `length': octets of r, and of s, in the result
          Overhead,  \* octets of DER around the two integers
          Order      \* CURVE_ORDER

(* Byte to the power of k. *)
Power[k \in 0 .. Width + 1] == IF k = 0 THEN 1 ELSE Byte * Power[k - 1]

ASSUME SignatureAssumption ==
    /\ Byte \in Nat \ {0, 1} /\ Width \in Nat \ {0} /\ Overhead \in Nat
    /\ Order \in Nat
    /\ Order < Power[Width] /\ Power[Width] < 2 * Order
    /\ Overhead + 2 * (Width + 1) < 3 * Width

Scalars == 1 .. Order - 1

(* The least number of octets that hold x. *)
OctetsOf(x) == CHOOSE k \in 1 .. Width + 1 :
                  x < Power[k] /\ \A i \in 1 .. k - 1 : Power[i] <= x

(* A DER integer is signed: the top bit of its first octet is clear. *)
DerLength(v) == OctetsOf(2 * v)
HexLength(v) == OctetsOf(v)

(* padStart to the width, then without the octet 00 that makes it one more. *)
Padded(v) ==
    [len |-> IF DerLength(v) > Width THEN DerLength(v) ELSE Width, val |-> v]
Overlong(x) == x.len > Width /\ x.val < Power[x.len - 1]
Sliced(x) == [x EXCEPT !.len = @ - 1]

(* Faulty variant: the complement the wrong way round. *)
NormalizeSBackwards(x) ==
    LET s == IF x.val > Order \div 2 THEN x.val + Order ELSE x.val
    IN  [len |-> x.len, val |-> s]

(* The low one of s and its complement, in as many octets as it needs. *)
NormalizeS(x) ==
    LET s == IF x.val > Order \div 2 THEN Order - x.val ELSE x.val
    IN  [len |-> HexLength(s), val |-> s]

ConvertedR(r) == IF Overlong(Padded(r)) THEN Sliced(Padded(r)) ELSE Padded(r)
(* Faulty variant: the high s is left as it is. *)
ConvertedHighS(s) == IF Overlong(Padded(s)) THEN Sliced(Padded(s)) ELSE Padded(s)

ConvertedS(s) ==
    IF Overlong(Padded(s)) THEN NormalizeS(Sliced(Padded(s))) ELSE Padded(s)

DerTotal(r, s) == Overhead + DerLength(r) + DerLength(s)
TooShort(r, s) == DerTotal(r, s) < 2 * Width

(* Taken for converted already: the DER octets themselves, which sign() then
   reads as hexadecimal digits and finds none. *)
LooksConverted(r, s) == DerTotal(r, s) % Width = 0
Empty == [len |-> 0, val |-> 0]

Convert(r, s) ==
    IF LooksConverted(r, s) THEN [r |-> Empty, s |-> Empty]
                            ELSE [r |-> ConvertedR(r), s |-> ConvertedS(s)]

Octets == [len : 0 .. Width + 1, val : 0 .. Order - 1]
Signatures == [r : Octets, s : Octets]

(* What Casper takes apart: two integers of the full width. *)
FullWidth(sig) == sig.r.len + sig.s.len = 2 * Width
=============================================================================
