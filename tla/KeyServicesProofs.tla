------------------------- MODULE KeyServicesProofs -------------------------
(***************************************************************************)
(* The key services keep their keys apart, for any calls, nonces, services *)
(* and faults; and both of them implement KeyStore.                        *)
(***************************************************************************)
EXTENDS KeyServices, LeastNumber

-----------------------------------------------------------------------------
(* Powers of Byte: they exist, and grow. *)
IsPower(m, f) == f = [k \in 0 .. m |-> IF k = 0 THEN 1 ELSE Byte * f[k - 1]]

LEMMA PowerExists == ASSUME NEW k \in Nat PROVE \E f : IsPower(k, f)
  <1> DEFINE T == {m \in Nat : ~\E f : IsPower(m, f)}
  <1>1. CASE T = {}
    BY <1>1
  <1>2. CASE T # {}
    <2>1. PICK m \in T : \A n \in T : m <= n
      <3>1. T \in SUBSET Nat
        OBVIOUS
      <3> HIDE DEF T
      <3> QED BY <1>2, <3>1, LeastNat
    <2>2. m # 0
      <3>1. IsPower(0, [n \in 0 .. 0 |-> 1])
        BY DEF IsPower
      <3> QED BY <2>1, <3>1
    <2>3. PICK f : IsPower(m - 1, f)
      <3>1. m - 1 \in Nat /\ m - 1 \notin T
        BY <2>1, <2>2
      <3> QED BY <3>1
    <2> DEFINE g == [n \in 0 .. m |-> IF n = m THEN Byte * f[m - 1] ELSE f[n]]
    <2>4. \A n \in 0 .. m - 1 : f[n] = IF n = 0 THEN 1 ELSE Byte * f[n - 1]
      BY <2>3 DEF IsPower
    <2>5. \A n \in 0 .. m : g[n] = IF n = 0 THEN 1 ELSE Byte * g[n - 1]
      <3> SUFFICES ASSUME NEW n \in 0 .. m
                   PROVE  g[n] = IF n = 0 THEN 1 ELSE Byte * g[n - 1]
        OBVIOUS
      <3>1. n = m => g[n] = Byte * f[m - 1] /\ g[n - 1] = f[m - 1]
        BY <2>1, <2>2
      <3>2. n # m => /\ n \in 0 .. m - 1 /\ g[n] = f[n]
                     /\ n # 0 => g[n - 1] = f[n - 1]
        BY <2>1
      <3> HIDE DEF g
      <3> QED BY <2>2, <2>4, <3>1, <3>2
    <2>6. g = [n \in 0 .. m |-> g[n]]
      OBVIOUS
    <2> HIDE DEF g
    <2>7. IsPower(m, g)
      BY <2>5, <2>6 DEF IsPower
    <2> QED BY <2>1, <2>7
  <1> QED BY <1>1, <1>2

LEMMA PowerIs ==
    Power[0] = 1 /\ \A k \in 1 .. Width + 1 : Power[k] = Byte * Power[k - 1]
  <1> DEFINE f == CHOOSE g : IsPower(Width + 1, g)
  <1>0. Width + 1 \in Nat
    BY SignatureAssumption
  <1>1. IsPower(Width + 1, f)
    BY <1>0, PowerExists
  <1>2. Power = f
    BY DEF Power, IsPower
  <1> HIDE DEF f
  <1>3. \A k \in 0 .. Width + 1 : f[k] = IF k = 0 THEN 1 ELSE Byte * f[k - 1]
    BY <1>1 DEF IsPower
  <1> QED BY <1>0, <1>2, <1>3

LEMMA Multiple ==
    ASSUME NEW b \in Nat \ {0, 1}, NEW x \in Nat PROVE b * x \in Nat /\ 2 * x <= b * x
  <1>1. (b - 2) * x >= 0
    OBVIOUS
  <1> QED BY <1>1

(* By induction on the exponent. *)
LEMMA PowerNat == \A k \in 0 .. Width + 1 : Power[k] \in Nat \ {0}
  <1> DEFINE T == {k \in 0 .. Width + 1 : Power[k] \notin Nat \ {0}}
  <1> SUFFICES ASSUME T # {} PROVE FALSE
    OBVIOUS
  <1>0. Width \in Nat /\ Byte \in Nat \ {0, 1}
    BY SignatureAssumption
  <1>1. PICK m \in T : \A k \in T : m <= k
    <2>1. T \in SUBSET Nat
      BY <1>0
    <2> HIDE DEF T
    <2> QED BY <2>1, LeastNat
  <1>2. m \in 1 .. Width + 1
    BY <1>0, <1>1, PowerIs
  <1>3. Power[m - 1] \in Nat \ {0} /\ Power[m] = Byte * Power[m - 1]
    BY <1>0, <1>1, <1>2, PowerIs
  <1>4. Power[m] \in Nat /\ 2 * Power[m - 1] <= Power[m]
    BY <1>0, <1>3, Multiple
  <1> QED BY <1>1, <1>3, <1>4

LEMMA PowerDoubles ==
    ASSUME NEW k \in 1 .. Width + 1
    PROVE  Power[k] \in Nat /\ Power[k - 1] \in Nat /\ 2 * Power[k - 1] <= Power[k]
  <1>1. Width \in Nat /\ Byte \in Nat \ {0, 1}
    BY SignatureAssumption
  <1>2. Power[k - 1] \in Nat /\ Power[k] = Byte * Power[k - 1]
    BY <1>1, PowerIs, PowerNat
  <1> QED BY <1>1, <1>2, Multiple

LEMMA PowerGrows ==
    ASSUME NEW i \in 0 .. Width + 1, NEW k \in i .. Width + 1 PROVE Power[i] <= Power[k]
  <1> DEFINE T == {j \in i .. Width + 1 : ~(Power[i] <= Power[j])}
  <1> SUFFICES ASSUME T # {} PROVE FALSE
    OBVIOUS
  <1>0. Width \in Nat /\ Power[i] \in Nat
    BY SignatureAssumption, PowerNat
  <1>1. PICK m \in T : \A j \in T : m <= j
    <2>1. T \in SUBSET Nat
      BY <1>0
    <2> HIDE DEF T
    <2> QED BY <2>1, LeastNat
  <1>2. m \in 1 .. Width + 1 /\ m - 1 \in i .. Width + 1
    BY <1>0, <1>1
  <1>3. Power[i] <= Power[m - 1]
    BY <1>0, <1>1, <1>2
  <1> QED BY <1>0, <1>1, <1>2, <1>3, PowerDoubles

-----------------------------------------------------------------------------
(* The conversion of a signature. *)

(* The least number of octets that hold a number, of those that some do. *)
LEMMA OctetsOfIs ==
    ASSUME NEW x \in Nat, x < Power[Width + 1]
    PROVE  /\ OctetsOf(x) \in 1 .. Width + 1
           /\ x < Power[OctetsOf(x)]
           /\ \A i \in 1 .. OctetsOf(x) - 1 : Power[i] <= x
  <1> DEFINE T == {k \in 1 .. Width + 1 : x < Power[k]}
  <1>0. Width \in Nat
    BY SignatureAssumption
  <1>1. Width + 1 \in T /\ T \in SUBSET Nat
    BY <1>0
  <1>2. PICK m \in T : \A k \in T : m <= k
    <2> HIDE DEF T
    <2> QED BY <1>1, LeastNat
  <1>3. \A i \in 1 .. m - 1 : Power[i] <= x
    <2> SUFFICES ASSUME NEW i \in 1 .. m - 1 PROVE Power[i] <= x
      OBVIOUS
    <2>1. i \in 0 .. Width + 1 /\ i \in 1 .. Width + 1 /\ i \notin T
      BY <1>0, <1>2
    <2>2. Power[i] \in Nat
      BY <2>1, PowerNat
    <2> QED BY <2>1, <2>2
  <1>4. m \in 1 .. Width + 1 /\ x < Power[m]
    BY <1>2
  <1> QED BY <1>3, <1>4 DEF OctetsOf

LEMMA ScalarOctets ==
    ASSUME NEW v \in Scalars
    PROVE  /\ v \in Nat /\ v < Order /\ v < Power[Width]
           /\ DerLength(v) \in 1 .. Width + 1 /\ 2 * v < Power[DerLength(v)]
  <1>1. /\ Width \in Nat \ {0} /\ Order \in Nat /\ Order < Power[Width]
        /\ Power[Width] \in Nat /\ Power[Width + 1] \in Nat
        /\ 2 * Power[Width] <= Power[Width + 1]
    <2>1. Width \in Nat \ {0} /\ Order \in Nat /\ Order < Power[Width]
      BY SignatureAssumption
    <2>2. Width + 1 \in 1 .. Width + 1 /\ (Width + 1) - 1 = Width
      BY <2>1
    <2> QED BY <2>1, <2>2, PowerDoubles
  <1>2. /\ v \in Nat /\ v < Order /\ v < Power[Width]
        /\ 2 * v \in Nat /\ 2 * v < Power[Width + 1]
    BY <1>1 DEF Scalars
  <1> QED BY <1>2, OctetsOfIs DEF DerLength

(* r keeps its value and comes out in the full width. *)
LEMMA ConvertedRIs ==
    ASSUME NEW v \in Scalars
    PROVE  /\ ConvertedR(v) = [len |-> Width, val |-> v]
           /\ ConvertedR(v).len = Width /\ ConvertedR(v).val = v
  <1>1. Width \in Nat \ {0} /\ v < Power[Width] /\ DerLength(v) \in 1 .. Width + 1
    BY ScalarOctets, SignatureAssumption
  <1>2. CASE DerLength(v) <= Width
    <2>1. Padded(v) = [len |-> Width, val |-> v]
      BY <1>1, <1>2 DEF Padded
    <2> QED BY <1>1, <2>1 DEF ConvertedR, Overlong
  <1>3. CASE DerLength(v) = Width + 1
    <2>1. Padded(v) = [len |-> Width + 1, val |-> v]
      BY <1>1, <1>3 DEF Padded
    <2>2. Overlong(Padded(v)) /\ Sliced(Padded(v)) = [len |-> Width, val |-> v]
      BY <1>1, <2>1 DEF Overlong, Sliced
    <2> QED BY <2>2 DEF ConvertedR
  <1> QED BY <1>1, <1>2, <1>3

(* s comes out as itself or its complement, the lower of the two when it was of
   the full width; then it has the width or less. *)
LEMMA ConvertedSIs ==
    ASSUME NEW v \in Scalars
    PROVE  /\ ConvertedS(v) \in Octets
           /\ ConvertedS(v).val \in {v, Order - v}
           /\ ConvertedS(v).len <= Width => 2 * ConvertedS(v).val < Power[Width]
  <1>1. /\ Width \in Nat \ {0} /\ Order \in Nat /\ Order < Power[Width]
        /\ Power[Width] \in Nat
        /\ v \in Nat /\ v # 0 /\ v < Order /\ v < Power[Width]
        /\ DerLength(v) \in 1 .. Width + 1 /\ 2 * v < Power[DerLength(v)]
    <2>1. Width \in Nat \ {0} /\ Order \in Nat /\ Order < Power[Width]
      BY SignatureAssumption
    <2>2. Power[Width] \in Nat
      BY <2>1, PowerNat
    <2> QED BY <2>1, <2>2, ScalarOctets DEF Scalars
  <1>2. CASE DerLength(v) <= Width
    <2>1. Padded(v) = [len |-> Width, val |-> v]
      BY <1>1, <1>2 DEF Padded
    <2>2. ConvertedS(v) = [len |-> Width, val |-> v]
      BY <1>1, <2>1 DEF ConvertedS, Overlong
    <2>3. Power[DerLength(v)] <= Power[Width] /\ Power[DerLength(v)] \in Nat
      BY <1>1, <1>2, PowerGrows, PowerNat
    <2>4. 2 * v < Power[Width]
      BY <1>1, <2>3
    <2> QED BY <1>1, <2>2, <2>4 DEF Octets
  <1>3. CASE DerLength(v) = Width + 1
    <2> DEFINE low == IF v > Order \div 2 THEN Order - v ELSE v
    <2>1. Padded(v) = [len |-> Width + 1, val |-> v]
      BY <1>1, <1>3 DEF Padded
    <2>2. Overlong(Padded(v)) /\ Sliced(Padded(v)) = [len |-> Width, val |-> v]
      BY <1>1, <2>1 DEF Overlong, Sliced
    <2>3. ConvertedS(v) = [len |-> HexLength(low), val |-> low]
      BY <2>2 DEF ConvertedS, NormalizeS
    <2>4. low \in 0 .. Order - 1 /\ low \in {v, Order - v} /\ 2 * low <= Order
      BY <1>1
    <2>5. HexLength(low) \in 1 .. Width + 1
      <3>1. Width + 1 \in 1 .. Width + 1 /\ (Width + 1) - 1 = Width
        BY <1>1
      <3>2. Power[Width + 1] \in Nat /\ 2 * Power[Width] <= Power[Width + 1]
        BY <3>1, PowerDoubles
      <3>3. low \in Nat /\ low < Power[Width + 1]
        BY <1>1, <2>4, <3>2
      <3> HIDE DEF low
      <3> QED BY <3>3, OctetsOfIs DEF HexLength
    <2> HIDE DEF low
    <2> QED BY <1>1, <2>3, <2>4, <2>5 DEF Octets
  <1> QED BY <1>1, <1>2, <1>3

LEMMA ConvertIs ==
    ASSUME NEW r \in Scalars, NEW s \in Scalars
    PROVE  /\ Convert(r, s) \in Signatures
           /\ FullWidth(Convert(r, s)) =>
                /\ Convert(r, s).r.val = r
                /\ Convert(r, s).s.val \in {s, Order - s}
                /\ Convert(r, s).r.len = Width
                /\ 2 * Convert(r, s).s.val < Power[Width]
  <1>0. Width \in Nat \ {0} /\ Order \in Nat \ {0}
    BY SignatureAssumption, ScalarOctets DEF Scalars
  <1>1. CASE LooksConverted(r, s)
    <2>1. Convert(r, s) = [r |-> Empty, s |-> Empty]
      BY <1>1 DEF Convert
    <2>2. Empty \in Octets
      BY <1>0 DEF Empty, Octets
    <2>3. ~FullWidth(Convert(r, s))
      BY <1>0, <2>1 DEF FullWidth, Empty
    <2> QED BY <2>1, <2>2, <2>3 DEF Signatures
  <1>2. CASE ~LooksConverted(r, s)
    <2>1. Convert(r, s) = [r |-> ConvertedR(r), s |-> ConvertedS(s)]
      BY <1>2 DEF Convert
    <2>2. ConvertedR(r) \in Octets
      BY <1>0, ConvertedRIs DEF Octets, Scalars
    <2>3. Convert(r, s) \in Signatures
      BY <2>1, <2>2, ConvertedSIs DEF Signatures
    <2>4. FullWidth(Convert(r, s)) => ConvertedS(s).len <= Width
      BY <1>0, <2>1, ConvertedRIs, ConvertedSIs DEF FullWidth, Octets
    <2> QED BY <2>1, <2>3, <2>4, ConvertedRIs, ConvertedSIs
  <1> QED BY <1>1, <1>2

(* The octets of a converted s: the width, but for the complement of a high one. *)
LEMMA ConvertedSLength ==
    ASSUME NEW v \in Scalars
    PROVE  \/ 2 * v < Power[Width] /\ ConvertedS(v).len = Width
           \/ Power[Width] <= 2 * v /\ ConvertedS(v).len = HexLength(Order - v)
  <1>1. /\ Width \in Nat \ {0} /\ Order \in Nat
        /\ Order < Power[Width] /\ Power[Width] \in Nat
    BY SignatureAssumption, PowerNat
  <1>2. v \in Nat /\ DerLength(v) \in 1 .. Width + 1 /\ 2 * v < Power[DerLength(v)]
    BY ScalarOctets
  <1>3. CASE DerLength(v) <= Width
    <2>1. ConvertedS(v) = [len |-> Width, val |-> v]
      BY <1>1, <1>2, <1>3 DEF Padded, ConvertedS, Overlong
    <2>2. Power[DerLength(v)] \in Nat /\ Power[DerLength(v)] <= Power[Width]
      BY <1>1, <1>2, <1>3, PowerGrows, PowerNat
    <2> QED BY <1>1, <1>2, <2>1, <2>2
  <1>4. CASE DerLength(v) = Width + 1
    <2>1. Power[Width] <= 2 * v
      <3>1. 2 * v \in Nat /\ 2 * v < Power[Width + 1] /\ Width \in 1 .. (Width + 1) - 1
        BY <1>1, <1>2, <1>4
      <3> QED BY <1>4, <3>1, OctetsOfIs DEF DerLength
    <2>2. v > Order \div 2 /\ v < Power[Width]
      BY <1>1, <2>1, ScalarOctets
    <2>3. Padded(v) = [len |-> Width + 1, val |-> v]
      BY <1>1, <1>4 DEF Padded
    <2>4. Overlong(Padded(v)) /\ Sliced(Padded(v)).val = v
      BY <1>1, <2>2, <2>3 DEF Overlong, Sliced
    <2>5. ConvertedS(v).len = HexLength(Order - v)
      BY <2>2, <2>4 DEF ConvertedS, NormalizeS
    <2> QED BY <2>1, <2>5
  <1> QED BY <1>1, <1>2, <1>3, <1>4

(* Which signatures the key service returns an octet or more short: those with an
   s so high that DER prefixes it, and so near the order that its complement, which
   normalizeS does not pad, begins with an octet 00. *)
THEOREM ShortExactlyWhenComplementIs ==
    ASSUME NEW r \in Scalars, NEW s \in Scalars, ~LooksConverted(r, s)
    PROVE  ~FullWidth(Convert(r, s)) <=>
              Power[Width] <= 2 * s /\ Order - s < Power[Width - 1]
  <1>1. /\ Width \in Nat \ {0} /\ Order \in Nat /\ Order < Power[Width]
        /\ Power[Width] \in Nat /\ Power[Width - 1] \in Nat \ {0}
    BY SignatureAssumption, PowerNat
  <1>2. s \in Nat /\ Order - s \in Nat \ {0}
    BY <1>1 DEF Scalars
  <1> DEFINE n == HexLength(Order - s)
  <1>3. n \in 1 .. Width + 1 /\ Order - s < Power[n] /\ Power[n] \in Nat
        /\ \A i \in 1 .. n - 1 : Power[i] <= Order - s
    <2>1. Power[Width] <= Power[Width + 1] /\ Power[Width + 1] \in Nat
      BY <1>1, PowerGrows, PowerNat
    <2>2. Order - s < Power[Width + 1]
      BY <1>1, <1>2, <2>1
    <2> QED BY <1>1, <1>2, <2>2, OctetsOfIs, PowerNat DEF HexLength
  <1> HIDE DEF n
  <1>4. n <= Width
    BY <1>1, <1>2, <1>3
  <1>5. n < Width <=> Order - s < Power[Width - 1]
    <2>1. CASE n < Width
      <3>1. Power[n] <= Power[Width - 1]
        BY <1>1, <1>3, <2>1, PowerGrows
      <3> QED BY <1>1, <1>2, <1>3, <2>1, <3>1
    <2>2. CASE n = Width /\ Width > 1
      <3>1. Power[Width - 1] <= Order - s
        BY <1>1, <1>3, <2>2
      <3> QED BY <1>1, <1>2, <2>2, <3>1
    <2>3. CASE n = Width /\ Width = 1
      <3>1. Power[Width - 1] = 1
        BY <2>3, PowerIs
      <3> QED BY <1>2, <2>3, <3>1
    <2> QED BY <1>1, <1>3, <1>4, <2>1, <2>2, <2>3
  <1>6. Convert(r, s).r.len = Width /\ Convert(r, s).s.len = ConvertedS(s).len
    BY ConvertedRIs DEF Convert
  <1>7. ConvertedS(s).len \in Nat
        /\ (FullWidth(Convert(r, s)) <=> ConvertedS(s).len = Width)
    <2>1. ConvertedS(s).len \in Nat
      BY <1>1, ConvertedSIs DEF Octets
    <2> QED BY <1>1, <1>6, <2>1 DEF FullWidth
  <1>8. CASE 2 * s < Power[Width]
    BY <1>1, <1>2, <1>7, <1>8, ConvertedSLength
  <1>9. CASE Power[Width] <= 2 * s
    BY <1>1, <1>2, <1>3, <1>4, <1>5, <1>7, <1>9, ConvertedSLength DEF n
  <1> QED BY <1>1, <1>2, <1>8, <1>9

-----------------------------------------------------------------------------
(* What of the invariant says nothing of the octets of a signature. *)
TypesOK ==
    /\ service \in {"aws", "test"}
    /\ pc \in [Calls -> {"idle", "answered", "failed"} \cup Awaits]
    /\ kid \in [Calls -> Calls]
    /\ signedBy \in [Calls -> Calls \cup {NoOne}]
    /\ awsKeys \subseteq Calls /\ told \subseteq Calls

CoreInv ==
    /\ TypesOK
    /\ \A q \in Calls : AwaitOK(q)
    /\ \A q \in keys : q \in Calls /\ IsKey(q)
    /\ told \subseteq NamedKeys
    /\ SignedByNamedKey
    /\ OrphanOnlyAfterFailure

LEMMA KeysInvCore == KeysInv => CoreInv
  BY KeyServicesAssumption DEF KeysInv, CoreInv, TypeOK, TypesOK

(* Every step of a call, and a restart, keeps it. *)
LEMMA NextCoreInv == ASSUME CoreInv, [Next]_vars PROVE CoreInv'
  <1> USE DEF CoreInv, TypesOK, AwaitOK, Awaits, SignedByNamedKey, IsSignature, IsKey, NamedKeys,
              OrphanOnlyAfterFailure, At, Goto, keyVars, signVars
  <1>0. \A q \in Calls : q # NoOne
    BY KeyServicesAssumption
  <1>1. ASSUME NEW q \in Calls, Entrypoint(q) PROVE CoreInv'
    <2>1. TypesOK'
      BY <1>1, <1>0 DEF Entrypoint
    <2>2. \A p \in Calls : AwaitOK(p)'
      <3>1. PICK k \in told \cup {q} :
               /\ kid' = [kid EXCEPT ![q] = k]
               /\ Goto(q, IF service = "test" THEN "test"
                          ELSE IF k = q THEN "create_key" ELSE "describe_key")
        BY <1>1 DEF Entrypoint
      <3>2. /\ pc'[q] \in {"test", "create_key", "describe_key"}
            /\ pc'[q] = "test" <=> service = "test"
            /\ pc'[q] = "create_key" => k = q
            /\ pc'[q] = "describe_key" => k # q
            /\ kid'[q] = k
        BY <3>1
      <3>3. \A p \in Calls \ {q} : pc'[p] = pc[p] /\ kid'[p] = kid[p]
        BY <3>1
      <3>4. service' = service /\ alias' = alias /\ signedBy' = signedBy
        BY <1>1 DEF Entrypoint
      <3> QED BY <3>2, <3>3, <3>4
    <2>3. /\ \A p \in keys' : p \in Calls /\ IsKey(p)'
          /\ told' \subseteq NamedKeys'
      BY <1>1, <1>0 DEF Entrypoint
    <2>4. SignedByNamedKey'
      BY <1>1, <1>0 DEF Entrypoint
    <2>5. OrphanOnlyAfterFailure'
      BY <1>1, <1>0 DEF Entrypoint
    <2> QED BY <2>1, <2>2, <2>3, <2>4, <2>5
  <1>2. ASSUME NEW q \in Calls, AwsFails(q) PROVE CoreInv'
    BY <1>2 DEF AwsFails
  <1>3. ASSUME NEW q \in Calls, CreateKey(q) PROVE CoreInv'
    BY <1>3 DEF CreateKey
  <1>4. ASSUME NEW q \in Calls, GetPublicKey(q) PROVE CoreInv'
    BY <1>4 DEF GetPublicKey
  <1>5. ASSUME NEW q \in Calls, CreateAlias(q) PROVE CoreInv'
    BY <1>5 DEF CreateAlias
  <1>6. ASSUME NEW q \in Calls, DescribeKey(q) PROVE CoreInv'
    <2>1. TypesOK'
      BY <1>6 DEF DescribeKey
    <2>2. \A p \in Calls : AwaitOK(p)'
      BY <1>6 DEF DescribeKey
    <2>3. /\ \A p \in keys' : p \in Calls /\ IsKey(p)'
          /\ told' \subseteq NamedKeys'
      BY <1>6 DEF DescribeKey
    <2>4. SignedByNamedKey'
      BY <1>6 DEF DescribeKey
    <2>5. OrphanOnlyAfterFailure'
      BY <1>6 DEF DescribeKey
    <2> QED BY <2>1, <2>2, <2>3, <2>4, <2>5
  <1>7. ASSUME NEW q \in Calls, Sign(q) PROVE CoreInv'
    <2>1. TypesOK'
      BY <1>7 DEF Sign
    <2>2. \A p \in Calls : AwaitOK(p)'
      BY <1>7 DEF Sign
    <2>3. /\ \A p \in keys' : p \in Calls /\ IsKey(p)'
          /\ told' \subseteq NamedKeys'
      BY <1>7 DEF Sign
    <2>4. SignedByNamedKey'
      BY <1>7 DEF Sign
    <2>5. OrphanOnlyAfterFailure'
      BY <1>7 DEF Sign
    <2> QED BY <2>1, <2>2, <2>3, <2>4, <2>5
  <1>8. ASSUME NEW q \in Calls, TestGenerate(q) PROVE CoreInv'
    BY <1>8 DEF TestGenerate
  <1>9. ASSUME NEW q \in Calls, TestSign(q) PROVE CoreInv'
    <2>1. TypesOK'
      BY <1>9 DEF TestSign
    <2>2. \A p \in Calls : AwaitOK(p)'
      BY <1>9 DEF TestSign
    <2>3. /\ \A p \in keys' : p \in Calls /\ IsKey(p)'
          /\ told' \subseteq NamedKeys'
      BY <1>9 DEF TestSign
    <2>4. SignedByNamedKey'
      BY <1>9 DEF TestSign
    <2>5. OrphanOnlyAfterFailure'
      BY <1>9 DEF TestSign
    <2> QED BY <2>1, <2>2, <2>3, <2>4, <2>5
  <1>10. CASE Restart
    <2>1. \A q \in Calls : /\ pc'[q] \in {"idle", "answered", "failed"}
                           /\ pc'[q] = pc[q] \/ pc'[q] = "failed"
                           /\ IsKey(q)' = IsKey(q)
                           /\ IsSignature(q)' = IsSignature(q)
      BY <1>10 DEF Restart
    <2>2. pc' \in [Calls -> {"idle", "answered", "failed"} \cup Awaits]
      BY <1>10 DEF Restart
    <2> QED BY <1>10, <2>1, <2>2 DEF Restart
  <1>11. CASE UNCHANGED vars
    BY <1>11 DEF vars, callVars
  <1> QED
    BY <1>1, <1>2, <1>3, <1>4, <1>5, <1>6, <1>7, <1>8, <1>9, <1>10, <1>11 DEF Next

(* A signature the API is given is typed, and comes of an r and s. *)
LEMMA NextKeysInv == ASSUME KeysInv, [Next]_vars PROVE KeysInv'
  <1>1. CoreInv'
    BY KeysInvCore, NextCoreInv
  <1>2. /\ service' \in Services /\ alias' \subseteq Calls /\ keys' \subseteq Calls
    BY DEF KeysInv, TypeOK, Next, Entrypoint, AwsFails, CreateKey, GetPublicKey, CreateAlias,
       DescribeKey, Sign, TestGenerate, TestSign, Restart, vars, callVars, keyVars
  <1>3. CASE \E q \in Calls : Sign(q)
    <2> PICK q \in Calls : Sign(q)
      BY <1>3
    <2>1. CASE nonce' = nonce /\ signature' = signature
      BY <1>1, <1>2, <2>1 DEF KeysInv, CoreInv, TypesOK, TypeOK, SignatureOK
    <2>2. CASE \E n \in Nonces :
                  /\ nonce' = [nonce EXCEPT ![q] = n]
                  /\ signature' = [signature EXCEPT ![q] = Convert(n[1], n[2])]
      <3>1. PICK n \in Nonces :
               /\ nonce' = [nonce EXCEPT ![q] = n]
               /\ signature' = [signature EXCEPT ![q] = Convert(n[1], n[2])]
        BY <2>2
      <3>2. Convert(n[1], n[2]) \in Signatures
        BY KeyServicesAssumption, ConvertIs
      <3> QED BY <1>1, <1>2, <3>1, <3>2 DEF KeysInv, CoreInv, TypesOK, TypeOK, SignatureOK
    <2> QED BY <2>1, <2>2 DEF Sign
  <1>4. CASE nonce' = nonce /\ signature' = signature
    BY <1>1, <1>2, <1>4 DEF KeysInv, CoreInv, TypesOK, TypeOK, SignatureOK
  <1> QED
    BY <1>3, <1>4 DEF Next, Entrypoint, AwsFails, CreateKey, GetPublicKey, CreateAlias,
       DescribeKey, TestGenerate, TestSign, Restart, vars, signVars

(* The invariant holds of every behaviour. *)
THEOREM SpecKeysInv == Spec => []KeysInv
  <1>1. Init => KeysInv
    <2> SUFFICES ASSUME Init PROVE KeysInv
      OBVIOUS
    <2>1. \A q \in Calls : pc[q] = "idle" /\ kid[q] = q /\ signature[q] = NoSignature
      BY DEF Init
    <2>2. NoSignature \in Signatures
      <3>1. 0 \in 0 .. Width + 1 /\ 0 \in 0 .. Order - 1
        <4>1. Width \in Nat \ {0} /\ Order \in Nat
          BY SignatureAssumption
        <4>2. Power[Width] \in Nat \ {0} /\ Power[Width] < 2 * Order
          BY <4>1, PowerNat, SignatureAssumption
        <4> QED BY <4>1, <4>2
      <3> QED BY <3>1 DEF NoSignature, Signatures, Octets, Empty
    <2>3. TypeOK
      BY <2>2 DEF Init, TypeOK
    <2> QED
      BY <2>1, <2>3 DEF Init, KeysInv, AwaitOK, Awaits, SignatureOK, SignedByNamedKey,
         IsSignature, IsKey, NamedKeys, At, OrphanOnlyAfterFailure
  <1> QED BY <1>1, NextKeysInv, PTL DEF Spec

(* Every variable keeps its type: what normalizeS makes of any s, too, is no
   longer than one octet above the width and below the order of the curve. *)
THEOREM SpecTypeOK == Spec => []TypeOK
  <1>1. KeysInv => TypeOK
    BY DEF KeysInv
  <1> QED BY <1>1, SpecKeysInv, PTL

(* A signature of the full width, for octets and curves of any size, is the one
   AWS KMS made, with its s made low: convertSignatureAsn1ToP1363 goes wrong in
   the length of what it gives, if at all, and never in the value. *)
THEOREM SpecFullSignatureIsMade == Spec => []FullSignatureIsMade
  <1>1. ASSUME KeysInv, NEW q \in Calls, FullWidth(signature[q])
        PROVE  /\ signature[q].r.val = nonce[q][1]
               /\ signature[q].s.val \in {nonce[q][2], Order - nonce[q][2]}
               /\ signature[q].r.len = Width
               /\ 2 * signature[q].s.val < Power[Width]
    <2>1. signature[q] # NoSignature
      BY <1>1, SignatureAssumption DEF FullWidth, NoSignature, Empty
    <2>2. nonce[q] \in Nonces /\ signature[q] = Convert(nonce[q][1], nonce[q][2])
      BY <1>1, <2>1 DEF KeysInv, SignatureOK
    <2>3. nonce[q][1] \in Scalars /\ nonce[q][2] \in Scalars
      BY <2>2, KeyServicesAssumption
    <2> QED BY <1>1, <2>2, <2>3, ConvertIs
  <1>2. KeysInv => FullSignatureIsMade
    BY <1>1 DEF FullSignatureIsMade
  <1> QED BY <1>2, SpecKeysInv, PTL

(* A signature that the API gets (KeysService.sign of either service) is by the
   key whose id it gave, for any calls at any time and any restart. *)
THEOREM SpecSignedByNamedKey == Spec => []SignedByNamedKey
  <1>1. KeysInv => SignedByNamedKey
    BY DEF KeysInv
  <1> QED BY <1>1, SpecKeysInv, PTL

(* A key at AWS without an alias (KeysService.createKey) is in the making or left
   by a call that failed. *)
THEOREM SpecOrphanOnlyAfterFailure == Spec => []OrphanOnlyAfterFailure
  <1>1. KeysInv => OrphanOnlyAfterFailure
    BY DEF KeysInv
  <1> QED BY <1>1, SpecKeysInv, PTL

-----------------------------------------------------------------------------
(* Both services implement KeyStore: the step that ends a call answers or fails
   one reply, a restart fails all those in flight, and no other step shows. *)
LEMMA StepIsKeyStore ==
    ASSUME CoreInv, CoreInv', [Next]_vars
    PROVE  [Store!KeyStoreNext]_(Store!keyStoreVars)
  <1> DEFINE Same(q) == ReplyTo(q)' = ReplyTo(q)
             Goal == [Store!KeyStoreNext]_(Store!keyStoreVars)
  <1>a. ASSUME NamedKeys' = NamedKeys, \A q \in Calls : Same(q) PROVE Goal
    BY <1>a DEF Store!keyStoreVars
  <1>b. ASSUME NEW q \in Calls, NamedKeys' = NamedKeys \cup {q},
               ReplyTo(q) = <<"pending">>, ReplyTo(q)' = <<"key", q>>,
               \A p \in Calls \ {q} : Same(p)
        PROVE  Goal
    <2>1. Store!Generate(q)
      BY <1>b DEF Store!Generate, Store!Answer, Store!Pending, Store!KeyReply
    <2> QED BY <2>1 DEF Store!KeyStoreNext
  <1>c. ASSUME NEW q \in Calls, NEW k \in Calls,
               k \in NamedKeys, NamedKeys' = NamedKeys,
               ReplyTo(q) = <<"pending">>, ReplyTo(q)' = <<"signature", k>>,
               \A p \in Calls \ {q} : Same(p)
        PROVE  Goal
    <2>1. Store!SignBy(q, k)
      BY <1>c DEF Store!SignBy, Store!Answer, Store!Pending, Store!SignatureReply
    <2> QED BY <2>1 DEF Store!KeyStoreNext
  <1>d. ASSUME NEW fails \in SUBSET Calls,
               NamedKeys' \in {NamedKeys \cup made : made \in SUBSET fails},
               \A q \in fails : ReplyTo(q) = <<"pending">> /\ ReplyTo(q)' = <<"failed">>,
               \A q \in Calls \ fails : Same(q)
        PROVE  Goal
    <2>1. Store!Fail(fails)
      BY <1>d DEF Store!Fail, Store!Pending, Store!Failed
    <2> QED BY <2>1 DEF Store!KeyStoreNext
  <1>e. ASSUME NEW q \in Calls, NamedKeys' = NamedKeys \/ NamedKeys' = NamedKeys \cup {q},
               ReplyTo(q) = <<"pending">>, ReplyTo(q)' = <<"failed">>,
               \A p \in Calls \ {q} : Same(p)
        PROVE  Goal
    <2>1. PICK made \in SUBSET {q} : NamedKeys' = NamedKeys \cup made
      <3>1. CASE NamedKeys' = NamedKeys
        <4>1. NamedKeys' = NamedKeys \cup {} /\ {} \in SUBSET {q}
          BY <3>1
        <4> QED BY <4>1
      <3>2. CASE NamedKeys' = NamedKeys \cup {q}
        BY <3>2
      <3> QED BY <1>e, <3>1, <3>2
    <2>2. Store!Fail({q})
      BY <1>e, <2>1 DEF Store!Fail, Store!Pending, Store!Failed
    <2> QED BY <2>2 DEF Store!KeyStoreNext
  <1> HIDE DEF Goal
  <1> HIDE DEF Same
  <1> USE DEF CoreInv, TypesOK, AwaitOK, Awaits, IsKey, IsSignature, At, Goto,
              keyVars, signVars
  <1>1. ASSUME NEW q \in Calls, Entrypoint(q) PROVE Goal
    <2>1. NamedKeys' = NamedKeys /\ \A p \in Calls : Same(p)
      <3>1. \A p \in Calls :
               IsKey(p)' = IsKey(p) /\ IsSignature(p)' = IsSignature(p)
                 /\ At(p, "failed")' = At(p, "failed")
        BY <1>1 DEF Entrypoint
      <3>2. service' = service /\ alias' = alias /\ signedBy' = signedBy
        BY <1>1 DEF Entrypoint
      <3> HIDE DEF IsKey, IsSignature, At
      <3> QED BY <3>1, <3>2 DEF Same, NamedKeys, ReplyTo
    <2> QED BY ONLY <2>1, <1>a
  <1>3. ASSUME NEW q \in Calls, CreateKey(q) PROVE Goal
    <2>1. NamedKeys' = NamedKeys /\ \A p \in Calls : Same(p)
      BY <1>3 DEF CreateKey, Same, NamedKeys, ReplyTo
    <2> QED BY ONLY <2>1, <1>a
  <1>4. ASSUME NEW q \in Calls, GetPublicKey(q) PROVE Goal
    <2>1. NamedKeys' = NamedKeys /\ \A p \in Calls : Same(p)
      BY <1>4 DEF GetPublicKey, Same, NamedKeys, ReplyTo
    <2> QED BY ONLY <2>1, <1>a
  <1>2. ASSUME NEW q \in Calls, AwsFails(q) PROVE Goal
    <2>1. /\ ReplyTo(q) = <<"pending">> /\ ReplyTo(q)' = <<"failed">>
          /\ \A p \in Calls \ {q} : Same(p)
      BY <1>2 DEF AwsFails, Same, NamedKeys, ReplyTo
    <2>2. NamedKeys' = NamedKeys \/ NamedKeys' = NamedKeys \cup {q}
      BY <1>2 DEF AwsFails, Same, NamedKeys, ReplyTo
    <2> QED BY <2>1, <2>2, <1>e
  <1>5. ASSUME NEW q \in Calls, CreateAlias(q) PROVE Goal
    <2>1. /\ ReplyTo(q) = <<"pending">> /\ ReplyTo(q)' = <<"key", q>>
          /\ \A p \in Calls \ {q} : Same(p)
      BY <1>5 DEF CreateAlias, Same, NamedKeys, ReplyTo
    <2>2. NamedKeys' = NamedKeys \cup {q}
      BY <1>5 DEF CreateAlias, Same, NamedKeys, ReplyTo
    <2> QED BY <2>1, <2>2, <1>b
  <1>6. ASSUME NEW q \in Calls, DescribeKey(q) PROVE Goal
    <2>1. NamedKeys' = NamedKeys /\ \A p \in Calls \ {q} : Same(p)
      BY <1>6 DEF DescribeKey, Same, NamedKeys, ReplyTo
    <2>2. CASE kid[q] \in alias
      <3>1. Same(q)
        BY <1>6, <2>2 DEF DescribeKey, Same, NamedKeys, ReplyTo
      <3> QED BY <3>1, <2>1, <1>a
    <2>3. CASE kid[q] \notin alias
      <3>1. ReplyTo(q) = <<"pending">> /\ ReplyTo(q)' = <<"failed">>
        BY <1>6, <2>3 DEF DescribeKey, Same, NamedKeys, ReplyTo
      <3> QED BY <3>1, <2>1, <1>e
    <2> QED BY <2>2, <2>3
  <1>7. ASSUME NEW q \in Calls, Sign(q) PROVE Goal
    <2>1. NamedKeys' = NamedKeys /\ \A p \in Calls \ {q} : Same(p)
      BY <1>7 DEF Sign, Same, NamedKeys, ReplyTo
    <2>2. /\ ReplyTo(q) = <<"pending">>
          /\ ReplyTo(q)' \in {<<"failed">>, <<"signature", kid[q]>>}
      BY <1>7 DEF Sign, Same, NamedKeys, ReplyTo
    <2>3. CASE ReplyTo(q)' = <<"failed">>
      BY <2>1, <2>2, <2>3, <1>e
    <2>4. CASE ReplyTo(q)' = <<"signature", kid[q]>>
      <3>1. kid[q] \in Calls /\ kid[q] \in NamedKeys
        BY <1>7 DEF Sign, Same, NamedKeys, ReplyTo
      <3> QED BY <2>1, <2>2, <2>4, <3>1, <1>c
    <2> QED BY <2>2, <2>3, <2>4
  <1>8. ASSUME NEW q \in Calls, TestGenerate(q) PROVE Goal
    <2>1. /\ ReplyTo(q) = <<"pending">> /\ ReplyTo(q)' = <<"key", q>>
          /\ \A p \in Calls \ {q} : Same(p)
      BY <1>8 DEF TestGenerate, Same, NamedKeys, ReplyTo
    <2>2. NamedKeys' = NamedKeys \cup {q}
      BY <1>8 DEF TestGenerate, Same, NamedKeys, ReplyTo
    <2> QED BY <2>1, <2>2, <1>b
  <1>9. ASSUME NEW q \in Calls, TestSign(q) PROVE Goal
    <2>1. NamedKeys' = NamedKeys /\ \A p \in Calls \ {q} : Same(p)
      <3>1. \A p \in Calls \ {q} :
               IsKey(p)' = IsKey(p) /\ IsSignature(p)' = IsSignature(p)
                 /\ At(p, "failed")' = At(p, "failed")
        BY <1>9 DEF TestSign
      <3>2. IsKey(q)' = IsKey(q) /\ service' = service /\ alias' = alias
        BY <1>9 DEF TestSign
      <3> QED BY <1>9, <3>1, <3>2 DEF TestSign, Same, NamedKeys, ReplyTo
    <2>2. CASE kid[q] \in keys
      <3>1. /\ kid[q] \in Calls /\ kid[q] \in NamedKeys
            /\ ReplyTo(q) = <<"pending">>
            /\ ReplyTo(q)' = <<"signature", kid[q]>>
        BY <1>9, <2>2 DEF TestSign, Same, NamedKeys, ReplyTo
      <3> QED BY <2>1, <3>1, <1>c
    <2>3. CASE kid[q] \notin keys
      <3>1. ReplyTo(q) = <<"pending">> /\ ReplyTo(q)' = <<"failed">>
        BY <1>9, <2>3 DEF TestSign, Same, NamedKeys, ReplyTo
      <3> QED BY <3>1, <2>1, <1>e
    <2> QED BY <2>2, <2>3
  <1>10. ASSUME Restart PROVE Goal
    <2> DEFINE fails == {q \in Calls : pc[q] \in Awaits}
    <2>1. \A q \in fails : ReplyTo(q) = <<"pending">> /\ ReplyTo(q)' = <<"failed">>
      BY <1>10 DEF Restart, Same, NamedKeys, ReplyTo
    <2>2. \A q \in Calls \ fails : Same(q)
      BY <1>10 DEF Restart, Same, NamedKeys, ReplyTo
    <2>3. NamedKeys' = NamedKeys
      BY <1>10 DEF Restart, NamedKeys
    <2>4. NamedKeys' = NamedKeys \cup {} /\ {} \in SUBSET fails /\ fails \in SUBSET Calls
      BY <2>3
    <2> HIDE DEF fails
    <2>5. NamedKeys' \in {NamedKeys \cup made : made \in SUBSET fails}
      BY <2>4
    <2> QED BY ONLY <2>1, <2>2, <2>4, <2>5, <1>d
  <1>11. ASSUME UNCHANGED vars PROVE Goal
    <2>1. NamedKeys' = NamedKeys /\ \A q \in Calls : Same(q)
      BY <1>11 DEF vars, callVars, Same, NamedKeys, ReplyTo
    <2> QED BY ONLY <2>1, <1>a
  <1> QED
    BY <1>1, <1>2, <1>3, <1>4, <1>5, <1>6, <1>7, <1>8, <1>9, <1>10, <1>11
    DEF Next, Goal

(* KeyStore's promise holds of both services (src-kms and src-kms-test) behind
   AppController.entrypoint: every step of theirs is one of KeyStore's or none. *)
THEOREM SpecIsKeyStore == Spec => IsKeyStore
  <1>1. Init => Store!KeyStoreInit
    <2> SUFFICES ASSUME Init PROVE Store!KeyStoreInit
      OBVIOUS
    <2>1. NamedKeys = {} /\ \A q \in Calls : ReplyTo(q) = <<"pending">>
      BY DEF Init, NamedKeys, ReplyTo, IsKey, IsSignature, At
    <2> QED BY <2>1 DEF Store!KeyStoreInit, Store!Pending
  <1>2. Spec => []CoreInv
    BY KeysInvCore, SpecKeysInv, PTL
  <1>3. CoreInv /\ CoreInv' /\ [Next]_vars
           => [Store!KeyStoreNext]_(Store!keyStoreVars)
    BY StepIsKeyStore
  <1> QED BY <1>1, <1>2, <1>3, PTL DEF Spec, IsKeyStore, Store!KeyStoreSpec
=============================================================================
