---------------------------- MODULE KeyServices ----------------------------
(***************************************************************************)
(* The two services an API can be given for its keys, behind one entry     *)
(* point: src-kms, over AWS KMS, and src-kms-test, which keeps private     *)
(* keys in memory.  A call with a key id signs, one without generates.  At *)
(* AWS a key is made, read and named in three calls, and signed with in    *)
(* two.                                                                    *)
(***************************************************************************)
EXTENDS Signature

CONSTANTS Calls,     \* calls of the API; key q is the one made for call q
          Nonces,    \* the r and s AWS KMS may come up with
          Services,  \* "aws", "test"
          Faults     \* "aws": any call to AWS fails; "restart" of a service

VARIABLES service,   \* never changes
          pc,        \* the await each call stands at
          kid,       \* the key id of each call; itself when it has none
          awsKeys,   \* keys at AWS
          alias,     \* those with an alias, under their public key
          keys,      \* the test service's array
          told,      \* keys the API was told of
          signedBy,  \* the key a signature was made with
          nonce,     \* its r and s, as AWS KMS made it
          signature  \* what the API got of it

callVars == <<pc, kid>>
keyVars == <<awsKeys, alias, keys>>
signVars == <<signedBy, nonce, signature>>
vars == <<service, callVars, keyVars, told, signVars>>

NoOne == 0
NoNonce == <<0, 0>>
NoSignature == [r |-> Empty, s |-> Empty]

ASSUME KeyServicesAssumption ==
    /\ Calls \subseteq Nat \ {NoOne}
    /\ Nonces \subseteq Scalars \X Scalars
    /\ Services \subseteq {"aws", "test"}

Init ==
    /\ service \in Services
    /\ pc = [q \in Calls |-> "idle"]
    /\ kid = [q \in Calls |-> q]
    /\ awsKeys = {} /\ alias = {} /\ keys = {} /\ told = {}
    /\ signedBy = [q \in Calls |-> NoOne]
    /\ nonce = [q \in Calls |-> NoNonce]
    /\ signature = [q \in Calls |-> NoSignature]

At(q, label) == pc[q] = label
Goto(q, label) == pc' = [pc EXCEPT ![q] = label]

(* entrypoint: the API gives no kid, or one it was told. *)
Entrypoint(q) ==
    /\ At(q, "idle")
    /\ \E k \in told \cup {q} :
          /\ kid' = [kid EXCEPT ![q] = k]
          /\ Goto(q, IF service = "test" THEN "test"
                     ELSE IF k = q THEN "create_key" ELSE "describe_key")
    /\ UNCHANGED <<service, keyVars, told, signVars>>

(* Faulty variant: createAlias is not awaited. *)
AliasNotAwaited(q) ==
    /\ "aws" \in Faults
    /\ At(q, "create_alias")
    /\ told' = told \cup {q}
    /\ Goto(q, "answered")
    /\ UNCHANGED <<service, kid, keyVars, signVars>>

(* A rejected await answers 500; AWS may have done what it was asked. *)
AwsFails(q) ==
    /\ "aws" \in Faults
    /\ pc[q] \in {"create_key", "get_public_key", "create_alias", "describe_key",
                  "sign"}
    /\ Goto(q, "failed")
    /\ \/ UNCHANGED <<awsKeys, alias>>
       \/ At(q, "create_key") /\ awsKeys' = awsKeys \cup {q} /\ UNCHANGED alias
       \/ At(q, "create_alias") /\ alias' = alias \cup {q} /\ UNCHANGED awsKeys
    /\ UNCHANGED <<service, kid, keys, told, signVars>>

CreateKey(q) ==
    /\ At(q, "create_key")
    /\ awsKeys' = awsKeys \cup {q}
    /\ Goto(q, "get_public_key")
    /\ UNCHANGED <<service, kid, alias, keys, told, signVars>>

GetPublicKey(q) ==
    /\ At(q, "get_public_key")
    /\ Goto(q, "create_alias")
    /\ UNCHANGED <<service, kid, keyVars, told, signVars>>

(* The alias is the public key; so is the answer. *)
CreateAlias(q) ==
    /\ At(q, "create_alias")
    /\ alias' = alias \cup {q}
    /\ told' = told \cup {q}
    /\ Goto(q, "answered")
    /\ UNCHANGED <<service, kid, awsKeys, keys, signVars>>

(* Faulty variant: the first alias there is. *)
DescribeAnyKey(q) ==
    /\ At(q, "describe_key")
    /\ alias # {}
    /\ Goto(q, "sign")
    /\ \E k \in alias : signedBy' = [signedBy EXCEPT ![q] = k]
    /\ UNCHANGED <<service, kid, keyVars, told, nonce, signature>>

DescribeKey(q) ==
    /\ At(q, "describe_key")
    /\ IF kid[q] \in alias
       THEN Goto(q, "sign") /\ signedBy' = [signedBy EXCEPT ![q] = kid[q]]
       ELSE Goto(q, "failed") /\ UNCHANGED signedBy
    /\ UNCHANGED <<service, kid, keyVars, told, nonce, signature>>

(* kms.sign, and the conversion of what it returns. *)
Sign(q) ==
    /\ At(q, "sign")
    /\ \E n \in Nonces :
          IF TooShort(n[1], n[2])
          THEN Goto(q, "failed") /\ UNCHANGED <<nonce, signature>>
          ELSE /\ Goto(q, "answered")
               /\ nonce' = [nonce EXCEPT ![q] = n]
               /\ signature' = [signature EXCEPT ![q] = Convert(n[1], n[2])]
    /\ UNCHANGED <<service, kid, keyVars, told, signedBy>>

(* The test service's generateKeypair and sign, which await nothing. *)
TestGenerate(q) ==
    /\ At(q, "test") /\ kid[q] = q
    /\ keys' = keys \cup {q}
    /\ told' = told \cup {q}
    /\ Goto(q, "answered")
    /\ UNCHANGED <<service, kid, awsKeys, alias, signVars>>

(* Faulty variant: a key id without a key signs all the same. *)
TestSignUnchecked(q) ==
    /\ At(q, "test") /\ kid[q] # q
    /\ Goto(q, "answered")
    /\ signedBy' = [signedBy EXCEPT ![q] = IF kid[q] \in keys THEN kid[q] ELSE NoOne]
    /\ UNCHANGED <<service, kid, keyVars, told, nonce, signature>>

TestSign(q) ==
    /\ At(q, "test") /\ kid[q] # q
    /\ IF kid[q] \in keys
       THEN Goto(q, "answered") /\ signedBy' = [signedBy EXCEPT ![q] = kid[q]]
       ELSE Goto(q, "failed") /\ UNCHANGED signedBy
    /\ UNCHANGED <<service, kid, keyVars, told, nonce, signature>>

(* A service dies and starts again: calls in flight fail, memory is empty. *)
Restart ==
    /\ "restart" \in Faults
    /\ keys' = {}
    /\ pc' = [q \in Calls |-> IF pc[q] \in {"idle", "answered", "failed"}
                              THEN pc[q] ELSE "failed"]
    /\ UNCHANGED <<service, kid, awsKeys, alias, told, signVars>>

Next ==
    \/ \E q \in Calls :
          \/ Entrypoint(q) \/ AwsFails(q)
          \/ CreateKey(q) \/ GetPublicKey(q) \/ CreateAlias(q)
          \/ DescribeKey(q) \/ Sign(q)
          \/ TestGenerate(q) \/ TestSign(q)
    \/ Restart

Spec == Init /\ [][Next]_vars

-----------------------------------------------------------------------------

Awaits == {"create_key", "get_public_key", "create_alias", "describe_key",
           "sign", "test"}

(* Every variable keeps its type. *)
TypeOK ==
    /\ service \in Services
    /\ pc \in [Calls -> {"idle", "answered", "failed"} \cup Awaits]
    /\ kid \in [Calls -> Calls]
    /\ awsKeys \subseteq Calls /\ alias \subseteq Calls
    /\ keys \subseteq Calls /\ told \subseteq Calls
    /\ signedBy \in [Calls -> Calls \cup {NoOne}]
    /\ nonce \in [Calls -> Nonces \cup {NoNonce}]
    /\ signature \in [Calls -> Signatures]

IsKey(q) == At(q, "answered") /\ kid[q] = q
IsSignature(q) == At(q, "answered") /\ kid[q] # q

(* What the API sees: the keys it can name, and what it was answered. *)
NamedKeys == IF service = "aws" THEN alias ELSE {q \in Calls : IsKey(q)}
ReplyTo(q) ==
    IF IsKey(q) THEN <<"key", q>>
    ELSE IF IsSignature(q) THEN <<"signature", signedBy[q]>>
    ELSE IF At(q, "failed") THEN <<"failed">> ELSE <<"pending">>

Store == INSTANCE KeyStore WITH
    store <- NamedKeys, reply <- [q \in Calls |-> ReplyTo(q)]

(* Both services keep the promise of KeyStore: a key the API was told of can be
   named, and a signature is by a key that was; the test service, restarted,
   fails rather than sign with another key. *)
IsKeyStore == Store!KeyStoreSpec

(* A signature is by the key the API named. *)
SignedByNamedKey == \A q \in Calls : IsSignature(q) => signedBy[q] = kid[q]

(* A key at AWS that no alias names is in the making, or what a failed call left:
   createKey never answers with one. *)
OrphanOnlyAfterFailure ==
    \A q \in awsKeys \ alias :
        pc[q] \in {"get_public_key", "create_alias", "failed"}

(* What each call knows at its await: of which service it is, what its key id is,
   and, about to sign, that the key is there. *)
AwaitOK(q) ==
    /\ pc[q] \in Awaits =>
          service = IF pc[q] = "test" THEN "test" ELSE "aws"
    /\ pc[q] \in {"idle", "create_key", "get_public_key", "create_alias"} =>
          kid[q] = q
    /\ pc[q] \in {"describe_key", "sign"} => kid[q] # q
    /\ pc[q] = "sign" => signedBy[q] = kid[q] /\ kid[q] \in alias

(* What the API was given, if anything, is what became of an r and s of AWS. *)
SignatureOK(q) ==
    \/ signature[q] = NoSignature
    \/ nonce[q] \in Nonces /\ signature[q] = Convert(nonce[q][1], nonce[q][2])

(* The inductive invariant of the key services: a key id is given only to calls
   that sign, and only keys that were answered are in the test service. *)
KeysInv ==
    /\ TypeOK
    /\ \A q \in Calls : AwaitOK(q) /\ SignatureOK(q)
    /\ \A q \in keys : IsKey(q)
    /\ told \subseteq NamedKeys
    /\ SignedByNamedKey
    /\ OrphanOnlyAfterFailure

(* A signature of the full width is the one AWS KMS made: r is its r, s its s or
   the complement, and s has its top bit clear. *)
FullSignatureIsMade ==
    \A q \in Calls : service = "aws" /\ IsSignature(q) /\ FullWidth(signature[q]) =>
        /\ signature[q].r.val = nonce[q][1]
        /\ signature[q].s.val \in {nonce[q][2], Order - nonce[q][2]}
        /\ signature[q].r.len = Width
        /\ 2 * signature[q].s.val < Power[Width]

(* "Padding with leading zeros if r or s is below 32 bytes"
   (keys.service.ts:152; "should remain padded", keys.service.spec.ts:113): what
   was converted has the full width. *)
ConvertedHasFullWidth ==
    \A q \in Calls :
        service = "aws" /\ IsSignature(q) /\ signature[q] # NoSignature =>
            FullWidth(signature[q])
=============================================================================
