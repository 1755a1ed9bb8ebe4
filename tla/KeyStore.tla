------------------------------ MODULE KeyStore ------------------------------
(***************************************************************************)
(* What the API may rely on of whatever serves its keys: a key it is told  *)
(* of exists, a signature it gets is by the key it named, and any call may *)
(* fail, a generation that fails leaving a key or none.  Key q is the one  *)
(* generated for call q.                                                   *)
(***************************************************************************)
CONSTANT Calls

VARIABLES store,  \* the keys that were made and can be named
          reply   \* to each call

keyStoreVars == <<store, reply>>

Pending == <<"pending">>
Failed == <<"failed">>
KeyReply(k) == <<"key", k>>
SignatureReply(k) == <<"signature", k>>

KeyStoreInit == store = {} /\ reply = [q \in Calls |-> Pending]

Answer(q, answer) ==
    /\ reply[q] = Pending
    /\ reply' = [reply EXCEPT ![q] = answer]

Generate(q) == store' = store \cup {q} /\ Answer(q, KeyReply(q))
SignBy(q, k) == k \in store /\ Answer(q, SignatureReply(k)) /\ UNCHANGED store

(* One call fails, or all those that a crash meets. *)
Fail(fails) ==
    /\ \A q \in fails : reply[q] = Pending
    /\ reply' = [q \in Calls |-> IF q \in fails THEN Failed ELSE reply[q]]
    /\ store' \in {store \cup made : made \in SUBSET fails}

KeyStoreNext ==
    \/ \E q \in Calls : Generate(q) \/ \E k \in Calls : SignBy(q, k)
    \/ \E fails \in SUBSET Calls : Fail(fails)

KeyStoreSpec == KeyStoreInit /\ [][KeyStoreNext]_keyStoreVars
=============================================================================
