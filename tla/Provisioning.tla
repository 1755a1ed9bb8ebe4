---------------------------- MODULE Provisioning ----------------------------
(***************************************************************************)
(* Getting hold of a party's key pair and of the motes its account needs:  *)
(* PublicKeyService (src/lib/services/public-key.service.ts), FundService  *)
(* (fund.service.ts) and KeysService.generateKeypair (keys.service.ts).    *)
(***************************************************************************)
EXTENDS ApiProcess

(* The role a request may create a party in; a redeem and a balance only
   look parties up. *)
NewPartyRole(r) == IF req[r].op = "install" THEN "sponsor" ELSE "investor"
NewParty(r) == PartyOf(r, NewPartyRole(r))

(* Where a request goes once it has all its keys. *)
AfterKeys(r) == IF req[r].op = "install" THEN "fund_put" ELSE "cspr_balance"

(* getOrCreatePublicKey reads the party's row. *)
GetRecord(r) ==
    LET role == NewPartyRole(r)
        found == record[role][NewParty(r)]
    IN
    /\ At(r, "get_record")
    /\ key' = [key EXCEPT ![r][role] = found]
    /\ Goto(r, IF found = None THEN "generate" ELSE AfterKeys(r))
    /\ UNCHANGED <<up, req, minted, contract, list, seen, bg, chainVars, dbVars>>

(* createAndFundPublicKey: a key pair from the KMS.  A call that fails may
   have generated one all the same. *)
GenerateKeypair(r) ==
    /\ At(r, "generate")
    /\ minted' = minted \cup {r}
    /\ key' = [key EXCEPT ![r][NewPartyRole(r)] = r]
    /\ Goto(r, "create_put")
    /\ UNCHANGED <<up, req, contract, list, seen, bg, chainVars, dbVars>>

GenerateKeypairFails(r) ==
    /\ "kms" \in Faults
    /\ At(r, "generate")
    /\ minted' \in {minted, minted \cup {r}}
    /\ Throw(r, 500)
    /\ UNCHANGED <<up, req, key, contract, list, seen, bg, chainVars, dbVars>>

(* The row of the new party, written once its account is funded; another
   request may have written one meanwhile. *)
SaveRecord(r) ==
    LET role == NewPartyRole(r)
        p == NewParty(r)
    IN
    /\ At(r, "save_record")
    /\ IF CanInsertParty(role, p, key[r][role])
       THEN InsertParty(role, p, key[r][role]) /\ Goto(r, AfterKeys(r))
       ELSE Throw(r, 500) /\ UNCHANGED dbVars
    /\ UNCHANGED <<up, minted, bg, localVars, chainVars>>

-----------------------------------------------------------------------------
(* FundService.fund, for the two purposes it serves: "create", the first
   motes of a new key, and "fund", the motes the main deploy needs. *)

FundPayload(r, purpose) ==
    IF purpose = "create"
    THEN NativeTransfer(key[r][NewPartyRole(r)], AccountCreation)
    ELSE IF req[r].op = "install"
         THEN NativeTransfer(key[r]["sponsor"], InstallPayment)
         ELSE NativeTransfer(Sender(r), AccountCreation)

PutAwait == [create |-> "create_put", fund |-> "fund_put", main |-> "put"]
WaitAwait == [create |-> "create_wait", fund |-> "fund_wait", main |-> "wait"]
AfterFunding == [create |-> "save_record", fund |-> "sign"]

(* The node takes the deploy.  Under an "rpc" fault its answer is lost. *)
PutDeploy(r, purpose, p) ==
    /\ At(r, PutAwait[purpose])
    /\ Put(<<r, purpose>>, p)
    /\ \/ Goto(r, WaitAwait[purpose])
       \/ "rpc" \in Faults /\ Throw(r, 500)
    /\ UNCHANGED <<up, minted, bg, localVars, dbVars>>

(* The node does not take it, or is out of reach. *)
PutRefused(r, purpose, p) ==
    /\ At(r, PutAwait[purpose])
    /\ ~Accepts(p) \/ "rpc" \in Faults
    /\ Throw(r, 500)
    /\ UNCHANGED <<up, minted, bg, localVars, chainVars, dbVars>>

FundPut(r, purpose) ==
    \/ PutDeploy(r, purpose, FundPayload(r, purpose))
    \/ PutRefused(r, purpose, FundPayload(r, purpose))

(* fund reads the event for an error of the wait itself, not for the
   execution result: a transfer that failed counts as one that funded. *)
FundWait(r, purpose) ==
    /\ At(r, WaitAwait[purpose])
    /\ Processed(<<r, purpose>>)
    /\ Goto(r, AfterFunding[purpose])
    /\ UNCHANGED <<up, minted, bg, localVars, chainVars, dbVars>>

(* Faulty variant: the error is swallowed, and the missing key pair answered
   like that of an unknown party. *)
FundTimeoutSwallowed(r, purpose) ==
    /\ "timeout" \in Faults
    /\ At(r, WaitAwait[purpose])
    /\ Throw(r, 428)
    /\ UNCHANGED <<up, minted, bg, localVars, chainVars, dbVars>>

(* No event within the timeout of waitDeploy, or the event was missed. *)
FundTimeout(r, purpose) ==
    /\ "timeout" \in Faults
    /\ At(r, WaitAwait[purpose])
    /\ Throw(r, 417)
    /\ UNCHANGED <<up, minted, bg, localVars, chainVars, dbVars>>
=============================================================================
