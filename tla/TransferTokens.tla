---------------------------- MODULE TransferTokens ----------------------------
(***************************************************************************)
(* AppService.transfer (src/app/app.service.ts), which serves invest (the  *)
(* sponsor's tokens to the investor, whose key it may create) and redeem   *)
(* (the way back).                                                         *)
(***************************************************************************)
EXTENDS Deploying

GetOffer(r) ==
    /\ At(r, "get_offer")
    /\ IF req[r].offer \in Saved
       THEN /\ contract' = [contract EXCEPT ![r] = offers[req[r].offer].contract]
            /\ Goto(r, "get_sponsor")
       ELSE Throw(r, 422) /\ UNCHANGED contract
    /\ UNCHANGED <<up, req, key, minted, list, seen, bg, chainVars, dbVars>>

(* getSponsorPublicKey and getInvestorPublicKey: the party must have a row. *)
GetPublicKey(r, role, next) ==
    LET found == record[role][PartyOf(r, role)] IN
    /\ key' = [key EXCEPT ![r][role] = found]
    /\ IF found = None THEN Throw(r, 428) ELSE Goto(r, next)
    /\ UNCHANGED <<up, req, minted, contract, list, seen, bg, chainVars, dbVars>>

GetSponsor(r) ==
    /\ At(r, "get_sponsor")
    /\ GetPublicKey(r, "sponsor", IF req[r].op = "redeem" THEN "get_investor"
                                                          ELSE "get_record")

GetInvestor(r) ==
    /\ At(r, "get_investor")
    /\ GetPublicKey(r, "investor", "cspr_balance")

(* The balance is read before it is topped up: other deploys of the same
   account may spend it in between.  An account the chain does not know has
   no balance to read. *)
CheckCsprBalance(r) ==
    /\ At(r, "cspr_balance")
    /\ \/ /\ HasAccount(Sender(r))
          /\ Goto(r, IF motes[Sender(r)] < AccountCreation THEN "fund_put"
                                                           ELSE "sign")
       \/ /\ ~HasAccount(Sender(r)) \/ "rpc" \in Faults
          /\ Throw(r, 500)
    /\ UNCHANGED <<up, minted, bg, localVars, chainVars, dbVars>>

(* Faulty variant: the execution result is not looked at. *)
TransferResultIgnored(r) ==
    /\ At(r, "wait")
    /\ req[r].op \in {"invest", "redeem"}
    /\ Processed(<<r, "main">>)
    /\ IF req[r].op = "redeem" THEN Answer(r, 201) ELSE Goto(r, "load_entity")
    /\ UNCHANGED <<up, minted, bg, localVars, chainVars, dbVars>>

(* The event tells whether the deploy succeeded, and the answer says so. *)
TransferProcessed(r) ==
    /\ At(r, "wait")
    /\ req[r].op \in {"invest", "redeem"}
    /\ Processed(<<r, "main">>)
    /\ IF status[<<r, "main">>] = "failure" THEN Throw(r, 422)
       ELSE IF req[r].op = "redeem" THEN Answer(r, 201)
       ELSE Goto(r, "load_entity")
    /\ UNCHANGED <<up, minted, bg, localVars, chainVars, dbVars>>

TransferStep(r) ==
    \/ GetOffer(r) \/ GetSponsor(r) \/ GetInvestor(r)
    \/ CheckCsprBalance(r) \/ TransferProcessed(r)
=============================================================================
