----------------------------- MODULE ReadBalance -----------------------------
(***************************************************************************)
(* AppService.get_balance (src/app/app.service.ts): the token balance of   *)
(* an investor or of a sponsor, or of the sponsor of the offer when        *)
(* neither is given.                                                       *)
(***************************************************************************)
EXTENDS ApiProcess

GetOfferContractHash(r) ==
    /\ At(r, "balance_hash")
    /\ IF req[r].offer \in Saved
       THEN /\ contract' = [contract EXCEPT ![r] = offers[req[r].offer].contract]
            /\ Goto(r, IF req[r].investor = None /\ req[r].sponsor = None
                       THEN "balance_sponsors" ELSE "balance_record")
       ELSE Throw(r, 428) /\ UNCHANGED contract
    /\ UNCHANGED <<up, req, key, minted, list, seen, bg, chainVars, dbVars>>

(* Faulty variant: a sponsor of any offer. *)
GetAnySponsor(r) ==
    /\ At(r, "balance_sponsors")
    /\ \E p \in Parties :
          /\ \E o \in OfferIds : <<p, o>> \in links["sponsor"]
          /\ req' = [req EXCEPT ![r].sponsor = p]
    /\ Goto(r, "balance_record")
    /\ UNCHANGED <<up, key, minted, contract, list, seen, bg, chainVars, dbVars>>

(* offer.sponsors[0].id_sponsor: the first sponsor the query returns, and a
   TypeError when it returns none. *)
GetOfferSponsor(r) ==
    LET sponsors == {p \in Parties : <<p, req[r].offer>> \in links["sponsor"]} IN
    /\ At(r, "balance_sponsors")
    /\ \/ \E p \in sponsors :
             /\ req' = [req EXCEPT ![r].sponsor = p]
             /\ Goto(r, "balance_record")
       \/ sponsors = {} /\ Throw(r, 500) /\ UNCHANGED req
    /\ UNCHANGED <<up, key, minted, contract, list, seen, bg, chainVars, dbVars>>

GetBalanceRecord(r) ==
    LET role == IF req[r].investor # None THEN "investor" ELSE "sponsor"
        found == record[role][PartyOf(r, role)]
    IN
    /\ At(r, "balance_record")
    /\ key' = [key EXCEPT ![r][role] = found]
    /\ IF found = None THEN Throw(r, 428) ELSE Goto(r, "balance_query")
    /\ UNCHANGED <<up, req, minted, contract, list, seen, bg, chainVars, dbVars>>

(* BalanceService.getBalance: the query fails on an account the contract has
   no entry for, which no account that holds tokens is. *)
QueryBalance(r) ==
    LET k == IF req[r].investor # None THEN key[r]["investor"]
                                       ELSE key[r]["sponsor"]
    IN
    /\ At(r, "balance_query")
    /\ \/ Answer(r, 200)
       \/ (tokens[contract[r]][k] = 0 \/ "rpc" \in Faults) /\ Throw(r, 500)
    /\ UNCHANGED <<up, minted, bg, localVars, chainVars, dbVars>>

BalanceStep(r) ==
    \/ GetOfferContractHash(r) \/ GetOfferSponsor(r)
    \/ GetBalanceRecord(r) \/ QueryBalance(r)
=============================================================================
