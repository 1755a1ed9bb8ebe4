----------------------------- MODULE InstallOffer -----------------------------
(***************************************************************************)
(* AppService.install (src/app/app.service.ts) and InstallService          *)
(* (src/lib/services/install.service.ts): check that the offer is new, get *)
(* the sponsor's key, fund it, install the token, look its contract up by  *)
(* name, save the offer and link it to the sponsor.                        *)
(***************************************************************************)
EXTENDS Deploying

CheckOfferId(r) ==
    /\ At(r, "check_id")
    /\ IF req[r].offer \in Saved THEN Answer(r, 422) ELSE Goto(r, "check_name")
    /\ UNCHANGED <<up, minted, bg, localVars, chainVars, dbVars>>

CheckNameOrSymbol(r) ==
    /\ At(r, "check_name")
    /\ IF NameOrSymbolTaken(req[r].name, req[r].symbol)
       THEN Answer(r, 422) ELSE Goto(r, "get_record")
    /\ UNCHANGED <<up, minted, bg, localVars, chainVars, dbVars>>

(* install waits for its deploy to be processed and reads no more of the
   event than that. *)
InstallProcessed(r) ==
    /\ At(r, "wait")
    /\ req[r].op = "install"
    /\ Processed(<<r, "main">>)
    /\ Goto(r, "get_hash")
    /\ UNCHANGED <<up, minted, bg, localVars, chainVars, dbVars>>

(* Faulty variant: no check that the named key was found. *)
GetContractHashUnchecked(r) ==
    /\ At(r, "get_hash")
    /\ contract' = [contract EXCEPT ![r] = named[key[r]["sponsor"]][req[r].name]]
    /\ Goto(r, "insert_offer")
    /\ UNCHANGED <<up, req, key, minted, list, seen, bg, chainVars, dbVars>>

(* Faulty variant: any named key of the account will do. *)
GetContractHashOfAnyName(r) ==
    /\ At(r, "get_hash")
    /\ \E l \in Labels :
          /\ named[key[r]["sponsor"]][l] # None
          /\ contract' = [contract EXCEPT ![r] = named[key[r]["sponsor"]][l]]
    /\ Goto(r, "insert_offer")
    /\ UNCHANGED <<up, req, key, minted, list, seen, bg, chainVars, dbVars>>

(* The contract is whatever the account's named keys hold under the name. *)
GetContractHash(r) ==
    LET hash == named[key[r]["sponsor"]][req[r].name] IN
    /\ At(r, "get_hash")
    /\ \/ /\ hash # None
          /\ contract' = [contract EXCEPT ![r] = hash]
          /\ Goto(r, "insert_offer")
       \/ /\ hash = None \/ "rpc" \in Faults
          /\ UNCHANGED contract
          /\ Throw(r, 500)
    /\ UNCHANGED <<up, req, key, minted, list, seen, bg, chainVars, dbVars>>

NewOffer(r) == [name |-> req[r].name, symbol |-> req[r].symbol,
                contract |-> contract[r]]

(* Faulty variant: a constraint met at the insertion is answered like a
   duplicate found by the checks. *)
SaveOfferAnswers422(r) ==
    /\ At(r, "insert_offer")
    /\ IF CanInsertOffer(req[r].offer, NewOffer(r))
       THEN InsertOffer(req[r].offer, NewOffer(r)) /\ Goto(r, "load_entity")
       ELSE Answer(r, 422) /\ UNCHANGED dbVars
    /\ UNCHANGED <<up, minted, bg, localVars, chainVars>>

(* offerRepository.save(offer): an insertion, for the offer has no id yet. *)
SaveOffer(r) ==
    /\ At(r, "insert_offer")
    /\ IF CanInsertOffer(req[r].offer, NewOffer(r))
       THEN InsertOffer(req[r].offer, NewOffer(r)) /\ Goto(r, "load_entity")
       ELSE Throw(r, 500) /\ UNCHANGED dbVars
    /\ UNCHANGED <<up, minted, bg, localVars, chainVars>>

-----------------------------------------------------------------------------
(* updateSponsor, the save of the sponsor that nobody awaits.  It runs beside
   the awaited save of the same entity and may outlive the request. *)

BackgroundDiff(r) ==
    /\ up
    /\ bg[r] = "diff"
    /\ SaveDiff(r, "bg")
    /\ bg' = [bg EXCEPT ![r] = "write"]
    /\ UNCHANGED <<up, pc, req, key, minted, contract, list, reply,
                   chainVars, dbVars>>

(* When it rejects, nothing handles the rejection and Node exits. *)
BackgroundWrite(r) ==
    /\ up
    /\ bg[r] = "write"
    /\ \/ /\ CanSaveWrite(r, "bg")
          /\ SaveWrite(r, "bg")
          /\ bg' = [bg EXCEPT ![r] = "done"]
          /\ UNCHANGED <<up, pc, reply, minted, localVars>>
       \/ /\ ~CanSaveWrite(r, "bg")
          /\ Exit
          /\ UNCHANGED dbVars
    /\ UNCHANGED chainVars

InstallStep(r) ==
    \/ CheckOfferId(r) \/ CheckNameOrSymbol(r) \/ InstallProcessed(r)
    \/ GetContractHash(r) \/ SaveOffer(r)
    \/ BackgroundDiff(r) \/ BackgroundWrite(r)
=============================================================================
