------------------------------ MODULE Deploying ------------------------------
(***************************************************************************)
(* The deploy a request is about: MakeDeployService                        *)
(* (src/lib/services/make_deploy.service.ts) and KeysService.sign          *)
(* (keys.service.ts).  InstallService.install and MakeDeployService        *)
(* .transfer both build it, have the KMS sign it, put it and wait.         *)
(***************************************************************************)
EXTENDS Provisioning

MainPayload(r) ==
    IF req[r].op = "install"
    THEN InstallToken(key[r]["sponsor"], req[r].name, req[r].amount)
    ELSE TransferToken(contract[r], Sender(r), Recipient(r), req[r].amount)

SignDeploy(r) ==
    /\ At(r, "sign")
    /\ \/ Goto(r, "put")
       \/ "kms" \in Faults /\ Throw(r, 500)
    /\ UNCHANGED <<up, minted, bg, localVars, chainVars, dbVars>>

MainPut(r) ==
    \/ PutDeploy(r, "main", MainPayload(r))
    \/ PutRefused(r, "main", MainPayload(r))

(* Faulty variant: no event is taken for a deploy that failed. *)
TimeoutTakenForFailure(r) ==
    /\ "timeout" \in Faults
    /\ At(r, "wait")
    /\ Throw(r, 422)
    /\ UNCHANGED <<up, minted, bg, localVars, chainVars, dbVars>>

(* Faulty variant: waitDeploy called with no timeout. *)
NeverTimesOut(r) == pc[r] = "wait" /\ FALSE

(* waitDeploy reads the body of an event that never came: a TypeError. *)
MainTimeout(r) ==
    /\ "timeout" \in Faults
    /\ At(r, "wait")
    /\ Throw(r, 500)
    /\ UNCHANGED <<up, minted, bg, localVars, chainVars, dbVars>>

-----------------------------------------------------------------------------
(* save() of the party a finished deploy adds an offer to, as the tasks "fg"
   (awaited) and "bg" (not awaited) of a request: the read of the links ... *)

SaveDiff(r, task) ==
    seen' = [seen EXCEPT ![r][task] =
                LinkedOffers(NewPartyRole(r), NewParty(r))]

CanSaveWrite(r, task) ==
    CanSaveList(NewPartyRole(r), NewParty(r), seen[r][task], list[r])

(* ... and the write of the difference. *)
SaveWrite(r, task) ==
    SaveList(NewPartyRole(r), NewParty(r), seen[r][task], list[r])

(* Faulty variant: the offers are loaded without their owner. *)
LoadEveryOffer(r) ==
    /\ At(r, "load_entity")
    /\ list' = [list EXCEPT ![r] = Saved \cup {req[r].offer}]
    /\ Goto(r, "diff")
    /\ bg' = [bg EXCEPT ![r] = IF req[r].op = "install" THEN "diff" ELSE @]
    /\ UNCHANGED <<up, req, key, minted, contract, seen, chainVars, dbVars>>

(* The entity as loaded, with the offer pushed onto its list. *)
LoadEntity(r) ==
    /\ At(r, "load_entity")
    /\ list' = [list EXCEPT ![r] =
                    LinkedOffers(NewPartyRole(r), NewParty(r))
                       \cup {req[r].offer}]
    /\ Goto(r, "diff")
    /\ bg' = [bg EXCEPT ![r] = IF req[r].op = "install" THEN "diff" ELSE @]
    /\ UNCHANGED <<up, req, key, minted, contract, seen, chainVars, dbVars>>

AwaitedDiff(r) ==
    /\ At(r, "diff")
    /\ SaveDiff(r, "fg")
    /\ Goto(r, "write")
    /\ UNCHANGED <<up, req, key, minted, contract, list, bg, chainVars, dbVars>>

AwaitedWrite(r) ==
    /\ At(r, "write")
    /\ IF CanSaveWrite(r, "fg")
       THEN SaveWrite(r, "fg") /\ Answer(r, 201)
       ELSE Throw(r, 500) /\ UNCHANGED dbVars
    /\ UNCHANGED <<up, minted, bg, localVars, chainVars>>
=============================================================================
