------------------------------ MODULE Equitybrix ------------------------------
(***************************************************************************)
(* The whole system: the API process with its requests, the database, the  *)
(* key service and the chain, and what must hold of them together.         *)
(***************************************************************************)
EXTENDS InstallOffer, TransferTokens, ReadBalance

Init == ChainInit /\ DatabaseInit /\ ApiInit

ProvisionStep(r) ==
    \/ GetRecord(r) \/ GenerateKeypair(r) \/ GenerateKeypairFails(r)
    \/ SaveRecord(r)
    \/ \E purpose \in {"create", "fund"} :
          FundPut(r, purpose) \/ FundWait(r, purpose) \/ FundTimeout(r, purpose)

DeployStep(r) ==
    \/ SignDeploy(r) \/ MainPut(r) \/ MainTimeout(r)
    \/ LoadEntity(r) \/ AwaitedDiff(r) \/ AwaitedWrite(r)

(* What the process does for a request it has been given. *)
Step(r) ==
    ProvisionStep(r) \/ DeployStep(r) \/ InstallStep(r) \/ TransferStep(r)
        \/ BalanceStep(r)

ChainStep ==
    /\ \E d \in Deploys : Execute(d)
    /\ UNCHANGED <<dbVars, apiVars>>

Next ==
    \/ \E r \in Requests : Issue(r) \/ Step(r)
    \/ ChainStep
    \/ Crash
    \/ Restart

Spec == Init /\ [][Next]_vars

(* A handler runs on: every await returns or, where the code waits with a
   timeout, times out.  Nothing is assumed of the chain. *)
FairSpec == Spec /\ \A r \in Requests : WF_vars(Step(r))

(* Every part of the state stays within its type. *)
TypeOK == ChainTypeOK /\ DatabaseTypeOK /\ ApiTypeOK

(* A balance request that names an offer and nobody. *)
AskedByOffer(r) ==
    \A p \in Menu[r] : p.op = "balance" /\ p.investor = None /\ p.sponsor = None

-----------------------------------------------------------------------------
(* Every offer of the table stands for a token that is on the chain: the
   contract of the row was created by an install deploy that succeeded, under
   the name in the row, from the account of a sponsor.  The code looks the
   contract up by name after the deploy and never reads the deploy's result
   (InstallService.install), so this rests on the named keys alone. *)
OfferBacked ==
    \A o \in Saved :
        LET d == <<offers[o].contract, "main">> IN
        /\ status[d] = "success"
        /\ payload[d].type = "install"
        /\ payload[d].label = offers[o].name
        /\ \E p \in Parties : record["sponsor"][p] = payload[d].from

(* What a 201 to install says stays true: the offer has the row the request
   wrote, and its contract belongs to the sponsor the request named. *)
CreatedOfferKept ==
    \A r \in Requests :
        reply[r] = 201 /\ req[r].op = "install" =>
            /\ req[r].offer \in Saved
            /\ offers[req[r].offer] = NewOffer(r)
            /\ payload[<<contract[r], "main">>].from
                    = record["sponsor"][req[r].sponsor]

(* A request turned down by a check of the API (400, 428, or the 422 of a
   duplicate offer) has had no key pair generated and no deploy put: the
   checks come before the first effect (install, transfer, get_balance). *)
NoEffectBeforeRejection ==
    \A r \in Requests :
        \/ reply[r] \in {400, 428}
        \/ reply[r] = 422 /\ req[r].op = "install"
        => /\ r \notin minted
           /\ \A purpose \in Purposes : status[<<r, purpose>>] = "none"

(* No token ends up on a key the database does not know: whoever loses the
   race to create a party (getOrCreatePublicKey) stops before its key is
   used, and a key once saved is never replaced by another. *)
TokensHeldByKnownParty ==
    \A c \in Contracts, k \in Keys :
        tokens[c][k] > 0 =>
            \E role \in Roles, p \in Parties : record[role][p] = k

(* The junction tables tell the truth, though not the whole of it: an offer
   linked to a sponsor was installed from that sponsor's account, and one
   linked to an investor was transferred to it at least once. *)
LinksBacked ==
    \A p \in Parties, o \in OfferIds :
        /\ <<p, o>> \in links["sponsor"] =>
              /\ o \in Saved
              /\ payload[<<offers[o].contract, "main">>].from
                    = record["sponsor"][p]
        /\ <<p, o>> \in links["investor"] =>
              \E r \in Requests :
                  LET d == <<r, "main">> IN
                  /\ req[r] # None
                  /\ req[r].op = "invest"
                  /\ status[d] = "success"
                  /\ payload[d].to = record["investor"][p]
                  /\ payload[d].token = offers[o].contract

(* The sponsor whose balance is read for an offer alone is the one who issued
   the token: the first linked sponsor is as good as any, for an offer is only
   ever linked to its own (get_balance). *)
BalanceOfIssuer ==
    \A r \in Requests :
        AskedByOffer(r) /\ reply[r] = 200 =>
            key[r]["sponsor"] = payload[<<contract[r], "main">>].from

-----------------------------------------------------------------------------
(* An answer to invest or redeem means what Outcome says.  201 maps to "ok",
   the statuses the handler gives before or instead of a transfer to
   "refused", and 417 and 500, which a timeout or a lost answer also gives,
   to "unknown".  Of the other operations nothing is claimed. *)

IsTransfer(r) == req[r] # None /\ req[r].op \in {"invest", "redeem"}

EffectOf(r) == CASE status[<<r, "main">>] = "success" -> "applied"
                 [] status[<<r, "main">>] = "failure" -> "void"
                 [] OTHER -> "none"

AnswerOf(r) == CASE reply[r] = 0 -> "none"
                 [] reply[r] = 201 /\ IsTransfer(r) -> "ok"
                 [] reply[r] \in {400, 422, 428} /\ IsTransfer(r) -> "refused"
                 [] OTHER -> "unknown"

Promised == INSTANCE Outcome WITH
                effect <- [r \in Requests |-> EffectOf(r)],
                answer <- [r \in Requests |-> AnswerOf(r)]

(* The API refines the outcomes a caller of transfer may rely on. *)
TransferOutcome == Promised!OutcomeSpec

(* Every request is answered, or lost with the process, whatever the chain
   does: each wait for it ends by a timeout (waitDeploy). *)
EveryRequestSettles ==
    \A r \in Requests : r \in InFlight ~> r \notin InFlight

-----------------------------------------------------------------------------
(* What tests and comments of the repository say, and the code does not do.  *)

(* "should return error key when investor can not be funded"
   (public-key.service.spec.ts): no party is saved on a key whose first motes
   did not arrive.  FundService.fund ignores the execution result. *)
SavedPartyFunded ==
    \A role \in Roles, p \in Parties :
        LET k == record[role][p] IN
        k # None => status[<<k, "create">>] = "success"

(* "should error on failing to install contract" (app.service.spec.ts): a 201
   to install means that its own deploy was executed successfully. *)
InstallOkMeansInstalled ==
    \A r \in Requests :
        reply[r] = 201 /\ req[r].op = "install"
            => status[<<r, "main">>] = "success"

(* "should check balance with only offer as parameter nor sponsor"
   (app.e2e-spec.ts): an offer whose install was answered with 201 can be
   asked for by its id alone.  A stale save of the sponsor drops its link. *)
BalanceByOfferAnswered ==
    [][\A r, i \in Requests :
          /\ AskedByOffer(r)
          /\ pc[r] = "balance_sponsors"
          /\ reply[i] = 201
          /\ req[i].op = "install"
          /\ req[i].offer = req[r].offer
          => reply'[r] # 500]_vars
=============================================================================
