---------------------------- MODULE OutcomeProofs ----------------------------
(***************************************************************************)
(* The API implements Outcome: every step of Equitybrix is a step of what  *)
(* a caller of invest and redeem may rely on, or none.  It rests on both   *)
(* invariants: the first says that a request turned down has put no        *)
(* deploy, the second that one confirmed has seen its own succeed.         *)
(***************************************************************************)
EXTENDS LinksProofs

(* The mapping, read off the status of a deploy and the code of an answer. *)
EffectRead(r) ==
    /\ EffectOf(r) \in {"none", "applied", "void"}
    /\ EffectOf(r) = "applied" <=> status[<<r, "main">>] = "success"
    /\ EffectOf(r) = "void" <=> status[<<r, "main">>] = "failure"

AnswerRead(r) ==
    /\ AnswerOf(r) \in {"none", "ok", "refused", "unknown"}
    /\ AnswerOf(r) = "none" <=> reply[r] = 0
    /\ AnswerOf(r) = "ok" <=> reply[r] = 201 /\ IsTransfer(r)
    /\ AnswerOf(r) = "refused" <=> reply[r] \in {400, 422, 428} /\ IsTransfer(r)

LEMMA MapRead ==
    ASSUME NEW r \in Requests
    PROVE  EffectRead(r) /\ AnswerRead(r) /\ EffectRead(r)' /\ AnswerRead(r)'
  <1>1. EffectRead(r) /\ EffectRead(r)'
    BY DEF EffectRead, EffectOf
  <1>2. AnswerRead(r)
    BY DEF AnswerRead, AnswerOf
  <1>3. AnswerRead(r)'
    BY DEF AnswerRead, AnswerOf
  <1> QED BY <1>1, <1>2, <1>3

-----------------------------------------------------------------------------
(* What a step of request r does that a caller can tell: it may answer, once,
   and put deploys; 201 to a transfer is said of one that succeeded. *)
Moves(r) ==
    /\ \A q \in Requests \ {r} : reply'[q] = reply[q] /\ req'[q] = req[q]
    /\ reply'[r] = reply[r] \/ reply[r] = 0
    /\ \/ req'[r] = req[r]
       \/ reply[r] = 0
    /\ reply'[r] = 201 /\ reply[r] = 0 =>
          req'[r].op = "install" \/ status[<<r, "main">>] = "success"
    /\ \A d \in Deploys :
          status'[d] = status[d] \/ (status[d] = "none" /\ status'[d] = "pending")

LEMMA NotAnswered ==
    ASSUME IInv, NEW r \in Requests, pc[r] # "replied" PROVE reply[r] = 0
  BY DEF IInv, RequestOK, HandlerOK

LEMMA GotoMoves ==
    ASSUME IInv, NEW r \in Requests, reply' = reply, UNCHANGED <<req, status>>
    PROVE  Moves(r)
  BY DEF Moves

LEMMA AnswerMoves ==
    ASSUME IInv, NEW r \in Requests, pc[r] # "replied", NEW code \in Codes,
           Answer(r, code), UNCHANGED <<req, status>>,
           code = 201 => req[r].op = "install" \/ status[<<r, "main">>] = "success"
    PROVE  Moves(r)
  <1>1. reply[r] = 0
    BY NotAnswered
  <1>2. reply'[r] = code /\ \A q \in Requests \ {r} : reply'[q] = reply[q]
    BY DEF Answer, IInv, TypeOK, ApiTypeOK
  <1> QED BY <1>1, <1>2 DEF Moves

LEMMA ThrowMoves ==
    ASSUME IInv, NEW r \in Requests, pc[r] # "replied",
           NEW code \in Codes \ {201}, Throw(r, code), UNCHANGED <<req, status>>
    PROVE  Moves(r)
  <1> DEFINE sent == IF req[r].op = "install" THEN 500 ELSE code
  <1>1. Answer(r, sent) /\ sent \in Codes /\ sent # 201
    BY DEF Throw, Codes
  <1> HIDE DEF sent
  <1> QED BY <1>1, AnswerMoves

(* A request that comes is answered 400 or goes to its first await. *)
LEMMA IssueMoves == ASSUME IInv, NEW r \in Requests, Issue(r) PROVE Moves(r)
  <1>1. /\ pc[r] = "idle" /\ status' = status
        /\ \A q \in Requests \ {r} : req'[q] = req[q]
    BY DEF Issue, At, chainVars, IInv, TypeOK, ApiTypeOK
  <1>2. reply[r] = 0
    BY <1>1, NotAnswered
  <1>3. reply'[r] \in {0, 400} /\ \A q \in Requests \ {r} : reply'[q] = reply[q]
    BY <1>2 DEF Issue, Answer, Goto, IInv, TypeOK, ApiTypeOK
  <1> QED BY <1>1, <1>2, <1>3 DEF Moves

(* The node takes a deploy: it was not there before. *)
LEMMA PutMoves ==
    ASSUME IInv, NEW r \in Requests, NEW purpose \in Purposes, NEW p,
           PutDeploy(r, purpose, p)
    PROVE  Moves(r)
  <1>1. /\ pc[r] # "replied" /\ req' = req
        /\ status[<<r, purpose>>] = "none"
        /\ status' = [status EXCEPT ![<<r, purpose>>] = "pending"]
    BY DEF PutDeploy, Put, At, PutAwait, Purposes, localVars
  <1>2. \A d \in Deploys :
           status'[d] = status[d] \/ (status[d] = "none" /\ status'[d] = "pending")
    BY <1>1 DEF IInv, TypeOK, ChainTypeOK
  <1>3. reply[r] = 0
    BY <1>1, NotAnswered
  <1>4. reply'[r] \in {0, 500} /\ \A q \in Requests \ {r} : reply'[q] = reply[q]
    BY <1>3 DEF PutDeploy, Goto, Throw, Answer, IInv, TypeOK, ApiTypeOK
  <1> QED BY <1>1, <1>2, <1>3, <1>4 DEF Moves

(* The steps that say 201. *)
LEMMA TransferProcessedMoves ==
    ASSUME IInv, NEW r \in Requests, TransferProcessed(r) PROVE Moves(r)
  <1>1. /\ pc[r] # "replied" /\ UNCHANGED <<req, status>>
        /\ status[<<r, "main">>] \in {"success", "failure"}
    BY DEF TransferProcessed, At, Processed, localVars, chainVars
  <1>2. CASE status[<<r, "main">>] = "failure"
    <2> DEFINE code == 422
    <2>1. Throw(r, code) /\ code \in Codes \ {201}
      BY <1>2 DEF TransferProcessed, Codes
    <2> HIDE DEF code
    <2> QED BY <1>1, <2>1, ThrowMoves
  <1>3. CASE status[<<r, "main">>] = "success" /\ req[r].op = "redeem"
    <2> DEFINE code == 201
    <2>1. Answer(r, code) /\ code \in Codes
      BY <1>3 DEF TransferProcessed, Codes
    <2> HIDE DEF code
    <2> QED BY <1>1, <1>3, <2>1, AnswerMoves
  <1>4. CASE status[<<r, "main">>] = "success" /\ req[r].op # "redeem"
    BY <1>1, <1>4, GotoMoves DEF TransferProcessed, Goto
  <1> QED BY <1>1, <1>2, <1>3, <1>4

LEMMA AwaitedWriteMoves ==
    ASSUME IInv, LinksInv, NEW r \in Requests, AwaitedWrite(r) PROVE Moves(r)
  <1>1. pc[r] = "write" /\ UNCHANGED <<req, status>>
    BY DEF AwaitedWrite, At, localVars, chainVars
  <1>2. CASE CanSaveWrite(r, "fg")
    <2>1. req[r] # None /\ req[r].op # "balance" /\ req[r].op \in Ops
      BY <1>1, SavingParty DEF IInv, TypeOK, ApiTypeOK, Params
    <2>2. req[r].op = "install" \/ status[<<r, "main">>] = "success"
      BY <1>1, <2>1 DEF LinksInv, TransferOK, Saving, Ops
    <2> DEFINE code == 201
    <2>3. Answer(r, code) /\ code \in Codes
      BY <1>2 DEF AwaitedWrite, Codes
    <2> HIDE DEF code
    <2> QED BY <1>1, <2>2, <2>3, AnswerMoves
  <1>3. CASE ~CanSaveWrite(r, "fg")
    <2> DEFINE code == 500
    <2>1. Throw(r, code) /\ code \in Codes \ {201}
      BY <1>3 DEF AwaitedWrite, Codes
    <2> HIDE DEF code
    <2> QED BY <1>1, <2>1, ThrowMoves
  <1> QED BY <1>2, <1>3

(* The sponsor that a balance finds is written into its parameters. *)
LEMMA GetOfferSponsorMoves ==
    ASSUME IInv, NEW r \in Requests, GetOfferSponsor(r) PROVE Moves(r)
  <1>1. pc[r] # "replied" /\ status' = status
    BY DEF GetOfferSponsor, At, chainVars
  <1>2. reply[r] = 0
    BY <1>1, NotAnswered
  <1>3. \A q \in Requests \ {r} : req'[q] = req[q] /\ reply'[q] = reply[q]
    BY DEF GetOfferSponsor, Goto, Throw, Answer, IInv, TypeOK, ApiTypeOK
  <1>4. reply'[r] \in {0, 500}
    <2>1. Goto(r, "balance_record") \/ Throw(r, 500)
      BY DEF GetOfferSponsor
    <2> QED BY <1>2, <2>1 DEF Goto, Throw, Answer, IInv, TypeOK, ApiTypeOK
  <1> QED BY <1>1, <1>2, <1>3, <1>4 DEF Moves

(* Every other step moves on or throws, and puts nothing. *)
LEMMA OtherMoves ==
    ASSUME IInv, NEW r \in Requests, UNCHANGED <<req, status>>,
           \/ reply' = reply
           \/ pc[r] # "replied" /\ \E code \in Codes \ {201} :
                 Answer(r, code) \/ Throw(r, code)
    PROVE  Moves(r)
  <1>1. CASE reply' = reply
    BY <1>1, GotoMoves
  <1>2. ASSUME NEW code \in Codes \ {201}, pc[r] # "replied",
               Answer(r, code) \/ Throw(r, code)
        PROVE  Moves(r)
    BY <1>2, AnswerMoves, ThrowMoves
  <1> QED BY <1>1, <1>2

LEMMA ProvisionMoves ==
    ASSUME IInv, NEW r \in Requests, ProvisionStep(r) PROVE Moves(r)
  <1>1. CASE \/ GetRecord(r) \/ GenerateKeypair(r)
             \/ \E purpose \in {"create", "fund"} : FundWait(r, purpose)
    BY <1>1, GotoMoves
    DEF GetRecord, GenerateKeypair, FundWait, Goto, localVars, chainVars
  <1>2. CASE \/ GenerateKeypairFails(r)
             \/ \E purpose \in {"create", "fund"} :
                   \/ FundTimeout(r, purpose)
                   \/ PutRefused(r, purpose, FundPayload(r, purpose))
    <2>1. /\ pc[r] # "replied" /\ UNCHANGED <<req, status>>
          /\ \E code \in {417, 500} : Throw(r, code)
      BY <1>2 DEF GenerateKeypairFails, FundTimeout, PutRefused, At, WaitAwait, PutAwait,
         localVars, chainVars
    <2>2. {417, 500} \subseteq Codes \ {201}
      BY DEF Codes
    <2> QED BY <2>1, <2>2, OtherMoves
  <1>3. CASE SaveRecord(r)
    <2>1. pc[r] # "replied" /\ UNCHANGED <<req, status>>
      BY <1>3 DEF SaveRecord, At, localVars, chainVars
    <2>2. reply' = reply \/ Throw(r, 500)
      BY <1>3 DEF SaveRecord, Goto
    <2> DEFINE code == 500
    <2>3. code \in Codes \ {201} /\ (reply' = reply \/ Throw(r, code))
      BY <2>2 DEF Codes
    <2> HIDE DEF code
    <2> QED BY <2>1, <2>3, OtherMoves
  <1>4. ASSUME NEW purpose \in {"create", "fund"},
               PutDeploy(r, purpose, FundPayload(r, purpose))
        PROVE  Moves(r)
    BY <1>4, PutMoves DEF Purposes
  <1> QED BY <1>1, <1>2, <1>3, <1>4 DEF ProvisionStep, FundPut

LEMMA DeployMoves ==
    ASSUME IInv, LinksInv, NEW r \in Requests, DeployStep(r) PROVE Moves(r)
  <1>1. CASE LoadEntity(r) \/ AwaitedDiff(r)
    BY <1>1, GotoMoves DEF LoadEntity, AwaitedDiff, Goto, chainVars
  <1>2. CASE SignDeploy(r) \/ MainTimeout(r) \/ PutRefused(r, "main", MainPayload(r))
    <2>1. pc[r] # "replied" /\ UNCHANGED <<req, status>>
      BY <1>2 DEF SignDeploy, MainTimeout, PutRefused, At, PutAwait, localVars, chainVars
    <2>2. reply' = reply \/ Throw(r, 500)
      BY <1>2 DEF SignDeploy, MainTimeout, PutRefused, Goto
    <2> DEFINE code == 500
    <2>3. code \in Codes \ {201} /\ (reply' = reply \/ Throw(r, code))
      BY <2>2 DEF Codes
    <2> HIDE DEF code
    <2> QED BY <2>1, <2>3, OtherMoves
  <1>3. CASE PutDeploy(r, "main", MainPayload(r))
    BY <1>3, PutMoves DEF Purposes
  <1> QED BY <1>1, <1>2, <1>3, AwaitedWriteMoves DEF DeployStep, MainPut

LEMMA InstallMoves ==
    ASSUME IInv, NEW r \in Requests, InstallStep(r) PROVE Moves(r)
  <1>1. CASE BackgroundDiff(r) \/ BackgroundWrite(r)
    BY <1>1, GotoMoves DEF BackgroundDiff, BackgroundWrite, Exit, localVars, chainVars
  <1>2. CASE InstallProcessed(r)
    BY <1>2, GotoMoves DEF InstallProcessed, Goto, localVars, chainVars
  <1>3. CASE CheckOfferId(r) \/ CheckNameOrSymbol(r) \/ GetContractHash(r) \/ SaveOffer(r)
    <2>1. pc[r] # "replied" /\ UNCHANGED <<req, status>>
      BY <1>3 DEF CheckOfferId, CheckNameOrSymbol, GetContractHash, SaveOffer, At,
         localVars, chainVars
    <2>2. reply' = reply \/ \E code \in {422, 500} : Answer(r, code) \/ Throw(r, code)
      BY <1>3 DEF CheckOfferId, CheckNameOrSymbol, GetContractHash, SaveOffer, Goto
    <2>3. {422, 500} \subseteq Codes \ {201}
      BY DEF Codes
    <2> QED BY <2>1, <2>2, <2>3, OtherMoves
  <1> QED BY <1>1, <1>2, <1>3 DEF InstallStep

LEMMA TransferMoves ==
    ASSUME IInv, NEW r \in Requests, TransferStep(r) PROVE Moves(r)
  <1>1. CASE GetOffer(r) \/ GetSponsor(r) \/ GetInvestor(r) \/ CheckCsprBalance(r)
    <2>1. pc[r] # "replied" /\ UNCHANGED <<req, status>>
      BY <1>1 DEF GetOffer, GetSponsor, GetInvestor, GetPublicKey, CheckCsprBalance, At,
         localVars, chainVars
    <2>2. reply' = reply \/ \E code \in {422, 428, 500} : Throw(r, code)
      BY <1>1 DEF GetOffer, GetSponsor, GetInvestor, GetPublicKey, CheckCsprBalance, Goto
    <2>3. {422, 428, 500} \subseteq Codes \ {201}
      BY DEF Codes
    <2> QED BY <2>1, <2>2, <2>3, OtherMoves
  <1> QED BY <1>1, TransferProcessedMoves DEF TransferStep

LEMMA BalanceMoves ==
    ASSUME IInv, NEW r \in Requests, BalanceStep(r) PROVE Moves(r)
  <1>1. CASE GetOfferContractHash(r) \/ GetBalanceRecord(r) \/ QueryBalance(r)
    <2>1. pc[r] # "replied" /\ UNCHANGED <<req, status>>
      BY <1>1 DEF GetOfferContractHash, GetBalanceRecord, QueryBalance, At, localVars,
         chainVars
    <2>2. \/ reply' = reply
          \/ \E code \in {200, 428, 500} : Answer(r, code) \/ Throw(r, code)
      BY <1>1 DEF GetOfferContractHash, GetBalanceRecord, QueryBalance, Goto
    <2>3. {200, 428, 500} \subseteq Codes \ {201}
      BY DEF Codes
    <2> QED BY <2>1, <2>2, <2>3, OtherMoves
  <1> QED BY <1>1, GetOfferSponsorMoves DEF BalanceStep

LEMMA StepMoves ==
    ASSUME IInv, LinksInv, NEW r \in Requests, Issue(r) \/ Step(r) PROVE Moves(r)
  BY IssueMoves, ProvisionMoves, DeployMoves, InstallMoves, TransferMoves, BalanceMoves
  DEF Step

-----------------------------------------------------------------------------
(* Each step, as Outcome sees it. *)

(* A step of a request leaves every effect, and is an answer or nothing. *)
LEMMA MoveIsOutcome ==
    ASSUME IInv, LinksInv, IInv', LinksInv', NEW r \in Requests, Moves(r)
    PROVE  [Promised!OutcomeNext]_(Promised!outcomeVars)
  <1>1. ASSUME NEW q \in Requests PROVE EffectOf(q)' = EffectOf(q)
    <2>1. \/ status'[<<q, "main">>] = status[<<q, "main">>]
          \/ status[<<q, "main">>] = "none" /\ status'[<<q, "main">>] = "pending"
      BY DEF Moves, Deploys, Purposes
    <2> QED BY <2>1, MapRead DEF EffectRead
  <1>2. ASSUME NEW q \in Requests, q # r \/ reply'[r] = reply[r]
        PROVE  AnswerOf(q)' = AnswerOf(q)
    <2>1. reply'[q] = reply[q] /\ (req'[q] = req[q] \/ reply[q] = 0)
      BY <1>2 DEF Moves
    <2>2. AnswerRead(q) /\ AnswerRead(q)'
      BY MapRead
    <2> QED BY <2>1, <2>2 DEF AnswerOf, IsTransfer, AnswerRead
  <1>3. CASE reply'[r] = reply[r]
    BY <1>1, <1>2, <1>3 DEF Promised!outcomeVars
  <1>4. CASE reply'[r] # reply[r]
    <2>1. AnswerOf(r) = "none" /\ AnswerOf(r)' \in {"ok", "refused", "unknown"}
      BY <1>4, MapRead DEF Moves, AnswerRead
    <2>2. Promised!Say(r, AnswerOf(r)')
      BY <1>1, <1>2, <2>1 DEF Promised!Say
    <2>3. AnswerOf(r)' = "ok" => EffectOf(r) = "applied"
      BY <1>4, MapRead DEF Moves, AnswerRead, EffectRead, IsTransfer
    <2>4. AnswerOf(r)' = "refused" => EffectOf(r) # "applied"
      <3> SUFFICES ASSUME AnswerOf(r)' = "refused" PROVE EffectOf(r)' # "applied"
        BY <1>1
      <3>1. reply'[r] \in {400, 422, 428} /\ IsTransfer(r)'
        BY MapRead DEF AnswerRead
      <3>2. TransferOK(r)' /\ EffectsOK(r)'
        BY DEF IInv, LinksInv, RequestOK
      <3>3. status'[<<r, "main">>] \in {"none", "failure"}
        BY <3>1, <3>2 DEF IsTransfer, TransferOK, EffectsOK, Rejected, Untouched, Purposes
      <3> QED BY <3>3, MapRead DEF EffectRead
    <2> QED
      BY <2>1, <2>2, <2>3, <2>4
      DEF Promised!OutcomeNext, Promised!Confirm, Promised!Refuse, Promised!GiveUp
  <1> QED BY <1>3, <1>4

(* The chain applies the effect of a request, or voids it. *)
LEMMA ExecutionIsOutcome ==
    ASSUME IInv, LinksInv, ChainStep
    PROVE  [Promised!OutcomeNext]_(Promised!outcomeVars)
  <1> PICK d \in Deploys : Execute(d)
    BY DEF ChainStep
  <1>1. /\ status[d] = "pending" /\ status'[d] \in {"success", "failure"}
        /\ \A e \in Deploys \ {d} : status'[e] = status[e]
        /\ req' = req /\ reply' = reply
    BY DEF IInv, TypeOK, ChainStep, Execute, ExecuteWell, ExecuteBadly, ChainTypeOK, apiVars
  <1>2. \A q \in Requests : AnswerOf(q)' = AnswerOf(q)
    BY <1>1 DEF AnswerOf, IsTransfer
  <1>3. \A q \in Requests : <<q, "main">> # d => EffectOf(q)' = EffectOf(q)
    BY <1>1 DEF EffectOf, Deploys, Purposes
  <1>4. CASE d[2] # "main"
    BY <1>2, <1>3, <1>4 DEF Promised!outcomeVars
  <1>5. CASE d[2] = "main"
    <2> DEFINE r == d[1]
    <2>1. r \in Requests /\ d = <<r, "main">>
      BY <1>5 DEF Deploys
    <2>2. EffectOf(r) = "none" /\ EffectOf(r)' \in {"applied", "void"}
      BY <1>1, <2>1, MapRead DEF EffectRead
    <2>3. AnswerOf(r) # "refused"
      <3> SUFFICES ASSUME reply[r] \in {400, 422, 428}, IsTransfer(r) PROVE FALSE
        BY <2>1, MapRead DEF AnswerRead
      <3>1. TransferOK(r) /\ EffectsOK(r)
        BY <2>1 DEF IInv, LinksInv, RequestOK
      <3>2. status[<<r, "main">>] \in {"none", "failure"}
        BY <3>1 DEF IsTransfer, TransferOK, EffectsOK, Rejected, Untouched, Purposes
      <3> QED BY <1>1, <2>1, <3>2
    <2> HIDE DEF r
    <2>4. \A q \in Requests \ {r} : EffectOf(q)' = EffectOf(q)
      BY <1>3, <2>1
    <2>5. Promised!Apply(r) \/ Promised!Void(r)
      BY <1>2, <2>1, <2>2, <2>3, <2>4 DEF Promised!Apply, Promised!Void
    <2> QED BY <2>1, <2>5 DEF Promised!OutcomeNext
  <1> QED BY <1>4, <1>5

LEMMA NextIsOutcome ==
    ASSUME IInv, LinksInv, IInv', LinksInv', [Next]_vars
    PROVE  [Promised!OutcomeNext]_(Promised!outcomeVars)
  <1>1. CASE Crash \/ Restart \/ UNCHANGED vars
    <2>1. UNCHANGED <<req, reply, status>>
      BY <1>1 DEF Crash, Exit, Restart, vars, apiVars, chainVars
    <2>2. \A q \in Requests : EffectOf(q)' = EffectOf(q) /\ AnswerOf(q)' = AnswerOf(q)
      BY <2>1 DEF EffectOf, AnswerOf, IsTransfer
    <2> QED BY <2>2 DEF Promised!outcomeVars
  <1>2. ASSUME NEW r \in Requests, Issue(r) \/ Step(r)
        PROVE  [Promised!OutcomeNext]_(Promised!outcomeVars)
    BY <1>2, StepMoves, MoveIsOutcome
  <1> QED BY <1>1, <1>2, ExecutionIsOutcome DEF Next

(* What an answer to invest or redeem says of its tokens is so, and stays so:
   the handlers, the chain and the database together implement Outcome. *)
THEOREM SpecTransferOutcome == Spec => TransferOutcome
  <1>1. Init => Promised!OutcomeInit
    <2> SUFFICES ASSUME Init PROVE Promised!OutcomeInit
      OBVIOUS
    <2>1. \A r \in Requests : status[<<r, "main">>] = "none" /\ reply[r] = 0
      BY DEF Init, ChainInit, ApiInit, Deploys, Purposes
    <2>2. \A r \in Requests : EffectOf(r) = "none" /\ AnswerOf(r) = "none"
      BY <2>1, MapRead DEF EffectRead, AnswerRead
    <2> QED BY <2>2 DEF Promised!OutcomeInit
  <1>2. /\ IInv /\ LinksInv /\ IInv' /\ LinksInv' /\ [Next]_vars
           => [Promised!OutcomeNext]_(Promised!outcomeVars)
    BY NextIsOutcome
  <1> QED
    BY <1>1, <1>2, SpecIInv, SpecLinksInv, PTL
    DEF Spec, TransferOutcome, Promised!OutcomeSpec
=============================================================================
