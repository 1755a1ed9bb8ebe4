-------------------------- MODULE EquitybrixProofs --------------------------
(***************************************************************************)
(* What holds of Equitybrix for every set of requests, parties, offers and *)
(* labels, every menu, every price and every combination of faults.        *)
(***************************************************************************)
EXTENDS EquitybrixInvariant, TLAPS

USE CasperAssumption, DatabaseAssumption, ApiAssumption

(* The invariant holds before the first request. *)
LEMMA InitIInv == Init => IInv
  <1> SUFFICES ASSUME Init PROVE IInv
    OBVIOUS
  <1> USE DEF Init, ChainInit, DatabaseInit, ApiInit
  <1>1. TypeOK
    BY DEF TypeOK, ChainTypeOK,
         DatabaseTypeOK, ApiTypeOK, Payloads, Nothing, Awaits, Roles, Tasks,
         Keys, Contracts, OrNone
  <1>2. ASSUME NEW r \in Requests PROVE RequestOK(r)
    <2>1. HandlerOK(r)
      BY DEF HandlerOK, Settled, InstallAwaits, TransferAwaits, BalanceAwaits
    <2>2. KeysOK(r)
      BY DEF KeysOK, Settled, Creating, Paying, Saving
    <2>3. ContractOK(r) /\ RowOK(r)
      BY DEF ContractOK, RowOK
    <2>4. EffectsOK(r)
      BY DEF EffectsOK, Untouched, Deploys
    <2> QED BY <2>1, <2>2, <2>3, <2>4 DEF RequestOK
  <1>3. \A d \in Deploys : DeployOK(d)
    BY DEF DeployOK, Nothing
  <1>4. NamedOK /\ OfferBacked /\ TokensHeldByKnownParty
    BY DEF NamedOK, OfferBacked, TokensHeldByKnownParty, Saved
  <1> QED BY <1>1, <1>2, <1>3, <1>4 DEF IInv

-----------------------------------------------------------------------------
(* Frames. *)

(* Nothing that request q's part of the invariant reads of itself changes. *)
Same(q) ==
    /\ pc'[q] = pc[q]
    /\ req'[q] = req[q]
    /\ key'[q] = key[q]
    /\ contract'[q] = contract[q]
    /\ bg'[q] = bg[q]
    /\ reply'[q] = reply[q]
    /\ q \in minted' => q \in minted

(* Rows stay, a deploy that succeeded did so for good, and what a deploy asks
   for is settled when it is put. *)
Grows ==
    /\ \A role \in Roles, p \in Parties :
          record[role][p] # None => record'[role][p] = record[role][p]
    /\ \A o \in Saved : offers'[o] = offers[o]
    /\ \A d \in Deploys : status[d] = "success" =>
          status'[d] = "success" /\ payload'[d] = payload[d]

(* A request keeps its part of the invariant through a step of someone else. *)
LEMMA RequestFrame ==
    ASSUME IInv, NEW q \in Requests, Same(q), Grows,
           \A purpose \in Purposes :
              (pc[q] \in Checking \/ Rejected(q)) =>
                 status'[<<q, purpose>>] = status[<<q, purpose>>]
    PROVE  RequestOK(q)'
  <1> USE DEF Same
  <1>0. RequestOK(q) /\ TypeOK
    BY DEF IInv
  <1>1. HandlerOK(q)'
    BY <1>0 DEF RequestOK, HandlerOK
  <1>2. KeysOK(q)'
    BY <1>0 DEF RequestOK, KeysOK, Known, PartyOf, Grows, NewPartyRole, TypeOK, DatabaseTypeOK, Roles
  <1>3. ContractOK(q)'
    BY <1>0 DEF RequestOK, ContractOK, Backed, Grows, Deploys, Purposes, Contracts
  <1>4. RowOK(q)'
    BY <1>0 DEF RequestOK, RowOK, Backed, Grows, Deploys, Purposes, Contracts, NewOffer, Saved, Roles
  <1>5. EffectsOK(q)'
    BY <1>0 DEF RequestOK, EffectsOK, Untouched, Rejected
  <1> QED BY <1>1, <1>2, <1>3, <1>4, <1>5 DEF RequestOK

(* A step of one request that leaves the chain and the database alone. *)
LEMMA QuietFrame ==
    ASSUME IInv, NEW r \in Requests, UNCHANGED <<chainVars, dbVars>>,
           \A q \in Requests \ {r} : Same(q),
           ApiTypeOK', RequestOK(r)'
    PROVE  IInv'
  <1> USE DEF chainVars, dbVars
  <1>1. Grows
    BY DEF Grows
  <1>2. \A q \in Requests : RequestOK(q)'
    BY <1>1, RequestFrame
  <1>3. TypeOK'
    BY DEF IInv, TypeOK, ChainTypeOK, DatabaseTypeOK
  <1>4. \A d \in Deploys : DeployOK(d)'
    BY DEF IInv, DeployOK, HasRow
  <1>5. NamedOK' /\ OfferBacked' /\ TokensHeldByKnownParty'
    BY DEF IInv, NamedOK, OfferBacked, TokensHeldByKnownParty, Backed, Saved
  <1> QED BY <1>2, <1>3, <1>4, <1>5 DEF IInv

(* A step that moves request r on to await l and touches no local that the
   invariant reads. *)
LEMMA GotoFrame ==
    ASSUME IInv, NEW r \in Requests, NEW l \in Awaits, l \notin Settled,
           pc[r] \notin Settled, Goto(r, l),
           UNCHANGED <<up, req, key, contract, minted, chainVars, dbVars>>,
           list' \in [Requests -> SUBSET OfferIds],
           seen' \in [Requests -> [Tasks -> SUBSET OfferIds]],
           bg' \in [Requests -> {"none", "diff", "write", "done"}],
           \A q \in Requests \ {r} : bg'[q] = bg[q],
           bg'[r] = bg[r] \/ req[r].op = "install",
           l \in InstallAwaits => req[r].op = "install",
           l \in TransferAwaits => req[r].op \in {"invest", "redeem"},
           l \in BalanceAwaits <=> req[r].op = "balance",
           l # "balance_sponsors",
           l \in {"balance_record", "balance_query"} =>
              req[r].investor # None \/ req[r].sponsor # None,
           l \in Creating => key[r][NewPartyRole(r)] = r,
           l \in Paying \cup {"cspr_balance"} =>
              /\ Known(r, "sponsor")
              /\ req[r].op # "install" => Known(r, "investor"),
           l \notin {"get_offer", "get_sponsor"} =>
              (req[r].op \in {"invest", "redeem"} => Known(r, "sponsor")),
           l # "insert_offer",
           l \in Saving => pc[r] \in Saving \/ req[r].op # "install",
           l \in Checking => Untouched(r)
    PROVE  IInv'
  <1> USE DEF Goto
  <1>0. RequestOK(r) /\ ApiTypeOK
    BY DEF IInv, TypeOK
  <1>1. ApiTypeOK'
    BY <1>0 DEF ApiTypeOK
  <1>2. \A q \in Requests \ {r} : Same(q)
    BY <1>0 DEF Same, ApiTypeOK
  <1>3. pc'[r] = l /\ reply'[r] = reply[r]
    BY <1>0 DEF ApiTypeOK
  <1>4. reply[r] = 0
    BY <1>0 DEF RequestOK, HandlerOK, Settled, ApiTypeOK
  <1>5. HandlerOK(r)'
    BY <1>0, <1>3 DEF RequestOK, HandlerOK, Settled
  <1>6. KeysOK(r)'
    BY <1>3 DEF KeysOK, Known, PartyOf, NewPartyRole, dbVars
  <1>7. ContractOK(r)'
    BY <1>3 DEF ContractOK
  <1>8. RowOK(r)'
    BY <1>0, <1>3, <1>4 DEF RequestOK, RowOK, Backed, NewOffer, Saved, chainVars, dbVars
  <1>9. EffectsOK(r)'
    BY <1>3, <1>4 DEF EffectsOK, Rejected, Untouched, chainVars
  <1> QED BY <1>1, <1>2, <1>5, <1>6, <1>7, <1>8, <1>9, QuietFrame DEF RequestOK

(* A step that answers request r. *)
LEMMA AnswerFrame ==
    ASSUME IInv, NEW r \in Requests, NEW code \in Codes,
           pc[r] \notin Settled, Answer(r, code),
           UNCHANGED <<up, bg, req, contract, list, seen, chainVars, dbVars>>,
           key' = key \/ \E role \in Roles, k \in OrNone(Keys) :
                            key' = [key EXCEPT ![r][role] = k],
           minted' = minted \/ minted' = minted \cup {r},
           code \in {400, 428} \/ (code = 422 /\ req[r].op = "install") =>
              pc[r] \in Checking /\ minted' = minted,
           code = 201 /\ req[r].op = "install" => pc[r] \in Saving
    PROVE  IInv'
  <1> USE DEF Answer
  <1>0. RequestOK(r) /\ ApiTypeOK
    BY DEF IInv, TypeOK
  <1>1. ApiTypeOK'
    <2>1. key' \in [Requests -> [Roles -> OrNone(Keys)]]
      <3>1. ASSUME NEW role \in Roles, NEW k \in OrNone(Keys),
                   key' = [key EXCEPT ![r][role] = k]
            PROVE  key' \in [Requests -> [Roles -> OrNone(Keys)]]
        BY <1>0, <3>1 DEF ApiTypeOK
      <3> QED BY <1>0, <3>1 DEF ApiTypeOK
    <2>2. pc' \in [Requests -> Awaits]
      BY <1>0 DEF ApiTypeOK, Awaits
    <2>3. reply' \in [Requests -> Codes \cup {0}]
      BY <1>0 DEF ApiTypeOK
    <2>4. minted' \subseteq Requests
      BY <1>0 DEF ApiTypeOK
    <2> QED BY <1>0, <2>1, <2>2, <2>3, <2>4 DEF ApiTypeOK
  <1>2. \A q \in Requests \ {r} : Same(q)
    BY <1>0 DEF Same, ApiTypeOK
  <1>3. pc'[r] = "replied" /\ reply'[r] = code /\ reply[r] = 0
    BY <1>0 DEF ApiTypeOK, RequestOK, HandlerOK, Settled
  <1>5. HandlerOK(r)'
    BY <1>0, <1>3 DEF RequestOK, HandlerOK, Settled, InstallAwaits,
                      TransferAwaits, BalanceAwaits
  <1>6. KeysOK(r)'
    BY <1>3 DEF KeysOK, Settled, Creating, Paying, Saving
  <1>7. ContractOK(r)'
    BY <1>3 DEF ContractOK
  <1>8. RowOK(r)'
    BY <1>0, <1>3 DEF RequestOK, RowOK, Backed, NewOffer, Saved, Saving, chainVars, dbVars
  <1>9. EffectsOK(r)'
    <2>1. pc'[r] \notin Checking
      BY <1>3 DEF Checking, BalanceAwaits
    <2>2. ASSUME Rejected(r)' PROVE Untouched(r)'
      <3>1. code \in {400, 428} \/ (code = 422 /\ req[r].op = "install")
        BY <1>3, <2>2 DEF Rejected
      <3>2. pc[r] \in Checking /\ minted' = minted
        BY <3>1
      <3> QED BY <1>0, <3>2 DEF RequestOK, EffectsOK, Untouched, chainVars
    <2> QED BY <2>1, <2>2 DEF EffectsOK
  <1> QED BY <1>1, <1>2, <1>5, <1>6, <1>7, <1>8, <1>9, QuietFrame DEF RequestOK

(* An error thrown: any status but those of a check. *)
LEMMA ThrowFrame ==
    ASSUME IInv, NEW r \in Requests, NEW code \in {417, 422, 500},
           pc[r] \notin Settled, Throw(r, code),
           UNCHANGED <<up, bg, localVars, chainVars, dbVars>>,
           minted' = minted \/ minted' = minted \cup {r}
    PROVE  IInv'
  <1> USE DEF localVars
  <1> DEFINE sent == IF req[r].op = "install" THEN 500 ELSE code
  <1>1. Answer(r, sent) /\ sent \in Codes
    BY DEF Throw, Codes
  <1>2. /\ sent \notin {400, 428, 201}
        /\ sent = 422 => req[r].op # "install"
    OBVIOUS
  <1> HIDE DEF sent
  <1> QED BY <1>1, <1>2, AnswerFrame

-----------------------------------------------------------------------------
(* What a handler that has passed its validation knows of its parameters. *)
LEMMA HandlerParams ==
    ASSUME IInv, NEW r \in Requests, pc[r] \notin Settled
    PROVE  /\ req[r] \in Params
           /\ req[r].offer \in OfferIds
           /\ req[r].op # "balance" =>
                 /\ req[r].sponsor \in Parties
                 /\ req[r].amount \in Nat
                 /\ PartyOf(r, NewPartyRole(r)) \in Parties
           /\ req[r].op = "install" =>
                 req[r].name \in Labels /\ req[r].symbol \in Labels
           /\ req[r].op \in {"invest", "redeem"} => req[r].investor \in Parties
  <1>1. req[r] \in Params /\ ~Missing(req[r])
    BY DEF IInv, TypeOK, ApiTypeOK, RequestOK, HandlerOK, Settled
  <1>2. req[r].op \in Ops
    BY <1>1 DEF Params
  <1> QED BY <1>1, <1>2 DEF Params, Missing, IncompleteInstall,
                 IncompleteTransfer, BadBalance, Ops, PartyOf, NewPartyRole

(* The quiet actions, one lemma each. *)

(* A request arrives: it is turned down or its handler starts. *)
LEMMA IssueIInv ==
    ASSUME IInv, NEW r \in Requests, Issue(r) PROVE IInv'
  <1>0. RequestOK(r) /\ ApiTypeOK /\ pc[r] = "idle" /\ reply[r] = 0
    BY DEF IInv, TypeOK, Issue, At, RequestOK, HandlerOK, ApiTypeOK
  <1> PICK p \in Menu[r] : req' = [req EXCEPT ![r] = p]
                           /\ IF Missing(p) THEN Answer(r, 400)
                                            ELSE Goto(r, FirstAwait(p))
    BY DEF Issue
  <1>1. p \in Params /\ p # None
    OBVIOUS
  <1>2. bg[r] = "none" /\ Untouched(r)
    BY <1>0 DEF RequestOK, HandlerOK, EffectsOK, Checking
  <1> DEFINE l == IF Missing(p) THEN "replied" ELSE FirstAwait(p)
             code == IF Missing(p) THEN 400 ELSE 0
  <1>3. /\ l \in {"replied", "check_id", "balance_hash", "get_offer"}
        /\ l # "replied" => ~Missing(p)
        /\ l = "check_id" => p.op = "install"
        /\ l = "balance_hash" <=> p.op = "balance" /\ l # "replied"
        /\ l = "get_offer" => p.op \in {"invest", "redeem"}
    BY <1>1 DEF FirstAwait, Params, Ops
  <1>4. /\ pc' = [pc EXCEPT ![r] = l] /\ reply' = [reply EXCEPT ![r] = code]
        /\ code \in {0, 400} /\ (code = 400 => l = "replied")
    BY <1>0 DEF Answer, Goto, ApiTypeOK
  <1> HIDE DEF l, code
  <1>5. UNCHANGED <<up, key, minted, contract, list, seen, bg, chainVars, dbVars>>
    BY DEF Issue
  <1>6. pc'[r] = l /\ reply'[r] = code /\ req'[r] = p
    BY <1>0, <1>4 DEF ApiTypeOK
  <1>7. ApiTypeOK'
    <2>1. req' \in [Requests -> Params \cup {None}]
      BY <1>0, <1>1 DEF ApiTypeOK
    <2>2. pc' \in [Requests -> Awaits]
      BY <1>0, <1>3, <1>4 DEF ApiTypeOK, Awaits
    <2>3. reply' \in [Requests -> Codes \cup {0}]
      BY <1>0, <1>4 DEF ApiTypeOK, Codes
    <2> QED BY <1>0, <1>5, <2>1, <2>2, <2>3 DEF ApiTypeOK
  <1>8. \A q \in Requests \ {r} : Same(q)
    BY <1>0, <1>4, <1>5 DEF Same, ApiTypeOK
  <1>9. HandlerOK(r)'
    BY <1>1, <1>2, <1>3, <1>4, <1>5, <1>6 DEF HandlerOK, Settled, InstallAwaits,
       TransferAwaits, BalanceAwaits
  <1>10. KeysOK(r)' /\ ContractOK(r)' /\ RowOK(r)'
    BY <1>3, <1>4, <1>6 DEF KeysOK, ContractOK, RowOK, Creating, Paying,
       Saving, Settled
  <1>11. EffectsOK(r)'
    BY <1>2, <1>5 DEF EffectsOK, Untouched, chainVars
  <1> QED
    BY <1>5, <1>7, <1>8, <1>9, <1>10, <1>11, QuietFrame DEF RequestOK

(* A key found in the database is the key of its party. *)
LEMMA GetRecordIInv ==
    ASSUME IInv, NEW r \in Requests, GetRecord(r) PROVE IInv'
  <1> DEFINE role == NewPartyRole(r)
             found == record[role][NewParty(r)]
  <1>0. /\ RequestOK(r) /\ ApiTypeOK /\ pc[r] = "get_record"
        /\ HandlerOK(r) /\ KeysOK(r) /\ EffectsOK(r) /\ reply[r] = 0
    BY DEF IInv, TypeOK, GetRecord, At, RequestOK, HandlerOK
  <1>1. /\ role \in Roles
        /\ PartyOf(r, role) \in Parties
        /\ found \in OrNone(Keys)
        /\ req[r].op # "balance"
    <2>1. role \in Roles
      BY DEF NewPartyRole, Roles
    <2>2. req[r].op # "balance"
      BY <1>0 DEF HandlerOK, Settled, BalanceAwaits
    <2>3. PartyOf(r, role) \in Parties
      BY <1>0, <2>2, HandlerParams DEF Settled
    <2>4. found \in OrNone(Keys)
      BY <2>1, <2>3 DEF IInv, TypeOK, DatabaseTypeOK, NewParty, OrNone
    <2> QED BY <2>1, <2>2, <2>3, <2>4
  <1>2. pc' = [pc EXCEPT ![r] = IF found = None THEN "generate" ELSE AfterKeys(r)]
        /\ reply' = reply /\ key' = [key EXCEPT ![r][role] = found]
    BY DEF GetRecord, Goto
  <1>3. pc'[r] \in {"generate", AfterKeys(r)}
    BY <1>0, <1>2 DEF ApiTypeOK
  <1>4. ApiTypeOK'
    BY <1>0, <1>1, <1>2 DEF GetRecord, ApiTypeOK, Awaits, AfterKeys
  <1>5. \A q \in Requests \ {r} : Same(q)
    BY <1>0, <1>2 DEF GetRecord, Same, ApiTypeOK
  <1>6. HandlerOK(r)'
    BY <1>0, <1>1, <1>2, <1>3 DEF GetRecord, HandlerOK, AfterKeys, Settled,
       InstallAwaits, TransferAwaits, BalanceAwaits, ApiTypeOK, Params, Ops
  <1>7. KeysOK(r)'
    <2>1. pc'[r] = AfterKeys(r) => found # None
      BY <1>0, <1>2 DEF ApiTypeOK, AfterKeys
    <2>2. key'[r][role] = found /\ \A other \in Roles \ {role} :
                                        key'[r][other] = key[r][other]
      BY <1>0, <1>1, <1>2 DEF ApiTypeOK
    <2>3. req' = req /\ record' = record
      BY DEF GetRecord, dbVars
    <2>4. req[r].op # "install" => Known(r, "sponsor") /\ role = "investor"
      BY <1>0, <1>1 DEF KeysOK, Settled, NewPartyRole, ApiTypeOK, Params, Ops,
         HandlerOK
    <2>5. req[r].op = "install" => role = "sponsor"
      BY DEF NewPartyRole
    <2>6. \/ pc'[r] = "generate"
          \/ /\ req[r].op = "install" => Known(r, "sponsor")'
             /\ req[r].op # "install" => Known(r, "investor")'
      BY <1>1, <1>3, <2>1, <2>2, <2>3 DEF Known, PartyOf, NewParty, NewPartyRole
    <2>7. req[r].op # "install" => Known(r, "sponsor")'
      BY <2>2, <2>3, <2>4 DEF Known, PartyOf, Roles
    <2>8. CASE pc'[r] = "generate"
      BY <2>3, <2>7, <2>8 DEF KeysOK, Creating, Paying, Saving
    <2>9. CASE pc'[r] # "generate"
      <3>1. pc'[r] \in {"fund_put", "cspr_balance"}
        BY <1>3, <2>9 DEF AfterKeys
      <3>2. Known(r, "sponsor")' /\ (req[r].op # "install" => Known(r, "investor")')
        BY <2>6, <2>7, <2>9
      <3> QED BY <2>3, <3>1, <3>2 DEF KeysOK, Creating, Paying
    <2> QED BY <2>8, <2>9
  <1>8. ContractOK(r)' /\ RowOK(r)' /\ EffectsOK(r)'
    BY <1>0, <1>2, <1>3 DEF GetRecord, ContractOK, RowOK, EffectsOK, Untouched,
       Rejected, AfterKeys, Saving, Checking, BalanceAwaits, chainVars
  <1> QED BY <1>4, <1>5, <1>6, <1>7, <1>8, QuietFrame DEF RequestOK, GetRecord

(* A generated key is named by its request, so it is nobody else's. *)
LEMMA GenerateKeypairIInv ==
    ASSUME IInv, NEW r \in Requests, GenerateKeypair(r) PROVE IInv'
  <1> DEFINE role == NewPartyRole(r)
  <1>0. /\ RequestOK(r) /\ ApiTypeOK /\ pc[r] = "generate"
        /\ HandlerOK(r) /\ KeysOK(r) /\ reply[r] = 0
    BY DEF IInv, TypeOK, GenerateKeypair, At, RequestOK, HandlerOK
  <1>1. role \in Roles /\ req[r].op \in Ops
    BY <1>0, HandlerParams DEF NewPartyRole, Roles, Settled, Params
  <1> USE DEF GenerateKeypair, Goto
  <1>2. pc'[r] = "create_put" /\ key'[r][role] = r
    BY <1>0, <1>1 DEF ApiTypeOK
  <1>3. ApiTypeOK'
    BY <1>0, <1>1 DEF ApiTypeOK, Awaits, OrNone, Keys
  <1>4. \A q \in Requests \ {r} : Same(q)
    BY <1>0 DEF Same, ApiTypeOK
  <1>5. HandlerOK(r)'
    BY <1>0, <1>2 DEF HandlerOK, Settled, InstallAwaits, TransferAwaits,
       BalanceAwaits
  <1>6. KeysOK(r)'
    <2>1. req[r].op # "install" => role = "investor"
      BY DEF NewPartyRole
    <2>2. req[r].op \in {"invest", "redeem"} => Known(r, "sponsor")
      BY <1>0 DEF KeysOK, Settled
    <2>3. key'[r]["sponsor"] = key[r]["sponsor"] \/ role = "sponsor"
      BY <1>0, <1>1 DEF ApiTypeOK, Roles
    <2> QED
      BY <1>2, <2>1, <2>2, <2>3 DEF KeysOK, Known, PartyOf, NewPartyRole,
         Creating, Paying, Saving, dbVars
  <1>7. ContractOK(r)' /\ RowOK(r)' /\ EffectsOK(r)'
    BY <1>0, <1>2 DEF ContractOK, RowOK, EffectsOK, Rejected, Saving, Checking,
       BalanceAwaits
  <1> QED BY <1>3, <1>4, <1>5, <1>6, <1>7, QuietFrame DEF RequestOK

(* A processed funding deploy moves the request on, whatever its result. *)
LEMMA FundWaitIInv ==
    ASSUME IInv, NEW r \in Requests, NEW purpose \in {"create", "fund"},
           FundWait(r, purpose)
    PROVE  IInv'
  <1>0. RequestOK(r) /\ ApiTypeOK
    BY DEF IInv, TypeOK
  <1> USE DEF FundWait, At, AfterFunding, WaitAwait, RequestOK, HandlerOK,
       KeysOK, Awaits, Settled, InstallAwaits, TransferAwaits, BalanceAwaits,
       Creating, Paying, Saving, Checking, localVars, ApiTypeOK
  <1>1. CASE purpose = "create"
    BY <1>0, <1>1, GotoFrame
  <1>2. CASE purpose = "fund"
    BY <1>0, <1>2, GotoFrame
  <1> QED BY <1>1, <1>2

(* A deploy the node does not take ends the request. *)
LEMMA PutRefusedIInv ==
    ASSUME IInv, NEW r \in Requests, NEW purpose \in Purposes, NEW p,
           PutRefused(r, purpose, p)
    PROVE  IInv'
  BY ThrowFrame DEF PutRefused, At, Settled, PutAwait, Purposes

(* A request signs its deploy with keys the database knows. *)
LEMMA SignDeployIInv ==
    ASSUME IInv, NEW r \in Requests, SignDeploy(r) PROVE IInv'
  <1>0. RequestOK(r) /\ ApiTypeOK /\ pc[r] = "sign" /\ pc[r] \notin Settled
    BY DEF IInv, TypeOK, SignDeploy, At, Settled
  <1>1. CASE Goto(r, "put")
    BY <1>0, <1>1, GotoFrame DEF SignDeploy, RequestOK, HandlerOK, KeysOK,
       Awaits, Settled, InstallAwaits, TransferAwaits, BalanceAwaits, Creating,
       Paying, Saving, Checking, localVars, ApiTypeOK
  <1>2. CASE Throw(r, 500)
    BY <1>0, <1>2, ThrowFrame DEF SignDeploy
  <1> QED BY <1>1, <1>2 DEF SignDeploy

(* The entity is loaded by a handler whose deploy is done. *)
LEMMA LoadEntityIInv ==
    ASSUME IInv, NEW r \in Requests, LoadEntity(r) PROVE IInv'
  <1>0. RequestOK(r) /\ ApiTypeOK /\ pc[r] = "load_entity"
    BY DEF IInv, TypeOK, LoadEntity, At
  <1> USE DEF LoadEntity, RequestOK, HandlerOK, Settled
  <1>1. req[r].offer \in OfferIds
    BY <1>0 DEF ApiTypeOK, Params, Ops, Missing, IncompleteInstall,
                 IncompleteTransfer, BadBalance, BalanceAwaits
  <1>2. /\ list' \in [Requests -> SUBSET OfferIds]
        /\ bg' \in [Requests -> {"none", "diff", "write", "done"}]
        /\ \A q \in Requests \ {r} : bg'[q] = bg[q]
        /\ bg'[r] = bg[r] \/ req[r].op = "install"
    BY <1>0, <1>1 DEF ApiTypeOK, LinkedOffers
  <1> QED
    BY <1>0, <1>2, GotoFrame DEF KeysOK, Awaits, InstallAwaits, TransferAwaits,
       BalanceAwaits, Creating, Paying, Saving, Checking, ApiTypeOK

(* The awaited save reads the links. *)
LEMMA AwaitedDiffIInv ==
    ASSUME IInv, NEW r \in Requests, AwaitedDiff(r) PROVE IInv'
  <1>0. RequestOK(r) /\ ApiTypeOK /\ pc[r] = "diff"
    BY DEF IInv, TypeOK, AwaitedDiff, At
  <1> USE DEF AwaitedDiff, RequestOK, HandlerOK, Settled
  <1>1. seen' \in [Requests -> [Tasks -> SUBSET OfferIds]]
    BY <1>0 DEF ApiTypeOK, SaveDiff, LinkedOffers
  <1> QED
    BY <1>0, <1>1, GotoFrame DEF KeysOK, Awaits, InstallAwaits, TransferAwaits,
       BalanceAwaits, Creating, Paying, Saving, Checking, ApiTypeOK

(* A duplicate id is rejected before any effect. *)
LEMMA CheckOfferIdIInv ==
    ASSUME IInv, NEW r \in Requests, CheckOfferId(r) PROVE IInv'
  <1>0. RequestOK(r) /\ ApiTypeOK /\ pc[r] = "check_id" /\ pc[r] \notin Settled
    BY DEF IInv, TypeOK, CheckOfferId, At, Settled
  <1>1. CASE Answer(r, 422)
    BY <1>0, <1>1, AnswerFrame DEF CheckOfferId, Codes, Checking, localVars
  <1>2. CASE Goto(r, "check_name")
    BY <1>0, <1>2, GotoFrame DEF CheckOfferId, RequestOK, HandlerOK, KeysOK,
       EffectsOK, Awaits, Settled, InstallAwaits, TransferAwaits, BalanceAwaits,
       Creating, Paying, Saving, Checking, localVars, ApiTypeOK
  <1> QED BY <1>1, <1>2 DEF CheckOfferId

(* A duplicate name or symbol is rejected before any effect. *)
LEMMA CheckNameOrSymbolIInv ==
    ASSUME IInv, NEW r \in Requests, CheckNameOrSymbol(r) PROVE IInv'
  <1>0. /\ RequestOK(r) /\ ApiTypeOK
        /\ pc[r] = "check_name" /\ pc[r] \notin Settled
    BY DEF IInv, TypeOK, CheckNameOrSymbol, At, Settled
  <1>1. CASE Answer(r, 422)
    BY <1>0, <1>1, AnswerFrame DEF CheckNameOrSymbol, Codes, Checking, localVars
  <1>2. CASE Goto(r, "get_record")
    BY <1>0, <1>2, GotoFrame DEF CheckNameOrSymbol, RequestOK, HandlerOK, KeysOK,
       EffectsOK, Awaits, Settled, InstallAwaits, TransferAwaits, BalanceAwaits,
       Creating, Paying, Saving, Checking, localVars, ApiTypeOK
  <1> QED BY <1>1, <1>2 DEF CheckNameOrSymbol

(* An install deploy that is processed moves its request on. *)
LEMMA InstallProcessedIInv ==
    ASSUME IInv, NEW r \in Requests, InstallProcessed(r) PROVE IInv'
  <1>0. RequestOK(r) /\ ApiTypeOK
    BY DEF IInv, TypeOK
  <1> QED
    BY <1>0, GotoFrame DEF InstallProcessed, At, RequestOK, HandlerOK, KeysOK,
       Awaits, Settled, InstallAwaits, TransferAwaits, BalanceAwaits, Creating,
       Paying, Saving, Checking, localVars, ApiTypeOK

(* The contract looked up is backed, for every named key is. *)
LEMMA GetContractHashIInv ==
    ASSUME IInv, NEW r \in Requests, GetContractHash(r) PROVE IInv'
  <1> DEFINE hash == named[key[r]["sponsor"]][req[r].name]
  <1>0. /\ RequestOK(r) /\ ApiTypeOK /\ pc[r] = "get_hash" /\ pc[r] \notin Settled
        /\ HandlerOK(r) /\ KeysOK(r) /\ reply[r] = 0 /\ req[r].op = "install"
        /\ key[r]["sponsor"] \in Keys /\ req[r].name \in Labels
    <2>1. RequestOK(r) /\ ApiTypeOK /\ pc[r] = "get_hash" /\ pc[r] \notin Settled
      BY DEF IInv, TypeOK, GetContractHash, At, Settled
    <2>2. HandlerOK(r) /\ KeysOK(r) /\ reply[r] = 0 /\ req[r].op = "install"
      BY <2>1 DEF RequestOK, HandlerOK, Settled, InstallAwaits
    <2>3. key[r]["sponsor"] \in Keys
      BY <2>1, <2>2 DEF KeysOK, Paying, Known, ApiTypeOK, Roles, OrNone
    <2> QED BY <2>1, <2>2, <2>3, HandlerParams
  <1>1. CASE UNCHANGED contract /\ Throw(r, 500)
    BY <1>0, <1>1, ThrowFrame DEF GetContractHash, localVars
  <1>2. CASE /\ hash # None
             /\ contract' = [contract EXCEPT ![r] = hash]
             /\ Goto(r, "insert_offer")
    <2> USE DEF GetContractHash, Goto
    <2>1. Backed(hash, req[r].name, key[r]["sponsor"]) /\ hash \in Contracts
      BY <1>0, <1>2 DEF IInv, NamedOK, Backed
    <2> HIDE DEF hash
    <2>2. ApiTypeOK'
      BY <1>0, <1>2, <2>1 DEF ApiTypeOK, Awaits, OrNone
    <2>3. \A q \in Requests \ {r} : Same(q)
      BY <1>0, <1>2 DEF Same, ApiTypeOK
    <2>4. /\ pc'[r] = "insert_offer" /\ contract'[r] = hash
          /\ reply' = reply /\ req' = req /\ key' = key /\ bg' = bg
      BY <1>0, <1>2 DEF ApiTypeOK
    <2>5. HandlerOK(r)'
      BY <1>0, <2>4 DEF HandlerOK, Settled, InstallAwaits, TransferAwaits,
         BalanceAwaits
    <2>6. KeysOK(r)'
      BY <1>0, <2>4 DEF KeysOK, Known, PartyOf, Creating, Paying, Settled, dbVars
    <2>7. ContractOK(r)'
      BY <2>1, <2>4 DEF ContractOK, Backed, chainVars
    <2>8. RowOK(r)' /\ EffectsOK(r)'
      BY <1>0, <2>4 DEF RowOK, EffectsOK, Rejected, Saving, Checking,
         BalanceAwaits
    <2> QED
      BY <2>2, <2>3, <2>5, <2>6, <2>7, <2>8, QuietFrame DEF RequestOK
  <1> QED BY <1>1, <1>2 DEF GetContractHash

(* The save nobody awaits reads the links. *)
LEMMA BackgroundDiffIInv ==
    ASSUME IInv, NEW r \in Requests, BackgroundDiff(r) PROVE IInv'
  <1>0. /\ RequestOK(r) /\ ApiTypeOK /\ bg[r] = "diff"
        /\ HandlerOK(r) /\ KeysOK(r) /\ ContractOK(r) /\ RowOK(r) /\ EffectsOK(r)
    BY DEF IInv, TypeOK, BackgroundDiff, RequestOK
  <1> USE DEF BackgroundDiff, dbVars, chainVars
  <1>1. ApiTypeOK'
    BY <1>0 DEF ApiTypeOK, SaveDiff, LinkedOffers
  <1>2. \A q \in Requests \ {r} : Same(q)
    BY <1>0 DEF Same, ApiTypeOK
  <1>3. bg'[r] = "write"
    BY <1>0 DEF ApiTypeOK
  <1>4. HandlerOK(r)'
    BY <1>0, <1>3 DEF HandlerOK
  <1>5. KeysOK(r)' /\ ContractOK(r)'
    BY <1>0 DEF KeysOK, Known, PartyOf, NewPartyRole, ContractOK, Backed
  <1>6. RowOK(r)'
    BY <1>0 DEF RowOK, Backed, NewOffer, Saved
  <1>7. EffectsOK(r)'
    BY <1>0 DEF EffectsOK, Rejected, Untouched
  <1> QED BY <1>1, <1>2, <1>4, <1>5, <1>6, <1>7, QuietFrame DEF RequestOK

(* A contract looked up while the request is still checking. *)
LEMMA ContractRead ==
    ASSUME IInv, NEW r \in Requests, NEW c \in Contracts, NEW l \in Awaits,
           pc[r] \in {"get_offer", "balance_hash"},
           contract' = [contract EXCEPT ![r] = c], Goto(r, l),
           UNCHANGED <<up, req, key, minted, list, seen, bg, chainVars, dbVars>>,
           \/ pc[r] = "get_offer" /\ l = "get_sponsor"
           \/ /\ pc[r] = "balance_hash" /\ l = "balance_sponsors"
              /\ req[r].investor = None
           \/ /\ pc[r] = "balance_hash" /\ l = "balance_record"
              /\ req[r].investor # None \/ req[r].sponsor # None
    PROVE  IInv'
  <1> USE DEF Goto
  <1>0. /\ RequestOK(r) /\ ApiTypeOK /\ HandlerOK(r) /\ KeysOK(r) /\ EffectsOK(r)
        /\ reply[r] = 0
    BY DEF IInv, TypeOK, RequestOK, HandlerOK
  <1>1. ApiTypeOK'
    BY <1>0 DEF ApiTypeOK, OrNone
  <1>2. \A q \in Requests \ {r} : Same(q)
    BY <1>0 DEF Same, ApiTypeOK
  <1>3. pc'[r] = l
    BY <1>0 DEF ApiTypeOK
  <1>4. HandlerOK(r)'
    BY <1>0, <1>3 DEF HandlerOK, Settled, InstallAwaits, TransferAwaits,
       BalanceAwaits
  <1>5. KeysOK(r)'
    BY <1>0, <1>3 DEF KeysOK, HandlerOK, BalanceAwaits, Creating, Paying, Saving,
       Settled
  <1>6. ContractOK(r)' /\ RowOK(r)'
    BY <1>0, <1>3 DEF ContractOK, RowOK, Saving
  <1>7. EffectsOK(r)'
    BY <1>0, <1>3 DEF EffectsOK, Untouched, Checking, BalanceAwaits, chainVars
  <1> QED BY <1>1, <1>2, <1>4, <1>5, <1>6, <1>7, QuietFrame DEF RequestOK

(* A key looked up while the request is still checking: the request goes on
   when there is one, and is answered with 428 when there is none. *)
LEMMA KeyRead ==
    ASSUME IInv, NEW r \in Requests, NEW role \in Roles, NEW l \in Awaits,
           PartyOf(r, role) \in Parties,
           pc[r] \in {"get_sponsor", "get_investor", "balance_record"},
           key' = [key EXCEPT ![r][role] = record[role][PartyOf(r, role)]],
           IF record[role][PartyOf(r, role)] = None THEN Throw(r, 428)
                                                    ELSE Goto(r, l),
           UNCHANGED <<up, req, minted, contract, list, seen, bg, chainVars, dbVars>>,
           \/ /\ pc[r] = "get_sponsor" /\ role = "sponsor"
              /\ l \in {"get_investor", "get_record"}
              /\ l = "get_investor" => req[r].op = "redeem"
           \/ pc[r] = "get_investor" /\ role = "investor" /\ l = "cspr_balance"
           \/ pc[r] = "balance_record" /\ l = "balance_query"
    PROVE  IInv'
  <1> DEFINE found == record[role][PartyOf(r, role)]
  <1>0. /\ RequestOK(r) /\ ApiTypeOK /\ HandlerOK(r) /\ KeysOK(r) /\ EffectsOK(r)
        /\ reply[r] = 0 /\ pc[r] \in Checking /\ pc[r] \notin Settled
        /\ found \in OrNone(Keys) /\ req[r].op # "install"
    <2>1. /\ RequestOK(r) /\ ApiTypeOK /\ HandlerOK(r) /\ KeysOK(r) /\ EffectsOK(r)
          /\ reply[r] = 0
      BY DEF IInv, TypeOK, RequestOK, HandlerOK
    <2>2. pc[r] \in Checking /\ pc[r] \notin Settled
      BY DEF Checking, Settled, BalanceAwaits
    <2>3. found \in OrNone(Keys)
      BY DEF IInv, TypeOK, DatabaseTypeOK, OrNone
    <2>4. req[r].op # "install"
      BY <2>1 DEF HandlerOK, TransferAwaits, BalanceAwaits
    <2> QED BY <2>1, <2>2, <2>3, <2>4
  <1>1. CASE Throw(r, 428)
    <2>1. Answer(r, 428)
      BY <1>0, <1>1 DEF Throw
    <2>2. \E other \in Roles, k \in OrNone(Keys) :
               key' = [key EXCEPT ![r][other] = k]
      BY <1>0
    <2>3. 428 \in Codes
      BY DEF Codes
    <2> QED BY <1>0, <2>1, <2>2, <2>3, AnswerFrame
  <1>2. CASE Goto(r, l) /\ found # None
    <2> HIDE DEF found
    <2> USE DEF Goto
    <2>0. key' = [key EXCEPT ![r][role] = found]
      BY DEF found
    <2>1. ApiTypeOK'
      BY <1>0, <1>2, <2>0 DEF ApiTypeOK
    <2>2. \A q \in Requests \ {r} : Same(q)
      BY <1>0, <1>2, <2>0 DEF Same, ApiTypeOK
    <2>3. pc'[r] = l
      BY <1>0, <1>2 DEF ApiTypeOK
    <2>4. HandlerOK(r)'
      BY <1>0, <1>2, <2>3 DEF HandlerOK, Settled, InstallAwaits, TransferAwaits,
         BalanceAwaits
    <2>5. Known(r, role)'
      <3>1. key'[r][role] = found
        BY <1>0, <2>0 DEF ApiTypeOK
      <3> QED BY <1>2, <3>1 DEF Known, PartyOf, found, dbVars
    <2>6. pc[r] = "get_investor" => Known(r, "sponsor")'
      <3>1. ASSUME pc[r] = "get_investor"
            PROVE  key'[r]["sponsor"] = key[r]["sponsor"] /\ Known(r, "sponsor")
        BY <1>0, <2>0, <3>1 DEF ApiTypeOK, KeysOK, Roles, Settled, HandlerOK,
           TransferAwaits
      <3> QED BY <3>1 DEF Known, PartyOf, dbVars
    <2>7. KeysOK(r)'
      BY <1>0, <2>3, <2>5, <2>6 DEF KeysOK, HandlerOK, BalanceAwaits, Creating,
         Paying, Saving, Settled
    <2>8. ContractOK(r)' /\ RowOK(r)'
      BY <1>0, <1>2, <2>3 DEF ContractOK, RowOK, Saving
    <2>9. EffectsOK(r)'
      BY <1>0, <1>2 DEF EffectsOK, Untouched, chainVars
    <2> QED
      BY <2>1, <2>2, <2>4, <2>7, <2>8, <2>9, QuietFrame DEF RequestOK
  <1> QED BY <1>1, <1>2

(* A transfer looks its offer up. *)
LEMMA GetOfferIInv ==
    ASSUME IInv, NEW r \in Requests, GetOffer(r) PROVE IInv'
  <1>0. /\ RequestOK(r) /\ ApiTypeOK /\ pc[r] = "get_offer"
        /\ pc[r] \notin Settled /\ HandlerOK(r) /\ EffectsOK(r) /\ reply[r] = 0
        /\ req[r].offer \in OfferIds
    <2>1. RequestOK(r) /\ ApiTypeOK /\ pc[r] = "get_offer" /\ pc[r] \notin Settled
      BY DEF IInv, TypeOK, GetOffer, At, Settled
    <2> QED BY <2>1, HandlerParams DEF RequestOK, HandlerOK, Settled
  <1>1. CASE req[r].offer \notin Saved
    BY <1>0, <1>1, ThrowFrame DEF GetOffer, localVars
  <1>2. CASE req[r].offer \in Saved
    <2> DEFINE c == offers[req[r].offer].contract
    <2>1. c \in Contracts
      BY <1>0, <1>2 DEF IInv, TypeOK, DatabaseTypeOK, Saved, OfferRows
    <2>2. contract' = [contract EXCEPT ![r] = c] /\ Goto(r, "get_sponsor")
      BY <1>2 DEF GetOffer
    <2>3. UNCHANGED <<up, req, key, minted, list, seen, bg, chainVars, dbVars>>
      BY DEF GetOffer
    <2>4. "get_sponsor" \in Awaits
      BY DEF Awaits
    <2> HIDE DEF c
    <2> QED BY <1>0, <2>1, <2>2, <2>3, <2>4, ContractRead
  <1> QED BY <1>1, <1>2

(* A transfer looks its sponsor up. *)
LEMMA GetSponsorIInv ==
    ASSUME IInv, NEW r \in Requests, GetSponsor(r) PROVE IInv'
  <1> DEFINE next == IF req[r].op = "redeem" THEN "get_investor"
                                             ELSE "get_record"
  <1>1. /\ pc[r] = "get_sponsor"
        /\ PartyOf(r, "sponsor") \in Parties
    <2>1. pc[r] = "get_sponsor" /\ pc[r] \notin Settled
      BY DEF GetSponsor, At, Settled
    <2>2. req[r].op # "balance"
      BY <2>1 DEF IInv, RequestOK, HandlerOK, Settled, BalanceAwaits
    <2> QED BY <2>1, <2>2, HandlerParams DEF PartyOf
  <1>2. next \in {"get_investor", "get_record"} /\ next \in Awaits
        /\ (next = "get_investor" => req[r].op = "redeem")
    BY DEF Awaits
  <1>3. GetPublicKey(r, "sponsor", next)
    BY DEF GetSponsor
  <1> HIDE DEF next
  <1> QED BY <1>1, <1>2, <1>3, KeyRead DEF GetPublicKey, Roles

(* A redeem looks its investor up. *)
LEMMA GetInvestorIInv ==
    ASSUME IInv, NEW r \in Requests, GetInvestor(r) PROVE IInv'
  <1>1. /\ pc[r] = "get_investor"
        /\ PartyOf(r, "investor") \in Parties
    <2>1. pc[r] = "get_investor" /\ pc[r] \notin Settled
      BY DEF GetInvestor, At, Settled
    <2>2. req[r].op \in {"invest", "redeem"}
      BY <2>1 DEF IInv, RequestOK, HandlerOK, TransferAwaits
    <2> QED BY <2>1, <2>2, HandlerParams DEF PartyOf
  <1> QED
    BY <1>1, KeyRead DEF GetInvestor, GetPublicKey, Roles, Awaits

(* The balance of the sender is read once both keys are known. *)
LEMMA CheckCsprBalanceIInv ==
    ASSUME IInv, NEW r \in Requests, CheckCsprBalance(r) PROVE IInv'
  <1>0. /\ RequestOK(r) /\ ApiTypeOK
        /\ pc[r] = "cspr_balance" /\ pc[r] \notin Settled
        /\ UNCHANGED <<up, minted, bg, localVars, chainVars, dbVars>>
    BY DEF IInv, TypeOK, CheckCsprBalance, At, Settled
  <1>1. CASE Throw(r, 500)
    BY <1>0, <1>1, ThrowFrame
  <1>2. ASSUME NEW l \in {"fund_put", "sign"}, Goto(r, l) PROVE IInv'
    <2>1. /\ l \in Awaits /\ l \notin Settled /\ l \notin Checking
          /\ l \notin InstallAwaits \cup TransferAwaits \cup BalanceAwaits
          /\ l \notin Creating \cup Saving
      BY DEF Awaits, Settled, Checking, InstallAwaits, TransferAwaits,
         BalanceAwaits, Creating, Saving
    <2>2. Known(r, "sponsor") /\ Known(r, "investor")
          /\ req[r].op \in {"invest", "redeem"}
      BY <1>0 DEF RequestOK, HandlerOK, KeysOK, TransferAwaits
    <2> QED BY <1>0, <1>2, <2>1, <2>2, GotoFrame DEF localVars, ApiTypeOK
  <1> QED BY <1>1, <1>2 DEF CheckCsprBalance

(* A processed transfer is answered by its result. *)
LEMMA TransferProcessedIInv ==
    ASSUME IInv, NEW r \in Requests, TransferProcessed(r) PROVE IInv'
  <1>0. /\ RequestOK(r) /\ ApiTypeOK
        /\ pc[r] = "wait" /\ pc[r] \notin Settled
        /\ req[r].op \in {"invest", "redeem"}
    BY DEF IInv, TypeOK, TransferProcessed, At, Settled
  <1>1. CASE Throw(r, 422)
    BY <1>0, <1>1, ThrowFrame DEF TransferProcessed
  <1>2. CASE Answer(r, 201)
    BY <1>0, <1>2, AnswerFrame DEF TransferProcessed, Codes, localVars
  <1>3. CASE Goto(r, "load_entity")
    BY <1>0, <1>3, GotoFrame DEF TransferProcessed, RequestOK, HandlerOK, KeysOK,
       Awaits, Settled, InstallAwaits, TransferAwaits, BalanceAwaits, Creating,
       Paying, Saving, Checking, localVars, ApiTypeOK
  <1> QED BY <1>1, <1>2, <1>3 DEF TransferProcessed

(* A balance looks the contract of its offer up. *)
LEMMA GetOfferContractHashIInv ==
    ASSUME IInv, NEW r \in Requests, GetOfferContractHash(r) PROVE IInv'
  <1>0. /\ pc[r] = "balance_hash" /\ pc[r] \notin Settled
        /\ req[r].offer \in OfferIds /\ req[r].op # "install"
    <2>1. pc[r] = "balance_hash" /\ pc[r] \notin Settled
      BY DEF GetOfferContractHash, At, Settled
    <2>2. req[r].op # "install"
      BY <2>1 DEF IInv, RequestOK, HandlerOK, BalanceAwaits
    <2> QED BY <2>1, <2>2, HandlerParams
  <1>1. CASE req[r].offer \notin Saved
    BY <1>0, <1>1, AnswerFrame
       DEF GetOfferContractHash, Throw, localVars, Codes, Checking, BalanceAwaits
  <1>2. CASE req[r].offer \in Saved
    <2> DEFINE c == offers[req[r].offer].contract
               l == IF req[r].investor = None /\ req[r].sponsor = None
                    THEN "balance_sponsors" ELSE "balance_record"
    <2>1. c \in Contracts
      BY <1>0, <1>2 DEF IInv, TypeOK, DatabaseTypeOK, Saved, OfferRows
    <2>2. contract' = [contract EXCEPT ![r] = c] /\ Goto(r, l)
      BY <1>2 DEF GetOfferContractHash
    <2>3. \/ l = "balance_sponsors" /\ req[r].investor = None
          \/ l = "balance_record" /\ (req[r].investor # None \/ req[r].sponsor # None)
      OBVIOUS
    <2>4. UNCHANGED <<up, req, key, minted, list, seen, bg, chainVars, dbVars>>
      BY DEF GetOfferContractHash
    <2>5. l \in Awaits
      BY DEF Awaits
    <2> HIDE DEF c, l
    <2> QED BY <1>0, <2>1, <2>2, <2>3, <2>4, <2>5, ContractRead
  <1> QED BY <1>1, <1>2

(* A balance of an offer takes one of its sponsors. *)
LEMMA GetOfferSponsorIInv ==
    ASSUME IInv, NEW r \in Requests, GetOfferSponsor(r) PROVE IInv'
  <1>0. /\ RequestOK(r) /\ ApiTypeOK /\ HandlerOK(r) /\ KeysOK(r) /\ EffectsOK(r)
        /\ pc[r] = "balance_sponsors" /\ pc[r] \notin Settled /\ reply[r] = 0
        /\ UNCHANGED <<up, key, minted, contract, list, seen, bg, chainVars, dbVars>>
    BY DEF IInv, TypeOK, RequestOK, GetOfferSponsor, At, HandlerOK, Settled
  <1>1. CASE Throw(r, 500) /\ UNCHANGED req
    BY <1>0, <1>1, ThrowFrame DEF localVars
  <1>2. ASSUME NEW p \in Parties, req' = [req EXCEPT ![r].sponsor = p],
               Goto(r, "balance_record")
        PROVE  IInv'
    <2> USE DEF Goto
    <2>1. /\ req[r] \in Params /\ req[r].op = "balance"
          /\ ~Missing(req[r]) /\ req[r].investor = None
      BY <1>0, HandlerParams DEF HandlerOK, BalanceAwaits
    <2> DEFINE new == [req[r] EXCEPT !.sponsor = p]
    <2>2. /\ new \in Params /\ new # None /\ ~Missing(new)
          /\ new.op = "balance" /\ new.sponsor # None
      BY <2>1 DEF Params, Missing, IncompleteInstall,
                 IncompleteTransfer, BadBalance
    <2>3. /\ req' = [req EXCEPT ![r] = new]
          /\ pc' = [pc EXCEPT ![r] = "balance_record"] /\ reply' = reply
      BY <1>0, <1>2 DEF Goto
    <2> HIDE DEF new
    <2>4. pc'[r] = "balance_record" /\ req'[r] = new
      BY <1>0, <2>3 DEF ApiTypeOK
    <2>5. ApiTypeOK'
      BY <1>0, <2>2, <2>3 DEF ApiTypeOK, Awaits
    <2>6. \A q \in Requests \ {r} : Same(q)
      BY <1>0, <2>3 DEF Same, ApiTypeOK
    <2>7. HandlerOK(r)'
      BY <1>0, <2>1, <2>2, <2>3, <2>4 DEF HandlerOK, Settled, InstallAwaits,
         TransferAwaits, BalanceAwaits
    <2>8. KeysOK(r)' /\ ContractOK(r)' /\ RowOK(r)'
      BY <2>2, <2>4 DEF KeysOK, ContractOK, RowOK, Creating, Paying, Saving
    <2>9. EffectsOK(r)'
      BY <1>0 DEF EffectsOK, Untouched, Checking, BalanceAwaits, chainVars
    <2> QED
      BY <1>0, <2>5, <2>6, <2>7, <2>8, <2>9, QuietFrame DEF RequestOK
  <1> QED BY <1>1, <1>2 DEF GetOfferSponsor

(* A balance looks its party up. *)
LEMMA GetBalanceRecordIInv ==
    ASSUME IInv, NEW r \in Requests, GetBalanceRecord(r) PROVE IInv'
  <1> DEFINE role == IF req[r].investor # None THEN "investor" ELSE "sponsor"
  <1>1. pc[r] = "balance_record" /\ role \in Roles
    BY DEF GetBalanceRecord, At, Roles
  <1>2. PartyOf(r, role) \in Parties
    <2>1. req[r] \in Params
      BY <1>1, HandlerParams DEF Settled
    <2>2. req[r].investor # None \/ req[r].sponsor # None
      BY <1>1 DEF IInv, RequestOK, HandlerOK
    <2> QED BY <2>1, <2>2 DEF Params, PartyOf
  <1>3. /\ key' = [key EXCEPT ![r][role] = record[role][PartyOf(r, role)]]
        /\ IF record[role][PartyOf(r, role)] = None THEN Throw(r, 428)
           ELSE Goto(r, "balance_query")
        /\ UNCHANGED <<up, req, minted, contract, list, seen, bg, chainVars, dbVars>>
    BY DEF GetBalanceRecord
  <1> HIDE DEF role
  <1> QED BY <1>1, <1>2, <1>3, KeyRead DEF Awaits

(* A balance is answered. *)
LEMMA QueryBalanceIInv ==
    ASSUME IInv, NEW r \in Requests, QueryBalance(r) PROVE IInv'
  <1>1. CASE Answer(r, 200)
    BY <1>1, AnswerFrame DEF QueryBalance, At, Settled, Codes, localVars
  <1>2. CASE Throw(r, 500)
    BY <1>2, ThrowFrame DEF QueryBalance, At, Settled
  <1> QED BY <1>1, <1>2 DEF QueryBalance

-----------------------------------------------------------------------------
(* Steps that change the chain or the database. *)

(* What the parts of the invariant about the chain and the database ask of a
   step that installs and transfers no token and inserts no offer. *)
LEMMA GrowFrame ==
    ASSUME IInv, Grows, UNCHANGED <<named, tokens>>
    PROVE  /\ NamedOK'
           /\ TokensHeldByKnownParty'
           /\ offers' = offers => OfferBacked'
           /\ \A d \in Deploys : payload'[d] = payload[d] => DeployOK(d)'
  <1>1. ASSUME NEW k, NEW c, NEW l, Backed(c, l, k) PROVE Backed(c, l, k)'
    BY <1>1 DEF Backed, Grows, Deploys, Purposes, Contracts
  <1>2. NamedOK'
    BY <1>1 DEF IInv, NamedOK
  <1>3. ASSUME NEW k \in Keys, NEW role \in Roles, NEW p \in Parties,
               record[role][p] = k
        PROVE  record'[role][p] = k
    BY <1>3 DEF Grows, Keys
  <1>4. TokensHeldByKnownParty'
    BY <1>3 DEF IInv, TokensHeldByKnownParty
  <1>5. ASSUME offers' = offers PROVE OfferBacked'
    <2> SUFFICES ASSUME NEW o \in Saved
                 PROVE  LET d == <<offers[o].contract, "main">> IN
                        /\ status'[d] = "success"
                        /\ payload'[d].type = "install"
                        /\ payload'[d].label = offers[o].name
                        /\ \E p \in Parties :
                               record'["sponsor"][p] = payload'[d].from
      BY <1>5 DEF OfferBacked, Saved
    <2> DEFINE d == <<offers[o].contract, "main">>
    <2>1. d \in Deploys
      BY DEF IInv, TypeOK, DatabaseTypeOK, Saved, OfferRows, Deploys, Purposes,
             Contracts
    <2>2. /\ status[d] = "success"
          /\ payload[d].type = "install"
          /\ payload[d].label = offers[o].name
          /\ \E p \in Parties : record["sponsor"][p] = payload[d].from
      BY DEF IInv, OfferBacked
    <2>3. payload[d].from \in Keys
      BY <2>1, <2>2 DEF IInv, DeployOK
    <2>4. status'[d] = "success" /\ payload'[d] = payload[d]
      BY <2>1, <2>2 DEF Grows
    <2> HIDE DEF d
    <2>5. \E p \in Parties : record'["sponsor"][p] = payload[d].from
      BY <1>3, <2>2, <2>3 DEF Roles
    <2> QED BY <2>2, <2>4, <2>5 DEF d
  <1>6. ASSUME NEW d \in Deploys, payload'[d] = payload[d] PROVE DeployOK(d)'
    <2>1. DeployOK(d)
      BY DEF IInv
    <2>2. CASE payload[d].type = "install"
      BY <1>3, <1>6, <2>1, <2>2 DEF DeployOK, Roles
    <2>3. CASE payload[d].type = "transfer"
      BY <1>3, <1>6, <2>1, <2>3 DEF DeployOK, HasRow
    <2> QED BY <1>6, <2>2, <2>3 DEF DeployOK
  <1> QED BY <1>2, <1>4, <1>5, <1>6

(* Nothing changes but the links and whether the process is up. *)
LEMMA StillFrame ==
    ASSUME IInv, UNCHANGED <<chainVars, record, offers>>, TypeOK',
           \A q \in Requests : Same(q)
    PROVE  IInv'
  <1> USE DEF chainVars
  <1>1. Grows
    BY DEF Grows
  <1>2. \A q \in Requests : RequestOK(q)'
    BY <1>1, RequestFrame
  <1> QED BY <1>1, <1>2, GrowFrame DEF IInv

(* The process is started again. *)
LEMMA RestartIInv == ASSUME IInv, Restart PROVE IInv'
  <1>1. TypeOK'
    BY DEF IInv, TypeOK, ChainTypeOK, DatabaseTypeOK, ApiTypeOK, Restart,
           chainVars, dbVars
  <1> QED BY <1>1, StillFrame DEF Restart, Same, dbVars

(* The process dies: what it held is lost, what it saved is not. *)
LEMMA ExitIInv == ASSUME IInv, Exit, UNCHANGED <<chainVars, dbVars>> PROVE IInv'
  <1> USE DEF Exit
  <1>0. ApiTypeOK
    BY DEF IInv, TypeOK
  <1>1. Grows
    BY DEF Grows, chainVars, dbVars
  <1>2. TypeOK'
    <2>1. pc' \in [Requests -> Awaits]
      BY <1>0 DEF ApiTypeOK, Awaits
    <2>2. bg' \in [Requests -> {"none", "diff", "write", "done"}]
      BY <1>0 DEF ApiTypeOK
    <2>3. ApiTypeOK'
      BY <1>0, <2>1, <2>2 DEF ApiTypeOK
    <2> QED BY <2>3 DEF IInv, TypeOK, ChainTypeOK, DatabaseTypeOK, chainVars, dbVars
  <1>3. ASSUME NEW q \in Requests PROVE RequestOK(q)'
    <2>1. /\ pc'[q] \in Settled
          /\ pc'[q] = "lost" \/ pc'[q] = pc[q]
          /\ bg'[q] \in {"none", "done"}
          /\ bg[q] = "none" => bg'[q] = "none"
          /\ pc[q] = "replied" => pc'[q] = "replied"
          /\ pc'[q] = "lost" => pc[q] # "idle"
      BY <1>0 DEF InFlight, Settled
    <2>2. RequestOK(q)
      BY DEF IInv
    <2>3. HandlerOK(q)'
      BY <2>1, <2>2 DEF RequestOK, HandlerOK, Settled, InstallAwaits,
         TransferAwaits, BalanceAwaits
    <2>4. KeysOK(q)' /\ ContractOK(q)'
      BY <2>1 DEF KeysOK, ContractOK, Settled, Creating, Paying, Saving
    <2>5. RowOK(q)'
      BY <2>1, <2>2 DEF RequestOK, RowOK, Backed, NewOffer, Saved, Settled,
         Saving, chainVars, dbVars
    <2>6. EffectsOK(q)'
      BY <2>1, <2>2 DEF RequestOK, EffectsOK, Rejected, Untouched, Settled,
         Checking, BalanceAwaits, chainVars
    <2> QED BY <2>3, <2>4, <2>5, <2>6 DEF RequestOK
  <1> QED BY <1>1, <1>2, <1>3, GrowFrame DEF IInv, chainVars, dbVars

(* The node takes a deploy p of request r: the request goes on to wait for
   it, or its answer is lost and the request fails. *)
LEMMA PutDeployIInv ==
    ASSUME IInv, NEW r \in Requests, NEW purpose \in Purposes,
           NEW p \in Payloads,
           PutDeploy(r, purpose, p),
           p.type = "install" =>
              /\ purpose = "main" /\ p.from \in Keys /\ p.label \in Labels
              /\ \E party \in Parties : record["sponsor"][party] = p.from,
           p.type = "transfer" => p.to \in Keys /\ HasRow(p.to)
    PROVE  IInv'
  <1> DEFINE d == <<r, purpose>>
  <1>0. /\ RequestOK(r) /\ HandlerOK(r) /\ KeysOK(r) /\ ApiTypeOK /\ ChainTypeOK
        /\ pc[r] = PutAwait[purpose] /\ reply[r] = 0 /\ d \in Deploys
        /\ status[d] = "none"
        /\ status' = [status EXCEPT ![d] = "pending"]
        /\ payload' = [payload EXCEPT ![d] = p]
        /\ UNCHANGED <<motes, named, tokens, up, minted, bg, localVars, dbVars>>
    <2>1. pc[r] = PutAwait[purpose]
      BY DEF PutDeploy, At
    <2>2. RequestOK(r) /\ HandlerOK(r) /\ KeysOK(r) /\ ApiTypeOK /\ ChainTypeOK
      BY DEF IInv, TypeOK, RequestOK
    <2>3. reply[r] = 0
      BY <2>1, <2>2 DEF HandlerOK, PutAwait, Purposes
    <2> QED BY <2>1, <2>2, <2>3 DEF PutDeploy, Put, Deploys
  <1>1. \/ /\ pc' = [pc EXCEPT ![r] = WaitAwait[purpose]]
           /\ reply' = reply
        \/ /\ pc' = [pc EXCEPT ![r] = "replied"]
           /\ reply' = [reply EXCEPT ![r] = 500]
    BY DEF PutDeploy, Goto, Throw, Answer
  <1>2. Grows
    BY <1>0 DEF Grows, ChainTypeOK, dbVars
  <1>3. TypeOK'
    <2>1. WaitAwait[purpose] \in Awaits /\ "replied" \in Awaits
      BY DEF Awaits, WaitAwait, Purposes
    <2>2. pc' \in [Requests -> Awaits]
      <3>1. PICK l \in Awaits : pc' = [pc EXCEPT ![r] = l]
        BY <1>1, <2>1
      <3> QED BY <1>0, <3>1 DEF ApiTypeOK
    <2>3. reply' \in [Requests -> Codes \cup {0}]
      BY <1>0, <1>1 DEF ApiTypeOK, Codes
    <2>4. ApiTypeOK'
      BY <1>0, <2>2, <2>3 DEF ApiTypeOK, localVars
    <2>5. ChainTypeOK'
      BY <1>0 DEF ChainTypeOK
    <2> QED BY <1>0, <2>4, <2>5 DEF IInv, TypeOK, DatabaseTypeOK, dbVars
  <1>4. ASSUME NEW q \in Requests, q # r PROVE RequestOK(q)'
    <2>1. Same(q)
      BY <1>0, <1>1, <1>4 DEF Same, ApiTypeOK, localVars
    <2>2. \A other \in Purposes : status'[<<q, other>>] = status[<<q, other>>]
      BY <1>0, <1>4 DEF ChainTypeOK, Deploys
    <2> QED BY <1>2, <2>1, <2>2, RequestFrame
  <1>5. RequestOK(r)'
    <2>1. \/ pc'[r] = WaitAwait[purpose] /\ reply'[r] = 0
          \/ pc'[r] = "replied" /\ reply'[r] = 500
      BY <1>0, <1>1 DEF ApiTypeOK
    <2> USE DEF localVars
    <2>2. HandlerOK(r)'
      BY <1>0, <2>1 DEF HandlerOK, Settled, InstallAwaits, TransferAwaits,
         BalanceAwaits, PutAwait, WaitAwait, Purposes
    <2>3. KeysOK(r)'
      BY <1>0, <2>1 DEF KeysOK, Known, PartyOf, NewPartyRole, Creating, Paying,
         Saving, Settled, PutAwait, WaitAwait, Purposes, dbVars
    <2>4. ContractOK(r)' /\ RowOK(r)' /\ EffectsOK(r)'
      BY <2>1 DEF ContractOK, RowOK, EffectsOK, Rejected, Saving, Checking,
         BalanceAwaits, WaitAwait, Purposes
    <2> QED BY <2>2, <2>3, <2>4 DEF RequestOK
  <1>6. \A e \in Deploys : DeployOK(e)'
    <2>1. DeployOK(d)'
      BY <1>0 DEF ChainTypeOK, DeployOK, HasRow, dbVars
    <2>2. ASSUME NEW e \in Deploys, e # d PROVE DeployOK(e)'
      BY <1>0, <1>2, <2>2, GrowFrame DEF ChainTypeOK
    <2> QED BY <2>1, <2>2
  <1>7. NamedOK' /\ OfferBacked' /\ TokensHeldByKnownParty'
    BY <1>0, <1>2, GrowFrame DEF dbVars
  <1> QED BY <1>3, <1>4, <1>5, <1>6, <1>7 DEF IInv

(* A funding deploy pays a key and asks for nothing else. *)
LEMMA FundPutIInv ==
    ASSUME IInv, NEW r \in Requests, NEW purpose \in {"create", "fund"},
           FundPut(r, purpose)
    PROVE  IInv'
  <1> DEFINE p == FundPayload(r, purpose)
  <1>0. purpose \in Purposes
    BY DEF Purposes
  <1>1. CASE PutRefused(r, purpose, p)
    BY <1>0, <1>1, PutRefusedIInv
  <1>2. CASE PutDeploy(r, purpose, p)
    <2>1. /\ KeysOK(r) /\ HandlerOK(r) /\ ApiTypeOK /\ pc[r] = PutAwait[purpose]
      BY <1>2 DEF IInv, TypeOK, RequestOK, PutDeploy, At
    <2>2. CASE purpose = "create"
      <3>1. p = NativeTransfer(r, AccountCreation)
        BY <2>1, <2>2 DEF KeysOK, Creating, PutAwait, FundPayload
      <3>2. p \in Payloads /\ p.type = "native"
        BY <3>1 DEF NativeTransfer, Nothing, Payloads, Keys
      <3> HIDE DEF p
      <3> QED BY <1>0, <1>2, <3>2, PutDeployIInv
    <2>3. CASE purpose = "fund"
      <3>1. /\ Known(r, "sponsor")
            /\ req[r].op # "install" => Known(r, "investor")
        BY <2>1, <2>3 DEF KeysOK, Paying, PutAwait
      <3>2. /\ key[r]["sponsor"] \in Keys
            /\ req[r].op # "install" => Sender(r) \in Keys
        BY <2>1, <3>1 DEF Known, ApiTypeOK, Roles, OrNone, Sender, SenderRole
      <3>3. p \in Payloads /\ p.type = "native"
        BY <2>3, <3>2 DEF FundPayload, NativeTransfer, Nothing, Payloads
      <3> HIDE DEF p
      <3> QED BY <1>0, <1>2, <3>3, PutDeployIInv
    <2> QED BY <2>2, <2>3
  <1> QED BY <1>1, <1>2 DEF FundPut

(* The main deploy is of and for keys of the database. *)
LEMMA MainPutIInv ==
    ASSUME IInv, NEW r \in Requests, MainPut(r) PROVE IInv'
  <1> DEFINE p == MainPayload(r)
  <1>0. "main" \in Purposes
    BY DEF Purposes
  <1>1. CASE PutRefused(r, "main", p)
    BY <1>0, <1>1, PutRefusedIInv
  <1>2. CASE PutDeploy(r, "main", p)
    <2>1. /\ KeysOK(r) /\ HandlerOK(r) /\ ApiTypeOK /\ pc[r] = "put"
          /\ pc[r] \notin Settled /\ req[r].op # "balance"
      BY <1>2 DEF IInv, TypeOK, RequestOK, PutDeploy, At, PutAwait, Settled,
         HandlerOK, BalanceAwaits
    <2>2. /\ Known(r, "sponsor")
          /\ req[r].op # "install" => Known(r, "investor")
      BY <2>1 DEF KeysOK, Paying
    <2>3. req[r].amount \in Nat
      BY <2>1, HandlerParams
    <2>4. CASE req[r].op = "install"
      <3>1. key[r]["sponsor"] \in Keys /\ req[r].name \in Labels
        BY <2>1, <2>2, <2>4, HandlerParams DEF Known, ApiTypeOK, Roles, OrNone
      <3>2. p = InstallToken(key[r]["sponsor"], req[r].name, req[r].amount)
        BY <2>4 DEF MainPayload
      <3>3. /\ p \in Payloads /\ p.type = "install"
            /\ p.from = key[r]["sponsor"] /\ p.label = req[r].name
        BY <2>3, <3>1, <3>2 DEF InstallToken, Nothing, Payloads
      <3>4. \E party \in Parties : record["sponsor"][party] = p.from
        BY <2>2, <3>3 DEF Known
      <3> HIDE DEF p
      <3> QED BY <1>0, <1>2, <3>1, <3>3, <3>4, PutDeployIInv
    <2>5. CASE req[r].op # "install"
      <3>1. Sender(r) \in Keys /\ Recipient(r) \in Keys /\ HasRow(Recipient(r))
        BY <2>1, <2>2, <2>5 DEF Known, ApiTypeOK, Roles, OrNone, Sender,
           SenderRole, Recipient, RecipientRole, HasRow
      <3>2. contract[r] \in Contracts \cup {None}
        BY <2>1 DEF ApiTypeOK, OrNone
      <3>3. /\ p \in Payloads /\ p.type = "transfer" /\ p.to = Recipient(r)
        BY <2>3, <2>5, <3>1, <3>2
           DEF MainPayload, TransferToken, Nothing, Payloads
      <3> HIDE DEF p
      <3> QED BY <1>0, <1>2, <3>1, <3>3, PutDeployIInv
    <2> QED BY <2>4, <2>5
  <1> QED BY <1>1, <1>2 DEF MainPut

(* A new party gets the key of its request, over no other. *)
LEMMA SaveRecordIInv ==
    ASSUME IInv, NEW r \in Requests, SaveRecord(r) PROVE IInv'
  <1> DEFINE role == NewPartyRole(r)
             p == NewParty(r)
             k == key[r][role]
  <1>0. /\ RequestOK(r) /\ HandlerOK(r) /\ KeysOK(r) /\ ApiTypeOK /\ DatabaseTypeOK
        /\ pc[r] = "save_record" /\ pc[r] \notin Settled /\ reply[r] = 0
        /\ UNCHANGED <<up, minted, bg, localVars, chainVars>>
    BY DEF IInv, TypeOK, RequestOK, SaveRecord, At, Settled, HandlerOK
  <1>1. /\ role \in Roles /\ p \in Parties /\ k = r
        /\ req[r].op \in {"install", "invest", "redeem"}
    <2>1. req[r].op \in {"install", "invest", "redeem"}
      BY <1>0, HandlerParams DEF HandlerOK, Settled, BalanceAwaits, Params, Ops
    <2> QED
      BY <1>0, <2>1, HandlerParams DEF NewPartyRole, NewParty, Roles, KeysOK,
         Creating
  <1>2. CASE Throw(r, 500) /\ UNCHANGED dbVars
    BY <1>0, <1>2, ThrowFrame
  <1>3. CASE /\ CanInsertParty(role, p, k)
             /\ InsertParty(role, p, k)
             /\ Goto(r, AfterKeys(r))
    <2>1. /\ record[role][p] = None
          /\ record' = [record EXCEPT ![role][p] = r]
          /\ UNCHANGED <<offers, links, reply>>
          /\ pc' = [pc EXCEPT ![r] = AfterKeys(r)]
      BY <1>1, <1>3 DEF CanInsertParty, InsertParty, Goto
    <2>2. AfterKeys(r) \in {"fund_put", "cspr_balance"}
      BY DEF AfterKeys
    <2> HIDE DEF role, p, k
    <2> USE DEF localVars, chainVars
    <2>3. Grows
      BY <1>0, <1>1, <2>1 DEF Grows, DatabaseTypeOK
    <2>4. TypeOK'
      <3>1. ApiTypeOK'
        BY <1>0, <2>1, <2>2 DEF ApiTypeOK, Awaits
      <3>2. DatabaseTypeOK'
        BY <1>0, <1>1, <2>1 DEF DatabaseTypeOK, Keys
      <3> QED BY <1>0, <3>1, <3>2 DEF IInv, TypeOK, ChainTypeOK
    <2>5. ASSUME NEW q \in Requests, q # r PROVE RequestOK(q)'
      <3>1. Same(q)
        BY <1>0, <2>1, <2>5 DEF Same, ApiTypeOK
      <3> QED BY <1>0, <2>3, <3>1, RequestFrame
    <2>6. RequestOK(r)'
      <3>1. pc'[r] = AfterKeys(r) /\ reply'[r] = 0
        BY <1>0, <2>1 DEF ApiTypeOK
      <3>2. HandlerOK(r)'
        BY <1>0, <1>1, <2>2, <3>1 DEF HandlerOK, Settled, InstallAwaits,
           TransferAwaits, BalanceAwaits, AfterKeys
      <3>3. record'[role][p] = r
        BY <1>0, <1>1, <2>1 DEF DatabaseTypeOK
      <3>4. /\ req[r].op = "install" => Known(r, "sponsor")'
            /\ req[r].op # "install" => Known(r, "investor")'
        BY <1>0, <1>1, <3>3 DEF Known, NewParty, NewPartyRole, PartyOf, role, p, k
      <3>5. req[r].op # "install" => Known(r, "sponsor")'
        BY <1>0, <1>1, <2>3 DEF KeysOK, Known, PartyOf, Settled, Grows, Roles
      <3>6. KeysOK(r)'
        BY <1>0, <2>2, <3>1, <3>4, <3>5 DEF KeysOK, Creating, Paying, Saving
      <3>7. ContractOK(r)' /\ RowOK(r)' /\ EffectsOK(r)'
        BY <2>2, <3>1 DEF ContractOK, RowOK, EffectsOK, Rejected, Saving,
           Checking, BalanceAwaits
      <3> QED BY <3>2, <3>6, <3>7 DEF RequestOK
    <2> QED BY <1>0, <2>1, <2>3, <2>4, <2>5, <2>6, GrowFrame DEF IInv
  <1> QED BY <1>2, <1>3 DEF SaveRecord

(* A new offer gets a backed contract of its sponsor, over no other row. *)
LEMMA SaveOfferIInv ==
    ASSUME IInv, NEW r \in Requests, SaveOffer(r) PROVE IInv'
  <1> DEFINE o == req[r].offer
             row == NewOffer(r)
             k == key[r]["sponsor"]
  <1>0. /\ RequestOK(r) /\ HandlerOK(r) /\ KeysOK(r) /\ ContractOK(r)
        /\ ApiTypeOK /\ DatabaseTypeOK
        /\ pc[r] = "insert_offer" /\ pc[r] \notin Settled /\ reply[r] = 0
        /\ UNCHANGED <<up, minted, bg, localVars, chainVars>>
    BY DEF IInv, TypeOK, RequestOK, SaveOffer, At, Settled, HandlerOK
  <1>1. /\ req[r].op = "install" /\ o \in OfferIds
        /\ req[r].sponsor \in Parties
        /\ Known(r, "sponsor")
        /\ Backed(contract[r], req[r].name, k)
        /\ row \in OfferRows /\ row # None
    <2>1. req[r].op = "install" /\ Backed(contract[r], req[r].name, k)
      BY <1>0 DEF HandlerOK, InstallAwaits, ContractOK
    <2>2. /\ o \in OfferIds /\ req[r].sponsor \in Parties
          /\ req[r].name \in Labels /\ req[r].symbol \in Labels
      BY <1>0, <2>1, HandlerParams
    <2>3. row \in OfferRows
      BY <2>1, <2>2 DEF NewOffer, OfferRows, Backed
    <2> QED BY <1>0, <2>1, <2>2, <2>3 DEF KeysOK, Paying
  <1>2. CASE Throw(r, 500) /\ UNCHANGED dbVars
    BY <1>0, <1>2, ThrowFrame
  <1>3. CASE /\ CanInsertOffer(o, row)
             /\ InsertOffer(o, row)
             /\ Goto(r, "load_entity")
    <2>1. /\ offers[o] = None
          /\ offers' = [offers EXCEPT ![o] = row]
          /\ UNCHANGED <<record, links, reply>>
          /\ pc' = [pc EXCEPT ![r] = "load_entity"]
      BY <1>3 DEF CanInsertOffer, InsertOffer, Goto
    <2> USE DEF localVars, chainVars
    <2>2. Grows
      BY <1>0, <2>1 DEF Grows, DatabaseTypeOK, Saved
    <2> HIDE DEF o, row, k
    <2>3. offers'[o] = row
      BY <1>0, <1>1, <2>1 DEF DatabaseTypeOK
    <2>4. TypeOK'
      <3>1. ApiTypeOK'
        BY <1>0, <2>1 DEF ApiTypeOK, Awaits
      <3>2. DatabaseTypeOK'
        BY <1>0, <1>1, <2>1 DEF DatabaseTypeOK
      <3> QED BY <1>0, <3>1, <3>2 DEF IInv, TypeOK, ChainTypeOK
    <2>5. ASSUME NEW q \in Requests, q # r PROVE RequestOK(q)'
      <3>1. Same(q)
        BY <1>0, <2>1, <2>5 DEF Same, ApiTypeOK
      <3> QED BY <1>0, <2>2, <3>1, RequestFrame
    <2>6. RequestOK(r)'
      <3>1. pc'[r] = "load_entity" /\ reply'[r] = 0
        BY <1>0, <2>1 DEF ApiTypeOK
      <3>2. HandlerOK(r)'
        BY <1>0, <1>1, <3>1 DEF HandlerOK, Settled, InstallAwaits,
           TransferAwaits, BalanceAwaits
      <3>3. KeysOK(r)'
        BY <1>0, <1>1, <2>1, <3>1 DEF KeysOK, Known, PartyOf, Creating, Settled
      <3>4. RowOK(r)'
        <4>1. o \in Saved'
          BY <1>1, <2>3 DEF Saved
        <4>2. record["sponsor"][req[r].sponsor] = k /\ k # None
          BY <1>1 DEF Known, PartyOf, k
        <4>3. NewOffer(r)' = row
          BY <1>0 DEF NewOffer, row
        <4>4. Backed(contract[r], req[r].name, k)'
          BY <1>0, <1>1 DEF Backed, k
        <4> QED
          BY <1>0, <1>1, <2>1, <2>3, <4>1, <4>2, <4>3, <4>4 DEF RowOK, Backed, o
      <3>5. ContractOK(r)' /\ EffectsOK(r)'
        BY <3>1 DEF ContractOK, EffectsOK, Rejected, Checking, BalanceAwaits
      <3> QED BY <3>2, <3>3, <3>4, <3>5 DEF RequestOK
    <2>7. OfferBacked'
      <3>1. ASSUME NEW other \in Saved', other # o
            PROVE  other \in Saved /\ offers'[other] = offers[other]
        BY <1>0, <2>1, <3>1 DEF Saved, DatabaseTypeOK
      <3>2. /\ row.contract = contract[r] /\ row.name = req[r].name
            /\ record["sponsor"][req[r].sponsor] = k
        BY <1>1 DEF NewOffer, Known, PartyOf, row, k
      <3>3. OfferBacked
        BY DEF IInv
      <3> QED
        BY <1>0, <1>1, <2>1, <2>3, <3>1, <3>2, <3>3 DEF OfferBacked, Backed
    <2> QED BY <1>0, <2>1, <2>2, <2>4, <2>5, <2>6, <2>7, GrowFrame DEF IInv
  <1> QED BY <1>2, <1>3 DEF SaveOffer

(* A save of the list of an entity writes pairs of a party and an offer. *)
LEMMA SaveWriteType ==
    ASSUME IInv, NEW r \in Requests, NEW task \in Tasks, SaveWrite(r, task),
           NewParty(r) \in Parties
    PROVE  DatabaseTypeOK' /\ record' = record /\ offers' = offers
  <1> DEFINE role == NewPartyRole(r)
             before == seen[r][task]
             linked == {<<NewParty(r), o>> : o \in list[r] \ before}
             unlinked == {<<NewParty(r), o>> : o \in before \ list[r]}
  <1>1. ApiTypeOK /\ DatabaseTypeOK /\ role \in Roles
    BY DEF IInv, TypeOK, NewPartyRole, Roles
  <1>2. linked \subseteq Parties \X OfferIds
    BY <1>1 DEF ApiTypeOK
  <1>3. /\ links' = [links EXCEPT ![role] = (@ \ unlinked) \cup linked]
        /\ record' = record /\ offers' = offers
    BY DEF SaveWrite, SaveList
  <1> HIDE DEF role, linked, unlinked
  <1>4. (links[role] \ unlinked) \cup linked \in SUBSET (Parties \X OfferIds)
    BY <1>1, <1>2 DEF DatabaseTypeOK
  <1> QED BY <1>1, <1>3, <1>4 DEF DatabaseTypeOK

(* The awaited save writes the links and the request is answered. *)
LEMMA AwaitedWriteIInv ==
    ASSUME IInv, NEW r \in Requests, AwaitedWrite(r) PROVE IInv'
  <1>0. /\ RequestOK(r) /\ HandlerOK(r) /\ ApiTypeOK
        /\ pc[r] = "write" /\ pc[r] \notin Settled /\ reply[r] = 0
        /\ UNCHANGED <<up, minted, bg, localVars, chainVars>>
    BY DEF IInv, TypeOK, RequestOK, AwaitedWrite, At, Settled, HandlerOK
  <1>1. NewParty(r) \in Parties
    BY <1>0, HandlerParams DEF HandlerOK, Settled, BalanceAwaits, NewParty
  <1>2. CASE Throw(r, 500) /\ UNCHANGED dbVars
    BY <1>0, <1>2, ThrowFrame
  <1>3. CASE SaveWrite(r, "fg") /\ Answer(r, 201)
    <2> USE DEF Answer, localVars
    <2>1. DatabaseTypeOK' /\ record' = record /\ offers' = offers
      BY <1>1, <1>3, SaveWriteType DEF Tasks
    <2>2. ApiTypeOK'
      BY <1>0, <1>3 DEF ApiTypeOK, Awaits, Codes
    <2>3. TypeOK' /\ Grows
      BY <1>0, <2>1, <2>2 DEF IInv, TypeOK, ChainTypeOK, chainVars, Grows
    <2>4. ASSUME NEW q \in Requests, q # r PROVE RequestOK(q)'
      <3>1. Same(q)
        BY <1>0, <1>3, <2>4 DEF Same, ApiTypeOK
      <3> QED BY <1>0, <2>3, <3>1, RequestFrame DEF chainVars
    <2>5. RequestOK(r)'
      <3>1. pc'[r] = "replied" /\ reply'[r] = 201
        BY <1>0, <1>3 DEF ApiTypeOK
      <3>2. HandlerOK(r)'
        BY <1>0, <3>1 DEF HandlerOK, Settled, InstallAwaits, TransferAwaits,
           BalanceAwaits
      <3>3. KeysOK(r)' /\ ContractOK(r)' /\ EffectsOK(r)'
        BY <3>1 DEF KeysOK, ContractOK, EffectsOK, Rejected, Settled, Creating,
           Paying, Saving, Checking, BalanceAwaits
      <3>4. RowOK(r)'
        BY <1>0, <2>1, <3>1 DEF RequestOK, RowOK, Backed, NewOffer, Saved,
           Saving, chainVars
      <3> QED BY <3>2, <3>3, <3>4 DEF RequestOK
    <2> QED BY <1>0, <2>1, <2>3, <2>4, <2>5, GrowFrame DEF IInv, chainVars
  <1> QED BY <1>2, <1>3 DEF AwaitedWrite

(* The save nobody awaits writes the links, or takes the process down. *)
LEMMA BackgroundWriteIInv ==
    ASSUME IInv, NEW r \in Requests, BackgroundWrite(r) PROVE IInv'
  <1>0. /\ RequestOK(r) /\ ApiTypeOK /\ bg[r] = "write" /\ UNCHANGED chainVars
    BY DEF IInv, TypeOK, BackgroundWrite
  <1>1. CASE Exit /\ UNCHANGED dbVars
    BY <1>0, <1>1, ExitIInv
  <1>2. CASE /\ SaveWrite(r, "bg")
             /\ bg' = [bg EXCEPT ![r] = "done"]
             /\ UNCHANGED <<up, pc, reply, minted, localVars>>
    <2> USE DEF localVars
    <2>1. NewParty(r) \in Parties
      <3>1. /\ req[r] # None /\ req[r].op = "install" /\ ~Missing(req[r])
        BY <1>0 DEF RequestOK, HandlerOK
      <3>2. req[r] \in Params
        BY <1>0, <3>1 DEF ApiTypeOK
      <3> QED
        BY <3>1, <3>2 DEF Params, Missing, IncompleteInstall,
                 IncompleteTransfer, BadBalance, NewParty, PartyOf, NewPartyRole
    <2>2. DatabaseTypeOK' /\ record' = record /\ offers' = offers
      BY <1>2, <2>1, SaveWriteType DEF Tasks
    <2>3. ApiTypeOK'
      BY <1>0, <1>2 DEF ApiTypeOK
    <2>4. TypeOK' /\ Grows
      BY <1>0, <2>2, <2>3 DEF IInv, TypeOK, ChainTypeOK, chainVars, Grows
    <2>5. ASSUME NEW q \in Requests, q # r PROVE RequestOK(q)'
      <3>1. Same(q)
        BY <1>0, <1>2, <2>5 DEF Same, ApiTypeOK
      <3> QED BY <1>0, <2>4, <3>1, RequestFrame DEF chainVars
    <2>6. RequestOK(r)'
      <3>1. bg'[r] = "done" /\ pc[r] # "idle"
        BY <1>0, <1>2 DEF ApiTypeOK, RequestOK, HandlerOK
      <3>2. HandlerOK(r)'
        BY <1>0, <1>2, <3>1 DEF RequestOK, HandlerOK
      <3>3. KeysOK(r)'
        BY <1>0, <1>2, <2>2 DEF RequestOK, KeysOK, Known, PartyOf, NewPartyRole
      <3>4. ContractOK(r)' /\ RowOK(r)'
        BY <1>0, <1>2, <2>2 DEF RequestOK, ContractOK, RowOK, Backed, NewOffer,
           Saved, chainVars
      <3>5. EffectsOK(r)'
        BY <1>0, <1>2 DEF RequestOK, EffectsOK, Rejected, Untouched, chainVars
      <3> QED BY <3>2, <3>3, <3>4, <3>5 DEF RequestOK
    <2> QED BY <1>0, <2>2, <2>4, <2>5, <2>6, GrowFrame DEF IInv, chainVars
  <1> QED BY <1>0, <1>1, <1>2 DEF BackgroundWrite

-----------------------------------------------------------------------------
(* The chain executes a deploy. *)

(* A function stays within its type when it is changed at one place. *)
LEMMA ExceptType ==
    ASSUME NEW S, NEW T, NEW f \in [S -> T], NEW x, NEW v, x \in S => v \in T
    PROVE  [f EXCEPT ![x] = v] \in [S -> T]
  OBVIOUS

(* The same one level down. *)
LEMMA ExceptType2 ==
    ASSUME NEW S, NEW T, NEW U, NEW f \in [S -> [T -> U]], NEW x, NEW y, NEW v,
           x \in S /\ y \in T => v \in U
    PROVE  [f EXCEPT ![x][y] = v] \in [S -> [T -> U]]
  <1> DEFINE row == [f[x] EXCEPT ![y] = v]
  <1>1. x \in S => row \in [T -> U]
    OBVIOUS
  <1>2. [f EXCEPT ![x] = row] \in [S -> [T -> U]]
    <2> HIDE DEF row
    <2> QED BY <1>1
  <1> QED BY <1>2

(* The chain stays within its type. *)
LEMMA ExecuteType ==
    ASSUME IInv, NEW d \in Deploys, Execute(d) PROVE ChainTypeOK'
  <1> DEFINE p == payload[d]
  <1>0. ChainTypeOK /\ p \in Payloads /\ p.amount \in Nat
    BY DEF IInv, TypeOK, ChainTypeOK, Payloads
  <1>1. status' \in [Deploys -> {"none", "pending", "success", "failure"}]
    BY <1>0 DEF ChainTypeOK, Execute, ExecuteWell, ExecuteBadly
  <1>2. payload' = payload
    BY DEF Execute, ExecuteWell, ExecuteBadly
  <1>3. Price(p) \in Nat
    BY DEF Price
  <1>4. AfterPaying(p) \in [Keys -> Nat]
    <2>1. ASSUME NEW x \in Nat, NEW y \in Nat
          PROVE  (IF x < y THEN 0 ELSE x - y) \in Nat
      OBVIOUS
    <2>2. AfterPaying(p) = motes \/ AfterPaying(p)
             = [motes EXCEPT ![p.from] = IF @ < Price(p) THEN 0 ELSE @ - Price(p)]
      BY DEF AfterPaying
    <2> QED BY <1>0, <1>3, <2>1, <2>2 DEF ChainTypeOK
  <1>5. motes' \in [Keys -> Nat]
    <2>1. CASE motes' = [motes EXCEPT ![p.to] = @ + p.amount]
      <3>1. p.to \in Keys => motes[p.to] + p.amount \in Nat
        BY <1>0 DEF ChainTypeOK
      <3>2. motes' = [motes EXCEPT ![p.to] = motes[p.to] + p.amount]
        BY <2>1
      <3> HIDE DEF p
      <3> QED BY <1>0, <3>1, <3>2, ExceptType DEF ChainTypeOK
    <2>2. CASE motes' = AfterPaying(p)
      BY <1>4, <2>2
    <2> QED BY <2>1, <2>2 DEF Execute, ExecuteWell, ExecuteBadly, ExecuteNative,
       ExecuteInstall, ExecuteTransfer
  <1>6. named' \in [Keys -> [Labels -> Contracts \cup {None}]]
    <2>1. d[1] \in Contracts
      BY DEF Deploys, Contracts
    <2>2. named' = named \/ named' = [named EXCEPT ![p.from][p.label] = d[1]]
      BY DEF Execute, ExecuteWell, ExecuteBadly, ExecuteNative, ExecuteInstall,
         ExecuteTransfer
    <2>3. CASE named' = named
      BY <1>0, <2>3 DEF ChainTypeOK
    <2>4. CASE named' = [named EXCEPT ![p.from][p.label] = d[1]]
      <3> HIDE DEF p
      <3> QED BY <1>0, <2>1, <2>4, ExceptType2 DEF ChainTypeOK
    <2> QED BY <2>2, <2>3, <2>4
  <1>7. tokens' \in [Contracts -> [Keys -> Nat]]
    <2>1. CASE tokens' = tokens
      BY <1>0, <2>1 DEF ChainTypeOK
    <2>2. CASE tokens' = [tokens EXCEPT ![d[1]][p.from] = p.amount]
      BY <1>0, <2>2 DEF ChainTypeOK
    <2>3. CASE ExecuteTransfer(d)
      <3> DEFINE less == tokens[p.token][p.from] - p.amount
                 debited == [tokens EXCEPT ![p.token][p.from] = less]
                 more == debited[p.token][p.to] + p.amount
      <3>1. tokens' = [debited EXCEPT ![p.token][p.to] = more]
        BY <2>3 DEF ExecuteTransfer
      <3>2. tokens[p.token][p.from] >= p.amount
        BY <2>3 DEF ExecuteTransfer, HoldsTokens
      <3> HIDE DEF p
      <3>3. p.token \in Contracts /\ p.from \in Keys => less \in Nat
        BY <1>0, <3>2 DEF ChainTypeOK
      <3> HIDE DEF less
      <3>4. debited \in [Contracts -> [Keys -> Nat]]
        <4>1. tokens \in [Contracts -> [Keys -> Nat]]
          BY <1>0 DEF ChainTypeOK
        <4> QED BY <3>3, <4>1, ExceptType2, Zenon
      <3> HIDE DEF debited
      <3>5. p.token \in Contracts /\ p.to \in Keys => more \in Nat
        BY <1>0, <3>4
      <3> HIDE DEF more
      <3> QED BY <3>1, <3>4, <3>5, ExceptType2
    <2> QED BY <2>1, <2>2, <2>3 DEF Execute, ExecuteWell, ExecuteBadly,
       ExecuteNative, ExecuteInstall
  <1> QED BY <1>0, <1>1, <1>2, <1>5, <1>6, <1>7 DEF ChainTypeOK

(* Tokens go to accounts the database knows, and a contract is stored under
   the label and the account its deploy names. *)
LEMMA ExecuteEffects ==
    ASSUME IInv, NEW d \in Deploys, Execute(d), UNCHANGED dbVars, Grows
    PROVE  NamedOK' /\ TokensHeldByKnownParty'
  <1> DEFINE p == payload[d]
  <1>0. ChainTypeOK /\ DeployOK(d) /\ NamedOK /\ TokensHeldByKnownParty
    BY DEF IInv, TypeOK
  <1>1. CASE UNCHANGED <<named, tokens>>
    BY <1>1, GrowFrame
  <1>2. CASE ExecuteWell(d) /\ ExecuteInstall(d)
    <2>1. /\ d[1] \in Contracts /\ d = <<d[1], "main">>
          /\ p.from \in Keys /\ p.label \in Labels
          /\ \E party \in Parties : record["sponsor"][party] = p.from
      BY <1>0, <1>2 DEF ExecuteInstall, DeployOK, Deploys, Contracts
    <2>2. /\ status'[<<d[1], "main">>] = "success"
          /\ payload'[<<d[1], "main">>] = p
          /\ p.type = "install"
      BY <1>0, <1>2, <2>1 DEF ExecuteWell, ExecuteInstall, ChainTypeOK
    <2>3. named' = [named EXCEPT ![p.from][p.label] = d[1]]
          /\ tokens' = [tokens EXCEPT ![d[1]][p.from] = p.amount]
      BY <1>2 DEF ExecuteInstall
    <2> HIDE DEF p
    <2>4. ASSUME NEW k \in Keys, NEW l \in Labels, named'[k][l] # None
          PROVE  Backed(named[k][l], l, k)'
      <3>1. CASE k = p.from /\ l = p.label
        <4>1. named'[k][l] = d[1]
          BY <1>0, <2>1, <2>3, <3>1 DEF ChainTypeOK
        <4> QED BY <2>1, <2>2, <3>1, <4>1 DEF Backed
      <3>2. CASE ~(k = p.from /\ l = p.label)
        <4>1. named'[k][l] = named[k][l]
          BY <1>0, <2>3, <3>2 DEF ChainTypeOK
        <4>2. Backed(named[k][l], l, k)
          BY <1>0, <2>4, <4>1 DEF NamedOK
        <4> QED BY <4>1, <4>2 DEF Backed, Grows, Deploys, Purposes, Contracts
      <3> QED BY <3>1, <3>2
    <2>5. NamedOK'
      BY <2>4 DEF NamedOK, Backed
    <2>6. ASSUME NEW c \in Contracts, NEW k \in Keys, tokens'[c][k] > 0
          PROVE  \E role \in Roles, party \in Parties : record'[role][party] = k
      <3>1. tokens'[c][k] = tokens[c][k] \/ k = p.from
        BY <1>0, <2>3 DEF ChainTypeOK
      <3>2. CASE k = p.from
        BY <2>1, <3>2 DEF dbVars, Roles
      <3>3. CASE tokens'[c][k] = tokens[c][k]
        BY <1>0, <2>6, <3>3 DEF TokensHeldByKnownParty, dbVars
      <3> QED BY <3>1, <3>2, <3>3
    <2> QED BY <2>5, <2>6 DEF TokensHeldByKnownParty
  <1>3. CASE ExecuteWell(d) /\ ExecuteTransfer(d)
    <2> DEFINE debited == [tokens EXCEPT ![p.token][p.from] = @ - p.amount]
    <2>1. /\ UNCHANGED named
          /\ tokens' = [debited EXCEPT ![p.token][p.to] = @ + p.amount]
          /\ tokens[p.token][p.from] >= p.amount
          /\ HasRow(p.to)
      BY <1>0, <1>3 DEF ExecuteTransfer, HoldsTokens, DeployOK
    <2>2. NamedOK'
      BY <1>0, <2>1 DEF NamedOK, Backed, Grows, Deploys, Purposes, Contracts
    <2>3. p.amount \in Nat
      BY <1>0 DEF ChainTypeOK, Payloads
    <2> HIDE DEF p
    <2>4. ASSUME NEW c \in Contracts, NEW k \in Keys, tokens'[c][k] > 0
          PROVE  \E role \in Roles, party \in Parties : record'[role][party] = k
      <3>1. CASE k = p.to
        BY <2>1, <3>1 DEF HasRow, dbVars
      <3>2. CASE k # p.to
        <4>1. debited[c][k] > 0
          BY <1>0, <2>1, <2>4, <3>2 DEF ChainTypeOK
        <4>2. tokens[c][k] > 0
          BY <1>0, <2>3, <4>1 DEF ChainTypeOK
        <4> QED BY <1>0, <4>2 DEF TokensHeldByKnownParty, dbVars
      <3> QED BY <3>1, <3>2
    <2> QED BY <2>2, <2>4 DEF TokensHeldByKnownParty
  <1> QED
    BY <1>1, <1>2, <1>3 DEF Execute, ExecuteWell, ExecuteBadly, ExecuteNative

(* The chain executes a deploy, well or badly. *)
LEMMA ChainStepIInv == ASSUME IInv, ChainStep PROVE IInv'
  <1> PICK d \in Deploys : Execute(d)
    BY DEF ChainStep
  <1>0. /\ ChainTypeOK /\ DatabaseTypeOK /\ ApiTypeOK
        /\ status[d] = "pending" /\ payload' = payload
        /\ \A e \in Deploys \ {d} : status'[e] = status[e]
        /\ UNCHANGED <<dbVars, apiVars>>
    BY DEF IInv, TypeOK, ChainStep, Execute, ExecuteWell, ExecuteBadly, ChainTypeOK
  <1>1. Grows
    BY <1>0 DEF Grows, dbVars
  <1>2. TypeOK'
    BY <1>0, ExecuteType DEF TypeOK, DatabaseTypeOK, ApiTypeOK, dbVars, apiVars
  <1>3. ASSUME NEW q \in Requests PROVE RequestOK(q)'
    <2>1. Same(q)
      BY <1>0 DEF Same, apiVars
    <2>2. ASSUME NEW purpose \in Purposes, pc[q] \in Checking \/ Rejected(q)
          PROVE  status'[<<q, purpose>>] = status[<<q, purpose>>]
      <3>1. status[<<q, purpose>>] = "none"
        BY <2>2 DEF IInv, RequestOK, EffectsOK, Untouched
      <3> QED BY <1>0, <3>1 DEF Deploys
    <2> QED BY <1>1, <2>1, <2>2, RequestFrame
  <1>4. NamedOK' /\ TokensHeldByKnownParty'
    BY <1>0, <1>1, ExecuteEffects
  <1>5. (\A e \in Deploys : DeployOK(e)') /\ OfferBacked'
    <2>1. \A e \in Deploys : DeployOK(e)'
      BY <1>0 DEF IInv, DeployOK, HasRow, dbVars
    <2>2. OfferBacked'
      <3>1. \A o \in Saved : <<offers[o].contract, "main">> \in Deploys
        BY <1>0 DEF Saved, DatabaseTypeOK, OfferRows, Deploys, Purposes, Contracts
      <3> QED BY <1>0, <1>1, <3>1 DEF IInv, OfferBacked, Saved, Grows, dbVars
    <2> QED BY <2>1, <2>2
  <1> QED BY <1>2, <1>3, <1>4, <1>5 DEF IInv

-----------------------------------------------------------------------------
(* Every step keeps the invariant: one step per action of Next. *)
LEMMA NextIInv == ASSUME IInv, [Next]_vars PROVE IInv'
  <1>1. ASSUME NEW r \in Requests, Issue(r) PROVE IInv'
    BY <1>1, IssueIInv
  <1>2. ASSUME NEW r \in Requests, ProvisionStep(r) PROVE IInv'
    <2>1. CASE GetRecord(r)
      BY <2>1, GetRecordIInv
    <2>2. CASE GenerateKeypair(r)
      BY <2>2, GenerateKeypairIInv
    <2>3. CASE GenerateKeypairFails(r)
      BY <2>3, ThrowFrame DEF GenerateKeypairFails, At, Settled, localVars
    <2>4. CASE SaveRecord(r)
      BY <2>4, SaveRecordIInv
    <2>5. ASSUME NEW purpose \in {"create", "fund"}, FundPut(r, purpose)
          PROVE  IInv'
      BY <2>5, FundPutIInv
    <2>6. ASSUME NEW purpose \in {"create", "fund"}, FundWait(r, purpose)
          PROVE  IInv'
      BY <2>6, FundWaitIInv
    <2>7. ASSUME NEW purpose \in {"create", "fund"}, FundTimeout(r, purpose)
          PROVE  IInv'
      BY <2>7, ThrowFrame DEF FundTimeout, At, Settled, WaitAwait
    <2> QED
      BY <1>2, <2>1, <2>2, <2>3, <2>4, <2>5, <2>6, <2>7 DEF ProvisionStep
  <1>3. ASSUME NEW r \in Requests, DeployStep(r) PROVE IInv'
    <2>1. CASE SignDeploy(r)
      BY <2>1, SignDeployIInv
    <2>2. CASE MainPut(r)
      BY <2>2, MainPutIInv
    <2>3. CASE MainTimeout(r)
      BY <2>3, ThrowFrame DEF MainTimeout, At, Settled
    <2>4. CASE LoadEntity(r)
      BY <2>4, LoadEntityIInv
    <2>5. CASE AwaitedDiff(r)
      BY <2>5, AwaitedDiffIInv
    <2>6. CASE AwaitedWrite(r)
      BY <2>6, AwaitedWriteIInv
    <2> QED BY <1>3, <2>1, <2>2, <2>3, <2>4, <2>5, <2>6 DEF DeployStep
  <1>4. ASSUME NEW r \in Requests, InstallStep(r) PROVE IInv'
    <2>1. CASE CheckOfferId(r)
      BY <2>1, CheckOfferIdIInv
    <2>2. CASE CheckNameOrSymbol(r)
      BY <2>2, CheckNameOrSymbolIInv
    <2>3. CASE InstallProcessed(r)
      BY <2>3, InstallProcessedIInv
    <2>4. CASE GetContractHash(r)
      BY <2>4, GetContractHashIInv
    <2>5. CASE SaveOffer(r)
      BY <2>5, SaveOfferIInv
    <2>6. CASE BackgroundDiff(r)
      BY <2>6, BackgroundDiffIInv
    <2>7. CASE BackgroundWrite(r)
      BY <2>7, BackgroundWriteIInv
    <2> QED BY <1>4, <2>1, <2>2, <2>3, <2>4, <2>5, <2>6, <2>7 DEF InstallStep
  <1>5. ASSUME NEW r \in Requests, TransferStep(r) PROVE IInv'
    <2>1. CASE GetOffer(r)
      BY <2>1, GetOfferIInv
    <2>2. CASE GetSponsor(r)
      BY <2>2, GetSponsorIInv
    <2>3. CASE GetInvestor(r)
      BY <2>3, GetInvestorIInv
    <2>4. CASE CheckCsprBalance(r)
      BY <2>4, CheckCsprBalanceIInv
    <2>5. CASE TransferProcessed(r)
      BY <2>5, TransferProcessedIInv
    <2> QED BY <1>5, <2>1, <2>2, <2>3, <2>4, <2>5 DEF TransferStep
  <1>6. ASSUME NEW r \in Requests, BalanceStep(r) PROVE IInv'
    <2>1. CASE GetOfferContractHash(r)
      BY <2>1, GetOfferContractHashIInv
    <2>2. CASE GetOfferSponsor(r)
      BY <2>2, GetOfferSponsorIInv
    <2>3. CASE GetBalanceRecord(r)
      BY <2>3, GetBalanceRecordIInv
    <2>4. CASE QueryBalance(r)
      BY <2>4, QueryBalanceIInv
    <2> QED BY <1>6, <2>1, <2>2, <2>3, <2>4 DEF BalanceStep
  <1>7. ASSUME NEW r \in Requests, Step(r) PROVE IInv'
    BY <1>2, <1>3, <1>4, <1>5, <1>6, <1>7 DEF Step
  <1>8. CASE Crash
    BY <1>8, ExitIInv DEF Crash
  <1>9. CASE UNCHANGED vars
    <2>1. TypeOK'
      BY <1>9 DEF IInv, TypeOK, ChainTypeOK, DatabaseTypeOK, ApiTypeOK, vars,
             chainVars, dbVars, apiVars
    <2> QED BY <1>9, <2>1, StillFrame DEF Same, vars, dbVars, apiVars
  <1> QED BY <1>1, <1>7, <1>8, <1>9, ChainStepIInv, RestartIInv DEF Next

(* The inductive invariant holds of every behaviour. *)
THEOREM SpecIInv == Spec => []IInv
  BY InitIInv, NextIInv, PTL DEF Spec

(* Every part of the state stays within its type. *)
THEOREM SpecTypeOK == Spec => []TypeOK
  <1>1. IInv => TypeOK
    BY DEF IInv
  <1> QED BY <1>1, SpecIInv, PTL

(* Every offer saved by install (AppService.saveOffer) stands for a token that
   a successful install deploy created under its name from the account of a
   sponsor, although install never reads the result of its deploy. *)
THEOREM SpecOfferBacked == Spec => []OfferBacked
  <1>1. IInv => OfferBacked
    BY DEF IInv
  <1> QED BY <1>1, SpecIInv, PTL

(* No token is ever held by a key that the sponsor and investor tables do not
   know, whoever wins the race of getOrCreatePublicKey. *)
THEOREM SpecTokensHeldByKnownParty == Spec => []TokensHeldByKnownParty
  <1>1. IInv => TokensHeldByKnownParty
    BY DEF IInv
  <1> QED BY <1>1, SpecIInv, PTL

(* A request that a check of install, transfer or get_balance turned down has
   had no key pair generated and no deploy put. *)
THEOREM SpecNoEffectBeforeRejection == Spec => []NoEffectBeforeRejection
  <1>1. IInv => NoEffectBeforeRejection
    BY DEF IInv, NoEffectBeforeRejection, RequestOK, EffectsOK, Rejected, Untouched
  <1> QED BY <1>1, SpecIInv, PTL

(* What a 201 to install says stays true: the offer keeps the row the request
   wrote, and its contract is one of the sponsor the request named. *)
THEOREM SpecCreatedOfferKept == Spec => []CreatedOfferKept
  <1>1. IInv => CreatedOfferKept
    <2> SUFFICES ASSUME IInv, NEW r \in Requests,
                        reply[r] = 201, req[r].op = "install"
                 PROVE  /\ req[r].offer \in Saved
                        /\ offers[req[r].offer] = NewOffer(r)
                        /\ payload[<<contract[r], "main">>].from
                                = record["sponsor"][req[r].sponsor]
      BY DEF CreatedOfferKept
    <2>1. RequestOK(r) /\ req[r] # None
      BY DEF IInv, RequestOK, HandlerOK
    <2> QED BY <2>1 DEF RequestOK, RowOK, Backed
  <1> QED BY <1>1, SpecIInv, PTL
=============================================================================
