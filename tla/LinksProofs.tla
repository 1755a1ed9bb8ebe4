----------------------------- MODULE LinksProofs -----------------------------
(***************************************************************************)
(* The junction tables and the answers of Equitybrix tell the truth, for   *)
(* every set of requests and every menu: the second invariant, LinksInv,   *)
(* is kept by every step that keeps the first.                             *)
(***************************************************************************)
EXTENDS EquitybrixProofs

USE CasperAssumption, DatabaseAssumption, ApiAssumption

LEMMA InitLinksInv == Init => LinksInv
  <1> SUFFICES ASSUME Init PROVE LinksInv
    OBVIOUS
  <1>1. ASSUME NEW r \in Requests PROVE TransferOK(r) /\ ListOK(r) /\ BalanceOK(r)
    BY DEF Init, ApiInit, TransferOK, ListOK, BalanceOK, BalanceAwaits
  <1>2. \A role \in Roles : links[role] = {}
    BY DEF Init, DatabaseInit
  <1> QED BY <1>1, <1>2 DEF LinksInv

-----------------------------------------------------------------------------
(* Frames. *)

(* Request q stands where it stood, with its parameters and locals. *)
Kept(q) ==
    /\ pc'[q] = pc[q] /\ req'[q] = req[q] /\ key'[q] = key[q]
    /\ contract'[q] = contract[q] /\ list'[q] = list[q]
    /\ bg'[q] = bg[q] /\ reply'[q] = reply[q]

(* Its main deploy is what it was, unless the chain has just executed it. *)
MainKept(q) ==
    LET d == <<q, "main">> IN
    /\ payload'[d] = payload[d]
    /\ status'[d] = status[d] \/ status[d] = "pending"

(* Parameters change when a request comes, and when a balance finds its sponsor. *)
ReqKept(q) == req'[q] = req[q] \/ pc[q] = "idle" \/ req[q].op = "balance"

(* What a link says stays true. *)
LEMMA LinkTrueStays ==
    ASSUME IInv, Grows, \A q \in Requests : ReqKept(q),
           NEW role \in Roles, NEW p \in Parties, NEW o \in OfferIds,
           LinkTrue(role, p, o)
    PROVE  LinkTrue(role, p, o)'
  <1>1. o \in Saved /\ offers'[o] = offers[o]
    BY DEF LinkTrue, InstalledBy, InvestedIn, Grows
  <1>2. o \in Saved' /\ offers[o].contract \in Contracts
    BY <1>1 DEF Saved, IInv, TypeOK, DatabaseTypeOK, OfferRows
  <1>3. CASE role = "sponsor"
    <2> DEFINE d == <<offers[o].contract, "main">>
    <2>1. d \in Deploys /\ status[d] = "success" /\ payload[d].type = "install"
      BY <1>1, <1>2 DEF IInv, OfferBacked, Deploys, Purposes, Contracts
    <2>2. payload[d].from \in Keys /\ payload[d].from = record["sponsor"][p]
      BY <1>3, <2>1 DEF IInv, DeployOK, LinkTrue, InstalledBy
    <2>3. record'["sponsor"][p] = record["sponsor"][p]
      BY <1>3, <2>2 DEF Grows, Keys
    <2>4. payload'[d] = payload[d]
      BY <2>1 DEF Grows
    <2> QED BY <1>1, <1>2, <1>3, <2>2, <2>3, <2>4 DEF LinkTrue, InstalledBy
  <1>4. CASE role # "sponsor"
    <2>1. PICK r \in Requests :
             LET d == <<r, "main">> IN
             /\ req[r] # None
             /\ req[r].op = "invest"
             /\ status[d] = "success"
             /\ payload[d].type = "transfer"
             /\ payload[d].to = record["investor"][p]
             /\ payload[d].token = offers[o].contract
      BY <1>4 DEF LinkTrue, InvestedIn
    <2> DEFINE d == <<r, "main">>
    <2>2. d \in Deploys
      BY DEF Deploys, Purposes
    <2>3. payload[d].to \in Keys
      BY <2>1, <2>2 DEF IInv, DeployOK
    <2>4. record'["investor"][p] = record["investor"][p]
      BY <1>4, <2>1, <2>3 DEF Grows, Keys, Roles
    <2>5. payload'[d] = payload[d] /\ status'[d] = "success"
      BY <2>1, <2>2 DEF Grows
    <2>6. pc[r] # "idle"
      BY <2>1 DEF IInv, RequestOK, EffectsOK, Untouched, Checking, Purposes
    <2>7. req'[r] = req[r]
      BY <2>1, <2>6 DEF ReqKept
    <2> QED BY <1>1, <1>2, <1>4, <2>1, <2>4, <2>5, <2>7 DEF LinkTrue, InvestedIn
  <1> QED BY <1>3, <1>4

(* The party of a request that saves an entity. *)
LEMMA SavingParty ==
    ASSUME IInv, NEW r \in Requests,
           pc[r] \in {"load_entity", "diff", "write"} \/ bg[r] \in {"diff", "write"}
    PROVE  /\ NewPartyRole(r) \in Roles /\ NewParty(r) \in Parties
           /\ req[r] # None /\ req[r].op # "balance" /\ req[r].offer \in OfferIds
           /\ list[r] \subseteq OfferIds
  <1>1. req[r] # None /\ req[r] \in Params /\ ~Missing(req[r]) /\ req[r].op # "balance"
    BY DEF IInv, RequestOK, HandlerOK, Settled, BalanceAwaits, TypeOK, ApiTypeOK
  <1>2. list[r] \subseteq OfferIds
    BY DEF IInv, TypeOK, ApiTypeOK
  <1> QED
    BY <1>1, <1>2 DEF Missing, IncompleteInstall, IncompleteTransfer, NewPartyRole,
       NewParty, PartyOf, Params, Ops, Roles

(* The list of an entity about to be saved stays true of it. *)
LEMMA ListStays ==
    ASSUME IInv, LinksInv, Grows, \A q \in Requests : ReqKept(q), NEW r \in Requests,
           req'[r] = req[r], list'[r] = list[r],
           pc'[r] \in {"diff", "write"} \/ bg'[r] \in {"diff", "write"} =>
              pc[r] \in {"diff", "write"} \/ bg[r] \in {"diff", "write"}
    PROVE  ListOK(r)'
  <1> SUFFICES ASSUME pc[r] \in {"diff", "write"} \/ bg[r] \in {"diff", "write"},
                      NEW o \in list[r]
               PROVE  LinkTrue(NewPartyRole(r), NewParty(r), o)'
    BY DEF ListOK, NewPartyRole, NewParty, PartyOf
  <1>1. /\ NewPartyRole(r) \in Roles /\ NewParty(r) \in Parties /\ o \in OfferIds
        /\ NewPartyRole(r)' = NewPartyRole(r) /\ NewParty(r)' = NewParty(r)
    BY SavingParty DEF NewPartyRole, NewParty, PartyOf
  <1>2. LinkTrue(NewPartyRole(r), NewParty(r), o)
    BY DEF LinksInv, ListOK
  <1>3. PICK role \in Roles, p \in Parties : role = NewPartyRole(r) /\ p = NewParty(r)
    BY <1>1
  <1>4. LinkTrue(role, p, o)'
    BY <1>1, <1>2, <1>3, LinkTrueStays
  <1> QED BY <1>1, <1>3, <1>4 DEF LinkTrue, InstalledBy, InvestedIn

(* A request keeps its part of the invariant through a step of someone else. *)
LEMMA KeptOK ==
    ASSUME IInv, LinksInv, Grows, \A q \in Requests : ReqKept(q),
           NEW r \in Requests, Kept(r), MainKept(r)
    PROVE  TransferOK(r)' /\ ListOK(r)' /\ BalanceOK(r)'
  <1>1. TransferOK(r) /\ BalanceOK(r)
    BY DEF LinksInv
  <1>2. TransferOK(r)'
    <2>1. <<r, "main">> \in Deploys
      BY DEF Deploys, Purposes
    <2> QED
      BY <1>1, <2>1 DEF TransferOK, Kept, MainKept, Grows, Saved, MainPayload, Sender,
         Recipient, SenderRole, RecipientRole, InstallToken, TransferToken
  <1>3. ListOK(r)'
    BY ListStays DEF Kept
  <1>4. BalanceOK(r)'
    <2> SUFFICES ASSUME AskedByOffer(r) PROVE BalanceOK(r)'
      BY DEF BalanceOK, AskedByOffer
    <2>1. contract[r] \in Contracts => <<contract[r], "main">> \in Deploys
      BY DEF Deploys, Purposes, Contracts
    <2>2. pc[r] = "balance_record" =>
             InstalledBy(req[r].sponsor, req[r].offer)'
      <3> SUFFICES ASSUME pc[r] = "balance_record"
                   PROVE  InstalledBy(req[r].sponsor, req[r].offer)'
        OBVIOUS
      <3>1. req[r].sponsor \in Parties /\ req[r].offer \in OfferIds
        BY <1>1 DEF BalanceOK, BalanceAwaits, IInv, RequestOK, HandlerOK, TypeOK,
           ApiTypeOK, Params, Saved
      <3>2. LinkTrue("sponsor", req[r].sponsor, req[r].offer)
        BY <1>1 DEF BalanceOK, LinkTrue
      <3>3. "sponsor" \in Roles /\ req'[r] = req[r]
        BY DEF Roles, Kept
      <3> QED BY <3>1, <3>2, <3>3, LinkTrueStays DEF LinkTrue, InstalledBy
    <2> QED
      BY <1>1, <2>1, <2>2 DEF BalanceOK, AskedByOffer, Kept, Grows, Saved
  <1> QED BY <1>2, <1>3, <1>4

(* A step of request r. *)
LEMMA LinksFrame ==
    ASSUME IInv, LinksInv, Grows, NEW r \in Requests, ReqKept(r),
           \A q \in Requests \ {r} : Kept(q) /\ MainKept(q),
           TransferOK(r)', ListOK(r)', BalanceOK(r)',
           \A role \in Roles, p \in Parties, o \in OfferIds :
              <<p, o>> \in links'[role] =>
                 <<p, o>> \in links[role] \/ LinkTrue(role, p, o)
    PROVE  LinksInv'
  <1>1. \A q \in Requests : ReqKept(q)
    BY DEF Kept, ReqKept
  <1>2. \A q \in Requests : TransferOK(q)' /\ ListOK(q)' /\ BalanceOK(q)'
    BY <1>1, KeptOK
  <1>3. \A role \in Roles, p \in Parties, o \in OfferIds :
           <<p, o>> \in links'[role] => LinkTrue(role, p, o)'
    BY <1>1, LinkTrueStays DEF LinksInv
  <1> QED BY <1>2, <1>3 DEF LinksInv

(* A step that answers request r. *)
LEMMA AnswerLinks ==
    ASSUME IInv, LinksInv, NEW r \in Requests, pc[r] \notin Settled,
           NEW code \in Codes, Answer(r, code), code # 200,
           code = 422 /\ req[r].op \in {"invest", "redeem"} =>
              status'[<<r, "main">>] \in {"none", "failure"},
           UNCHANGED <<req, list, bg>>, Grows,
           \A q \in Requests \ {r} :
              key'[q] = key[q] /\ contract'[q] = contract[q] /\ MainKept(q),
           \A role \in Roles, p \in Parties, o \in OfferIds :
              <<p, o>> \in links'[role] =>
                 <<p, o>> \in links[role] \/ LinkTrue(role, p, o)
    PROVE  LinksInv'
  <1>1. /\ pc'[r] = "replied" /\ reply'[r] = code /\ req'[r] = req[r]
        /\ \A q \in Requests \ {r} : pc'[q] = pc[q] /\ reply'[q] = reply[q]
    BY DEF Answer, IInv, TypeOK, ApiTypeOK
  <1>2. TransferOK(r)'
    BY <1>1 DEF TransferOK, Settled, Saving
  <1>3. BalanceOK(r)'
    BY <1>1 DEF BalanceOK, AskedByOffer, BalanceAwaits
  <1>4. \A q \in Requests : ReqKept(q)
    BY DEF ReqKept
  <1>5. ListOK(r)'
    BY <1>1, <1>4, ListStays
  <1>6. \A q \in Requests \ {r} : Kept(q)
    BY <1>1 DEF Kept
  <1> QED BY <1>2, <1>3, <1>4, <1>5, <1>6, LinksFrame

LEMMA QuietAnswerLinks ==
    ASSUME IInv, LinksInv, NEW r \in Requests, pc[r] \notin Settled,
           NEW code \in Codes \ {200}, Answer(r, code),
           code = 422 /\ req[r].op \in {"invest", "redeem"} =>
              status[<<r, "main">>] \in {"none", "failure"},
           UNCHANGED <<req, list, bg, chainVars, dbVars>>,
           \A q \in Requests \ {r} : key'[q] = key[q] /\ contract'[q] = contract[q]
    PROVE  LinksInv'
  <1>1. Grows /\ \A q \in Requests : MainKept(q)
    BY DEF Grows, MainKept, chainVars, dbVars
  <1>2. links' = links /\ status' = status
    BY DEF chainVars, dbVars
  <1>3. code = 422 /\ req[r].op \in {"invest", "redeem"} =>
           status'[<<r, "main">>] \in {"none", "failure"}
    BY <1>2
  <1>4. \A role \in Roles, p \in Parties, o \in OfferIds :
           <<p, o>> \in links'[role] =>
              <<p, o>> \in links[role] \/ LinkTrue(role, p, o)
    BY <1>2
  <1> QED BY <1>1, <1>3, <1>4, AnswerLinks

LEMMA ThrowLinks ==
    ASSUME IInv, LinksInv, NEW r \in Requests, pc[r] \notin Settled,
           NEW code \in Codes \ {200, 422}, Throw(r, code),
           UNCHANGED <<req, list, bg, dbVars>>, Grows,
           \A q \in Requests \ {r} :
              key'[q] = key[q] /\ contract'[q] = contract[q] /\ MainKept(q)
    PROVE  LinksInv'
  <1> DEFINE sent == IF req[r].op = "install" THEN 500 ELSE code
  <1>1. Answer(r, sent) /\ sent \in Codes /\ sent # 200 /\ sent # 422
    BY DEF Throw, Codes
  <1> HIDE DEF sent
  <1> QED BY <1>1, AnswerLinks DEF dbVars

(* A step that takes request r from one await to another. *)
LEMMA GotoLinks ==
    ASSUME IInv, LinksInv, NEW r \in Requests, pc[r] \notin Settled \cup BalanceAwaits,
           NEW l \in Awaits \ (Settled \cup BalanceAwaits), Goto(r, l),
           l \in {"diff", "write"} => pc[r] \in {"diff", "write"},
           UNCHANGED <<req, list, bg, links>>, Grows,
           \A q \in Requests \ {r} :
              key'[q] = key[q] /\ contract'[q] = contract[q] /\ MainKept(q),
           TransferOK(r)'
    PROVE  LinksInv'
  <1>1. /\ pc'[r] = l /\ reply'[r] = reply[r] /\ req'[r] = req[r]
        /\ \A q \in Requests \ {r} : pc'[q] = pc[q] /\ reply'[q] = reply[q]
    BY DEF Goto, IInv, TypeOK, ApiTypeOK
  <1>2. ~AskedByOffer(r)
    BY DEF LinksInv, BalanceOK, Settled
  <1>3. BalanceOK(r)'
    BY <1>2 DEF BalanceOK, AskedByOffer
  <1>4. \A q \in Requests : ReqKept(q)
    BY DEF ReqKept
  <1>5. ListOK(r)'
    BY <1>1, <1>4, ListStays
  <1>6. \A q \in Requests \ {r} : Kept(q)
    BY <1>1 DEF Kept
  <1> QED BY <1>3, <1>4, <1>5, <1>6, LinksFrame

(* Such a step that leaves the locals, the chain and the database alone. *)
LEMMA QuietGotoLinks ==
    ASSUME IInv, LinksInv, NEW r \in Requests, pc[r] \notin Settled \cup BalanceAwaits,
           NEW l \in Awaits \ (Settled \cup BalanceAwaits), Goto(r, l),
           l \in {"diff", "write"} => pc[r] \in {"diff", "write"},
           UNCHANGED <<req, key, contract, list, bg, chainVars, dbVars>>,
           pc[r] # "get_offer", l # "wait",
           l \in Saving /\ req[r].op \in {"invest", "redeem"} =>
              \/ pc[r] \in Saving
              \/ pc[r] = "wait" /\ req[r].op = "invest" /\ status[<<r, "main">>] = "success"
    PROVE  LinksInv'
  <1>1. Grows /\ \A q \in Requests : MainKept(q)
    BY DEF Grows, MainKept, chainVars, dbVars
  <1>2. reply[r] = 0 /\ pc'[r] = l /\ reply' = reply
    BY DEF IInv, RequestOK, HandlerOK, Settled, Goto, TypeOK, ApiTypeOK
  <1>3. TransferOK(r)
    BY DEF LinksInv
  <1>4. TransferOK(r)'
    BY <1>2, <1>3 DEF TransferOK, Settled, Saved, MainPayload, Sender, Recipient,
       SenderRole, RecipientRole, InstallToken, TransferToken, chainVars, dbVars
  <1> QED BY <1>1, <1>4, GotoLinks DEF dbVars

-----------------------------------------------------------------------------
(* The steps of a request, one after the other. *)
LEMMA IssueLinks ==
    ASSUME IInv, LinksInv, NEW r \in Requests, Issue(r) PROVE LinksInv'
  <1>1. PICK p \in Menu[r] : /\ req' = [req EXCEPT ![r] = p]
                             /\ IF Missing(p) THEN Answer(r, 400)
                                              ELSE Goto(r, FirstAwait(p))
    BY DEF Issue
  <1>2. /\ pc[r] = "idle" /\ reply[r] = 0 /\ bg[r] = "none"
        /\ UNCHANGED <<key, contract, list, bg, chainVars, dbVars>>
    BY DEF Issue, At, IInv, RequestOK, HandlerOK, TypeOK, ApiTypeOK
  <1>3. /\ p \in Params /\ req'[r] = p
        /\ \A q \in Requests \ {r} : req'[q] = req[q]
    BY <1>1 DEF IInv, TypeOK, ApiTypeOK
  <1>4. /\ pc'[r] = (IF Missing(p) THEN "replied" ELSE FirstAwait(p))
        /\ reply'[r] \in {0, 400}
        /\ \A q \in Requests \ {r} : pc'[q] = pc[q] /\ reply'[q] = reply[q]
    BY <1>1, <1>2 DEF Answer, Goto, IInv, TypeOK, ApiTypeOK
  <1>5. TransferOK(r)'
    BY <1>3, <1>4 DEF TransferOK, Settled, Saving, FirstAwait
  <1>6. ListOK(r)'
    BY <1>2, <1>4 DEF ListOK, FirstAwait
  <1>7. BalanceOK(r)'
    <2> SUFFICES ASSUME AskedByOffer(r) PROVE BalanceOK(r)'
      BY DEF BalanceOK, AskedByOffer
    <2>1. p.op = "balance" /\ p.investor = None /\ p.sponsor = None
      BY DEF AskedByOffer
    <2> QED BY <1>3, <1>4, <2>1 DEF BalanceOK, AskedByOffer, FirstAwait, BalanceAwaits
  <1>8. Grows /\ ReqKept(r) /\ \A q \in Requests \ {r} : Kept(q) /\ MainKept(q)
    BY <1>2, <1>3, <1>4 DEF Grows, ReqKept, Kept, MainKept, chainVars, dbVars
  <1> QED BY <1>2, <1>5, <1>6, <1>7, <1>8, LinksFrame DEF dbVars

LEMMA QuietLinks ==
    ASSUME IInv, LinksInv, NEW r \in Requests,
           \/ CheckOfferId(r) \/ CheckNameOrSymbol(r) \/ InstallProcessed(r)
           \/ SignDeploy(r) \/ AwaitedDiff(r) \/ CheckCsprBalance(r)
           \/ \E purpose \in {"create", "fund"} : FundWait(r, purpose)
    PROVE  LinksInv'
  <1> USE DEF At, Settled, BalanceAwaits, Saving, Awaits
  <1>1. UNCHANGED <<req, key, contract, list, bg, chainVars, dbVars>>
    BY DEF CheckOfferId, CheckNameOrSymbol, InstallProcessed, SignDeploy, AwaitedDiff,
       CheckCsprBalance, FundWait, localVars
  <1>2. Grows /\ \A q \in Requests : MainKept(q)
    BY <1>1 DEF Grows, MainKept, chainVars, dbVars
  <1>3. CASE CheckOfferId(r) \/ CheckNameOrSymbol(r)
    <2>1. req[r].op = "install" /\ pc[r] \in {"check_id", "check_name"}
      BY <1>3 DEF CheckOfferId, CheckNameOrSymbol, IInv, RequestOK, HandlerOK,
         InstallAwaits
    <2>2. CASE Answer(r, 422)
      <3> DEFINE code == 422
      <3>1. code \in Codes \ {200} /\ req[r].op \notin {"invest", "redeem"}
        BY <2>1 DEF Codes
      <3>2. Answer(r, code) /\ pc[r] \notin Settled
        BY <2>1, <2>2
      <3> HIDE DEF code
      <3> QED BY <1>1, <3>1, <3>2, QuietAnswerLinks
    <2>3. CASE \E l \in {"check_name", "get_record"} : Goto(r, l)
      BY <1>1, <2>1, <2>3, QuietGotoLinks
    <2> QED BY <1>3, <2>2, <2>3 DEF CheckOfferId, CheckNameOrSymbol
  <1>4. CASE InstallProcessed(r)
    <2>1. pc[r] = "wait" /\ req[r].op = "install" /\ Goto(r, "get_hash")
      BY <1>4 DEF InstallProcessed
    <2> QED BY <1>1, <2>1, QuietGotoLinks
  <1>5. ASSUME pc[r] \in {"sign", "cspr_balance"}, Throw(r, 500) PROVE LinksInv'
    BY <1>1, <1>2, <1>5, ThrowLinks DEF Codes
  <1>6. CASE SignDeploy(r)
    <2>1. CASE Goto(r, "put")
      BY <1>1, <1>6, <2>1, QuietGotoLinks DEF SignDeploy
    <2> QED BY <1>5, <1>6, <2>1 DEF SignDeploy
  <1>7. CASE AwaitedDiff(r)
    BY <1>7, QuietGotoLinks DEF AwaitedDiff
  <1>8. CASE CheckCsprBalance(r)
    <2>1. CASE \E l \in {"fund_put", "sign"} : Goto(r, l)
      BY <1>1, <1>8, <2>1, QuietGotoLinks DEF CheckCsprBalance
    <2> QED BY <1>5, <1>8, <2>1 DEF CheckCsprBalance
  <1>9. CASE \E purpose \in {"create", "fund"} : FundWait(r, purpose)
    <2>1. /\ pc[r] \in {"create_wait", "fund_wait"}
          /\ \E l \in {"save_record", "sign"} : Goto(r, l)
      BY <1>9 DEF FundWait, WaitAwait, AfterFunding
    <2> QED BY <1>1, <2>1, QuietGotoLinks
  <1> QED BY <1>3, <1>4, <1>6, <1>7, <1>8, <1>9

(* The answers to failures of a call: of the KMS, the node, a wait. *)
LEMMA FailureLinks ==
    ASSUME IInv, LinksInv, NEW r \in Requests,
           \/ GenerateKeypairFails(r) \/ MainTimeout(r)
           \/ \E purpose \in {"create", "fund"} :
                 FundTimeout(r, purpose) \/ PutRefused(r, purpose, FundPayload(r, purpose))
           \/ PutRefused(r, "main", MainPayload(r))
    PROVE  LinksInv'
  <1>1. /\ UNCHANGED <<bg, localVars, chainVars, dbVars>>
        /\ \E code \in {500, 417} : Throw(r, code)
        /\ pc[r] \in {"generate", "wait", "create_wait", "fund_wait", "create_put",
                      "fund_put", "put"}
    BY DEF GenerateKeypairFails, MainTimeout, FundTimeout, PutRefused, At, PutAwait,
       WaitAwait, localVars
  <1>2. Grows /\ \A q \in Requests : MainKept(q)
    BY <1>1 DEF Grows, MainKept, chainVars, dbVars
  <1> QED BY <1>1, <1>2, ThrowLinks DEF Settled, Codes, localVars

(* A step that finds a key, or none, and touches nothing else. *)
LEMMA KeyLinks ==
    ASSUME IInv, LinksInv, NEW r \in Requests,
           GetRecord(r) \/ GenerateKeypair(r) \/ GetSponsor(r) \/ GetInvestor(r)
    PROVE  LinksInv'
  <1>1. /\ UNCHANGED <<req, contract, list, bg, chainVars, dbVars>>
        /\ \A q \in Requests \ {r} : key'[q] = key[q]
        /\ pc[r] \in {"get_record", "generate", "get_sponsor", "get_investor"}
    BY DEF GetRecord, GenerateKeypair, GetSponsor, GetInvestor, GetPublicKey, At, IInv,
       TypeOK, ApiTypeOK
  <1>2. Grows /\ \A q \in Requests : MainKept(q)
    BY <1>1 DEF Grows, MainKept, chainVars, dbVars
  <1>3. \/ Throw(r, 428)
        \/ \E l \in {"generate", "fund_put", "cspr_balance", "create_put",
                     "get_investor", "get_record"} : Goto(r, l)
    BY DEF GetRecord, AfterKeys, GenerateKeypair, GetSponsor, GetInvestor, GetPublicKey
  <1>4. CASE Throw(r, 428)
    <2> DEFINE code == 428
    <2>1. code \in Codes \ {200, 422} /\ Throw(r, code) /\ pc[r] \notin Settled
      BY <1>1, <1>4 DEF Codes, Settled
    <2> HIDE DEF code
    <2> QED BY <1>1, <1>2, <2>1, ThrowLinks
  <1>5. ASSUME NEW l \in {"generate", "fund_put", "cspr_balance", "create_put",
                          "get_investor", "get_record"}, Goto(r, l)
        PROVE  LinksInv'
    <2>1. /\ l \in Awaits \ (Settled \cup BalanceAwaits) /\ l \notin {"diff", "write"}
          /\ pc[r] \notin Settled \cup BalanceAwaits
      BY <1>1 DEF Awaits, Settled, BalanceAwaits
    <2>2. reply[r] = 0 /\ pc'[r] = l /\ reply'[r] = reply[r]
      BY <1>5, <2>1 DEF Goto, IInv, RequestOK, HandlerOK, Settled, TypeOK, ApiTypeOK
    <2>3. TransferOK(r)'
      BY <1>1, <2>2 DEF LinksInv, TransferOK, Settled, Saving, Saved, dbVars
    <2> QED BY <1>1, <1>2, <1>5, <2>1, <2>3, GotoLinks DEF dbVars
  <1> QED BY <1>3, <1>4, <1>5

(* A transfer takes the contract of its offer. *)
LEMMA GetOfferLinks ==
    ASSUME IInv, LinksInv, NEW r \in Requests, GetOffer(r) PROVE LinksInv'
  <1>1. /\ UNCHANGED <<req, key, list, bg, chainVars, dbVars>>
        /\ \A q \in Requests \ {r} : contract'[q] = contract[q]
        /\ pc[r] = "get_offer" /\ pc[r] \notin Settled \cup BalanceAwaits
        /\ req[r].op \in {"invest", "redeem"} /\ reply[r] = 0
    BY DEF GetOffer, At, IInv, RequestOK, HandlerOK, TransferAwaits, Settled,
       BalanceAwaits, TypeOK, ApiTypeOK
  <1>2. Grows /\ \A q \in Requests : MainKept(q)
    BY <1>1 DEF Grows, MainKept, chainVars, dbVars
  <1>3. CASE req[r].offer \in Saved
    <2> DEFINE l == "get_sponsor"
    <2>1. /\ contract'[r] = offers[req[r].offer].contract /\ Goto(r, l)
      BY <1>3 DEF GetOffer, IInv, TypeOK, ApiTypeOK
    <2>2. l \in Awaits \ (Settled \cup BalanceAwaits) /\ l \notin {"diff", "write"}
      BY DEF Awaits, Settled, BalanceAwaits
    <2>3. pc'[r] = "get_sponsor" /\ reply'[r] = reply[r]
      BY <2>1 DEF Goto, IInv, TypeOK, ApiTypeOK
    <2>4. TransferOK(r)'
      BY <1>1, <1>3, <2>1, <2>3 DEF TransferOK, Saving, Saved, dbVars
    <2> HIDE DEF l
    <2> QED BY <1>1, <1>2, <2>1, <2>2, <2>4, GotoLinks DEF dbVars
  <1>4. CASE req[r].offer \notin Saved
    <2> DEFINE code == 422
    <2>1. Answer(r, code) /\ code \in Codes \ {200}
      BY <1>1, <1>4 DEF GetOffer, Throw, Codes
    <2>2. status[<<r, "main">>] = "none"
      BY <1>1 DEF IInv, RequestOK, EffectsOK, Checking, Untouched, Purposes
    <2>3. contract' = contract
      BY <1>4 DEF GetOffer
    <2> HIDE DEF code
    <2> QED BY <1>1, <2>1, <2>2, <2>3, QuietAnswerLinks
  <1> QED BY <1>3, <1>4

(* The answer to a transfer whose deploy the chain has executed. *)
LEMMA TransferProcessedLinks ==
    ASSUME IInv, LinksInv, NEW r \in Requests, TransferProcessed(r) PROVE LinksInv'
  <1>1. /\ UNCHANGED <<req, key, contract, list, bg, chainVars, dbVars>>
        /\ pc[r] = "wait" /\ req[r].op \in {"invest", "redeem"}
        /\ status[<<r, "main">>] \in {"success", "failure"}
        /\ pc[r] \notin Settled \cup BalanceAwaits /\ pc[r] # "get_offer"
    BY DEF TransferProcessed, At, Processed, localVars, Settled, BalanceAwaits
  <1>2. CASE status[<<r, "main">>] = "failure"
    <2> DEFINE code == 422
    <2>1. Answer(r, code) /\ code \in Codes \ {200}
      BY <1>1, <1>2 DEF TransferProcessed, Throw, Codes
    <2> HIDE DEF code
    <2> QED BY <1>1, <1>2, <2>1, QuietAnswerLinks
  <1>3. CASE status[<<r, "main">>] = "success" /\ req[r].op = "redeem"
    <2> DEFINE code == 201
    <2>1. Answer(r, code) /\ code \in Codes \ {200} /\ code # 422
      BY <1>3 DEF TransferProcessed, Codes
    <2> HIDE DEF code
    <2> QED BY <1>1, <2>1, QuietAnswerLinks
  <1>4. CASE status[<<r, "main">>] = "success" /\ req[r].op = "invest"
    <2> DEFINE l == "load_entity"
    <2>1. Goto(r, l) /\ l \in Awaits \ (Settled \cup BalanceAwaits)
                     /\ l \notin {"diff", "write", "wait"}
      BY <1>4 DEF TransferProcessed, Awaits, Settled, BalanceAwaits
    <2> HIDE DEF l
    <2> QED BY <1>1, <1>4, <2>1, QuietGotoLinks
  <1> QED BY <1>1, <1>2, <1>3, <1>4

(* The deploys a request puts: of its main one, if it transfers, the invariant
   knows what it asks for. *)
LEMMA PutLinks ==
    ASSUME IInv, LinksInv, NEW r \in Requests, NEW purpose \in Purposes, NEW p,
           PutDeploy(r, purpose, p), purpose = "main" => p = MainPayload(r)
    PROVE  LinksInv'
  <1> DEFINE d == <<r, purpose>>
  <1>1. /\ UNCHANGED <<req, key, contract, list, bg, dbVars>>
        /\ status[d] = "none" /\ status' = [status EXCEPT ![d] = "pending"]
        /\ payload' = [payload EXCEPT ![d] = p]
        /\ pc[r] \in {"create_put", "fund_put", "put"}
        /\ \/ Throw(r, 500)
           \/ Goto(r, WaitAwait[purpose])
    BY DEF PutDeploy, Put, At, PutAwait, localVars, Purposes
  <1>2. d \in Deploys /\ \A e \in Deploys \ {d} : status'[e] = status[e] /\ payload'[e] = payload[e]
    BY <1>1 DEF Deploys, IInv, TypeOK, ChainTypeOK
  <1>3. Grows
    BY <1>1, <1>2 DEF Grows, dbVars
  <1>4. \A q \in Requests \ {r} : MainKept(q)
    BY <1>2 DEF MainKept, Deploys, Purposes
  <1>5. pc[r] \notin Settled \cup BalanceAwaits /\ reply[r] = 0
    BY <1>1 DEF Settled, BalanceAwaits, IInv, RequestOK, HandlerOK
  <1>6. CASE Throw(r, 500)
    <2> DEFINE code == 500
    <2>1. Throw(r, code) /\ code \in Codes \ {200, 422}
      BY <1>6 DEF Codes
    <2> HIDE DEF code
    <2> QED BY <1>1, <1>3, <1>4, <1>5, <2>1, ThrowLinks
  <1>7. CASE Goto(r, WaitAwait[purpose])
    <2>1. PICK l \in {"create_wait", "fund_wait", "wait"} :
             Goto(r, l) /\ (l = "wait" => purpose = "main")
      BY <1>7 DEF WaitAwait, Purposes
    <2>2. l \in Awaits \ (Settled \cup BalanceAwaits) /\ l \notin {"diff", "write"}
      BY DEF Awaits, Settled, BalanceAwaits
    <2>3. pc'[r] = l /\ reply'[r] = reply[r]
      BY <2>1 DEF Goto, IInv, TypeOK, ApiTypeOK
    <2>4. purpose = "main" => payload'[<<r, "main">>] = p
      BY <1>1, <1>2 DEF IInv, TypeOK, ChainTypeOK
    <2>5. MainPayload(r)' = MainPayload(r)
      BY <1>1 DEF MainPayload, Sender, Recipient, SenderRole, RecipientRole,
         InstallToken, TransferToken
    <2>6. TransferOK(r)'
      BY <1>1, <1>5, <2>1, <2>3, <2>4, <2>5
      DEF LinksInv, TransferOK, Settled, Saving, Saved, dbVars
    <2> QED BY <1>1, <1>3, <1>4, <1>5, <2>1, <2>2, <2>6, GotoLinks DEF dbVars
  <1> QED BY <1>1, <1>6, <1>7

(* A row is inserted, or the constraint answers: of a party ... *)
LEMMA SaveRecordLinks ==
    ASSUME IInv, LinksInv, NEW r \in Requests, SaveRecord(r) PROVE LinksInv'
  <1> DEFINE role == NewPartyRole(r)
             party == NewParty(r)
  <1>1. /\ UNCHANGED <<req, key, contract, list, bg, chainVars>>
        /\ pc[r] = "save_record" /\ pc[r] \notin Settled \cup BalanceAwaits /\ reply[r] = 0
    BY DEF SaveRecord, At, localVars, Settled, BalanceAwaits, IInv, RequestOK, HandlerOK
  <1>2. CASE CanInsertParty(role, party, key[r][role])
    <2>1. /\ record[role][party] = None
          /\ record' = [record EXCEPT ![role][party] = key[r][role]]
          /\ UNCHANGED <<offers, links>>
      BY <1>2 DEF SaveRecord, CanInsertParty, InsertParty
    <2>2. Grows
      BY <1>1, <2>1 DEF Grows, chainVars, IInv, TypeOK, DatabaseTypeOK
    <2>3. \A q \in Requests : MainKept(q)
      BY <1>1 DEF MainKept, chainVars
    <2>4. PICK l \in {"fund_put", "cspr_balance"} : Goto(r, l)
      BY <1>2 DEF SaveRecord, AfterKeys
    <2>5. l \in Awaits \ (Settled \cup BalanceAwaits) /\ l \notin {"diff", "write"}
      BY DEF Awaits, Settled, BalanceAwaits
    <2>6. pc'[r] = l /\ reply'[r] = reply[r]
      BY <2>4 DEF Goto, IInv, TypeOK, ApiTypeOK
    <2>7. TransferOK(r)'
      BY <1>1, <2>1, <2>6 DEF LinksInv, TransferOK, Settled, Saving, Saved
    <2> QED BY <1>1, <2>1, <2>2, <2>3, <2>4, <2>5, <2>7, GotoLinks
  <1>3. CASE ~CanInsertParty(role, party, key[r][role])
    <2> DEFINE code == 500
    <2>1. Throw(r, code) /\ code \in Codes \ {200, 422} /\ UNCHANGED dbVars
      BY <1>3 DEF SaveRecord, Codes
    <2> HIDE DEF code
    <2>2. Grows /\ \A q \in Requests : MainKept(q)
      BY <1>1, <2>1 DEF Grows, MainKept, chainVars, dbVars
    <2> QED BY <1>1, <2>1, <2>2, ThrowLinks
  <1> QED BY <1>2, <1>3

(* ... and of an offer. *)
LEMMA SaveOfferLinks ==
    ASSUME IInv, LinksInv, NEW r \in Requests, SaveOffer(r) PROVE LinksInv'
  <1> DEFINE o == req[r].offer
  <1>1. /\ UNCHANGED <<req, key, contract, list, bg, chainVars>>
        /\ pc[r] = "insert_offer" /\ pc[r] \notin Settled \cup BalanceAwaits
        /\ req[r].op = "install"
    BY DEF SaveOffer, At, localVars, Settled, BalanceAwaits, IInv, RequestOK, HandlerOK,
       InstallAwaits
  <1>2. CASE CanInsertOffer(o, NewOffer(r))
    <2>1. /\ offers[o] = None /\ offers' = [offers EXCEPT ![o] = NewOffer(r)]
          /\ UNCHANGED <<record, links>>
      BY <1>2 DEF SaveOffer, CanInsertOffer, InsertOffer
    <2>2. Grows
      BY <1>1, <2>1 DEF Grows, Saved, chainVars, IInv, TypeOK, DatabaseTypeOK
    <2>3. \A q \in Requests : MainKept(q)
      BY <1>1 DEF MainKept, chainVars
    <2> DEFINE l == "load_entity"
    <2>4. Goto(r, l) /\ l \in Awaits \ (Settled \cup BalanceAwaits)
                     /\ l \notin {"diff", "write"}
      BY <1>2 DEF SaveOffer, Awaits, Settled, BalanceAwaits
    <2>5. TransferOK(r)'
      BY <1>1 DEF TransferOK
    <2> HIDE DEF l
    <2> QED BY <1>1, <2>1, <2>2, <2>3, <2>4, <2>5, GotoLinks
  <1>3. CASE ~CanInsertOffer(o, NewOffer(r))
    <2> DEFINE code == 500
    <2>1. Throw(r, code) /\ code \in Codes \ {200, 422} /\ UNCHANGED dbVars
      BY <1>3 DEF SaveOffer, Codes
    <2> HIDE DEF code
    <2>2. Grows /\ \A q \in Requests : MainKept(q)
      BY <1>1, <2>1 DEF Grows, MainKept, chainVars, dbVars
    <2> QED BY <1>1, <2>1, <2>2, ThrowLinks
  <1> QED BY <1>2, <1>3

LEMMA GetContractHashLinks ==
    ASSUME IInv, LinksInv, NEW r \in Requests, GetContractHash(r) PROVE LinksInv'
  <1>1. /\ UNCHANGED <<req, key, list, bg, chainVars, dbVars>>
        /\ \A q \in Requests \ {r} : contract'[q] = contract[q]
        /\ pc[r] = "get_hash" /\ pc[r] \notin Settled \cup BalanceAwaits
        /\ req[r].op = "install"
    BY DEF GetContractHash, At, Settled, BalanceAwaits, InstallAwaits, IInv, RequestOK,
       HandlerOK, TypeOK, ApiTypeOK
  <1>2. Grows /\ \A q \in Requests : MainKept(q)
    BY <1>1 DEF Grows, MainKept, chainVars, dbVars
  <1> DEFINE code == 500
             l == "insert_offer"
  <1>3. /\ code \in Codes \ {200, 422}
        /\ l \in Awaits \ (Settled \cup BalanceAwaits) /\ l \notin {"diff", "write"}
        /\ Throw(r, code) \/ Goto(r, l)
    BY DEF GetContractHash, Codes, Awaits, Settled, BalanceAwaits
  <1>4. TransferOK(r)'
    BY <1>1 DEF TransferOK
  <1> HIDE DEF code, l
  <1>5. CASE Throw(r, code)
    BY <1>1, <1>2, <1>3, <1>5, ThrowLinks
  <1>6. CASE Goto(r, l)
    BY <1>1, <1>2, <1>3, <1>4, <1>6, GotoLinks DEF dbVars
  <1> QED BY <1>3, <1>5, <1>6

-----------------------------------------------------------------------------
(* The save of an entity. *)

(* An offer is added to the list of its sponsor once it stands in the table, and
   to that of an investor once its deploy has succeeded. *)
LEMMA LoadEntityLinks ==
    ASSUME IInv, LinksInv, NEW r \in Requests, LoadEntity(r) PROVE LinksInv'
  <1> DEFINE role == NewPartyRole(r)
             p == NewParty(r)
             o == req[r].offer
  <1>1. /\ UNCHANGED <<req, key, contract, reply, chainVars, dbVars>>
        /\ pc[r] = "load_entity" /\ pc[r] \notin Settled \cup BalanceAwaits
        /\ pc' = [pc EXCEPT ![r] = "diff"]
        /\ list' = [list EXCEPT ![r] = LinkedOffers(role, p) \cup {o}]
        /\ \A q \in Requests \ {r} : bg'[q] = bg[q]
    BY DEF LoadEntity, At, Goto, Settled, BalanceAwaits, IInv, TypeOK, ApiTypeOK
  <1>2. /\ role \in Roles /\ p \in Parties /\ o \in OfferIds
        /\ req[r] # None /\ req[r].op # "balance"
    BY <1>1, SavingParty
  <1>3. pc'[r] = "diff" /\ list'[r] = LinkedOffers(role, p) \cup {o}
    BY <1>1 DEF IInv, TypeOK, ApiTypeOK
  <1>4. Grows /\ \A q \in Requests \ {r} : Kept(q) /\ MainKept(q)
    BY <1>1 DEF Grows, Kept, MainKept, chainVars, dbVars, IInv, TypeOK, ApiTypeOK
  <1>5. LinkTrue(role, p, o)
    <2>1. CASE req[r].op = "install"
      <3>1. /\ o \in Saved /\ offers[o] = NewOffer(r)
            /\ Backed(contract[r], req[r].name, record["sponsor"][req[r].sponsor])
        BY <1>1, <1>2, <2>1 DEF IInv, RequestOK, RowOK, Saving
      <3>2. offers[o].contract = contract[r] /\ p = req[r].sponsor /\ role = "sponsor"
        BY <2>1, <3>1 DEF NewOffer, NewParty, NewPartyRole, PartyOf
      <3> QED BY <3>1, <3>2 DEF LinkTrue, InstalledBy, Backed
    <2>2. CASE req[r].op # "install"
      <3>1. req[r].op \in {"invest", "redeem"}
        BY <1>1, <1>2, <2>2 DEF IInv, TypeOK, ApiTypeOK, Params, Ops
      <3>2. /\ o \in Saved /\ contract[r] = offers[o].contract
            /\ payload[<<r, "main">>] = MainPayload(r)
            /\ req[r].op = "invest" /\ status[<<r, "main">>] = "success"
        BY <1>1, <1>2, <3>1 DEF LinksInv, TransferOK, Saving, Settled
      <3>3. /\ payload[<<r, "main">>].type = "transfer"
            /\ payload[<<r, "main">>].to = key[r]["investor"]
            /\ payload[<<r, "main">>].token = contract[r]
        BY <3>2 DEF MainPayload, TransferToken, Nothing, Recipient, RecipientRole
      <3>4. Known(r, "investor") /\ p = req[r].investor /\ role = "investor"
        BY <1>1, <3>2 DEF IInv, RequestOK, KeysOK, Paying, Saving, NewParty,
           NewPartyRole, PartyOf
      <3> QED BY <1>2, <3>2, <3>3, <3>4 DEF LinkTrue, InvestedIn, Known, PartyOf
    <2> QED BY <2>1, <2>2
  <1>6. ListOK(r)'
    <2> SUFFICES ASSUME NEW i \in list'[r] PROVE LinkTrue(role, p, i)'
      BY <1>1 DEF ListOK, NewPartyRole, NewParty, PartyOf
    <2>1. LinkTrue(role, p, i)
      BY <1>2, <1>3, <1>5 DEF LinkedOffers, LinksInv
    <2> QED BY <1>1, <2>1 DEF LinkTrue, InstalledBy, InvestedIn, Saved, chainVars, dbVars,
               NewPartyRole, NewParty, PartyOf
  <1>7. TransferOK(r)'
    <2>1. MainPayload(r)' = MainPayload(r)
      BY <1>1 DEF MainPayload, Sender, Recipient, SenderRole, RecipientRole,
         InstallToken, TransferToken
    <2>2. UNCHANGED <<req, contract, reply, status, payload, offers>>
      BY <1>1 DEF chainVars, dbVars
    <2> QED BY <1>1, <1>3, <2>1, <2>2 DEF LinksInv, TransferOK, Settled, Saving, Saved
  <1>8. BalanceOK(r)'
    <2>1. ~AskedByOffer(r)
      BY <1>1 DEF LinksInv, BalanceOK, Settled
    <2> QED BY <2>1 DEF BalanceOK, AskedByOffer
  <1>9. ReqKept(r) /\ links' = links
    BY <1>1 DEF ReqKept, dbVars
  <1> HIDE DEF role, p, o
  <1> QED BY <1>4, <1>6, <1>7, <1>8, <1>9, LinksFrame

(* The write of the difference adds offers of the list and no others. *)
LEMMA SaveWriteLinks ==
    ASSUME IInv, LinksInv, NEW r \in Requests, NEW task \in Tasks, SaveWrite(r, task),
           pc[r] = "write" \/ bg[r] = "write"
    PROVE  \A role \in Roles, p \in Parties, o \in OfferIds :
              <<p, o>> \in links'[role] =>
                 <<p, o>> \in links[role] \/ LinkTrue(role, p, o)
  <1> SUFFICES ASSUME NEW role \in Roles, NEW p \in Parties, NEW o \in OfferIds,
                      <<p, o>> \in links'[role], <<p, o>> \notin links[role]
               PROVE  LinkTrue(role, p, o)
    OBVIOUS
  <1>1. links \in [Roles -> SUBSET (Parties \X OfferIds)] /\ NewPartyRole(r) \in Roles
    BY SavingParty DEF IInv, TypeOK, DatabaseTypeOK
  <1>2. role = NewPartyRole(r) /\ p = NewParty(r) /\ o \in list[r]
    BY <1>1 DEF SaveWrite, SaveList
  <1> QED BY <1>2 DEF LinksInv, ListOK

LEMMA AwaitedWriteLinks ==
    ASSUME IInv, LinksInv, NEW r \in Requests, AwaitedWrite(r) PROVE LinksInv'
  <1>1. /\ UNCHANGED <<req, key, contract, list, bg, chainVars>>
        /\ pc[r] = "write" /\ pc[r] \notin Settled
    BY DEF AwaitedWrite, At, localVars, Settled
  <1>2. \A q \in Requests : MainKept(q)
    BY <1>1 DEF MainKept, chainVars
  <1>3. CASE CanSaveWrite(r, "fg")
    <2> DEFINE code == 201
    <2>1. Answer(r, code) /\ code \in Codes \ {200} /\ code # 422
          /\ SaveWrite(r, "fg")
      BY <1>3 DEF AwaitedWrite, Codes
    <2>2. Grows
      BY <1>1, <2>1 DEF Grows, SaveWrite, SaveList, chainVars
    <2>3. \A role \in Roles, p \in Parties, o \in OfferIds :
             <<p, o>> \in links'[role] =>
                <<p, o>> \in links[role] \/ LinkTrue(role, p, o)
      BY <1>1, <2>1, SaveWriteLinks DEF Tasks
    <2> HIDE DEF code
    <2> QED BY <1>1, <1>2, <2>1, <2>2, <2>3, AnswerLinks
  <1>4. CASE ~CanSaveWrite(r, "fg")
    <2> DEFINE code == 500
    <2>1. Throw(r, code) /\ code \in Codes \ {200, 422} /\ UNCHANGED dbVars
      BY <1>4 DEF AwaitedWrite, Codes
    <2> HIDE DEF code
    <2>2. Grows
      BY <1>1, <2>1 DEF Grows, chainVars, dbVars
    <2> QED BY <1>1, <1>2, <2>1, <2>2, ThrowLinks
  <1> QED BY <1>3, <1>4

(* The save that nobody awaits. *)
LEMMA BackgroundLinks ==
    ASSUME IInv, LinksInv, NEW r \in Requests,
           \/ BackgroundDiff(r)
           \/ BackgroundWrite(r) /\ CanSaveWrite(r, "bg")
    PROVE  LinksInv'
  <1>1. /\ UNCHANGED <<pc, req, key, contract, list, reply, chainVars, record, offers>>
        /\ \A q \in Requests \ {r} : bg'[q] = bg[q]
        /\ bg'[r] \in {"write", "done"} /\ bg[r] \in {"diff", "write"}
    BY DEF BackgroundDiff, BackgroundWrite, SaveWrite, SaveList, localVars, dbVars, IInv,
       TypeOK, ApiTypeOK
  <1>2. Grows /\ \A q \in Requests : MainKept(q) /\ ReqKept(q)
    BY <1>1 DEF Grows, MainKept, ReqKept, chainVars
  <1>3. \A q \in Requests \ {r} : Kept(q)
    BY <1>1 DEF Kept
  <1>4. ListOK(r)'
    BY <1>1, <1>2, ListStays
  <1>5. TransferOK(r)' /\ BalanceOK(r)'
    <2>1. MainPayload(r)' = MainPayload(r)
      BY <1>1 DEF MainPayload, Sender, Recipient, SenderRole, RecipientRole,
         InstallToken, TransferToken
    <2>2. UNCHANGED <<pc, req, key, contract, reply, status, payload, offers, record>>
      BY <1>1 DEF chainVars
    <2>3. TransferOK(r)'
      BY <2>1, <2>2 DEF LinksInv, TransferOK, Saved
    <2>4. BalanceOK(r)'
      BY <2>2 DEF LinksInv, BalanceOK, AskedByOffer, InstalledBy, Saved
    <2> QED BY <2>3, <2>4
  <1>6. \A role \in Roles, p \in Parties, o \in OfferIds :
           <<p, o>> \in links'[role] =>
              <<p, o>> \in links[role] \/ LinkTrue(role, p, o)
    <2>1. CASE BackgroundDiff(r)
      BY <2>1 DEF BackgroundDiff, dbVars
    <2>2. CASE BackgroundWrite(r) /\ CanSaveWrite(r, "bg")
      BY <2>2, SaveWriteLinks DEF BackgroundWrite, Tasks
    <2> QED BY <2>1, <2>2
  <1> QED BY <1>2, <1>3, <1>4, <1>5, <1>6, LinksFrame

-----------------------------------------------------------------------------
(* A balance. *)
LEMMA BalanceHashLinks ==
    ASSUME IInv, LinksInv, NEW r \in Requests, GetOfferContractHash(r) PROVE LinksInv'
  <1>1. /\ UNCHANGED <<req, key, list, bg, chainVars, dbVars>>
        /\ \A q \in Requests \ {r} : contract'[q] = contract[q]
        /\ pc[r] = "balance_hash" /\ pc[r] \notin Settled
        /\ req[r].op = "balance" /\ reply[r] = 0 /\ req[r] # None
    BY DEF GetOfferContractHash, At, IInv, RequestOK, HandlerOK, BalanceAwaits, Settled,
       TypeOK, ApiTypeOK
  <1>2. Grows /\ \A q \in Requests : MainKept(q) /\ ReqKept(q)
    BY <1>1 DEF Grows, MainKept, ReqKept, chainVars, dbVars
  <1>3. CASE req[r].offer \in Saved
    <2>1. PICK l \in {"balance_sponsors", "balance_record"} :
             /\ Goto(r, l)
             /\ l = "balance_record" => req[r].investor # None \/ req[r].sponsor # None
      BY <1>3 DEF GetOfferContractHash
    <2>2. contract'[r] = offers[req[r].offer].contract
      BY <1>3 DEF GetOfferContractHash, IInv, TypeOK, ApiTypeOK
    <2>3. /\ pc'[r] = l /\ reply'[r] = 0
          /\ \A q \in Requests \ {r} : pc'[q] = pc[q] /\ reply'[q] = reply[q]
      BY <1>1, <2>1 DEF Goto, IInv, TypeOK, ApiTypeOK
    <2>4. TransferOK(r)'
      BY <1>1 DEF TransferOK
    <2>5. ListOK(r)'
      BY <1>1, <1>2, <2>3, ListStays
    <2>6. BalanceOK(r)'
      <3> SUFFICES ASSUME AskedByOffer(r) PROVE BalanceOK(r)'
        BY DEF BalanceOK, AskedByOffer
      <3>1. req[r].investor = None /\ req[r].sponsor = None
        BY <1>1 DEF LinksInv, BalanceOK, BalanceAwaits
      <3>2. pc'[r] = "balance_sponsors" /\ reply'[r] # 200 /\ req'[r].investor = None
        BY <1>1, <2>1, <2>3, <3>1
      <3>3. req'[r].offer \in Saved' /\ contract'[r] = offers'[req'[r].offer].contract
        BY <1>1, <1>3, <2>2 DEF Saved, dbVars
      <3> QED BY <3>2, <3>3 DEF BalanceOK, BalanceAwaits
    <2>7. \A q \in Requests \ {r} : Kept(q)
      BY <1>1, <2>3 DEF Kept
    <2> QED BY <1>1, <1>2, <2>4, <2>5, <2>6, <2>7, LinksFrame DEF dbVars
  <1>4. CASE req[r].offer \notin Saved
    <2> DEFINE code == 428
    <2>1. Throw(r, code) /\ code \in Codes \ {200, 422} /\ contract' = contract
      BY <1>4 DEF GetOfferContractHash, Codes
    <2> HIDE DEF code
    <2> QED BY <1>1, <1>2, <2>1, ThrowLinks
  <1> QED BY <1>3, <1>4

(* Any sponsor that the offer is linked to has installed it. *)
LEMMA BalanceSponsorLinks ==
    ASSUME IInv, LinksInv, NEW r \in Requests, GetOfferSponsor(r) PROVE LinksInv'
  <1>1. /\ UNCHANGED <<key, contract, list, bg, chainVars, dbVars>>
        /\ pc[r] = "balance_sponsors" /\ pc[r] \notin Settled
        /\ req[r].op = "balance" /\ reply[r] = 0 /\ req[r] # None
        /\ req[r].offer \in OfferIds /\ req[r].investor \in OrNone(Parties)
        /\ bg[r] \notin {"diff", "write"}
    BY DEF GetOfferSponsor, At, IInv, RequestOK, HandlerOK, BalanceAwaits, Settled,
       TypeOK, ApiTypeOK, Params, Missing, BadBalance, OrNone
  <1>2. CASE \E p \in Parties : /\ <<p, req[r].offer>> \in links["sponsor"]
                                /\ req' = [req EXCEPT ![r].sponsor = p]
                                /\ Goto(r, "balance_record")
    <2>1. PICK p \in Parties : /\ <<p, req[r].offer>> \in links["sponsor"]
                               /\ req' = [req EXCEPT ![r].sponsor = p]
                               /\ Goto(r, "balance_record")
      BY <1>2
    <2>2. /\ req'[r] = [req[r] EXCEPT !.sponsor = p]
          /\ pc'[r] = "balance_record" /\ reply'[r] = 0
          /\ \A q \in Requests \ {r} :
                pc'[q] = pc[q] /\ reply'[q] = reply[q] /\ req'[q] = req[q]
      BY <1>1, <2>1 DEF Goto, IInv, TypeOK, ApiTypeOK
    <2>3. /\ req'[r].op = "balance" /\ req'[r].sponsor = p
          /\ req'[r].offer = req[r].offer /\ req'[r].investor = req[r].investor
      BY <1>1, <2>2 DEF IInv, TypeOK, ApiTypeOK, Params
    <2>4. InstalledBy(p, req[r].offer)
      BY <1>1, <2>1 DEF LinksInv, LinkTrue, Roles
    <2>5. InstalledBy(req[r].sponsor, req[r].offer)'
      BY <1>1, <2>3, <2>4 DEF InstalledBy, Saved, chainVars, dbVars
    <2>6. TransferOK(r)' /\ ListOK(r)'
      BY <1>1, <2>2, <2>3 DEF TransferOK, ListOK
    <2>7. BalanceOK(r)'
      <3> SUFFICES ASSUME AskedByOffer(r) PROVE BalanceOK(r)'
        BY DEF BalanceOK, AskedByOffer
      <3>1. /\ req[r].investor = None /\ req[r].offer \in Saved
            /\ contract[r] = offers[req[r].offer].contract
        BY <1>1 DEF LinksInv, BalanceOK, BalanceAwaits
      <3>2. /\ pc'[r] = "balance_record" /\ reply'[r] # 200 /\ req'[r].investor = None
            /\ req'[r].offer = req[r].offer
        BY <2>2, <2>3, <3>1
      <3>3. req'[r].offer \in Saved' /\ contract'[r] = offers'[req'[r].offer].contract
        BY <1>1, <3>1, <3>2 DEF Saved, dbVars
      <3> QED BY <2>5, <3>2, <3>3 DEF BalanceOK, BalanceAwaits
    <2>8. Grows /\ ReqKept(r) /\ \A q \in Requests \ {r} : Kept(q) /\ MainKept(q)
      BY <1>1, <2>2 DEF Grows, ReqKept, Kept, MainKept, chainVars, dbVars
    <2> QED BY <1>1, <2>6, <2>7, <2>8, LinksFrame DEF dbVars
  <1>3. CASE Throw(r, 500) /\ UNCHANGED req
    <2> DEFINE code == 500
    <2>1. Throw(r, code) /\ code \in Codes \ {200, 422}
      BY <1>3 DEF Codes
    <2>2. Grows /\ \A q \in Requests : MainKept(q)
      BY <1>1 DEF Grows, MainKept, chainVars, dbVars
    <2> HIDE DEF code
    <2> QED BY <1>1, <1>3, <2>1, <2>2, ThrowLinks
  <1> QED BY <1>2, <1>3 DEF GetOfferSponsor

LEMMA BalanceRecordLinks ==
    ASSUME IInv, LinksInv, NEW r \in Requests, GetBalanceRecord(r) PROVE LinksInv'
  <1> DEFINE role == IF req[r].investor # None THEN "investor" ELSE "sponsor"
             found == record[role][PartyOf(r, role)]
  <1>1. /\ UNCHANGED <<req, contract, list, bg, chainVars, dbVars>>
        /\ pc[r] = "balance_record" /\ pc[r] \notin Settled
        /\ req[r].op = "balance" /\ reply[r] = 0
        /\ key' = [key EXCEPT ![r][role] = found]
    BY DEF GetBalanceRecord, At, IInv, RequestOK, HandlerOK, BalanceAwaits, Settled
  <1>2. \A q \in Requests \ {r} : key'[q] = key[q]
    BY <1>1 DEF IInv, TypeOK, ApiTypeOK
  <1>3. Grows /\ \A q \in Requests : MainKept(q) /\ ReqKept(q)
    BY <1>1 DEF Grows, MainKept, ReqKept, chainVars, dbVars
  <1>4. CASE found = None
    <2> DEFINE code == 428
    <2>1. Throw(r, code) /\ code \in Codes \ {200, 422}
      BY <1>4 DEF GetBalanceRecord, Codes
    <2> HIDE DEF code
    <2> QED BY <1>1, <1>2, <1>3, <2>1, ThrowLinks
  <1>5. CASE found # None
    <2>1. /\ pc'[r] = "balance_query" /\ reply'[r] = 0
          /\ \A q \in Requests \ {r} : pc'[q] = pc[q] /\ reply'[q] = reply[q]
      BY <1>1, <1>5 DEF GetBalanceRecord, Goto, IInv, TypeOK, ApiTypeOK
    <2>2. TransferOK(r)'
      BY <1>1 DEF TransferOK
    <2>3. ListOK(r)'
      BY <1>1, <1>3, <2>1, ListStays
    <2>4. BalanceOK(r)'
      <3> SUFFICES ASSUME AskedByOffer(r) PROVE BalanceOK(r)'
        BY DEF BalanceOK, AskedByOffer
      <3>1. /\ req[r].investor = None /\ req[r].offer \in Saved
            /\ contract[r] = offers[req[r].offer].contract
            /\ InstalledBy(req[r].sponsor, req[r].offer)
        BY <1>1 DEF LinksInv, BalanceOK, BalanceAwaits
      <3>2. key'[r]["sponsor"] = record["sponsor"][req[r].sponsor]
        BY <1>1, <3>1 DEF PartyOf, IInv, TypeOK, ApiTypeOK, Roles
      <3>3. contract[r] \in Contracts /\ status[<<contract[r], "main">>] = "success"
        BY <3>1 DEF Saved, IInv, OfferBacked, TypeOK, DatabaseTypeOK, OfferRows
      <3> QED
        BY <1>1, <2>1, <3>1, <3>2, <3>3
        DEF BalanceOK, AskedByOffer, BalanceAwaits, InstalledBy, Saved, chainVars, dbVars
    <2>5. \A q \in Requests \ {r} : Kept(q)
      BY <1>1, <1>2, <2>1 DEF Kept
    <2> QED BY <1>1, <1>3, <2>2, <2>3, <2>4, <2>5, LinksFrame DEF dbVars
  <1> QED BY <1>4, <1>5

LEMMA QueryBalanceLinks ==
    ASSUME IInv, LinksInv, NEW r \in Requests, QueryBalance(r) PROVE LinksInv'
  <1>1. /\ UNCHANGED <<req, key, contract, list, bg, chainVars, dbVars>>
        /\ pc[r] = "balance_query" /\ pc[r] \notin Settled /\ req[r].op = "balance"
    BY DEF QueryBalance, At, localVars, IInv, RequestOK, HandlerOK, BalanceAwaits, Settled
  <1>2. Grows /\ \A q \in Requests : MainKept(q) /\ ReqKept(q)
    BY <1>1 DEF Grows, MainKept, ReqKept, chainVars, dbVars
  <1>3. CASE Answer(r, 200)
    <2>1. /\ pc'[r] = "replied" /\ reply'[r] = 200
          /\ \A q \in Requests \ {r} : pc'[q] = pc[q] /\ reply'[q] = reply[q]
      BY <1>3 DEF Answer, IInv, TypeOK, ApiTypeOK
    <2>2. TransferOK(r)'
      BY <1>1 DEF TransferOK
    <2>3. ListOK(r)'
      BY <1>1, <1>2, <2>1, ListStays
    <2>4. BalanceOK(r)'
      BY <1>1, <2>1 DEF LinksInv, BalanceOK, AskedByOffer, BalanceAwaits, chainVars
    <2>5. \A q \in Requests \ {r} : Kept(q)
      BY <1>1, <2>1 DEF Kept
    <2> QED BY <1>1, <1>2, <2>2, <2>3, <2>4, <2>5, LinksFrame DEF dbVars
  <1>4. CASE Throw(r, 500)
    <2> DEFINE code == 500
    <2>1. Throw(r, code) /\ code \in Codes \ {200, 422}
      BY <1>4 DEF Codes
    <2> HIDE DEF code
    <2> QED BY <1>1, <1>2, <2>1, ThrowLinks
  <1> QED BY <1>3, <1>4 DEF QueryBalance

-----------------------------------------------------------------------------
(* The steps of everybody else. *)

(* When nobody moves, the links stay true. *)
LEMMA AllKeptLinks ==
    ASSUME IInv, LinksInv, Grows, links' = links,
           \A q \in Requests : Kept(q) /\ MainKept(q)
    PROVE  LinksInv'
  <1>1. \A q \in Requests : ReqKept(q)
    BY DEF Kept, ReqKept
  <1>2. \A q \in Requests : TransferOK(q)' /\ ListOK(q)' /\ BalanceOK(q)'
    BY <1>1, KeptOK
  <1>3. \A role \in Roles, p \in Parties, o \in OfferIds :
           <<p, o>> \in links'[role] => LinkTrue(role, p, o)'
    BY <1>1, LinkTrueStays DEF LinksInv
  <1> QED BY <1>2, <1>3 DEF LinksInv

LEMMA ChainStepLinks == ASSUME IInv, LinksInv, ChainStep PROVE LinksInv'
  <1> PICK d \in Deploys : Execute(d)
    BY DEF ChainStep
  <1>1. /\ status[d] = "pending" /\ payload' = payload
        /\ \A e \in Deploys \ {d} : status'[e] = status[e]
        /\ UNCHANGED <<dbVars, apiVars>>
    BY DEF IInv, TypeOK, ChainStep, Execute, ExecuteWell, ExecuteBadly, ChainTypeOK
  <1>2. Grows /\ links' = links
    BY <1>1 DEF Grows, dbVars
  <1>3. \A q \in Requests : Kept(q)
    BY <1>1 DEF Kept, apiVars
  <1>4. \A q \in Requests : MainKept(q)
    BY <1>1 DEF MainKept, Deploys, Purposes
  <1> QED BY <1>2, <1>3, <1>4, AllKeptLinks

LEMMA StillLinks ==
    ASSUME IInv, LinksInv, Restart \/ UNCHANGED vars PROVE LinksInv'
  <1>1. Grows /\ links' = links /\ \A q \in Requests : Kept(q) /\ MainKept(q)
    BY DEF Restart, Grows, Kept, MainKept, vars, apiVars, chainVars, dbVars
  <1> QED BY <1>1, AllKeptLinks

(* A process that dies leaves no request in the middle of anything. *)
LEMMA ExitLinks ==
    ASSUME IInv, LinksInv, Exit, UNCHANGED <<chainVars, dbVars>> PROVE LinksInv'
  <1>1. ASSUME NEW q \in Requests
        PROVE  /\ pc'[q] \in Settled /\ bg'[q] \in {"none", "done"}
               /\ UNCHANGED <<req, key, contract, list, reply, status, payload, links>>
    BY DEF Exit, InFlight, Settled, IInv, TypeOK, ApiTypeOK, chainVars, dbVars
  <1>2. ASSUME NEW q \in Requests PROVE TransferOK(q)' /\ ListOK(q)' /\ BalanceOK(q)'
    <2>1. TransferOK(q)'
      BY <1>1 DEF LinksInv, TransferOK, Settled, Saving
    <2>2. ListOK(q)'
      BY <1>1 DEF ListOK, Settled
    <2>3. BalanceOK(q)'
      BY <1>1 DEF LinksInv, BalanceOK, AskedByOffer, BalanceAwaits, Settled
    <2> QED BY <2>1, <2>2, <2>3
  <1>3. Grows /\ links' = links /\ \A q \in Requests : ReqKept(q)
    BY DEF Exit, Grows, ReqKept, chainVars, dbVars
  <1>4. \A role \in Roles, p \in Parties, o \in OfferIds :
           <<p, o>> \in links'[role] => LinkTrue(role, p, o)'
    BY <1>3, LinkTrueStays DEF LinksInv
  <1> QED BY <1>2, <1>4 DEF LinksInv

(* Every step of the system: one case per action of Next. *)
LEMMA NextLinksInv == ASSUME IInv, LinksInv, [Next]_vars PROVE LinksInv'
  <1>1. ASSUME NEW r \in Requests, Issue(r) PROVE LinksInv'
    BY <1>1, IssueLinks
  <1>2. ASSUME NEW r \in Requests, ProvisionStep(r) PROVE LinksInv'
    <2>1. CASE GetRecord(r) \/ GenerateKeypair(r)
      BY <2>1, KeyLinks
    <2>2. CASE GenerateKeypairFails(r)
      BY <2>2, FailureLinks
    <2>3. CASE SaveRecord(r)
      BY <2>3, SaveRecordLinks
    <2>4. ASSUME NEW purpose \in {"create", "fund"}, FundPut(r, purpose)
          PROVE  LinksInv'
      <3>1. CASE PutRefused(r, purpose, FundPayload(r, purpose))
        BY <3>1, FailureLinks
      <3>2. CASE PutDeploy(r, purpose, FundPayload(r, purpose))
        <4>1. purpose \in Purposes /\ purpose # "main"
          BY DEF Purposes
        <4> QED BY <3>2, <4>1, PutLinks
      <3> QED BY <2>4, <3>1, <3>2 DEF FundPut
    <2>5. ASSUME NEW purpose \in {"create", "fund"}, FundWait(r, purpose)
          PROVE  LinksInv'
      BY <2>5, QuietLinks
    <2>6. ASSUME NEW purpose \in {"create", "fund"}, FundTimeout(r, purpose)
          PROVE  LinksInv'
      BY <2>6, FailureLinks
    <2> QED BY <1>2, <2>1, <2>2, <2>3, <2>4, <2>5, <2>6 DEF ProvisionStep
  <1>3. ASSUME NEW r \in Requests, DeployStep(r) PROVE LinksInv'
    <2>1. CASE SignDeploy(r) \/ AwaitedDiff(r)
      BY <2>1, QuietLinks
    <2>2. CASE MainPut(r)
      <3>1. CASE PutRefused(r, "main", MainPayload(r))
        BY <3>1, FailureLinks
      <3>2. CASE PutDeploy(r, "main", MainPayload(r))
        BY <3>2, PutLinks DEF Purposes
      <3> QED BY <2>2, <3>1, <3>2 DEF MainPut
    <2>3. CASE MainTimeout(r)
      BY <2>3, FailureLinks
    <2>4. CASE LoadEntity(r)
      BY <2>4, LoadEntityLinks
    <2>5. CASE AwaitedWrite(r)
      BY <2>5, AwaitedWriteLinks
    <2> QED BY <1>3, <2>1, <2>2, <2>3, <2>4, <2>5 DEF DeployStep
  <1>4. ASSUME NEW r \in Requests, InstallStep(r) PROVE LinksInv'
    <2>1. CASE CheckOfferId(r) \/ CheckNameOrSymbol(r) \/ InstallProcessed(r)
      BY <2>1, QuietLinks
    <2>2. CASE GetContractHash(r)
      BY <2>2, GetContractHashLinks
    <2>3. CASE SaveOffer(r)
      BY <2>3, SaveOfferLinks
    <2>4. CASE BackgroundDiff(r)
      BY <2>4, BackgroundLinks
    <2>5. CASE BackgroundWrite(r)
      <3>1. CASE CanSaveWrite(r, "bg")
        BY <2>5, <3>1, BackgroundLinks
      <3>2. CASE ~CanSaveWrite(r, "bg")
        BY <2>5, <3>2, ExitLinks DEF BackgroundWrite
      <3> QED BY <3>1, <3>2
    <2> QED BY <1>4, <2>1, <2>2, <2>3, <2>4, <2>5 DEF InstallStep
  <1>5. ASSUME NEW r \in Requests, TransferStep(r) PROVE LinksInv'
    <2>1. CASE GetOffer(r)
      BY <2>1, GetOfferLinks
    <2>2. CASE GetSponsor(r) \/ GetInvestor(r)
      BY <2>2, KeyLinks
    <2>3. CASE CheckCsprBalance(r)
      BY <2>3, QuietLinks
    <2>4. CASE TransferProcessed(r)
      BY <2>4, TransferProcessedLinks
    <2> QED BY <1>5, <2>1, <2>2, <2>3, <2>4 DEF TransferStep
  <1>6. ASSUME NEW r \in Requests, BalanceStep(r) PROVE LinksInv'
    BY <1>6, BalanceHashLinks, BalanceSponsorLinks, BalanceRecordLinks,
       QueryBalanceLinks DEF BalanceStep
  <1>7. ASSUME NEW r \in Requests, Step(r) PROVE LinksInv'
    BY <1>2, <1>3, <1>4, <1>5, <1>6, <1>7 DEF Step
  <1>8. CASE Crash
    BY <1>8, ExitLinks DEF Crash
  <1>9. CASE Restart \/ UNCHANGED vars
    BY <1>9, StillLinks
  <1> QED BY <1>1, <1>7, <1>8, <1>9, ChainStepLinks DEF Next

(* The second invariant holds in every reachable state. *)
THEOREM SpecLinksInv == Spec => []LinksInv
  <1>1. IInv /\ LinksInv /\ [Next]_vars => LinksInv'
    BY NextLinksInv
  <1> QED BY <1>1, InitLinksInv, SpecIInv, PTL DEF Spec

(* The junction tables tell the truth: an offer linked to a sponsor was
   installed from its account, and one linked to an investor was transferred
   to it, whatever stale lists the two saves of a party write
   (updateSponsor, saveOffer, updateInvestor). *)
THEOREM SpecLinksBacked == Spec => []LinksBacked
  <1>1. LinksInv => LinksBacked
    <2> SUFFICES ASSUME LinksInv, NEW p \in Parties, NEW o \in OfferIds
                 PROVE  /\ <<p, o>> \in links["sponsor"] => InstalledBy(p, o)
                        /\ <<p, o>> \in links["investor"] =>
                              \E r \in Requests :
                                 LET d == <<r, "main">> IN
                                 /\ req[r] # None
                                 /\ req[r].op = "invest"
                                 /\ status[d] = "success"
                                 /\ payload[d].to = record["investor"][p]
                                 /\ payload[d].token = offers[o].contract
      BY DEF LinksBacked, InstalledBy
    <2>1. <<p, o>> \in links["sponsor"] => InstalledBy(p, o)
      BY DEF LinksInv, LinkTrue, Roles
    <2>2. <<p, o>> \in links["investor"] => InvestedIn(p, o)
      <3>1. <<p, o>> \in links["investor"] => LinkTrue("investor", p, o)
        BY DEF LinksInv, Roles
      <3> QED BY <3>1 DEF LinkTrue
    <2> QED BY <2>1, <2>2 DEF InvestedIn
  <1> QED BY <1>1, SpecLinksInv, PTL

(* The balance of an offer is read from the account that issued its token,
   whichever of its sponsors the query returns first (get_balance). *)
THEOREM SpecBalanceOfIssuer == Spec => []BalanceOfIssuer
  <1>1. LinksInv => BalanceOfIssuer
    BY DEF LinksInv, BalanceOK, BalanceOfIssuer
  <1> QED BY <1>1, SpecLinksInv, PTL
=============================================================================
