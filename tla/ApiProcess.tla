----------------------------- MODULE ApiProcess ----------------------------
(***************************************************************************)
(* The API process (src/app): one Node process that serves every request   *)
(* concurrently, switching at each await.  A request is a program counter, *)
(* the parameters it came with and the local variables of its handler; a   *)
(* step runs the handler from one await to the next.                       *)
(*                                                                         *)
(* The process can die: killed, or by a promise nobody awaits that         *)
(* rejects (AppService.saveOffer).  The locals of every request die with   *)
(* it; the database and the chain go on, deploys in flight included.       *)
(***************************************************************************)
EXTENDS Database

CONSTANTS
    Menu,              \* the parameters each request may come with
    AccountCreation    \* accountCreationPaymentAmount, in tenths of CSPR

Ops == {"install", "invest", "redeem", "balance"}

Params ==
    [op       : Ops,
     offer    : OfferIds \cup {None},
     sponsor  : Parties \cup {None},
     investor : Parties \cup {None},
     name     : Labels \cup {None},
     symbol   : Labels \cup {None},
     amount   : Nat \cup {None}]   \* total_supply of an install

ASSUME ApiAssumption ==
    /\ None \notin Params
    /\ Menu \in [Requests -> SUBSET Params]
    /\ AccountCreation \in Nat
    /\ AccountCreation > 0

VARIABLES
    up,        \* is the process running?
    pc,        \* the await each request stands at
    req,       \* its parameters, once issued
    key,       \* the key pairs it has got hold of, by role
    minted,    \* the requests for which the KMS generated a key pair
    contract,  \* its contract_hash
    list,      \* the offers of the entity it saves, as held in memory
    seen,      \* the links its two saves of that entity found
    bg,        \* the save that saveOffer starts and does not await
    reply      \* the HTTP status answered

localVars == <<req, key, contract, list, seen>>
apiVars == <<up, pc, req, key, minted, contract, list, seen, bg, reply>>
vars == <<chainVars, dbVars, apiVars>>

Awaits == {"idle", "check_id", "check_name", "get_offer", "get_sponsor",
            "get_investor", "get_record", "generate", "create_put",
            "create_wait", "save_record", "cspr_balance", "fund_put",
            "fund_wait", "sign", "put", "wait", "get_hash", "insert_offer",
            "load_entity", "diff", "write", "balance_hash", "balance_sponsors",
            "balance_record", "balance_query", "replied", "lost"}

Codes == {200, 201, 400, 417, 422, 428, 500}
Tasks == {"fg", "bg"}
OrNone(S) == S \cup {None}

ApiTypeOK ==
    /\ up \in BOOLEAN
    /\ pc \in [Requests -> Awaits]
    /\ req \in [Requests -> Params \cup {None}]
    /\ key \in [Requests -> [Roles -> OrNone(Keys)]]
    /\ minted \subseteq Requests
    /\ contract \in [Requests -> OrNone(Contracts)]
    /\ list \in [Requests -> SUBSET OfferIds]
    /\ seen \in [Requests -> [Tasks -> SUBSET OfferIds]]
    /\ bg \in [Requests -> {"none", "diff", "write", "done"}]
    /\ reply \in [Requests -> Codes \cup {0}]

ApiInit ==
    /\ up = TRUE
    /\ pc = [r \in Requests |-> "idle"]
    /\ req = [r \in Requests |-> None]
    /\ key = [r \in Requests |-> [role \in Roles |-> None]]
    /\ minted = {}
    /\ contract = [r \in Requests |-> None]
    /\ list = [r \in Requests |-> {}]
    /\ seen = [r \in Requests |-> [t \in Tasks |-> {}]]
    /\ bg = [r \in Requests |-> "none"]
    /\ reply = [r \in Requests |-> 0]

-----------------------------------------------------------------------------
At(r, l) == up /\ pc[r] = l

Goto(r, l) == pc' = [pc EXCEPT ![r] = l] /\ UNCHANGED reply

Answer(r, code) == /\ pc' = [pc EXCEPT ![r] = "replied"]
                   /\ reply' = [reply EXCEPT ![r] = code]

(* install answers every error thrown inside its try with 500; transfer and
   get_balance keep the status of the error, or 500 when it has none. *)
Throw(r, code) == Answer(r, IF req[r].op = "install" THEN 500 ELSE code)

PartyOf(r, role) ==
    IF role = "sponsor" THEN req[r].sponsor ELSE req[r].investor

(* The account that signs and pays: the sponsor's, save in a redeem. *)
SenderRole(r) == IF req[r].op = "redeem" THEN "investor" ELSE "sponsor"
RecipientRole(r) == IF req[r].op = "redeem" THEN "sponsor" ELSE "investor"
Sender(r) == key[r][SenderRole(r)]
Recipient(r) == key[r][RecipientRole(r)]

-----------------------------------------------------------------------------
(* The checks made before the first await. *)

IncompleteInstall(p) == None \in {p.name, p.symbol, p.amount, p.sponsor, p.offer}
IncompleteTransfer(p) == None \in {p.offer, p.amount, p.investor, p.sponsor}
BadBalance(p) == p.offer = None \/ None \notin {p.investor, p.sponsor}

Missing(p) ==
    CASE p.op = "install" -> IncompleteInstall(p)
      [] p.op = "balance" -> BadBalance(p)
      [] OTHER -> IncompleteTransfer(p)

FirstAwait(p) == CASE p.op = "install" -> "check_id"
                   [] p.op = "balance" -> "balance_hash"
                   [] OTHER -> "get_offer"

(* A request reaches its controller. *)
Issue(r) ==
    /\ At(r, "idle")
    /\ \E p \in Menu[r] :
          /\ req' = [req EXCEPT ![r] = p]
          /\ IF Missing(p) THEN Answer(r, 400) ELSE Goto(r, FirstAwait(p))
    /\ UNCHANGED <<up, key, minted, contract, list, seen, bg, chainVars, dbVars>>

InFlight == {r \in Requests : pc[r] \notin {"idle", "replied", "lost"}}

(* The process dies; compose restarts nothing by itself. *)
Exit ==
    /\ up' = FALSE
    /\ pc' = [r \in Requests |-> IF r \in InFlight THEN "lost" ELSE pc[r]]
    /\ bg' = [r \in Requests |-> IF bg[r] = "done" THEN "done" ELSE "none"]
    /\ UNCHANGED <<req, key, minted, contract, list, seen, reply>>

Crash ==
    /\ "crash" \in Faults
    /\ up
    /\ Exit
    /\ UNCHANGED <<chainVars, dbVars>>

(* An operator starts it again. *)
Restart ==
    /\ ~up
    /\ up' = TRUE
    /\ UNCHANGED <<pc, req, key, minted, contract, list, seen, bg, reply,
                   chainVars, dbVars>>
=============================================================================
