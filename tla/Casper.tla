------------------------------- MODULE Casper -------------------------------
(***************************************************************************)
(* The Casper network as the API uses it: a node that takes signed deploys *)
(* and a chain that executes each of them once, some time later.  None of  *)
(* it is code of this repository; it is modelled from the calls the API    *)
(* makes (put_deploy, transfer, waitDeploy, query_balance, get_account)    *)
(* and from the two things the API asks a deploy to do: native transfers   *)
(* of motes and calls of the CEP-18 token contract (wasm/cep18.wasm).      *)
(*                                                                         *)
(* A deploy is named by the request that puts it and by what it is for,    *)
(* for the API puts at most three per request.  A key pair is named by the *)
(* request that had it generated, a contract by the request whose install  *)
(* deploy created it, so both are fresh without a counter.                 *)
(***************************************************************************)
EXTENDS Naturals

CONSTANTS
    Requests,          \* the HTTP requests of a behaviour
    Labels,            \* token names and symbols
    None,              \* "no value": not a request, a label or a party
    InstallPayment,    \* price of an install deploy
    TransferPayment,   \* price of a token transfer deploy
    Faults             \* the faults a behaviour may contain

FaultKinds == {"kms", "rpc", "timeout", "exec", "crash"}

ASSUME CasperAssumption ==
    /\ None \notin Requests
    /\ None \notin Labels
    /\ InstallPayment \in Nat
    /\ TransferPayment \in Nat
    /\ Faults \subseteq FaultKinds

Keys == Requests
Contracts == Requests

Purposes == {"create", "fund", "main"}
Deploys == Requests \X Purposes

VARIABLES
    status,    \* how far each deploy has come
    payload,   \* what each deploy asks for, from the moment it is put
    motes,     \* CSPR balance of each key, in tenths of CSPR
    named,     \* named keys: the contract each account knows under each name
    tokens     \* CEP-18 balances: contract, then key

chainVars == <<status, payload, motes, named, tokens>>

Payloads ==
    [type  : {"nothing", "native", "install", "transfer"},
     from  : Keys \cup {None},
     to    : Keys \cup {None},
     label : Labels \cup {None},
     token : Contracts \cup {None},
     amount : Nat]

Nothing ==
    [type |-> "nothing", from |-> None, to |-> None, label |-> None,
     token |-> None, amount |-> 0]

ChainTypeOK ==
    /\ status \in [Deploys -> {"none", "pending", "success", "failure"}]
    /\ payload \in [Deploys -> Payloads]
    /\ motes \in [Keys -> Nat]
    /\ named \in [Keys -> [Labels -> Contracts \cup {None}]]
    /\ tokens \in [Contracts -> [Keys -> Nat]]

ChainInit ==
    /\ status = [d \in Deploys |-> "none"]
    /\ payload = [d \in Deploys |-> Nothing]
    /\ motes = [k \in Keys |-> 0]
    /\ named = [k \in Keys |-> [l \in Labels |-> None]]
    /\ tokens = [c \in Contracts |-> [k \in Keys |-> 0]]

-----------------------------------------------------------------------------
(* The payloads the API builds.  The faucet is the sender of every native
   transfer and never runs dry: a transfer of it that fails is an "exec"
   fault. *)

NativeTransfer(to, amount) ==
    [Nothing EXCEPT !.type = "native", !.to = to, !.amount = amount]

InstallToken(from, label, supply) ==
    [Nothing EXCEPT !.type = "install", !.from = from, !.label = label,
                    !.amount = supply]

TransferToken(token, from, to, amount) ==
    [Nothing EXCEPT !.type = "transfer", !.token = token, !.from = from,
                    !.to = to, !.amount = amount]

Processed(d) == status[d] \in {"success", "failure"}

(* An account exists from the first native transfer to its key. *)
HasAccount(k) ==
    \E d \in Deploys : /\ payload[d].type = "native"
                       /\ payload[d].to = k
                       /\ status[d] = "success"

(* The node takes a deploy only of an account it knows; the faucet's it
   always takes. *)
Accepts(p) == p.from = None \/ HasAccount(p.from)

(* put_deploy, the node's side: from here on the deploy can execute. *)
Put(d, p) ==
    /\ status[d] = "none"
    /\ Accepts(p)
    /\ status' = [status EXCEPT ![d] = "pending"]
    /\ payload' = [payload EXCEPT ![d] = p]
    /\ UNCHANGED <<motes, named, tokens>>

-----------------------------------------------------------------------------
(* Execution.  The price of a deploy is charged whether it succeeds or not. *)

Price(p) == IF p.type = "install" THEN InstallPayment ELSE TransferPayment

AfterPaying(p) ==
    IF p.type = "native" THEN motes
    ELSE [motes EXCEPT ![p.from] = IF @ < Price(p) THEN 0 ELSE @ - Price(p)]

CanPay(p) == p.type # "native" => motes[p.from] >= Price(p)

HoldsTokens(p) == p.type = "transfer" => tokens[p.token][p.from] >= p.amount

ExecuteNative(d) ==
    /\ payload[d].type = "native"
    /\ motes' = [motes EXCEPT ![payload[d].to] = @ + payload[d].amount]
    /\ UNCHANGED <<named, tokens>>

(* The contract stores itself among the named keys of the installing account
   (cep18_contract_hash_<name>), over an earlier one of the same name, and
   gives that account the whole supply. *)
ExecuteInstall(d) ==
    LET p == payload[d] IN
    /\ p.type = "install"
    /\ CanPay(p)
    /\ motes' = AfterPaying(p)
    /\ named' = [named EXCEPT ![p.from][p.label] = d[1]]
    /\ tokens' = [tokens EXCEPT ![d[1]][p.from] = p.amount]

ExecuteTransfer(d) ==
    LET p == payload[d]
        debited == [tokens EXCEPT ![p.token][p.from] = @ - p.amount]
    IN
    /\ p.type = "transfer"
    /\ CanPay(p)
    /\ HoldsTokens(p)
    /\ motes' = AfterPaying(p)
    /\ tokens' = [debited EXCEPT ![p.token][p.to] = @ + p.amount]
    /\ UNCHANGED named

ExecuteWell(d) ==
    /\ status[d] = "pending"
    /\ status' = [status EXCEPT ![d] = "success"]
    /\ ExecuteNative(d) \/ ExecuteInstall(d) \/ ExecuteTransfer(d)
    /\ UNCHANGED payload

(* A deploy fails when its sender cannot pay or does not hold the tokens
   ("User error: 60001"), and for any other reason under an "exec" fault. *)
ExecuteBadly(d) ==
    /\ status[d] = "pending"
    /\ \/ ~CanPay(payload[d])
       \/ ~HoldsTokens(payload[d])
       \/ "exec" \in Faults
    /\ status' = [status EXCEPT ![d] = "failure"]
    /\ motes' = AfterPaying(payload[d])
    /\ UNCHANGED <<payload, named, tokens>>

Execute(d) == ExecuteWell(d) \/ ExecuteBadly(d)
=============================================================================
