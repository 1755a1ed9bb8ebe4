------------------------- MODULE EquitybrixInvariant -------------------------
(***************************************************************************)
(* The inductive invariant of Equitybrix, in named parts.  The properties  *)
(* of Equitybrix are not inductive: that an offer is backed, say, rests on *)
(* what the named keys of every account hold, on what the handler that is  *)
(* about to save an offer has in its locals, and on keys already being in  *)
(* the database when a deploy of theirs is put.                            *)
(***************************************************************************)
EXTENDS Equitybrix

Settled == {"idle", "replied", "lost"}
InstallAwaits == {"check_id", "check_name", "get_hash", "insert_offer"}
TransferAwaits == {"get_offer", "get_sponsor", "get_investor", "cspr_balance"}
BalanceAwaits == {"balance_hash", "balance_sponsors", "balance_record",
                  "balance_query"}
Creating == {"create_put", "create_wait", "save_record"}
Saving == {"load_entity", "diff", "write"}
Paying == {"fund_put", "fund_wait", "sign", "put", "wait", "get_hash",
           "insert_offer"} \cup Saving
Checking == {"idle", "check_id", "check_name", "get_offer", "get_sponsor",
             "get_investor", "get_record"} \cup BalanceAwaits

(* Which handler a request runs, and on what parameters. *)
HandlerOK(r) ==
    /\ pc[r] # "idle" => req[r] # None
    /\ pc[r] = "idle" => bg[r] = "none"
    /\ pc[r] \notin Settled => ~Missing(req[r])
    /\ pc[r] \in InstallAwaits => req[r].op = "install"
    /\ pc[r] \in TransferAwaits => req[r].op \in {"invest", "redeem"}
    /\ pc[r] \in BalanceAwaits => req[r].op = "balance"
    /\ pc[r] \notin Settled \cup BalanceAwaits => req[r].op # "balance"
    /\ pc[r] = "balance_sponsors" => req[r].investor = None
    /\ pc[r] \in {"balance_record", "balance_query"} =>
          req[r].investor # None \/ req[r].sponsor # None
    /\ bg[r] \in {"diff", "write"} =>
          req[r].op = "install" /\ ~Missing(req[r])
    /\ reply[r] # 0 => pc[r] = "replied"

(* A key in the locals is the key of the party's row. *)
Known(r, role) ==
    /\ PartyOf(r, role) \in Parties
    /\ key[r][role] # None
    /\ record[role][PartyOf(r, role)] = key[r][role]

KeysOK(r) ==
    /\ pc[r] \in Creating => key[r][NewPartyRole(r)] = r
    /\ pc[r] \in Paying \cup {"cspr_balance"} =>
          /\ Known(r, "sponsor")
          /\ req[r].op # "install" => Known(r, "investor")
    /\ pc[r] \notin Settled \cup {"get_offer", "get_sponsor"} =>
          (req[r].op \in {"invest", "redeem"} => Known(r, "sponsor"))

(* Contract c was created under label l from the account of k. *)
Backed(c, l, k) ==
    LET d == <<c, "main">> IN
    /\ c \in Contracts
    /\ status[d] = "success"
    /\ payload[d].type = "install"
    /\ payload[d].label = l
    /\ payload[d].from = k

ContractOK(r) ==
    pc[r] = "insert_offer" =>
        Backed(contract[r], req[r].name, key[r]["sponsor"])

(* The row of an install from its insertion to its answer, and for good. *)
RowOK(r) ==
    /\ req[r] # None
    /\ req[r].op = "install"
    /\ pc[r] \in Saving \/ reply[r] = 201
    => LET k == record["sponsor"][req[r].sponsor] IN
       /\ req[r].offer \in Saved
       /\ req[r].sponsor \in Parties
       /\ offers[req[r].offer] = NewOffer(r)
       /\ k # None
       /\ Backed(contract[r], req[r].name, k)

Untouched(r) ==
    /\ r \notin minted
    /\ \A purpose \in Purposes : status[<<r, purpose>>] = "none"

Rejected(r) ==
    \/ reply[r] \in {400, 428}
    \/ reply[r] = 422 /\ req[r].op = "install"

EffectsOK(r) == pc[r] \in Checking \/ Rejected(r) => Untouched(r)

RequestOK(r) ==
    HandlerOK(r) /\ KeysOK(r) /\ ContractOK(r) /\ RowOK(r) /\ EffectsOK(r)

(* Deploys are of and for keys the database knows. *)
HasRow(k) == \E role \in Roles, p \in Parties : record[role][p] = k

DeployOK(d) ==
    /\ payload[d].type = "install" =>
          /\ d[2] = "main"
          /\ payload[d].from \in Keys
          /\ payload[d].label \in Labels
          /\ \E p \in Parties : record["sponsor"][p] = payload[d].from
    /\ payload[d].type = "transfer" =>
          payload[d].to \in Keys /\ HasRow(payload[d].to)

NamedOK ==
    \A k \in Keys, l \in Labels :
        named[k][l] # None => Backed(named[k][l], l, k)

(* The inductive invariant. *)
IInv ==
    /\ TypeOK
    /\ \A r \in Requests : RequestOK(r)
    /\ \A d \in Deploys : DeployOK(d)
    /\ NamedOK
    /\ OfferBacked
    /\ TokensHeldByKnownParty

-----------------------------------------------------------------------------
(* Why links and answers tell the truth: the second inductive invariant, which
   rests on the first. *)

(* A transfer deals in the contract of its offer; once its deploy is put this is
   the deploy its parameters ask for, and it has succeeded before its offer is
   linked. *)
TransferOK(r) ==
    req[r] # None /\ req[r].op \in {"invest", "redeem"} =>
        LET d == <<r, "main">> IN
        /\ pc[r] \notin Settled \cup {"get_offer"} =>
              /\ req[r].offer \in Saved
              /\ contract[r] = offers[req[r].offer].contract
        /\ pc[r] \in Saving \cup {"wait"} => payload[d] = MainPayload(r)
        /\ pc[r] \in Saving => req[r].op = "invest" /\ status[d] = "success"
        /\ reply[r] = 422 => status[d] \in {"none", "failure"}

(* The two kinds of links, and what each of them says. *)
InstalledBy(p, o) ==
    /\ o \in Saved
    /\ payload[<<offers[o].contract, "main">>].from = record["sponsor"][p]

InvestedIn(p, o) ==
    /\ o \in Saved
    /\ \E r \in Requests :
          LET d == <<r, "main">> IN
          /\ req[r] # None
          /\ req[r].op = "invest"
          /\ status[d] = "success"
          /\ payload[d].type = "transfer"
          /\ payload[d].to = record["investor"][p]
          /\ payload[d].token = offers[o].contract

LinkTrue(role, p, o) ==
    IF role = "sponsor" THEN InstalledBy(p, o) ELSE InvestedIn(p, o)

(* The offers of the entity a request is about to save. *)
ListOK(r) ==
    pc[r] \in {"diff", "write"} \/ bg[r] \in {"diff", "write"} =>
        \A o \in list[r] : LinkTrue(NewPartyRole(r), NewParty(r), o)

(* A balance asked for by an offer is read from the sponsor who installed it. *)
BalanceOK(r) ==
    AskedByOffer(r) =>
        /\ pc[r] \in {"idle", "replied", "lost"} \cup BalanceAwaits
        /\ pc[r] \in BalanceAwaits => req[r].investor = None
        /\ pc[r] = "balance_hash" => req[r].sponsor = None
        /\ pc[r] \in {"balance_sponsors", "balance_record", "balance_query"} =>
              /\ req[r].offer \in Saved
              /\ contract[r] = offers[req[r].offer].contract
        /\ pc[r] = "balance_record" => InstalledBy(req[r].sponsor, req[r].offer)
        /\ pc[r] = "balance_query" \/ reply[r] = 200 =>
              /\ contract[r] \in Contracts
              /\ status[<<contract[r], "main">>] = "success"
              /\ payload[<<contract[r], "main">>].from = key[r]["sponsor"]

LinksInv ==
    /\ \A r \in Requests : TransferOK(r) /\ ListOK(r) /\ BalanceOK(r)
    /\ \A role \in Roles, p \in Parties, o \in OfferIds :
          <<p, o>> \in links[role] => LinkTrue(role, p, o)
=============================================================================
