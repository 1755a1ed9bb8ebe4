---------------------------- MODULE MCEquitybrix ----------------------------
(***************************************************************************)
(* Instances of Equitybrix for TLC: which requests there are and what each *)
(* may ask.  The amounts are those of the code, in tenths of CSPR.         *)
(***************************************************************************)
EXTENDS EquitybrixInvariant, TLC

Request(op, offer, sponsor, investor, name, symbol, amount) ==
    [op |-> op, offer |-> offer, sponsor |-> sponsor, investor |-> investor,
     name |-> name, symbol |-> symbol, amount |-> amount]

Install(offer, sponsor, name, symbol) ==
    Request("install", offer, sponsor, None, name, symbol, 2)
Invest(offer, sponsor, investor, amount) ==
    Request("invest", offer, sponsor, investor, None, None, amount)
Redeem(offer, sponsor, investor, amount) ==
    Request("redeem", offer, sponsor, investor, None, None, amount)
Balance(offer, sponsor, investor) ==
    Request("balance", offer, sponsor, investor, None, None, None)

TwoRequests == {"r1", "r2"}
ThreeRequests == {"r1", "r2", "r3"}

(* Two installs that collide on the offer id, the name or the symbol, by the
   same sponsor or another, or on nothing but the sponsor, or on nothing; and
   a look at the first by its id. *)
InstallMenu ==
    ("r1" :> {Install("o1", "ann", "n1", "n1")}) @@
    ("r2" :> {Install("o1", "ann", "n1", "n1"), Install("o2", "ann", "n1", "n2"),
              Install("o2", "bob", "n2", "n1"), Install("o2", "ann", "n2", "n2"),
              Install("o2", "bob", "n2", "n2"), Install("o2", "ann", None, "n2")}) @@
    ("r3" :> {Balance("o1", None, None)})

(* An offer, then two transfers of it: of one investor or of two, more than
   the sponsor has, back and forth, or by a sponsor who does not exist. *)
TransferMenu ==
    ("r1" :> {Install("o1", "ann", "n1", "n1")}) @@
    ("r2" :> {Invest("o1", "ann", "ian", 1)}) @@
    ("r3" :> {Invest("o1", "ann", "ian", 1), Invest("o1", "ann", "joe", 2),
              Redeem("o1", "ann", "ian", 1), Invest("o1", "bob", "joe", 1),
              Invest("o1", "ann", "joe", None)})

(* An offer, a transfer of it, and one look at the balance of a party. *)
SettleMenu ==
    ("r1" :> {Install("o1", "ann", "n1", "n1")}) @@
    ("r2" :> {Invest("o1", "ann", "ian", 1), Redeem("o1", "ann", "ian", 1),
              Balance("o1", "ann", None), Balance("o1", None, "ian"),
              Balance("o1", "ann", "ian")})
=============================================================================
