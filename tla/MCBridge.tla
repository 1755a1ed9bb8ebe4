------------------------------ MODULE MCBridge ------------------------------
(***************************************************************************)
(* An instance of Bridge for TLC: one user asks in one tab for the same    *)
(* view of two channels, another user for that view of a third.            *)
(***************************************************************************)
EXTENDS Bridge, TLC

ProfileView(user, channel) ==
    [user |-> user, customer |-> "cust", view |-> "profile", channel |-> channel,
     profile |-> "p"]

MCInfo ==
    ("s1" :> ProfileView("ann", "x")) @@ ("s2" :> ProfileView("ann", "y")) @@
    ("s3" :> ProfileView("bob", "z"))
MCSocketOf == ("s1" :> "k1") @@ ("s2" :> "k1") @@ ("s3" :> "k2")
MCMessages ==
    {<<"cust", "profile", "x", "p", "new">>, <<"cust", "profile", "z", "p", "new">>}
=============================================================================
