---------------------------- MODULE MCOrderIntake ----------------------------
(* Instances of OrderIntake for TLC. *)
EXTENDS OrderIntake, TLC

CONSTANTS h1, h2, p1, o1, o2, o3, x, y

Of(item, qty) == [item |-> item, qty |-> qty]

(* o1 has x on two lines and shares y with the others.                      *)
ThreeOrders == (o1 :> <<Of(x, 1), Of(y, 1), Of(x, 1)>>) @@ (o2 :> <<Of(y, 2)>>)
                 @@ (o3 :> <<Of(y, 1)>>)
(* o1 has two lines, o2 shares a product with it.                           *)
TwoOrders == (o1 :> <<Of(x, 1), Of(y, 2)>>) @@ (o2 :> <<Of(x, 2)>>)

Three == [i \in Items |-> 3]
All == [q \in Polls |-> Orders \ Unnamed]
OnlyO2 == [q \in Polls |-> {o2}]
=============================================================================
