------------------------- MODULE MCMaterialization -------------------------
(* Instances of the materialization for TLC.                               *)
EXTENDS Materialization

(* create_synthetic_hm; day 1 is 2020-01-01.                               *)
Weeks == 0..4
Start(w) == 1 + 7 * w

Purchase(c, a, d, p) == [customer |-> c, article |-> a, day |-> d, price |-> p]
Churner(w)  == <<"churn-0", "churn-1", "churn-2", "churn-3", "churn-4">>[w + 1]
Retained(w) == <<"retained-0", "retained-1", "retained-2", "retained-3",
                 "retained-4">>[w + 1]

SyntheticPurchases ==
  [i \in 0..15 |->
     LET w == i \div 3
     IN  CASE i = 15     -> Purchase("sentinel", "trouser", 29 + 7, 3)
           [] i % 3 = 0  -> Purchase(Churner(w), "shirt", Start(w) - 1, 1)
           [] i % 3 = 1  -> Purchase(Retained(w), "shirt", Start(w) - 1, 1)
           [] OTHER      -> Purchase(Retained(w), "shirt", Start(w) + 1, 2)]

MCSynthetic ==
  [data |-> [customers |-> {"sentinel"} \cup {Churner(w) : w \in Weeks}
                                         \cup {Retained(w) : w \in Weeks},
             articles |-> {"shirt", "trouser"},
             purchases |-> SyntheticPurchases],
   cutoffs |-> [validation |-> 22, test |-> 29]]

(* Reviewed labels that agree, that tell of one article another amount,    *)
(* within the tolerance, beyond it or none, and that lack a row; and data  *)
(* without the purchase that closes the test window, and without the       *)
(* oldest week of history.                                                 *)
Agreed == [t \in TaskIds |-> [s \in Splits |->
             LabelsOf(t, s, MCSynthetic.data, MCSynthetic.cutoffs)]]
FirstRow(t, s) == CHOOSE r \in Agreed[t][s] : TRUE
ShirtsSold(amount) ==
  [Agreed EXCEPT !["sales"]["test"] =
     {IF r[2] = "shirt" THEN [r EXCEPT ![3] = amount] ELSE r : r \in @}]
Rounded    == ShirtsSold(3)
Retargeted == ShirtsSold(4)
Nulled     == ShirtsSold(None)
Shortened == [Agreed EXCEPT !["churn"]["train"] =
                @ \ {FirstRow("churn", "train")}]

Pinned(dropped, reviewed) ==
  [data |-> [MCSynthetic.data EXCEPT !.purchases =
               [i \in 0..15 \ dropped |-> SyntheticPurchases[i]]],
   cutoffs |-> MCSynthetic.cutoffs,
   reviewed |-> reviewed]

MCPinned == {Pinned({}, Agreed), Pinned({}, Rounded), Pinned({}, Retargeted),
             Pinned({}, Nulled), Pinned({}, Shortened),
             Pinned({15}, Agreed), Pinned({0, 1}, Agreed)}
=============================================================================
