---------------------------- MODULE MCEvaluation ----------------------------
(* Batches for TLC, on data with a horizon of one day: three training days, *)
(* the validation cutoff on day 4 and the test cutoff on day 5.             *)
EXTENDS Evaluation

Buy(c, a, d, p) == [customer |-> c, article |-> a, day |-> d, price |-> p]

(* Somebody buys on every day, and somebody on that day only.              *)
History ==
  <<Buy(1, 1, 1, 1), Buy(2, 1, 1, 1), Buy(1, 2, 2, 3), Buy(2, 1, 3, 1),
    Buy(1, 1, 4, 1), Buy(6, 2, 4, 1)>>

Dataset(bought) ==
  [data |-> [customers |-> 1..6, articles |-> {1, 2},
             purchases |-> History \o bought],
   cutoffs |-> [validation |-> 4, test |-> 5]]

(* Five customers at the test cutoff: three of them come back.             *)
Wide == Dataset(<<Buy(1, 1, 5, 1), Buy(2, 1, 5, 1), Buy(3, 1, 5, 1),
                  Buy(4, 1, 5, 1), Buy(5, 1, 5, 1),
                  Buy(1, 1, 6, 1), Buy(3, 2, 6, 1), Buy(4, 2, 6, 1)>>)

(* One of three comes back: too few for the balanced cohort.               *)
Scarce == Dataset(<<Buy(1, 1, 5, 1), Buy(2, 1, 5, 1), Buy(3, 1, 5, 1),
                    Buy(1, 1, 6, 1)>>)

(* Two of three come back.  The articles sell for 1 and for 3.             *)
Few == Dataset(<<Buy(1, 1, 5, 1), Buy(2, 1, 5, 1), Buy(3, 1, 5, 1),
                 Buy(1, 1, 6, 1), Buy(3, 2, 6, 3)>>)

(* Both articles sell for the same.                                        *)
Flat == Dataset(<<Buy(1, 1, 5, 1), Buy(2, 1, 5, 1), Buy(3, 1, 5, 1),
                  Buy(1, 1, 6, 2), Buy(3, 2, 6, 2)>>)

MCDatasets == [smoke |-> {Wide, Scarce}, churn |-> {Few}, sales |-> {Few, Flat}]
MCTotal    == [smoke |-> 4, churn |-> 3, sales |-> 2]
=============================================================================
