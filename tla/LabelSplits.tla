---------------------------- MODULE LabelSplits ----------------------------
(***************************************************************************)
(* The prediction times of a task and the labels that the reviewed SQL of  *)
(* the two default tasks gives them (materialization/materializer.py and   *)
(* task_sql.py).  Times are days.                                          *)
(*                                                                         *)
(* A dataset has customers, articles and purchases, where a purchase is a  *)
(* row of the table transactions: purchases is a function from row numbers *)
(* to [customer, article, day, price].                                     *)
(***************************************************************************)
EXTENDS Integers, FiniteSets, FiniteSetsExt, Functions

CONSTANT Horizon       (* horizon_days of the default tasks                *)

ASSUME HorizonAssumption == Horizon \in Nat \ {0}

Splits == {"train", "validation", "test"}
TaskIds == {"churn", "sales"}

Binary(task) == task = "churn"

(***************************************************************************)
(* The schedule.                                                           *)
(***************************************************************************)
(* A faulty schedule that begins at the validation cutoff.                 *)
TrainTimesInclusive(minimum, validation) ==
  {validation - k * Horizon : k \in 0..((validation - minimum) \div Horizon)}

TrainTimes(minimum, validation) ==
  {validation - k * Horizon : k \in 1..((validation - minimum) \div Horizon)}

Times(split, minimum, cutoffs) ==
  CASE split = "train"      -> TrainTimes(minimum, cutoffs.validation)
    [] split = "validation" -> {cutoffs.validation}
    [] split = "test"       -> {cutoffs.test}

Days(data) == {data.purchases[i].day : i \in DOMAIN data.purchases}

(* What the theorems need of a dataset: its rows have days, and one of     *)
(* them is the first.                                                      *)
IsDataset(data) ==
  /\ data = [customers |-> data.customers, articles |-> data.articles,
             purchases |-> data.purchases]
  /\ data.purchases =
       [i \in DOMAIN data.purchases |-> data.purchases[i]]
  /\ \A i \in DOMAIN data.purchases : data.purchases[i].day \in Int
  /\ \E i \in DOMAIN data.purchases : \A j \in DOMAIN data.purchases :
       data.purchases[i].day <= data.purchases[j].day

(* The test outcome window is observable and there are three training      *)
(* windows.                                                                *)
EnoughHistory(data, cutoffs) ==
  /\ Max(Days(data)) >= cutoffs.test + Horizon
  /\ Cardinality(TrainTimes(Min(Days(data)), cutoffs.validation)) >= 3

(***************************************************************************)
(* The labels.  Between is the SQL condition t_dat > a AND t_dat <= b.     *)
(***************************************************************************)
Between(data, a, b) ==
  {i \in DOMAIN data.purchases :
     data.purchases[i].day > a /\ data.purchases[i].day <= b}

By(data, rows, customer) == {i \in rows : data.purchases[i].customer = customer}
Of(data, rows, article)  == {i \in rows : data.purchases[i].article = article}

(* Customers active in the last Horizon days; the label is 1 for those who *)
(* buy nothing in the next.                                                *)
Active(data, t) ==
  {c \in data.customers : By(data, Between(data, t - Horizon, t), c) # {}}

Churns(data, t, c) ==
  IF By(data, Between(data, t, t + Horizon), c) = {} THEN 1 ELSE 0

ChurnLabels(data, times) ==
  UNION {{<<t, c, Churns(data, t, c)>> : c \in Active(data, t)} : t \in times}

(* The amount for which an article sells in the next Horizon days.         *)
Sales(data, t, a) ==
  SumFunction([i \in Of(data, Between(data, t, t + Horizon), a) |->
                 data.purchases[i].price])

SalesLabels(data, times) ==
  UNION {{<<t, a, Sales(data, t, a)>> : a \in data.articles} : t \in times}

Labels(task, data, times) ==
  CASE task = "churn" -> ChurnLabels(data, times)
    [] task = "sales" -> SalesLabels(data, times)

LabelsOf(task, split, data, cutoffs) ==
  Labels(task, data, Times(split, Min(Days(data)), cutoffs))

WithoutTarget(labels) == {<<row[1], row[2]>> : row \in labels}

(* What a split's labels must satisfy before they are written.             *)
ValidLabels(task, labels) ==
  /\ labels # {}
  /\ Cardinality(WithoutTarget(labels)) = Cardinality(labels)
  /\ Binary(task) => {row[3] : row \in labels} = {0, 1}

(***************************************************************************)
(* What was known on a day.                                                *)
(***************************************************************************)
KnownBy(data, day) ==
  [data EXCEPT !.purchases =
     [i \in {j \in DOMAIN data.purchases : data.purchases[j].day <= day} |->
        data.purchases[i]]]
=============================================================================
