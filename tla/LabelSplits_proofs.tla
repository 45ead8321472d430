------------------------- MODULE LabelSplits_proofs -------------------------
(***************************************************************************)
(* The labels of a split do not depend on anything recorded after the end  *)
(* of its last outcome window.                                             *)
(***************************************************************************)
EXTENDS LabelSplits, TLAPS

(* A training window ends at the validation cutoff at the latest.          *)
LEMMA TrainWindowsEnd ==
  ASSUME NEW minimum \in Int, NEW validation \in Int,
         NEW t \in TrainTimes(minimum, validation)
  PROVE  t \in Int /\ t + Horizon <= validation
<1>1. Horizon \in Nat /\ Horizon >= 1
  BY HorizonAssumption
<1>2. (validation - minimum) \div Horizon \in Int
  BY <1>1
<1>3. PICK k \in 1..((validation - minimum) \div Horizon) :
        t = validation - k * Horizon
  BY DEF TrainTimes
<1>4. k \in Int /\ k >= 1
  BY <1>2, <1>3
<1>5. k * Horizon \in Int /\ k * Horizon >= Horizon
  <2>1. (k - 1) * Horizon >= 0
    BY <1>1, <1>4
  <2>2. k * Horizon = (k - 1) * Horizon + Horizon
    BY <1>1, <1>4
  <2> QED BY <1>1, <1>4, <2>1, <2>2
<1> QED BY <1>1, <1>3, <1>5

(* The first day of a dataset is a day.                                    *)
LEMMA FirstDay ==
  ASSUME NEW data, IsDataset(data)
  PROVE  Min(Days(data)) \in Int
<1>1. Days(data) \subseteq Int
  BY DEF Days, IsDataset
<1>2. \E x \in Days(data) : \A y \in Days(data) : x <= y
  <2>1. PICK i \in DOMAIN data.purchases : \A j \in DOMAIN data.purchases :
          data.purchases[i].day <= data.purchases[j].day
    BY DEF IsDataset
  <2> QED BY <2>1 DEF Days
<1> QED BY <1>1, <1>2 DEF Min

(* What is recorded up to a day shows the same rows in every window that   *)
(* ends by then.                                                           *)
LEMMA KnownWindow ==
  ASSUME NEW data, IsDataset(data), NEW day \in Int,
         NEW a \in Int, NEW b \in Int, b <= day
  PROVE  /\ KnownBy(data, day).customers = data.customers
         /\ KnownBy(data, day).articles = data.articles
         /\ Between(KnownBy(data, day), a, b) = Between(data, a, b)
         /\ \A i \in Between(data, a, b) :
              KnownBy(data, day).purchases[i] = data.purchases[i]
<1> DEFINE known == [i \in {j \in DOMAIN data.purchases :
                              data.purchases[j].day <= day} |->
                       data.purchases[i]]
<1>1. KnownBy(data, day) = [customers |-> data.customers,
                            articles |-> data.articles, purchases |-> known]
  BY DEF KnownBy, IsDataset
<1>2. /\ KnownBy(data, day).purchases = known
      /\ KnownBy(data, day).customers = data.customers
      /\ KnownBy(data, day).articles = data.articles
  BY <1>1
<1>3. \A i \in DOMAIN data.purchases :
        data.purchases[i].day <= b => data.purchases[i].day <= day
  BY DEF IsDataset
<1>4. Between(KnownBy(data, day), a, b) = Between(data, a, b)
  BY <1>2, <1>3 DEF Between
<1>5. \A i \in Between(data, a, b) : known[i] = data.purchases[i]
  BY <1>3 DEF Between
<1> QED BY <1>2, <1>4, <1>5

(* Labels at given times are determined by what is known when the last of  *)
(* their outcome windows ends.                                             *)
THEOREM LabelsNeedNoLaterData ==
  ASSUME NEW task \in TaskIds, NEW data, IsDataset(data), NEW day \in Int,
         NEW times \in SUBSET Int, \A t \in times : t + Horizon <= day
  PROVE  Labels(task, data, times) = Labels(task, KnownBy(data, day), times)
<1> DEFINE past == KnownBy(data, day)
<1>h. Horizon \in Int /\ Horizon >= 1
  BY HorizonAssumption
<1>1. \A t \in times :
        /\ t \in Int /\ t - Horizon \in Int /\ t + Horizon \in Int
        /\ t <= day /\ t + Horizon <= day
  BY <1>h
<1>2. past.customers = data.customers /\ past.articles = data.articles
  BY KnownWindow, day <= day
<1>3. \A t \in times :
        /\ Between(past, t - Horizon, t) = Between(data, t - Horizon, t)
        /\ \A i \in Between(data, t - Horizon, t) :
             past.purchases[i] = data.purchases[i]
  BY <1>1, KnownWindow
<1>4. \A t \in times :
        /\ Between(past, t, t + Horizon) = Between(data, t, t + Horizon)
        /\ \A i \in Between(data, t, t + Horizon) :
             past.purchases[i] = data.purchases[i]
  BY <1>1, KnownWindow
<1>5. \A t \in times : \A c :
        /\ By(past, Between(past, t - Horizon, t), c)
             = By(data, Between(data, t - Horizon, t), c)
        /\ By(past, Between(past, t, t + Horizon), c)
             = By(data, Between(data, t, t + Horizon), c)
  BY <1>3, <1>4 DEF By
<1>6. ChurnLabels(data, times) = ChurnLabels(past, times)
  <2>1. \A t \in times : Active(past, t) = Active(data, t)
    BY <1>2, <1>5 DEF Active
  <2>2. \A t \in times : \A c : Churns(past, t, c) = Churns(data, t, c)
    BY <1>5 DEF Churns
  <2>3. \A t \in times :
          {<<t, c, Churns(past, t, c)>> : c \in Active(past, t)}
          = {<<t, c, Churns(data, t, c)>> : c \in Active(data, t)}
    BY <2>1, <2>2
  <2> QED BY <2>3 DEF ChurnLabels
<1>7. \A t \in times : \A a : Sales(past, t, a) = Sales(data, t, a)
  <2> SUFFICES ASSUME NEW t \in times, NEW a
               PROVE  Sales(past, t, a) = Sales(data, t, a)
    OBVIOUS
  <2>1. Of(past, Between(past, t, t + Horizon), a)
          = Of(data, Between(data, t, t + Horizon), a)
    BY <1>4 DEF Of
  <2>2. \A i \in Of(data, Between(data, t, t + Horizon), a) :
          past.purchases[i] = data.purchases[i]
    BY <1>4 DEF Of
  <2>3. [i \in Of(past, Between(past, t, t + Horizon), a) |->
           past.purchases[i].price]
        = [i \in Of(data, Between(data, t, t + Horizon), a) |->
             data.purchases[i].price]
    BY <2>1, <2>2
  <2> QED BY <2>3 DEF Sales
<1>8. SalesLabels(data, times) = SalesLabels(past, times)
  <2>1. \A t \in times :
          {<<t, a, Sales(past, t, a)>> : a \in past.articles}
          = {<<t, a, Sales(data, t, a)>> : a \in data.articles}
    BY <1>2, <1>7
  <2> QED BY <2>1 DEF SalesLabels
<1> QED BY <1>6, <1>8 DEF Labels, TaskIds

(* Nothing after the validation cutoff enters the labels of training, and  *)
(* nothing after the test cutoff those of validation (_timestamps and the  *)
(* reviewed SQL), whatever the data, the horizon and the cutoffs.          *)
THEOREM SplitsDoNotLeak ==
  ASSUME NEW task \in TaskIds, NEW data, IsDataset(data),
         NEW validation \in Int, NEW test \in Int, validation + Horizon <= test,
         NEW minimum \in Int
  PROVE  /\ Labels(task, data, TrainTimes(minimum, validation))
              = Labels(task, KnownBy(data, validation),
                       TrainTimes(minimum, validation))
         /\ Labels(task, data, {validation})
              = Labels(task, KnownBy(data, test), {validation})
<1>1. TrainTimes(minimum, validation) \in SUBSET Int
  BY TrainWindowsEnd
<1>2. \A t \in TrainTimes(minimum, validation) : t + Horizon <= validation
  BY TrainWindowsEnd
<1>3. Labels(task, data, TrainTimes(minimum, validation))
        = Labels(task, KnownBy(data, validation), TrainTimes(minimum, validation))
  BY <1>1, <1>2, LabelsNeedNoLaterData
<1>4. Labels(task, data, {validation}) = Labels(task, KnownBy(data, test), {validation})
  BY {validation} \in SUBSET Int, \A t \in {validation} : t + Horizon <= test,
     LabelsNeedNoLaterData
<1> QED BY <1>3, <1>4

(* Training times are whole horizons apart.                                *)
LEMMA TrainTimesApart ==
  ASSUME NEW minimum \in Int, NEW validation \in Int,
         NEW t \in TrainTimes(minimum, validation),
         NEW u \in TrainTimes(minimum, validation), t # u
  PROVE  t + Horizon <= u \/ u + Horizon <= t
<1>1. Horizon \in Nat /\ Horizon >= 1
  BY HorizonAssumption
<1>2. (validation - minimum) \div Horizon \in Int
  BY <1>1
<1>3. PICK k \in 1..((validation - minimum) \div Horizon) :
        t = validation - k * Horizon
  BY DEF TrainTimes
<1>4. PICK l \in 1..((validation - minimum) \div Horizon) :
        u = validation - l * Horizon
  BY DEF TrainTimes
<1>5. k \in Int /\ l \in Int /\ k # l
  BY <1>2, <1>3, <1>4
<1>6. \A a, b \in Int : a < b => a * Horizon + Horizon <= b * Horizon
  <2> TAKE a, b \in Int
  <2> HAVE a < b
  <2>1. (b - a - 1) * Horizon >= 0
    BY <1>1
  <2>2. b * Horizon = (b - a - 1) * Horizon + a * Horizon + Horizon
    BY <1>1
  <2>3. a * Horizon \in Int /\ b * Horizon \in Int /\ (b - a - 1) * Horizon \in Int
    BY <1>1
  <2> QED BY <1>1, <2>1, <2>2, <2>3
<1>7. k * Horizon \in Int /\ l * Horizon \in Int
  BY <1>1, <1>5
<1>8. k < l \/ l < k
  BY <1>5
<1>9. CASE k < l
  <2>1. k * Horizon + Horizon <= l * Horizon
    BY <1>5, <1>6, <1>9
  <2> QED BY <1>1, <1>3, <1>4, <1>7, <2>1
<1>10. CASE l < k
  <2>1. l * Horizon + Horizon <= k * Horizon
    BY <1>5, <1>6, <1>10
  <2> QED BY <1>1, <1>3, <1>4, <1>7, <2>1
<1> QED BY <1>8, <1>9, <1>10

(* No purchase counts towards the outcomes of two prediction times, of one *)
(* split or of two (_timestamps and the windows of the reviewed SQL).      *)
THEOREM OutcomesCountOnce ==
  ASSUME NEW data, IsDataset(data),
         NEW validation \in Int, NEW test \in Int, validation + Horizon <= test,
         NEW minimum \in Int,
         NEW t \in TrainTimes(minimum, validation) \cup {validation, test},
         NEW u \in TrainTimes(minimum, validation) \cup {validation, test},
         t # u
  PROVE  Between(data, t, t + Horizon) \cap Between(data, u, u + Horizon) = {}
<1>1. Horizon \in Nat /\ Horizon >= 1
  BY HorizonAssumption
<1>2. \A x \in TrainTimes(minimum, validation) :
        x \in Int /\ x + Horizon <= validation
  BY TrainWindowsEnd
<1>3. t \in Int /\ u \in Int
  BY <1>2
<1>4. t + Horizon <= u \/ u + Horizon <= t
  BY <1>1, <1>2, TrainTimesApart
<1>5. \A i \in DOMAIN data.purchases : data.purchases[i].day \in Int
  BY DEF IsDataset
<1> QED BY <1>1, <1>3, <1>4, <1>5 DEF Between
=============================================================================
