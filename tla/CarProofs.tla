------------------------------ MODULE CarProofs ------------------------------
(***************************************************************************)
(* The tables of the car contract stay consistent, it owns what it owes,   *)
(* and its pages show every car, for any addresses, names, fees and        *)
(* thresholds.  The tables are inductive together: the counters need the   *)
(* types of the tables they count, and a listed owner keeps an account     *)
(* because renaming never removes one.  What is owed is a sum of which     *)
(* every transaction changes one or two terms; a page is the result of a   *)
(* loop, by induction over its passes.                                     *)
(***************************************************************************)
EXTENDS CarContract, SequenceTheorems, Induction

IInv == TypeOK /\ NamesAgree /\ CountsMatch

LEMMA InitIInv == Init => IInv
<1> SUFFICES ASSUME Init PROVE IInv
  OBVIOUS
<1>1. TypeOK
  BY CarAssumption DEF Init, TypeOK
<1>2. NamesAgree
  BY CarAssumption DEF Init, NamesAgree
<1>3. CountsMatch
  BY DEF Init, CountsMatch
<1>4. QED
  BY <1>1, <1>2, <1>3 DEF IInv

LEMMA IncreaseType ==
    ASSUME NEW h \in [Address -> Int], NEW a \in Address, NEW v \in Int
    PROVE  Increase(h, a, v) \in [Address -> Int]
BY DEF Increase

LEMMA SameLength ==
    ASSUME NEW m \in Nat, NEW n \in Nat, 1 .. m = 1 .. n
    PROVE  m = n
<1>1. m > n => m \in 1 .. m /\ m \notin 1 .. n
  OBVIOUS
<1>2. n > m => n \in 1 .. n /\ n \notin 1 .. m
  OBVIOUS
<1>3. QED
  BY <1>1, <1>2

\* The four lists run side by side, and what is in them.
LEMMA Lists ==
    ASSUME IInv
    PROVE  /\ cars \in Seq(Car) /\ status \in Seq(Seq(Status))
           /\ carReports \in Seq(SUBSET Address)
           /\ statusReports \in Seq(Seq(SUBSET Address))
           /\ Len(cars) \in Nat /\ DOMAIN cars = 1 .. Len(cars)
           /\ Len(status) = Len(cars) /\ Len(carReports) = Len(cars)
           /\ Len(statusReports) = Len(cars)
           /\ \A i \in 1 .. Len(cars) :
                 /\ cars[i] \in Car /\ status[i] \in Seq(Status)
                 /\ carReports[i] \in SUBSET Address
                 /\ statusReports[i] \in Seq(SUBSET Address)
                 /\ Len(status[i]) \in Nat /\ DOMAIN status[i] = 1 .. Len(status[i])
                 /\ Len(statusReports[i]) = Len(status[i])
                 /\ \A j \in 1 .. Len(status[i]) :
                       /\ status[i][j] \in Status
                       /\ statusReports[i][j] \in SUBSET Address
<1>1. /\ cars \in Seq(Car) /\ status \in Seq(Seq(Status))
      /\ carReports \in Seq(SUBSET Address)
      /\ statusReports \in Seq(Seq(SUBSET Address))
  BY DEF IInv, TypeOK
<1>2. /\ Len(cars) \in Nat /\ DOMAIN cars = 1 .. Len(cars)
      /\ Len(status) \in Nat /\ DOMAIN status = 1 .. Len(status)
      /\ Len(carReports) \in Nat /\ DOMAIN carReports = 1 .. Len(carReports)
      /\ Len(statusReports) \in Nat /\ DOMAIN statusReports = 1 .. Len(statusReports)
  BY <1>1, LenProperties
<1>3. /\ Len(status) = Len(cars) /\ Len(carReports) = Len(cars)
      /\ Len(statusReports) = Len(cars)
  BY <1>2, SameLength DEF IInv, CountsMatch
<1>4. ASSUME NEW i \in 1 .. Len(cars)
      PROVE  /\ cars[i] \in Car /\ status[i] \in Seq(Status)
             /\ carReports[i] \in SUBSET Address
             /\ statusReports[i] \in Seq(SUBSET Address)
             /\ Len(status[i]) \in Nat /\ DOMAIN status[i] = 1 .. Len(status[i])
             /\ Len(statusReports[i]) = Len(status[i])
             /\ \A j \in 1 .. Len(status[i]) :
                   /\ status[i][j] \in Status
                   /\ statusReports[i][j] \in SUBSET Address
  <2>1. /\ cars[i] \in Car /\ status[i] \in Seq(Status)
        /\ carReports[i] \in SUBSET Address
        /\ statusReports[i] \in Seq(SUBSET Address)
    BY <1>1, <1>3, ElementOfSeq
  <2>2. /\ Len(status[i]) \in Nat /\ DOMAIN status[i] = 1 .. Len(status[i])
        /\ Len(statusReports[i]) \in Nat
        /\ DOMAIN statusReports[i] = 1 .. Len(statusReports[i])
    BY <2>1, LenProperties
  <2>3. Len(statusReports[i]) = Len(status[i])
    BY <1>2, <2>2, SameLength DEF IInv, CountsMatch
  <2>4. \A j \in 1 .. Len(status[i]) :
          status[i][j] \in Status /\ statusReports[i][j] \in SUBSET Address
    BY <2>1, <2>3, ElementOfSeq
  <2>5. QED
    BY <2>1, <2>2, <2>3, <2>4
<1>5. QED
  BY <1>1, <1>2, <1>3, <1>4

\* A transaction that moves CART only.
LEMMA MoneyKeeps ==
    ASSUME IInv, UNCHANGED <<people, records, now>>,
           holding' \in [Address -> Int], funds' \in Int
    PROVE  IInv'
<1> USE DEF people, records
<1>1. TypeOK'
  BY DEF IInv, TypeOK
<1>2. NamesAgree'
  BY DEF IInv, NamesAgree
<1>3. CountsMatch'
  BY DEF IInv, CountsMatch
<1>4. QED
  BY <1>1, <1>2, <1>3 DEF IInv

LEMMA PayKeeps ==
    ASSUME IInv, NEW a \in Address, NEW amount \in Amounts,
           OnPay(a, amount) \/ OnPayout(a, amount)
    PROVE  IInv'
<1>1. holding \in [Address -> Int] /\ funds \in Int /\ amount \in Int /\ -amount \in Int
  BY CarAssumption DEF IInv, TypeOK
<1>2. holding' \in [Address -> Int]
  BY <1>1, IncreaseType DEF OnPay, OnPayout
<1>3. funds' \in Int
  BY <1>1 DEF OnPay, OnPayout
<1>4. QED
  BY <1>2, <1>3, MoneyKeeps DEF OnPay, OnPayout

LEMMA RewardKeeps ==
    ASSUME IInv, NEW a \in Address, NEW i \in DOMAIN cars,
           NEW amount \in Amounts, RewardCar(a, i, amount)
    PROVE  IInv'
<1> DEFINE fee == amount \div FeeShare
           given == Increase(Increase(holding, a, -amount), a, -amount)
<1>1. holding \in [Address -> Int] /\ -amount \in Int
  BY CarAssumption DEF IInv, TypeOK
<1>2. fee \in Int /\ amount - fee \in Int
  BY CarAssumption
<1>3. cars[i].owner \in Address /\ Genesis \in Address
  BY CarAssumption, Lists DEF Car
<1>4. given \in [Address -> Int]
  BY <1>1, IncreaseType
<1>5. Increase(given, cars[i].owner, amount - fee) \in [Address -> Int]
  BY <1>2, <1>3, <1>4, IncreaseType
<1>6. Increase(Increase(given, cars[i].owner, amount - fee), Genesis, fee)
        \in [Address -> Int]
  BY <1>2, <1>3, <1>5, IncreaseType
<1>7. holding' \in [Address -> Int] /\ funds' = funds /\ funds \in Int
  BY <1>6 DEF RewardCar, IInv, TypeOK
<1>8. QED
  BY <1>7, MoneyKeeps DEF RewardCar

LEMMA AccountKeeps ==
    ASSUME IInv, NEW a \in Address, NEW name \in Names,
           CreateOrUpdateAccount(a, name)
    PROVE  IInv'
<1>1. /\ usernames[name] \in {Nobody, a}
      /\ holding' = Increase(holding, a, -AccountFee)
      /\ accounts' = [accounts EXCEPT ![a] = name]
      /\ usernames' = Renamed(a, name)
      /\ UNCHANGED <<funds, cars, status, carReports, statusReports, now>>
  BY DEF CreateOrUpdateAccount, records
<1>2. holding' \in [Address -> Int]
  <2>1. holding \in [Address -> Int] /\ -AccountFee \in Int
    BY CarAssumption DEF IInv, TypeOK
  <2>2. QED
    BY <1>1, <2>1, IncreaseType
<1>3. /\ accounts' \in [Address -> Names \cup {NoName}]
      /\ usernames' \in [Names -> Address \cup {Nobody}]
  BY <1>1 DEF IInv, TypeOK, Renamed
<1>4. \A b \in Address : accounts[b] \in Names => accounts'[b] \in Names
  BY <1>1 DEF IInv, TypeOK
<1>5. \A i \in DOMAIN cars : cars[i].owner \in Address
  BY Lists DEF Car
<1>6. \A i \in DOMAIN status : \A j \in DOMAIN status[i] : status[i][j].owner \in Address
  BY Lists DEF IInv, CountsMatch, Status
<1>7. TypeOK'
  BY <1>1, <1>2, <1>3, <1>4, <1>5, <1>6 DEF IInv, TypeOK
<1>8. NamesAgree'
  <2> SUFFICES ASSUME NEW b \in Address, NEW n \in Names
               PROVE  usernames'[n] = b <=> accounts'[b] = n
    BY DEF NamesAgree
  <2>1. usernames'[n] = IF n = name THEN a
                        ELSE IF n = accounts[a] THEN Nobody ELSE usernames[n]
    BY <1>1 DEF Renamed
  <2>2. accounts'[b] = IF b = a THEN name ELSE accounts[b]
    BY <1>1 DEF IInv, TypeOK
  <2>3. /\ usernames[n] = b <=> accounts[b] = n
        /\ usernames[name] = b <=> accounts[b] = name
        /\ usernames[n] = a <=> accounts[a] = n
    BY DEF IInv, NamesAgree
  <2>4. b # Nobody
    BY CarAssumption
  <2>5. QED
    BY <1>1, <2>1, <2>2, <2>3, <2>4
<1>9. CountsMatch'
  BY <1>1 DEF IInv, CountsMatch
<1>10. QED
  BY <1>7, <1>8, <1>9 DEF IInv

\* Nobody reports twice, so a report adds one to the count of the reporters.
LEMMA OneMoreReporter ==
    ASSUME NEW R \in SUBSET Address, NEW a \in Address, a \notin R
    PROVE  R \cup {a} \in SUBSET Address /\ Cardinality(R \cup {a}) = Cardinality(R) + 1
<1>1. IsFiniteSet(R)
  BY CarAssumption, FS_Subset
<1>2. QED
  BY <1>1, FS_AddElement

LEMMA CreateCarKeeps ==
    ASSUME IInv, NEW a \in Address, CreateCar(a)
    PROVE  IInv'
<1> DEFINE n == Len(cars)
           new == [owner |-> a, time |-> now, statuses |-> 0, reports |-> 0]
<1>1. /\ cars' = Append(cars, new) /\ status' = Append(status, <<>>)
      /\ carReports' = Append(carReports, {})
      /\ statusReports' = Append(statusReports, <<>>)
      /\ UNCHANGED <<funds, accounts, usernames, now>>
      /\ accounts[a] # NoName
  BY DEF CreateCar, people, HasAccount
<1>2. holding' \in [Address -> Int]
  <2>1. holding \in [Address -> Int] /\ CarReward \in Int /\ -CarReward \in Int
        /\ Genesis \in Address
    BY CarAssumption DEF IInv, TypeOK
  <2>2. Increase(holding, a, CarReward) \in [Address -> Int]
    BY <2>1, IncreaseType
  <2>3. QED
    BY <2>1, <2>2, IncreaseType DEF CreateCar
<1>3. new \in Car
  BY DEF IInv, TypeOK, Car
<1>4. /\ cars' \in Seq(Car) /\ DOMAIN cars' = 1 .. n + 1 /\ n \in Nat
      /\ cars'[n + 1] = new /\ \A i \in 1 .. n : cars'[i] = cars[i]
  BY <1>1, <1>3, Lists, AppendProperties, LenProperties
<1>5. /\ status' \in Seq(Seq(Status)) /\ DOMAIN status' = 1 .. n + 1
      /\ status'[n + 1] = <<>> /\ \A i \in 1 .. n : status'[i] = status[i]
  BY <1>1, Lists, AppendProperties, LenProperties, EmptySeq
<1>6. /\ carReports' \in Seq(SUBSET Address) /\ DOMAIN carReports' = 1 .. n + 1
      /\ carReports'[n + 1] = {} /\ \A i \in 1 .. n : carReports'[i] = carReports[i]
  BY <1>1, Lists, AppendProperties, LenProperties
<1>7. /\ statusReports' \in Seq(Seq(SUBSET Address)) /\ DOMAIN statusReports' = 1 .. n + 1
      /\ statusReports'[n + 1] = <<>>
      /\ \A i \in 1 .. n : statusReports'[i] = statusReports[i]
  BY <1>1, Lists, AppendProperties, LenProperties, EmptySeq
<1>8. accounts[a] \in Names
  BY <1>1 DEF IInv, TypeOK
<1>9. TypeOK'
  <2>1. \A i \in DOMAIN cars' : accounts'[cars'[i].owner] \in Names
    BY <1>1, <1>4, <1>8, Lists DEF IInv, TypeOK
  <2>2. \A i \in DOMAIN status' : \A j \in DOMAIN status'[i] :
          accounts'[status'[i][j].owner] \in Names
    BY <1>1, <1>4, <1>5, Lists DEF IInv, TypeOK, CountsMatch
  <2>3. QED
    BY <1>1, <1>2, <1>4, <1>5, <1>6, <1>7, <2>1, <2>2 DEF IInv, TypeOK
<1>10. NamesAgree'
  BY <1>1 DEF IInv, NamesAgree
<1>11. CountsMatch'
  <2>1. ASSUME NEW i \in 1 .. n + 1
        PROVE  /\ cars'[i].reports = Cardinality(carReports'[i])
               /\ cars'[i].statuses = Len(status'[i])
               /\ DOMAIN statusReports'[i] = DOMAIN status'[i]
               /\ \A j \in DOMAIN status'[i] :
                     status'[i][j].reports = Cardinality(statusReports'[i][j])
    <3>1. CASE i = n + 1
      <4>1. new.reports = 0 /\ new.statuses = 0
        OBVIOUS
      <4>2. DOMAIN status'[i] = {} /\ DOMAIN statusReports'[i] = {} /\ Len(status'[i]) = 0
        BY <3>1, <1>5, <1>7, EmptySeq
      <4>3. Cardinality(carReports'[i]) = 0
        BY <3>1, <1>6, FS_EmptySet
      <4>4. cars'[i] = new
        BY <3>1, <1>4
      <4>5. /\ cars'[i].reports = Cardinality(carReports'[i])
            /\ cars'[i].statuses = Len(status'[i])
        BY <4>1, <4>2, <4>3, <4>4
      <4>6. QED
        BY <4>2, <4>5
    <3>2. CASE i # n + 1
      <4>1. i \in DOMAIN cars /\ i \in 1 .. n
        BY <3>2, <1>4, Lists
      <4>2. /\ cars'[i] = cars[i] /\ status'[i] = status[i]
            /\ carReports'[i] = carReports[i] /\ statusReports'[i] = statusReports[i]
        BY <4>1, <1>4, <1>5, <1>6, <1>7
      <4>3. QED
        BY <4>1, <4>2 DEF IInv, CountsMatch
    <3>3. QED
      BY <3>1, <3>2
  <2>2. QED
    BY <2>1, <1>4, <1>5, <1>6, <1>7 DEF CountsMatch
<1>12. QED
  BY <1>9, <1>10, <1>11 DEF IInv

\* A report changes two lists at the position of the car.
LEMMA ReportCarKeeps ==
    ASSUME IInv, NEW a \in Address, NEW i \in DOMAIN cars, ReportCar(a, i)
    PROVE  IInv'
<1>1. /\ i \in 1 .. Len(cars) /\ cars[i] \in Car /\ carReports[i] \in SUBSET Address
      /\ a \notin carReports[i]
      /\ cars' = [cars EXCEPT ![i] = [cars[i] EXCEPT !.reports = @ + 1]]
      /\ carReports' = [carReports EXCEPT ![i] = carReports[i] \cup {a}]
      /\ UNCHANGED <<holding, funds, accounts, usernames, status, statusReports, now>>
  BY Lists DEF ReportCar, CanReportCar, money, people
<1>2. /\ [cars[i] EXCEPT !.reports = @ + 1] \in Car
      /\ [cars[i] EXCEPT !.reports = @ + 1].owner = cars[i].owner
      /\ [cars[i] EXCEPT !.reports = @ + 1].statuses = cars[i].statuses
      /\ [cars[i] EXCEPT !.reports = @ + 1].reports = cars[i].reports + 1
  BY <1>1 DEF Car
<1>3. /\ cars' \in Seq(Car) /\ DOMAIN cars' = DOMAIN cars
      /\ \A k \in DOMAIN cars : /\ cars'[k].owner = cars[k].owner
                                /\ cars'[k].statuses = cars[k].statuses
                                /\ k # i => cars'[k].reports = cars[k].reports
      /\ cars'[i].reports = cars[i].reports + 1
  <2>1. /\ cars' \in Seq(Car) /\ Len(cars') = Len(cars)
        /\ \A k \in 1 .. Len(cars) :
              cars'[k] = IF k = i THEN [cars[i] EXCEPT !.reports = @ + 1] ELSE cars[k]
    BY <1>1, <1>2, Lists, ExceptSeq
  <2>2. DOMAIN cars' = 1 .. Len(cars) /\ DOMAIN cars = 1 .. Len(cars)
    BY <2>1, Lists, LenProperties
  <2>3. QED
    BY <1>1, <1>2, <2>1, <2>2
<1>4. /\ carReports' \in Seq(SUBSET Address) /\ DOMAIN carReports' = DOMAIN carReports
      /\ \A k \in DOMAIN cars : k # i => carReports'[k] = carReports[k]
      /\ Cardinality(carReports'[i]) = Cardinality(carReports[i]) + 1
  <2>1. /\ carReports[i] \cup {a} \in SUBSET Address
        /\ Cardinality(carReports[i] \cup {a}) = Cardinality(carReports[i]) + 1
    BY <1>1, OneMoreReporter
  <2>2. /\ carReports' \in Seq(SUBSET Address) /\ Len(carReports') = Len(carReports)
        /\ \A k \in 1 .. Len(cars) :
              carReports'[k] = IF k = i THEN carReports[i] \cup {a} ELSE carReports[k]
    BY <1>1, <2>1, Lists, ExceptSeq
  <2>3. /\ DOMAIN carReports' = 1 .. Len(cars) /\ DOMAIN carReports = 1 .. Len(cars)
        /\ DOMAIN cars = 1 .. Len(cars)
    BY <2>2, Lists, LenProperties
  <2>4. QED
    BY <1>1, <2>1, <2>2, <2>3
<1>5. TypeOK'
  BY <1>1, <1>3, <1>4 DEF IInv, TypeOK
<1>6. NamesAgree'
  BY <1>1 DEF IInv, NamesAgree
<1>7. CountsMatch'
  BY <1>1, <1>3, <1>4 DEF IInv, CountsMatch
<1>8. QED
  BY <1>5, <1>6, <1>7 DEF IInv

\* A new status and its empty set of reporters go to the ends of two lists.
LEMMA CreateStatusKeeps ==
    ASSUME IInv, NEW a \in Address, NEW i \in DOMAIN cars, CreateStatus(a, i)
    PROVE  IInv'
<1> DEFINE new == [owner |-> a, reports |-> 0]
           n == Len(status[i])
<1>1. /\ i \in 1 .. Len(cars) /\ cars[i] \in Car /\ status[i] \in Seq(Status)
      /\ statusReports[i] \in Seq(SUBSET Address) /\ Len(statusReports[i]) = n
      /\ accounts[a] # NoName
      /\ cars' = [cars EXCEPT ![i] = [cars[i] EXCEPT !.statuses = @ + 1]]
      /\ status' = [status EXCEPT ![i] = Append(status[i], new)]
      /\ statusReports' = [statusReports EXCEPT ![i] = Append(statusReports[i], {})]
      /\ UNCHANGED <<holding, funds, accounts, usernames, carReports, now>>
  BY Lists DEF CreateStatus, HasAccount, money, people
<1>2. /\ [cars[i] EXCEPT !.statuses = @ + 1] \in Car /\ new \in Status
      /\ [cars[i] EXCEPT !.statuses = @ + 1].owner = cars[i].owner
      /\ [cars[i] EXCEPT !.statuses = @ + 1].reports = cars[i].reports
      /\ [cars[i] EXCEPT !.statuses = @ + 1].statuses = cars[i].statuses + 1
  BY <1>1 DEF Car, Status
<1>3. /\ cars' \in Seq(Car) /\ DOMAIN cars' = DOMAIN cars
      /\ \A k \in DOMAIN cars : /\ cars'[k].owner = cars[k].owner
                                /\ cars'[k].reports = cars[k].reports
                                /\ k # i => cars'[k].statuses = cars[k].statuses
      /\ cars'[i].statuses = cars[i].statuses + 1
  <2>1. /\ cars' \in Seq(Car) /\ Len(cars') = Len(cars)
        /\ \A k \in 1 .. Len(cars) :
              cars'[k] = IF k = i THEN [cars[i] EXCEPT !.statuses = @ + 1] ELSE cars[k]
    BY <1>1, <1>2, Lists, ExceptSeq
  <2>2. DOMAIN cars' = 1 .. Len(cars) /\ DOMAIN cars = 1 .. Len(cars)
    BY <2>1, Lists, LenProperties
  <2>3. QED
    BY <1>1, <1>2, <2>1, <2>2
<1>4. /\ Append(status[i], new) \in Seq(Status)
      /\ DOMAIN Append(status[i], new) = 1 .. n + 1 /\ Len(Append(status[i], new)) = n + 1
      /\ Append(status[i], new)[n + 1] = new
      /\ \A j \in 1 .. n : Append(status[i], new)[j] = status[i][j]
  BY <1>1, <1>2, AppendProperties, LenProperties
<1>5. /\ Append(statusReports[i], {}) \in Seq(SUBSET Address)
      /\ DOMAIN Append(statusReports[i], {}) = 1 .. n + 1
      /\ Append(statusReports[i], {})[n + 1] = {}
      /\ \A j \in 1 .. n : Append(statusReports[i], {})[j] = statusReports[i][j]
  BY <1>1, AppendProperties, LenProperties
<1>6. /\ status' \in Seq(Seq(Status)) /\ DOMAIN status' = DOMAIN status
      /\ status'[i] = Append(status[i], new)
      /\ \A k \in DOMAIN cars : k # i => status'[k] = status[k]
  BY <1>1, <1>4, Lists, ExceptSeq
<1>7. /\ statusReports' \in Seq(Seq(SUBSET Address))
      /\ DOMAIN statusReports' = DOMAIN statusReports
      /\ statusReports'[i] = Append(statusReports[i], {})
      /\ \A k \in DOMAIN cars : k # i => statusReports'[k] = statusReports[k]
  BY <1>1, <1>5, Lists, ExceptSeq
<1>8. TypeOK'
  <2>1. accounts[a] \in Names
    BY <1>1 DEF IInv, TypeOK
  <2>2. ASSUME NEW k \in DOMAIN status', NEW j \in DOMAIN status'[k]
        PROVE  accounts'[status'[k][j].owner] \in Names
    <3>1. k \in DOMAIN cars /\ k \in DOMAIN status
      BY <1>6 DEF IInv, CountsMatch
    <3>2. CASE k # i
      BY <1>1, <1>6, <3>1, <3>2 DEF IInv, TypeOK
    <3>3. CASE k = i /\ j = n + 1
      BY <1>1, <1>4, <1>6, <2>1, <3>3
    <3>4. CASE k = i /\ j \in 1 .. n
      BY <1>1, <1>4, <1>6, <3>1, <3>4, Lists DEF IInv, TypeOK
    <3>5. n \in Nat
      BY <1>1, LenProperties
    <3>6. QED
      BY <3>2, <3>3, <3>4, <3>5, <1>4, <1>6
  <2>3. QED
    BY <1>1, <1>3, <1>6, <1>7, <2>2 DEF IInv, TypeOK
<1>9. NamesAgree'
  BY <1>1 DEF IInv, NamesAgree
<1>10. CountsMatch'
  <2>1. n \in Nat /\ cars[i].statuses = n
    BY <1>1, LenProperties DEF IInv, CountsMatch
  <2>2. \A j \in 1 .. n : status[i][j].reports = Cardinality(statusReports[i][j])
    BY <1>1, LenProperties DEF IInv, CountsMatch
  <2>3. \A j \in DOMAIN status'[i] :
          status'[i][j].reports = Cardinality(statusReports'[i][j])
    <3>1. SUFFICES ASSUME NEW j \in 1 .. n + 1
                   PROVE  status'[i][j].reports = Cardinality(statusReports'[i][j])
      BY <1>4, <1>6
    <3>2. CASE j = n + 1
      BY <3>2, <1>4, <1>5, <1>6, <1>7, FS_EmptySet
    <3>3. CASE j \in 1 .. n
      BY <3>3, <2>2, <1>4, <1>5, <1>6, <1>7
    <3>4. QED
      BY <2>1, <3>2, <3>3
  <2>4. cars'[i].statuses = Len(status'[i]) /\ DOMAIN statusReports'[i] = DOMAIN status'[i]
    BY <1>3, <1>4, <1>5, <1>6, <1>7, <2>1
  <2>5. QED
    BY <1>1, <1>3, <1>6, <1>7, <2>3, <2>4 DEF IInv, CountsMatch
<1>11. QED
  BY <1>8, <1>9, <1>10 DEF IInv

\* A report against a status changes one count and one set, two levels deep.
LEMMA ReportStatusKeeps ==
    ASSUME IInv, NEW a \in Address, NEW i \in DOMAIN cars, NEW j \in DOMAIN status[i],
           ReportStatus(a, i, j)
    PROVE  IInv'
<1> DEFINE reported == [status[i][j] EXCEPT !.reports = @ + 1]
           row == [status[i] EXCEPT ![j] = reported]
           reporters == statusReports[i][j] \cup {a}
           reportRow == [statusReports[i] EXCEPT ![j] = reporters]
<1>1. /\ i \in 1 .. Len(cars) /\ status[i] \in Seq(Status) /\ j \in 1 .. Len(status[i])
      /\ statusReports[i] \in Seq(SUBSET Address)
      /\ Len(statusReports[i]) = Len(status[i])
      /\ status[i][j] \in Status /\ statusReports[i][j] \in SUBSET Address
      /\ a \notin statusReports[i][j]
      /\ status' = [status EXCEPT ![i] = row]
      /\ statusReports' = [statusReports EXCEPT ![i] = reportRow]
      /\ UNCHANGED <<holding, funds, accounts, usernames, cars, carReports, now>>
  BY Lists DEF ReportStatus, money, people
<1>2. /\ reported \in Status /\ reported.owner = status[i][j].owner
      /\ reported.reports = status[i][j].reports + 1
  <2>1. ASSUME NEW s \in Status
        PROVE  LET r == [s EXCEPT !.reports = @ + 1]
               IN  r \in Status /\ r.owner = s.owner /\ r.reports = s.reports + 1
    BY DEF Status
  <2>2. status[i][j] \in Status
    BY <1>1
  <2>3. QED
    BY <2>1, <2>2
<1>3. /\ reporters \in SUBSET Address
      /\ Cardinality(reporters) = Cardinality(statusReports[i][j]) + 1
  BY <1>1, OneMoreReporter
<1>4. /\ row \in Seq(Status) /\ Len(row) = Len(status[i])
      /\ DOMAIN row = 1 .. Len(status[i])
      /\ \A k \in 1 .. Len(status[i]) : row[k] = IF k = j THEN reported ELSE status[i][k]
  <2>1. /\ row \in Seq(Status) /\ Len(row) = Len(status[i])
        /\ \A k \in 1 .. Len(status[i]) : row[k] = IF k = j THEN reported ELSE status[i][k]
    BY <1>1, <1>2, ExceptSeq
  <2>2. QED
    BY <2>1, LenProperties
<1>5. /\ reportRow \in Seq(SUBSET Address) /\ DOMAIN reportRow = 1 .. Len(status[i])
      /\ \A k \in 1 .. Len(status[i]) :
            reportRow[k] = IF k = j THEN reporters ELSE statusReports[i][k]
  <2>1. /\ reportRow \in Seq(SUBSET Address) /\ Len(reportRow) = Len(status[i])
        /\ \A k \in 1 .. Len(status[i]) :
              reportRow[k] = IF k = j THEN reporters ELSE statusReports[i][k]
    BY <1>1, <1>3, ExceptSeq
  <2>2. QED
    BY <2>1, LenProperties
<1> HIDE DEF row, reportRow
<1>6. /\ status' \in Seq(Seq(Status)) /\ DOMAIN status' = DOMAIN status
      /\ status'[i] = row
      /\ \A k \in DOMAIN cars : k # i => status'[k] = status[k]
  BY <1>1, <1>4, Lists, ExceptSeq
<1>7. /\ statusReports' \in Seq(Seq(SUBSET Address))
      /\ DOMAIN statusReports' = DOMAIN statusReports
      /\ statusReports'[i] = reportRow
      /\ \A k \in DOMAIN cars : k # i => statusReports'[k] = statusReports[k]
  BY <1>1, <1>5, Lists, ExceptSeq
<1>8. TypeOK'
  <2>1. ASSUME NEW k \in DOMAIN status', NEW l \in DOMAIN status'[k]
        PROVE  accounts'[status'[k][l].owner] \in Names
    <3>1. k \in DOMAIN cars /\ k \in DOMAIN status /\ i \in DOMAIN status
      BY <1>6 DEF IInv, CountsMatch
    <3>2. CASE k # i
      BY <1>1, <1>6, <3>1, <3>2 DEF IInv, TypeOK
    <3>3. CASE k = i
      <4>1. l \in 1 .. Len(status[i]) /\ status'[k][l] = row[l]
        BY <3>3, <1>4, <1>6
      <4>2. row[l].owner = status[i][l].owner
        BY <4>1, <1>2, <1>4
      <4>3. QED
        BY <1>1, <3>1, <3>3, <4>1, <4>2, Lists DEF IInv, TypeOK
    <3>4. QED
      BY <3>2, <3>3
  <2>2. QED
    BY <1>1, <1>6, <1>7, <2>1 DEF IInv, TypeOK
<1>9. NamesAgree'
  BY <1>1 DEF IInv, NamesAgree
<1>10. CountsMatch'
  <2>1. \A k \in 1 .. Len(status[i]) :
          status[i][k].reports = Cardinality(statusReports[i][k])
    BY <1>1, Lists DEF IInv, CountsMatch
  <2>2. \A k \in DOMAIN status'[i] :
          status'[i][k].reports = Cardinality(statusReports'[i][k])
    BY <1>2, <1>3, <1>4, <1>5, <1>6, <1>7, <2>1
  <2>3. Len(status'[i]) = Len(status[i]) /\ DOMAIN statusReports'[i] = DOMAIN status'[i]
    BY <1>4, <1>5, <1>6, <1>7
  <2>4. QED
    BY <1>1, <1>6, <1>7, <2>2, <2>3 DEF IInv, CountsMatch
<1>11. QED
  BY <1>8, <1>9, <1>10 DEF IInv

\* Time passes, or nothing happens.
LEMMA NothingKeeps ==
    ASSUME IInv, Tick \/ UNCHANGED vars
    PROVE  IInv'
<1>1. UNCHANGED <<holding, funds, accounts, usernames,
                  cars, status, carReports, statusReports>> /\ now' \in Nat
  BY DEF Tick, vars, money, people, records, IInv, TypeOK
<1>2. QED
  BY <1>1 DEF IInv, TypeOK, NamesAgree, CountsMatch

LEMMA NextIInv == IInv /\ [Next]_vars => IInv'
<1> SUFFICES ASSUME IInv, [Next]_vars PROVE IInv'
  OBVIOUS
<1>1. ASSUME NEW a \in Address, Transaction(a) PROVE IInv'
  <2>1. CASE \E amount \in Amounts : OnPay(a, amount) \/ OnPayout(a, amount)
    BY <2>1, PayKeeps
  <2>2. CASE \E name \in Names : CreateOrUpdateAccount(a, name)
    BY <2>2, AccountKeeps
  <2>3. CASE CreateCar(a)
    BY <2>3, CreateCarKeeps
  <2>4. ASSUME NEW i \in DOMAIN cars,
               \/ \E amount \in Amounts : RewardCar(a, i, amount)
               \/ ReportCar(a, i) \/ CreateStatus(a, i)
               \/ \E j \in DOMAIN status[i] : ReportStatus(a, i, j)
        PROVE  IInv'
    BY <2>4, RewardKeeps, ReportCarKeeps, CreateStatusKeeps, ReportStatusKeeps
  <2>5. QED
    BY <1>1, <2>1, <2>2, <2>3, <2>4 DEF Transaction
<1>2. QED
  BY <1>1, NothingKeeps DEF Next

LEMMA Invariance == Spec => []IInv
BY InitIInv, NextIInv, PTL DEF Spec

\* Types, and every car and every status that is listed has an owner with a name
\* (createCar and createStatus ask for the account, which no renaming removes).
THEOREM TypeCorrect == Spec => []TypeOK
<1>1. IInv => TypeOK
  BY DEF IInv
<1>2. QED
  BY <1>1, Invariance, PTL

\* The two tables of createOrUpdateAccount are each other's inverse, for any number
\* of addresses, names and renamings.
THEOREM NamesAlwaysAgree == Spec => []NamesAgree
<1>1. IInv => NamesAgree
  BY DEF IInv
<1>2. QED
  BY <1>1, Invariance, PTL

\* The counters of reportCar, createStatus and reportStatus are the sizes of what
\* they count, for any number of cars, statuses and reporters.
THEOREM CountsAreRight == Spec => []CountsMatch
<1>1. IInv => CountsMatch
  BY DEF IInv
<1>2. QED
  BY <1>1, Invariance, PTL

-----------------------------------------------------------------------------
(* What the contract owes. *)

Debt(h) == SumFunction(Owed(h))

Positive(v) == IF v > 0 THEN v ELSE 0

\* A change of one holding changes the debt by what it changes of that one.
LEMMA IncreaseDebt ==
    ASSUME NEW h \in [Address -> Int], NEW a \in Address, NEW v \in Int
    PROVE  /\ Debt(h) \in Int
           /\ Increase(h, a, v) \in [Address -> Int]
           /\ Increase(h, a, v)[a] = h[a] + v
           /\ \A b \in Address \ {a} : Increase(h, a, v)[b] = h[b]
           /\ Debt(Increase(h, a, v)) = Debt(h) + (Positive(h[a] + v) - Positive(h[a]))
<1> DEFINE g == Increase(h, a, v)
<1>1. /\ g \in [Address -> Int] /\ g[a] = h[a] + v
      /\ \A b \in Address \ {a} : g[b] = h[b]
  BY DEF Increase
<1> HIDE DEF g
<1>2. /\ Owed(h) \in [Address -> Int] /\ Owed(g) \in [Address -> Int]
      /\ Owed(h)[a] = Positive(h[a]) /\ Owed(g)[a] = Positive(h[a] + v)
      /\ \A b \in Address \ {a} : Owed(h)[b] = Owed(g)[b]
  BY <1>1 DEF Owed, Positive
<1>3. /\ Debt(h) \in Int
      /\ Debt(g) = Debt(h) + (Positive(h[a] + v) - Positive(h[a]))
  BY <1>2, CarAssumption, SumChange DEF Debt
<1>4. QED
  BY <1>1, <1>3 DEF g

\* What is added to a holding is the most the debt grows by; what is taken from
\* a holding that has it is what it shrinks by.
LEMMA DebtBounds ==
    ASSUME NEW h \in [Address -> Int], NEW a \in Address, NEW v \in Nat
    PROVE  /\ Increase(h, a, v) \in [Address -> Int]
           /\ Increase(h, a, -v) \in [Address -> Int]
           /\ Debt(h) \in Int
           /\ Debt(Increase(h, a, v)) \in Int /\ Debt(Increase(h, a, -v)) \in Int
           /\ Debt(Increase(h, a, v)) <= Debt(h) + v
           /\ Debt(Increase(h, a, -v)) <= Debt(h)
           /\ h[a] >= v => Debt(Increase(h, a, -v)) = Debt(h) - v
<1>1. /\ Debt(h) \in Int
      /\ Debt(Increase(h, a, v)) = Debt(h) + (Positive(h[a] + v) - Positive(h[a]))
      /\ Debt(Increase(h, a, -v)) = Debt(h) + (Positive(h[a] + -v) - Positive(h[a]))
  BY IncreaseDebt
<1>2. h[a] \in Int
  OBVIOUS
<1> DEFINE d == Debt(h)
           up == Debt(Increase(h, a, v))
           down == Debt(Increase(h, a, -v))
           x == h[a]
<1>3. /\ d \in Int /\ x \in Int
      /\ up = d + (Positive(x + v) - Positive(x))
      /\ down = d + (Positive(x + -v) - Positive(x))
  BY <1>1, <1>2
<1> HIDE DEF d, up, down, x
<1>4. /\ up \in Int /\ down \in Int /\ up <= d + v /\ down <= d
      /\ x >= v => down = d - v
  BY <1>3 DEF Positive
<1>5. Increase(h, a, v) \in [Address -> Int] /\ Increase(h, a, -v) \in [Address -> Int]
  BY IncreaseDebt
<1>6. QED
  BY <1>3, <1>4, <1>5 DEF d, up, down, x

LEMMA InitCovered == Init => PayoutsCovered
<1> SUFFICES ASSUME Init PROVE PayoutsCovered
  OBVIOUS
<1> DEFINE v == Owed(holding)
<1>1. v \in [Address -> Int] /\ \A a \in Address : v[a] = 0
  BY DEF Init, Owed
<1> HIDE DEF v
<1>2. SumFunction(v) = 0
  <2> DEFINE Good == {T \in SUBSET Address : SumFunctionOnSet(v, T) = 0}
  <2>1. ASSUME NEW T \in SUBSET Address, \A x \in T : T \ {x} \in Good
        PROVE  T \in Good
    <3>1. IsFiniteSet(T)
      BY CarAssumption, FS_Subset
    <3>2. CASE T = {}
      BY <3>2, SumEmpty
    <3>3. CASE T # {}
      <4>1. Chosen(T) \in T
        BY <3>3, ChosenIsIn
      <4>2. SumFunctionOnSet(v, T)
              = v[Chosen(T)] + SumFunctionOnSet(v, T \ {Chosen(T)})
        BY <3>1, <3>3, SumChosen
      <4>3. v[Chosen(T)] = 0 /\ SumFunctionOnSet(v, T \ {Chosen(T)}) = 0
        BY <1>1, <2>1, <4>1
      <4>4. QED
        BY <4>2, <4>3
    <3>4. QED
      BY <3>2, <3>3
  <2>2. Address \in Good
    <3> HIDE DEF Good
    <3>1. QED
      BY <2>1, CarAssumption, SubsetInduction
  <2>3. DOMAIN v = Address
    BY <1>1
  <2>4. QED
    BY <2>2, <2>3 DEF SumFunction
<1>3. QED
  BY <1>2 DEF PayoutsCovered, Init, v

(* Each transaction: a payment adds no more to the debt than to the funds, a *)
(* payout takes as much from both, and what is given is taken first from a   *)
(* holding that has it.                                                      *)
LEMMA NextCovered ==
    ASSUME IInv, PayoutsCovered, [Next]_vars
    PROVE  PayoutsCovered'
<1>1. /\ holding \in [Address -> Int] /\ funds \in Int
      /\ Debt(holding) \in Int /\ Debt(holding) <= funds
  <2>1. holding \in [Address -> Int] /\ funds \in Int
    BY DEF IInv, TypeOK
  <2>2. Genesis \in Address /\ 0 \in Nat
    BY CarAssumption
  <2>3. QED
    BY <2>1, <2>2, DebtBounds DEF PayoutsCovered, Debt
<1>2. SUFFICES Debt(holding') <= funds'
  BY DEF PayoutsCovered, Debt
<1>3. CASE UNCHANGED <<holding, funds>>
  BY <1>1, <1>3
<1>4. ASSUME NEW a \in Address, NEW amount \in Amounts,
             OnPay(a, amount) \/ OnPayout(a, amount)
      PROVE  Debt(holding') <= funds'
  <2>1. amount \in Nat /\ holding[a] \in Int
    BY CarAssumption, <1>1
  <2>2. CASE OnPay(a, amount)
    <3>1. holding' = Increase(holding, a, amount) /\ funds' = funds + amount
      BY <2>2 DEF OnPay
    <3>2. Debt(holding') <= Debt(holding) + amount /\ Debt(holding') \in Int
      BY <1>1, <2>1, <3>1, DebtBounds
    <3>3. QED
      BY <1>1, <2>1, <3>1, <3>2
  <2>3. CASE OnPayout(a, amount)
    <3>1. /\ holding' = Increase(holding, a, -amount) /\ funds' = funds - amount
          /\ holding[a] >= amount
      BY <2>1, <2>3 DEF OnPayout
    <3>2. Debt(holding') = Debt(holding) - amount
      BY <1>1, <2>1, <3>1, DebtBounds
    <3>3. QED
      BY <1>1, <2>1, <3>1, <3>2
  <2>4. QED
    BY <1>4, <2>2, <2>3
<1>5. ASSUME NEW a \in Address, NEW name \in Names, CreateOrUpdateAccount(a, name)
      PROVE  Debt(holding') <= funds'
  <2>1. holding' = Increase(holding, a, -AccountFee) /\ funds' = funds
    BY <1>5 DEF CreateOrUpdateAccount
  <2>2. AccountFee \in Nat
    BY CarAssumption
  <2>3. Debt(holding') <= Debt(holding) /\ Debt(holding') \in Int
    BY <1>1, <2>1, <2>2, DebtBounds
  <2>4. QED
    BY <1>1, <2>1, <2>3
<1>6. ASSUME NEW a \in Address, CreateCar(a)
      PROVE  Debt(holding') <= funds'
  <2> DEFINE h == Increase(holding, a, CarReward)
  <2>1. /\ holding' = Increase(h, Genesis, -CarReward) /\ funds' = funds
        /\ holding[Genesis] > CarReward
    BY <1>6 DEF CreateCar
  <2>2. CarReward \in Nat /\ Genesis \in Address
    BY CarAssumption
  <2>3. /\ h \in [Address -> Int] /\ Debt(h) \in Int /\ Debt(h) <= Debt(holding) + CarReward
    BY <1>1, <2>2, DebtBounds
  <2>4. h[Genesis] = IF Genesis = a THEN holding[a] + CarReward ELSE holding[Genesis]
    BY <1>1, <2>2 DEF Increase
  <2> HIDE DEF h
  <2>5. h[Genesis] >= CarReward /\ h[Genesis] \in Int
    BY <1>1, <2>1, <2>2, <2>4
  <2>6. Debt(holding') = Debt(h) - CarReward
    BY <2>1, <2>2, <2>3, <2>5, DebtBounds
  <2>7. QED
    BY <1>1, <2>1, <2>2, <2>3, <2>6
<1>7. ASSUME NEW a \in Address, NEW i \in DOMAIN cars, NEW amount \in Amounts,
             RewardCar(a, i, amount)
      PROVE  Debt(holding') <= funds'
  <2> DEFINE fee == amount \div FeeShare
             once == Increase(holding, a, -amount)
             given == Increase(once, a, -amount)
             paid == Increase(given, cars[i].owner, amount - fee)
  <2>1. /\ holding' = Increase(paid, Genesis, fee) /\ funds' = funds
        /\ holding[a] > amount
    BY <1>7 DEF RewardCar, CanReward
  <2>2. /\ amount \in Nat /\ Genesis \in Address /\ cars[i].owner \in Address
        /\ fee \in Nat /\ fee <= amount
    <3>1. amount \in Nat /\ FeeShare \in Nat \ {0} /\ Genesis \in Address
      BY CarAssumption
    <3>2. fee \in Nat /\ fee <= amount
      BY <3>1
    <3>3. QED
      BY <3>1, <3>2, Lists DEF Car
  <2> HIDE DEF fee
  <2>3. amount - fee \in Nat
    BY <2>2
  <2>4. once \in [Address -> Int] /\ Debt(once) \in Int /\ Debt(once) = Debt(holding) - amount
    BY <1>1, <2>1, <2>2, DebtBounds
  <2> HIDE DEF once
  <2>5. given \in [Address -> Int] /\ Debt(given) \in Int /\ Debt(given) <= Debt(once)
    BY <2>2, <2>4, DebtBounds
  <2> HIDE DEF given
  <2>6. /\ paid \in [Address -> Int] /\ Debt(paid) \in Int
        /\ Debt(paid) <= Debt(given) + (amount - fee)
    BY <2>2, <2>3, <2>5, DebtBounds
  <2> HIDE DEF paid
  <2>7. Debt(holding') \in Int /\ Debt(holding') <= Debt(paid) + fee
    BY <2>1, <2>2, <2>6, DebtBounds
  <2>8. QED
    BY <1>1, <2>1, <2>2, <2>4, <2>5, <2>6, <2>7
<1>8. ASSUME NEW a \in Address, Transaction(a)
      PROVE  Debt(holding') <= funds'
  <2>1. CASE \E amount \in Amounts : OnPay(a, amount) \/ OnPayout(a, amount)
    BY <1>4, <2>1
  <2>2. CASE \E name \in Names : CreateOrUpdateAccount(a, name)
    BY <1>5, <2>2
  <2>3. CASE CreateCar(a)
    BY <1>6, <2>3
  <2>4. ASSUME NEW i \in DOMAIN cars, \E amount \in Amounts : RewardCar(a, i, amount)
        PROVE  Debt(holding') <= funds'
    BY <1>7, <2>4
  <2>5. ASSUME NEW i \in DOMAIN cars,
               \/ ReportCar(a, i) \/ CreateStatus(a, i)
               \/ \E j \in DOMAIN status[i] : ReportStatus(a, i, j)
        PROVE  Debt(holding') <= funds'
    BY <1>3, <2>5 DEF ReportCar, CreateStatus, ReportStatus, money
  <2>6. QED
    BY <1>8, <2>1, <2>2, <2>3, <2>4, <2>5 DEF Transaction
<1>9. CASE Tick \/ UNCHANGED vars
  BY <1>3, <1>9 DEF Tick, vars, money
<1>10. QED
  BY <1>8, <1>9 DEF Next

\* The contract owns what it owes, so no payout that onPayout allows fails for want
\* of CART: for any number of addresses, any fees, rewards and amounts, and although
\* rewardCar leaves negative holdings.
THEOREM PayoutsAreCovered == Spec => []PayoutsCovered
<1>1. Init => IInv /\ PayoutsCovered
  BY InitIInv, InitCovered
<1>2. IInv /\ PayoutsCovered /\ [Next]_vars => IInv' /\ PayoutsCovered'
  BY NextIInv, NextCovered
<1>3. QED
  BY <1>1, <1>2, PTL DEF Spec
-----------------------------------------------------------------------------
(* Pages.  Pushes(g, last, n) says that g[k] is what the loop has pushed after *)
(* k of its n passes, from position last down.                               *)

Pushed(g, last, k) ==
    LET i == last + 1 - k
    IN  IF k = 0 THEN <<>>
        ELSE IF Shown(i) THEN Append(g[k - 1], i) ELSE g[k - 1]

Pushes(g, last, n) == g = [k \in 0 .. n |-> Pushed(g, last, k)]

\* The recursive definition has a solution, so CHOOSE finds one.
LEMMA PushesExist ==
    ASSUME NEW last
    PROVE  \A n \in Nat : \E g : Pushes(g, last, n)
<1> DEFINE Good == {n \in Nat : \E g : Pushes(g, last, n)}
<1>1. 0 \in Good
  <2> DEFINE g == [k \in 0 .. 0 |-> <<>>]
  <2>1. Pushes(g, last, 0)
    BY DEF Pushes, Pushed
  <2> HIDE DEF g
  <2>2. QED
    BY <2>1
<1>2. ASSUME NEW n \in Nat, n \in Good PROVE n + 1 \in Good
  <2>1. PICK g : Pushes(g, last, n)
    BY <1>2
  <2> DEFINE h == [k \in 0 .. n + 1 |-> Pushed(g, last, k)]
  <2>2. ASSUME NEW k \in 0 .. n PROVE g[k] = Pushed(g, last, k)
    BY <2>1 DEF Pushes
  <2>3. ASSUME NEW k \in 0 .. n + 1 PROVE Pushed(g, last, k) = Pushed(h, last, k)
    <3>1. CASE k = 0
      BY <3>1 DEF Pushed
    <3>2. CASE k # 0
      <4>1. k - 1 \in 0 .. n /\ k - 1 \in 0 .. n + 1
        BY <3>2
      <4>2. g[k - 1] = h[k - 1]
        BY <2>2, <4>1
      <4>3. QED
        BY <3>2, <4>2 DEF Pushed
    <3>3. QED
      BY <3>1, <3>2
  <2>4. Pushes(h, last, n + 1)
    BY <2>3 DEF Pushes
  <2> HIDE DEF h
  <2>5. QED
    BY <2>4
<1>3. QED
  <2> HIDE DEF Good
  <2>1. Nat \subseteq Good
    BY <1>1, <1>2, NatInduct
  <2>2. QED
    BY <2>1 DEF Good

\* What s shows: the positions from first to last that are not hidden, each once.
Shows(s, first, last) ==
    /\ s \in Seq(Nat) /\ Len(s) <= last + 1 - first
    /\ \A x \in 1 .. Len(s) : s[x] \in first .. last /\ Shown(s[x])
    /\ \A i \in first .. last : Shown(i) => \E x \in 1 .. Len(s) : s[x] = i
    /\ \A x, y \in 1 .. Len(s) : s[x] = s[y] => x = y

\* One pass more.
LEMMA OnePass ==
    ASSUME NEW last \in Nat, NEW k \in 1 .. last,
           NEW s, Shows(s, last + 2 - k, last),
           NEW t, t = IF Shown(last + 1 - k) THEN Append(s, last + 1 - k) ELSE s
    PROVE  Shows(t, last + 1 - k, last)
<1> DEFINE i == last + 1 - k
<1>1. i \in Nat /\ last + 2 - k = i + 1 /\ i <= last
  OBVIOUS
<1> HIDE DEF i
<1>2. Shows(s, i + 1, last)
  BY <1>1
<1>3. t = IF Shown(i) THEN Append(s, i) ELSE s
  BY DEF i
<1>4. CASE ~ Shown(i)
  <2>1. \A j \in i .. last : j = i \/ j \in i + 1 .. last
    BY <1>1
  <2>2. i + 1 .. last \subseteq i .. last
    BY <1>1
  <2>3. t = s /\ Shows(t, i, last)
    BY <1>1, <1>2, <1>3, <1>4, <2>1, <2>2, LenProperties DEF Shows
  <2>4. QED
    BY <2>3 DEF i
<1>5. CASE Shown(i)
  <2>1. /\ t \in Seq(Nat) /\ Len(t) = Len(s) + 1 /\ t[Len(t)] = i
        /\ \A x \in 1 .. Len(s) : t[x] = s[x]
        /\ Len(s) \in Nat /\ s \in Seq(Nat)
    BY <1>1, <1>2, <1>3, <1>5, AppendProperties, LenProperties DEF Shows
  <2>2. \A x \in 1 .. Len(t) : x = Len(t) \/ x \in 1 .. Len(s)
    BY <2>1
  <2>3. \A x \in 1 .. Len(s) : s[x] \in i + 1 .. last /\ Shown(s[x])
    BY <1>2 DEF Shows
  <2>4. \A x \in 1 .. Len(t) : t[x] \in i .. last /\ Shown(t[x])
    BY <1>1, <1>5, <2>1, <2>2, <2>3
  <2>5. ASSUME NEW j \in i .. last, Shown(j)
        PROVE  \E x \in 1 .. Len(t) : t[x] = j
    <3>1. CASE j = i
      BY <2>1, <3>1
    <3>2. CASE j # i
      <4>1. PICK x \in 1 .. Len(s) : s[x] = j
        BY <1>1, <1>2, <2>5, <3>2 DEF Shows
      <4>2. x \in 1 .. Len(t) /\ t[x] = j
        BY <2>1, <4>1
      <4>3. QED
        BY <4>2
    <3>3. QED
      BY <3>1, <3>2
  <2>6. ASSUME NEW x \in 1 .. Len(t), NEW y \in 1 .. Len(t), t[x] = t[y]
        PROVE  x = y
    <3>1. \A z \in 1 .. Len(s) : t[z] # i
      BY <1>1, <2>1, <2>3
    <3>2. \A z, w \in 1 .. Len(s) : s[z] = s[w] => z = w
      BY <1>2 DEF Shows
    <3>3. CASE x = Len(t) \/ y = Len(t)
      BY <2>1, <2>2, <2>6, <3>1, <3>3
    <3>4. CASE x \in 1 .. Len(s) /\ y \in 1 .. Len(s)
      BY <2>1, <2>6, <3>2, <3>4
    <3>5. QED
      BY <2>2, <3>3, <3>4
  <2>7. Len(t) <= last + 1 - i
    BY <1>1, <1>2, <2>1 DEF Shows
  <2>8. Shows(t, i, last)
    BY <2>1, <2>4, <2>5, <2>6, <2>7 DEF Shows
  <2>9. QED
    BY <2>8 DEF i
<1>6. QED
  BY <1>4, <1>5

LEMMA AllPasses ==
    ASSUME NEW last \in Nat, NEW n \in 0 .. last, NEW g, Pushes(g, last, n)
    PROVE  Shows(g[n], last + 1 - n, last)
<1> DEFINE Good == {k \in Nat : k <= n => Shows(g[k], last + 1 - k, last)}
<1>1. \A k \in 0 .. n : g[k] = Pushed(g, last, k)
  BY DEF Pushes
<1>2. 0 \in Good
  <2>1. g[0] = <<>>
    BY <1>1 DEF Pushed
  <2>2. Shows(<<>>, last + 1 - 0, last)
    BY EmptySeq DEF Shows
  <2>3. QED
    BY <2>1, <2>2
<1>3. ASSUME NEW k \in Nat, k \in Good PROVE k + 1 \in Good
  <2> SUFFICES ASSUME k + 1 <= n
               PROVE  Shows(g[k + 1], last + 1 - (k + 1), last)
    OBVIOUS
  <2>1. Shows(g[k], last + 2 - (k + 1), last)
    <3>1. Shows(g[k], last + 1 - k, last) /\ last + 1 - k = last + 2 - (k + 1)
      BY <1>3
    <3>2. QED
      BY <3>1
  <2>2. g[k + 1] = IF Shown(last + 1 - (k + 1)) THEN Append(g[k], last + 1 - (k + 1))
                   ELSE g[k]
    <3>1. k + 1 \in 0 .. n /\ k + 1 # 0 /\ (k + 1) - 1 = k
      OBVIOUS
    <3>2. QED
      BY <1>1, <3>1 DEF Pushed
  <2>3. k + 1 \in 1 .. last
    OBVIOUS
  <2>4. QED
    BY <2>1, <2>2, <2>3, OnePass
<1>4. Nat \subseteq Good
  <2> HIDE DEF Good
  <2>1. QED
    BY <1>2, <1>3, NatInduct
<1>5. n \in Good /\ n \in Nat
  BY <1>4
<1>6. QED
  BY <1>5

LEMMA SmallerOfTwo ==
    ASSUME NEW a \in Int, NEW b \in Int
    PROVE  /\ Min({a, b}) = IF a <= b THEN a ELSE b
           /\ Max({a, b}) = IF a <= b THEN b ELSE a
BY DEF Min, Max

\* A page shows the cars at its positions, each once, unless they are hidden.
PageIs(s, limit, offset) ==
    /\ s \in Seq(Nat) /\ Len(s) <= Len(cars)
    /\ \A i \in 1 .. Len(cars) :
          (\E x \in 1 .. Len(s) : s[x] = i)
            <=> (Shown(i) /\ offset < i /\ i <= offset + limit)
    /\ \A x, y \in 1 .. Len(s) : s[x] = s[y] => x = y

LEMMA PageShows ==
    ASSUME cars \in Seq(Car), NEW limit \in Nat, NEW offset \in Nat
    PROVE  PageIs(GetCarsByTime(limit, offset), limit, offset)
<1> DEFINE last == Last(limit, offset)
           n == Passes(limit, offset)
           g == CHOOSE h : Pushes(h, last, n)
<1>1. Len(cars) \in Nat
  BY LenProperties
<1>2. last = IF offset + limit <= Len(cars) THEN offset + limit ELSE Len(cars)
  BY <1>1, SmallerOfTwo DEF Last
<1>3. last \in Nat /\ last <= Len(cars)
  BY <1>1, <1>2
<1>4. n = IF 0 <= last - offset THEN last - offset ELSE 0
  <2>1. n = Max({0, last - offset})
    BY DEF Passes
  <2> DEFINE d == last - offset
  <2>2. d \in Int
    BY <1>3
  <2> HIDE DEF last, n, d
  <2>3. Max({0, d}) = IF 0 <= d THEN d ELSE 0
    BY <2>2 DEF Max
  <2>4. QED
    BY <2>1, <2>3 DEF d
<1> DEFINE s == GetCarsByTime(limit, offset)
<1>5. s = g[n]
  BY DEF GetCarsByTime, Pushes, Pushed
<1> HIDE DEF last, n, s
<1>6. n \in 0 .. last /\ n \in Nat
  BY <1>3, <1>4
<1>7. Pushes(g, last, n)
  BY <1>6, PushesExist
<1> HIDE DEF g
<1>8. Shows(s, last + 1 - n, last)
  BY <1>3, <1>5, <1>6, <1>7, AllPasses
<1>9. \A i \in 1 .. Len(cars) :
        i \in last + 1 - n .. last <=> offset < i /\ i <= offset + limit
  BY <1>1, <1>2, <1>3, <1>4
<1>10. /\ s \in Seq(Nat) /\ Len(s) <= last + 1 - (last + 1 - n)
       /\ \A x \in 1 .. Len(s) : s[x] \in last + 1 - n .. last /\ Shown(s[x])
       /\ \A i \in last + 1 - n .. last : Shown(i) => \E x \in 1 .. Len(s) : s[x] = i
       /\ \A x, y \in 1 .. Len(s) : s[x] = s[y] => x = y
  BY <1>8 DEF Shows
<1>11. Len(s) <= Len(cars)
  BY <1>1, <1>3, <1>6, <1>10, LenProperties
<1>12. ASSUME NEW i \in 1 .. Len(cars)
       PROVE  (\E x \in 1 .. Len(s) : s[x] = i)
                <=> (Shown(i) /\ offset < i /\ i <= offset + limit)
  BY <1>9, <1>10
<1>13. QED
  BY <1>10, <1>11, <1>12 DEF PageIs, s

\* The page a position is on, and no other.
LEMMA PageOf ==
    ASSUME NEW limit \in Nat \ {0}, NEW i \in Nat \ {0}
    PROVE  /\ (i - 1) \div limit \in 0 .. i - 1
           /\ \A p \in Nat : p * limit < i /\ i <= p * limit + limit
                               <=> p = (i - 1) \div limit
<1> DEFINE q == (i - 1) \div limit
<1>1. q \in Nat /\ q * limit <= i - 1 /\ i - 1 < q * limit + limit /\ q <= i - 1
  OBVIOUS
<1> HIDE DEF q
<1>2. ASSUME NEW p \in Nat, p * limit < i, i <= p * limit + limit
      PROVE  p = q
  <2>1. p < q => p * limit + limit <= q * limit
    BY <1>1
  <2>2. q < p => q * limit + limit <= p * limit
    BY <1>1
  <2>3. p * limit \in Nat /\ q * limit \in Nat
    BY <1>1
  <2>4. QED
    BY <1>1, <1>2, <2>1, <2>2, <2>3
<1>3. QED
  BY <1>1, <1>2 DEF q

\* Pages of any length show every car that is not hidden once, and no hidden one.
LEMMA PagesRight ==
    ASSUME cars \in Seq(Car), Len(cars) <= MaxCars, MaxCars \in Nat
    PROVE  PagesShowEveryCar
<1> SUFFICES ASSUME NEW limit \in 1 .. MaxCars + 1, NEW i \in DOMAIN cars
             PROVE  LET pages == [p \in 0 .. MaxCars |-> GetCarsByTime(limit, p * limit)]
                    IN  Cardinality({x \in (0 .. MaxCars) \X (1 .. MaxCars) :
                               x[2] \in DOMAIN pages[x[1]] /\ pages[x[1]][x[2]] = i})
                          = (IF Shown(i) THEN 1 ELSE 0)
  BY DEF PagesShowEveryCar
<1> DEFINE pages == [p \in 0 .. MaxCars |-> GetCarsByTime(limit, p * limit)]
           places == {x \in (0 .. MaxCars) \X (1 .. MaxCars) :
                         x[2] \in DOMAIN pages[x[1]] /\ pages[x[1]][x[2]] = i}
           q == (i - 1) \div limit
<1>1. /\ limit \in Nat \ {0} /\ i \in Nat \ {0} /\ i \in 1 .. Len(cars)
      /\ Len(cars) \in Nat
  BY LenProperties
<1>2. ASSUME NEW p \in 0 .. MaxCars
      PROVE  /\ pages[p] \in Seq(Nat) /\ Len(pages[p]) <= Len(cars)
             /\ (\E x \in 1 .. Len(pages[p]) : pages[p][x] = i) <=> (Shown(i) /\ p = q)
             /\ \A x, y \in 1 .. Len(pages[p]) : pages[p][x] = pages[p][y] => x = y
  <2>1. p \in Nat /\ p * limit \in Nat
    BY <1>1
  <2>2. p * limit < i /\ i <= p * limit + limit <=> p = q
    BY <1>1, <2>1, PageOf
  <2>3. pages[p] = GetCarsByTime(limit, p * limit)
    OBVIOUS
  <2> DEFINE offset == p * limit
             s == pages[p]
  <2> HIDE DEF pages, q, offset, s
  <2>4. s = GetCarsByTime(limit, offset) /\ offset \in Nat
    BY <2>1, <2>3 DEF offset, s
  <2>5. limit \in Nat
    BY <1>1
  <2>6. PageIs(GetCarsByTime(limit, offset), limit, offset)
    BY <2>4, <2>5, PageShows
  <2>7. /\ s \in Seq(Nat) /\ Len(s) <= Len(cars)
        /\ (\E x \in 1 .. Len(s) : s[x] = i)
              <=> (Shown(i) /\ offset < i /\ i <= offset + limit)
        /\ \A x, y \in 1 .. Len(s) : s[x] = s[y] => x = y
    BY <1>1, <2>4, <2>6 DEF PageIs
  <2>8. QED
    BY <2>2, <2>7 DEF offset, s
<1>3. q \in 0 .. MaxCars
  BY <1>1, PageOf
<1> HIDE DEF pages, q
<1>4. CASE ~ Shown(i)
  <2>1. places = {}
    <3> SUFFICES ASSUME NEW x \in places PROVE FALSE
      OBVIOUS
    <3>1. /\ x[1] \in 0 .. MaxCars
          /\ x[2] \in DOMAIN pages[x[1]] /\ pages[x[1]][x[2]] = i
      OBVIOUS
    <3>2. x[2] \in 1 .. Len(pages[x[1]])
      BY <1>2, <3>1
    <3>3. QED
      BY <1>2, <1>4, <3>1, <3>2
  <2> HIDE DEF places
  <2>2. Cardinality(places) = 0
    BY <2>1, FS_EmptySet
  <2>3. QED
    BY <1>4, <2>2 DEF places, pages
<1>5. CASE Shown(i)
  <2>1. PICK y \in 1 .. Len(pages[q]) : pages[q][y] = i
    BY <1>2, <1>3, <1>5
  <2>2. y \in 1 .. MaxCars /\ y \in DOMAIN pages[q]
    BY <1>1, <1>2, <1>3, <2>1
  <2>3. <<q, y>> \in places
    BY <1>3, <2>1, <2>2
  <2>4. ASSUME NEW x \in places PROVE x = <<q, y>>
    <3>1. /\ x \in (0 .. MaxCars) \X (1 .. MaxCars) /\ x[1] \in 0 .. MaxCars
          /\ x[2] \in DOMAIN pages[x[1]] /\ pages[x[1]][x[2]] = i
      OBVIOUS
    <3>2. x[2] \in 1 .. Len(pages[x[1]])
      BY <1>2, <3>1
    <3>3. x[1] = q
      BY <1>2, <3>1, <3>2
    <3>4. x[2] = y
      BY <1>2, <1>3, <2>1, <3>1, <3>2, <3>3
    <3>5. QED
      BY <3>1, <3>3, <3>4
  <2>5. places = {<<q, y>>}
    <3> HIDE DEF places
    <3>1. QED
      BY <2>3, <2>4
  <2> HIDE DEF places
  <2>6. Cardinality(places) = 1
    BY <2>5, FS_Singleton
  <2>7. QED
    BY <1>5, <2>6 DEF places, pages
<1>6. QED
  BY <1>4, <1>5

LEMMA LengthBounded ==
    ASSUME IInv, Len(cars) <= MaxCars, [Next]_vars
    PROVE  Len(cars') <= MaxCars
<1>1. cars \in Seq(Car) /\ Len(cars) \in Nat /\ MaxCars \in Nat
  BY CarAssumption, LenProperties DEF IInv, TypeOK
<1>2. CASE \E a \in Address : CreateCar(a)
  BY <1>1, <1>2, AppendProperties DEF CreateCar
<1>3. CASE \E a \in Address, i \in DOMAIN cars :
              \/ ReportCar(a, i) \/ CreateStatus(a, i)
  BY <1>1, <1>3, ExceptSeq DEF ReportCar, CreateStatus
<1>4. CASE UNCHANGED cars
  BY <1>1, <1>4
<1>5. \/ \E a \in Address : CreateCar(a)
      \/ \E a \in Address, i \in DOMAIN cars : ReportCar(a, i) \/ CreateStatus(a, i)
      \/ UNCHANGED cars
  BY DEF Next, Transaction, Tick, vars, OnPay, OnPayout, CreateOrUpdateAccount,
         RewardCar, ReportStatus, records
<1>6. QED
  BY <1>2, <1>3, <1>4, <1>5

\* Who turns the pages of getCarsByTime sees every car that is not hidden once and
\* no other: for any number of cars and any length of a page.
THEOREM PagesAreComplete == Spec => []PagesShowEveryCar
<1>1. Init => IInv /\ Len(cars) <= MaxCars
  <2>1. MaxCars \in Nat
    BY CarAssumption
  <2>2. Init => Len(cars) = 0
    BY EmptySeq DEF Init
  <2>3. QED
    BY <2>1, <2>2, InitIInv
<1>2. IInv /\ Len(cars) <= MaxCars /\ [Next]_vars => IInv' /\ (Len(cars) <= MaxCars)'
  BY NextIInv, LengthBounded
<1>3. IInv /\ Len(cars) <= MaxCars => PagesShowEveryCar
  BY CarAssumption, PagesRight DEF IInv, TypeOK
<1>4. QED
  BY <1>1, <1>2, <1>3, PTL DEF Spec
=============================================================================
