----------------------------- MODULE CarContract -----------------------------
(***************************************************************************)
(* The contract that records cars and pays for them                        *)
(* (无人驾驶contracts/drivelesscar1.cpp, drivelesscarContract): a ledger of  *)
(* CART, accounts and their names, cars, the statuses people write on      *)
(* them, and reports against both.                                         *)
(*                                                                         *)
(* One action is one transaction.  An assertion that fails takes the whole *)
(* transaction back, wherever in the function it stands; that, the clock,  *)
(* and the CART the contract itself owns are the chain's (mychainlib).     *)
(* Left out: texts and their lengths, identifiers (a car is its position   *)
(* in Cars), rewardCount and createdAt, which only the display uses, and   *)
(* the score, which is a number of that display.                           *)
(***************************************************************************)
EXTENDS Integers, FiniteSetsExt, Sequences

CONSTANTS
    Address, Names,
    Genesis,            \* GENESIS_ADDRESS, the pool that pays for new cars
    Nobody, NoName,     \* undefined
    AccountFee,         \* 100
    CarReward,          \* 10
    MinReward,          \* 10
    FeeShare,           \* 10: one part in so many of a reward is the pool's
    Window,             \* 8000 ms
    ReportThreshold,    \* 3
    Amounts,            \* what is paid in, paid out and given as a reward
    MaxFunds, MaxCars, MaxStatuses, MaxTime    \* bounds

ASSUME CarAssumption ==
    /\ IsFiniteSet(Address) /\ Genesis \in Address
    /\ Nobody \notin Address /\ NoName \notin Names
    /\ {AccountFee, CarReward, MinReward, FeeShare, Window, ReportThreshold,
        MaxFunds, MaxCars, MaxStatuses, MaxTime} \subseteq Nat
    /\ Amounts \subseteq Nat \ {0} /\ FeeShare > 0

VARIABLES
    holding,        \* CART that belongs to each address
    funds,          \* CART the contract owns
    accounts,       \* the name of each account
    usernames,      \* whose each name is
    cars,           \* owner, time and counters of each car
    status,         \* the statuses of each car
    carReports,     \* who has reported each car
    statusReports,  \* who has reported each status
    now

money == <<holding, funds>>
people == <<accounts, usernames>>
records == <<cars, status, carReports, statusReports>>
vars == <<money, people, records, now>>

Car == [owner : Address, time : Nat, statuses : Nat, reports : Nat]
Status == [owner : Address, reports : Nat]

Init ==
    /\ holding = [a \in Address |-> 0] /\ funds = 0
    /\ accounts = [a \in Address |-> NoName]
    /\ usernames = [n \in Names |-> Nobody]
    /\ cars = <<>> /\ status = <<>> /\ carReports = <<>> /\ statusReports = <<>>
    /\ now = 0

-----------------------------------------------------------------------------
(* The ledger. *)

\* increaseHolding
Increase(h, a, value) == [h EXCEPT ![a] = @ + value]

OnPay(a, amount) ==
    /\ funds + amount <= MaxFunds
    /\ holding' = Increase(holding, a, amount)
    /\ funds' = funds + amount
    /\ UNCHANGED <<people, records, now>>

OnPayout(a, amount) ==
    /\ holding[a] > 0 /\ amount <= holding[a]
    /\ holding' = Increase(holding, a, -amount)
    /\ funds' = funds - amount
    /\ UNCHANGED <<people, records, now>>

-----------------------------------------------------------------------------
(* Accounts. *)

\* The old name is given back before the new one is taken: they may be the same.
\* Mutant: it is given back after that.
RenamedLate(a, name) ==
    [n \in Names |-> IF n = accounts[a] THEN Nobody
                     ELSE IF n = name THEN a ELSE usernames[n]]

Renamed(a, name) ==
    [n \in Names |-> IF n = name THEN a
                     ELSE IF n = accounts[a] THEN Nobody ELSE usernames[n]]

CreateOrUpdateAccount(a, name) ==
    /\ usernames[name] \in {Nobody, a}       \* else: This username already exists
    /\ holding[a] > AccountFee
    /\ holding' = Increase(holding, a, -AccountFee)
    /\ accounts' = [accounts EXCEPT ![a] = name]
    /\ usernames' = Renamed(a, name)
    /\ UNCHANGED <<funds, records, now>>

\* Mutant of HasAccount: an account that is not there is not missed.
HasAccountAnyway(a) == accounts[a] \in Names \cup {NoName}

HasAccount(a) == accounts[a] # NoName

-----------------------------------------------------------------------------
(* Cars. *)

CarsOf(a) == {i \in DOMAIN cars : cars[i].owner = a}

\* getAccountLastCar, and the test of its age.  The message of the assertion says
\* that cars must not follow too fast; the comparison says that they must.
MayCreate(a) ==
    CarsOf(a) # {} => now - cars[Max(CarsOf(a))].time < Window

CreateCar(a) ==
    /\ HasAccount(a) /\ MayCreate(a)
    /\ Len(cars) < MaxCars
    /\ holding[Genesis] > CarReward           \* else: CART pool not enough
    /\ cars' = Append(cars, [owner |-> a, time |-> now, statuses |-> 0, reports |-> 0])
    /\ status' = Append(status, <<>>)
    /\ carReports' = Append(carReports, {})
    /\ statusReports' = Append(statusReports, <<>>)
    /\ holding' = Increase(Increase(holding, a, CarReward), Genesis, -CarReward)
    /\ UNCHANGED <<funds, people, now>>

\* Mutant of CanReward: nobody looks whether the giver has it.
CanRewardAnyway(a, amount) == amount > MinReward

CanReward(a, amount) == amount > MinReward /\ holding[a] > amount

\* The reward is taken from who gives it twice, before and with the distribution.
RewardCar(a, i, amount) ==
    LET fee == amount \div FeeShare
        given == Increase(Increase(holding, a, -amount), a, -amount)
    IN  /\ HasAccount(a) /\ CanReward(a, amount)
        /\ holding' = Increase(Increase(given, cars[i].owner, amount - fee), Genesis, fee)
        /\ UNCHANGED <<funds, people, records, now>>

\* Mutant of CanReportCar: nobody looks whether this account has done so before.
CanReportCarAgain(a, i) == HasAccount(a)

CanReportCar(a, i) == HasAccount(a) /\ a \notin carReports[i]

ReportCar(a, i) ==
    /\ CanReportCar(a, i)
    /\ carReports' = [carReports EXCEPT ![i] = @ \cup {a}]
    /\ cars' = [cars EXCEPT ![i].reports = @ + 1]
    /\ UNCHANGED <<money, people, status, statusReports, now>>

CreateStatus(a, i) ==
    /\ HasAccount(a)
    /\ Len(status[i]) < MaxStatuses
    /\ status' = [status EXCEPT ![i] = Append(@, [owner |-> a, reports |-> 0])]
    /\ statusReports' = [statusReports EXCEPT ![i] = Append(@, {})]
    /\ cars' = [cars EXCEPT ![i].statuses = @ + 1]
    /\ UNCHANGED <<money, people, carReports, now>>

ReportStatus(a, i, j) ==
    /\ HasAccount(a) /\ a \notin statusReports[i][j]
    /\ statusReports' = [statusReports EXCEPT ![i][j] = @ \cup {a}]
    /\ status' = [status EXCEPT ![i][j].reports = @ + 1]
    /\ UNCHANGED <<money, people, cars, carReports, now>>

Tick ==
    /\ now < MaxTime /\ now' = now + 1
    /\ UNCHANGED <<money, people, records>>

Transaction(a) ==
    \/ \E amount \in Amounts : OnPay(a, amount) \/ OnPayout(a, amount)
    \/ \E name \in Names : CreateOrUpdateAccount(a, name)
    \/ CreateCar(a)
    \/ \E i \in DOMAIN cars :
          \/ \E amount \in Amounts : RewardCar(a, i, amount)
          \/ ReportCar(a, i) \/ CreateStatus(a, i)
          \/ \E j \in DOMAIN status[i] : ReportStatus(a, i, j)

Next == Tick \/ \E a \in Address : Transaction(a)

Spec == Init /\ [][Next]_vars

-----------------------------------------------------------------------------
(* Pages.  Positions in Cars count from 1 here and from 0 in the source.     *)

Shown(i) == cars[i].reports < ReportThreshold

\* Past the last position of a page.
Last(limit, offset) == Min({offset + limit, Len(cars)})

\* The passes of the loop, one for each position from the last one down.
\* Mutant: the loop ends before the first one.
PassesShort(limit, offset) == Max({0, Last(limit, offset) - offset - 1})

Passes(limit, offset) == Max({0, Last(limit, offset) - offset})

\* Each pass pushes the car or goes on to the next.
GetCarsByTime(limit, offset) ==
    LET pushed[k \in 0 .. Passes(limit, offset)] ==
            LET i == Last(limit, offset) + 1 - k
            IN  IF k = 0 THEN <<>>
                ELSE IF Shown(i) THEN Append(pushed[k - 1], i) ELSE pushed[k - 1]
    IN  pushed[Passes(limit, offset)]

-----------------------------------------------------------------------------
(* Properties. *)

\* Types; and everything that is listed has an owner with an account, whose name
\* the lists show.
TypeOK ==
    /\ holding \in [Address -> Int] /\ funds \in Int
    /\ accounts \in [Address -> Names \cup {NoName}]
    /\ usernames \in [Names -> Address \cup {Nobody}]
    /\ cars \in Seq(Car) /\ status \in Seq(Seq(Status))
    /\ carReports \in Seq(SUBSET Address)
    /\ statusReports \in Seq(Seq(SUBSET Address))
    /\ \A i \in DOMAIN cars : accounts[cars[i].owner] \in Names
    /\ \A i \in DOMAIN status : \A j \in DOMAIN status[i] :
          accounts[status[i][j].owner] \in Names
    /\ now \in Nat

\* What each address could be paid out.
Owed(h) == [a \in Address |-> IF h[a] > 0 THEN h[a] ELSE 0]

(* Whatever is given, taken and distributed, the contract owns what it owes: *)
(* no payout that onPayout allows fails for want of CART.  It holds although *)
(* rewardCar may leave a negative holding, because what it distributes is    *)
(* covered once.                                                             *)
PayoutsCovered == SumFunction(Owed(holding)) <= funds

(* The two tables of names agree after any number of renamings: no name      *)
(* belongs to two accounts, and none is held by an account that gave it up.  *)
NamesAgree ==
    \A a \in Address, n \in Names : usernames[n] = a <=> accounts[a] = n

(* The counters that decide what is shown are those of the records: nobody   *)
(* counts twice against a car or a status (reportCar, reportStatus).         *)
CountsMatch ==
    /\ DOMAIN cars = DOMAIN status
    /\ DOMAIN carReports = DOMAIN cars /\ DOMAIN statusReports = DOMAIN cars
    /\ \A i \in DOMAIN cars :
          /\ cars[i].reports = Cardinality(carReports[i])
          /\ cars[i].statuses = Len(status[i])
          /\ DOMAIN statusReports[i] = DOMAIN status[i]
          /\ \A j \in DOMAIN status[i] :
                status[i][j].reports = Cardinality(statusReports[i][j])

(* Who turns the pages of getCarsByTime sees every car once that is not      *)
(* hidden, and no other, for every length of a page.                         *)
PagesShowEveryCar ==
    \A limit \in 1 .. MaxCars + 1 :
        LET pages == [p \in 0 .. MaxCars |-> GetCarsByTime(limit, p * limit)]
        IN  \A i \in DOMAIN cars :
               Cardinality({x \in (0 .. MaxCars) \X (1 .. MaxCars) :
                               x[2] \in DOMAIN pages[x[1]] /\ pages[x[1]][x[2]] = i})
                  = (IF Shown(i) THEN 1 ELSE 0)

(* rewardCar asserts "CART not enough for reward this Car"                   *)
(* (drivelesscar1.cpp:306) so that nobody gives what they do not have.       *)
NoOverdraft == \A a \in Address : holding[a] >= 0
=============================================================================
