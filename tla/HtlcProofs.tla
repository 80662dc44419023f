------------------------------ MODULE HtlcProofs ------------------------------
(***************************************************************************)
(* Neither careful person is left with nothing by a swap of HtlcSwap, for  *)
(* every pair of lock times and every delay HtlcAssumption allows.         *)
(*                                                                         *)
(* The invariant follows the clock.  For cp1: a secret that is shown was   *)
(* shown early, and its block comes before cp2's refund may be posted.     *)
(* For cp2: its contract is spent at the latest 2 * Delay after its lock   *)
(* time, so that the secret is known by then, used Delay later and in a    *)
(* block one more Delay later, which is before cp1's lock time.            *)
(***************************************************************************)
EXTENDS HtlcSwap, TLAPS

Lock(p) == contract[p].lock
Hours(p, spend) == contract[p].posted[spend]

\* What holds whoever is careful.
Common ==
    /\ contract["cp1"].hash = Secret
    /\ \A p \in Party :
          /\ contract[p].state # "mined"
                => contract[p].spent = {} /\ \A spend \in Spend : ~Posted(p, spend)
          /\ Posted(p, "refund") => now >= Lock(p)
    /\ Posted("cp1", "redeem") => SecretShown

\* A careful cp1 shows the secret Delay before cp2's lock time or not at all.
ShownEarly ==
    ("cp1" \in careful /\ SecretShown)
        => /\ "refund" \notin contract["cp2"].spent
           /\ Open("cp2") => now + Delay < Lock("cp2") + Hours("cp2", "redeem")

\* The clock of a careful cp2, from the audit to the block with its redemption.
Audited ==
    ("cp2" \in careful /\ contract["cp2"].state # "none")
        => contract["cp1"].state = "mined" /\ Lock("cp1") > Lock("cp2") + 4 * Delay

PublishedSoon ==
    "cp2" \in careful
        => /\ contract["cp2"].state = "built"
                => now + ParticipateLock <= Lock("cp2") + contract["cp2"].age
           /\ contract["cp2"].state = "posted"
                => now + ParticipateLock <= Lock("cp2") + Delay + contract["cp2"].age

SpentSoon ==
    ("cp2" \in careful /\ Open("cp2"))
        => \/ now <= Lock("cp2") + Delay
           \/ \E spend \in Spend : /\ Posted("cp2", spend)
                                   /\ now <= Lock("cp2") + Delay + Hours("cp2", spend)

UsedInTime ==
    ("cp2" \in careful /\ SecretShown)
        => /\ "refund" \notin contract["cp1"].spent
           /\ Open("cp1") /\ ~Posted("cp1", "redeem")
                => now <= Lock("cp2") + 2 * Delay + Hours("cp2", "redeem")
           /\ Open("cp1") /\ Posted("cp1", "redeem")
                => now <= Lock("cp2") + 3 * Delay + Hours("cp1", "redeem")

Clock == Common /\ ShownEarly /\ Audited /\ PublishedSoon /\ SpentSoon /\ UsedInTime

-----------------------------------------------------------------------------
LEMMA Constants ==
    /\ InitiateLock \in Nat /\ ParticipateLock \in Nat
    /\ Delay \in Nat /\ MaxTime \in Nat /\ Delay > 0
    /\ 2 * Delay <= ParticipateLock /\ ParticipateLock + 5 * Delay <= InitiateLock
  BY HtlcAssumption

LEMMA NoContractType == NoContract \in Contracts
  BY Constants DEF NoContract, Contracts, Age, Never

LEMMA InitType == Init => TypeOK
  BY NoContractType DEF Init, TypeOK, Posted, NoContract

\* Only one contract changes and it stays one of Contracts.
LEMMA NewContract ==
    ASSUME TypeOK, NEW p \in Party, NEW c \in Contracts,
           contract' = [contract EXCEPT ![p] = c]
    PROVE  /\ contract' \in [Party -> Contracts]
           /\ contract'[p] = c
           /\ \A q \in Party : q # p => contract'[q] = contract[q]
  BY DEF TypeOK

\* The fields of a contract.
LEMMA FieldTypes ==
    ASSUME TypeOK, NEW p \in Party
    PROVE  /\ contract[p] \in Contracts
           /\ contract[p].lock \in Nat /\ contract[p].age \in 0 .. Delay
           /\ contract[p].spent \subseteq Spend
           /\ \A spend \in Spend : contract[p].posted[spend] \in 0 .. Delay \cup {Never}
  BY DEF TypeOK, Contracts, Age

LEMMA BuildEffect ==
    ASSUME TypeOK, NEW p \in Party, NEW lock \in Nat,
           NEW hash \in Hashes \cup {Secret}, Build(p, lock, hash)
    PROVE  /\ contract' \in [Party -> Contracts]
           /\ \A q \in Party : q # p => contract'[q] = contract[q]
           /\ contract'[p].state = "built" /\ contract'[p].lock = lock
           /\ contract'[p].hash = hash /\ contract'[p].age = 0 /\ contract'[p].spent = {}
           /\ \A spend \in Spend : contract'[p].posted[spend] = Never
  <1> DEFINE c == [NoContract EXCEPT !.state = "built", !.lock = lock, !.hash = hash]
  <1>1. c \in Contracts
    BY NoContractType DEF Contracts, NoContract
  <1>2. /\ c.state = "built" /\ c.lock = lock
        /\ c.hash = hash /\ c.age = 0 /\ c.spent = {}
        /\ \A spend \in Spend : c.posted[spend] = Never
    BY NoContractType DEF Contracts, NoContract
  <1>3. contract' = [contract EXCEPT ![p] = c]
    BY DEF Build
  <1> HIDE DEF c
  <1>4. QED
    BY <1>1, <1>2, <1>3, NewContract

LEMMA DeclineEffect ==
    ASSUME TypeOK, NEW p \in Party, Decline(p)
    PROVE  /\ contract' \in [Party -> Contracts]
           /\ \A q \in Party : q # p => contract'[q] = contract[q]
           /\ contract'[p] = NoContract
           /\ contract'[p].state = "none" /\ contract'[p].hash = Secret /\ contract'[p].spent = {}
           /\ \A spend \in Spend : contract'[p].posted[spend] = Never
  <1> DEFINE c == NoContract
  <1>1. c \in Contracts
    BY NoContractType DEF NoContract
  <1>2. /\ c = NoContract
        /\ c.state = "none" /\ c.hash = Secret /\ c.spent = {}
        /\ \A spend \in Spend : c.posted[spend] = Never
    BY NoContractType DEF NoContract
  <1>3. contract' = [contract EXCEPT ![p] = c]
    BY DEF Decline
  <1> HIDE DEF c
  <1>4. QED
    BY <1>1, <1>2, <1>3, NewContract

LEMMA NewState ==
    ASSUME NEW c \in Contracts, NEW state \in {"posted", "mined"}
    PROVE  LET d == [c EXCEPT !.state = state, !.age = 0]
           IN  /\ d \in Contracts /\ d.state = state /\ d.age = 0 /\ d.lock = c.lock
               /\ d.hash = c.hash /\ d.posted = c.posted /\ d.spent = c.spent
  <1>1. 0 \in Age
    BY Constants DEF Age
  <1>2. QED
    BY <1>1 DEF Contracts

LEMMA PublishEffect ==
    ASSUME TypeOK, NEW p \in Party, Publish(p)
    PROVE  /\ contract' \in [Party -> Contracts]
           /\ \A q \in Party : q # p => contract'[q] = contract[q]
           /\ contract'[p].state = "posted" /\ contract'[p].age = 0
           /\ contract'[p].lock = contract[p].lock /\ contract'[p].hash = contract[p].hash
           /\ contract'[p].posted = contract[p].posted /\ contract'[p].spent = contract[p].spent
  <1> DEFINE c == [contract[p] EXCEPT !.state = "posted", !.age = 0]
  <1>1. c \in Contracts
    BY FieldTypes, NewState
  <1>2. /\ c.state = "posted" /\ c.age = 0
        /\ c.lock = contract[p].lock /\ c.hash = contract[p].hash
        /\ c.posted = contract[p].posted /\ c.spent = contract[p].spent
    BY FieldTypes, NewState
  <1>3. contract' = [contract EXCEPT ![p] = c]
    BY DEF Publish
  <1> HIDE DEF c
  <1>4. QED
    BY <1>1, <1>2, <1>3, NewContract

LEMMA MineContractEffect ==
    ASSUME TypeOK, NEW p \in Party, MineContract(p)
    PROVE  /\ contract' \in [Party -> Contracts]
           /\ \A q \in Party : q # p => contract'[q] = contract[q]
           /\ contract'[p].state = "mined" /\ contract'[p].age = 0
           /\ contract'[p].lock = contract[p].lock /\ contract'[p].hash = contract[p].hash
           /\ contract'[p].posted = contract[p].posted /\ contract'[p].spent = contract[p].spent
  <1> DEFINE c == [contract[p] EXCEPT !.state = "mined", !.age = 0]
  <1>1. c \in Contracts
    BY FieldTypes, NewState
  <1>2. /\ c.state = "mined" /\ c.age = 0
        /\ c.lock = contract[p].lock /\ c.hash = contract[p].hash
        /\ c.posted = contract[p].posted /\ c.spent = contract[p].spent
    BY FieldTypes, NewState
  <1>3. contract' = [contract EXCEPT ![p] = c]
    BY DEF MineContract
  <1> HIDE DEF c
  <1>4. QED
    BY <1>1, <1>2, <1>3, NewContract

LEMMA PostEffect ==
    ASSUME TypeOK, NEW p \in Party, NEW spend \in Spend, Post(p, spend)
    PROVE  /\ contract' \in [Party -> Contracts]
           /\ \A q \in Party : q # p => contract'[q] = contract[q]
           /\ contract'[p].state = contract[p].state /\ contract'[p].lock = contract[p].lock
           /\ contract'[p].hash = contract[p].hash /\ contract'[p].age = contract[p].age
           /\ contract'[p].spent = contract[p].spent
           /\ \A s \in Spend : contract'[p].posted[s] = IF s = spend THEN 0
                                                      ELSE contract[p].posted[s]
  <1> DEFINE c == [contract[p] EXCEPT !.posted[spend] = 0]
  <1>1. c \in Contracts
    BY FieldTypes, Constants DEF Contracts, Age
  <1>2. /\ c.state = contract[p].state /\ c.lock = contract[p].lock
        /\ c.hash = contract[p].hash /\ c.age = contract[p].age
        /\ c.spent = contract[p].spent
        /\ \A s \in Spend : c.posted[s] = IF s = spend THEN 0
                                                      ELSE contract[p].posted[s]
    BY FieldTypes, Constants DEF Contracts, Age
  <1>3. contract' = [contract EXCEPT ![p] = c]
    BY DEF Post
  <1> HIDE DEF c
  <1>4. QED
    BY <1>1, <1>2, <1>3, NewContract

LEMMA SpendEffect ==
    ASSUME TypeOK, NEW p \in Party, MineSpend(p)
    PROVE  /\ contract' \in [Party -> Contracts]
           /\ \A q \in Party : q # p => contract'[q] = contract[q]
           /\ \E spend \in Spend : Posted(p, spend) /\ contract'[p].spent = {spend}
           /\ contract'[p].state = contract[p].state /\ contract'[p].lock = contract[p].lock
           /\ contract'[p].hash = contract[p].hash /\ contract'[p].age = contract[p].age
           /\ contract'[p].posted = contract[p].posted
  <1>1. PICK spend \in Spend : /\ Posted(p, spend)
                              /\ contract' = [contract EXCEPT ![p].spent = {spend}]
    BY DEF MineSpend
  <1> DEFINE c == [contract[p] EXCEPT !.spent = {spend}]
  <1>2. /\ c \in Contracts /\ c.spent = {spend}
        /\ c.state = contract[p].state /\ c.lock = contract[p].lock
        /\ c.hash = contract[p].hash /\ c.age = contract[p].age
        /\ c.posted = contract[p].posted
    BY FieldTypes DEF Contracts
  <1>3. contract' = [contract EXCEPT ![p] = c]
    BY <1>1
  <1> HIDE DEF c
  <1>4. QED
    BY <1>1, <1>2, <1>3, NewContract

\* Only the ages grow, and only to Delay.
LEMMA OlderType ==
    ASSUME NEW c \in Contracts
    PROVE  /\ Older(c) \in Contracts
           /\ Older(c).state = c.state /\ Older(c).lock = c.lock
           /\ Older(c).hash = c.hash /\ Older(c).spent = c.spent
           /\ c.state # "none"
                => /\ Older(c).age = IF c.age = Delay THEN Delay ELSE c.age + 1
                   /\ \A spend \in Spend : Older(c).posted[spend] =
                         IF c.posted[spend] \in {Never, Delay} THEN c.posted[spend]
                         ELSE c.posted[spend] + 1
           /\ c.state = "none" => Older(c) = c
  <1>1. CASE c.state = "none"
    BY <1>1 DEF Older
  <1>2. CASE c.state # "none"
    <2> DEFINE Up(a) == IF a = Never \/ a = Delay THEN a ELSE a + 1
               older == [c EXCEPT !.age = Up(c.age),
                                  !.posted = [spend \in Spend |-> Up(c.posted[spend])]]
    <2>1. Older(c) = older
      BY <1>2 DEF Older
    <2>2. c.age \in Age /\ \A spend \in Spend : c.posted[spend] \in Age \cup {Never}
      BY DEF Contracts
    <2>3. \A a \in Age \cup {Never} : Up(a) \in Age \cup {Never} /\ (a \in Age => Up(a) \in Age)
      BY Constants DEF Age, Never
    <2>4. older \in Contracts
      BY <2>2, <2>3 DEF Contracts
    <2>5. c.age # Never
      BY <2>2, Constants DEF Age, Never
    <2>6. /\ older.state = c.state /\ older.lock = c.lock /\ older.hash = c.hash
          /\ older.spent = c.spent /\ older.age = Up(c.age)
          /\ older.posted = [spend \in Spend |-> Up(c.posted[spend])]
      BY DEF Contracts
    <2>7. QED
      BY <1>2, <2>1, <2>4, <2>5, <2>6
  <1>3. QED
    BY <1>1, <1>2

LEMMA TickType ==
    ASSUME TypeOK, Tick
    PROVE  /\ contract' \in [Party -> Contracts]
           /\ \A p \in Party : contract'[p] = Older(contract[p])
  BY OlderType DEF TypeOK, Tick

-----------------------------------------------------------------------------
(* Every step keeps the invariant. *)

IInv == TypeOK /\ Clock

LEMMA InitInv == Init => IInv
  <1>1. Init => Clock
    BY Constants DEF Init, Clock, Common, ShownEarly, Audited, PublishedSoon, SpentSoon,
       UsedInTime, NoContract, Posted, Open, SecretShown, Never, Party, Spend
  <1>2. QED
    BY <1>1, InitType DEF IInv

\* A careful cp2 leaves its contract open for no more than this.
LEMMA SpentByThen ==
    ASSUME TypeOK, SpentSoon, "cp2" \in careful, Open("cp2")
    PROVE  now <= Lock("cp2") + 2 * Delay
  BY Constants, FieldTypes DEF TypeOK, SpentSoon, Posted, Hours, Lock, Never, Spend, Party

LEMMA InitiateStep ==
    ASSUME IInv, Initiate
    PROVE  IInv'
  <1> USE Constants DEF Posted, Open, Lock, Hours, SecretShown, Never, Spend, Party
  <1>1. TypeOK /\ Clock /\ now \in Nat
    BY DEF IInv, TypeOK
  <1>2. /\ contract' \in [Party -> Contracts]
        /\ contract'["cp2"] = contract["cp2"]
        /\ now' = now /\ careful' = careful
        /\ contract["cp1"].state = "none" /\ contract'["cp1"].state = "built"
        /\ contract'["cp1"].lock = now + InitiateLock /\ contract'["cp1"].hash = Secret
        /\ contract'["cp1"].age = 0 /\ contract'["cp1"].spent = {}
        /\ \A spend \in Spend : contract'["cp1"].posted[spend] = Never
    BY <1>1, BuildEffect DEF Initiate, TypeOK
  <1>3. TypeOK'
    BY <1>1, <1>2, FieldTypes DEF TypeOK
  <1>4. Common'
    BY <1>1, <1>2, FieldTypes DEF Clock, Common
  <1>5. ShownEarly'
    BY <1>1, <1>2, FieldTypes DEF Clock, ShownEarly
  <1>6. Audited'
    BY <1>1, <1>2, FieldTypes DEF Clock, Audited
  <1>7. PublishedSoon'
    BY <1>1, <1>2, FieldTypes DEF Clock, PublishedSoon
  <1>8. SpentSoon'
    BY <1>1, <1>2, FieldTypes DEF Clock, SpentSoon
  <1>9. UsedInTime'
    BY <1>1, <1>2, FieldTypes DEF Clock, UsedInTime
  <1>10. QED
    BY <1>3, <1>4, <1>5, <1>6, <1>7, <1>8, <1>9 DEF IInv, Clock

LEMMA ParticipateStep ==
    ASSUME IInv, NEW hash \in Hashes, Participate(hash)
    PROVE  IInv'
  <1> USE Constants DEF Posted, Open, Lock, Hours, SecretShown, Never, Spend, Party
  <1>1. TypeOK /\ Clock /\ now \in Nat
    BY DEF IInv, TypeOK
  <1>2. /\ contract' \in [Party -> Contracts]
        /\ contract'["cp1"] = contract["cp1"]
        /\ now' = now /\ careful' = careful
        /\ contract["cp2"].state = "none" /\ contract'["cp2"].state = "built"
        /\ contract'["cp2"].lock = now + ParticipateLock /\ contract'["cp2"].hash = hash
        /\ contract'["cp2"].age = 0 /\ contract'["cp2"].spent = {}
        /\ \A spend \in Spend : contract'["cp2"].posted[spend] = Never
        /\ "cp2" \in careful => AuditedByCp2
    BY <1>1, BuildEffect DEF Participate, ParticipateUntil, TypeOK
  <1>3. TypeOK'
    BY <1>1, <1>2, FieldTypes DEF TypeOK
  <1>4. Common'
    BY <1>1, <1>2, FieldTypes DEF Clock, Common
  <1>5. ShownEarly'
    BY <1>1, <1>2, FieldTypes DEF Clock, ShownEarly
  <1>6. Audited'
    BY <1>1, <1>2, FieldTypes DEF Clock, Audited, AuditedByCp2
  <1>7. PublishedSoon'
    BY <1>1, <1>2, FieldTypes DEF Clock, PublishedSoon
  <1>8. SpentSoon'
    BY <1>1, <1>2, FieldTypes DEF Clock, SpentSoon
  <1>9. UsedInTime'
    BY <1>1, <1>2, FieldTypes DEF Clock, UsedInTime, Common
  <1>10. QED
    BY <1>3, <1>4, <1>5, <1>6, <1>7, <1>8, <1>9 DEF IInv, Clock

LEMMA PublishStep ==
    ASSUME IInv, NEW p \in Party, Publish(p)
    PROVE  IInv'
  <1> USE Constants DEF Posted, Open, Lock, Hours, SecretShown, Never, Spend, Party
  <1>1. TypeOK /\ Clock /\ now \in Nat
    BY DEF IInv, TypeOK
  <1>2. /\ contract' \in [Party -> Contracts]
        /\ \A q \in Party : q # p => contract'[q] = contract[q]
        /\ now' = now /\ careful' = careful
        /\ contract[p].state = "built" /\ contract'[p].state = "posted"
        /\ contract'[p].age = 0 /\ contract'[p].lock = contract[p].lock
        /\ contract'[p].hash = contract[p].hash /\ contract'[p].posted = contract[p].posted
        /\ contract'[p].spent = contract[p].spent
    BY <1>1, PublishEffect DEF Publish
  <1>3. TypeOK'
    BY <1>1, <1>2, FieldTypes DEF TypeOK
  <1>4. Common'
    BY <1>1, <1>2, FieldTypes DEF Clock, Common
  <1>5. ShownEarly'
    BY <1>1, <1>2, FieldTypes DEF Clock, ShownEarly
  <1>6. Audited'
    BY <1>1, <1>2, FieldTypes DEF Clock, Audited, Common
  <1>7. PublishedSoon'
    BY <1>1, <1>2, FieldTypes DEF Clock, PublishedSoon
  <1>8. SpentSoon'
    BY <1>1, <1>2, FieldTypes DEF Clock, SpentSoon
  <1>9. UsedInTime'
    BY <1>1, <1>2, FieldTypes DEF Clock, UsedInTime
  <1>10. QED
    BY <1>3, <1>4, <1>5, <1>6, <1>7, <1>8, <1>9 DEF IInv, Clock

LEMMA DeclineStep ==
    ASSUME IInv, NEW p \in Party, Decline(p)
    PROVE  IInv'
  <1> USE Constants DEF Posted, Open, Lock, Hours, SecretShown, Never, Spend, Party
  <1>1. TypeOK /\ Clock /\ now \in Nat
    BY DEF IInv, TypeOK
  <1>2. /\ contract' \in [Party -> Contracts]
        /\ \A q \in Party : q # p => contract'[q] = contract[q]
        /\ now' = now /\ careful' = careful
        /\ contract[p].state = "built" /\ contract'[p] = NoContract
        /\ contract'[p].state = "none" /\ contract'[p].hash = Secret /\ contract'[p].spent = {}
        /\ \A spend \in Spend : contract'[p].posted[spend] = Never
    BY <1>1, DeclineEffect DEF Decline
  <1>3. TypeOK'
    BY <1>1, <1>2, FieldTypes DEF TypeOK
  <1>4. Common'
    BY <1>1, <1>2, FieldTypes DEF Clock, Common
  <1>5. ShownEarly'
    BY <1>1, <1>2, FieldTypes DEF Clock, ShownEarly
  <1>6. Audited'
    BY <1>1, <1>2, FieldTypes DEF Clock, Audited
  <1>7. PublishedSoon'
    BY <1>1, <1>2, FieldTypes DEF Clock, PublishedSoon
  <1>8. SpentSoon'
    BY <1>1, <1>2, FieldTypes DEF Clock, SpentSoon
  <1>9. UsedInTime'
    BY <1>1, <1>2, FieldTypes DEF Clock, UsedInTime
  <1>10. QED
    BY <1>3, <1>4, <1>5, <1>6, <1>7, <1>8, <1>9 DEF IInv, Clock

LEMMA MineContractStep ==
    ASSUME IInv, NEW p \in Party, MineContract(p)
    PROVE  IInv'
  <1> USE Constants DEF Posted, Open, Lock, Hours, SecretShown, Never, Spend, Party
  <1>1. TypeOK /\ Clock /\ now \in Nat
    BY DEF IInv, TypeOK
  <1>2. /\ contract' \in [Party -> Contracts]
        /\ \A q \in Party : q # p => contract'[q] = contract[q]
        /\ now' = now /\ careful' = careful
        /\ contract[p].state = "posted" /\ contract'[p].state = "mined"
        /\ contract'[p].lock = contract[p].lock /\ contract'[p].hash = contract[p].hash
        /\ contract'[p].posted = contract[p].posted /\ contract'[p].spent = contract[p].spent
    BY <1>1, MineContractEffect DEF MineContract
  <1>3. TypeOK'
    BY <1>1, <1>2, FieldTypes DEF TypeOK
  <1>4. Common'
    BY <1>1, <1>2, FieldTypes DEF Clock, Common
  <1>5. ShownEarly'
    BY <1>1, <1>2, FieldTypes DEF Clock, ShownEarly, Common
  <1>6. Audited'
    BY <1>1, <1>2, FieldTypes DEF Clock, Audited
  <1>7. PublishedSoon'
    BY <1>1, <1>2, FieldTypes DEF Clock, PublishedSoon
  <1>8. SpentSoon'
    BY <1>1, <1>2, FieldTypes DEF Clock, SpentSoon, PublishedSoon
  <1>9. UsedInTime'
    BY <1>1, <1>2, FieldTypes DEF Clock, UsedInTime, Common, Audited
  <1>10. QED
    BY <1>3, <1>4, <1>5, <1>6, <1>7, <1>8, <1>9 DEF IInv, Clock

LEMMA RefundStep ==
    ASSUME IInv, NEW p \in Party, Refund(p)
    PROVE  IInv'
  <1> USE Constants DEF Posted, Open, Lock, Hours, SecretShown, Never, Spend, Party
  <1>1. TypeOK /\ Clock /\ now \in Nat
    BY DEF IInv, TypeOK
  <1>2. /\ contract' \in [Party -> Contracts]
        /\ \A q \in Party : q # p => contract'[q] = contract[q]
        /\ now' = now /\ careful' = careful
        /\ contract'[p].state = contract[p].state /\ contract'[p].lock = contract[p].lock
        /\ contract'[p].hash = contract[p].hash /\ contract'[p].age = contract[p].age
        /\ contract'[p].spent = contract[p].spent /\ Open(p) /\ ~Posted(p, "refund")
        /\ \A s \in Spend : contract'[p].posted[s] = IF s = "refund" THEN 0
                                        ELSE contract[p].posted[s]
        /\ now >= Lock(p)
    BY <1>1, PostEffect DEF Refund, Refunds, Post
  <1>3. TypeOK'
    BY <1>1, <1>2, FieldTypes DEF TypeOK
  <1>4. Common'
    BY <1>1, <1>2, FieldTypes DEF Clock, Common
  <1>5. ShownEarly'
    BY <1>1, <1>2, FieldTypes DEF Clock, ShownEarly, Common
  <1>6. Audited'
    BY <1>1, <1>2, FieldTypes DEF Clock, Audited
  <1>7. PublishedSoon'
    BY <1>1, <1>2, FieldTypes DEF Clock, PublishedSoon
  <1>8. SpentSoon'
    BY <1>1, <1>2, FieldTypes DEF Clock, SpentSoon, Common
  <1>9. UsedInTime'
    BY <1>1, <1>2, FieldTypes DEF Clock, UsedInTime, Common, SpentSoon, Audited
  <1>10. QED
    BY <1>3, <1>4, <1>5, <1>6, <1>7, <1>8, <1>9 DEF IInv, Clock

LEMMA RedeemByInitiatorStep ==
    ASSUME IInv, Redeem("cp1")
    PROVE  IInv'
  <1> USE Constants DEF Posted, Open, Lock, Hours, SecretShown, Never, Spend, Party
  <1>1. TypeOK /\ Clock /\ now \in Nat
    BY DEF IInv, TypeOK
  <1>2. /\ contract' \in [Party -> Contracts]
        /\ \A q \in Party : q # "cp2" => contract'[q] = contract[q]
        /\ now' = now /\ careful' = careful
        /\ contract'["cp2"].state = contract["cp2"].state /\ contract'["cp2"].lock = contract["cp2"].lock
        /\ contract'["cp2"].hash = contract["cp2"].hash /\ contract'["cp2"].age = contract["cp2"].age
        /\ contract'["cp2"].spent = contract["cp2"].spent /\ Open("cp2") /\ ~Posted("cp2", "redeem")
        /\ \A s \in Spend : contract'["cp2"].posted[s] = IF s = "redeem" THEN 0
                                        ELSE contract["cp2"].posted[s]
        /\ "cp1" \in careful => InTime("cp1")
    BY <1>1, PostEffect DEF Redeem, Redeems, Post, Other
  <1>3. TypeOK'
    BY <1>1, <1>2, FieldTypes DEF TypeOK
  <1>4. Common'
    BY <1>1, <1>2, FieldTypes DEF Clock, Common
  <1>5. ShownEarly'
    BY <1>1, <1>2, FieldTypes DEF Clock, ShownEarly, Common, InTime
  <1>6. Audited'
    BY <1>1, <1>2, FieldTypes DEF Clock, Audited
  <1>7. PublishedSoon'
    BY <1>1, <1>2, FieldTypes DEF Clock, PublishedSoon
  <1>8. SpentSoon'
    BY <1>1, <1>2, FieldTypes DEF Clock, SpentSoon, Common
  <1>9. UsedInTime'
    <2>1. "cp2" \in careful => now <= Lock("cp2") + 2 * Delay
      BY <1>1, <1>2, SpentByThen DEF Clock
    <2>2. "cp2" \in careful => ~Posted("cp1", "refund")
      BY <1>1, <1>2, <2>1, FieldTypes DEF Clock, Common, Audited
    <2>3. ~Posted("cp1", "redeem")
      BY <1>1, <1>2 DEF Clock, Common
    <2>4. "refund" \in contract["cp1"].spent => Posted("cp1", "refund")
      BY <1>1 DEF TypeOK
    <2>5. QED
      BY <1>1, <1>2, <2>1, <2>2, <2>3, <2>4, FieldTypes DEF UsedInTime
  <1>10. QED
    BY <1>3, <1>4, <1>5, <1>6, <1>7, <1>8, <1>9 DEF IInv, Clock

LEMMA RedeemByParticipantStep ==
    ASSUME IInv, Redeem("cp2")
    PROVE  IInv'
  <1> USE Constants DEF Posted, Open, Lock, Hours, SecretShown, Never, Spend, Party
  <1>1. TypeOK /\ Clock /\ now \in Nat
    BY DEF IInv, TypeOK
  <1>2. /\ contract' \in [Party -> Contracts]
        /\ \A q \in Party : q # "cp1" => contract'[q] = contract[q]
        /\ now' = now /\ careful' = careful
        /\ contract'["cp1"].state = contract["cp1"].state /\ contract'["cp1"].lock = contract["cp1"].lock
        /\ contract'["cp1"].hash = contract["cp1"].hash /\ contract'["cp1"].age = contract["cp1"].age
        /\ contract'["cp1"].spent = contract["cp1"].spent /\ Open("cp1") /\ ~Posted("cp1", "redeem")
        /\ \A s \in Spend : contract'["cp1"].posted[s] = IF s = "redeem" THEN 0
                                        ELSE contract["cp1"].posted[s]
        /\ SecretShown
    BY <1>1, PostEffect DEF Redeem, Redeems, Post, Other, Knows
  <1>3. TypeOK'
    BY <1>1, <1>2, FieldTypes DEF TypeOK
  <1>4. Common'
    BY <1>1, <1>2, FieldTypes DEF Clock, Common
  <1>5. ShownEarly'
    BY <1>1, <1>2, FieldTypes DEF Clock, ShownEarly, Common
  <1>6. Audited'
    BY <1>1, <1>2, FieldTypes DEF Clock, Audited
  <1>7. PublishedSoon'
    BY <1>1, <1>2, FieldTypes DEF Clock, PublishedSoon
  <1>8. SpentSoon'
    BY <1>1, <1>2, FieldTypes DEF Clock, SpentSoon, Common
  <1>9. UsedInTime'
    BY <1>1, <1>2, FieldTypes DEF Clock, UsedInTime, Common, Audited
  <1>10. QED
    BY <1>3, <1>4, <1>5, <1>6, <1>7, <1>8, <1>9 DEF IInv, Clock

LEMMA MineSpendStep ==
    ASSUME IInv, NEW p \in Party, MineSpend(p)
    PROVE  IInv'
  <1> USE Constants DEF Posted, Open, Lock, Hours, SecretShown, Never, Spend, Party
  <1>1. TypeOK /\ Clock /\ now \in Nat
    BY DEF IInv, TypeOK
  <1>2. /\ contract' \in [Party -> Contracts]
        /\ \A q \in Party : q # p => contract'[q] = contract[q]
        /\ now' = now /\ careful' = careful
        /\ contract'[p].state = contract[p].state /\ contract'[p].lock = contract[p].lock
        /\ contract'[p].hash = contract[p].hash /\ contract'[p].age = contract[p].age
        /\ contract'[p].posted = contract[p].posted
        /\ Open(p)
        /\ \E spend \in Spend : Posted(p, spend) /\ contract'[p].spent = {spend}
    BY <1>1, SpendEffect DEF MineSpend
  <1>3. TypeOK'
    BY <1>1, <1>2, FieldTypes DEF TypeOK
  <1>4. Common'
    BY <1>1, <1>2, FieldTypes DEF Clock, Common
  <1>5. ShownEarly'
    BY <1>1, <1>2, FieldTypes DEF Clock, ShownEarly, Common
  <1>6. Audited'
    BY <1>1, <1>2, FieldTypes DEF Clock, Audited
  <1>7. PublishedSoon'
    BY <1>1, <1>2, FieldTypes DEF Clock, PublishedSoon
  <1>8. SpentSoon'
    BY <1>1, <1>2, FieldTypes DEF Clock, SpentSoon, Common
  <1>9. UsedInTime'
    BY <1>1, <1>2, FieldTypes DEF Clock, UsedInTime, Common, SpentSoon, Audited
  <1>10. QED
    BY <1>3, <1>4, <1>5, <1>6, <1>7, <1>8, <1>9 DEF IInv, Clock

LEMMA TickStep ==
    ASSUME IInv, Tick
    PROVE  IInv'
  <1> USE Constants DEF Posted, Open, Lock, Hours, SecretShown, Never, Spend, Party
  <1>1. TypeOK /\ Clock /\ now \in Nat
    BY DEF IInv, TypeOK
  <1>2. /\ contract' \in [Party -> Contracts]
        /\ now' = now + 1 /\ careful' = careful
        /\ \A p \in Party : ~MineOverdue(p)
        /\ \A p \in careful : ~ActOverdue(p)
    BY <1>1, TickType DEF Tick
  <1>3. \A p \in Party :
           /\ contract'[p].state = contract[p].state /\ contract'[p].lock = contract[p].lock
           /\ contract'[p].hash = contract[p].hash /\ contract'[p].spent = contract[p].spent
           /\ contract[p].state # "none"
                => /\ contract'[p].age = IF contract[p].age = Delay THEN Delay
                                         ELSE contract[p].age + 1
                   /\ \A spend \in Spend : contract'[p].posted[spend] =
                         IF contract[p].posted[spend] \in {Never, Delay}
                         THEN contract[p].posted[spend]
                         ELSE contract[p].posted[spend] + 1
           /\ contract[p].state = "none" => contract'[p] = contract[p]
    BY <1>1, TickType, OlderType, FieldTypes
  <1>4. \A p \in Party : \A spend \in Spend : Posted(p, spend)' <=> Posted(p, spend)
    BY <1>1, <1>3, FieldTypes
  <1>5. TypeOK'
    BY <1>1, <1>2, <1>3, <1>4, FieldTypes DEF TypeOK
  <1>6. Common'
    BY <1>1, <1>2, <1>3, <1>4, FieldTypes DEF Clock, Common
  <1>7. ShownEarly'
    BY <1>1, <1>2, <1>3, <1>4, FieldTypes DEF Clock, ShownEarly, MineOverdue
  <1>8. Audited'
    BY <1>1, <1>2, <1>3 DEF Clock, Audited
  <1>9. PublishedSoon'
    BY <1>1, <1>2, <1>3, <1>4, FieldTypes DEF Clock, PublishedSoon, MineOverdue, ActOverdue
  <1>10. SpentSoon'
    BY <1>1, <1>2, <1>3, <1>4, FieldTypes
       DEF Clock, SpentSoon, MineOverdue, ActOverdue, Refunds
  <1>11. UsedInTime'
    BY <1>1, <1>2, <1>3, <1>4, FieldTypes
       DEF Clock, Common, UsedInTime, MineOverdue, ActOverdue, Redeems, Knows, InTime, Other
  <1>12. QED
    BY <1>5, <1>6, <1>7, <1>8, <1>9, <1>10, <1>11 DEF IInv, Clock

LEMMA Step == IInv /\ [Next]_vars => IInv'
  <1> SUFFICES ASSUME IInv, [Next]_vars PROVE IInv'
    OBVIOUS
  <1>1. CASE Initiate
    BY <1>1, InitiateStep
  <1>2. CASE \E hash \in Hashes : Participate(hash)
    BY <1>2, ParticipateStep
  <1>3. ASSUME NEW p \in Party, Answer(p) PROVE IInv'
    BY <1>3, PublishStep, DeclineStep DEF Answer
  <1>4. ASSUME NEW p \in Party, Redeem(p) PROVE IInv'
    BY <1>4, RedeemByInitiatorStep, RedeemByParticipantStep DEF Party
  <1>5. ASSUME NEW p \in Party, Refund(p) PROVE IInv'
    BY <1>5, RefundStep
  <1>6. ASSUME NEW p \in Party, MineContract(p) \/ MineSpend(p) PROVE IInv'
    BY <1>6, MineContractStep, MineSpendStep
  <1>7. CASE Tick
    BY <1>7, TickStep
  <1>8. CASE UNCHANGED vars
    BY <1>8 DEF vars, IInv, TypeOK, Clock, Common, ShownEarly, Audited, PublishedSoon,
       SpentSoon, UsedInTime, Posted, Open, Lock, Hours, SecretShown
  <1>9. QED
    BY <1>1, <1>2, <1>3, <1>4, <1>5, <1>6, <1>7, <1>8 DEF Next

-----------------------------------------------------------------------------
\* The invariant holds in every state a swap can reach.
LEMMA Invariant == Spec => []IInv
  BY InitInv, Step, PTL DEF Spec

\* The variables keep their types (the state of main.go's contracts, 600-614).
THEOREM TypeCorrect == Spec => []TypeOK
  <1>1. IInv => TypeOK
    BY DEF IInv
  <1>2. QED
    BY <1>1, Invariant, PTL

\* A careful initiator never ends with the own coins taken and cp2's taken back
\* (main.go:820 and the script of 1086-1132).
THEOREM InitiatorIsSafe == Spec => []InitiatorSafe
  <1>1. IInv => InitiatorSafe
    <2> SUFFICES ASSUME IInv, "cp1" \in careful, contract["cp1"].spent = {"redeem"}
                 PROVE  "refund" \notin contract["cp2"].spent
      BY DEF InitiatorSafe
    <2>1. Posted("cp1", "redeem")
      BY DEF IInv, TypeOK, Party
    <2>2. SecretShown
      BY <2>1 DEF IInv, Clock, Common
    <2>3. QED
      BY <2>2 DEF IInv, Clock, ShownEarly
  <1>2. QED
    BY <1>1, Invariant, PTL

\* Nor a careful participant: 48 hours against 24 leave the time to use the
\* secret (main.go:781 and 820), for all lock times that far apart.
THEOREM ParticipantIsSafe == Spec => []ParticipantSafe
  <1>1. IInv => ParticipantSafe
    <2> SUFFICES ASSUME IInv, "cp2" \in careful, contract["cp2"].spent = {"redeem"}
                 PROVE  "refund" \notin contract["cp1"].spent
      BY DEF ParticipantSafe
    <2>1. SecretShown
      BY DEF IInv, TypeOK, Party, SecretShown
    <2>2. QED
      BY <2>1 DEF IInv, Clock, UsedInTime
  <1>2. QED
    BY <1>1, Invariant, PTL

===============================================================================
