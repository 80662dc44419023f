------------------------------ MODULE HtlcSwap ------------------------------
(***************************************************************************)
(* The swap of two coins with the hash-locked contract tool                *)
(* (qtumatmoicswap/atomicswap/main.go), in the order of the two scenarios  *)
(* in the comment at its head: cp1 initiates on one chain, cp2             *)
(* participates on the other with the hash of cp1's secret, cp1 redeems    *)
(* cp2's contract and shows the secret, cp2 redeems cp1's with it.  Either *)
(* may take its own contract back after the contract's lock time.          *)
(*                                                                         *)
(* The tool is run once for each command and keeps nothing.  It fixes the  *)
(* lock times, builds the transactions and checks their scripts; when to   *)
(* run it is left to the two people, and so is the time they take to       *)
(* answer its prompt.  A careful one acts within Delay and looks at the    *)
(* clock first; a careless one does what the tool lets it, at any time.    *)
(* The two chains and their nodes are external.                            *)
(***************************************************************************)
EXTENDS Integers, FiniteSets

CONSTANTS
    InitiateLock,       \* 48 hours
    ParticipateLock,    \* 24 hours
    Delay,              \* the longest a careful person waits, and a posted transaction
    Hashes,             \* the secret hashes a participant may be run with
    MaxTime             \* bound: the last hour

ASSUME HtlcAssumption ==
    /\ {InitiateLock, ParticipateLock, Delay, MaxTime} \subseteq Nat
    /\ Delay > 0 /\ 2 * Delay <= ParticipateLock
    \* A participant who starts at once keeps the time to see the secret and use it.
    /\ ParticipateLock + 5 * Delay <= InitiateLock

VARIABLES
    now,        \* the time
    careful,    \* who acts in time
    contract    \* by author: the contract, its transaction and what spends it

vars == <<now, careful, contract>>

Party == {"cp1", "cp2"}
Other(p) == IF p = "cp1" THEN "cp2" ELSE "cp1"
Spend == {"redeem", "refund"}

Secret == "S"       \* what cp1 draws; a hash is named by what it is the hash of

Never == -1

\* age: hours since the contract was built, posted, mined, and since each
\* transaction that spends it was posted; they are counted up to Delay.
Age == 0 .. Delay
NoContract == [state |-> "none", lock |-> 0, hash |-> Secret, age |-> 0,
               posted |-> [spend \in Spend |-> Never], spent |-> {}]

Contracts == [state : {"none", "built", "posted", "mined"}, lock : Nat,
              hash : Hashes \cup {Secret}, age : Age,
              posted : [Spend -> Age \cup {Never}], spent : SUBSET Spend]

Init ==
    /\ now = 0
    /\ careful \in SUBSET Party
    /\ contract = [p \in Party |-> NoContract]

-----------------------------------------------------------------------------
(* What the contract's script and the transactions' fields allow. *)

Posted(p, spend) == contract[p].posted[spend] # Never

Open(p) == contract[p].state = "mined" /\ contract[p].spent = {}

\* The redeem path asks for the secret.  The input of the redeem transaction is
\* final (NewTxIn), so that its LockTime does not hold it back.
\* Mutant: the input's sequence is 0, as in the refund transaction.
RedeemsLate(p) == Open(p) /\ contract[p].hash = Secret /\ now >= contract[p].lock

Redeems(p) == Open(p) /\ contract[p].hash = Secret

\* The refund path asks for the lock time.
\* Mutant: it does not.
RefundsAtOnce(p) == Open(p)

\* Mutant: the refund input's sequence is left final, which disables the check.
RefundsNever(p) == FALSE /\ Open(p)

Refunds(p) == Open(p) /\ now >= contract[p].lock

\* extractsecret finds the secret in any redemption of cp2's contract.
SecretShown == Posted("cp2", "redeem")

Knows(p) == p = "cp1" \/ SecretShown

-----------------------------------------------------------------------------
(* The commands. *)

Build(p, lock, hash) ==
    contract' = [contract EXCEPT ![p] =
                    [NoContract EXCEPT !.state = "built", !.lock = lock,
                                       !.hash = hash]]

Initiate ==
    /\ contract["cp1"].state = "none"
    /\ Build("cp1", now + InitiateLock, Secret)
    /\ UNCHANGED <<now, careful>>

\* auditcontract shows cp1's contract: it must be in a block, with time enough.
AuditedByCp2 ==
    /\ Open("cp1")
    /\ contract["cp1"].lock > now + ParticipateLock + 4 * Delay

\* Mutant of ParticipateUntil: the initiator's lock time.
ParticipateUntilLate == now + InitiateLock

ParticipateUntil == now + ParticipateLock

Participate(hash) ==
    /\ contract["cp2"].state = "none" /\ contract["cp1"].state # "none"
    /\ "cp2" \in careful => AuditedByCp2
    /\ Build("cp2", ParticipateUntil, hash)
    /\ UNCHANGED <<now, careful>>

\* promptPublishTx: the contract's lock time runs while the prompt waits.
Publish(p) ==
    /\ contract[p].state = "built"
    /\ contract' = [contract EXCEPT ![p].state = "posted", ![p].age = 0]
    /\ UNCHANGED <<now, careful>>

\* The prompt is answered with no: nothing is kept, the command is run again.
\* Mutant: what was built is not thrown away.
DeclineKeeps(p) ==
    /\ contract[p].state = "built"
    /\ contract' = [contract EXCEPT ![p].state = "none"]
    /\ UNCHANGED <<now, careful>>

Decline(p) ==
    /\ contract[p].state = "built"
    /\ contract' = [contract EXCEPT ![p] = NoContract]
    /\ UNCHANGED <<now, careful>>

\* Posting makes a transaction public, the secret of a redemption with it.
Post(p, spend) ==
    /\ ~Posted(p, spend)
    /\ contract' = [contract EXCEPT ![p].posted[spend] = 0]
    /\ UNCHANGED <<now, careful>>

\* cp1 redeems only if the block comes before cp2 may take the contract back.
InTime(p) == p = "cp1" => now + Delay < contract["cp2"].lock

\* redeem: party p takes the other's contract.
Redeem(p) ==
    /\ Knows(p) /\ Redeems(Other(p))
    /\ p \in careful => InTime(p)
    /\ Post(Other(p), "redeem")

\* refund: party p takes its own contract back.
Refund(p) == Refunds(p) /\ Post(p, "refund")

-----------------------------------------------------------------------------
(* The chains. *)

MineContract(p) ==
    /\ contract[p].state = "posted"
    /\ contract' = [contract EXCEPT ![p].state = "mined", ![p].age = 0]
    /\ UNCHANGED <<now, careful>>

\* Of two transactions that spend the same output a block takes either.
MineSpend(p) ==
    /\ Open(p)
    /\ \E spend \in Spend :
          /\ Posted(p, spend)
          /\ contract' = [contract EXCEPT ![p].spent = {spend}]
    /\ UNCHANGED <<now, careful>>

\* A posted transaction is in a block before Delay is over.
MineOverdue(p) ==
    \/ contract[p].state = "posted" /\ contract[p].age = Delay
    \/ Open(p) /\ \E spend \in Spend : contract[p].posted[spend] = Delay

\* So is done what a careful person has to do: to answer the prompt, to redeem
\* what can be redeemed in time, and to take the own contract back.
ActOverdue(p) ==
    \/ p = "cp2" /\ contract[p].state = "built" /\ contract[p].age = Delay
    \/ /\ Redeems(Other(p)) /\ ~Posted(Other(p), "redeem") /\ Knows(p) /\ InTime(p)
       /\ Delay = IF p = "cp1" THEN contract["cp2"].age
                               ELSE contract["cp2"].posted["redeem"]
    \/ /\ Refunds(p) /\ \A spend \in Spend : ~Posted(p, spend)
       /\ now >= contract[p].lock + Delay

Older(c) ==
    LET Up(a) == IF a = Never \/ a = Delay THEN a ELSE a + 1
    IN  IF c.state = "none" THEN c
        ELSE [c EXCEPT !.age = Up(@),
                       !.posted = [spend \in Spend |-> Up(@[spend])]]

Tick ==
    /\ now < MaxTime
    /\ \A p \in Party : ~MineOverdue(p)
    /\ \A p \in careful : ~ActOverdue(p)
    /\ now' = now + 1
    /\ contract' = [p \in Party |-> Older(contract[p])]
    /\ UNCHANGED careful

Answer(p) == Publish(p) \/ Decline(p)

Next ==
    \/ Initiate \/ \E hash \in Hashes : Participate(hash)
    \/ \E p \in Party : \/ Answer(p) \/ Redeem(p) \/ Refund(p)
                        \/ MineContract(p) \/ MineSpend(p)
    \/ Tick

Spec == Init /\ [][Next]_vars

\* Time goes on, the chains take what is posted, and careful people act.
Fairness ==
    /\ WF_vars(Tick)
    /\ \A p \in Party : /\ WF_vars(MineContract(p)) /\ WF_vars(MineSpend(p))
                        /\ WF_vars(p \in careful /\ Answer(p))
                        /\ WF_vars(p \in careful /\ Redeem(p))
                        /\ WF_vars(p \in careful /\ Refund(p))

FairSpec == Spec /\ Fairness

-----------------------------------------------------------------------------
(* Properties. *)

\* Types; the tool keeps nothing of a contract it did not publish; a transaction
\* that spends one was posted, and one only does.
TypeOK ==
    /\ now \in Nat /\ careful \subseteq Party
    /\ contract \in [Party -> Contracts]
    /\ \A p \in Party : contract[p].state = "none" => contract[p] = NoContract
    /\ \A p \in Party : \A spend \in contract[p].spent :
          Posted(p, spend) /\ contract[p].spent = {spend}

\* A careful initiator does not lose the coins and get none: cp2 takes them only
\* with the secret, and the secret is shown only when the block that takes
\* cp2's comes before the lock time of cp2's contract (main.go:820, 1103-1132).
InitiatorSafe ==
    "cp1" \in careful
        => ~(contract["cp1"].spent = {"redeem"} /\ contract["cp2"].spent = {"refund"})

\* Nor does a careful participant: however late the secret is shown, cp1's
\* contract stays locked long enough to use it (48 hours against 24,
\* main.go:781 and 820; scenario at main.go:53-73).
ParticipantSafe ==
    "cp2" \in careful
        => ~(contract["cp2"].spent = {"redeem"} /\ contract["cp1"].spent = {"refund"})

\* Between careful people a contract that cp2 made with the right hash, in a
\* block in time, ends the swap the way the scenarios tell (main.go:53-73).
SwapCompletes ==
    (careful = Party /\ Open("cp2") /\ contract["cp2"].hash = Secret /\ InTime("cp1"))
        ~> (\A p \in Party : contract[p].spent = {"redeem"})

\* The coins of a careful author do not stay in a contract: refund works from
\* the lock time on (main.go:678-760).
ContractEnds ==
    \A p \in Party :
        (p \in careful /\ Open(p) /\ contract[p].lock + 2 * Delay <= MaxTime)
            ~> (contract[p].spent # {})

=============================================================================
