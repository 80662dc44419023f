------------------------------ MODULE SwapSlates ------------------------------
(***************************************************************************)
(* What the two parties of a swap build together and what is in it: the    *)
(* output they lock the Grin in, the lock, refund and redeem slates, the   *)
(* adaptor signature, the Qtum script and the transaction that claims the  *)
(* deposit (swap/seller.rs, swap/buyer.rs, swap/swap.rs and                *)
(* swap/qtum/types.rs).  GrinSwap has the chains, confirmations and        *)
(* unreliable messages; here a swap's money and keys are followed instead. *)
(*                                                                         *)
(* Every operation is one action.  The operations that make several calls  *)
(* which can fail are given as the list of the states the swap object goes *)
(* through, since it is changed in place: an error from the middle leaves  *)
(* the object as far as it got, in memory.  The caller stores the object   *)
(* after each operation that succeeds, and may at any time go back to the  *)
(* stored one.                                                             *)
(***************************************************************************)
EXTENDS Slate

CONSTANTS
    Word,        \* 2^w: amounts are unsigned integers of w bits
    LockFee, SpendFee,       \* tx_fee of one input and two outputs, of one and one
    RefundDelta, MinRefund,  \* 12 * 60 and 10 * 60 blocks
    MaxFaults    \* bound: calls into the keychain and the library that fail

ASSUME SlatesAssumption ==
    /\ Word \in Nat \ {0} /\ {LockFee, SpendFee} \subseteq 1 .. Word - 1
    /\ RefundDelta \in Nat /\ MinRefund \in 0 .. RefundDelta
    /\ MaxFaults \in Nat

VARIABLES
    swap, disk,  \* each party's swap object, and the one it has stored
    msgs,        \* every message sent
    lock, redeem,   \* the transactions published on the Grin chain, {} or one
    paid,        \* the scripts the Buyer has paid Qtum to
    faults

vars == <<swap, disk, msgs, lock, redeem, paid, faults>>

M == INSTANCE MultisigBuilder WITH NumParticipants <- 2

Party == {"seller", "buyer"}
NoSwap == [status |-> "None"]

Init ==
    /\ swap = [p \in Party |-> NoSwap]
    /\ disk = swap
    /\ msgs = {} /\ lock = {} /\ redeem = {} /\ paid = {}
    /\ faults = 0

\* An operation of party p that succeeds, and is stored.
Saves(p, s) == swap' = [swap EXCEPT ![p] = s] /\ disk' = [disk EXCEPT ![p] = s]

-----------------------------------------------------------------------------
(* The secrets behind the public excesses, recomputed for every signature.   *)
MsKey(i) == Key("ms", i)

\* Mutant of SellerLockKey: the offset is not taken out of the secret.
SellerLockKeyWhole(s) ==
    Key("change", 0) \oplus MsKey(1) \ominus Key("input", 0)

SellerLockKey(s) ==
    Key("change", 0) \oplus MsKey(1) \ominus Key("input", 0) \ominus s.lock.offset
SellerRefundKey(s) == Key("refund", 0) \ominus MsKey(1) \ominus s.refund.offset
SellerRedeemKey == Zero \ominus MsKey(1)
BuyerLockKey == MsKey(2)
BuyerRefundKey == Zero \ominus MsKey(2)
BuyerRedeemKey(s) == Key("output", 0) \ominus MsKey(2) \ominus s.redeem.offset

\* The output both own: multisig.commit, for the amount that is swapped.
MsCommit(s) ==
    [blind |-> [k \in Keys |-> IF k \in {<<"ms", i>> : i \in M!Commits(s.ms)} THEN 1 ELSE 0],
     value |-> s.primary]

Commit(name, v) == [blind |-> Key(name, 0), value |-> v]

\* refund_amount, and the amount of the redeem slate: u64, unchecked.
AfterFee(s) == (s.primary - SpendFee) % Word

\* tx_add_input and tx_add_output leave one that is there already.
AddInput(slate, c) == [slate EXCEPT !.ins = @ \cup {c}]
AddOutput(slate, c, proof) ==
    IF c \in Commits(slate) THEN slate
                            ELSE [slate EXCEPT !.outs = @ \cup {Output(c, proof)}]

-----------------------------------------------------------------------------
(* create_swap_offer and accept_swap_offer.  They make the object: when they *)
(* fail there is none.                                                       *)
SellerMultisig == M!Round1(M!Create(M!NewBuilder(1, FALSE, {})))

LockSlate(change, input) ==
    [BlankSlate EXCEPT !.fee = LockFee, !.offset = Key("lockOffset", 0),
                       !.ins = {Commit("input", input)},
                       !.outs = {Output(Commit("change", change), TRUE)}]
RefundSlate(s) ==
    [BlankSlate EXCEPT !.fee = SpendFee, !.lock = RefundDelta,
                       !.offset = Key("refundOffset", 0),
                       !.outs = {Output(Commit("refund", AfterFee(s)), TRUE)}]

NewOffer(primary, input) ==
    LET s == [status |-> "Created", primary |-> primary, ms |-> SellerMultisig,
              lock |-> LockSlate((input - primary - LockFee) % Word, input),
              refund |-> RefundSlate([primary |-> primary]), redeem |-> BlankSlate,
              redeemPublic |-> "", adaptor |-> {}, published |-> FALSE,
              refundKey |-> "", claim |-> {}]
    IN  [s EXCEPT !.lock = FillRound1(@, "lock1", SellerLockKey(s)),
                  !.refund = FillRound1(@, "refund1", SellerRefundKey(s)),
                  !.redeem = FillRound1(@, "redeem1", SellerRedeemKey)]

CreateSwapOffer(primary, input) ==
    /\ swap.seller = NoSwap
    /\ input > (primary + LockFee) % Word      \* else InsufficientFunds
    /\ Saves("seller", NewOffer(primary, input))
    /\ UNCHANGED <<msgs, lock, redeem, paid, faults>>

\* build_multisig: the Seller's rounds, then both of the Buyer's.
BuyerMultisig(part) ==
    LET a == M!Create(M!Import(M!NewBuilder(2, FALSE, {}), 1, part))
        b == M!Round1(M!Round1Participant(a, 1, part))
    IN  M!Round2([b EXCEPT !.nonce = M!Commits(b)])

\* sign_lock_slate and sign_refund_slate
SignLockSlate(s) ==
    LET slate == AddOutput(s.lock, MsCommit(s), FALSE)
    IN  FillRound2(FillRound1(slate, "lock2", BuyerLockKey), 2, "lock2", BuyerLockKey)
SignRefundSlate(s) ==
    LET slate == AddInput(s.refund, MsCommit(s))
    IN  FillRound2(FillRound1(slate, "refund2", BuyerRefundKey), 2,
                   "refund2", BuyerRefundKey)

\* Mutant of StartRedeem: the Seller's part of the redeem slate is not taken over.
StartRedeemBlank(m) == BlankSlate

StartRedeem(m) == [BlankSlate EXCEPT !.parts = <<m.part>>]

Accepting(m) ==
    LET s == [status |-> "Offered", primary |-> m.primary, ms |-> BuyerMultisig(m.ms),
              lock |-> m.lock, refund |-> m.refund,
              redeem |-> StartRedeem(m),
              redeemPublic |-> "redeem", adaptor |-> {}, published |-> FALSE,
              refundKey |-> "refund", claim |-> {}]
    IN  [s EXCEPT !.lock = SignLockSlate(s), !.refund = SignRefundSlate(s)]

\* elapsed: the blocks since the offer was made.
AcceptSwapOffer(m, elapsed) ==
    /\ swap.buyer = NoSwap
    /\ m.type = "Offer"
    /\ m.lock.lock = 0                           \* else InvalidLockHeightLockTx
    /\ m.refund.lock >= elapsed + MinRefund      \* else InvalidLockHeightRefundTx
    /\ Saves("buyer", Accepting(m))
    /\ UNCHANGED <<msgs, lock, redeem, paid, faults>>

-----------------------------------------------------------------------------
(* Operations of several calls, six at most.  Can(k, s) says whether call k  *)
(* succeeds on an object s, and Do(k, s) is the object after it;             *)
(* After(.., n, s) holds the object after the first n calls, if they succeed. *)
After(Can(_, _), Do(_, _), n, s) ==
    LET Call(k, S) == {Do(k, x) : x \in {y \in S : Can(k, y)}}
        S1 == Call(1, {s})
        S2 == Call(2, S1)
        S3 == Call(3, S2)
        S4 == Call(4, S3)
        S5 == Call(5, S4)
        S6 == Call(6, S5)
    IN  CASE n = 0 -> {s} [] n = 1 -> S1 [] n = 2 -> S2 [] n = 3 -> S3
          [] n = 4 -> S4 [] n = 5 -> S5 [] n = 6 -> S6

(* The operation ends with all n calls made and the object stored, or with  *)
(* an error from call k + 1: a fault, or what the code itself refuses.       *)
Perform(p, Can(_, _), Do(_, _), n) ==
    \/ /\ \E x \in After(Can, Do, n, swap[p]) : Saves(p, x)
       /\ UNCHANGED faults
    \/ \E k \in 0 .. n - 1 : \E x \in After(Can, Do, k, swap[p]) :
       /\ swap' = [swap EXCEPT ![p] = x]
       /\ \/ faults < MaxFaults /\ faults' = faults + 1
          \/ ~Can(k + 1, x) /\ UNCHANGED faults
       /\ UNCHANGED disk

(* seller_accepted_offer: 1 and 2 finish the multisig output, 3 and 4 the    *)
(* lock slate, 5 and 6 the refund slate.                                     *)
CanAccepted(k, s, m) ==
    CASE k = 1 -> M!CanImport(s.ms, 2, m.ms)
      [] k = 2 -> M!CanRound2(s.ms) /\ M!CanFinalize(M!Round2(s.ms))
      [] k = 3 -> Len(s.lock.parts) <= 1          \* else OneShot
      [] k = 4 -> VerifyPartSigs(s.lock)
                  /\ CanFinalize(FillRound2(s.lock, 1, "lock1", SellerLockKey(s)))
      [] k = 5 -> Len(s.refund.parts) <= 1        \* else OneShot
      [] k = 6 -> VerifyPartSigs(s.refund)
                  /\ CanFinalize(FillRound2(s.refund, 1, "refund1", SellerRefundKey(s)))

ImportBuyer(b, part) ==
    LET a == M!Round2Participant(M!Round1Participant(M!Import(b, 2, part), 2, part),
                                 2, part)
    IN  [a EXCEPT !.nonce = M!Commits(a)]

DoAccepted(k, s, m) ==
    CASE k = 1 -> [s EXCEPT !.ms = ImportBuyer(@, m.ms)]
      [] k = 2 -> [s EXCEPT !.ms = M!Round2(@)]
      [] k = 3 -> [s EXCEPT !.lock = AddOutput(AddPart(@, m.lock), MsCommit(s), TRUE)]
      [] k = 4 -> [s EXCEPT !.lock =
                     Finalize(FillRound2(@, 1, "lock1", SellerLockKey(s)))]
      [] k = 5 -> [s EXCEPT !.refund = AddInput(AddPart(@, m.refund), MsCommit(s))]
      [] k = 6 -> [s EXCEPT !.refund =
                     Finalize(FillRound2(@, 1, "refund1", SellerRefundKey(s))),
                            !.redeemPublic = m.redeemPublic,
                            !.refundKey = m.refundKey, !.status = "Accepted"]

\* Mutant of AcceptedOffer: the swap counts as accepted once the lock slate is
\* final.
AcceptedOfferEarly(m) ==
    /\ swap.seller.status = "Offered" /\ m.type = "AcceptOffer"
    /\ Perform("seller", LAMBDA k, s : CanAccepted(k, s, m),
                         LAMBDA k, s : [DoAccepted(k, s, m) EXCEPT !.status =
                                          IF k >= 4 THEN "Accepted" ELSE @], 6)
    /\ UNCHANGED <<msgs, lock, redeem, paid>>

AcceptedOffer(m) ==
    /\ swap.seller.status = "Offered" /\ m.type = "AcceptOffer"
    /\ Perform("seller", LAMBDA k, s : CanAccepted(k, s, m),
                         LAMBDA k, s : DoAccepted(k, s, m), 6)
    /\ UNCHANGED <<msgs, lock, redeem, paid>>

(* buyer_check_locks, the money being there: the status, then init_redeem:   *)
(* 2 and 3 build the redeem slate, 4 is the adaptor signature.               *)
RedeemSlate(s, offset) ==
    AddInput([s.redeem EXCEPT !.fee = SpendFee, !.offset = Key("redeemOffset", offset),
                              !.outs = @ \cup {Output(Commit("output", AfterFee(s)), TRUE)}],
             MsCommit(s))

CanInitRedeem(k, s) ==
    CASE k = 2 -> Len(s.redeem.parts) <= 1        \* else OneShot
      [] k = 4 -> s.adaptor = {}                  \* else OneShot
      [] OTHER -> TRUE

DoInitRedeem(k, s, offset) ==
    CASE k = 1 -> [s EXCEPT !.status = "Locked"]
      [] k = 2 -> [s EXCEPT !.redeem = RedeemSlate(s, offset)]
      [] k = 3 -> [s EXCEPT !.redeem = FillRound1(@, "redeem2", BuyerRedeemKey(s))]
      [] k = 4 -> [s EXCEPT !.adaptor =
                     {Signature("redeem2", BuyerRedeemKey(s), Challenge(s.redeem), "redeem")}]

\* Mutant of LockedOnGrin: the Grin node is not asked.
LockedOnGrinUnasked(s) == TRUE

\* The output that the Grin is locked in, as this party knows it, is there.
LockedOnGrin(s) == \E tx \in lock : MsCommit(s) \in Commits(tx)

(* The script of the deposit: the refund path, and the two keys of the       *)
(* redeem path in their order.                                               *)
Script(s) == [refund |-> s.refundKey, keys |-> <<"cosign", s.redeemPublic>>]

BuyerLocked(offset) ==
    /\ swap.buyer.status = "Accepted"
    /\ Script(swap.buyer) \in paid
    /\ LockedOnGrin(swap.buyer)
    /\ Perform("buyer", CanInitRedeem, LAMBDA k, s : DoInitRedeem(k, s, offset), 4)
    /\ UNCHANGED <<msgs, lock, redeem, paid>>

(* seller_init_redeem: take the slate, compute its excess and check the      *)
(* adaptor signature against it, sign.                                       *)
\* Mutant of TakeRedeem: the kernel of the slate is left as the Buyer sent it.
TakeRedeemKernel(s, m) == [s EXCEPT !.redeem = m.slate, !.adaptor = m.adaptor]

TakeRedeem(s, m) ==
    [s EXCEPT !.redeem = [m.slate EXCEPT !.excess = Excess(m.slate)],
              !.adaptor = m.adaptor]

AdaptorValid(s) ==
    s.adaptor = {Signature(s.redeem.parts[2].nonce, s.redeem.parts[2].excess,
                           [Challenge(s.redeem) EXCEPT !.excess = Excess(s.redeem)],
                           s.redeemPublic)}

CanSignRedeem(k, s) ==
    CASE k = 2 -> AdaptorValid(s)                 \* else InvalidAdaptorSignature
               /\ s.redeem.parts[1].sig = {}      \* else OneShot
               /\ VerifyPartSigs(s.redeem)
      [] OTHER -> TRUE

DoSignRedeem(k, s, m) ==
    CASE k = 1 -> TakeRedeem(s, m)
      [] k = 2 -> [s EXCEPT !.redeem = FillRound2(@, 1, "redeem1", SellerRedeemKey),
                            !.status = "InitRedeem"]

SellerInitRedeem(m) ==
    /\ swap.seller.status = "Locked" /\ m.type = "InitRedeem"
    /\ Perform("seller", CanSignRedeem, LAMBDA k, s : DoSignRedeem(k, s, m), 2)
    /\ UNCHANGED <<msgs, lock, redeem, paid>>

(* buyer_redeem: take the Seller's signature, sign, finalize.                *)
CanFinalizeRedeem(k, s) ==
    CASE k = 1 -> s.redeem.parts[2].sig = {}      \* else OneShot
      [] k = 2 -> VerifyPartSigs(s.redeem)
      [] k = 3 -> CanFinalize(s.redeem)

DoFinalizeRedeem(k, s, m) ==
    CASE k = 1 -> [s EXCEPT !.redeem.parts[1] = m.part]
      [] k = 2 -> [s EXCEPT !.redeem = FillRound2(@, 2, "redeem2", BuyerRedeemKey(s))]
      [] k = 3 -> [s EXCEPT !.redeem = Finalize(@), !.status = "Redeem"]

BuyerRedeem(m) ==
    /\ swap.buyer.status = "InitRedeem" /\ m.type = "Redeem"
    /\ Perform("buyer", CanFinalizeRedeem, LAMBDA k, s : DoFinalizeRedeem(k, s, m), 3)
    /\ UNCHANGED <<msgs, lock, redeem, paid>>

-----------------------------------------------------------------------------
(* message and message_sent                                                  *)
Offer(s) == [type |-> "Offer", primary |-> s.primary, ms |-> s.ms.parts[1],
             lock |-> s.lock, refund |-> s.refund, part |-> s.redeem.parts[1]]
AcceptOffer(s) ==
    [type |-> "AcceptOffer", ms |-> s.ms.parts[2], lock |-> s.lock.parts[2],
     refund |-> s.refund.parts[2], redeemPublic |-> s.redeemPublic,
     refundKey |-> s.refundKey]
InitRedeem(s) == [type |-> "InitRedeem", slate |-> s.redeem, adaptor |-> s.adaptor]
Redeem(s) == [type |-> "Redeem", part |-> s.redeem.parts[1]]

Send(p, from, m, to) ==
    /\ swap[p].status = from
    /\ msgs' = msgs \cup {m}
    /\ Saves(p, [swap[p] EXCEPT !.status = to])
    /\ UNCHANGED <<lock, redeem, paid, faults>>

SendOffer == Send("seller", "Created", Offer(swap.seller), "Offered")
SendAcceptOffer == Send("buyer", "Offered", AcceptOffer(swap.buyer), "Accepted")
SendInitRedeem ==
    /\ swap.buyer.status = "Locked"
    /\ swap.buyer.adaptor # {}                    \* else UnexpectedAction
    /\ Send("buyer", "Locked", InitRedeem(swap.buyer), "InitRedeem")
SendRedeem == Send("seller", "InitRedeem", Redeem(swap.seller), "Redeem")

-----------------------------------------------------------------------------
(* The chains *)

PublishLock ==
    /\ swap.seller.status = "Accepted" /\ ~swap.seller.published
    /\ lock' = {swap.seller.lock}
    /\ Saves("seller", [swap.seller EXCEPT !.published = TRUE])
    /\ UNCHANGED <<msgs, redeem, paid, faults>>

\* DepositSecondary: the user pays to the address the Buyer's object gives.
Deposit ==
    /\ swap.buyer.status = "Accepted"
    /\ paid = {}
    /\ paid' = {Script(swap.buyer)}
    /\ UNCHANGED <<swap, disk, msgs, lock, redeem, faults>>

SellerLocked ==
    /\ swap.seller.status = "Accepted" /\ swap.seller.published
    /\ LockedOnGrin(swap.seller)
    /\ Script(swap.seller) \in paid
    /\ Saves("seller", [swap.seller EXCEPT !.status = "Locked"])
    /\ UNCHANGED <<msgs, lock, redeem, paid, faults>>

\* The Grin node takes a transaction whose input is there.
PublishRedeem ==
    /\ swap.buyer.status = "Redeem" /\ ~swap.buyer.published
    /\ \E tx \in lock : swap.buyer.redeem.ins \subseteq Commits(tx)
    /\ redeem' = {swap.buyer.redeem}
    /\ Saves("buyer", [swap.buyer EXCEPT !.published = TRUE])
    /\ UNCHANGED <<msgs, lock, paid, faults>>

(* find_redeem_kernel and calculate_redeem_secret: the adaptor signature and *)
(* the Seller's, less the one on the chain, is the secret if all three       *)
(* answer one challenge with one nonce each.                                 *)
FindKernel(s) == {tx \in redeem : tx.excess = s.redeem.excess}

RedeemSecret(s, tx) ==
    LET own == s.redeem.parts[1].sig
        Left == {[a EXCEPT !.extra = ""] : a \in s.adaptor} \cup own
    IN  IF tx.sig = Left THEN {a.extra : a \in s.adaptor} ELSE {}

\* Mutant of ScriptSig: the signatures are put in the other order.
ScriptSigSwapped(s, secret) == [script |-> Script(s), sigs |-> <<secret, "cosign">>]

\* redeem_script_sig: the signatures of the two keys, and the script.
ScriptSig(s, secret) == [script |-> Script(s), sigs |-> <<"cosign", secret>>]

BuildRedeemTx ==
    /\ swap.seller.status = "Redeem"
    /\ \E tx \in FindKernel(swap.seller) :
         \E secret \in RedeemSecret(swap.seller, tx) :
            /\ secret = swap.seller.redeemPublic
            /\ Saves("seller", [swap.seller EXCEPT !.status = "RedeemSecondary",
                                                   !.claim = {ScriptSig(swap.seller, secret)}])
    /\ UNCHANGED <<msgs, lock, redeem, paid, faults>>

\* The caller drops an object and continues from the stored one.
Reload(p) ==
    /\ swap[p] # disk[p]
    /\ swap' = [swap EXCEPT ![p] = disk[p]]
    /\ UNCHANGED <<disk, msgs, lock, redeem, paid, faults>>

-----------------------------------------------------------------------------
Receive(m) ==
    \/ \E elapsed \in 0 .. RefundDelta : AcceptSwapOffer(m, elapsed)
    \/ AcceptedOffer(m)
    \/ SellerInitRedeem(m)
    \/ BuyerRedeem(m)

Sends == SendOffer \/ SendAcceptOffer \/ SendInitRedeem \/ SendRedeem
OnChain == PublishLock \/ Deposit \/ SellerLocked \/ PublishRedeem \/ BuildRedeemTx
Locking == \E offset \in Offsets : BuyerLocked(offset)

Next ==
    \/ \E primary, input \in 0 .. Word - 1 : CreateSwapOffer(primary, input)
    \/ \E m \in msgs : Receive(m)
    \/ Sends \/ OnChain \/ Locking
    \/ \E p \in Party : Reload(p)

Spec == Init /\ [][Next]_vars

(* The two callers act: they send what is to be sent, ask for the required   *)
(* action, take what has arrived, and in the end drop an object that an      *)
(* error has left half done.                                                 *)
Fairness ==
    /\ WF_vars(Sends) /\ WF_vars(PublishLock) /\ WF_vars(Deposit)
    /\ WF_vars(SellerLocked) /\ WF_vars(PublishRedeem) /\ WF_vars(BuildRedeemTx)
    /\ WF_vars(Locking)
    /\ WF_vars(\E m \in msgs : Receive(m))
    /\ \A p \in Party : WF_vars(Reload(p))

FairSpec == Spec /\ Fairness

-----------------------------------------------------------------------------
TypeOK ==
    /\ \A p \in Party : \A s \in {swap[p], disk[p]} :
         s # NoSwap =>
            /\ s.ms \in M!Builder
            /\ Len(s.lock.parts) \in 1 .. 2 /\ Len(s.refund.parts) \in 1 .. 2
            /\ Len(s.redeem.parts) \in 1 .. 2
    /\ faults \in 0 .. MaxFaults

(* Once the Grin is locked its owner can take it back alone: the Seller has, *)
(* in memory and stored, a final refund transaction for that output, whose   *)
(* amount has not wrapped below zero (accepted_offer, refund_amount).        *)
LockIsRefundable ==
    \A tx \in lock : \A s \in {swap.seller, disk.seller} :
        /\ s.refund.sig # {}
        /\ s.refund.ins # {} /\ s.refund.ins \subseteq Commits(tx)
        /\ Value(s.refund.ins) = Value(Commits(s.refund)) + s.refund.fee

(* Publishing the redeem transaction tells the Seller the secret: it finds   *)
(* that kernel, and its own signature and the adaptor signature are over     *)
(* what was signed there (redeem_excess, calculate_redeem_secret).           *)
SellerLearnsSecret ==
    \A tx \in redeem :
        /\ swap.seller.status \in {"Redeem", "RedeemSecondary"}
        /\ tx \in FindKernel(swap.seller)
        /\ RedeemSecret(swap.seller, tx) = {swap.seller.redeemPublic}

(* What the Seller builds to claim the deposit opens the script that was     *)
(* paid to (script, redeem_script_sig).                                      *)
ClaimOpensDeposit ==
    \A s \in {swap.seller, disk.seller} : s # NoSwap =>
        \A c \in s.claim : c.script \in paid /\ c.sigs = c.script.keys

(* An offer the Seller can pay for leads to a claim of the deposit, although *)
(* calls fail on the way and leave objects half done; what one party         *)
(* computes, the other's checks accept.                                      *)
Payable == /\ swap.seller # NoSwap
           /\ swap.seller.primary >= SpendFee
           /\ swap.seller.primary + LockFee < Word
SwapCompletes == Payable ~> (swap.seller # NoSwap /\ swap.seller.status = "RedeemSecondary")
=============================================================================
