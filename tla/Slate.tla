-------------------------------- MODULE Slate --------------------------------
(***************************************************************************)
(* The transactions that the two parties of a swap build together: the     *)
(* Slate of grin_wallet_libwallet, a library, as swap/seller.rs and        *)
(* swap/buyer.rs use it.  Secrets are symbolic: a blinding factor is an    *)
(* integer combination of named keys, a public key is the combination that *)
(* it is the key of, and a commitment is a combination and a value.        *)
(***************************************************************************)
EXTENDS Integers, Sequences, FiniteSetsExt

CONSTANT Offsets    \* what the random offset of a redeem slate can be

ASSUME OffsetsAssumption == Offsets \subseteq Nat /\ Offsets # {}

Keys == ({"input", "change", "refund", "output", "lockOffset", "refundOffset"} \X {0})
            \cup ({"ms"} \X {1, 2}) \cup ({"redeemOffset"} \X Offsets)
Blind == [Keys -> Int]

Zero == [k \in Keys |-> 0]
Key(name, i) == [k \in Keys |-> IF k = <<name, i>> THEN 1 ELSE 0]
u \oplus v == [k \in Keys |-> u[k] + v[k]]
u \ominus v == [k \in Keys |-> u[k] - v[k]]

Total(commits) == [k \in Keys |-> MapThenSumSet(LAMBDA c : c.blind[k], commits)]
Value(commits) == MapThenSumSet(LAMBDA c : c.value, commits)

-----------------------------------------------------------------------------
(* parts: the participants' public nonces, excesses and partial signatures.  *)
(* excess and sig are those of the one kernel.                               *)
BlankSlate == [fee |-> 0, lock |-> 0, ins |-> {}, outs |-> {}, offset |-> Zero,
               parts |-> <<>>, excess |-> Zero, sig |-> {}]

\* An output is a commitment with its range proof, valid or not.
Output(c, proof) == [commit |-> c, proof |-> proof]
Commits(slate) == {o.commit : o \in slate.outs}

Part(nonce, key) == [nonce |-> nonce, excess |-> key, sig |-> {}]

\* What the challenge of a signature is the hash of.
Challenge(slate) ==
    [nonces |-> {slate.parts[i].nonce : i \in DOMAIN slate.parts},
     excess |-> [k \in Keys |->
                   SumFunction([i \in DOMAIN slate.parts |-> slate.parts[i].excess[k]])],
     fee |-> slate.fee, lock |-> slate.lock]

\* A signature by a key and a nonce, with extra added to its scalar.
Signature(nonce, key, challenge, extra) ==
    [nonce |-> nonce, key |-> key, challenge |-> challenge, extra |-> extra]

AddPart(slate, part) == [slate EXCEPT !.parts = Append(@, part)]

FillRound1(slate, nonce, key) == AddPart(slate, Part(nonce, key))

VerifyPartSigs(slate) ==
    \A i \in DOMAIN slate.parts :
        slate.parts[i].sig \subseteq
            {Signature(slate.parts[i].nonce, slate.parts[i].excess, Challenge(slate), "")}

FillRound2(slate, i, nonce, key) ==
    [slate EXCEPT !.parts[i].sig = {Signature(nonce, key, Challenge(slate), "")}]

\* What the outputs are worth beyond the inputs, less the offset.
Excess(slate) == Total(Commits(slate)) \ominus Total(slate.ins) \ominus slate.offset

\* finalize adds the signatures up and validates the transaction.
CanFinalize(slate) ==
    /\ VerifyPartSigs(slate)
    /\ \A i \in DOMAIN slate.parts : slate.parts[i].sig # {}
    /\ Challenge(slate).excess = Excess(slate)
    /\ Value(slate.ins) = Value(Commits(slate)) + slate.fee
    /\ \A o \in slate.outs : o.proof
Finalize(slate) ==
    [slate EXCEPT !.excess = Excess(slate),
                  !.sig = UNION {slate.parts[i].sig : i \in DOMAIN slate.parts}]
=============================================================================
