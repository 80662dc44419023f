-------------------------- MODULE SwapSlatesProofs --------------------------
(***************************************************************************)
(* What is proved of SwapSlates, for amounts of any width, any fees,       *)
(* refund delays and offsets, and any number of failing calls.  No sum is  *)
(* ever computed: that two transactions have one excess, or two signatures *)
(* one challenge, follows from their having the same parts.                *)
(*                                                                         *)
(* First what the helpers keep, then that every operation keeps IInv, the  *)
(* four invariants that follow from it, and last, with Order, that the     *)
(* operations are the steps of an AtomicSwap.                              *)
(***************************************************************************)
EXTENDS SwapSlatesRefines, SequenceTheorems, TLAPS

-----------------------------------------------------------------------------
(* Shapes.  A record is what its fields are; parts are one or two.           *)
IsPart(p) == p = [nonce |-> p.nonce, excess |-> p.excess, sig |-> p.sig]
One(parts) == parts = <<parts[1]>> /\ IsPart(parts[1])
Two(parts) == parts = <<parts[1], parts[2]>> /\ IsPart(parts[1]) /\ IsPart(parts[2])

IsSlate(t) ==
    /\ t = [fee |-> t.fee, lock |-> t.lock, ins |-> t.ins, outs |-> t.outs,
            offset |-> t.offset, parts |-> t.parts, excess |-> t.excess, sig |-> t.sig]
    /\ One(t.parts) \/ Two(t.parts)

IsSwap(s) ==
    /\ s = [status |-> s.status, primary |-> s.primary, ms |-> s.ms,
            lock |-> s.lock, refund |-> s.refund, redeem |-> s.redeem,
            redeemPublic |-> s.redeemPublic, adaptor |-> s.adaptor,
            published |-> s.published, refundKey |-> s.refundKey, claim |-> s.claim]
    /\ s.ms \in M!Builder
    /\ IsSlate(s.lock) /\ IsSlate(s.refund) /\ IsSlate(s.redeem)

IsMessage(m) ==
    /\ m.type \in {"Offer", "AcceptOffer", "InitRedeem", "Redeem"}
    /\ m.type = "Offer" =>
          /\ m.ms \in M!ParticipantData /\ IsPart(m.part)
          /\ IsSlate(m.lock) /\ One(m.lock.parts)
          /\ IsSlate(m.refund) /\ One(m.refund.parts)
    /\ m.type = "AcceptOffer" =>
          m.ms \in M!ParticipantData /\ IsPart(m.lock) /\ IsPart(m.refund)
    /\ m.type = "InitRedeem" => IsSlate(m.slate) /\ Two(m.slate.parts)
    /\ m.type = "Redeem" => IsPart(m.part)

\* The same transaction, so far as it is signed: signatures may differ.
Same(t, u) ==
    /\ t.fee = u.fee /\ t.lock = u.lock /\ t.offset = u.offset
    /\ t.ins = u.ins /\ t.outs = u.outs
    /\ Two(t.parts) /\ Two(u.parts)
    /\ \A i \in 1 .. 2 : /\ t.parts[i].nonce = u.parts[i].nonce
                         /\ t.parts[i].excess = u.parts[i].excess

-----------------------------------------------------------------------------
(* The invariant: facts about an object of the Seller, an object of the      *)
(* Buyer, a message, a transaction, and about any two of them.               *)
Final == {"Accepted", "Locked", "InitRedeem", "Redeem", "RedeemSecondary"}
Signed == {"InitRedeem", "Redeem", "RedeemSecondary"}
Done == {"Redeem", "RedeemSecondary"}
Asking == {"InitRedeem", "Redeem"}

Refundable(s) ==
    /\ s.refund.sig # {}
    /\ s.refund.ins # {} /\ s.refund.ins \subseteq Commits(s.lock)
    /\ Value(s.refund.ins) = Value(Commits(s.refund)) + s.refund.fee

IsSeller(s) ==
    /\ IsSwap(s)
    /\ s.status \in {"Created", "Offered"} \cup Final
    /\ Len(s.ms.parts) >= 1
    /\ s.status = "Created" => One(s.lock.parts) /\ One(s.refund.parts)
    /\ s.status \in {"Created", "Offered"} /\ Len(s.ms.parts) < 2 => s.refund.ins = {}
    /\ s.status \in Final => Refundable(s)
    /\ \A c \in s.claim : /\ s.status = "RedeemSecondary"
                          /\ c.script = Script(s)
                          /\ c.sigs = <<"cosign", s.redeemPublic>>

BuyerSig(s, extra) == Signature("redeem2", BuyerRedeemKey(s), Challenge(s.redeem), extra)

IsBuyer(s) ==
    /\ IsSwap(s)
    /\ s.status \in {"Offered", "Accepted", "Locked", "InitRedeem", "Redeem"}
    /\ Len(s.ms.parts) = 2 /\ Two(s.lock.parts) /\ Two(s.refund.parts)
    /\ s.adaptor # {} => /\ s.status \in {"Locked"} \cup Asking
                         /\ Two(s.redeem.parts)
                         /\ s.adaptor = {BuyerSig(s, "redeem")}
    /\ s.status \in Asking => s.adaptor # {}

\* What has been asked for is what the Buyer has.
Asked(m, e) ==
    m.type = "InitRedeem" =>
        e.status \in Asking /\ Same(m.slate, e.redeem) /\ m.adaptor = e.adaptor

\* The Seller's answer is what the Seller has signed.
Answered(m, s) ==
    m.type = "Redeem" => s.status \in Done /\ m.part = s.redeem.parts[1]

\* What the Seller has signed is what the Buyer asked for.
Agreed(s, e) ==
    s.status \in Signed =>
        /\ e.status \in Asking
        /\ Same(s.redeem, e.redeem) /\ s.adaptor = e.adaptor
        /\ s.redeem.excess = Excess(s.redeem)
        /\ s.redeemPublic = "redeem"

\* What the Buyer makes final has the two signatures.
Finished(s, e) ==
    e.status = "Redeem" =>
        /\ s.status \in Done
        /\ e.redeem.parts[1] = s.redeem.parts[1]
        /\ e.redeem.excess = Excess(e.redeem)
        /\ e.redeem.sig = s.redeem.parts[1].sig \cup {BuyerSig(e, "")}

Paid(s, scripts) == s.status \in {"Locked"} \cup Signed => Script(s) \in scripts
Locks(tx, s) == s.status \in Final /\ tx = s.lock
Redeems(tx, e) == e.status = "Redeem" /\ tx = e.redeem

Consistent(S, E, G, L, R, scripts) ==
    /\ \A s \in S : s = NoSwap \/ IsSeller(s)
    /\ \A e \in E : e = NoSwap \/ IsBuyer(e)
    /\ \A m \in G : IsMessage(m)
    /\ \A m \in G, e \in E : Asked(m, e)
    /\ \A m \in G, s \in S : Answered(m, s)
    /\ \A s \in S, e \in E : Agreed(s, e) /\ Finished(s, e)
    /\ \A s \in S : Paid(s, scripts)
    /\ \A tx \in L, s \in S : Locks(tx, s)
    /\ \A tx \in R, e \in E : Redeems(tx, e)

(* Each party has two objects, the one in memory and the stored one; every   *)
(* fact holds of both.                                                       *)
IInv ==
    /\ swap = [p \in Party |-> swap[p]] /\ disk = [p \in Party |-> disk[p]]
    /\ faults \in 0 .. MaxFaults
    /\ Consistent({swap.seller, disk.seller}, {swap.buyer, disk.buyer},
                  msgs, lock, redeem, paid)
-----------------------------------------------------------------------------
(* What the operations on slates keep.                                       *)

LEMMA AppendPart ==
    ASSUME NEW parts, One(parts), NEW p, IsPart(p)
    PROVE  /\ Two(Append(parts, p))
           /\ Append(parts, p)[1] = parts[1] /\ Append(parts, p)[2] = p
<1> DEFINE a == parts[1]
           S == {a, p}
           q == Append(parts, p)
<1>1. parts = <<a>> /\ IsPart(a)
  BY DEF One
<1> HIDE DEF a
<1>2. parts \in Seq(S) /\ Len(parts) = 1 /\ p \in S /\ parts[1] = a
  BY <1>1
<1> HIDE DEF S
<1>3. q \in Seq(S) /\ Len(q) = 2 /\ q[1] = a /\ q[2] = p
  <2>1. /\ q \in Seq(S) /\ Len(q) = Len(parts) + 1 /\ q[Len(parts) + 1] = p
        /\ \A i \in 1 .. Len(parts) : q[i] = parts[i]
    BY <1>2, AppendProperties
  <2> HIDE DEF q
  <2>2. QED
    BY <1>2, <2>1
<1> HIDE DEF q
<1>4. q = <<q[1], q[2]>>
  BY <1>3
<1>5. Two(q)
  BY <1>1, <1>3, <1>4 DEF Two
<1>6. QED
  BY <1>3, <1>5 DEF q, a

LEMMA PartAdded ==
    ASSUME NEW t, IsSlate(t), One(t.parts), NEW p, IsPart(p),
           NEW u, u = AddPart(t, p)
    PROVE  /\ IsSlate(u) /\ Two(u.parts)
           /\ u.fee = t.fee /\ u.lock = t.lock /\ u.offset = t.offset
           /\ u.ins = t.ins /\ u.outs = t.outs
           /\ u.parts[1] = t.parts[1] /\ u.parts[2] = p
<1> DEFINE q == Append(t.parts, p)
<1>1. Two(q) /\ q[1] = t.parts[1] /\ q[2] = p
  BY AppendPart
<1>2. u = [t EXCEPT !.parts = q]
  BY DEF AddPart
<1> HIDE DEF q
<1>3. QED
  BY <1>1, <1>2 DEF IsSlate

LEMMA Fill1 ==
    ASSUME NEW t, IsSlate(t), One(t.parts), NEW nonce, NEW key,
           NEW u, u = FillRound1(t, nonce, key)
    PROVE  /\ IsSlate(u) /\ Two(u.parts)
           /\ u.fee = t.fee /\ u.lock = t.lock /\ u.offset = t.offset
           /\ u.ins = t.ins /\ u.outs = t.outs
           /\ u.parts[1] = t.parts[1] /\ u.parts[2] = Part(nonce, key)
<1>1. IsPart(Part(nonce, key))
  BY DEF IsPart, Part
<1>2. QED
  BY <1>1, PartAdded DEF FillRound1

\* u is t with the signatures g in part i.
SignedPart(t, u, i, g) ==
    /\ IsSlate(u)
    /\ One(t.parts) => One(u.parts)
    /\ Two(t.parts) => Two(u.parts)
    /\ u.fee = t.fee /\ u.lock = t.lock /\ u.offset = t.offset
    /\ u.ins = t.ins /\ u.outs = t.outs /\ u.excess = t.excess
    /\ DOMAIN u.parts = DOMAIN t.parts
    /\ \A j \in DOMAIN t.parts : /\ u.parts[j].nonce = t.parts[j].nonce
                                 /\ u.parts[j].excess = t.parts[j].excess
                                 /\ j # i => u.parts[j] = t.parts[j]
    /\ i \in DOMAIN t.parts => u.parts[i].sig = g

LEMMA Fill2 ==
    ASSUME NEW t, IsSlate(t), NEW i, NEW nonce, NEW key
    PROVE  SignedPart(t, FillRound2(t, i, nonce, key), i,
                      {Signature(nonce, key, Challenge(t), "")})
<1> DEFINE u == FillRound2(t, i, nonce, key)
           g == {Signature(nonce, key, Challenge(t), "")}
           q == [t.parts EXCEPT ![i].sig = g]
<1>1. u = [t EXCEPT !.parts = q]
  BY DEF FillRound2
<1> HIDE DEF g
<1>2. /\ One(t.parts) => One(q)
      /\ Two(t.parts) => Two(q)
      /\ DOMAIN q = DOMAIN t.parts
      /\ \A j \in DOMAIN t.parts :
            /\ q[j].nonce = t.parts[j].nonce
            /\ q[j].excess = t.parts[j].excess
            /\ j # i => q[j] = t.parts[j]
      /\ i \in DOMAIN t.parts => q[i].sig = g
  <2>1. CASE One(t.parts)
    BY <2>1 DEF One, Two, IsPart
  <2>2. CASE Two(t.parts)
    BY <2>2 DEF One, Two, IsPart
  <2>3. QED
    BY <2>1, <2>2 DEF IsSlate
<1> HIDE DEF q, u
<1>3. SignedPart(t, u, i, g)
  BY <1>1, <1>2 DEF IsSlate, SignedPart
<1>4. QED
  BY <1>3 DEF g, u

LEMMA MakeFinal ==
    ASSUME NEW t, IsSlate(t), NEW u, u = Finalize(t)
    PROVE  /\ IsSlate(u)
           /\ u.fee = t.fee /\ u.lock = t.lock /\ u.offset = t.offset
           /\ u.ins = t.ins /\ u.outs = t.outs /\ u.parts = t.parts
           /\ u.excess = Excess(t)
           /\ u.sig = UNION {t.parts[i].sig : i \in DOMAIN t.parts}
BY DEF Finalize, IsSlate

LEMMA InputAdded ==
    ASSUME NEW t, IsSlate(t), NEW c, NEW u, u = AddInput(t, c)
    PROVE  /\ IsSlate(u) /\ u.ins = t.ins \cup {c}
           /\ u.fee = t.fee /\ u.lock = t.lock /\ u.offset = t.offset
           /\ u.outs = t.outs /\ u.parts = t.parts
BY DEF AddInput, IsSlate

\* u is t with an output of commitment c.
WithOutput(t, u, c) ==
    IsSlate(u) /\ c \in Commits(u) /\ u.parts = t.parts /\ u.ins = t.ins /\ u.fee = t.fee

LEMMA OutputAdded ==
    ASSUME NEW t, IsSlate(t), NEW c, NEW proof
    PROVE  WithOutput(t, AddOutput(t, c, proof), c)
<1> DEFINE u == AddOutput(t, c, proof)
<1>1. CASE c \in Commits(t)
  BY <1>1 DEF AddOutput, WithOutput
<1>2. CASE c \notin Commits(t)
  <2>1. u = [t EXCEPT !.outs = t.outs \cup {Output(c, proof)}]
    BY <1>2 DEF AddOutput
  <2> HIDE DEF u
  <2>2. /\ IsSlate(u) /\ u.outs = t.outs \cup {Output(c, proof)} /\ u.parts = t.parts
        /\ u.ins = t.ins /\ u.fee = t.fee
    BY <2>1 DEF IsSlate
  <2>3. Output(c, proof).commit = c
    BY DEF Output
  <2>4. WithOutput(t, u, c)
    BY <2>2, <2>3 DEF Commits, WithOutput
  <2>5. QED
    BY <2>4 DEF u
<1>3. QED
  BY <1>1, <1>2

\* What a signature signs depends on nothing that signing changes.
LEMMA SameChallenge ==
    ASSUME NEW t, NEW u, DOMAIN t.parts = DOMAIN u.parts,
           t.fee = u.fee, t.lock = u.lock,
           \A i \in DOMAIN t.parts : /\ t.parts[i].nonce = u.parts[i].nonce
                                     /\ t.parts[i].excess = u.parts[i].excess
    PROVE  Challenge(t) = Challenge(u)
<1>1. {t.parts[i].nonce : i \in DOMAIN t.parts} = {u.parts[i].nonce : i \in DOMAIN u.parts}
  OBVIOUS
<1>2. ASSUME NEW k
      PROVE  SumFunction([i \in DOMAIN t.parts |-> t.parts[i].excess[k]])
               = SumFunction([i \in DOMAIN u.parts |-> u.parts[i].excess[k]])
  <2>1. [i \in DOMAIN t.parts |-> t.parts[i].excess[k]]
          = [i \in DOMAIN u.parts |-> u.parts[i].excess[k]]
    OBVIOUS
  <2>2. QED
    BY <2>1
<1>3. QED
  BY <1>1, <1>2 DEF Challenge

LEMMA SameExcess ==
    ASSUME NEW t, NEW u, t.outs = u.outs, t.ins = u.ins, t.offset = u.offset
    PROVE  Excess(t) = Excess(u) /\ Commits(t) = Commits(u)
<1>1. Commits(t) = Commits(u)
  BY DEF Commits
<1>2. QED
  BY <1>1 DEF Excess

LEMMA SameIsSymmetric ==
    ASSUME NEW t, NEW u, Same(t, u)
    PROVE  Same(u, t) /\ Challenge(t) = Challenge(u) /\ Excess(t) = Excess(u)
<1>1. DOMAIN t.parts = 1 .. 2 /\ DOMAIN u.parts = 1 .. 2
  BY DEF Same, Two
<1>2. QED
  BY <1>1, SameChallenge, SameExcess DEF Same

LEMMA SameIsTransitive ==
    ASSUME NEW t, NEW u, NEW v, Same(t, u), Same(u, v)
    PROVE  Same(t, v)
BY DEF Same
-----------------------------------------------------------------------------
(* The builder of the output that both own.                                  *)

LEMMA DataAppended ==
    ASSUME NEW b \in M!Builder, NEW p \in M!ParticipantData,
           NEW c, c = [b EXCEPT !.parts = Append(@, p)]
    PROVE  c \in M!Builder /\ Len(c.parts) = Len(b.parts) + 1
<1> DEFINE q == Append(b.parts, p)
<1>1. b.parts \in Seq(M!ParticipantData)
  BY DEF M!Builder
<1>2. q \in Seq(M!ParticipantData) /\ Len(q) = Len(b.parts) + 1
  BY <1>1, AppendProperties
<1>3. c = [b EXCEPT !.parts = q]
  OBVIOUS
<1> HIDE DEF q
<1>4. QED
  BY <1>2, <1>3 DEF M!Builder

Put(q, k, x) == [q EXCEPT ![k] = x]

LEMMA ListChanged ==
    ASSUME NEW P, NEW q \in Seq(P), NEW k, NEW x, k \in DOMAIN q => x \in P
    PROVE  Put(q, k, x) \in Seq(P) /\ Len(Put(q, k, x)) = Len(q)
<1>1. DOMAIN q = 1 .. Len(q)
  BY LenProperties
<1>2. CASE k \in DOMAIN q
  BY <1>1, <1>2, ExceptSeq DEF Put
<1>3. CASE k \notin DOMAIN q
  <2>1. Put(q, k, x) = q
    BY <1>3 DEF Put
  <2>2. QED
    BY <2>1
<1>4. QED
  BY <1>2, <1>3

\* What rounds 1 and 2 store of a participant.
PutT(b, k, x) == [b EXCEPT !.parts[k].t = x]
PutTau(b, k, x) == [b EXCEPT !.parts[k].tau = x]

LEMMA DataChanged ==
    ASSUME NEW b \in M!Builder, NEW k
    PROVE  /\ \A x \in M!Option : PutT(b, k, x) \in M!Builder
                                  /\ Len(PutT(b, k, x).parts) = Len(b.parts)
           /\ \A x \in SUBSET M!Context : PutTau(b, k, x) \in M!Builder
                                          /\ Len(PutTau(b, k, x).parts) = Len(b.parts)
<1>1. b.parts \in Seq(M!ParticipantData)
  BY DEF M!Builder
<1>2. k \in DOMAIN b.parts => b.parts[k] \in M!ParticipantData
  BY <1>1, ElementOfSeq, LenProperties
<1>3. ASSUME NEW d, k \in DOMAIN b.parts => d \in M!ParticipantData,
             NEW c, c = [b EXCEPT !.parts = Put(b.parts, k, d)]
      PROVE  c \in M!Builder /\ Len(c.parts) = Len(b.parts)
  <2> DEFINE q == Put(b.parts, k, d)
  <2>1. q \in Seq(M!ParticipantData) /\ Len(q) = Len(b.parts)
    BY <1>1, <1>3, ListChanged
  <2> HIDE DEF q
  <2>2. c = [b EXCEPT !.parts = q]
    BY <1>3 DEF q
  <2>3. QED
    BY <2>1, <2>2 DEF M!Builder
<1>4. ASSUME NEW x \in M!Option
      PROVE  PutT(b, k, x) \in M!Builder /\ Len(PutT(b, k, x).parts) = Len(b.parts)
  <2> DEFINE d == [b.parts[k] EXCEPT !.t = x]
  <2>1. k \in DOMAIN b.parts => d \in M!ParticipantData
    BY <1>2 DEF M!ParticipantData
  <2>2. PutT(b, k, x) = [b EXCEPT !.parts = Put(b.parts, k, d)]
    BY DEF PutT, Put
  <2> HIDE DEF d
  <2>3. QED
    BY <1>3, <2>1, <2>2
<1>5. ASSUME NEW x \in SUBSET M!Context
      PROVE  PutTau(b, k, x) \in M!Builder /\ Len(PutTau(b, k, x).parts) = Len(b.parts)
  <2> DEFINE d == [b.parts[k] EXCEPT !.tau = x]
  <2>1. k \in DOMAIN b.parts => d \in M!ParticipantData
    BY <1>2 DEF M!ParticipantData
  <2>2. PutTau(b, k, x) = [b EXCEPT !.parts = Put(b.parts, k, d)]
    BY DEF PutTau, Put
  <2> HIDE DEF d
  <2>3. QED
    BY <1>3, <2>1, <2>2
<1>6. QED
  BY <1>4, <1>5

LEMMA NonceChanged ==
    ASSUME NEW b \in M!Builder, NEW c, c = [b EXCEPT !.nonce = M!Commits(b)]
    PROVE  c \in M!Builder /\ Len(c.parts) = Len(b.parts)
<1>1. \A k \in 1 .. Len(b.parts) : b.parts[k] \in M!ParticipantData
  BY ElementOfSeq DEF M!Builder
<1>2. M!Commits(b) \subseteq M!Ids
  BY <1>1 DEF M!Commits, M!ParticipantData, M!Option
<1>3. QED
  BY <1>2 DEF M!Builder

LEMMA Rounds ==
    ASSUME NEW b \in M!Builder
    PROVE  /\ M!Round1(b) \in M!Builder /\ Len(M!Round1(b).parts) = Len(b.parts)
           /\ M!Round2(b) \in M!Builder /\ Len(M!Round2(b).parts) = Len(b.parts)
<1>1. \A k \in 1 .. Len(b.parts) : b.parts[k] \in M!ParticipantData
  BY ElementOfSeq DEF M!Builder
<1>2. M!Commits(b) \subseteq M!Ids /\ M!Ts(b) \subseteq M!Ids
  BY <1>1 DEF M!Commits, M!Ts, M!ParticipantData, M!Option
<1>3. M!ContextOf(b) \in M!Context
  BY <1>2 DEF M!ContextOf, M!Context, M!Builder
<1>4. b.id \in M!Option /\ {M!ContextOf(b)} \in SUBSET M!Context
  BY <1>3 DEF M!Builder, M!Option
<1>5. M!Round1(b) \in M!Builder /\ Len(M!Round1(b).parts) = Len(b.parts)
  <2>1. M!Round1(b) = PutT(b, b.id, b.id)
    BY DEF M!Round1, PutT
  <2>2. QED
    BY <1>4, <2>1, DataChanged
<1>6. M!Round2(b) \in M!Builder /\ Len(M!Round2(b).parts) = Len(b.parts)
  <2> DEFINE x == {M!ContextOf(b)}
  <2>1. M!Round2(b) = PutTau(b, b.id, x)
    BY DEF M!Round2, PutTau
  <2> HIDE DEF x
  <2>2. QED
    BY <1>4, <2>1, DataChanged DEF x
<1>7. QED
  BY <1>5, <1>6

LEMMA PartnerRounds ==
    ASSUME NEW b \in M!Builder, NEW k, NEW p \in M!ParticipantData
    PROVE  /\ M!Import(b, k, p) \in M!Builder
           /\ Len(M!Import(b, k, p).parts) = Len(b.parts) + 1
           /\ M!Round1Participant(b, k, p) \in M!Builder
           /\ Len(M!Round1Participant(b, k, p).parts) = Len(b.parts)
           /\ M!Round2Participant(b, k, p) \in M!Builder
           /\ Len(M!Round2Participant(b, k, p).parts) = Len(b.parts)
<1>1. /\ p.hash \in M!Option /\ p.commit \in M!Option /\ p.t \in M!Option
      /\ p.tau \in SUBSET M!Context
  BY DEF M!ParticipantData
<1>2. M!Foreign(b, p) \in M!ParticipantData
  BY <1>1 DEF M!Foreign, M!ParticipantData, M!NoData, M!Option
<1>3. M!Import(b, k, p) = [b EXCEPT !.parts = Append(b.parts, M!Foreign(b, p))]
  BY DEF M!Import
<1>4. M!Import(b, k, p) \in M!Builder /\ Len(M!Import(b, k, p).parts) = Len(b.parts) + 1
  BY <1>2, <1>3, DataAppended
<1>5. /\ M!Round1Participant(b, k, p) = PutT(b, k, p.t)
      /\ M!Round2Participant(b, k, p) = PutTau(b, k, p.tau)
  BY DEF M!Round1Participant, M!Round2Participant, PutT, PutTau
<1>6. /\ M!Round1Participant(b, k, p) \in M!Builder
      /\ Len(M!Round1Participant(b, k, p).parts) = Len(b.parts)
  BY <1>1, <1>5, DataChanged
<1>7. /\ M!Round2Participant(b, k, p) \in M!Builder
      /\ Len(M!Round2Participant(b, k, p).parts) = Len(b.parts)
  BY <1>1, <1>5, DataChanged
<1>8. QED
  BY <1>4, <1>6, <1>7

LEMMA NewBuilders ==
    ASSUME NEW i \in {1, 2}
    PROVE  M!NewBuilder(i, FALSE, {}) \in M!Builder /\ Len(M!NewBuilder(i, FALSE, {}).parts) = 0
BY EmptySeq DEF M!NewBuilder, M!Builder, M!Ids

LEMMA Created ==
    ASSUME NEW b \in M!Builder
    PROVE  M!Create(b) \in M!Builder /\ Len(M!Create(b).parts) = Len(b.parts) + 1
<1>1. b.id \in M!Option
  BY DEF M!Builder, M!Option
<1>2. M!Shown(b) \in M!ParticipantData
  BY <1>1 DEF M!Shown, M!ParticipantData, M!NoData, M!Option
<1>3. QED
  BY <1>2, DataAppended DEF M!Create

LEMMA SellerBuilder ==
    SellerMultisig \in M!Builder /\ Len(SellerMultisig.parts) = 1
<1> DEFINE b == M!NewBuilder(1, FALSE, {})
           c == M!Create(b)
<1>1. b \in M!Builder /\ Len(b.parts) = 0
  BY NewBuilders
<1> HIDE DEF b
<1>2. c \in M!Builder /\ Len(c.parts) = Len(b.parts) + 1
  BY <1>1, Created
<1> HIDE DEF c
<1>3. M!Round1(c) \in M!Builder /\ Len(M!Round1(c).parts) = Len(c.parts)
  BY <1>2, Rounds
<1>4. SellerMultisig = M!Round1(c)
  BY DEF SellerMultisig, b, c
<1>5. QED
  BY <1>1, <1>2, <1>3, <1>4

LEMMA BuyerBuilder ==
    ASSUME NEW p \in M!ParticipantData
    PROVE  BuyerMultisig(p) \in M!Builder /\ Len(BuyerMultisig(p).parts) = 2
<1> DEFINE n == M!NewBuilder(2, FALSE, {})
           i == M!Import(n, 1, p)
           a == M!Create(i)
           r == M!Round1Participant(a, 1, p)
           b == M!Round1(r)
           c == [b EXCEPT !.nonce = M!Commits(b)]
<1>1. n \in M!Builder /\ Len(n.parts) = 0
  BY NewBuilders
<1>2. i \in M!Builder /\ Len(i.parts) = Len(n.parts) + 1
  <2> HIDE DEF n
  <2>1. QED
    BY <1>1, PartnerRounds
<1>3. a \in M!Builder /\ Len(a.parts) = Len(i.parts) + 1
  <2> HIDE DEF i
  <2>1. QED
    BY <1>2, Created
<1>4. r \in M!Builder /\ Len(r.parts) = Len(a.parts)
  <2> HIDE DEF a
  <2>1. QED
    BY <1>3, PartnerRounds
<1>5. b \in M!Builder /\ Len(b.parts) = Len(r.parts)
  <2> HIDE DEF r
  <2>1. QED
    BY <1>4, Rounds
<1>6. c \in M!Builder /\ Len(c.parts) = Len(b.parts)
  <2> HIDE DEF b
  <2>1. QED
    BY <1>5, NonceChanged
<1>7. M!Round2(c) \in M!Builder /\ Len(M!Round2(c).parts) = Len(c.parts)
  <2> HIDE DEF c
  <2>1. QED
    BY <1>6, Rounds
<1>8. M!Round2(c) = BuyerMultisig(p)
  BY DEF BuyerMultisig
<1> HIDE DEF n, i, a, r, b, c
<1>9. QED
  BY <1>1, <1>2, <1>3, <1>4, <1>5, <1>6, <1>7, <1>8

LEMMA SellerImports ==
    ASSUME NEW b \in M!Builder, NEW p \in M!ParticipantData
    PROVE  ImportBuyer(b, p) \in M!Builder /\ Len(ImportBuyer(b, p).parts) = Len(b.parts) + 1
<1> DEFINE i == M!Import(b, 2, p)
           r == M!Round1Participant(i, 2, p)
           a == M!Round2Participant(r, 2, p)
           c == [a EXCEPT !.nonce = M!Commits(a)]
<1>1. i \in M!Builder /\ Len(i.parts) = Len(b.parts) + 1
  BY PartnerRounds
<1>2. r \in M!Builder /\ Len(r.parts) = Len(b.parts) + 1
  <2> HIDE DEF i
  <2>1. QED
    BY <1>1, PartnerRounds
<1>3. a \in M!Builder /\ Len(a.parts) = Len(b.parts) + 1
  <2> HIDE DEF r
  <2>1. QED
    BY <1>2, PartnerRounds
<1>4. c \in M!Builder /\ Len(c.parts) = Len(b.parts) + 1
  <2> HIDE DEF a
  <2>1. QED
    BY <1>3, NonceChanged
<1>5. QED
  BY <1>4 DEF ImportBuyer
-----------------------------------------------------------------------------
(* How the invariant moves from one state to the next: what one party has is *)
(* replaced by an object that fits what the other has, the messages and the  *)
(* chains.                                                                   *)
Here == {swap.seller, disk.seller}
There == {swap.buyer, disk.buyer}

SellerFits(x) ==
    /\ IsSeller(x)
    /\ \A e \in There : Agreed(x, e) /\ Finished(x, e)
    /\ \A m \in msgs : Answered(m, x)
    /\ Paid(x, paid)
    /\ \A tx \in lock : Locks(tx, x)

BuyerFits(x) ==
    /\ IsBuyer(x)
    /\ \A s \in Here : Agreed(s, x) /\ Finished(s, x)
    /\ \A m \in msgs : Asked(m, x)
    /\ \A tx \in redeem : Redeems(tx, x)

\* Saved, or only changed in memory.
Replaces(p, x) ==
    \/ Saves(p, x)
    \/ swap' = [swap EXCEPT ![p] = x] /\ UNCHANGED <<disk, msgs, lock, redeem>>

\* ... by an object with one of these statuses.
Moved(p, T) == \E x : Replaces(p, x) /\ x.status \in T

LEMMA Replaced ==
    ASSUME IInv, NEW p \in Party, NEW x, Replaces(p, x)
    PROVE  /\ swap' = [q \in Party |-> swap'[q]] /\ disk' = [q \in Party |-> disk'[q]]
           /\ swap'[p] = x
           /\ disk'[p] = x \/ (disk'[p] = disk[p] /\ UNCHANGED <<msgs, lock, redeem>>)
           /\ \A q \in Party \ {p} : swap'[q] = swap[q] /\ disk'[q] = disk[q]
<1>1. swap = [q \in Party |-> swap[q]] /\ disk = [q \in Party |-> disk[q]]
  BY DEF IInv
<1>2. swap' = [swap EXCEPT ![p] = x]
  BY DEF Replaces, Saves
<1>3. /\ swap' = [q \in Party |-> swap'[q]] /\ swap'[p] = x
      /\ \A q \in Party \ {p} : swap'[q] = swap[q]
  BY <1>1, <1>2
<1>4. CASE disk' = [disk EXCEPT ![p] = x]
  <2>1. /\ disk' = [q \in Party |-> disk'[q]] /\ disk'[p] = x
        /\ \A q \in Party \ {p} : disk'[q] = disk[q]
    BY <1>1, <1>4
  <2>2. QED
    BY <1>3, <2>1
<1>5. CASE UNCHANGED <<disk, msgs, lock, redeem>>
  BY <1>1, <1>3, <1>5
<1>6. QED
  BY <1>4, <1>5 DEF Replaces, Saves

LEMMA SellerStep ==
    ASSUME IInv, NEW x, SellerFits(x), Replaces("seller", x),
           \A m \in msgs' \ msgs :
              IsMessage(m) /\ Answered(m, x) /\ \A e \in There : Asked(m, e),
           \A tx \in lock' \ lock : Locks(tx, x),
           UNCHANGED <<redeem, paid>>, faults' \in 0 .. MaxFaults
    PROVE  IInv'
<1>1. "seller" \in Party /\ "buyer" \in Party \ {"seller"}
  BY DEF Party
<1>2. /\ swap' = [q \in Party |-> swap'[q]] /\ disk' = [q \in Party |-> disk'[q]]
      /\ swap'.seller = x /\ There' = There
      /\ disk'.seller = x \/ (disk'.seller = disk.seller /\ UNCHANGED <<msgs, lock>>)
  BY <1>1, Replaced DEF There
<1>3. Consistent(Here, There, msgs, lock, redeem, paid)
  BY DEF IInv, Here, There
<1>4. CASE disk'.seller = x
  <2>1. Here' = {x}
    BY <1>2, <1>4 DEF Here
  <2>2. Consistent({x}, There, msgs', lock', redeem, paid)
    BY <1>3 DEF Consistent, SellerFits
  <2>3. Consistent(Here', There', msgs', lock', redeem', paid')
    BY <1>2, <2>1, <2>2
  <2>4. QED
    BY <1>2, <2>3 DEF IInv, Here, There
<1>5. CASE disk'.seller = disk.seller /\ UNCHANGED <<msgs, lock>>
  <2>1. Here' = {x, disk.seller}
    BY <1>2, <1>5 DEF Here
  <2>2. Consistent({x, disk.seller}, There, msgs, lock, redeem, paid)
    BY <1>3 DEF Consistent, SellerFits, Here
  <2>3. Consistent(Here', There', msgs', lock', redeem', paid')
    BY <1>2, <1>5, <2>1, <2>2
  <2>4. QED
    BY <1>2, <2>3 DEF IInv, Here, There
<1>6. QED
  BY <1>2, <1>4, <1>5

LEMMA BuyerStep ==
    ASSUME IInv, NEW x, BuyerFits(x), Replaces("buyer", x),
           \A m \in msgs' \ msgs :
              IsMessage(m) /\ Asked(m, x) /\ \A s \in Here : Answered(m, s),
           \A tx \in redeem' : Redeems(tx, x),
           UNCHANGED <<lock, paid>>, faults' \in 0 .. MaxFaults
    PROVE  IInv'
<1>1. "buyer" \in Party /\ "seller" \in Party \ {"buyer"}
  BY DEF Party
<1>2. /\ swap' = [q \in Party |-> swap'[q]] /\ disk' = [q \in Party |-> disk'[q]]
      /\ swap'.buyer = x /\ Here' = Here
      /\ disk'.buyer = x \/ (disk'.buyer = disk.buyer /\ UNCHANGED <<msgs, redeem>>)
  BY <1>1, Replaced DEF Here
<1>3. Consistent(Here, There, msgs, lock, redeem, paid)
  BY DEF IInv, Here, There
<1>4. CASE disk'.buyer = x
  <2>1. There' = {x}
    BY <1>2, <1>4 DEF There
  <2>2. Consistent(Here, {x}, msgs', lock, redeem', paid)
    BY <1>3 DEF Consistent, BuyerFits
  <2>3. Consistent(Here', There', msgs', lock', redeem', paid')
    BY <1>2, <2>1, <2>2
  <2>4. QED
    BY <1>2, <2>3 DEF IInv, Here, There
<1>5. CASE disk'.buyer = disk.buyer /\ UNCHANGED <<msgs, redeem>>
  <2>1. There' = {x, disk.buyer}
    BY <1>2, <1>5 DEF There
  <2>2. Consistent(Here, {x, disk.buyer}, msgs, lock, redeem, paid)
    BY <1>3 DEF Consistent, BuyerFits, There
  <2>3. Consistent(Here', There', msgs', lock', redeem', paid')
    BY <1>2, <1>5, <2>1, <2>2
  <2>4. QED
    BY <1>2, <2>3 DEF IInv, Here, There
<1>6. QED
  BY <1>2, <1>4, <1>5

\* What the state of the Seller says of the Buyer, the messages and the chain.
LEMMA SellerNow ==
    ASSUME IInv, NEW s, s = swap.seller, s # NoSwap
    PROVE  /\ SellerFits(s) /\ IsSwap(s)
           /\ s.status \notin Done => /\ \A m \in msgs : m.type # "Redeem"
                                      /\ \A e \in There : e.status # "Redeem"
           /\ s.status \notin Final => lock = {}
<1>1. Consistent(Here, There, msgs, lock, redeem, paid) /\ s \in Here
  BY DEF IInv, Here, There
<1>2. SellerFits(s)
  BY <1>1 DEF Consistent, SellerFits
<1>3. QED
  BY <1>2 DEF SellerFits, Answered, Finished, Locks, IsSeller

LEMMA BuyerNow ==
    ASSUME IInv, NEW e, e = swap.buyer, e # NoSwap
    PROVE  /\ BuyerFits(e) /\ IsSwap(e)
           /\ e.status \notin Asking => /\ \A m \in msgs : m.type # "InitRedeem"
                                        /\ \A s \in Here : s.status \notin Signed
           /\ e.status # "Redeem" => redeem = {}
<1>1. Consistent(Here, There, msgs, lock, redeem, paid) /\ e \in There
  BY DEF IInv, Here, There
<1>2. BuyerFits(e)
  BY <1>1 DEF Consistent, BuyerFits
<1>3. QED
  BY <1>2 DEF BuyerFits, Asked, Agreed, Redeems, IsBuyer

LEMMA NoSwapHasNoStatus == NoSwap.status = "None"
BY DEF NoSwap

-----------------------------------------------------------------------------
(* The operations of one call.                                               *)

LEMMA StatusChanged ==
    ASSUME NEW s, IsSwap(s), NEW to, NEW x, x = [s EXCEPT !.status = to]
    PROVE  /\ IsSwap(x) /\ x.status = to /\ x.primary = s.primary /\ x.ms = s.ms
           /\ x.lock = s.lock /\ x.refund = s.refund /\ x.redeem = s.redeem
           /\ x.redeemPublic = s.redeemPublic /\ x.adaptor = s.adaptor
           /\ x.refundKey = s.refundKey /\ x.claim = s.claim
BY DEF IsSwap

LEMMA IsPublished ==
    ASSUME NEW s, IsSwap(s), NEW x, x = [s EXCEPT !.published = TRUE]
    PROVE  /\ IsSwap(x) /\ x.status = s.status /\ x.primary = s.primary /\ x.ms = s.ms
           /\ x.lock = s.lock /\ x.refund = s.refund /\ x.redeem = s.redeem
           /\ x.redeemPublic = s.redeemPublic /\ x.adaptor = s.adaptor
           /\ x.refundKey = s.refundKey /\ x.claim = s.claim
BY DEF IsSwap

Claiming(s, c) == [s EXCEPT !.status = "RedeemSecondary", !.claim = c]

LEMMA ClaimMade ==
    ASSUME NEW s, IsSwap(s), NEW c, NEW x, x = Claiming(s, c)
    PROVE  /\ IsSwap(x) /\ x.status = "RedeemSecondary" /\ x.ms = s.ms
           /\ x.lock = s.lock /\ x.refund = s.refund /\ x.redeem = s.redeem
           /\ x.redeemPublic = s.redeemPublic /\ x.adaptor = s.adaptor
           /\ x.refundKey = s.refundKey /\ x.claim = c
BY DEF IsSwap, Claiming

LEMMA FirstPart ==
    ASSUME NEW t, IsSlate(t)
    PROVE  IsPart(t.parts[1])
BY DEF IsSlate, One, Two

LEMMA SendOfferKeeps == IInv /\ SendOffer => IInv'
<1> SUFFICES ASSUME IInv, SendOffer PROVE IInv'
  OBVIOUS
<1> DEFINE s == swap.seller
           x == [s EXCEPT !.status = "Offered"]
           m == Offer(s)
<1>1. /\ s.status = "Created" /\ msgs' = msgs \cup {m} /\ Saves("seller", x)
      /\ UNCHANGED <<lock, redeem, paid, faults>>
  BY DEF SendOffer, Send
<1>2. s # NoSwap
  BY <1>1, NoSwapHasNoStatus
<1>3. /\ SellerFits(s) /\ IsSwap(s) /\ lock = {}
      /\ \A n \in msgs : n.type # "Redeem"
      /\ \A e \in There : e.status # "Redeem"
  BY <1>1, <1>2, SellerNow DEF Done, Final
<1> HIDE DEF s
<1>4. /\ IsSwap(x) /\ x.status = "Offered" /\ x.ms = s.ms
      /\ x.lock = s.lock /\ x.refund = s.refund /\ x.claim = s.claim
  BY <1>3, StatusChanged
<1> HIDE DEF x
<1>5. IsSeller(s)
  BY <1>3 DEF SellerFits
<1>6. IsSeller(x)
  BY <1>1, <1>4, <1>5 DEF IsSeller, Final
<1>7. SellerFits(x)
  BY <1>3, <1>4, <1>6 DEF SellerFits, Agreed, Finished, Answered, Paid, Signed
<1>8. s.ms.parts[1] \in M!ParticipantData
  <2>1. s.ms.parts \in Seq(M!ParticipantData) /\ Len(s.ms.parts) >= 1
    BY <1>5 DEF IsSeller, IsSwap, M!Builder
  <2>2. 1 \in 1 .. Len(s.ms.parts)
    BY <2>1, LenProperties
  <2>3. QED
    BY <2>1, <2>2, ElementOfSeq
<1>9. /\ m.type = "Offer" /\ m.ms = s.ms.parts[1] /\ m.lock = s.lock
      /\ m.refund = s.refund /\ m.part = s.redeem.parts[1]
  BY DEF Offer
<1> HIDE DEF m
<1>10. IsMessage(m)
  BY <1>1, <1>5, <1>8, <1>9, FirstPart DEF IsMessage, IsSeller, IsSwap
<1>11. Answered(m, x) /\ \A e \in There : Asked(m, e)
  BY <1>9 DEF Answered, Asked
<1>12. faults' \in 0 .. MaxFaults
  BY <1>1 DEF IInv
<1>13. Replaces("seller", x)
  BY <1>1 DEF Replaces
<1>14. QED
  BY <1>1, <1>7, <1>10, <1>11, <1>12, <1>13, SellerStep
LEMMA SendRedeemKeeps == IInv /\ SendRedeem => IInv'
<1> SUFFICES ASSUME IInv, SendRedeem PROVE IInv'
  OBVIOUS
<1> DEFINE s == swap.seller
           x == [s EXCEPT !.status = "Redeem"]
           m == Redeem(s)
<1>1. /\ s.status = "InitRedeem" /\ msgs' = msgs \cup {m} /\ Saves("seller", x)
      /\ UNCHANGED <<lock, redeem, paid, faults>>
  BY DEF SendRedeem, Send
<1>2. s # NoSwap
  BY <1>1, NoSwapHasNoStatus
<1>3. /\ SellerFits(s) /\ IsSwap(s)
      /\ \A n \in msgs : n.type # "Redeem"
      /\ \A e \in There : e.status # "Redeem"
  BY <1>1, <1>2, SellerNow DEF Done
<1> HIDE DEF s
<1>4. /\ IsSwap(x) /\ x.status = "Redeem" /\ x.ms = s.ms /\ x.redeem = s.redeem
      /\ x.lock = s.lock /\ x.refund = s.refund /\ x.claim = s.claim
      /\ x.redeemPublic = s.redeemPublic /\ x.adaptor = s.adaptor
      /\ x.refundKey = s.refundKey
  BY <1>3, StatusChanged
<1> HIDE DEF x
<1>5. IsSeller(s)
  BY <1>3 DEF SellerFits
<1>6. IsSeller(x)
  BY <1>1, <1>4, <1>5 DEF IsSeller, Final, Refundable
<1>7. SellerFits(x)
  BY <1>1, <1>3, <1>4, <1>6
     DEF SellerFits, Agreed, Finished, Answered, Paid, Signed, Locks, Final, Script
<1>8. m.type = "Redeem" /\ m.part = s.redeem.parts[1]
  BY DEF Redeem
<1> HIDE DEF m
<1>9. IsMessage(m)
  BY <1>5, <1>8, FirstPart DEF IsMessage, IsSeller, IsSwap
<1>10. Answered(m, x) /\ \A e \in There : Asked(m, e)
  BY <1>4, <1>8 DEF Answered, Asked, Done
<1>11. faults' \in 0 .. MaxFaults /\ Replaces("seller", x)
  BY <1>1 DEF IInv, Replaces
<1>12. QED
  BY <1>1, <1>7, <1>9, <1>10, <1>11, SellerStep

LEMMA SellerLockedKeeps == IInv /\ SellerLocked => IInv'
<1> SUFFICES ASSUME IInv, SellerLocked PROVE IInv'
  OBVIOUS
<1> DEFINE s == swap.seller
           x == [s EXCEPT !.status = "Locked"]
<1>1. /\ s.status = "Accepted" /\ Script(s) \in paid /\ Saves("seller", x)
      /\ UNCHANGED <<msgs, lock, redeem, paid, faults>>
  BY DEF SellerLocked
<1>2. s # NoSwap
  BY <1>1, NoSwapHasNoStatus
<1>3. /\ SellerFits(s) /\ IsSwap(s)
      /\ \A n \in msgs : n.type # "Redeem"
      /\ \A e \in There : e.status # "Redeem"
  BY <1>1, <1>2, SellerNow DEF Done
<1> HIDE DEF s
<1>4. /\ IsSwap(x) /\ x.status = "Locked" /\ x.ms = s.ms
      /\ x.lock = s.lock /\ x.refund = s.refund /\ x.claim = s.claim
      /\ x.redeemPublic = s.redeemPublic /\ x.refundKey = s.refundKey
  BY <1>3, StatusChanged
<1> HIDE DEF x
<1>5. IsSeller(s)
  BY <1>3 DEF SellerFits
<1>6. IsSeller(x)
  BY <1>1, <1>4, <1>5 DEF IsSeller, Final, Refundable
<1>7. SellerFits(x)
  BY <1>1, <1>3, <1>4, <1>6
     DEF SellerFits, Agreed, Finished, Answered, Paid, Signed, Locks, Final, Script
<1>8. faults' \in 0 .. MaxFaults /\ Replaces("seller", x)
  BY <1>1 DEF IInv, Replaces
<1>9. QED
  BY <1>1, <1>7, <1>8, SellerStep

LEMMA PublishLockKeeps == IInv /\ PublishLock => IInv'
<1> SUFFICES ASSUME IInv, PublishLock PROVE IInv'
  OBVIOUS
<1> DEFINE s == swap.seller
           x == [s EXCEPT !.published = TRUE]
<1>1. /\ s.status = "Accepted" /\ lock' = {s.lock} /\ Saves("seller", x)
      /\ UNCHANGED <<msgs, redeem, paid, faults>>
  BY DEF PublishLock
<1>2. s # NoSwap
  BY <1>1, NoSwapHasNoStatus
<1>3. SellerFits(s) /\ IsSwap(s)
  BY <1>2, SellerNow
<1> HIDE DEF s
<1>4. /\ IsSwap(x) /\ x.status = "Accepted" /\ x.ms = s.ms
      /\ x.lock = s.lock /\ x.refund = s.refund /\ x.claim = s.claim
      /\ x.redeem = s.redeem
  BY <1>1, <1>3, IsPublished
<1> HIDE DEF x
<1>5. IsSeller(s)
  BY <1>3 DEF SellerFits
<1>6. IsSeller(x)
  BY <1>1, <1>4, <1>5 DEF IsSeller, Final, Refundable
<1>7. SellerFits(x) /\ \A tx \in lock' : Locks(tx, x)
  BY <1>1, <1>3, <1>4, <1>6
     DEF SellerFits, Agreed, Finished, Answered, Paid, Signed, Locks, Final, Done
<1>8. faults' \in 0 .. MaxFaults /\ Replaces("seller", x)
  BY <1>1 DEF IInv, Replaces
<1>9. QED
  BY <1>1, <1>7, <1>8, SellerStep

LEMMA BuildRedeemTxKeeps == IInv /\ BuildRedeemTx => IInv'
<1> SUFFICES ASSUME IInv, BuildRedeemTx PROVE IInv'
  OBVIOUS
<1> DEFINE s == swap.seller
           claim == ScriptSig(s, s.redeemPublic)
           x == [s EXCEPT !.status = "RedeemSecondary", !.claim = {claim}]
<1>1. /\ s.status = "Redeem" /\ Saves("seller", x)
      /\ UNCHANGED <<msgs, lock, redeem, paid, faults>>
  BY DEF BuildRedeemTx
<1>2. s # NoSwap
  BY <1>1, NoSwapHasNoStatus
<1>3. SellerFits(s) /\ IsSwap(s)
  BY <1>2, SellerNow
<1>4. claim.script = Script(s) /\ claim.sigs = <<"cosign", s.redeemPublic>>
  BY DEF ScriptSig
<1> HIDE DEF s, claim
<1>5. /\ IsSwap(x) /\ x.status = "RedeemSecondary" /\ x.ms = s.ms /\ x.redeem = s.redeem
      /\ x.lock = s.lock /\ x.refund = s.refund /\ x.claim = {claim}
      /\ x.redeemPublic = s.redeemPublic /\ x.adaptor = s.adaptor
      /\ x.refundKey = s.refundKey
  <2>1. x = Claiming(s, {claim})
    BY DEF Claiming
  <2> HIDE DEF x
  <2>2. QED
    BY <1>3, <2>1, ClaimMade
<1> HIDE DEF x
<1>6. IsSeller(s)
  BY <1>3 DEF SellerFits
<1>7. IsSeller(x)
  BY <1>1, <1>4, <1>5, <1>6 DEF IsSeller, Final, Refundable, Script
<1>8. SellerFits(x)
  BY <1>1, <1>3, <1>5, <1>7
     DEF SellerFits, Agreed, Finished, Answered, Paid, Signed, Locks, Final, Script, Done
<1>9. faults' \in 0 .. MaxFaults /\ Replaces("seller", x)
  BY <1>1 DEF IInv, Replaces
<1>10. QED
  BY <1>1, <1>8, <1>9, SellerStep

LEMMA SendAcceptOfferKeeps == IInv /\ SendAcceptOffer => IInv'
<1> SUFFICES ASSUME IInv, SendAcceptOffer PROVE IInv'
  OBVIOUS
<1> DEFINE e == swap.buyer
           x == [e EXCEPT !.status = "Accepted"]
           m == AcceptOffer(e)
<1>1. /\ e.status = "Offered" /\ msgs' = msgs \cup {m} /\ Saves("buyer", x)
      /\ UNCHANGED <<lock, redeem, paid, faults>>
  BY DEF SendAcceptOffer, Send
<1>2. e # NoSwap
  BY <1>1, NoSwapHasNoStatus
<1>3. /\ BuyerFits(e) /\ IsSwap(e) /\ redeem = {}
      /\ \A n \in msgs : n.type # "InitRedeem"
      /\ \A s \in Here : s.status \notin Signed
  BY <1>1, <1>2, BuyerNow DEF Asking
<1> HIDE DEF e
<1>4. /\ IsSwap(x) /\ x.status = "Accepted" /\ x.ms = e.ms
      /\ x.lock = e.lock /\ x.refund = e.refund /\ x.adaptor = e.adaptor
      /\ x.redeem = e.redeem
  BY <1>3, StatusChanged
<1> HIDE DEF x
<1>5. IsBuyer(e)
  BY <1>3 DEF BuyerFits
<1>6. IsBuyer(x)
  BY <1>1, <1>4, <1>5 DEF IsBuyer, Asking
<1>7. BuyerFits(x)
  BY <1>3, <1>4, <1>6 DEF BuyerFits, Agreed, Finished, Asked
<1>8. e.ms.parts[2] \in M!ParticipantData
  <2>1. e.ms.parts \in Seq(M!ParticipantData) /\ Len(e.ms.parts) = 2
    BY <1>5 DEF IsBuyer, IsSwap, M!Builder
  <2>2. 2 \in 1 .. Len(e.ms.parts)
    BY <2>1
  <2>3. QED
    BY <2>1, <2>2, ElementOfSeq
<1>9. /\ m.type = "AcceptOffer" /\ m.ms = e.ms.parts[2] /\ m.lock = e.lock.parts[2]
      /\ m.refund = e.refund.parts[2]
  BY DEF AcceptOffer
<1> HIDE DEF m
<1>10. IsMessage(m)
  BY <1>5, <1>8, <1>9 DEF IsMessage, IsBuyer, Two
<1>11. Asked(m, x) /\ \A s \in Here : Answered(m, s)
  BY <1>9 DEF Answered, Asked
<1>12. faults' \in 0 .. MaxFaults /\ Replaces("buyer", x)
  BY <1>1 DEF IInv, Replaces
<1>13. QED
  BY <1>1, <1>3, <1>7, <1>10, <1>11, <1>12, BuyerStep

LEMMA SendInitRedeemKeeps == IInv /\ SendInitRedeem => IInv'
<1> SUFFICES ASSUME IInv, SendInitRedeem PROVE IInv'
  OBVIOUS
<1> DEFINE e == swap.buyer
           x == [e EXCEPT !.status = "InitRedeem"]
           m == InitRedeem(e)
<1>1. /\ e.status = "Locked" /\ msgs' = msgs \cup {m} /\ Saves("buyer", x)
      /\ e.adaptor # {}
      /\ UNCHANGED <<lock, redeem, paid, faults>>
  BY DEF SendInitRedeem, Send
<1>2. e # NoSwap
  BY <1>1, NoSwapHasNoStatus
<1>3. /\ BuyerFits(e) /\ IsSwap(e) /\ redeem = {}
      /\ \A n \in msgs : n.type # "InitRedeem"
      /\ \A s \in Here : s.status \notin Signed
  BY <1>1, <1>2, BuyerNow DEF Asking
<1> HIDE DEF e
<1>4. /\ IsSwap(x) /\ x.status = "InitRedeem" /\ x.ms = e.ms
      /\ x.lock = e.lock /\ x.refund = e.refund /\ x.adaptor = e.adaptor
      /\ x.redeem = e.redeem
  BY <1>3, StatusChanged
<1> HIDE DEF x
<1>5. IsBuyer(e)
  BY <1>3 DEF BuyerFits
<1>6. IsBuyer(x)
  BY <1>1, <1>4, <1>5 DEF IsBuyer, Asking, BuyerSig, BuyerRedeemKey
<1>7. BuyerFits(x)
  BY <1>3, <1>4, <1>6 DEF BuyerFits, Agreed, Finished, Asked
<1>8. m.type = "InitRedeem" /\ m.slate = e.redeem /\ m.adaptor = e.adaptor
  BY DEF InitRedeem
<1> HIDE DEF m
<1>9. Two(e.redeem.parts) /\ IsSlate(e.redeem)
  BY <1>1, <1>5 DEF IsBuyer, IsSwap
<1>10. IsMessage(m)
  BY <1>8, <1>9 DEF IsMessage
<1>11. Asked(m, x) /\ \A s \in Here : Answered(m, s)
  BY <1>4, <1>8, <1>9 DEF Answered, Asked, Asking, Same
<1>12. faults' \in 0 .. MaxFaults /\ Replaces("buyer", x)
  BY <1>1 DEF IInv, Replaces
<1>13. QED
  BY <1>1, <1>3, <1>7, <1>10, <1>11, <1>12, BuyerStep

LEMMA PublishRedeemKeeps == IInv /\ PublishRedeem => IInv'
<1> SUFFICES ASSUME IInv, PublishRedeem PROVE IInv'
  OBVIOUS
<1> DEFINE e == swap.buyer
           x == [e EXCEPT !.published = TRUE]
<1>1. /\ e.status = "Redeem" /\ redeem' = {e.redeem} /\ Saves("buyer", x)
      /\ UNCHANGED <<msgs, lock, paid, faults>>
  BY DEF PublishRedeem
<1>2. e # NoSwap
  BY <1>1, NoSwapHasNoStatus
<1>3. BuyerFits(e) /\ IsSwap(e)
  BY <1>2, BuyerNow
<1> HIDE DEF e
<1>4. /\ IsSwap(x) /\ x.status = "Redeem" /\ x.ms = e.ms
      /\ x.lock = e.lock /\ x.refund = e.refund /\ x.adaptor = e.adaptor
      /\ x.redeem = e.redeem
  BY <1>1, <1>3, IsPublished
<1> HIDE DEF x
<1>5. IsBuyer(e)
  BY <1>3 DEF BuyerFits
<1>6. IsBuyer(x)
  BY <1>1, <1>4, <1>5 DEF IsBuyer, Asking, BuyerSig, BuyerRedeemKey
<1>7. BuyerFits(x) /\ \A tx \in redeem' : Redeems(tx, x)
  BY <1>1, <1>3, <1>4, <1>6
     DEF BuyerFits, Agreed, Finished, Asked, Redeems, BuyerSig, BuyerRedeemKey
<1>8. faults' \in 0 .. MaxFaults /\ Replaces("buyer", x)
  BY <1>1 DEF IInv, Replaces
<1>9. QED
  BY <1>1, <1>7, <1>8, BuyerStep

LEMMA DepositKeeps == IInv /\ Deposit => IInv'
<1> SUFFICES ASSUME IInv, Deposit PROVE IInv'
  OBVIOUS
<1>1. UNCHANGED <<swap, disk, msgs, lock, redeem, faults>> /\ paid = {}
  BY DEF Deposit
<1>2. Consistent(Here, There, msgs, lock, redeem, {})
  BY <1>1 DEF IInv, Here, There
<1>3. Consistent(Here, There, msgs, lock, redeem, paid')
  BY <1>2 DEF Consistent, Paid
<1>4. Here' = Here /\ There' = There
  BY <1>1 DEF Here, There
<1>5. Consistent(Here', There', msgs', lock', redeem', paid')
  BY <1>1, <1>3, <1>4
<1>6. QED
  BY <1>1, <1>5 DEF IInv, Here, There

LEMMA ReloadKeeps == ASSUME IInv, NEW p \in Party, Reload(p) PROVE IInv'
<1>1. /\ swap' = [swap EXCEPT ![p] = disk[p]]
      /\ UNCHANGED <<disk, msgs, lock, redeem, paid, faults>>
  BY DEF Reload
<1>2. Consistent(Here, There, msgs, lock, redeem, paid)
  BY DEF IInv, Here, There
<1>3. /\ swap = [q \in Party |-> swap[q]] /\ disk = [q \in Party |-> disk[q]]
      /\ faults \in 0 .. MaxFaults
  BY DEF IInv
<1>4. /\ swap' = [q \in Party |-> swap'[q]]
      /\ swap'.seller \in Here /\ swap'.buyer \in There
  BY <1>1, <1>3 DEF Party, Here, There
<1>5. Here' \subseteq Here /\ There' \subseteq There
  BY <1>1, <1>4 DEF Here, There
<1>6. Consistent(Here', There', msgs, lock, redeem, paid)
  BY <1>2, <1>5 DEF Consistent
<1>7. Consistent(Here', There', msgs', lock', redeem', paid')
  BY <1>1, <1>6
<1>8. QED
  BY <1>1, <1>3, <1>4, <1>7 DEF IInv, Here, There

LEMMA InitIInv == Init => IInv
<1> SUFFICES ASSUME Init PROVE IInv
  OBVIOUS
<1>1. /\ swap = [p \in Party |-> NoSwap] /\ disk = [p \in Party |-> NoSwap]
      /\ msgs = {} /\ lock = {} /\ redeem = {} /\ faults = 0
  BY DEF Init
<1>2. Here = {NoSwap} /\ There = {NoSwap}
  BY <1>1 DEF Here, There, Party
<1>3. Consistent({NoSwap}, {NoSwap}, {}, {}, {}, paid)
  BY NoSwapHasNoStatus DEF Consistent, Agreed, Finished, Paid, Signed
<1>4. Consistent(Here, There, msgs, lock, redeem, paid)
  BY <1>1, <1>2, <1>3
<1>5. QED
  BY <1>1, <1>4, SlatesAssumption DEF IInv, Here, There
-----------------------------------------------------------------------------
(* The operations of several calls.  Their steps, written out.               *)
LEMMA BuilderPut ==
    ASSUME NEW s, IsSwap(s), NEW b \in M!Builder, NEW x, x = [s EXCEPT !.ms = b]
    PROVE  /\ IsSwap(x) /\ x.status = s.status /\ x.primary = s.primary /\ x.ms = b
           /\ x.lock = s.lock /\ x.refund = s.refund /\ x.redeem = s.redeem
           /\ x.redeemPublic = s.redeemPublic /\ x.adaptor = s.adaptor
           /\ x.refundKey = s.refundKey /\ x.claim = s.claim
BY DEF IsSwap

LEMMA LockPut ==
    ASSUME NEW s, IsSwap(s), NEW t, IsSlate(t), NEW x, x = [s EXCEPT !.lock = t]
    PROVE  /\ IsSwap(x) /\ x.status = s.status /\ x.primary = s.primary /\ x.ms = s.ms
           /\ x.lock = t /\ x.refund = s.refund /\ x.redeem = s.redeem
           /\ x.redeemPublic = s.redeemPublic /\ x.adaptor = s.adaptor
           /\ x.refundKey = s.refundKey /\ x.claim = s.claim
BY DEF IsSwap

LEMMA RefundPut ==
    ASSUME NEW s, IsSwap(s), NEW t, IsSlate(t), NEW x, x = [s EXCEPT !.refund = t]
    PROVE  /\ IsSwap(x) /\ x.status = s.status /\ x.primary = s.primary /\ x.ms = s.ms
           /\ x.lock = s.lock /\ x.refund = t /\ x.redeem = s.redeem
           /\ x.redeemPublic = s.redeemPublic /\ x.adaptor = s.adaptor
           /\ x.refundKey = s.refundKey /\ x.claim = s.claim
BY DEF IsSwap

LEMMA RedeemPut ==
    ASSUME NEW s, IsSwap(s), NEW t, IsSlate(t), NEW x, x = [s EXCEPT !.redeem = t]
    PROVE  /\ IsSwap(x) /\ x.status = s.status /\ x.primary = s.primary /\ x.ms = s.ms
           /\ x.lock = s.lock /\ x.refund = s.refund /\ x.redeem = t
           /\ x.redeemPublic = s.redeemPublic /\ x.adaptor = s.adaptor
           /\ x.refundKey = s.refundKey /\ x.claim = s.claim
BY DEF IsSwap

LEMMA AdaptorPut ==
    ASSUME NEW s, IsSwap(s), NEW a, NEW x, x = [s EXCEPT !.adaptor = a]
    PROVE  /\ IsSwap(x) /\ x.status = s.status /\ x.primary = s.primary /\ x.ms = s.ms
           /\ x.lock = s.lock /\ x.refund = s.refund /\ x.redeem = s.redeem
           /\ x.redeemPublic = s.redeemPublic /\ x.adaptor = a
           /\ x.refundKey = s.refundKey /\ x.claim = s.claim
BY DEF IsSwap

\* While the Buyer asks for nothing, no other object or message is about its own.
LEMMA EarlyBuyer ==
    ASSUME IInv, swap.buyer.status \notin Asking,
           NEW x, IsBuyer(x), x.status \notin Asking
    PROVE  BuyerFits(x) /\ redeem = {}
<1>1. Consistent(Here, There, msgs, lock, redeem, paid) /\ swap.buyer \in There
  BY DEF IInv, Here, There
<1>2. /\ \A m \in msgs : m.type # "InitRedeem"
      /\ \A s \in Here : s.status \notin Signed
      /\ redeem = {}
  BY <1>1 DEF Consistent, Asked, Agreed, Redeems, Asking
<1>3. QED
  BY <1>2 DEF BuyerFits, Agreed, Finished, Asked, Asking

Paying(t, fee, offset, outs) ==
    [t EXCEPT !.fee = fee, !.offset = offset, !.outs = outs]

LEMMA OutputsPut ==
    ASSUME NEW t, IsSlate(t), NEW fee, NEW offset, NEW outs
    PROVE  /\ IsSlate(Paying(t, fee, offset, outs))
           /\ Paying(t, fee, offset, outs).parts = t.parts
<1> DEFINE u == Paying(t, fee, offset, outs)
           a == [t EXCEPT !.fee = fee]
           b == [a EXCEPT !.offset = offset]
<1>1. u = [b EXCEPT !.outs = outs]
  BY DEF Paying
<1>2. IsSlate(a) /\ a.parts = t.parts
  BY DEF IsSlate
<1> HIDE DEF a
<1>3. IsSlate(b) /\ b.parts = t.parts
  BY <1>2 DEF IsSlate
<1> HIDE DEF b
<1>4. IsSlate([b EXCEPT !.outs = outs]) /\ [b EXCEPT !.outs = outs].parts = t.parts
  BY <1>3 DEF IsSlate
<1>5. QED
  BY <1>1, <1>4

LEMMA RedeemSlateBuilt ==
    ASSUME NEW s, IsSlate(s.redeem), NEW offset, NEW u, u = RedeemSlate(s, offset)
    PROVE  IsSlate(u) /\ u.parts = s.redeem.parts
<1> DEFINE out == Output(Commit("output", AfterFee(s)), TRUE)
           key == Key("redeemOffset", offset)
           r == s.redeem
           outs == r.outs \cup {out}
           t == Paying(r, SpendFee, key, outs)
<1>1. u = AddInput(t, MsCommit(s))
  BY DEF RedeemSlate, Paying
<1>2. IsSlate(r)
  OBVIOUS
<1> HIDE DEF out, key, r, outs
<1>3. IsSlate(t) /\ t.parts = r.parts
  BY <1>2, OutputsPut
<1> HIDE DEF t
<1>4. QED
  BY <1>1, <1>3, InputAdded DEF r

LEMMA OneUnlessTwo ==
    ASSUME NEW t, IsSlate(t), Len(t.parts) <= 1
    PROVE  One(t.parts)
<1>1. Two(t.parts) => Len(t.parts) = 2
  BY DEF Two
<1>2. One(t.parts) \/ Two(t.parts)
  BY DEF IsSlate
<1>3. QED
  BY <1>1, <1>2

LEMMA BuyerLockedKeeps ==
    ASSUME IInv, NEW offset, BuyerLocked(offset)
    PROVE  IInv' /\ Moved("buyer", {"Accepted", "Locked"})
<1> DEFINE e == swap.buyer
           Do(k, x) == DoInitRedeem(k, x, offset)
           S1 == {Do(1, x) : x \in {y \in {e} : CanInitRedeem(1, y)}}
           S2 == {Do(2, x) : x \in {y \in S1 : CanInitRedeem(2, y)}}
           S3 == {Do(3, x) : x \in {y \in S2 : CanInitRedeem(3, y)}}
           S4 == {Do(4, x) : x \in {y \in S3 : CanInitRedeem(4, y)}}
           Fault == /\ \/ faults < MaxFaults /\ faults' = faults + 1
                       \/ UNCHANGED faults
                    /\ UNCHANGED disk
           Half(S) == \E x \in S : swap' = [swap EXCEPT !["buyer"] = x] /\ Fault
<1>1. /\ e.status = "Accepted" /\ UNCHANGED <<msgs, lock, redeem, paid>>
      /\ \/ (\E x \in S4 : Saves("buyer", x)) /\ UNCHANGED faults
         \/ \E k \in 0 .. 3 : Half(CASE k = 0 -> {e} [] k = 1 -> S1 [] k = 2 -> S2
                                     [] k = 3 -> S3)
  BY DEF BuyerLocked, Perform, After
<1>2. \/ (\E x \in S4 : Saves("buyer", x)) /\ UNCHANGED faults
      \/ Half({e}) \/ Half(S1) \/ Half(S2) \/ Half(S3)
  <2> HIDE DEF Half, S1, S2, S3, S4
  <2>1. QED
    BY <1>1
<1> DEFINE All == {e} \cup S1 \cup S2 \cup S3 \cup S4
<1>3. (\E x \in All : Replaces("buyer", x)) /\ faults' \in 0 .. MaxFaults
  <2> HIDE DEF S1, S2, S3, S4
  <2>1. \E x \in All : Replaces("buyer", x)
    BY <1>1, <1>2 DEF Replaces
  <2>2. UNCHANGED faults \/ (faults < MaxFaults /\ faults' = faults + 1)
    BY <1>2
  <2>3. faults \in 0 .. MaxFaults
    BY DEF IInv
  <2>4. QED
    BY <2>1, <2>2, <2>3, SlatesAssumption
<1>4. e # NoSwap
  BY <1>1, NoSwapHasNoStatus
<1>5. IsBuyer(e) /\ e.adaptor = {}
  BY <1>1, <1>4, BuyerNow DEF BuyerFits, IsBuyer, Asking
<1> DEFINE Early(x) == IsBuyer(x) /\ x.status = "Locked" /\ x.adaptor = {}
<1>6. \A x \in S1 : Early(x)
  <2> SUFFICES ASSUME NEW x, x = Do(1, e) PROVE Early(x)
    OBVIOUS
  <2>1. x = [e EXCEPT !.status = "Locked"]
    BY DEF DoInitRedeem
  <2> HIDE DEF e
  <2>2. QED
    BY <1>5, <2>1, StatusChanged DEF IsBuyer, Asking
<1>7. \A x \in S2 : Early(x) /\ One(x.redeem.parts)
  <2> SUFFICES ASSUME NEW y \in S1, CanInitRedeem(2, y), NEW x, x = Do(2, y)
               PROVE  Early(x) /\ One(x.redeem.parts)
    OBVIOUS
  <2>1. Len(y.redeem.parts) <= 1 /\ Early(y)
    BY <1>6 DEF CanInitRedeem
  <2> DEFINE t == RedeemSlate(y, offset)
  <2>2. IsSlate(t) /\ t.parts = y.redeem.parts
    BY <2>1, RedeemSlateBuilt DEF IsBuyer, IsSwap
  <2>3. x = [y EXCEPT !.redeem = t]
    BY DEF DoInitRedeem
  <2> HIDE DEF t, S1
  <2>4. One(t.parts)
    BY <2>1, <2>2, OneUnlessTwo
  <2>5. QED
    BY <2>1, <2>2, <2>3, <2>4, RedeemPut DEF IsBuyer, Asking
<1>8. \A x \in S3 : Early(x) /\ Two(x.redeem.parts)
  <2> SUFFICES ASSUME NEW y \in S2, NEW x, x = Do(3, y)
               PROVE  Early(x) /\ Two(x.redeem.parts)
    OBVIOUS
  <2>1. Early(y) /\ One(y.redeem.parts)
    BY <1>7
  <2> DEFINE t == FillRound1(y.redeem, "redeem2", BuyerRedeemKey(y))
  <2>2. IsSlate(t) /\ Two(t.parts)
    BY <2>1, Fill1 DEF IsBuyer, IsSwap
  <2>3. x = [y EXCEPT !.redeem = t]
    BY DEF DoInitRedeem
  <2> HIDE DEF t, S2
  <2>4. QED
    BY <2>1, <2>2, <2>3, RedeemPut DEF IsBuyer, Asking
<1>9. \A x \in S4 : IsBuyer(x) /\ x.status = "Locked"
  <2> SUFFICES ASSUME NEW y \in S3, NEW x, x = Do(4, y)
               PROVE  IsBuyer(x) /\ x.status = "Locked"
    OBVIOUS
  <2>1. Early(y) /\ Two(y.redeem.parts)
    BY <1>8
  <2> DEFINE a == {BuyerSig(y, "redeem")}
  <2>2. x = [y EXCEPT !.adaptor = a]
    BY DEF DoInitRedeem, BuyerSig
  <2> HIDE DEF S3
  <2>3. /\ IsSwap(x) /\ x.status = "Locked" /\ x.ms = y.ms /\ x.lock = y.lock
        /\ x.refund = y.refund /\ x.redeem = y.redeem /\ x.adaptor = a
    BY <2>1, <2>2, AdaptorPut DEF IsBuyer
  <2>4. a = {BuyerSig(x, "redeem")}
    BY <2>3 DEF BuyerSig, BuyerRedeemKey
  <2> HIDE DEF a
  <2>5. QED
    BY <2>1, <2>3, <2>4 DEF IsBuyer, Asking
<1>10. ASSUME NEW x \in All
       PROVE  BuyerFits(x) /\ redeem = {} /\ x.status \in {"Accepted", "Locked"}
  <2> HIDE DEF S1, S2, S3, S4
  <2>1. IsBuyer(x) /\ x.status \in {"Accepted", "Locked"}
    BY <1>1, <1>5, <1>6, <1>7, <1>8, <1>9
  <2>2. QED
    BY <1>1, <1>4, <2>1, EarlyBuyer DEF Asking
<1> HIDE DEF All
<1>11. PICK x \in All : Replaces("buyer", x)
  BY <1>3
<1>12. IInv'
  BY <1>1, <1>3, <1>10, <1>11, BuyerStep
<1>13. QED
  BY <1>10, <1>11, <1>12 DEF Moved
\* While the Seller has nothing final, neither is any other object or message.
LEMMA EarlySeller ==
    ASSUME IInv, swap.seller.status \notin Final,
           NEW x, IsSeller(x), x.status \notin Signed \cup {"Locked"}
    PROVE  SellerFits(x) /\ lock = {}
<1>1. Consistent(Here, There, msgs, lock, redeem, paid) /\ swap.seller \in Here
  BY DEF IInv, Here, There
<1>2. /\ \A m \in msgs : m.type # "Redeem"
      /\ \A e \in There : e.status # "Redeem"
      /\ lock = {}
  BY <1>1 DEF Consistent, Answered, Finished, Locks, Final, Done
<1>3. QED
  BY <1>2 DEF SellerFits, Agreed, Finished, Answered, Paid

LEMMA SignedAndFinal ==
    ASSUME NEW t, IsSlate(t), Two(t.parts), NEW nonce, NEW key,
           NEW u, u = Finalize(FillRound2(t, 1, nonce, key))
    PROVE  /\ IsSlate(u) /\ Two(u.parts)
           /\ u.ins = t.ins /\ u.outs = t.outs /\ Commits(u) = Commits(t)
           /\ CanFinalize(FillRound2(t, 1, nonce, key)) =>
                 u.sig # {} /\ Value(u.ins) = Value(Commits(u)) + u.fee
<1> DEFINE v == FillRound2(t, 1, nonce, key)
<1>1. SignedPart(t, v, 1, {Signature(nonce, key, Challenge(t), "")}) /\ u = Finalize(v)
  BY Fill2
<1> HIDE DEF v
<1>2. /\ IsSlate(v) /\ Two(v.parts) /\ v.ins = t.ins /\ v.outs = t.outs
      /\ v.fee = t.fee /\ v.offset = t.offset
  BY <1>1 DEF SignedPart
<1>3. /\ IsSlate(u) /\ u.ins = v.ins /\ u.outs = v.outs /\ u.parts = v.parts
      /\ u.fee = v.fee /\ u.sig = UNION {v.parts[i].sig : i \in DOMAIN v.parts}
  BY <1>1, <1>2, MakeFinal
<1>4. Commits(u) = Commits(v) /\ Commits(v) = Commits(t)
  BY <1>2, <1>3 DEF Commits
<1>5. ASSUME CanFinalize(v)
      PROVE  u.sig # {} /\ Value(u.ins) = Value(Commits(u)) + u.fee
  <2>1. 1 \in DOMAIN v.parts
    BY <1>2 DEF Two
  <2>2. v.parts[1].sig # {}
    BY <1>5, <2>1 DEF CanFinalize
  <2>3. u.sig # {}
    BY <1>3, <2>1, <2>2
  <2>4. Value(v.ins) = Value(Commits(v)) + v.fee
    BY <1>5 DEF CanFinalize
  <2>5. QED
    BY <1>3, <1>4, <2>3, <2>4
<1>6. QED
  BY <1>2, <1>3, <1>4, <1>5 DEF v

Accept(s, t, public, key) ==
    [s EXCEPT !.refund = t, !.redeemPublic = public, !.refundKey = key,
              !.status = "Accepted"]

LEMMA IsAccepted ==
    ASSUME NEW s, IsSwap(s), NEW t, IsSlate(t), NEW public, NEW key
    PROVE  LET x == Accept(s, t, public, key) IN
           /\ IsSwap(x) /\ x.status = "Accepted" /\ x.primary = s.primary /\ x.ms = s.ms
           /\ x.lock = s.lock /\ x.refund = t /\ x.redeem = s.redeem /\ x.claim = s.claim
<1> DEFINE x == Accept(s, t, public, key)
           a == [s EXCEPT !.refund = t]
           b == [a EXCEPT !.redeemPublic = public]
           c == [b EXCEPT !.refundKey = key]
<1>1. x = [c EXCEPT !.status = "Accepted"]
  BY DEF Accept
<1>2. /\ IsSwap(a) /\ a.primary = s.primary /\ a.ms = s.ms /\ a.lock = s.lock
      /\ a.refund = t /\ a.redeem = s.redeem /\ a.claim = s.claim
  BY RefundPut
<1> HIDE DEF a
<1>3. /\ IsSwap(b) /\ b.primary = s.primary /\ b.ms = s.ms /\ b.lock = s.lock
      /\ b.refund = t /\ b.redeem = s.redeem /\ b.claim = s.claim
  BY <1>2 DEF IsSwap
<1> HIDE DEF b
<1>4. /\ IsSwap(c) /\ c.primary = s.primary /\ c.ms = s.ms /\ c.lock = s.lock
      /\ c.refund = t /\ c.redeem = s.redeem /\ c.claim = s.claim
  BY <1>3 DEF IsSwap
<1> HIDE DEF c, x
<1>5. QED
  BY <1>1, <1>4, StatusChanged DEF x

LEMMA AcceptedOfferKeeps ==
    ASSUME IInv, NEW m \in msgs, AcceptedOffer(m)
    PROVE  IInv' /\ Moved("seller", {"Offered", "Accepted"})
<1> DEFINE s == swap.seller
           Can(k, x) == CanAccepted(k, x, m)
           Do(k, x) == DoAccepted(k, x, m)
           S1 == {Do(1, x) : x \in {y \in {s} : Can(1, y)}}
           S2 == {Do(2, x) : x \in {y \in S1 : Can(2, y)}}
           S3 == {Do(3, x) : x \in {y \in S2 : Can(3, y)}}
           S4 == {Do(4, x) : x \in {y \in S3 : Can(4, y)}}
           S5 == {Do(5, x) : x \in {y \in S4 : Can(5, y)}}
           S6 == {Do(6, x) : x \in {y \in S5 : Can(6, y)}}
           Fault == /\ \/ faults < MaxFaults /\ faults' = faults + 1
                       \/ UNCHANGED faults
                    /\ UNCHANGED disk
           Half(S) == \E x \in S : swap' = [swap EXCEPT !["seller"] = x] /\ Fault
<1>1. /\ s.status = "Offered" /\ m.type = "AcceptOffer"
      /\ UNCHANGED <<msgs, lock, redeem, paid>>
      /\ \/ (\E x \in S6 : Saves("seller", x)) /\ UNCHANGED faults
         \/ \E k \in 0 .. 5 : Half(CASE k = 0 -> {s} [] k = 1 -> S1 [] k = 2 -> S2
                                     [] k = 3 -> S3 [] k = 4 -> S4 [] k = 5 -> S5)
  BY DEF AcceptedOffer, Perform, After
<1>2. \/ (\E x \in S6 : Saves("seller", x)) /\ UNCHANGED faults
      \/ Half({s}) \/ Half(S1) \/ Half(S2) \/ Half(S3) \/ Half(S4) \/ Half(S5)
  <2> HIDE DEF Half, S1, S2, S3, S4, S5, S6
  <2>1. QED
    BY <1>1
<1> DEFINE All == {s} \cup S1 \cup S2 \cup S3 \cup S4 \cup S5 \cup S6
<1>3. (\E x \in All : Replaces("seller", x)) /\ faults' \in 0 .. MaxFaults
  <2> HIDE DEF S1, S2, S3, S4, S5, S6
  <2>1. \E x \in All : Replaces("seller", x)
    BY <1>1, <1>2 DEF Replaces
  <2>2. UNCHANGED faults \/ (faults < MaxFaults /\ faults' = faults + 1)
    BY <1>2
  <2>3. faults \in 0 .. MaxFaults
    BY DEF IInv
  <2>4. QED
    BY <2>1, <2>2, <2>3, SlatesAssumption
<1>4. s # NoSwap
  BY <1>1, NoSwapHasNoStatus
<1>5. IsSeller(s)
  BY <1>4, SellerNow DEF SellerFits
<1>6. m.ms \in M!ParticipantData /\ IsPart(m.lock) /\ IsPart(m.refund)
  <2>1. IsMessage(m)
    BY DEF IInv, Consistent
  <2>2. QED
    BY <1>1, <2>1 DEF IsMessage
<1> DEFINE Complete(x) == /\ IsSeller(x) /\ x.status = "Offered"
                          /\ Len(x.ms.parts) = 2 /\ x.refund.ins = {}
           HasOutput(x) == Two(x.lock.parts) /\ MsCommit(x) \in Commits(x.lock)
           Refunding(x) == /\ IsSeller(x) /\ x.status = "Offered" /\ Len(x.ms.parts) = 2
                           /\ HasOutput(x) /\ Two(x.refund.parts)
                           /\ x.refund.ins = {MsCommit(x)}
<1>7. \A x \in S1 : Complete(x)
  <2> SUFFICES ASSUME Can(1, s), NEW x, x = Do(1, s) PROVE Complete(x)
    OBVIOUS
  <2>0. s.ms.parts \in Seq(M!ParticipantData) /\ Len(s.ms.parts) >= 1
    BY <1>5 DEF IsSeller, IsSwap, M!Builder
  <2>1. Len(s.ms.parts) = 1
    <3>1. ~(2 <= Len(s.ms.parts))
      BY DEF CanAccepted, M!CanImport, M!Has
    <3>2. ASSUME NEW n \in Nat, n >= 1, ~(2 <= n) PROVE n = 1
      BY <3>2
    <3>3. Len(s.ms.parts) \in Nat
      BY <2>0, LenProperties
    <3>4. QED
      BY <2>0, <3>1, <3>2, <3>3
  <2> DEFINE b == ImportBuyer(s.ms, m.ms)
  <2>2. b \in M!Builder /\ Len(b.parts) = Len(s.ms.parts) + 1
    BY <1>5, <1>6, SellerImports DEF IsSeller, IsSwap
  <2>3. x = [s EXCEPT !.ms = b]
    BY DEF DoAccepted
  <2> HIDE DEF b, s
  <2>4. QED
    BY <1>1, <1>5, <2>1, <2>2, <2>3, BuilderPut DEF IsSeller, Final
<1>8. \A x \in S2 : Complete(x)
  <2> SUFFICES ASSUME NEW y \in S1, NEW x, x = Do(2, y) PROVE Complete(x)
    OBVIOUS
  <2>1. Complete(y)
    BY <1>7
  <2> DEFINE b == M!Round2(y.ms)
  <2>2. b \in M!Builder /\ Len(b.parts) = Len(y.ms.parts)
    BY <2>1, Rounds DEF IsSeller, IsSwap
  <2>3. x = [y EXCEPT !.ms = b]
    BY DEF DoAccepted
  <2> HIDE DEF b, S1
  <2>4. QED
    BY <2>1, <2>2, <2>3, BuilderPut DEF IsSeller, Final
<1>9. \A x \in S3 : Complete(x) /\ HasOutput(x)
  <2> SUFFICES ASSUME NEW y \in S2, Can(3, y), NEW x, x = Do(3, y)
               PROVE  Complete(x) /\ HasOutput(x)
    OBVIOUS
  <2>1. Complete(y) /\ Len(y.lock.parts) <= 1
    BY <1>8 DEF CanAccepted
  <2> DEFINE t == AddPart(y.lock, m.lock)
             u == AddOutput(t, MsCommit(y), TRUE)
  <2>2. IsSlate(y.lock) /\ One(y.lock.parts)
    BY <2>1, OneUnlessTwo DEF IsSeller, IsSwap
  <2>3. IsSlate(t) /\ Two(t.parts)
    BY <1>6, <2>2, PartAdded
  <2>4. x = [y EXCEPT !.lock = u]
    BY DEF DoAccepted
  <2> HIDE DEF t, S2
  <2>5. IsSlate(u) /\ u.parts = t.parts /\ MsCommit(y) \in Commits(u)
    <3>1. WithOutput(t, u, MsCommit(y))
      BY <2>3, OutputAdded
    <3> HIDE DEF u
    <3>2. QED
      BY <3>1 DEF WithOutput
  <2> HIDE DEF u
  <2>6. /\ IsSwap(x) /\ x.status = y.status /\ x.primary = y.primary /\ x.ms = y.ms
        /\ x.lock = u /\ x.refund = y.refund /\ x.claim = y.claim
    BY <2>1, <2>4, <2>5, LockPut DEF IsSeller
  <2>7. MsCommit(x) = MsCommit(y)
    BY <2>6 DEF MsCommit
  <2>8. QED
    BY <2>1, <2>3, <2>5, <2>6, <2>7 DEF IsSeller, Final
<1>10. \A x \in S4 : Complete(x) /\ HasOutput(x)
  <2> SUFFICES ASSUME NEW y \in S3, NEW x, x = Do(4, y)
               PROVE  Complete(x) /\ HasOutput(x)
    OBVIOUS
  <2>1. Complete(y) /\ HasOutput(y)
    BY <1>9
  <2> DEFINE u == Finalize(FillRound2(y.lock, 1, "lock1", SellerLockKey(y)))
  <2>2. IsSlate(u) /\ Two(u.parts) /\ Commits(u) = Commits(y.lock)
    BY <2>1, SignedAndFinal DEF IsSeller, IsSwap
  <2>3. x = [y EXCEPT !.lock = u]
    BY DEF DoAccepted
  <2> HIDE DEF u, S3
  <2>4. /\ IsSwap(x) /\ x.status = y.status /\ x.primary = y.primary /\ x.ms = y.ms
        /\ x.lock = u /\ x.refund = y.refund /\ x.claim = y.claim
    BY <2>1, <2>2, <2>3, LockPut DEF IsSeller
  <2>5. MsCommit(x) = MsCommit(y)
    BY <2>4 DEF MsCommit
  <2>6. QED
    BY <2>1, <2>2, <2>4, <2>5 DEF IsSeller, Final
<1>11. \A x \in S5 : Refunding(x)
  <2> SUFFICES ASSUME NEW y \in S4, Can(5, y), NEW x, x = Do(5, y)
               PROVE  Refunding(x)
    OBVIOUS
  <2>1. Complete(y) /\ HasOutput(y) /\ Len(y.refund.parts) <= 1
    BY <1>10 DEF CanAccepted
  <2> DEFINE t == AddPart(y.refund, m.refund)
             u == AddInput(t, MsCommit(y))
  <2>2. IsSlate(y.refund) /\ One(y.refund.parts)
    BY <2>1, OneUnlessTwo DEF IsSeller, IsSwap
  <2>3. IsSlate(t) /\ Two(t.parts) /\ t.ins = {}
    BY <1>6, <2>1, <2>2, PartAdded
  <2>4. x = [y EXCEPT !.refund = u]
    BY DEF DoAccepted
  <2> HIDE DEF t, S4
  <2>5. IsSlate(u) /\ Two(u.parts) /\ u.ins = {MsCommit(y)}
    BY <2>3, InputAdded
  <2> HIDE DEF u
  <2>6. /\ IsSwap(x) /\ x.status = y.status /\ x.primary = y.primary /\ x.ms = y.ms
        /\ x.lock = y.lock /\ x.refund = u /\ x.claim = y.claim
    BY <2>1, <2>4, <2>5, RefundPut DEF IsSeller
  <2>7. MsCommit(x) = MsCommit(y)
    BY <2>6 DEF MsCommit
  <2>8. IsSeller(x)
    <3>1. IsSeller(y) /\ y.status = "Offered" /\ Len(x.ms.parts) = 2
      BY <2>1, <2>6
    <3>2. ~(Len(x.ms.parts) < 2) /\ Len(x.ms.parts) >= 1
      <4>1. \A n \in {2} : ~(n < 2) /\ n >= 1
        OBVIOUS
      <4>2. Len(x.ms.parts) \in {2}
        BY <3>1
      <4>3. QED
        BY <4>1, <4>2
    <3>3. x.status = "Offered" /\ \A c \in x.claim : FALSE
      BY <2>6, <3>1 DEF IsSeller
    <3>4. QED
      BY <2>6, <3>2, <3>3 DEF IsSeller, Final
  <2>9. QED
    BY <2>1, <2>5, <2>6, <2>7, <2>8
<1>12. \A x \in S6 : IsSeller(x) /\ x.status = "Accepted"
  <2> SUFFICES ASSUME NEW y \in S5, Can(6, y), NEW x, x = Do(6, y)
               PROVE  IsSeller(x) /\ x.status = "Accepted"
    OBVIOUS
  <2>1. Refunding(y)
    BY <1>11
  <2> DEFINE v == FillRound2(y.refund, 1, "refund1", SellerRefundKey(y))
             u == Finalize(v)
  <2>2. CanFinalize(v)
    BY DEF CanAccepted
  <2>3. /\ IsSlate(u) /\ Two(u.parts) /\ u.ins = y.refund.ins /\ u.sig # {}
        /\ Value(u.ins) = Value(Commits(u)) + u.fee
    BY <2>1, <2>2, SignedAndFinal DEF IsSeller, IsSwap
  <2>4. x = Accept(y, u, m.redeemPublic, m.refundKey)
    BY DEF DoAccepted, Accept
  <2> HIDE DEF v, u, S5
  <2>5. /\ IsSwap(x) /\ x.status = "Accepted" /\ x.primary = y.primary /\ x.ms = y.ms
        /\ x.lock = y.lock /\ x.refund = u /\ x.claim = y.claim
    BY <2>1, <2>3, <2>4, IsAccepted DEF IsSeller
  <2>6. MsCommit(x) = MsCommit(y)
    BY <2>5 DEF MsCommit
  <2>7. Refundable(x)
    BY <2>1, <2>3, <2>5, <2>6 DEF Refundable
  <2>8. QED
    BY <2>1, <2>5, <2>7 DEF IsSeller, Final
<1>13. ASSUME NEW x \in All
       PROVE  SellerFits(x) /\ lock = {} /\ x.status \in {"Offered", "Accepted"}
  <2> HIDE DEF S1, S2, S3, S4, S5, S6
  <2>1. IsSeller(x) /\ x.status \in {"Offered", "Accepted"}
    BY <1>1, <1>5, <1>7, <1>8, <1>9, <1>10, <1>11, <1>12
  <2>2. QED
    BY <1>1, <1>4, <2>1, EarlySeller DEF Final, Signed
<1> HIDE DEF All
<1>14. PICK x \in All : Replaces("seller", x)
  BY <1>3
<1>15. IInv'
  BY <1>1, <1>3, <1>13, <1>14, SellerStep
<1>16. QED
  BY <1>13, <1>14, <1>15 DEF Moved
LEMMA KernelPut ==
    ASSUME NEW t, IsSlate(t), NEW e, NEW u, u = [t EXCEPT !.excess = e]
    PROVE  /\ IsSlate(u) /\ u.excess = e /\ u.parts = t.parts /\ u.outs = t.outs
           /\ u.fee = t.fee /\ u.lock = t.lock /\ u.offset = t.offset /\ u.ins = t.ins
BY DEF IsSlate

LEMMA SellerInitRedeemKeeps ==
    ASSUME IInv, NEW m \in msgs, SellerInitRedeem(m)
    PROVE  IInv' /\ Moved("seller", {"Locked", "InitRedeem"})
<1> DEFINE s == swap.seller
           Do(k, x) == DoSignRedeem(k, x, m)
           S1 == {Do(1, x) : x \in {y \in {s} : CanSignRedeem(1, y)}}
           S2 == {Do(2, x) : x \in {y \in S1 : CanSignRedeem(2, y)}}
           Fault == /\ \/ faults < MaxFaults /\ faults' = faults + 1
                       \/ UNCHANGED faults
                    /\ UNCHANGED disk
           Half(S) == \E x \in S : swap' = [swap EXCEPT !["seller"] = x] /\ Fault
<1>1. /\ s.status = "Locked" /\ m.type = "InitRedeem"
      /\ UNCHANGED <<msgs, lock, redeem, paid>>
      /\ \/ (\E x \in S2 : Saves("seller", x)) /\ UNCHANGED faults
         \/ \E k \in 0 .. 1 : Half(CASE k = 0 -> {s} [] k = 1 -> S1)
  BY DEF SellerInitRedeem, Perform, After
<1>2. \/ (\E x \in S2 : Saves("seller", x)) /\ UNCHANGED faults
      \/ Half({s}) \/ Half(S1)
  <2> HIDE DEF Half, S1, S2
  <2>1. QED
    BY <1>1
<1> DEFINE All == {s} \cup S1 \cup S2
<1>3. (\E x \in All : Replaces("seller", x)) /\ faults' \in 0 .. MaxFaults
  <2> HIDE DEF S1, S2
  <2>1. \E x \in All : Replaces("seller", x)
    BY <1>1, <1>2 DEF Replaces
  <2>2. UNCHANGED faults \/ (faults < MaxFaults /\ faults' = faults + 1)
    BY <1>2
  <2>3. faults \in 0 .. MaxFaults
    BY DEF IInv
  <2>4. QED
    BY <2>1, <2>2, <2>3, SlatesAssumption
<1>4. s # NoSwap
  BY <1>1, NoSwapHasNoStatus
<1>5. /\ SellerFits(s) /\ IsSeller(s)
      /\ \A n \in msgs : n.type # "Redeem"
      /\ \A e \in There : e.status # "Redeem"
  BY <1>1, <1>4, SellerNow DEF SellerFits, Done
<1>6. IsSlate(m.slate) /\ Two(m.slate.parts)
  <2>1. IsMessage(m)
    BY DEF IInv, Consistent
  <2>2. QED
    BY <1>1, <2>1 DEF IsMessage
<1>7. ASSUME NEW e \in There
      PROVE  /\ e.status \in Asking /\ Same(m.slate, e.redeem) /\ m.adaptor = e.adaptor
             /\ m.adaptor = {BuyerSig(e, "redeem")}
  <2>1. Asked(m, e) /\ (e = NoSwap \/ IsBuyer(e))
    BY <1>7 DEF IInv, Consistent, There
  <2>2. e.status \in Asking /\ Same(m.slate, e.redeem) /\ m.adaptor = e.adaptor
    BY <1>1, <2>1 DEF Asked
  <2>3. IsBuyer(e)
    BY <2>1, <2>2, NoSwapHasNoStatus DEF Asking
  <2>4. QED
    BY <2>2, <2>3 DEF IsBuyer
<1> DEFINE Taken(x) == /\ IsSwap(x) /\ x.ms = s.ms /\ x.lock = s.lock /\ x.refund = s.refund
                       /\ x.claim = s.claim /\ x.redeemPublic = s.redeemPublic
                       /\ x.refundKey = s.refundKey /\ x.adaptor = m.adaptor
                       /\ Same(x.redeem, m.slate)
                       /\ x.redeem.excess = Excess(x.redeem)
<1>8. ASSUME NEW x, Taken(x), x.status \in {"Locked", "InitRedeem"} PROVE IsSeller(x)
  <2> HIDE DEF s
  <2>1. QED
    BY <1>1, <1>5, <1>8 DEF IsSeller, Final, Refundable
<1>9. \A x \in S1 : Taken(x) /\ x.status = "Locked"
  <2> SUFFICES ASSUME NEW x, x = Do(1, s) PROVE Taken(x) /\ x.status = "Locked"
    OBVIOUS
  <2> DEFINE t == [m.slate EXCEPT !.excess = Excess(m.slate)]
             a == [s EXCEPT !.redeem = t]
  <2>1. /\ IsSlate(t) /\ t.excess = Excess(m.slate) /\ t.parts = m.slate.parts
        /\ t.fee = m.slate.fee /\ t.lock = m.slate.lock /\ t.offset = m.slate.offset
        /\ t.ins = m.slate.ins /\ t.outs = m.slate.outs
    BY <1>6, KernelPut
  <2>2. x = [a EXCEPT !.adaptor = m.adaptor]
    BY DEF DoSignRedeem, TakeRedeem
  <2> HIDE DEF t, s
  <2>3. Same(t, m.slate)
    BY <1>6, <2>1 DEF Same
  <2>4. /\ IsSwap(a) /\ a.status = s.status /\ a.ms = s.ms /\ a.lock = s.lock
        /\ a.refund = s.refund /\ a.claim = s.claim /\ a.redeem = t
        /\ a.redeemPublic = s.redeemPublic /\ a.refundKey = s.refundKey
    BY <1>5, <2>1, RedeemPut DEF IsSeller
  <2> HIDE DEF a
  <2>5. /\ IsSwap(x) /\ x.status = s.status /\ x.ms = s.ms /\ x.lock = s.lock
        /\ x.refund = s.refund /\ x.claim = s.claim /\ x.redeem = t
        /\ x.redeemPublic = s.redeemPublic /\ x.refundKey = s.refundKey
        /\ x.adaptor = m.adaptor
    BY <2>2, <2>4, AdaptorPut
  <2>6. Excess(t) = Excess(m.slate)
    BY <2>3, SameIsSymmetric
  <2>7. QED
    BY <1>1, <2>1, <2>3, <2>5, <2>6
<1>10. \A x \in S2 : Taken(x) /\ x.status = "InitRedeem" /\ x.redeemPublic = "redeem"
  <2> SUFFICES ASSUME NEW y \in S1, CanSignRedeem(2, y), NEW x, x = Do(2, y)
               PROVE  Taken(x) /\ x.status = "InitRedeem" /\ x.redeemPublic = "redeem"
    OBVIOUS
  <2>1. Taken(y) /\ AdaptorValid(y)
    BY <1>9 DEF CanSignRedeem
  <2> DEFINE u == FillRound2(y.redeem, 1, "redeem1", SellerRedeemKey)
             a == [y EXCEPT !.redeem = u]
             g == {Signature("redeem1", SellerRedeemKey, Challenge(y.redeem), "")}
  <2>2. x = [a EXCEPT !.status = "InitRedeem"]
    BY DEF DoSignRedeem
  <2>3. IsSlate(y.redeem) /\ Two(y.redeem.parts)
    BY <2>1 DEF IsSwap, Same
  <2>4. SignedPart(y.redeem, u, 1, g)
    BY <2>3, Fill2
  <2> HIDE DEF u, s, g, S1
  <2>5. IsSlate(u) /\ Same(u, y.redeem) /\ u.excess = y.redeem.excess
    <3>1. DOMAIN y.redeem.parts = 1 .. 2
      BY <2>3 DEF Two
    <3>2. QED
      BY <2>3, <2>4, <3>1 DEF SignedPart, Same
  <2>6. Same(u, m.slate) /\ Excess(u) = Excess(y.redeem)
    BY <2>1, <2>5, SameIsTransitive, SameIsSymmetric
  <2>7. /\ IsSwap(a) /\ a.ms = s.ms /\ a.lock = s.lock
        /\ a.refund = s.refund /\ a.claim = s.claim /\ a.redeem = u
        /\ a.redeemPublic = s.redeemPublic /\ a.refundKey = s.refundKey
        /\ a.adaptor = m.adaptor
    BY <2>1, <2>5, RedeemPut
  <2> HIDE DEF a
  <2>8. /\ IsSwap(x) /\ x.status = "InitRedeem" /\ x.ms = s.ms /\ x.lock = s.lock
        /\ x.refund = s.refund /\ x.claim = s.claim /\ x.redeem = u
        /\ x.redeemPublic = s.redeemPublic /\ x.refundKey = s.refundKey
        /\ x.adaptor = m.adaptor
    BY <2>2, <2>7, StatusChanged
  <2>9. s.redeemPublic = "redeem"
    <3> DEFINE a1 == Signature(y.redeem.parts[2].nonce, y.redeem.parts[2].excess,
                              [Challenge(y.redeem) EXCEPT !.excess = Excess(y.redeem)],
                              y.redeemPublic)
               a2 == BuyerSig(swap.buyer, "redeem")
    <3>1. y.adaptor = {a1}
      BY <2>1 DEF AdaptorValid
    <3>2. m.adaptor = {a2}
      BY <1>7 DEF There
    <3>3. a1.extra = y.redeemPublic
      BY DEF Signature
    <3>4. a2.extra = "redeem"
      BY DEF BuyerSig, Signature
    <3> HIDE DEF a1, a2
    <3>5. a1 = a2
      BY <2>1, <3>1, <3>2
    <3>6. QED
      BY <2>1, <3>3, <3>4, <3>5
  <2>10. QED
    BY <2>1, <2>5, <2>6, <2>8, <2>9
<1>11. ASSUME NEW x \in S1 PROVE SellerFits(x) /\ x.status = "Locked"
  <2>1. Taken(x) /\ x.status = "Locked" /\ IsSeller(x)
    BY <1>8, <1>9, <1>11
  <2> HIDE DEF s, S1
  <2>2. QED
    BY <1>1, <1>5, <2>1
       DEF SellerFits, Agreed, Finished, Answered, Paid, Signed, Locks, Script, Final
<1>12. ASSUME NEW x \in S2 PROVE SellerFits(x) /\ x.status = "InitRedeem"
  <2>1. /\ Taken(x) /\ x.status = "InitRedeem" /\ x.redeemPublic = "redeem"
        /\ IsSeller(x)
    BY <1>8, <1>10, <1>12
  <2> HIDE DEF s, S2
  <2>2. ASSUME NEW e \in There PROVE Agreed(x, e)
    <3>1. e.status \in Asking /\ Same(m.slate, e.redeem) /\ m.adaptor = e.adaptor
      BY <1>7
    <3>2. Same(x.redeem, e.redeem)
      BY <2>1, <3>1, SameIsTransitive
    <3>3. QED
      BY <2>1, <3>1, <3>2 DEF Agreed
  <2>3. QED
    BY <1>1, <1>5, <2>1, <2>2
       DEF SellerFits, Finished, Answered, Paid, Locks, Script, Final
<1>13. \A x \in All : SellerFits(x) /\ x.status \in {"Locked", "InitRedeem"}
  <2> HIDE DEF S1, S2
  <2>1. QED
    BY <1>1, <1>5, <1>11, <1>12
<1> HIDE DEF All
<1>14. PICK x \in All : Replaces("seller", x)
  BY <1>3
<1>15. \A tx \in lock : Locks(tx, x)
  BY <1>13 DEF SellerFits
<1>16. IInv'
  BY <1>1, <1>3, <1>13, <1>14, <1>15, SellerStep
<1>17. QED
  BY <1>13, <1>14, <1>16 DEF Moved
ReplacePart(t, i, p) == [t EXCEPT !.parts[i] = p]

LEMMA PartReplaced ==
    ASSUME NEW t, IsSlate(t), Two(t.parts), NEW p, IsPart(p),
           p.nonce = t.parts[1].nonce, p.excess = t.parts[1].excess
    PROVE  /\ IsSlate(ReplacePart(t, 1, p)) /\ Same(ReplacePart(t, 1, p), t)
           /\ ReplacePart(t, 1, p).parts[1] = p
<1> DEFINE u == ReplacePart(t, 1, p)
           q == [t.parts EXCEPT ![1] = p]
<1>1. Two(q) /\ q[1] = p /\ q[2] = t.parts[2]
  BY DEF Two
<1>2. u = [t EXCEPT !.parts = q]
  BY DEF ReplacePart
<1> HIDE DEF q, u
<1>3. /\ IsSlate(u) /\ u.parts = q /\ u.fee = t.fee /\ u.lock = t.lock
      /\ u.offset = t.offset /\ u.ins = t.ins /\ u.outs = t.outs
  BY <1>1, <1>2 DEF IsSlate
<1>4. Same(u, t)
  BY <1>1, <1>3 DEF Same
<1>5. QED
  BY <1>1, <1>3, <1>4 DEF u

\* The Buyer's slate and adaptor signature are what they were when it asked.
LEMMA StillAsking ==
    ASSUME IInv, NEW e, e = swap.buyer, e.status = "InitRedeem",
           NEW x, IsSwap(x), x.status \in Asking,
           x.ms = e.ms, x.lock = e.lock, x.refund = e.refund, x.adaptor = e.adaptor,
           Same(x.redeem, e.redeem), \A s \in Here : Finished(s, x)
    PROVE  BuyerFits(x)
<1>1. e # NoSwap
  BY NoSwapHasNoStatus
<1>2. BuyerFits(e) /\ IsBuyer(e) /\ redeem = {}
  BY <1>1, BuyerNow DEF BuyerFits
<1>3. Same(e.redeem, x.redeem) /\ Challenge(x.redeem) = Challenge(e.redeem)
  BY SameIsSymmetric
<1>4. BuyerSig(x, "redeem") = BuyerSig(e, "redeem")
  BY <1>3 DEF BuyerSig, BuyerRedeemKey, Same
<1>5. Two(x.redeem.parts)
  BY <1>3 DEF Same
<1>6. IsBuyer(x)
  BY <1>2, <1>4, <1>5 DEF IsBuyer, Asking
<1>7. ASSUME NEW s \in Here PROVE Agreed(s, x)
  <2>1. Agreed(s, e)
    BY <1>2 DEF BuyerFits
  <2>2. Same(s.redeem, e.redeem) => Same(s.redeem, x.redeem)
    BY <1>3, SameIsTransitive
  <2>3. QED
    BY <2>1, <2>2 DEF Agreed
<1>8. ASSUME NEW m \in msgs PROVE Asked(m, x)
  <2>1. Asked(m, e)
    BY <1>2 DEF BuyerFits
  <2>2. Same(m.slate, e.redeem) => Same(m.slate, x.redeem)
    BY <1>3, SameIsTransitive
  <2>3. QED
    BY <2>1, <2>2 DEF Asked
<1>9. QED
  BY <1>2, <1>6, <1>7, <1>8 DEF BuyerFits

LEMMA BuyerRedeemKeeps ==
    ASSUME IInv, NEW m \in msgs, BuyerRedeem(m)
    PROVE  IInv' /\ \E x : Replaces("buyer", x)
<1> DEFINE e == swap.buyer
           Can(k, x) == CanFinalizeRedeem(k, x)
           Do(k, x) == DoFinalizeRedeem(k, x, m)
           S1 == {Do(1, x) : x \in {y \in {e} : Can(1, y)}}
           S2 == {Do(2, x) : x \in {y \in S1 : Can(2, y)}}
           S3 == {Do(3, x) : x \in {y \in S2 : Can(3, y)}}
           Fault == /\ \/ faults < MaxFaults /\ faults' = faults + 1
                       \/ UNCHANGED faults
                    /\ UNCHANGED disk
           Half(S) == \E x \in S : swap' = [swap EXCEPT !["buyer"] = x] /\ Fault
<1>1. /\ e.status = "InitRedeem" /\ m.type = "Redeem"
      /\ UNCHANGED <<msgs, lock, redeem, paid>>
      /\ \/ (\E x \in S3 : Saves("buyer", x)) /\ UNCHANGED faults
         \/ \E k \in 0 .. 2 : Half(CASE k = 0 -> {e} [] k = 1 -> S1 [] k = 2 -> S2)
  BY DEF BuyerRedeem, Perform, After
<1>2. \/ (\E x \in S3 : Saves("buyer", x)) /\ UNCHANGED faults
      \/ Half({e}) \/ Half(S1) \/ Half(S2)
  <2> HIDE DEF Half, S1, S2, S3
  <2>1. QED
    BY <1>1
<1> DEFINE All == {e} \cup S1 \cup S2 \cup S3
<1>3. (\E x \in All : Replaces("buyer", x)) /\ faults' \in 0 .. MaxFaults
  <2> HIDE DEF S1, S2, S3
  <2>1. \E x \in All : Replaces("buyer", x)
    BY <1>1, <1>2 DEF Replaces
  <2>2. UNCHANGED faults \/ (faults < MaxFaults /\ faults' = faults + 1)
    BY <1>2
  <2>3. faults \in 0 .. MaxFaults
    BY DEF IInv
  <2>4. QED
    BY <2>1, <2>2, <2>3, SlatesAssumption
<1>4. e # NoSwap
  BY <1>1, NoSwapHasNoStatus
<1>5. BuyerFits(e) /\ IsBuyer(e) /\ redeem = {}
  BY <1>1, <1>4, BuyerNow DEF BuyerFits
<1>6. Two(e.redeem.parts) /\ IsSlate(e.redeem) /\ IsSwap(e)
  BY <1>1, <1>5 DEF IsBuyer, IsSwap, Asking
<1>7. ASSUME NEW s \in Here
      PROVE  s.status \in Done /\ m.part = s.redeem.parts[1] /\ Same(s.redeem, e.redeem)
  <2>1. Answered(m, s) /\ Agreed(s, e)
    BY <1>5, <1>7 DEF IInv, Consistent, Here, BuyerFits
  <2>2. QED
    BY <1>1, <2>1 DEF Answered, Agreed, Done, Signed
<1>8. /\ IsPart(m.part) /\ m.part.nonce = e.redeem.parts[1].nonce
      /\ m.part.excess = e.redeem.parts[1].excess
  <2>1. IsMessage(m)
    BY DEF IInv, Consistent
  <2>2. swap.seller \in Here
    BY DEF Here
  <2>3. QED
    BY <1>1, <1>7, <2>1, <2>2 DEF IsMessage, Same
<1> DEFINE Kept(x) == /\ IsSwap(x) /\ x.ms = e.ms /\ x.lock = e.lock
                      /\ x.refund = e.refund /\ x.adaptor = e.adaptor
                      /\ Same(x.redeem, e.redeem) /\ x.redeem.parts[1] = m.part
<1>9. \A x \in S1 : Kept(x) /\ x.status = "InitRedeem"
  <2> SUFFICES ASSUME NEW x, x = Do(1, e) PROVE Kept(x) /\ x.status = "InitRedeem"
    OBVIOUS
  <2> DEFINE t == ReplacePart(e.redeem, 1, m.part)
  <2>1. IsSlate(t) /\ Same(t, e.redeem) /\ t.parts[1] = m.part
    BY <1>6, <1>8, PartReplaced
  <2>2. x = [e EXCEPT !.redeem = t]
    BY DEF DoFinalizeRedeem, ReplacePart
  <2> HIDE DEF t, e
  <2>3. QED
    BY <1>1, <1>6, <2>1, <2>2, RedeemPut
<1>10. \A x \in S2 : /\ Kept(x) /\ x.status = "InitRedeem"
                     /\ x.redeem.parts[2].sig = {BuyerSig(x, "")}
  <2> SUFFICES ASSUME NEW y \in S1, NEW x, x = Do(2, y)
               PROVE  /\ Kept(x) /\ x.status = "InitRedeem"
                      /\ x.redeem.parts[2].sig = {BuyerSig(x, "")}
    OBVIOUS
  <2>1. Kept(y) /\ y.status = "InitRedeem"
    BY <1>9
  <2> DEFINE t == y.redeem
             u == FillRound2(t, 2, "redeem2", BuyerRedeemKey(y))
             g == {Signature("redeem2", BuyerRedeemKey(y), Challenge(t), "")}
  <2>2. IsSlate(t) /\ Two(t.parts)
    BY <2>1 DEF IsSwap, Same
  <2>3. SignedPart(t, u, 2, g)
    BY <2>2, Fill2
  <2>4. x = [y EXCEPT !.redeem = u]
    BY DEF DoFinalizeRedeem
  <2>5. g = {BuyerSig(y, "")}
    BY DEF BuyerSig
  <2>6. DOMAIN t.parts = 1 .. 2
    BY <2>2 DEF Two
  <2> HIDE DEF u, g, e, S1
  <2>7. IsSlate(u) /\ Same(u, t) /\ u.parts[1] = t.parts[1] /\ u.parts[2].sig = g
    BY <2>2, <2>3, <2>6 DEF SignedPart, Same
  <2>8. Same(u, e.redeem) /\ Challenge(u) = Challenge(t) /\ u.offset = t.offset
    BY <2>1, <2>7, SameIsTransitive, SameIsSymmetric DEF Same
  <2>9. /\ IsSwap(x) /\ x.status = y.status /\ x.ms = y.ms /\ x.lock = y.lock
        /\ x.refund = y.refund /\ x.adaptor = y.adaptor /\ x.redeem = u
    BY <2>1, <2>4, <2>7, RedeemPut
  <2>10. BuyerSig(x, "") = BuyerSig(y, "")
    BY <2>8, <2>9 DEF BuyerSig, BuyerRedeemKey
  <2>11. QED
    BY <2>1, <2>5, <2>7, <2>8, <2>9, <2>10
<1>11. \A x \in S3 : /\ Kept(x) /\ x.status = "Redeem"
                     /\ x.redeem.excess = Excess(x.redeem)
                     /\ x.redeem.sig = m.part.sig \cup {BuyerSig(x, "")}
  <2> SUFFICES ASSUME NEW y \in S2, NEW x, x = Do(3, y)
               PROVE  /\ Kept(x) /\ x.status = "Redeem"
                      /\ x.redeem.excess = Excess(x.redeem)
                      /\ x.redeem.sig = m.part.sig \cup {BuyerSig(x, "")}
    OBVIOUS
  <2>1. Kept(y) /\ y.redeem.parts[2].sig = {BuyerSig(y, "")}
    BY <1>10
  <2> DEFINE t == y.redeem
             u == Finalize(t)
             a == [y EXCEPT !.redeem = u]
  <2>2. IsSlate(t) /\ Two(t.parts)
    BY <2>1 DEF IsSwap, Same
  <2>3. /\ IsSlate(u) /\ u.fee = t.fee /\ u.lock = t.lock /\ u.offset = t.offset
        /\ u.ins = t.ins /\ u.outs = t.outs /\ u.parts = t.parts
        /\ u.excess = Excess(t)
        /\ u.sig = UNION {t.parts[i].sig : i \in DOMAIN t.parts}
    BY <2>2, MakeFinal
  <2>4. x = [a EXCEPT !.status = "Redeem"]
    BY DEF DoFinalizeRedeem
  <2>5. DOMAIN t.parts = {1, 2}
    BY <2>2 DEF Two
  <2> HIDE DEF u, e, S2
  <2>6. u.sig = t.parts[1].sig \cup t.parts[2].sig
    <3>1. {t.parts[i].sig : i \in {1, 2}} = {t.parts[1].sig, t.parts[2].sig}
      OBVIOUS
    <3>2. QED
      BY <2>3, <2>5, <3>1
  <2>7. Same(u, t) /\ Challenge(u) = Challenge(t)
    BY <2>2, <2>3, SameIsSymmetric DEF Same
  <2>8. Same(u, e.redeem) /\ Excess(u) = Excess(t)
    BY <2>1, <2>7, SameIsTransitive, SameIsSymmetric
  <2>9. /\ IsSwap(a) /\ a.ms = y.ms /\ a.lock = y.lock
        /\ a.refund = y.refund /\ a.adaptor = y.adaptor /\ a.redeem = u
    <3>1. IsSlate(u) /\ IsSwap(y)
      BY <2>1, <2>3
    <3>2. QED
      BY <3>1, RedeemPut
  <2> HIDE DEF a
  <2>10. /\ IsSwap(x) /\ x.status = "Redeem" /\ x.ms = y.ms /\ x.lock = y.lock
         /\ x.refund = y.refund /\ x.adaptor = y.adaptor /\ x.redeem = u
    BY <2>4, <2>9, StatusChanged
  <2>11. BuyerSig(x, "") = BuyerSig(y, "")
    BY <2>3, <2>7, <2>10 DEF BuyerSig, BuyerRedeemKey
  <2>12. QED
    BY <2>1, <2>3, <2>6, <2>8, <2>10, <2>11
<1>12. ASSUME NEW x, Kept(x), x.status = "InitRedeem" PROVE BuyerFits(x)
  <2>1. \A s \in Here : Finished(s, x)
    BY <1>12 DEF Finished
  <2> HIDE DEF e
  <2>2. x.status \in Asking
    BY <1>12 DEF Asking
  <2>3. e = swap.buyer
    BY DEF e
  <2>4. QED
    BY <1>1, <1>12, <2>1, <2>2, <2>3, StillAsking
<1>13. ASSUME NEW x \in S3 PROVE BuyerFits(x)
  <2>1. /\ Kept(x) /\ x.status = "Redeem" /\ x.redeem.excess = Excess(x.redeem)
        /\ x.redeem.sig = m.part.sig \cup {BuyerSig(x, "")}
    BY <1>11, <1>13
  <2> HIDE DEF e, S3
  <2>2. \A s \in Here : Finished(s, x)
    BY <1>7, <2>1 DEF Finished
  <2>3. x.status \in Asking
    BY <2>1 DEF Asking
  <2>4. e = swap.buyer
    BY DEF e
  <2>5. QED
    BY <1>1, <2>1, <2>2, <2>3, <2>4, StillAsking
<1>14. \A x \in All : BuyerFits(x)
  <2> HIDE DEF e, S1, S2, S3, Kept
  <2>1. QED
    BY <1>5, <1>9, <1>10, <1>12, <1>13
<1> HIDE DEF All
<1>15. PICK x \in All : Replaces("buyer", x)
  BY <1>3
<1>16. IInv'
  BY <1>1, <1>3, <1>5, <1>14, <1>15, BuyerStep
<1>17. QED
  BY <1>15, <1>16

-----------------------------------------------------------------------------
(* The operations that make an object.                                       *)

\* The record of a slate that nobody has a part of yet.
IsBlank(t) ==
    /\ t = [fee |-> t.fee, lock |-> t.lock, ins |-> t.ins, outs |-> t.outs,
            offset |-> t.offset, parts |-> t.parts, excess |-> t.excess, sig |-> t.sig]
    /\ t.parts = <<>>

\* u is t with its first part.
Begun(t, u) == IsSlate(u) /\ One(u.parts) /\ u.ins = t.ins

LEMMA FirstFill ==
    ASSUME NEW t, IsBlank(t), NEW nonce, NEW key
    PROVE  Begun(t, FillRound1(t, nonce, key))
<1> DEFINE p == Part(nonce, key)
           u == FillRound1(t, nonce, key)
<1>1. IsPart(p)
  BY DEF IsPart, Part
<1> HIDE DEF p
<1>2. Append(<<>>, p) = <<p>>
  OBVIOUS
<1>3. One(<<p>>)
  BY <1>1 DEF One
<1> DEFINE q == <<p>>
<1>4. u = [t EXCEPT !.parts = q]
  BY <1>2 DEF FillRound1, AddPart, IsBlank, p
<1> HIDE DEF q, u
<1>5. IsSlate(u) /\ u.parts = q /\ u.ins = t.ins
  BY <1>3, <1>4 DEF IsBlank, IsSlate, q
<1>6. One(q)
  BY <1>3 DEF q
<1>7. QED
  BY <1>5, <1>6 DEF Begun, u

LEMMA CreateSwapOfferKeeps ==
    ASSUME IInv, NEW primary, NEW input, CreateSwapOffer(primary, input)
    PROVE  IInv' /\ Moved("seller", {"Created"})
<1> DEFINE x == NewOffer(primary, input)
           s == [status |-> "Created", primary |-> primary, ms |-> SellerMultisig,
                 lock |-> LockSlate((input - primary - LockFee) % Word, input),
                 refund |-> RefundSlate([primary |-> primary]), redeem |-> BlankSlate,
                 redeemPublic |-> "", adaptor |-> {}, published |-> FALSE,
                 refundKey |-> "", claim |-> {}]
           t1 == FillRound1(s.lock, "lock1", SellerLockKey(s))
           t2 == FillRound1(s.refund, "refund1", SellerRefundKey(s))
           t3 == FillRound1(s.redeem, "redeem1", SellerRedeemKey)
<1>1. /\ swap.seller = NoSwap /\ Saves("seller", x)
      /\ UNCHANGED <<msgs, lock, redeem, paid, faults>>
  BY DEF CreateSwapOffer
<1>2. x = [s EXCEPT !.lock = t1, !.refund = t2, !.redeem = t3]
  BY DEF NewOffer
<1>3. IsBlank(s.lock) /\ IsBlank(s.refund) /\ IsBlank(s.redeem) /\ s.refund.ins = {}
  <2> DEFINE a == Key("lockOffset", 0)
             b == {Commit("input", input)}
             c == {Output(Commit("change", (input - primary - LockFee) % Word), TRUE)}
             f == Key("refundOffset", 0)
             g == {Output(Commit("refund", AfterFee([primary |-> primary])), TRUE)}
  <2>1. /\ s.lock = [BlankSlate EXCEPT !.fee = LockFee, !.offset = a, !.ins = b, !.outs = c]
        /\ s.refund = [BlankSlate EXCEPT !.fee = SpendFee, !.lock = RefundDelta,
                                         !.offset = f, !.outs = g]
        /\ s.redeem = BlankSlate
    BY DEF LockSlate, RefundSlate
  <2> HIDE DEF a, b, c, f, g, s
  <2>2. QED
    BY <2>1 DEF IsBlank, BlankSlate
<1>4. /\ IsSlate(t1) /\ One(t1.parts) /\ IsSlate(t2) /\ One(t2.parts) /\ t2.ins = {}
      /\ IsSlate(t3)
  <2>1. Begun(s.lock, t1) /\ Begun(s.refund, t2) /\ Begun(s.redeem, t3)
    <3> HIDE DEF s
    <3>1. QED
      BY <1>3, FirstFill
  <2> HIDE DEF t1, t2, t3, s
  <2>2. QED
    BY <1>3, <2>1 DEF Begun
<1>5. x = [status |-> "Created", primary |-> primary, ms |-> SellerMultisig,
           lock |-> t1, refund |-> t2, redeem |-> t3,
           redeemPublic |-> "", adaptor |-> {}, published |-> FALSE,
           refundKey |-> "", claim |-> {}]
  <2> HIDE DEF t1, t2, t3, x
  <2>1. QED
    BY <1>2
<1> HIDE DEF t1, t2, t3, x, s
<1>6. IsSwap(x)
  BY <1>4, <1>5, SellerBuilder DEF IsSwap
<1>7. IsSeller(x)
  <2>1. /\ x.status = "Created" /\ x.ms = SellerMultisig /\ x.lock = t1 /\ x.refund = t2
        /\ x.claim = {}
    BY <1>5
  <2>2. Len(x.ms.parts) >= 1
    <3>1. \A n \in {1} : n >= 1
      OBVIOUS
    <3>2. Len(x.ms.parts) \in {1}
      BY <2>1, SellerBuilder
    <3>3. QED
      BY <3>1, <3>2
  <2>3. QED
    BY <1>4, <1>6, <2>1, <2>2 DEF IsSeller, Final
<1>8. SellerFits(x) /\ lock = {}
  <2>1. x.status = "Created"
    BY <1>5
  <2>2. QED
    BY <1>1, <1>7, <2>1, EarlySeller, NoSwapHasNoStatus DEF Final, Signed
<1>9. faults' \in 0 .. MaxFaults /\ Replaces("seller", x)
  BY <1>1 DEF IInv, Replaces
<1>10. IInv'
  BY <1>1, <1>8, <1>9, SellerStep
<1>11. QED
  <2>1. x.status \in {"Created"}
    BY <1>5
  <2>2. QED
    BY <1>9, <1>10, <2>1 DEF Moved

LEMMA TwoFills ==
    ASSUME NEW t, IsSlate(t), One(t.parts), NEW nonce, NEW k1, NEW k2
    PROVE  LET u == FillRound2(FillRound1(t, nonce, k1), 2, nonce, k2)
           IN  IsSlate(u) /\ Two(u.parts)
<1> DEFINE v == FillRound1(t, nonce, k1)
           u == FillRound2(v, 2, nonce, k2)
<1>1. IsSlate(v) /\ Two(v.parts)
  BY Fill1
<1> HIDE DEF v
<1>2. IsSlate(u) /\ Two(u.parts)
  BY <1>1, Fill2 DEF SignedPart
<1>3. QED
  BY <1>2 DEF v

LEMMA AcceptSwapOfferKeeps ==
    ASSUME IInv, NEW m \in msgs, NEW elapsed, AcceptSwapOffer(m, elapsed)
    PROVE  IInv' /\ Moved("buyer", {"Offered"})
<1> DEFINE x == Accepting(m)
           s == [status |-> "Offered", primary |-> m.primary, ms |-> BuyerMultisig(m.ms),
                 lock |-> m.lock, refund |-> m.refund,
                 redeem |-> StartRedeem(m),
                 redeemPublic |-> "redeem", adaptor |-> {}, published |-> FALSE,
                 refundKey |-> "refund", claim |-> {}]
           t1 == SignLockSlate(s)
           t2 == SignRefundSlate(s)
           t3 == StartRedeem(m)
<1>1. /\ swap.buyer = NoSwap /\ Saves("buyer", x) /\ m.type = "Offer"
      /\ UNCHANGED <<msgs, lock, redeem, paid, faults>>
  BY DEF AcceptSwapOffer
<1>2. /\ m.ms \in M!ParticipantData /\ IsPart(m.part)
      /\ IsSlate(m.lock) /\ One(m.lock.parts)
      /\ IsSlate(m.refund) /\ One(m.refund.parts)
  <2>1. IsMessage(m)
    BY DEF IInv, Consistent
  <2>2. QED
    BY <1>1, <2>1 DEF IsMessage
<1>3. x = [s EXCEPT !.lock = t1, !.refund = t2]
  BY DEF Accepting
<1>4. IsSlate(t1) /\ Two(t1.parts)
  <2> DEFINE c == MsCommit(s)
             a == AddOutput(m.lock, c, FALSE)
             u == FillRound2(FillRound1(a, "lock2", BuyerLockKey), 2, "lock2", BuyerLockKey)
  <2>1. t1 = u
    BY DEF SignLockSlate
  <2>2. IsSlate(a) /\ One(a.parts)
    <3> HIDE DEF c
    <3>1. WithOutput(m.lock, a, c)
      BY <1>2, OutputAdded
    <3> HIDE DEF a
    <3>2. QED
      BY <1>2, <3>1 DEF WithOutput
  <2> HIDE DEF a, s, t1
  <2>3. IsSlate(u) /\ Two(u.parts)
    BY <2>2, TwoFills
  <2>4. QED
    BY <2>1, <2>3
<1>5. IsSlate(t2) /\ Two(t2.parts)
  <2> DEFINE c == MsCommit(s)
             a == AddInput(m.refund, c)
             u == FillRound2(FillRound1(a, "refund2", BuyerRefundKey), 2,
                             "refund2", BuyerRefundKey)
  <2>1. t2 = u
    BY DEF SignRefundSlate
  <2>2. IsSlate(a) /\ One(a.parts)
    <3> HIDE DEF c
    <3>1. IsSlate(a) /\ a.parts = m.refund.parts
      BY <1>2, InputAdded
    <3> HIDE DEF a
    <3>2. QED
      BY <1>2, <3>1
  <2> HIDE DEF a, s, t2
  <2>3. IsSlate(u) /\ Two(u.parts)
    BY <2>2, TwoFills
  <2>4. QED
    BY <2>1, <2>3
<1>6. IsSlate(t3)
  <2> DEFINE q == <<m.part>>
  <2>1. One(q)
    BY <1>2 DEF One
  <2>2. t3 = [BlankSlate EXCEPT !.parts = q]
    BY DEF StartRedeem
  <2> HIDE DEF q, t3
  <2>3. QED
    BY <2>1, <2>2 DEF BlankSlate, IsSlate
<1> DEFINE b == BuyerMultisig(m.ms)
<1>7. b \in M!Builder /\ Len(b.parts) = 2
  BY <1>2, BuyerBuilder
<1>8. x = [status |-> "Offered", primary |-> m.primary, ms |-> b,
           lock |-> t1, refund |-> t2, redeem |-> t3,
           redeemPublic |-> "redeem", adaptor |-> {}, published |-> FALSE,
           refundKey |-> "refund", claim |-> {}]
  <2> HIDE DEF t1, t2, x
  <2>1. QED
    BY <1>3
<1> HIDE DEF t1, t2, t3, x, s, b
<1>9. IsSwap(x)
  BY <1>4, <1>5, <1>6, <1>7, <1>8 DEF IsSwap
<1>10. IsBuyer(x) /\ x.status = "Offered"
  BY <1>4, <1>5, <1>7, <1>8, <1>9 DEF IsBuyer, Asking
<1>11. BuyerFits(x) /\ redeem = {}
  BY <1>1, <1>10, EarlyBuyer, NoSwapHasNoStatus DEF Asking
<1>12. faults' \in 0 .. MaxFaults /\ Replaces("buyer", x)
  BY <1>1 DEF IInv, Replaces
<1>13. IInv'
  BY <1>1, <1>11, <1>12, BuyerStep
<1>14. QED
  BY <1>10, <1>12, <1>13 DEF Moved

-----------------------------------------------------------------------------
(* Every step keeps the invariant, and the invariant is what the properties  *)
(* follow from.                                                              *)

LEMMA NextKeepsIInv == IInv /\ [Next]_vars => IInv'
<1> SUFFICES ASSUME IInv, [Next]_vars PROVE IInv'
  OBVIOUS
<1>1. ASSUME NEW primary \in 0 .. Word - 1, NEW input \in 0 .. Word - 1,
             CreateSwapOffer(primary, input)
      PROVE  IInv'
  BY <1>1, CreateSwapOfferKeeps
<1>2. ASSUME NEW m \in msgs, Receive(m) PROVE IInv'
  <2>1. ASSUME NEW elapsed \in 0 .. RefundDelta, AcceptSwapOffer(m, elapsed) PROVE IInv'
    BY <2>1, AcceptSwapOfferKeeps
  <2>2. CASE AcceptedOffer(m)
    BY <2>2, AcceptedOfferKeeps
  <2>3. CASE SellerInitRedeem(m)
    BY <2>3, SellerInitRedeemKeeps
  <2>4. CASE BuyerRedeem(m)
    BY <2>4, BuyerRedeemKeeps
  <2>5. QED
    BY <1>2, <2>1, <2>2, <2>3, <2>4 DEF Receive
<1>3. CASE Sends
  BY <1>3, SendOfferKeeps, SendAcceptOfferKeeps, SendInitRedeemKeeps, SendRedeemKeeps
     DEF Sends
<1>4. CASE OnChain
  BY <1>4, PublishLockKeeps, DepositKeeps, SellerLockedKeeps, PublishRedeemKeeps,
     BuildRedeemTxKeeps DEF OnChain
<1>5. CASE Locking
  BY <1>5, BuyerLockedKeeps DEF Locking
<1>6. ASSUME NEW p \in Party, Reload(p) PROVE IInv'
  BY <1>6, ReloadKeeps
<1>7. CASE UNCHANGED vars
  <2>1. UNCHANGED <<swap, disk, msgs, lock, redeem, paid, faults>>
    BY <1>7 DEF vars
  <2>2. Consistent({swap'.seller, disk'.seller}, {swap'.buyer, disk'.buyer},
                   msgs', lock', redeem', paid')
    BY <2>1 DEF IInv
  <2>3. QED
    BY <2>1, <2>2 DEF IInv
<1>8. QED
  BY <1>1, <1>2, <1>3, <1>4, <1>5, <1>6, <1>7 DEF Next

LEMMA Invariance == Spec => []IInv
BY InitIInv, NextKeepsIInv, PTL DEF Spec

LEMMA PartsCounted ==
    ASSUME NEW t, IsSlate(t)
    PROVE  Len(t.parts) \in 1 .. 2
<1>1. CASE One(t.parts)
  <2>1. Len(t.parts) = 1
    BY <1>1 DEF One
  <2>2. QED
    BY <2>1
<1>2. CASE Two(t.parts)
  <2>1. Len(t.parts) = 2
    BY <1>2 DEF Two
  <2>2. QED
    BY <2>1
<1>3. QED
  BY <1>1, <1>2 DEF IsSlate

(* Whatever calls fail, both objects of both parties, the one in memory and  *)
(* the stored one, have a builder that is one and slates of one or two       *)
(* participants: the one-shot guards of the code hold after every error.     *)
THEOREM SlatesTypeCorrect == Spec => []TypeOK
<1>1. IInv => TypeOK
  <2> SUFFICES ASSUME IInv PROVE TypeOK
    OBVIOUS
  <2>1. Consistent(Here, There, msgs, lock, redeem, paid)
    BY DEF IInv, Here, There
  <2>2. ASSUME NEW p \in Party, NEW s \in {swap[p], disk[p]}, s # NoSwap PROVE IsSwap(s)
    <3>1. s \in Here \/ s \in There
      BY <2>2 DEF Party, Here, There
    <3>2. IsSeller(s) \/ IsBuyer(s)
      BY <2>1, <2>2, <3>1 DEF Consistent
    <3>3. QED
      BY <3>2 DEF IsSeller, IsBuyer
  <2>3. ASSUME NEW s, IsSwap(s)
        PROVE  /\ s.ms \in M!Builder /\ Len(s.lock.parts) \in 1 .. 2
               /\ Len(s.refund.parts) \in 1 .. 2 /\ Len(s.redeem.parts) \in 1 .. 2
    BY <2>3, PartsCounted DEF IsSwap
  <2>4. faults \in 0 .. MaxFaults
    BY DEF IInv
  <2>5. QED
    BY <2>2, <2>3, <2>4 DEF TypeOK
<1>2. QED
  BY <1>1, Invariance, PTL

(* The lock is published only by a Seller that has the final refund of it,   *)
(* in memory and stored, for every amount and fee and however many calls     *)
(* failed on the way (accepted_offer, finalize_refund_slate).                *)
THEOREM LockIsAlwaysRefundable == Spec => []LockIsRefundable
<1>1. IInv => LockIsRefundable
  <2> SUFFICES ASSUME IInv, NEW tx \in lock, NEW s \in Here
               PROVE  /\ s.refund.sig # {}
                      /\ s.refund.ins # {} /\ s.refund.ins \subseteq Commits(tx)
                      /\ Value(s.refund.ins) = Value(Commits(s.refund)) + s.refund.fee
    BY DEF LockIsRefundable, Here
  <2>1. Locks(tx, s) /\ (s = NoSwap \/ IsSeller(s))
    BY DEF IInv, Consistent, Here
  <2>2. s.status \in Final /\ tx = s.lock
    BY <2>1 DEF Locks
  <2>3. IsSeller(s)
    BY <2>1, <2>2, NoSwapHasNoStatus DEF Final
  <2>4. QED
    BY <2>2, <2>3 DEF IsSeller, Refundable
<1>2. QED
  BY <1>1, Invariance, PTL

(* A redeem transaction on the chain is one the Seller signed: it finds the  *)
(* kernel by the excess it computed, and the signatures it holds leave the   *)
(* secret and nothing else (find_redeem_kernel, calculate_redeem_secret).    *)
THEOREM SellerAlwaysLearnsSecret == Spec => []SellerLearnsSecret
<1>1. IInv => SellerLearnsSecret
  <2> SUFFICES ASSUME IInv, NEW tx \in redeem
               PROVE  /\ swap.seller.status \in {"Redeem", "RedeemSecondary"}
                      /\ tx \in FindKernel(swap.seller)
                      /\ RedeemSecret(swap.seller, tx) = {swap.seller.redeemPublic}
    BY DEF SellerLearnsSecret
  <2> DEFINE s == swap.seller
             e == swap.buyer
             own == s.redeem.parts[1].sig
             a == BuyerSig(e, "redeem")
  <2>1. /\ Agreed(s, e) /\ Finished(s, e) /\ Redeems(tx, e)
        /\ e = NoSwap \/ IsBuyer(e)
    BY DEF IInv, Consistent
  <2> HIDE DEF s, e
  <2>2. /\ e.status = "Redeem" /\ tx = e.redeem /\ s.status \in Done
        /\ e.redeem.excess = Excess(e.redeem)
        /\ e.redeem.sig = own \cup {BuyerSig(e, "")}
    <3>1. e.status = "Redeem" /\ tx = e.redeem
      BY <2>1 DEF Redeems
    <3>2. e.redeem.parts[1] = s.redeem.parts[1]
      BY <2>1, <3>1 DEF Finished
    <3>3. QED
      BY <2>1, <3>1, <3>2 DEF Finished
  <2>3. /\ Same(s.redeem, e.redeem) /\ s.adaptor = e.adaptor
        /\ s.redeem.excess = Excess(s.redeem) /\ s.redeemPublic = "redeem"
    BY <2>1, <2>2 DEF Agreed, Done, Signed
  <2>4. IsBuyer(e)
    BY <2>1, <2>2, NoSwapHasNoStatus
  <2>5. s.adaptor = {a}
    BY <2>2, <2>3, <2>4 DEF IsBuyer, Asking
  <2>6. tx \in FindKernel(s)
    <3>1. Excess(s.redeem) = Excess(e.redeem)
      BY <2>3, SameIsSymmetric
    <3>2. QED
      BY <2>2, <2>3, <3>1 DEF FindKernel
  <2>7. a.extra = "redeem" /\ [a EXCEPT !.extra = ""] = BuyerSig(e, "")
    <3>1. ASSUME NEW n, NEW k, NEW c, NEW x, NEW y
          PROVE  /\ Signature(n, k, c, x).extra = x
                 /\ [Signature(n, k, c, x) EXCEPT !.extra = y] = Signature(n, k, c, y)
      BY DEF Signature
    <3> DEFINE k == BuyerRedeemKey(e)
               c == Challenge(e.redeem)
               x == "redeem"
               y == ""
    <3>2. /\ a = Signature("redeem2", k, c, x)
          /\ BuyerSig(e, y) = Signature("redeem2", k, c, y)
      BY DEF BuyerSig
    <3> HIDE DEF k, c, a, x, y
    <3>3. a.extra = x /\ [a EXCEPT !.extra = y] = BuyerSig(e, y)
      BY <3>1, <3>2
    <3>4. QED
      BY <3>3 DEF x, y
  <2> HIDE DEF a, own
  <2>8. RedeemSecret(s, tx) = {s.redeemPublic}
    <3>1. {[b EXCEPT !.extra = ""] : b \in s.adaptor} = {BuyerSig(e, "")}
      <4>1. {[b EXCEPT !.extra = ""] : b \in {a}} = {[a EXCEPT !.extra = ""]}
        OBVIOUS
      <4>2. QED
        BY <2>5, <2>7, <4>1
    <3>2. tx.sig = {[b EXCEPT !.extra = ""] : b \in s.adaptor} \cup own
      BY <2>2, <3>1
    <3>3. RedeemSecret(s, tx) = {b.extra : b \in s.adaptor}
      BY <3>2 DEF RedeemSecret, own
    <3>4. {b.extra : b \in s.adaptor} = {"redeem"}
      BY <2>5, <2>7
    <3>5. QED
      BY <2>3, <3>3, <3>4
  <2>9. QED
    BY <2>2, <2>6, <2>8 DEF Done, s
<1>2. QED
  BY <1>1, Invariance, PTL

(* What the Seller makes to claim the deposit opens the script the Buyer has *)
(* paid to: the two parties arrive at the same script, and the signatures    *)
(* are in the order of its keys (script, redeem_script_sig).                 *)
THEOREM ClaimAlwaysOpensDeposit == Spec => []ClaimOpensDeposit
<1>1. IInv => ClaimOpensDeposit
  <2> SUFFICES ASSUME IInv, NEW s \in Here, s # NoSwap, NEW c \in s.claim
               PROVE  c.script \in paid /\ c.sigs = c.script.keys
    BY DEF ClaimOpensDeposit, Here
  <2>1. IsSeller(s) /\ Paid(s, paid)
    BY DEF IInv, Consistent, Here
  <2>2. /\ s.status = "RedeemSecondary" /\ c.script = Script(s)
        /\ c.sigs = <<"cosign", s.redeemPublic>>
    BY <2>1 DEF IsSeller
  <2>3. c.script \in paid
    BY <2>1, <2>2 DEF Paid, Signed
  <2>4. Script(s).keys = <<"cosign", s.redeemPublic>>
    BY DEF Script
  <2>5. QED
    BY <2>2, <2>3, <2>4
<1>2. QED
  BY <1>1, Invariance, PTL
-----------------------------------------------------------------------------
(* The order of an atomic swap.  A step that publishes, pays, claims or      *)
(* sends a signature is one of AtomicSwap's; what a party had to have done   *)
(* before is what the two objects of the other owe to one another.           *)
Order ==
    /\ \A e \in There :
          /\ e.status \in {"Locked"} \cup Asking => lock # {} /\ paid # {}
          /\ e.status \in Asking => AskedForGrin
    /\ \A s \in Here : s.status \in Done => GaveGrin
    /\ HasClaim(disk.seller) => HasClaim(swap.seller) /\ redeem # {}

\* What was published, paid and sent remains.
Remains ==
    /\ msgs \subseteq msgs'
    /\ lock # {} => lock' # {}
    /\ redeem # {} => redeem' # {}
    /\ paid # {} => paid' # {}

LEMMA MessagesRemain ==
    ASSUME msgs \subseteq msgs'
    PROVE  (AskedForGrin => AskedForGrin') /\ (GaveGrin => GaveGrin')
BY DEF AskedForGrin, GaveGrin

LEMMA ClaimIsLate ==
    ASSUME NEW s, s = NoSwap \/ IsSeller(s), s.status # "RedeemSecondary"
    PROVE  ~HasClaim(s)
BY DEF HasClaim, IsSeller

LEMMA Objects ==
    ASSUME IInv
    PROVE  /\ \A s \in Here : s = NoSwap \/ IsSeller(s)
           /\ \A e \in There : e = NoSwap \/ IsBuyer(e)
           /\ swap.seller \in Here /\ disk.seller \in Here
           /\ swap.buyer \in There /\ disk.buyer \in There
BY DEF IInv, Consistent, Here, There

\* How far the swap has come tells how far it had to come before.
LEMMA CameBefore ==
    ASSUME IInv, Order
    PROVE  /\ GaveGrin => AskedForGrin
           /\ \A s \in Here : s.status \in Signed => AskedForGrin /\ paid # {}
           /\ \A e \in There : e.status = "Redeem" => GaveGrin
           /\ redeem # {} => GaveGrin
           /\ HasClaim(disk.seller) => paid # {}
<1>1. Consistent(Here, There, msgs, lock, redeem, paid)
  BY DEF IInv, Here, There
<1>2. ASSUME NEW s \in Here, s.status \in Signed PROVE AskedForGrin /\ paid # {}
  <2>1. swap.buyer \in There /\ Agreed(s, swap.buyer) /\ Paid(s, paid)
    BY <1>1, Objects DEF Consistent
  <2>2. QED
    BY <1>2, <2>1 DEF Agreed, Order, Paid
<1>3. ASSUME NEW e \in There, e.status = "Redeem" PROVE GaveGrin
  <2>1. swap.seller \in Here /\ Finished(swap.seller, e)
    BY <1>1, Objects DEF Consistent
  <2>2. QED
    BY <1>3, <2>1 DEF Finished, Order
<1>4. ASSUME redeem # {} PROVE GaveGrin
  <2>1. PICK tx \in redeem : TRUE
    BY <1>4
  <2>2. swap.buyer \in There /\ Redeems(tx, swap.buyer)
    BY <1>1, Objects DEF Consistent
  <2>3. QED
    BY <1>3, <2>2 DEF Redeems
<1>5. ASSUME GaveGrin PROVE AskedForGrin
  <2>1. PICK m \in msgs : m.type = "Redeem"
    BY <1>5 DEF GaveGrin
  <2>2. swap.seller \in Here /\ Answered(m, swap.seller)
    BY <1>1, Objects DEF Consistent
  <2>3. QED
    BY <1>2, <2>1, <2>2 DEF Answered, Done, Signed
<1>6. ASSUME HasClaim(disk.seller) PROVE paid # {}
  <2>1. disk.seller \in Here /\ disk.seller.status = "RedeemSecondary"
    BY <1>6, Objects, ClaimIsLate
  <2>2. QED
    BY <1>2, <2>1 DEF Signed
<1>7. QED
  BY <1>2, <1>3, <1>4, <1>5, <1>6

\* The Seller's object changes, before it has a claim.
LEMMA SellerOrder ==
    ASSUME IInv, IInv', Order, NEW x, Replaces("seller", x), Remains,
           UNCHANGED redeem, swap.seller.status # "RedeemSecondary",
           x.status \in Done => GaveGrin',
           x.status = "RedeemSecondary" => redeem # {}
    PROVE  /\ Order' /\ ~HasClaim(disk.seller)
           /\ x.status # "RedeemSecondary" => ~HasClaim(disk.seller)'
<1>1. "seller" \in Party /\ "buyer" \in Party \ {"seller"}
  BY DEF Party
<1>2. /\ swap'.seller = x /\ There' = There
      /\ disk'.seller = x \/ disk'.seller = disk.seller
  BY <1>1, Replaced DEF There
<1>3. ~HasClaim(swap.seller) /\ ~HasClaim(disk.seller)
  BY Objects, ClaimIsLate DEF Order
<1>4. x = NoSwap \/ IsSeller(x)
  <2>1. (\A s \in Here' : s = NoSwap \/ IsSeller(s)) /\ swap'.seller \in Here'
    BY DEF IInv, Consistent, Here
  <2>2. QED
    BY <1>2, <2>1
<1>5. /\ x.status # "RedeemSecondary" => ~HasClaim(disk'.seller)
      /\ HasClaim(disk'.seller) => HasClaim(swap'.seller) /\ redeem' # {}
  BY <1>2, <1>3, <1>4, ClaimIsLate
<1>6. \A e \in There' :
        /\ e.status \in {"Locked"} \cup Asking => lock' # {} /\ paid' # {}
        /\ e.status \in Asking => AskedForGrin'
  BY <1>2, MessagesRemain DEF Order, Remains
<1>7. \A s \in Here' : s.status \in Done => GaveGrin'
  BY <1>2, MessagesRemain DEF Order, Remains, Here
<1>8. Order'
  BY <1>5, <1>6, <1>7 DEF Order
<1>9. QED
  BY <1>3, <1>5, <1>8

\* The Buyer's object changes.
LEMMA BuyerOrder ==
    ASSUME IInv, Order, NEW x, Replaces("buyer", x), Remains,
           x.status \in {"Locked"} \cup Asking => lock' # {} /\ paid' # {},
           x.status \in Asking => AskedForGrin'
    PROVE  Order' /\ disk'.seller = disk.seller
<1>1. "buyer" \in Party /\ "seller" \in Party \ {"buyer"}
  BY DEF Party
<1>2. /\ swap'.buyer = x /\ Here' = Here
      /\ disk'.buyer = x \/ disk'.buyer = disk.buyer
      /\ disk'.seller = disk.seller /\ swap'.seller = swap.seller
  BY <1>1, Replaced DEF Here
<1>3. \A e \in There' :
        /\ e.status \in {"Locked"} \cup Asking => lock' # {} /\ paid' # {}
        /\ e.status \in Asking => AskedForGrin'
  BY <1>2, MessagesRemain DEF Order, Remains, There
<1>4. \A s \in Here' : s.status \in Done => GaveGrin'
  BY <1>2, MessagesRemain DEF Order, Remains
<1>5. Order'
  BY <1>2, <1>3, <1>4 DEF Order, Remains
<1>6. QED
  BY <1>2, <1>5

LEMMA Unseen ==
    ASSUME UNCHANGED <<lock, redeem, paid>>, AskedForGrin' <=> AskedForGrin,
           GaveGrin' <=> GaveGrin, HasClaim(disk.seller)' <=> HasClaim(disk.seller)
    PROVE  UNCHANGED Swap!vars
BY DEF Swap!vars, GrinHolder, QtumHolder, Pledged

LEMMA OtherMessages ==
    ASSUME msgs \subseteq msgs',
           \A m \in msgs' \ msgs : m.type \notin {"InitRedeem", "Redeem"}
    PROVE  (AskedForGrin' <=> AskedForGrin) /\ (GaveGrin' <=> GaveGrin)
BY DEF AskedForGrin, GaveGrin

LEMMA SellerUnseen ==
    ASSUME IInv, IInv', Order, NEW x, Replaces("seller", x),
           UNCHANGED <<lock, redeem, paid>>, msgs \subseteq msgs',
           \A m \in msgs' \ msgs : m.type \notin {"InitRedeem", "Redeem"},
           swap.seller.status # "RedeemSecondary", x.status \notin Done
    PROVE  Order' /\ UNCHANGED Swap!vars
<1>1. Order' /\ ~HasClaim(disk.seller) /\ ~HasClaim(disk.seller)'
  BY SellerOrder DEF Remains, Done
<1>2. QED
  BY <1>1, OtherMessages, Unseen

LEMMA BuyerUnseen ==
    ASSUME IInv, Order, NEW x, Replaces("buyer", x),
           UNCHANGED <<lock, redeem, paid>>, msgs \subseteq msgs',
           \A m \in msgs' \ msgs : m.type \notin {"InitRedeem", "Redeem"},
           x.status \in {"Locked"} \cup Asking => lock # {} /\ paid # {},
           x.status \in Asking => AskedForGrin
    PROVE  Order' /\ UNCHANGED Swap!vars
<1>1. Order' /\ disk'.seller = disk.seller
  BY BuyerOrder, OtherMessages DEF Remains
<1>2. QED
  BY <1>1, OtherMessages, Unseen
Orderly == Order' /\ [Swap!Next]_(Swap!vars)

LEMMA SellerMoves ==
    ASSUME IInv, IInv', Order, NEW T, Moved("seller", T), T \cap Done = {},
           UNCHANGED <<msgs, lock, redeem, paid>>,
           swap.seller.status # "RedeemSecondary"
    PROVE  Orderly
<1>1. PICK x : Replaces("seller", x) /\ x.status \in T
  BY DEF Moved
<1>2. Order' /\ UNCHANGED Swap!vars
  BY <1>1, SellerUnseen
<1>3. QED
  BY <1>2 DEF Orderly

LEMMA CreateSwapOfferInOrder ==
    ASSUME IInv, IInv', Order, NEW primary, NEW input, CreateSwapOffer(primary, input)
    PROVE  Orderly
<1>1. Moved("seller", {"Created"})
  BY CreateSwapOfferKeeps
<1>2. swap.seller.status # "RedeemSecondary" /\ UNCHANGED <<msgs, lock, redeem, paid>>
  BY NoSwapHasNoStatus DEF CreateSwapOffer
<1>3. QED
  BY <1>1, <1>2, SellerMoves DEF Done

LEMMA AcceptedOfferInOrder ==
    ASSUME IInv, IInv', Order, NEW m \in msgs, AcceptedOffer(m)
    PROVE  Orderly
<1>1. Moved("seller", {"Offered", "Accepted"})
  BY AcceptedOfferKeeps
<1>2. swap.seller.status # "RedeemSecondary" /\ UNCHANGED <<msgs, lock, redeem, paid>>
  BY DEF AcceptedOffer
<1>3. QED
  BY <1>1, <1>2, SellerMoves DEF Done

LEMMA SellerInitRedeemInOrder ==
    ASSUME IInv, IInv', Order, NEW m \in msgs, SellerInitRedeem(m)
    PROVE  Orderly
<1>1. Moved("seller", {"Locked", "InitRedeem"})
  BY SellerInitRedeemKeeps
<1>2. swap.seller.status # "RedeemSecondary" /\ UNCHANGED <<msgs, lock, redeem, paid>>
  BY DEF SellerInitRedeem
<1>3. QED
  BY <1>1, <1>2, SellerMoves DEF Done

LEMMA SellerLockedInOrder ==
    ASSUME IInv, IInv', Order, SellerLocked
    PROVE  Orderly
<1> DEFINE s == swap.seller
           x == [s EXCEPT !.status = "Locked"]
<1>1. /\ s.status = "Accepted" /\ Saves("seller", x)
      /\ UNCHANGED <<msgs, lock, redeem, paid>>
  BY DEF SellerLocked
<1>2. IsSwap(s)
  BY <1>1, NoSwapHasNoStatus, SellerNow
<1> HIDE DEF s
<1>3. x.status = "Locked"
  BY <1>2, StatusChanged
<1> HIDE DEF x
<1>4. Moved("seller", {"Locked"})
  BY <1>1, <1>3 DEF Moved, Replaces
<1>5. QED
  BY <1>1, <1>4, SellerMoves DEF Done, s

LEMMA SendOfferInOrder ==
    ASSUME IInv, IInv', Order, SendOffer
    PROVE  Orderly
<1> DEFINE s == swap.seller
           x == [s EXCEPT !.status = "Offered"]
           m == Offer(s)
<1>1. /\ s.status = "Created" /\ msgs' = msgs \cup {m} /\ Saves("seller", x)
      /\ UNCHANGED <<lock, redeem, paid>>
  BY DEF SendOffer, Send
<1>2. IsSwap(s)
  BY <1>1, NoSwapHasNoStatus, SellerNow
<1>3. m.type = "Offer"
  BY DEF Offer
<1> HIDE DEF s, m
<1>4. x.status = "Offered"
  BY <1>2, StatusChanged
<1> HIDE DEF x
<1>5. Replaces("seller", x) /\ swap.seller.status # "RedeemSecondary"
  BY <1>1 DEF Replaces, s
<1>6. Order' /\ UNCHANGED Swap!vars
  BY <1>1, <1>3, <1>4, <1>5, SellerUnseen DEF Done
<1>7. QED
  BY <1>6 DEF Orderly

\* The Seller lets the Grin go, when it answers for the first time.
LEMMA SendRedeemInOrder ==
    ASSUME IInv, IInv', Order, SendRedeem
    PROVE  Orderly
<1> DEFINE s == swap.seller
           x == [s EXCEPT !.status = "Redeem"]
           m == Redeem(s)
<1>1. /\ s.status = "InitRedeem" /\ msgs' = msgs \cup {m} /\ Saves("seller", x)
      /\ UNCHANGED <<lock, redeem, paid>>
  BY DEF SendRedeem, Send
<1>2. IsSwap(s)
  BY <1>1, NoSwapHasNoStatus, SellerNow
<1>3. m.type = "Redeem"
  BY DEF Redeem
<1>4. AskedForGrin
  BY <1>1, Objects, CameBefore DEF Signed
<1> HIDE DEF s, m
<1>5. x.status = "Redeem"
  BY <1>2, StatusChanged
<1> HIDE DEF x
<1>6. Replaces("seller", x) /\ swap.seller.status # "RedeemSecondary"
  BY <1>1 DEF Replaces, s
<1>7. AskedForGrin' /\ GaveGrin' /\ Remains
  BY <1>1, <1>3, <1>4 DEF AskedForGrin, GaveGrin, Remains
<1>8. Order' /\ ~HasClaim(disk.seller) /\ ~HasClaim(disk.seller)'
  BY <1>1, <1>5, <1>6, <1>7, SellerOrder
<1>9. UNCHANGED <<GrinHolder, QtumHolder>>
  BY <1>1, <1>8 DEF GrinHolder, QtumHolder
<1>10. CASE GaveGrin
  BY <1>1, <1>4, <1>7, <1>8, <1>10, Unseen DEF Orderly
<1>11. CASE ~GaveGrin
  <2>1. Pledged = {"buyer"} /\ Pledged' = {"buyer", "seller"}
    BY <1>4, <1>7, <1>11 DEF Pledged
  <2>2. Swap!SellerPledges
    BY <1>9, <2>1 DEF Swap!SellerPledges
  <2>3. QED
    BY <1>8, <2>2 DEF Orderly, Swap!Next
<1>12. QED
  BY <1>10, <1>11

LEMMA PublishLockInOrder ==
    ASSUME IInv, IInv', Order, PublishLock
    PROVE  Orderly
<1> DEFINE s == swap.seller
           x == [s EXCEPT !.published = TRUE]
<1>1. /\ s.status = "Accepted" /\ lock' = {s.lock} /\ Saves("seller", x)
      /\ UNCHANGED <<msgs, redeem, paid>>
  BY DEF PublishLock
<1>2. IsSwap(s)
  BY <1>1, NoSwapHasNoStatus, SellerNow
<1>3. redeem = {}
  <2>1. swap.seller \in Here /\ swap.seller.status \notin Done
    BY <1>1, Objects DEF Done
  <2>2. ASSUME NEW tx \in redeem PROVE FALSE
    <3>1. Redeems(tx, swap.buyer) /\ Finished(swap.seller, swap.buyer)
      BY DEF IInv, Consistent
    <3>2. QED
      BY <2>1, <3>1 DEF Redeems, Finished
  <2>3. QED
    BY <2>2
<1>4. s.status # "RedeemSecondary" /\ lock' # {}
  BY <1>1
<1> HIDE DEF s
<1>5. x.status = "Accepted"
  BY <1>1, <1>2, IsPublished
<1> HIDE DEF x
<1>6. Replaces("seller", x) /\ swap.seller.status # "RedeemSecondary"
  BY <1>1 DEF Replaces, s
<1>7. Order' /\ ~HasClaim(disk.seller) /\ ~HasClaim(disk.seller)'
  BY <1>1, <1>4, <1>5, <1>6, SellerOrder DEF Remains, Done
<1>8. UNCHANGED <<QtumHolder, Pledged>>
  BY <1>1, <1>7 DEF QtumHolder, Pledged, AskedForGrin, GaveGrin
<1>9. GrinHolder' = "locked"
  BY <1>1, <1>3, <1>4 DEF GrinHolder
<1>10. CASE lock = {}
  <2>1. GrinHolder = "seller"
    BY <1>3, <1>10 DEF GrinHolder
  <2>2. Swap!LockGrin
    BY <1>8, <1>9, <2>1 DEF Swap!LockGrin
  <2>3. QED
    BY <1>7, <2>2 DEF Orderly, Swap!Next
<1>11. CASE lock # {}
  <2>1. GrinHolder = "locked"
    BY <1>3, <1>11 DEF GrinHolder
  <2>2. UNCHANGED Swap!vars
    BY <1>8, <1>9, <2>1 DEF Swap!vars
  <2>3. QED
    BY <1>7, <2>2 DEF Orderly
<1>12. QED
  BY <1>10, <1>11

\* The Qtum is the Seller's with the claim, which it does not have before.
LEMMA BuildRedeemTxInOrder ==
    ASSUME IInv, IInv', Order, BuildRedeemTx
    PROVE  Orderly
<1> DEFINE s == swap.seller
           claim == ScriptSig(s, s.redeemPublic)
           x == Claiming(s, {claim})
<1>1. /\ s.status = "Redeem" /\ redeem # {} /\ Saves("seller", x)
      /\ UNCHANGED <<msgs, lock, redeem, paid>>
  BY DEF BuildRedeemTx, FindKernel, Claiming
<1>2. IsSwap(s)
  BY <1>1, NoSwapHasNoStatus, SellerNow
<1>3. paid # {} /\ GaveGrin
  BY <1>1, Objects, CameBefore DEF Signed
<1> HIDE DEF s, claim
<1>4. x.status = "RedeemSecondary" /\ x.claim = {claim}
  BY <1>2, ClaimMade
<1> HIDE DEF x
<1>5. Replaces("seller", x) /\ swap.seller.status # "RedeemSecondary"
  BY <1>1 DEF Replaces, s
<1>6. GaveGrin'
  BY <1>1, <1>3 DEF GaveGrin
<1>7. Order' /\ ~HasClaim(disk.seller)
  BY <1>1, <1>4, <1>5, <1>6, SellerOrder DEF Remains
<1>8. disk.seller' = x
  <2>1. disk = [p \in Party |-> disk[p]] /\ "seller" \in Party
    BY DEF IInv, Party
  <2>2. QED
    BY <1>1, <2>1 DEF Saves
<1>9. HasClaim(disk.seller)'
  BY <1>4, <1>8, NoSwapHasNoStatus DEF HasClaim
<1>10. GrinHolder = "buyer" /\ UNCHANGED <<GrinHolder, Pledged>>
  BY <1>1 DEF GrinHolder, Pledged, AskedForGrin, GaveGrin
<1>11. QtumHolder = "locked" /\ QtumHolder' = "seller"
  BY <1>3, <1>7, <1>9 DEF QtumHolder
<1>12. Swap!TakeQtum
  BY <1>10, <1>11 DEF Swap!TakeQtum
<1>13. QED
  BY <1>7, <1>12 DEF Orderly, Swap!Next
LEMMA BuyerMoves ==
    ASSUME IInv, Order, NEW T, Moved("buyer", T),
           UNCHANGED <<msgs, lock, redeem, paid>>,
           T \cap ({"Locked"} \cup Asking) # {} => lock # {} /\ paid # {},
           T \cap Asking # {} => AskedForGrin
    PROVE  Orderly
<1>1. PICK x : Replaces("buyer", x) /\ x.status \in T
  BY DEF Moved
<1>2. Order' /\ UNCHANGED Swap!vars
  BY <1>1, BuyerUnseen
<1>3. QED
  BY <1>2 DEF Orderly

LEMMA AcceptSwapOfferInOrder ==
    ASSUME IInv, Order, NEW m \in msgs, NEW elapsed, AcceptSwapOffer(m, elapsed)
    PROVE  Orderly
<1>1. Moved("buyer", {"Offered"})
  BY AcceptSwapOfferKeeps
<1>2. UNCHANGED <<msgs, lock, redeem, paid>>
  BY DEF AcceptSwapOffer
<1>3. QED
  BY <1>1, <1>2, BuyerMoves DEF Asking

LEMMA BuyerLockedInOrder ==
    ASSUME IInv, Order, NEW offset \in Offsets, BuyerLocked(offset)
    PROVE  Orderly
<1>1. Moved("buyer", {"Accepted", "Locked"})
  BY BuyerLockedKeeps
<1>2. UNCHANGED <<msgs, lock, redeem, paid>> /\ lock # {} /\ paid # {}
  BY DEF BuyerLocked, LockedOnGrin
<1>3. QED
  BY <1>1, <1>2, BuyerMoves DEF Asking

LEMMA BuyerRedeemInOrder ==
    ASSUME IInv, Order, NEW m \in msgs, BuyerRedeem(m)
    PROVE  Orderly
<1>1. PICK x : Replaces("buyer", x)
  BY BuyerRedeemKeeps
<1>2. UNCHANGED <<msgs, lock, redeem, paid>> /\ swap.buyer.status \in Asking
  BY DEF BuyerRedeem, Asking
<1>3. lock # {} /\ paid # {} /\ AskedForGrin
  BY <1>2, Objects DEF Order
<1>4. Order' /\ UNCHANGED Swap!vars
  BY <1>1, <1>2, <1>3, BuyerUnseen
<1>5. QED
  BY <1>4 DEF Orderly

LEMMA SendAcceptOfferInOrder ==
    ASSUME IInv, Order, SendAcceptOffer
    PROVE  Orderly
<1> DEFINE e == swap.buyer
           x == [e EXCEPT !.status = "Accepted"]
           m == AcceptOffer(e)
<1>1. /\ e.status = "Offered" /\ msgs' = msgs \cup {m} /\ Saves("buyer", x)
      /\ UNCHANGED <<lock, redeem, paid>>
  BY DEF SendAcceptOffer, Send
<1>2. IsSwap(e)
  BY <1>1, NoSwapHasNoStatus, BuyerNow
<1>3. m.type = "AcceptOffer"
  BY DEF AcceptOffer
<1> HIDE DEF e, m
<1>4. x.status = "Accepted"
  BY <1>2, StatusChanged
<1> HIDE DEF x
<1>5. Replaces("buyer", x)
  BY <1>1 DEF Replaces
<1>6. Order' /\ UNCHANGED Swap!vars
  BY <1>1, <1>3, <1>4, <1>5, BuyerUnseen DEF Asking
<1>7. QED
  BY <1>6 DEF Orderly

\* The Buyer asks for the Grin, when both are locked, before the Seller answers.
LEMMA SendInitRedeemInOrder ==
    ASSUME IInv, Order, SendInitRedeem
    PROVE  Orderly
<1> DEFINE e == swap.buyer
           x == [e EXCEPT !.status = "InitRedeem"]
           m == InitRedeem(e)
<1>1. /\ e.status = "Locked" /\ msgs' = msgs \cup {m} /\ Saves("buyer", x)
      /\ UNCHANGED <<lock, redeem, paid>>
  BY DEF SendInitRedeem, Send
<1>2. IsSwap(e)
  BY <1>1, NoSwapHasNoStatus, BuyerNow
<1>3. m.type = "InitRedeem"
  BY DEF InitRedeem
<1>4. lock # {} /\ paid # {}
  BY <1>1, Objects DEF Order
<1> HIDE DEF e, m
<1>5. x.status = "InitRedeem"
  BY <1>2, StatusChanged
<1> HIDE DEF x
<1>6. Replaces("buyer", x)
  BY <1>1 DEF Replaces
<1>7. AskedForGrin' /\ (GaveGrin' <=> GaveGrin) /\ Remains
  BY <1>1, <1>3 DEF AskedForGrin, GaveGrin, Remains
<1>8. Order' /\ disk'.seller = disk.seller
  BY <1>1, <1>4, <1>6, <1>7, BuyerOrder
<1>9. UNCHANGED <<GrinHolder, QtumHolder>>
  BY <1>1, <1>8 DEF GrinHolder, QtumHolder
<1>10. CASE AskedForGrin
  BY <1>1, <1>7, <1>8, <1>10, Unseen DEF Orderly
<1>11. CASE ~AskedForGrin
  <2>1. ~GaveGrin /\ redeem = {} /\ ~HasClaim(disk.seller)
    BY <1>11, CameBefore DEF Order
  <2>2. Pledged = {} /\ Pledged' = {"buyer"}
    BY <1>7, <1>11, <2>1 DEF Pledged
  <2>3. GrinHolder = "locked" /\ QtumHolder = "locked"
    BY <1>4, <2>1 DEF GrinHolder, QtumHolder
  <2>4. Swap!BuyerPledges
    BY <1>9, <2>2, <2>3 DEF Swap!BuyerPledges
  <2>5. QED
    BY <1>8, <2>4 DEF Orderly, Swap!Next
<1>12. QED
  BY <1>10, <1>11

LEMMA PublishRedeemInOrder ==
    ASSUME IInv, Order, PublishRedeem
    PROVE  Orderly
<1> DEFINE e == swap.buyer
           x == [e EXCEPT !.published = TRUE]
<1>1. /\ e.status = "Redeem" /\ redeem' = {e.redeem} /\ Saves("buyer", x)
      /\ UNCHANGED <<msgs, lock, paid>>
  BY DEF PublishRedeem
<1>2. IsSwap(e)
  BY <1>1, NoSwapHasNoStatus, BuyerNow
<1>3. lock # {} /\ paid # {} /\ AskedForGrin /\ GaveGrin /\ redeem' # {}
  BY <1>1, Objects, CameBefore DEF Order, Asking
<1> HIDE DEF e
<1>4. x.status = "Redeem"
  BY <1>1, <1>2, IsPublished
<1> HIDE DEF x
<1>5. Replaces("buyer", x)
  BY <1>1 DEF Replaces
<1>6. /\ AskedForGrin' /\ GaveGrin' /\ Remains
      /\ Pledged = {"buyer", "seller"} /\ Pledged' = Pledged
  BY <1>1, <1>3 DEF AskedForGrin, GaveGrin, Pledged, Remains
<1>7. Order' /\ disk'.seller = disk.seller
  BY <1>1, <1>3, <1>5, <1>6, BuyerOrder
<1>8. GrinHolder' = "buyer" /\ QtumHolder' = QtumHolder
  BY <1>1, <1>3, <1>7 DEF GrinHolder, QtumHolder
<1>9. CASE redeem = {}
  <2>1. ~HasClaim(disk.seller)
    BY <1>9 DEF Order
  <2>2. GrinHolder = "locked" /\ QtumHolder = "locked"
    BY <1>3, <1>9, <2>1 DEF GrinHolder, QtumHolder
  <2>3. Swap!TakeGrin
    BY <1>6, <1>8, <2>2 DEF Swap!TakeGrin
  <2>4. QED
    BY <1>7, <2>3 DEF Orderly, Swap!Next
<1>10. CASE redeem # {}
  <2>1. GrinHolder = "buyer"
    BY <1>10 DEF GrinHolder
  <2>2. UNCHANGED Swap!vars
    BY <1>6, <1>8, <2>1 DEF Swap!vars
  <2>3. QED
    BY <1>7, <2>2 DEF Orderly
<1>11. QED
  BY <1>9, <1>10

LEMMA DepositInOrder ==
    ASSUME IInv, Order, Deposit
    PROVE  Orderly
<1>1. /\ UNCHANGED <<swap, disk, msgs, lock, redeem>> /\ paid = {} /\ paid' # {}
  BY DEF Deposit
<1>2. Order'
  <2>1. Here' = Here /\ There' = There /\ (AskedForGrin' <=> AskedForGrin)
        /\ (GaveGrin' <=> GaveGrin)
    BY <1>1 DEF Here, There, AskedForGrin, GaveGrin
  <2>2. QED
    BY <1>1, <2>1 DEF Order
<1>3. ~HasClaim(disk.seller) /\ ~HasClaim(disk'.seller)
  BY <1>1, CameBefore
<1>4. QtumHolder = "buyer" /\ QtumHolder' = "locked"
  BY <1>1, <1>3 DEF QtumHolder
<1>5. UNCHANGED <<GrinHolder, Pledged>>
  BY <1>1 DEF GrinHolder, Pledged, AskedForGrin, GaveGrin
<1>6. Swap!LockQtum
  BY <1>4, <1>5 DEF Swap!LockQtum
<1>7. QED
  BY <1>2, <1>6 DEF Orderly, Swap!Next

\* What a party goes back to is what it had: nothing is seen of it.
LEMMA ReloadInOrder ==
    ASSUME IInv, Order, NEW p \in Party, Reload(p)
    PROVE  Orderly
<1>1. /\ swap' = [swap EXCEPT ![p] = disk[p]]
      /\ UNCHANGED <<disk, msgs, lock, redeem, paid>>
  BY DEF Reload
<1>2. swap = [q \in Party |-> swap[q]] /\ disk = [q \in Party |-> disk[q]]
  BY DEF IInv
<1>3. /\ swap'.seller \in {swap.seller, disk.seller}
      /\ swap'.buyer \in {swap.buyer, disk.buyer}
  BY <1>1, <1>2 DEF Party
<1>4. Here' \subseteq Here /\ There' \subseteq There
  BY <1>1, <1>3 DEF Here, There
<1>5. /\ AskedForGrin' <=> AskedForGrin
      /\ GaveGrin' <=> GaveGrin
      /\ HasClaim(disk.seller)' <=> HasClaim(disk.seller)
  BY <1>1 DEF AskedForGrin, GaveGrin, HasClaim
<1>6. HasClaim(disk.seller) => HasClaim(swap'.seller)
  BY <1>3 DEF Order
<1>7. Order'
  BY <1>1, <1>4, <1>5, <1>6 DEF Order
<1>8. UNCHANGED Swap!vars
  BY <1>1, <1>5, Unseen
<1>9. QED
  BY <1>7, <1>8 DEF Orderly

LEMMA InitOrder == Init => Order /\ Swap!Init
<1> SUFFICES ASSUME Init PROVE Order /\ Swap!Init
  OBVIOUS
<1>1. /\ swap.seller = NoSwap /\ disk.seller = NoSwap
      /\ swap.buyer = NoSwap /\ disk.buyer = NoSwap
      /\ msgs = {} /\ lock = {} /\ redeem = {} /\ paid = {}
  BY DEF Init, Party
<1>2. ~HasClaim(disk.seller)
  BY <1>1 DEF HasClaim
<1>3. Order
  BY <1>1, <1>2, NoSwapHasNoStatus DEF Order, Here, There, Asking, Done
<1>4. Swap!Init
  BY <1>1, <1>2 DEF Swap!Init, GrinHolder, QtumHolder, Pledged, AskedForGrin, GaveGrin
<1>5. QED
  BY <1>3, <1>4

LEMMA NextInOrder == IInv /\ IInv' /\ Order /\ [Next]_vars => Orderly
<1> SUFFICES ASSUME IInv, IInv', Order, [Next]_vars PROVE Orderly
  OBVIOUS
<1>1. ASSUME NEW primary \in 0 .. Word - 1, NEW input \in 0 .. Word - 1,
             CreateSwapOffer(primary, input)
      PROVE  Orderly
  BY <1>1, CreateSwapOfferInOrder
<1>2. ASSUME NEW m \in msgs, Receive(m) PROVE Orderly
  <2>1. ASSUME NEW elapsed \in 0 .. RefundDelta, AcceptSwapOffer(m, elapsed) PROVE Orderly
    BY <2>1, AcceptSwapOfferInOrder
  <2>2. CASE AcceptedOffer(m)
    BY <2>2, AcceptedOfferInOrder
  <2>3. CASE SellerInitRedeem(m)
    BY <2>3, SellerInitRedeemInOrder
  <2>4. CASE BuyerRedeem(m)
    BY <2>4, BuyerRedeemInOrder
  <2>5. QED
    BY <1>2, <2>1, <2>2, <2>3, <2>4 DEF Receive
<1>3. CASE Sends
  BY <1>3, SendOfferInOrder, SendAcceptOfferInOrder, SendInitRedeemInOrder,
     SendRedeemInOrder DEF Sends
<1>4. CASE OnChain
  BY <1>4, PublishLockInOrder, DepositInOrder, SellerLockedInOrder,
     PublishRedeemInOrder, BuildRedeemTxInOrder DEF OnChain
<1>5. CASE Locking
  BY <1>5, BuyerLockedInOrder DEF Locking
<1>6. ASSUME NEW p \in Party, Reload(p) PROVE Orderly
  BY <1>6, ReloadInOrder
<1>7. CASE UNCHANGED vars
  <2>1. UNCHANGED <<swap, disk, msgs, lock, redeem, paid>>
    BY <1>7 DEF vars
  <2>2. Order'
    BY <2>1 DEF Order, Here, There, AskedForGrin, GaveGrin, HasClaim
  <2>3. UNCHANGED Swap!vars
    BY <2>1, Unseen DEF AskedForGrin, GaveGrin, HasClaim
  <2>4. QED
    BY <2>2, <2>3 DEF Orderly
<1>8. QED
  BY <1>1, <1>2, <1>3, <1>4, <1>5, <1>6, <1>7 DEF Next

(* Every behaviour, with the calls that fail and the objects that are        *)
(* dropped, is an atomic swap's: the Buyer asks when both are locked, the    *)
(* Seller signs when asked, the Grin is taken with both signatures and the   *)
(* Qtum only after it (buyer_check_locks, seller_init_redeem, publish_redeem, *)
(* build_redeem_tx).                                                         *)
THEOREM SlatesAreAtomic == Spec => IsAtomicSwap
<1>1. Init => IInv /\ Order /\ Swap!Init
  BY InitIInv, InitOrder
<1>2. IInv /\ Order /\ [Next]_vars => (IInv /\ Order)' /\ [Swap!Next]_(Swap!vars)
  BY NextKeepsIInv, NextInOrder DEF Orderly
<1>3. QED
  BY <1>1, <1>2, PTL DEF Spec, IsAtomicSwap, Swap!Spec
=============================================================================
