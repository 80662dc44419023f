--------------------------- MODULE MultisigProofs ---------------------------
(***************************************************************************)
(* Agreement of the participants of a multisig output, for any number of   *)
(* them: they know one total commitment, and what they have collected      *)
(* makes a proof that verifies.                                            *)
(***************************************************************************)
EXTENDS Multisig, TLAPS

\* The only context in which a tau_x is ever computed.
Everything == [commits |-> Ids, ts |-> Ids, nonce |-> Ids]

\* Data of participant k that no step can have mixed up with another's.
OfParticipant(k, p) ==
    /\ p \in ParticipantData
    /\ p.commit \in {None, k}
    /\ p.t \in {None, k}
    /\ p.tau \in {{}, {Everything}}

BuilderOK(i, b) ==
    /\ b \in Builder
    /\ b.id = i
    /\ b.nonce = Ids
    /\ Len(b.parts) <= NumParticipants
    /\ \A k \in 1 .. Len(b.parts) : OfParticipant(k, b.parts[k])

BuildersOK == \A i \in Ids : BuilderOK(i, builder[i])
ExportsOK == \A m \in exported : m[1] \in Ids /\ OfParticipant(m[1], m[2])

(* The inductive invariant: OneCommitment and CollectedProofVerifies need    *)
(* that no contribution is ever filed under another participant, in a        *)
(* builder or in a message.                                                  *)
IInv == TypeOK /\ BuildersOK /\ ExportsOK

LEMMA EverythingIsContext == Everything \in Context
BY DEF Everything, Context

\* Complete sums are sums over all participants.
LEMMA CompleteSums ==
    ASSUME NEW i \in Ids, NEW b, BuilderOK(i, b)
    PROVE  /\ HasCommit(b) => Commits(b) = Ids
           /\ HasTs(b) => Ts(b) = Ids
           /\ HasCommit(b) /\ HasTs(b) => ContextOf(b) = Everything
<1>1. HasCommit(b) => Commits(b) = Ids
  BY DEF HasCommit, Commits, Full, BuilderOK, OfParticipant, Ids, None
<1>2. HasTs(b) => Ts(b) = Ids
  BY DEF HasTs, Ts, Full, BuilderOK, OfParticipant, Ids, None
<1>3. QED
  BY <1>1, <1>2 DEF ContextOf, Everything, BuilderOK

LEMMA NewBuilderOK ==
    ASSUME NEW i \in Ids, NEW r \in BOOLEAN
    PROVE  BuilderOK(i, NewBuilder(i, r, Ids))
BY NumAssumption DEF BuilderOK, NewBuilder, Builder, Ids

\* A participant's data appended at its own place.
LEMMA AppendOK ==
    ASSUME NEW i \in Ids, NEW b, BuilderOK(i, b),
           Len(b.parts) < NumParticipants,
           NEW p, OfParticipant(Len(b.parts) + 1, p)
    PROVE  BuilderOK(i, [b EXCEPT !.parts = Append(@, p)])
<1> DEFINE c == [b EXCEPT !.parts = Append(@, p)]
<1>1. b.parts \in Seq(ParticipantData) /\ p \in ParticipantData
  BY DEF BuilderOK, Builder, OfParticipant
<1>2. c \in Builder /\ c.id = i /\ c.nonce = Ids /\ c.parts = Append(b.parts, p)
  BY <1>1 DEF BuilderOK, Builder
<1>3. Len(c.parts) <= NumParticipants
  BY <1>1, <1>2, NumAssumption
<1>4. \A k \in 1 .. Len(c.parts) : OfParticipant(k, c.parts[k])
  BY <1>1, <1>2 DEF BuilderOK
<1>5. QED
  BY <1>2, <1>3, <1>4 DEF BuilderOK

\* A participant's data replaced at its own place.
LEMMA ReplaceOK ==
    ASSUME NEW i \in Ids, NEW b, BuilderOK(i, b),
           NEW k \in 1 .. Len(b.parts),
           NEW p, OfParticipant(k, p)
    PROVE  BuilderOK(i, [b EXCEPT !.parts[k] = p])
<1> DEFINE c == [b EXCEPT !.parts[k] = p]
<1>1. b.parts \in Seq(ParticipantData) /\ p \in ParticipantData
  BY DEF BuilderOK, Builder, OfParticipant
<1>2. /\ c \in Builder /\ c.id = i /\ c.nonce = Ids
      /\ c.parts = [b.parts EXCEPT ![k] = p]
  BY <1>1 DEF BuilderOK, Builder
<1>3. Len(c.parts) = Len(b.parts)
  BY <1>1, <1>2
<1>4. \A j \in 1 .. Len(c.parts) : OfParticipant(j, c.parts[j])
  BY <1>1, <1>2, <1>3 DEF BuilderOK
<1>5. QED
  BY <1>2, <1>3, <1>4 DEF BuilderOK

\* When builder i goes on to a sound state and nothing else changes but the
\* proofs, the invariant stays.
LEMMA BecomesOK ==
    ASSUME IInv, NEW i \in Ids, NEW b, BuilderOK(i, b), Becomes(i, b)
    PROVE  IInv'
<1>1. BuildersOK'
  BY DEF IInv, BuildersOK, Becomes, TypeOK
<1>2. ExportsOK' /\ TypeOK'
  BY DEF IInv, TypeOK, BuildersOK, BuilderOK, ExportsOK, Becomes
<1>3. QED
  BY <1>1, <1>2 DEF IInv

LEMMA InitIInv == Init => IInv
<1> SUFFICES ASSUME Init PROVE IInv
  OBVIOUS
<1>1. PICK r \in BOOLEAN : builder = [i \in Ids |-> NewBuilder(i, r, Ids)]
  BY DEF Init
<1>2. BuildersOK
  BY <1>1, NewBuilderOK DEF BuildersOK
<1>3. TypeOK /\ ExportsOK
  BY <1>1, <1>2 DEF Init, TypeOK, ExportsOK, BuildersOK, BuilderOK
<1>4. QED
  BY <1>2, <1>3 DEF IInv

LEMMA OwnStep ==
    ASSUME IInv, NEW i \in Ids, Own(i)
    PROVE  IInv'
<1> DEFINE b == builder[i]
<1>0. /\ BuilderOK(i, b) /\ b \in Builder /\ b.id = i
      /\ b.parts \in Seq(ParticipantData)
  BY DEF IInv, BuildersOK, BuilderOK, Builder
<1>1. CASE CreateParticipant(i)
  <2>1. Len(b.parts) + 1 = i /\ Len(b.parts) < NumParticipants
    BY <1>0, <1>1, NumAssumption DEF CreateParticipant, CanCreate, Ids
  <2>2. OfParticipant(i, Shown(b))
    BY <1>0 DEF Shown, OfParticipant, ParticipantData, NoData, Option, None
  <2>3. BuilderOK(i, Create(b))
    BY <1>0, <2>1, <2>2, AppendOK DEF Create
  <2>4. QED
    BY <1>1, <2>3, BecomesOK DEF CreateParticipant
<1>2. CASE Export(i)
  <2>1. i \in 1 .. Len(b.parts)
    BY <1>0, <1>2 DEF Export, Has, Ids
  <2>2. OfParticipant(i, b.parts[i])
    BY <1>0, <2>1 DEF BuilderOK
  <2>3. ExportsOK'
    BY <1>2, <2>2 DEF Export, ExportsOK, IInv
  <2>4. TypeOK' /\ BuildersOK'
    BY <1>2, <2>2 DEF Export, TypeOK, BuildersOK, IInv, OfParticipant
  <2>5. QED
    BY <2>3, <2>4 DEF IInv
<1>3. CASE Reveal(i)
  BY <1>3 DEF Reveal, IInv, TypeOK, BuildersOK, ExportsOK
<1>4. CASE RoundOne(i)
  <2> DEFINE p == [b.parts[i] EXCEPT !.t = i]
  <2>1. i \in 1 .. Len(b.parts)
    BY <1>0, <1>4 DEF RoundOne, CanRound1, Has, Ids
  <2>2. OfParticipant(i, b.parts[i])
    BY <1>0, <2>1 DEF BuilderOK
  <2>3. OfParticipant(i, p)
    BY <2>2 DEF OfParticipant, ParticipantData, Option
  <2>4. BuilderOK(i, [b EXCEPT !.parts[i] = p])
    BY <1>0, <2>1, <2>3, ReplaceOK
  <2>5. Round1(b) = [b EXCEPT !.parts[i] = p]
    BY <1>0 DEF Round1
  <2>6. QED
    BY <1>4, <2>4, <2>5, BecomesOK DEF RoundOne
<1>5. CASE RoundTwo(i)
  <2> DEFINE p == [b.parts[i] EXCEPT !.tau = {Everything}]
  <2>1. i \in 1 .. Len(b.parts)
    BY <1>0, <1>5 DEF RoundTwo, CanRound2, HasTs, Full, Ids
  <2>2. OfParticipant(i, b.parts[i])
    BY <1>0, <2>1 DEF BuilderOK
  <2>3. OfParticipant(i, p)
    BY <2>2, EverythingIsContext DEF OfParticipant, ParticipantData
  <2>4. BuilderOK(i, [b EXCEPT !.parts[i] = p])
    BY <1>0, <2>1, <2>3, ReplaceOK
  <2>5. ContextOf(b) = Everything
    BY <1>0, <1>5, CompleteSums DEF RoundTwo, CanRound2
  <2>6. Round2(b) = [b EXCEPT !.parts[i] = p]
    BY <1>0, <2>5 DEF Round2
  <2>7. QED
    BY <1>5, <2>4, <2>6, BecomesOK DEF RoundTwo
<1>6. CASE Finalize(i)
  <2>1. ContextOf(b) \in Context
    BY <1>0, <1>6, CompleteSums, EverythingIsContext
       DEF Finalize, CanFinalize, HasAll
  <2>2. TypeOK'
    BY <1>6, <2>1 DEF Finalize, TypeOK, IInv
  <2>3. BuildersOK' /\ ExportsOK'
    BY <1>6 DEF Finalize, BuildersOK, ExportsOK, IInv
  <2>4. QED
    BY <2>2, <2>3 DEF IInv
<1>7. QED
  BY <1>1, <1>2, <1>3, <1>4, <1>5, <1>6 DEF Own

LEMMA TakeStep ==
    ASSUME IInv, NEW i \in Ids, NEW m \in exported, Take(i, m)
    PROVE  IInv'
<1> DEFINE b == builder[i]
<1> DEFINE k == m[1]
<1>0. /\ BuilderOK(i, b) /\ b \in Builder
      /\ b.parts \in Seq(ParticipantData)
  BY DEF IInv, BuildersOK, BuilderOK, Builder
<1>1. k \in Ids /\ OfParticipant(k, m[2])
  BY DEF IInv, ExportsOK
<1>2. CASE ImportParticipant(i, m)
  <2>1. k = Len(b.parts) + 1 /\ Len(b.parts) < NumParticipants
    BY <1>0, <1>1, <1>2, NumAssumption DEF ImportParticipant, CanImport, Ids
  <2>2. OfParticipant(k, Foreign(b, m[2]))
    BY <1>1 DEF Foreign, OfParticipant, ParticipantData, NoData, Option, None
  <2>3. BuilderOK(i, Import(b, k, m[2]))
    BY <1>0, <2>1, <2>2, AppendOK DEF Import
  <2>4. QED
    BY <1>2, <2>3, BecomesOK DEF ImportParticipant
<1>3. CASE TakeRoundOne(i, m)
  <2> DEFINE p == [b.parts[k] EXCEPT !.t = m[2].t]
  <2>1. k \in 1 .. Len(b.parts)
    BY <1>0, <1>1, <1>3 DEF TakeRoundOne, CanRound1Participant, Has, Ids
  <2>2. OfParticipant(k, b.parts[k])
    BY <1>0, <2>1 DEF BuilderOK
  <2>3. OfParticipant(k, p)
    BY <1>1, <2>2 DEF OfParticipant, ParticipantData
  <2>4. BuilderOK(i, [b EXCEPT !.parts[k] = p])
    BY <1>0, <2>1, <2>3, ReplaceOK
  <2>5. Round1Participant(b, k, m[2]) = [b EXCEPT !.parts[k] = p]
    BY <1>0 DEF Round1Participant
  <2>6. QED
    BY <1>3, <2>4, <2>5, BecomesOK DEF TakeRoundOne
<1>4. CASE TakeRoundTwo(i, m)
  <2> DEFINE p == [b.parts[k] EXCEPT !.tau = m[2].tau]
  <2>1. k \in 1 .. Len(b.parts)
    BY <1>0, <1>1, <1>4 DEF TakeRoundTwo, CanRound2Participant, Has, Ids
  <2>2. OfParticipant(k, b.parts[k])
    BY <1>0, <2>1 DEF BuilderOK
  <2>3. OfParticipant(k, p)
    BY <1>1, <2>2 DEF OfParticipant, ParticipantData
  <2>4. BuilderOK(i, [b EXCEPT !.parts[k] = p])
    BY <1>0, <2>1, <2>3, ReplaceOK
  <2>5. Round2Participant(b, k, m[2]) = [b EXCEPT !.parts[k] = p]
    BY <1>0 DEF Round2Participant
  <2>6. QED
    BY <1>4, <2>4, <2>5, BecomesOK DEF TakeRoundTwo
<1>5. QED
  BY <1>2, <1>3, <1>4 DEF Take

LEMMA Inductive == Spec => []IInv
<1>1. IInv /\ [Next]_vars => IInv'
  <2> SUFFICES ASSUME IInv, [Next]_vars PROVE IInv'
    OBVIOUS
  <2>1. CASE Next
    BY <2>1, OwnStep, TakeStep DEF Next
  <2>2. CASE UNCHANGED vars
    BY <2>2 DEF vars, IInv, TypeOK, BuildersOK, ExportsOK
  <2>3. QED
    BY <2>1, <2>2
<1>2. QED
  BY InitIInv, <1>1, PTL DEF Spec

(* Every variable of the multisig protocol keeps its type.                   *)
THEOREM TypeCorrect == Spec => []TypeOK
<1>1. IInv => TypeOK
  BY DEF IInv
<1>2. QED
  BY <1>1, Inductive, PTL

(* All builders that know the commitment of the shared output (commit, in    *)
(* multisig/types.rs) know the sum over all participants, for any number of  *)
(* participants and whatever arrives late, twice or out of order.            *)
THEOREM CommitmentsAgree == Spec => []OneCommitment
<1>1. IInv => OneCommitment
  BY CompleteSums DEF IInv, BuildersOK, OneCommitment
<1>2. QED
  BY <1>1, Inductive, PTL

(* Once a builder has everybody's contribution, finalize verifies: all tau_x *)
(* were computed for the same sums.                                          *)
THEOREM CollectedProofsVerify == Spec => []CollectedProofVerifies
<1>1. IInv => CollectedProofVerifies
  <2> SUFFICES ASSUME IInv, NEW i \in Ids, HasAll(builder[i])
               PROVE  Verifies(builder[i])
    BY DEF CollectedProofVerifies
  <2>1. BuilderOK(i, builder[i])
    BY DEF IInv, BuildersOK
  <2>2. ContextOf(builder[i]) = Everything
    BY <2>1, CompleteSums DEF HasAll
  <2>3. QED
    BY <2>1, <2>2 DEF HasAll, HasTaus, Verifies, BuilderOK, OfParticipant
<1>2. QED
  BY <1>1, Inductive, PTL
=============================================================================
