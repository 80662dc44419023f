------------------------------ MODULE Multisig ------------------------------
(***************************************************************************)
(* Participants that build one output together, each with a builder of its *)
(* own (MultisigBuilder), in the two modes the source describes in its     *)
(* tests: with a commit and reveal phase and without.  They agree on the   *)
(* numbering, the mode and the common nonce beforehand.                    *)
(*                                                                         *)
(* A participant may export its data at any time; what was exported is     *)
(* never lost for good, but it arrives in any order, late, and repeatedly, *)
(* so that a receiver may be handed data older than what it has.  A method *)
(* that returns an error changes nothing and is not written out.  That     *)
(* holds of every call of reveal_participant: no exported data holds both  *)
(* a commitment and the right to compare it with a hash.                   *)
(***************************************************************************)
EXTENDS MultisigBuilder

VARIABLES
    builder,    \* of each participant
    exported,   \* <<sender, data>> ever exported
    revealed,   \* participants whose reveal returned Ok
    proof       \* proof[i]: the contexts of the proofs that i has finalized

vars == <<builder, exported, revealed, proof>>

Init ==
    /\ \E commitReveal \in BOOLEAN :
          builder = [i \in Ids |-> NewBuilder(i, commitReveal, Ids)]
    /\ exported = {}
    /\ revealed = {}
    /\ proof = [i \in Ids |-> {}]

Becomes(i, b) ==
    /\ builder' = [builder EXCEPT ![i] = b]
    /\ UNCHANGED <<exported, revealed, proof>>

CreateParticipant(i) == CanCreate(builder[i]) /\ Becomes(i, Create(builder[i]))

Export(i) ==
    /\ Has(builder[i], i)
    /\ exported' = exported \cup {<<i, builder[i].parts[i]>>}
    /\ UNCHANGED <<builder, revealed, proof>>

\* The receiver passes on the sender's number; nobody imports itself.
ImportParticipant(i, m) ==
    /\ m[1] # i /\ CanImport(builder[i], m[1], m[2])
    /\ Becomes(i, Import(builder[i], m[1], m[2]))

Reveal(i) ==
    /\ CanReveal(builder[i])
    /\ revealed' = revealed \cup {i}
    /\ UNCHANGED <<builder, exported, proof>>

RoundOne(i) == CanRound1(builder[i]) /\ Becomes(i, Round1(builder[i]))

TakeRoundOne(i, m) ==
    /\ m[1] # i /\ CanRound1Participant(builder[i], m[1], m[2])
    /\ Becomes(i, Round1Participant(builder[i], m[1], m[2]))

RoundTwo(i) == CanRound2(builder[i]) /\ Becomes(i, Round2(builder[i]))

TakeRoundTwo(i, m) ==
    /\ m[1] # i /\ CanRound2Participant(builder[i], m[1], m[2])
    /\ Becomes(i, Round2Participant(builder[i], m[1], m[2]))

Finalize(i) ==
    /\ CanFinalize(builder[i])
    /\ proof' = [proof EXCEPT ![i] = @ \cup {ContextOf(builder[i])}]
    /\ UNCHANGED <<builder, exported, revealed>>

Own(i) ==
    \/ CreateParticipant(i) \/ Export(i) \/ Reveal(i)
    \/ RoundOne(i) \/ RoundTwo(i) \/ Finalize(i)

Take(i, m) ==
    ImportParticipant(i, m) \/ TakeRoundOne(i, m) \/ TakeRoundTwo(i, m)

Next == \E i \in Ids : Own(i) \/ \E m \in exported : Take(i, m)

Spec == Init /\ [][Next]_vars

(* Every participant goes on as far as its builder lets it, and is handed    *)
(* each kind of data again while it can use it.                              *)
Fairness ==
    \A i \in Ids :
        /\ WF_vars(CreateParticipant(i)) /\ WF_vars(Export(i))
        /\ WF_vars(RoundOne(i)) /\ WF_vars(RoundTwo(i)) /\ WF_vars(Finalize(i))
        /\ \A k \in Ids :
              LET From(A(_, _)) == \E m \in exported : m[1] = k /\ A(i, m)
              IN  /\ WF_vars(From(ImportParticipant))
                  /\ WF_vars(From(TakeRoundOne))
                  /\ WF_vars(From(TakeRoundTwo))

FairSpec == Spec /\ Fairness

-----------------------------------------------------------------------------
(* Properties *)

TypeOK ==
    /\ builder \in [Ids -> Builder]
    /\ \A i \in Ids : Len(builder[i].parts) <= NumParticipants
    /\ exported \subseteq Ids \X ParticipantData
    /\ revealed \subseteq Ids
    /\ proof \in [Ids -> SUBSET Context]

(* Whatever order data arrive in and however often, the builders that know   *)
(* a total commitment know the same one, of all participants.                *)
OneCommitment ==
    \A i \in Ids : HasCommit(builder[i]) => Commits(builder[i]) = Ids

(* A participant computes its tau_x once it can and never learns whether the *)
(* others used the same sums: when a builder has collected everything,       *)
(* finalize must not fail to verify (multisig/types.rs:242).                 *)
CollectedProofVerifies ==
    \A i \in Ids : HasAll(builder[i]) => Verifies(builder[i])

(* Without the commit and reveal phase, everybody ends up with a proof.      *)
AllFinalize ==
    (\A i \in Ids : ~builder[i].commitReveal) ~> (\A i \in Ids : proof[i] # {})

(* A reveal is what makes the own commitment part of the exported data       *)
(* (multisig/types.rs:531-539: reveal, export, and the other participant's   *)
(* reveal_participant on it is Ok).                                          *)
RevealShowsCommitment ==
    \A i \in revealed : builder[i].parts[i].commit = i
=============================================================================
