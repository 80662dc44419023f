--------------------------- MODULE MultisigBuilder ---------------------------
(***************************************************************************)
(* The builder of an output that several participants own together         *)
(* (swap/multisig/types.rs): Builder and ParticipantData as records, the   *)
(* methods of Builder as functions on them.  CanX(b, ..) says when method  *)
(* X returns Ok and X(b, ..) is the builder it then leaves; a method that  *)
(* returns an error has changed nothing.                                   *)
(*                                                                         *)
(* Participants count from 1 here and from 0 in the source.  What one of   *)
(* them derives from its secret key and nonce (its partial commitment, the *)
(* hash of that, its t_1 and t_2, which come and go together) is named by  *)
(* its number, so that a sum is the set of the numbers that are in it.     *)
(***************************************************************************)
EXTENDS Integers, Sequences, FiniteSets

CONSTANT NumParticipants

ASSUME NumAssumption == NumParticipants \in Nat \ {0}

Ids == 1 .. NumParticipants
None == 0
Option == Ids \cup {None}

\* Everything a tau_x depends on: the sums of the commitments and of the t_1
\* and t_2, and the common nonce.
Context == [commits : SUBSET Ids, ts : SUBSET Ids, nonce : SUBSET Ids]

\* tau is {} (None) or holds the one context it was computed in.
ParticipantData ==
    [hash : Option, commit : Option, t : Option, tau : SUBSET Context]
NoData == [hash |-> None, commit |-> None, t |-> None, tau |-> {}]

\* nonce is the common nonce: the commitments hashed into it, {} for None.
Builder == [id : Ids, commitReveal : BOOLEAN, nonce : SUBSET Ids,
            parts : Seq(ParticipantData)]

NewBuilder(id, commitReveal, nonce) ==
    [id |-> id, commitReveal |-> commitReveal, nonce |-> nonce, parts |-> <<>>]

-----------------------------------------------------------------------------
Full(b) == Len(b.parts) = NumParticipants
Has(b, k) == k <= Len(b.parts)

\* new_foreign_commit and new_foreign_reveal: nothing of the rounds is taken.
Foreign(b, p) ==
    IF b.commitReveal THEN [NoData EXCEPT !.hash = p.hash]
                      ELSE [NoData EXCEPT !.commit = p.commit]

\* new_commit and new_revealed, for the builder's own participant
Shown(b) ==
    IF b.commitReveal THEN [NoData EXCEPT !.hash = b.id]
                      ELSE [NoData EXCEPT !.commit = b.id]

\* Mutant of CanCreate: a participant is created again after its turn.
CanCreateLate(b) == Len(b.parts) + 1 >= b.id

CanCreate(b) == Len(b.parts) + 1 = b.id
Create(b) == [b EXCEPT !.parts = Append(@, Shown(b))]

\* Mutant of CanImport: a participant that exists is imported once more.
CanImportTwice(b, k, p) ==
    /\ k <= Len(b.parts) + 1
    /\ Len(b.parts) < NumParticipants
    /\ Foreign(b, p) # NoData

CanImport(b, k, p) ==
    /\ ~Has(b, k)                             \* else ParticipantExists
    /\ k = Len(b.parts) + 1 /\ k <= NumParticipants
    /\ Foreign(b, p) # NoData                 \* else ParticipantInvalid
Import(b, k, p) == [b EXCEPT !.parts = Append(@, Foreign(b, p))]

(* reveal compares the commitment with the hash and stores nothing; without  *)
(* commit_reveal there is no hash to compare with.                          *)
CanReveal(b) == Full(b) /\ b.parts[b.id].hash = b.id

\* Mutant of Round1: the own contribution is stored as the last participant's.
Round1Last(b) == [b EXCEPT !.parts[Len(b.parts)].t = b.id]

\* The caller has created its participant: the method indexes it.
CanRound1(b) == Has(b, b.id)
Round1(b) == [b EXCEPT !.parts[b.id].t = b.id]

CanRound1Participant(b, k, p) == Full(b) /\ Has(b, k) /\ p.t # None
Round1Participant(b, k, p) == [b EXCEPT !.parts[k].t = p.t]

CanRound2Participant(b, k, p) == Full(b) /\ Has(b, k) /\ p.tau # {}
Round2Participant(b, k, p) == [b EXCEPT !.parts[k].tau = p.tau]

-----------------------------------------------------------------------------
(* Sums are there only when every participant has contributed.               *)
Commits(b) == {b.parts[k].commit : k \in 1 .. Len(b.parts)} \ {None}
Ts(b) == {b.parts[k].t : k \in 1 .. Len(b.parts)} \ {None}

\* commit: a partial commitment of each of num_participants
HasCommit(b) ==
    /\ Full(b)
    /\ \A k \in 1 .. Len(b.parts) : b.parts[k].commit # None

\* Mutant of HasTs: round 2 does not wait for everybody's round 1.
HasTsPartial(b) == Ts(b) # {}

\* sum_t_1 and sum_t_2
HasTs(b) == Full(b) /\ \A k \in 1 .. Len(b.parts) : b.parts[k].t # None

\* sum_tau_x
HasTaus(b) == Full(b) /\ \A k \in 1 .. Len(b.parts) : b.parts[k].tau # {}

ContextOf(b) == [commits |-> Commits(b), ts |-> Ts(b), nonce |-> b.nonce]

CanRound2(b) == HasTs(b) /\ HasCommit(b) /\ b.nonce # {}
Round2(b) == [b EXCEPT !.parts[b.id].tau = {ContextOf(b)}]

(* finalize: with all sums there, the proof made from them verifies when all *)
(* tau_x were computed for the same sums.                                    *)
HasAll(b) == HasTs(b) /\ HasTaus(b) /\ HasCommit(b) /\ b.nonce # {}
Verifies(b) == \A k \in 1 .. Len(b.parts) : b.parts[k].tau = {ContextOf(b)}
CanFinalize(b) == HasAll(b) /\ Verifies(b)
=============================================================================
