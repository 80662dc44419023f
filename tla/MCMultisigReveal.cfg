\* Two participants: what an exported participant holds after its reveal.
SPECIFICATION FairSpec
CONSTANTS
    NumParticipants = 2
INVARIANTS
    RevealShowsCommitment
CHECK_DEADLOCK FALSE
