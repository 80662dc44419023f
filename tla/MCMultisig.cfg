\* Three participants, both modes, data late, repeated and reordered.
SPECIFICATION FairSpec
CONSTANTS
    NumParticipants = 3
INVARIANTS
    TypeOK
    OneCommitment
    CollectedProofVerifies
PROPERTIES
    AllFinalize
CHECK_DEADLOCK FALSE
