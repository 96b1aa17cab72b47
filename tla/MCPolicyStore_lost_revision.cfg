\* One policy, updated and activated: the bump of a pointer moved back
\* meets a version already recorded.
SPECIFICATION PolicySpec
CONSTANTS
    pol_default = pol_default
    pol_other = pol_other
    PolicyIds = {pol_default}
    Payloads <- MCPayloads
    Submitted <- MCSubmitted
    MaxNumber = 3
    MaxRevisions = 3
PROPERTY SnapshotsAreImmutable
CHECK_DEADLOCK FALSE
