\* Two calls of any front ends, or three of ChatGPT; the manager with two policies.
SPECIFICATION MCSpec
CONSTANTS
    pol_default = pol_default
    pol_other = pol_other
    PolicyIds = {pol_default, pol_other}
    Payloads <- MCPayloads
    Submitted <- MCSubmitted
    MaxNumber = 3
    MaxRevisions = 3
    MaxCalls = 3
    MaxOutside = 2
    Asked <- MCAsked
INVARIANTS ActiveIsServed RecordsAgree AnswersAreTrue
PROPERTY HistoryGrows
CHECK_DEADLOCK FALSE
