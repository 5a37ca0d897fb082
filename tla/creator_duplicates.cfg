\* InsertAllKeysAndValues over every data file of at most four records,
\* with and without scanner deduplication, into a table of two slots.
CONSTANTS
    Keys <- MCKeys
    LastPopulateKeys <- MCLastPopulateKeys
    Values <- MCValues
    KeyTypes <- MCKeyTypes
    Slots = 2
    MaxLen = 4
SPECIFICATION Spec
INVARIANT BuildFollowsDuplicatePolicy
INVARIANT BuildSucceedsExactlyWhenValid
INVARIANT DedupBuildKeepsFirstValue
\* InsertAllKeysAndValues returns once: the final states have no successor.
CHECK_DEADLOCK FALSE
