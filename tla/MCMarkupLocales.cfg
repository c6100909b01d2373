\* Two schemas, one locale besides C, two types.
CONSTANTS
    SchemaKey = {k1, k2}
    Other = {"fr"}
    Type = {"int", "string"}
    MaxSets = 3
    MaxFailures = 1
SPECIFICATION LocalesSpec
INVARIANTS
    AnsweredAsSet
CHECK_DEADLOCK FALSE
