SPECIFICATION Spec
CONSTANTS
    Purposes = {"api", "user"}
    Preferences <- MCPreferences
    Readers = {g1, g2}
    Definitions <- MCDefinitions
    Outputs <- MCOutputs
    Failures = {"denied"}
    Found <- MCFound
    MaxRotations = 2
    MaxReads = 2
    Invocations <- MCInvocations
    Earlier <- MCEarlier
    Doubles <- MCDoubles
    Batches <- MCBatches
    DatasourceCalls <- MCDatasourceCalls
    ContextBuilds <- MCContextBuilds
    Phases = {"", "start", "end"}
    Grants <- MCGrants
    AuthTests = {"x.auth.test"}
    Endpoints = {"", "e"}
    MaxCalls = 3
INVARIANTS
    SecretsStable
    AnsweredAsAsked
    ArgsApplied
    SentAsListed
PROPERTIES
    ContextBest
CONSTRAINT
    SecretsInBatches
SYMMETRY
    ReaderSymmetry
