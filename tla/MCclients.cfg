SPECIFICATION MCSpec
CONSTANTS
    Queries = {q1, q2, q3}
    None = None
    MaxSessions = 3
    Slots = {s1, s2, s3}
    MaxRetry = 2
    Threshold = 3
    MaxFailures = 5
INVARIANTS NoSessionWasted RetryIsFresh OpenAfterFailures
PROPERTIES QueriesEnd PublishEnds Recovers
