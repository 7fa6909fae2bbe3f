CONSTANTS
    Calls = {c1, c2}
    Payloads = {p1, p2}
    NoPayload = NoPayload
    Batch = 1
    MaxRuns = 3
    MaxAhead = 1
SPECIFICATION FairSpec
INVARIANTS OneRunAtATime ResultsAgree AnswerMatchesPayload
PROPERTIES KeyIsFreed
CHECK_DEADLOCK FALSE
