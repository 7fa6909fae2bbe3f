CONSTANTS
    Users = {u1, u2}
    Roles = {"owner", "member"}
    NoUser = NoUser
    Requests = {r1, r2}
    MaxAttempts = 2
    StepUpWindow = 1
SPECIFICATION FairSpec
INVARIANTS TypeOK OwnerFloor TrailMatchesAnswer
PROPERTIES ImplementsRegistry OwnerChangesAreConfirmed EveryRequestAnswered
