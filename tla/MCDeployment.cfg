CONSTANTS
    okta = okta
    entra = entra
    Slugs = {okta, entra}
    Names <- SomeNames
    AppEnvs = {"production"}
    Instances = {i1, i2}
    None = None
    Accounts = {u1, u2}
    NoAccount = NoAccount
    Emails = {o1, o2, admin}
    DefaultEmail = admin
    Jobs = {j1, j2}
    MaxAttempts = 2
SPECIFICATION DeploySpec
INVARIANTS OffersAWayIn ServedAsConfigured OneOwnerSeeded OwnersLostBySeedOnly
SYMMETRY Symmetry
