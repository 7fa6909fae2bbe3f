CONSTANTS
    Accounts = {a1, a2, a3}
    NoAccount = NoAccount
    Emails = {e1, e2}
    NoEmail = NoEmail
    VerifiedEmails = {e1, e2}
    Subjects = {s1}
    NoSubject = NoSubject
    g1 = g1
    Groups = {g1}
    Configured <- Mappings
    Calls = {c1, c2}
    MaxAttempts = 2
SPECIFICATION Spec
SYMMETRY Symmetry
INVARIANTS TypeOK
PROPERTIES OwnersOnlyByOwners SubjectKeepsAccount NoLostDeactivation
