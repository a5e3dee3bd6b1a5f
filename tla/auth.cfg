SPECIFICATION Spec
CONSTANTS
    Clients = {c1, c2}
    Passwords = {p1, p2}
    NoPassword = NoPassword
    Nobody = Nobody
    MaxSessions = 2
    MaxFaults = 3
SYMMETRY Symmetry
INVARIANTS
    LocksAreInUse
    SessionsFollowPassword
    ClaimOutlivesPowerLoss
    WrongPasswordsAreThrottled
PROPERTIES
    PasswordReplacedByItsHolder
    ChangeAnswersAreTrue
