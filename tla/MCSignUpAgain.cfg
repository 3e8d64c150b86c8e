SPECIFICATION Spec
CONSTANTS
    alice = alice
    eve = eve
    r1 = r1
    r2 = r2
    a1 = a1
    a2 = a2
    unknown = unknown
    NoAddress = unknown
    Addresses <- MCAddresses
    TrustForwarded = TRUE
    Limit = 2
    Window = 2
    MaxKeys = 2
    Emails <- MCEmails
    AllowedEmails <- MCAllowed
    Replicas <- MCReplicas
    Setups <- MCSetups
    VerificationTtl = 1
    SessionTtl = 1
    RaceIsConflict = TRUE
    MaxTime = 3
    MaxSessions = 1
    MaxAdmissions = 4
PROPERTY SigningUpAgainHelps
CHECK_DEADLOCK FALSE
