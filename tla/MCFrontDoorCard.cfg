SPECIFICATION Spec
CONSTANTS
    admin = admin
    guest = guest
    secret = secret
    wrong = wrong
    Users = {admin, guest}
    Passwords = {secret, wrong}
    Verifies <- MCVerifies
    Second = 2
    Lifetime = 2
    MaxTime = 6
    None = None
    Inputs <- MCRouted
    Raws <- MCRaws
    MaxLength = 30
    MaxLogins = 2
INVARIANT DetectedIsReplaced
CHECK_DEADLOCK FALSE
