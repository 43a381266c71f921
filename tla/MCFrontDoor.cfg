SPECIFICATION Spec
CONSTANTS
    admin = admin
    guest = guest
    secret = secret
    wrong = wrong
    Users = {admin, guest}
    Passwords = {secret, wrong}
    Verifies <- MCVerifies
    Second = 2
    Lifetime = 2
    MaxTime = 4
    None = None
    Inputs <- MCInputs
    Raws <- MCRaws
    MaxLength = 30
    MaxLogins = 2
INVARIANTS
    AcceptedTokensAreEarned
    LoginsLast
    OnlyPhonesUncoverPrompts
    OnlyPhonesUncoverAnswers
    RoutedAsDeserved
CHECK_DEADLOCK FALSE
