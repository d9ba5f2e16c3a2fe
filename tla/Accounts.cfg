SPECIFICATION Spec
CONSTANTS
    ann = ann
    bea = bea
    cat = cat
    root = root
    plain = plain
    dark = dark
    None = None
    Identities = {ann, bea, cat}
    b1 = b1
    b2 = b2
    Browsers = {b1, b2}
    PeopleAt <- MCPeople
    AdminEmails = {root}
    ClaimsOf <- MCClaims
    Flags = {dark}
    Releases <- MCReleases
    CodeDefaults <- MCCode
    Settings <- MCSettings
    AdminFlags = {dark}
    MaxEvents = 2
INVARIANTS
    FailsOnlyIfRaced
    FlagsEarned
PROPERTIES
    SignInEnds
