SPECIFICATION Spec
CONSTANTS
    None = None
    alice = alice
    bodhi = bodhi
    devel = devel
    r1 = r1
    r2 = r2
    Text <- TextValues
    User = {alice, bodhi}
    Group = {}
    Request = {r1, r2}
    ResultsDB <- NoResults
    Permissions = {}
    t1 = t1
    qa = qa
    Raises = Raises
    Token = {}
    TokenClaims <- NoClaims
    Credentials <- People
    AUTH_METHODS <- SSLOnly
    OIDC_GROUPS_FIELD = FALSE
    LDAP_SEARCHES <- NoSearches
    SUPERUSERS = {}
    MESSAGE_BUS_PUBLISH = FALSE
    Body <- SingleBodies
INVARIANTS
    FilteredBehavesAsGet
