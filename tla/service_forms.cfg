SPECIFICATION Spec
CONSTANTS
    None = None
    alice = alice
    bodhi = bodhi
    devel = devel
    r1 = r1
    r2 = r2
    Text <- TextValues
    User = {alice}
    Group = {}
    Request = {r1}
    ResultsDB <- ResultValues
    Permissions = {}
    t1 = t1
    qa = qa
    Raises = Raises
    Token = {}
    TokenClaims <- NoClaims
    Credentials <- Certificates
    AUTH_METHODS <- SSLOnly
    OIDC_GROUPS_FIELD = FALSE
    LDAP_SEARCHES <- NoSearches
    SUPERUSERS = {}
    MESSAGE_BUS_PUBLISH = TRUE
    Body <- FormBodies
INVARIANTS
    AnswerIsTrue
    FoundBySubject
PROPERTIES
    EveryRequestEnds
