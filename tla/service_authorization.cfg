SPECIFICATION Spec
CONSTANTS
    None = None
    alice = alice
    bodhi = bodhi
    devel = devel
    r1 = r1
    r2 = r2
    Text <- TextValues
    User = {alice, bodhi}
    Group = {devel, qa}
    Request = {r1}
    ResultsDB <- NoResults
    Permissions <- TeamPermission
    t1 = t1
    qa = qa
    Raises = Raises
    Token = {t1}
    TokenClaims <- TeamClaims
    Credentials <- AllCredentials
    AUTH_METHODS <- AllMethods
    OIDC_GROUPS_FIELD = TRUE
    LDAP_SEARCHES <- TeamSearches
    SUPERUSERS = {bodhi}
    MESSAGE_BUS_PUBLISH = FALSE
    Body <- ProxyBodies
INVARIANTS
    StoredIsAuthorized
    StoredIsAttributed
    RefusedIsUnentitled
    UnauthorizedIsUnproven
    AnswerIsTrue
