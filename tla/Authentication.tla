--------------------------- MODULE Authentication ---------------------------
(***************************************************************************)
(* Who sent a request, and which groups the identity provider says that    *)
(* user is in (waiverdb/auth.py).                                          *)
(*                                                                         *)
(* What a request brings is a record: the OIDC session of its cookie, its  *)
(* Authorization header, and what nginx says of its client certificate.    *)
(* The tokens the provider accepts are a parameter: they expire while the  *)
(* service runs, and each call of acquire_token() asks again.              *)
(*                                                                         *)
(* Which of several 401 responses is sent, and with which challenge, is    *)
(* left out.                                                               *)
(***************************************************************************)
EXTENDS Waivers, Sequences, FiniteSetsExt

CONSTANTS
    Group,             \* the names of groups, in OIDC claims and in LDAP
    Token,             \* the Bearer tokens that clients send
    TokenClaims,       \* token -> what the provider says of it
    Credentials,       \* what the requests bring
    AUTH_METHODS,      \* the configured methods, in their order
    OIDC_GROUPS_FIELD, \* whether the setting names a claim
    Raises             \* reading raises an exception that nothing catches

(* A claim that is absent is None.                                         *)
Claims == [username : User \cup {None}, groups : (SUBSET Group) \cup {None}]

(* "token" says that the session has an oidc_auth_token, "userinfo" and    *)
(* "access_token" what that holds.  Reading an access token that is not a  *)
(* JWT raises.                                                             *)
Session == [token : BOOLEAN, profile : Claims \cup {None},
            userinfo : Claims \cup {None}, access_token : Claims \cup {None, Raises}]

NoSession == [token |-> FALSE, profile |-> None, userinfo |-> None, access_token |-> None]

(* The header as each method reads it: a Bearer token, the Kerberos ticket *)
(* of a user and whether it asks for an answer, the name in Basic.         *)
Header == [bearer : Token \cup {None}, ticket : User \cup {None}, mutual : BOOLEAN,
           username : User \cup {None}]

(* The certificate: SSL_CLIENT_VERIFY is SUCCESS, and SSL_CLIENT_S_DN.     *)
Credential == [session : Session, authorization : Header \cup {None},
               verified : BOOLEAN, dn : User \cup {None}]

Methods == {AUTH_METHODS[i] : i \in DOMAIN AUTH_METHODS}

ASSUME RaisesAssumption == Raises # None /\ Raises \notin User /\ Raises \notin Claims
ASSUME TokenAssumption == None \notin Token /\ TokenClaims \in [Token -> Claims]
ASSUME MethodsAssumption ==
    /\ AUTH_METHODS \in Seq({"OIDC", "Kerberos", "SSL", "dummy"})
    /\ OIDC_GROUPS_FIELD \in BOOLEAN
(* "dummy" is for tests, whose headers have a name.                        *)
ASSUME CredentialsAssumption ==
    /\ Credentials \subseteq Credential
    /\ "dummy" \in Methods =>
         \A c \in Credentials : c.authorization # None => c.authorization.username # None

----------------------------------------------------------------------------
(* The claims.                                                             *)

(* What acquire_token() may come back with: the claims of a token that the *)
(* provider accepts, None for the OAuth2Error of any other and of none; or *)
(* the provider cannot be asked.                                           *)
acquire_token(credentials, accepted) ==
    LET token == IF credentials.authorization = None
                   THEN None ELSE credentials.authorization.bearer
    IN IF token = None THEN {None}
       ELSE {Raises, IF token \in accepted THEN TokenClaims[token] ELSE None}

(* The claim sources in their order, the answer of the provider last.      *)
Sources(credentials, answer) ==
    <<credentials.session.profile, credentials.session.userinfo,
      credentials.session.access_token, answer>>

(* A claim comes from the first source that has it; those behind that one  *)
(* are not read.                                                           *)
FirstClaim(sources, field) ==
    LET ending == {i \in DOMAIN sources :
                     \/ sources[i] = Raises
                     \/ sources[i] # None /\ sources[i][field] # None}
    IN IF ending = {} THEN None
       ELSE IF sources[Min(ending)] = Raises THEN Raises
       ELSE sources[Min(ending)][field]

get_oidc_groups(credentials, answer) ==
    IF "OIDC" \in Methods /\ OIDC_GROUPS_FIELD
      THEN FirstClaim(Sources(credentials, answer), "groups")
      ELSE None

----------------------------------------------------------------------------
(* The user.                                                               *)

Authenticated(user) == [status |-> 201, user |-> user]
Unauthorized == [status |-> 401, user |-> None]
Failed == [status |-> 500, user |-> None]

get_oidc_userinfo(credentials, answer) ==
    LET user == FirstClaim(Sources(credentials, answer), "username")
    IN CASE user = None -> Unauthorized
         [] user = Raises -> Failed
         [] OTHER -> Authenticated(user)

(* A ticket that asks for no answer leaves a str where bytes are encoded:  *)
(* TypeError.                                                              *)
process_gssapi_request(header) ==
    CASE header.ticket = None -> Unauthorized
      [] header.ticket # None /\ ~header.mutual -> Failed
      [] OTHER -> Authenticated(header.ticket)

get_user_by_method(credentials, method, answer) ==
    LET header == credentials.authorization
    IN CASE method = "OIDC" -> get_oidc_userinfo(credentials, answer)
         [] method = "Kerberos" /\ header # None -> process_gssapi_request(header)
         [] method = "SSL" /\ credentials.verified /\ credentials.dn # None ->
              Authenticated(credentials.dn)
         [] method = "dummy" /\ header # None -> Authenticated(header.username)
         [] OTHER -> Unauthorized

(* With an OIDC session no other method is tried; else the first method    *)
(* decides that does not end in 401.                                       *)
ActiveSession(credentials) == "OIDC" \in Methods /\ credentials.session.token

get_user_LastMethod(credentials, answer) ==
    LET outcome == [i \in DOMAIN AUTH_METHODS |->
                      get_user_by_method(credentials, AUTH_METHODS[i], answer)]
    IN IF ActiveSession(credentials)
         THEN get_user_by_method(credentials, "OIDC", answer)
       ELSE IF AUTH_METHODS = <<>> THEN Unauthorized
       ELSE outcome[Len(AUTH_METHODS)]

get_user(credentials, answer) ==
    LET outcome == [i \in DOMAIN AUTH_METHODS |->
                      get_user_by_method(credentials, AUTH_METHODS[i], answer)]
        decisive == {i \in DOMAIN AUTH_METHODS : outcome[i] # Unauthorized}
    IN IF ActiveSession(credentials)
         THEN get_user_by_method(credentials, "OIDC", answer)
       ELSE IF decisive = {} THEN Unauthorized
       ELSE outcome[Min(decisive)]

----------------------------------------------------------------------------
(* The same questions for the properties, without an order of asking.      *)

(* The users whom something in the request proves, with these tokens       *)
(* accepted: with an OIDC session only the session and the token count.    *)
ProvenBy(credentials, method, accepted) ==
    LET session == credentials.session
        header == credentials.authorization
        sources == {session.profile, session.userinfo, session.access_token}
                   \cup acquire_token(credentials, accepted)
    IN CASE method = "OIDC" -> {claims.username : claims \in sources \ {None, Raises}}
         [] method = "Kerberos" /\ header # None -> {header.ticket}
         [] method = "SSL" /\ credentials.verified -> {credentials.dn}
         [] method = "dummy" /\ header # None -> {header.username}
         [] OTHER -> {}

Proven(credentials, accepted) ==
    (UNION {ProvenBy(credentials, method, accepted) :
              method \in IF ActiveSession(credentials) THEN {"OIDC"} ELSE Methods}) \ {None}

(* The groups the provider, asked with success, may say the caller is in.  *)
ClaimedGroups(credentials, accepted) ==
    {get_oidc_groups(credentials, answer) :
        answer \in acquire_token(credentials, accepted) \ {Raises}} \ {None, Raises}

============================================================================
