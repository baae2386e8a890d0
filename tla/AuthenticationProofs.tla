------------------------ MODULE AuthenticationProofs ------------------------
(***************************************************************************)
(* What TLAPS proves of Authentication, for every credential, set of       *)
(* tokens and list of methods: whom get_user finds, and which groups       *)
(* get_oidc_groups finds, against the questions that have no order.        *)
(***************************************************************************)
EXTENDS Authentication, TLAPS, WellFoundedInduction

(* The minimum of numbers is one of them.                                  *)
LEMMA MinExists ==
    ASSUME NEW S, S \subseteq Nat, S # {}
    PROVE  Min(S) \in S /\ \A y \in S : Min(S) <= y
  <1>1. IsWellFoundedOn(OpToRel(<, Nat), Nat)
    BY NatLessThanWellFounded
  <1>2. \E x \in S : \A y \in S : ~ (<<y, x>> \in OpToRel(<, Nat))
    BY <1>1, WFMin
  <1>3. \A x, y \in S : y < x => <<y, x>> \in OpToRel(<, Nat)
    BY DEF OpToRel
  <1>4. \E x \in S : \A y \in S : ~ (y < x)
    BY <1>2, <1>3, Zenon
  <1>5. \A x, y \in S : ~ (y < x) => x <= y
    OBVIOUS
  <1>6. \E x \in S : \A y \in S : x <= y
    BY <1>4, <1>5
  <1> QED
    BY <1>6 DEF Min

(* What acquire_token() comes back with is a claim source like the others. *)
LEMMA AnswerType ==
    ASSUME NEW c \in Credential, NEW tokens \in SUBSET Token,
           NEW answer \in acquire_token(c, tokens)
    PROVE  answer \in Claims \cup {None, Raises}
  BY TokenAssumption DEF acquire_token

(* A claim, if no source raises, is that of some source.                   *)
LEMMA UserClaimType ==
    ASSUME NEW c \in Credential, NEW answer \in Claims \cup {None, Raises}
    PROVE  FirstClaim(Sources(c, answer), "username") \in User \cup {None, Raises}
  <1> DEFINE sources == Sources(c, answer)
             ending == {i \in DOMAIN sources :
                          \/ sources[i] = Raises
                          \/ sources[i] # None /\ sources[i].username # None}
  <1>1. /\ DOMAIN sources = 1..4
        /\ \A i \in 1..4 : sources[i] \in Claims \cup {None, Raises}
    BY DEF Sources, Credential, Session
  <1>2. CASE ending = {}
    BY <1>2 DEF FirstClaim
  <1>3. CASE ending # {}
    <2>1. Min(ending) \in ending
      BY <1>1, <1>3, MinExists
    <2>2. sources[Min(ending)] = Raises \/ sources[Min(ending)].username \in User
      BY <1>1, <2>1, RaisesAssumption DEF Claims
    <2>3. FirstClaim(sources, "username") =
            IF sources[Min(ending)] = Raises THEN Raises ELSE sources[Min(ending)].username
      BY <1>3 DEF FirstClaim
    <2> QED
      BY <2>2, <2>3
  <1> QED
    BY <1>2, <1>3

(* A method of authentication ends with a user, in 401 or in 500.          *)
Outcome == {Authenticated(user) : user \in User} \cup {Unauthorized, Failed}

LEMMA MethodType ==
    ASSUME NEW c \in Credentials, NEW answer \in Claims \cup {None, Raises},
           NEW method \in Methods \cup {"OIDC"}
    PROVE  get_user_by_method(c, method, answer) \in Outcome
  <1>1. c \in Credential
    BY CredentialsAssumption
  <1>2. get_oidc_userinfo(c, answer) \in Outcome
    BY <1>1, UserClaimType DEF get_oidc_userinfo, Outcome
  <1>3. c.authorization # None => /\ c.authorization.ticket \in User \cup {None}
                                  /\ c.authorization.username \in User \cup {None}
    BY <1>1 DEF Credential, Header
  <1>4. c.authorization # None => process_gssapi_request(c.authorization) \in Outcome
    BY <1>3 DEF process_gssapi_request, Outcome
  <1>5. c.dn \in User \cup {None}
    BY <1>1 DEF Credential
  <1>6. method = "dummy" /\ c.authorization # None => c.authorization.username \in User
    BY <1>3, CredentialsAssumption
  <1> QED
    BY <1>2, <1>4, <1>5, <1>6 DEF get_user_by_method, Outcome

(* get_user ends with a user, in 401 or in 500 (auth.py:47-74).            *)
LEMMA UserType ==
    ASSUME NEW c \in Credentials, NEW tokens \in SUBSET Token,
           NEW answer \in acquire_token(c, tokens)
    PROVE  get_user(c, answer) \in Outcome
  <1> DEFINE outcome == [i \in DOMAIN AUTH_METHODS |->
                           get_user_by_method(c, AUTH_METHODS[i], answer)]
             decisive == {i \in DOMAIN AUTH_METHODS : outcome[i] # Unauthorized}
  <1>1. answer \in Claims \cup {None, Raises}
    BY AnswerType, CredentialsAssumption
  <1>2. DOMAIN AUTH_METHODS \subseteq Nat
    BY MethodsAssumption
  <1>3. \A i \in DOMAIN AUTH_METHODS : outcome[i] \in Outcome
    BY <1>1, MethodType DEF Methods
  <1>4. get_user_by_method(c, "OIDC", answer) \in Outcome
    BY <1>1, MethodType
  <1>5. decisive # {} => outcome[Min(decisive)] \in Outcome
    <2>1. decisive # {} => Min(decisive) \in decisive
      BY <1>2, MinExists
    <2> QED
      BY <1>3, <2>1
  <1>6. get_user(c, answer) = IF ActiveSession(c) THEN get_user_by_method(c, "OIDC", answer)
                              ELSE IF decisive = {} THEN Unauthorized
                              ELSE outcome[Min(decisive)]
    BY DEF get_user
  <1> HIDE DEF outcome, decisive
  <1> QED
    BY <1>4, <1>5, <1>6 DEF Outcome

----------------------------------------------------------------------------
(* The claims.                                                             *)

(* A source that ends the search for a claim.                              *)
Ends(source, field) == source = Raises \/ (source # None /\ source[field] # None)

(* What it says.                                                           *)
ClaimOf(source, field) == IF source = Raises THEN Raises ELSE source[field]

LEMMA SourcesType ==
    ASSUME NEW c \in Credential, NEW answer \in Claims \cup {None, Raises}
    PROVE  /\ DOMAIN Sources(c, answer) = 1..4
           /\ \A i \in 1..4 : Sources(c, answer)[i] \in Claims \cup {None, Raises}
           /\ Sources(c, answer)[4] = answer
           /\ \A other : \A i \in 1..3 : Sources(c, other)[i] = Sources(c, answer)[i]
  BY DEF Sources, Credential, Session

(* FirstClaim without Min: no source ends the search, or the first of them *)
(* that does decides (auth.py:97-113, 139-155).                            *)
LEMMA FirstClaimIs ==
    ASSUME NEW c \in Credential, NEW answer \in Claims \cup {None, Raises}, NEW field
    PROVE  LET sources == Sources(c, answer)
               claim == FirstClaim(sources, field)
           IN \/ claim = None /\ \A i \in 1..4 : ~Ends(sources[i], field)
              \/ \E m \in 1..4 :
                   /\ Ends(sources[m], field)
                   /\ \A i \in 1..4 : i < m => ~Ends(sources[i], field)
                   /\ claim = ClaimOf(sources[m], field)
  <1> DEFINE sources == Sources(c, answer)
             ending == {i \in DOMAIN sources :
                          \/ sources[i] = Raises
                          \/ sources[i] # None /\ sources[i][field] # None}
  <1>1. DOMAIN sources = 1..4
    BY SourcesType
  <1>2. \A i \in 1..4 : i \in ending <=> Ends(sources[i], field)
    BY <1>1 DEF Ends
  <1>3. FirstClaim(sources, field) =
          IF ending = {} THEN None
          ELSE IF sources[Min(ending)] = Raises THEN Raises ELSE sources[Min(ending)][field]
    BY DEF FirstClaim
  <1>4. ending \subseteq 1..4 /\ ending \subseteq Nat
    BY <1>1
  <1> HIDE DEF sources, ending
  <1>5. CASE ending = {}
    BY <1>2, <1>3, <1>5 DEF sources
  <1>6. CASE ending # {}
    <2>1. /\ Min(ending) \in ending
          /\ \A i \in ending : Min(ending) <= i
      BY <1>4, <1>6, MinExists
    <2> DEFINE m == Min(ending)
    <2> HIDE DEF m
    <2>2. /\ m \in 1..4 /\ Ends(sources[m], field)
          /\ \A i \in 1..4 : i < m => ~Ends(sources[i], field)
      <3>1. m \in 1..4 /\ m \in ending /\ \A i \in ending : m <= i
        BY <1>4, <2>1 DEF m
      <3>2. \A i \in 1..4 : i < m => i \notin ending
        BY <3>1
      <3> QED
        BY <1>2, <3>1, <3>2
    <2>3. FirstClaim(sources, field) = ClaimOf(sources[m], field)
      BY <1>3, <1>6 DEF m, ClaimOf
    <2> QED
      BY <2>2, <2>3 DEF sources
  <1> QED
    BY <1>5, <1>6

(* When the session has the claim, the provider is not asked for it.       *)
LEMMA SessionDecides ==
    ASSUME NEW c \in Credential, NEW answer \in Claims \cup {None, Raises},
           NEW other \in Claims \cup {None, Raises}, NEW field,
           \E i \in 1..3 : Ends(Sources(c, answer)[i], field)
    PROVE  FirstClaim(Sources(c, other), field) = FirstClaim(Sources(c, answer), field)
  <1> DEFINE one == Sources(c, answer)
             two == Sources(c, other)
  <1>1. \A i \in 1..3 : two[i] = one[i]
    BY SourcesType
  <1> HIDE DEF one, two
  <1>2. \E i \in 1..3 : Ends(one[i], field)
    BY DEF one
  <1>3. PICK m \in 1..4 : /\ Ends(one[m], field)
                          /\ \A i \in 1..4 : i < m => ~Ends(one[i], field)
                          /\ FirstClaim(one, field) = ClaimOf(one[m], field)
    BY <1>2, FirstClaimIs DEF one
  <1>4. PICK n \in 1..4 : /\ Ends(two[n], field)
                          /\ \A i \in 1..4 : i < n => ~Ends(two[i], field)
                          /\ FirstClaim(two, field) = ClaimOf(two[n], field)
    BY <1>1, <1>2, FirstClaimIs DEF two
  <1>5. m \in 1..3 /\ n \in 1..3
    BY <1>1, <1>2, <1>3, <1>4
  <1>6. m = n
    BY <1>1, <1>3, <1>4, <1>5
  <1>7. two[n] = one[m]
    BY <1>1, <1>5, <1>6
  <1>8. FirstClaim(two, field) = FirstClaim(one, field)
    BY <1>3, <1>4, <1>7
  <1> QED
    BY <1>8 DEF one, two

(* With given tokens accepted the provider, if it can be asked, has one    *)
(* answer; more tokens change it only where it is None (auth.py:116-136).  *)
LEMMA OneAnswer ==
    ASSUME NEW c \in Credential, NEW tokens \in SUBSET Token
    PROVE  \E other \in Claims \cup {None} :
             /\ acquire_token(c, tokens) \ {Raises} = {other}
             /\ \A more \in SUBSET Token : tokens \subseteq more /\ other # None =>
                  acquire_token(c, more) \ {Raises} = {other}
  <1> DEFINE token == IF c.authorization = None THEN None ELSE c.authorization.bearer
             other == IF token # None /\ token \in tokens THEN TokenClaims[token] ELSE None
  <1>1. token \in Token \cup {None}
    BY DEF Credential, Header
  <1>2. \A some \in SUBSET Token : acquire_token(c, some) =
          IF token = None THEN {None}
          ELSE {Raises, IF token \in some THEN TokenClaims[token] ELSE None}
    BY DEF acquire_token
  <1> HIDE DEF token
  <1>3. \A t \in Token : TokenClaims[t] \in Claims
    BY TokenAssumption
  <1>4. other \in Claims \cup {None}
    BY <1>1, <1>3
  <1>5. None # Raises /\ \A t \in Token : TokenClaims[t] # Raises
    BY <1>3, RaisesAssumption
  <1>6. acquire_token(c, tokens) \ {Raises} = {other}
    BY <1>1, <1>2, <1>5
  <1>7. \A more \in SUBSET Token : tokens \subseteq more /\ other # None =>
          acquire_token(c, more) \ {Raises} = {other}
    BY <1>1, <1>2, <1>5
  <1> QED
    BY <1>4, <1>6, <1>7

(* A claim that is found whatever the provider answers, or with an answer  *)
(* of the provider, is one it may make (auth.py:139-155).                  *)
LEMMA ClaimIsClaimed ==
    ASSUME NEW c \in Credential, NEW tokens \in SUBSET Token,
           NEW answer \in acquire_token(c, tokens),
           get_oidc_groups(c, answer) \notin {None, Raises}
    PROVE  get_oidc_groups(c, answer) \in ClaimedGroups(c, tokens)
  <1>1. PICK other \in Claims \cup {None} : acquire_token(c, tokens) \ {Raises} = {other}
    BY OneAnswer
  <1>2. answer \in Claims \cup {None, Raises}
    BY AnswerType
  <1>3. CASE answer # Raises
    BY <1>3 DEF ClaimedGroups
  <1>4. CASE answer = Raises
    <2>1. "OIDC" \in Methods /\ OIDC_GROUPS_FIELD
      BY DEF get_oidc_groups
    <2>2. \E i \in 1..3 : Ends(Sources(c, answer)[i], "groups")
      <3>1. FirstClaim(Sources(c, answer), "groups") \notin {None, Raises}
        BY <2>1 DEF get_oidc_groups
      <3>2. PICK m \in 1..4 :
              /\ Ends(Sources(c, answer)[m], "groups")
              /\ FirstClaim(Sources(c, answer), "groups") =
                   ClaimOf(Sources(c, answer)[m], "groups")
        BY <1>2, <3>1, FirstClaimIs
      <3>3. Sources(c, answer)[m] # Raises
        BY <3>1, <3>2 DEF ClaimOf
      <3>4. m # 4
        BY <1>2, <1>4, <3>3, SourcesType
      <3> QED
        BY <3>2, <3>4
    <2>3. FirstClaim(Sources(c, other), "groups") = FirstClaim(Sources(c, answer), "groups")
      BY <1>2, <2>2, SessionDecides
    <2>4. get_oidc_groups(c, other) = get_oidc_groups(c, answer)
      BY <2>1, <2>3 DEF get_oidc_groups
    <2> QED
      BY <1>1, <2>4 DEF ClaimedGroups
  <1> QED
    BY <1>3, <1>4

(* And if reading it does not raise, there is no other that it may make.   *)
LEMMA ClaimIsTheOnly ==
    ASSUME NEW c \in Credential, NEW tokens \in SUBSET Token,
           NEW answer \in acquire_token(c, tokens),
           get_oidc_groups(c, answer) # Raises
    PROVE  ClaimedGroups(c, tokens) \subseteq {get_oidc_groups(c, answer)} \ {None}
  <1>1. PICK other \in Claims \cup {None} : acquire_token(c, tokens) \ {Raises} = {other}
    BY OneAnswer
  <1>2. answer \in Claims \cup {None, Raises}
    BY AnswerType
  <1>3. ClaimedGroups(c, tokens) = {get_oidc_groups(c, other)} \ {None, Raises}
    BY <1>1 DEF ClaimedGroups
  <1>4. CASE answer # Raises
    BY <1>1, <1>3, <1>4
  <1>5. CASE ~("OIDC" \in Methods /\ OIDC_GROUPS_FIELD)
    BY <1>3, <1>5 DEF get_oidc_groups
  <1>6. CASE answer = Raises /\ "OIDC" \in Methods /\ OIDC_GROUPS_FIELD
    <2>1. FirstClaim(Sources(c, answer), "groups") # Raises
      BY <1>6 DEF get_oidc_groups
    <2>2. Ends(Sources(c, answer)[4], "groups")
          /\ ClaimOf(Sources(c, answer)[4], "groups") = Raises
      BY <1>2, <1>6, SourcesType DEF Ends, ClaimOf
    <2>3. \E i \in 1..3 : Ends(Sources(c, answer)[i], "groups")
      <3>1. PICK m \in 1..4 :
              /\ Ends(Sources(c, answer)[m], "groups")
              /\ FirstClaim(Sources(c, answer), "groups") =
                   ClaimOf(Sources(c, answer)[m], "groups")
        BY <1>2, <2>2, FirstClaimIs
      <3> QED
        BY <2>1, <2>2, <3>1
    <2>4. FirstClaim(Sources(c, other), "groups") = FirstClaim(Sources(c, answer), "groups")
      BY <1>2, <2>3, SessionDecides
    <2> QED
      BY <1>3, <2>4 DEF get_oidc_groups
  <1> QED
    BY <1>4, <1>5, <1>6

(* The fewer tokens are accepted, the fewer claims there are.              *)
LEMMA ClaimedGrows ==
    ASSUME NEW c \in Credential, NEW few \in SUBSET Token, NEW many \in SUBSET Token,
           few \subseteq many
    PROVE  ClaimedGroups(c, few) \subseteq ClaimedGroups(c, many)
  <1>1. PICK answer \in Claims \cup {None} :
          /\ acquire_token(c, few) \ {Raises} = {answer}
          /\ answer # None => acquire_token(c, many) \ {Raises} = {answer}
    BY OneAnswer
  <1>2. CASE answer # None
    BY <1>1, <1>2 DEF ClaimedGroups
  <1>3. CASE answer = None
    <2>1. PICK other \in Claims \cup {None} : acquire_token(c, many) \ {Raises} = {other}
      BY OneAnswer
    <2>2. SUFFICES ASSUME get_oidc_groups(c, None) \notin {None, Raises}
                   PROVE  get_oidc_groups(c, other) = get_oidc_groups(c, None)
      BY <1>1, <1>3, <2>1 DEF ClaimedGroups
    <2>3. "OIDC" \in Methods /\ OIDC_GROUPS_FIELD
      BY <2>2 DEF get_oidc_groups
    <2>4. FirstClaim(Sources(c, None), "groups") # None
      BY <2>2, <2>3 DEF get_oidc_groups
    <2>5. \E i \in 1..3 : Ends(Sources(c, None)[i], "groups")
      <3>1. PICK m \in 1..4 : Ends(Sources(c, None)[m], "groups")
        BY <2>4, FirstClaimIs
      <3>2. ~Ends(Sources(c, None)[4], "groups")
        BY SourcesType, RaisesAssumption DEF Ends
      <3> QED
        BY <3>1, <3>2
    <2>6. FirstClaim(Sources(c, other), "groups") = FirstClaim(Sources(c, None), "groups")
      BY <2>5, SessionDecides
    <2> QED
      BY <2>3, <2>6 DEF get_oidc_groups
  <1> QED
    BY <1>2, <1>3

----------------------------------------------------------------------------
(* The user.                                                               *)

(* What a method says agrees with what the request proves by it: a user    *)
(* who is found is proven, and 401 means there is nobody to find.          *)
LEMMA OidcAgrees ==
    ASSUME NEW c \in Credential, NEW tokens \in SUBSET Token,
           NEW answer \in acquire_token(c, tokens)
    PROVE  LET found == get_oidc_userinfo(c, answer)
           IN /\ found.status = 201 => found.user \in ProvenBy(c, "OIDC", tokens)
              /\ found.status = 401 => ProvenBy(c, "OIDC", tokens) \subseteq {None}
  <1> DEFINE s == Sources(c, answer)
             claim == FirstClaim(s, "username")
             session == {c.session.profile, c.session.userinfo, c.session.access_token}
  <1>1. answer \in Claims \cup {None, Raises}
    BY AnswerType
  <1>2. /\ session = {s[1], s[2], s[3]} /\ s[4] = answer
        /\ \A i \in 1..4 : s[i] \in session \cup acquire_token(c, tokens)
    BY DEF Sources
  <1>3. ProvenBy(c, "OIDC", tokens) =
          {claims.username : claims \in (session \cup acquire_token(c, tokens)) \ {None, Raises}}
    BY DEF ProvenBy
  <1>4. get_oidc_userinfo(c, answer) =
          IF claim = None THEN Unauthorized
          ELSE IF claim = Raises THEN Failed ELSE Authenticated(claim)
    BY RaisesAssumption DEF get_oidc_userinfo
  <1> HIDE DEF session, claim, s
  <1>5. CASE claim = None
    <2>1. \A i \in 1..4 : ~Ends(s[i], "username")
      <3>1. SUFFICES ASSUME NEW m \in 1..4, Ends(s[m], "username"),
                            claim = ClaimOf(s[m], "username")
                     PROVE  FALSE
        BY <1>1, FirstClaimIs DEF s, claim
      <3> QED
        BY <1>5, <3>1, RaisesAssumption DEF Ends, ClaimOf
    <2>2. answer # Raises
      BY <1>2, <2>1 DEF Ends
    <2>3. acquire_token(c, tokens) \ {Raises} = {answer}
      BY <2>2, OneAnswer
    <2>4. \A claims \in (session \cup acquire_token(c, tokens)) \ {None, Raises} :
            claims.username = None
      BY <1>2, <2>1, <2>3 DEF Ends
    <2> QED
      BY <1>3, <1>4, <1>5, <2>4 DEF Unauthorized
  <1>6. CASE claim = Raises
    BY <1>4, <1>6, RaisesAssumption DEF Failed
  <1>7. CASE claim \notin {None, Raises}
    <2>1. PICK m \in 1..4 : Ends(s[m], "username") /\ claim = ClaimOf(s[m], "username")
      BY <1>1, <1>7, FirstClaimIs DEF s, claim
    <2>2. s[m] \notin {None, Raises} /\ claim = s[m].username
      BY <1>7, <2>1 DEF Ends, ClaimOf
    <2>3. claim \in ProvenBy(c, "OIDC", tokens)
      BY <1>2, <1>3, <2>2
    <2> QED
      BY <1>4, <1>7, <2>3 DEF Authenticated
  <1> QED
    BY <1>5, <1>6, <1>7

LEMMA MethodAgrees ==
    ASSUME NEW c \in Credentials, NEW tokens \in SUBSET Token,
           NEW answer \in acquire_token(c, tokens), NEW method \in Methods \cup {"OIDC"}
    PROVE  LET found == get_user_by_method(c, method, answer)
           IN /\ found.status = 201 => found.user \in ProvenBy(c, method, tokens)
              /\ found.status = 401 => ProvenBy(c, method, tokens) \subseteq {None}
  <1>1. c \in Credential
    BY CredentialsAssumption
  <1>2. method \in {"OIDC", "Kerberos", "SSL", "dummy"}
    BY MethodsAssumption DEF Methods
  <1>3. CASE method = "OIDC"
    BY <1>1, <1>3, OidcAgrees DEF get_user_by_method
  <1>4. CASE method = "Kerberos"
    BY <1>4 DEF get_user_by_method, ProvenBy, process_gssapi_request,
                Authenticated, Unauthorized, Failed
  <1>5. CASE method = "SSL"
    BY <1>5 DEF get_user_by_method, ProvenBy, Authenticated, Unauthorized
  <1>6. CASE method = "dummy"
    BY <1>6 DEF get_user_by_method, ProvenBy, Authenticated, Unauthorized
  <1> QED
    BY <1>2, <1>3, <1>4, <1>5, <1>6

(* The user get_user finds is proven by the request, and 401 means that    *)
(* nothing in it proves anybody (auth.py:47-74).                           *)
LEMMA UserAgrees ==
    ASSUME NEW c \in Credentials, NEW tokens \in SUBSET Token,
           NEW answer \in acquire_token(c, tokens)
    PROVE  LET found == get_user(c, answer)
           IN /\ found.status = 201 => found.user \in Proven(c, tokens)
              /\ found.status = 401 => Proven(c, tokens) = {}
  <1> DEFINE found == get_user(c, answer)
             By(method) == get_user_by_method(c, method, answer)
             outcome == [i \in DOMAIN AUTH_METHODS |->
                           get_user_by_method(c, AUTH_METHODS[i], answer)]
             decisive == {i \in DOMAIN AUTH_METHODS : outcome[i] # Unauthorized}
             methods == IF ActiveSession(c) THEN {"OIDC"} ELSE Methods
  <1>1. answer \in Claims \cup {None, Raises}
    BY AnswerType, CredentialsAssumption
  <1>2. DOMAIN AUTH_METHODS \subseteq Nat
    BY MethodsAssumption
  <1>3. \A m \in Methods \cup {"OIDC"} :
          /\ By(m) \in Outcome
          /\ By(m).status = 201 => By(m).user \in ProvenBy(c, m, tokens)
          /\ By(m).status = 401 => ProvenBy(c, m, tokens) \subseteq {None}
    BY <1>1, MethodType, MethodAgrees
  <1>4. /\ found = IF ActiveSession(c) THEN By("OIDC")
                   ELSE IF decisive = {} THEN Unauthorized
                   ELSE outcome[Min(decisive)]
        /\ \A i \in DOMAIN AUTH_METHODS : outcome[i] = By(AUTH_METHODS[i])
    BY DEF get_user
  <1>5. decisive # {} => Min(decisive) \in decisive
    BY <1>2, MinExists
  <1>6. \A i \in DOMAIN AUTH_METHODS : AUTH_METHODS[i] \in Methods
    BY DEF Methods
  <1> HIDE DEF By, outcome, found
  <1>7. \A m \in Methods \cup {"OIDC"} :
          /\ By(m).status = 201 => By(m).user # None
          /\ By(m).status = 401 => By(m) = Unauthorized
    BY <1>3, NoneAssumption DEF Outcome, Authenticated, Unauthorized, Failed
  <1>8. /\ \A m \in methods : ProvenBy(c, m, tokens) \ {None} \subseteq Proven(c, tokens)
        /\ (\A m \in methods : ProvenBy(c, m, tokens) \subseteq {None}) => Proven(c, tokens) = {}
    BY DEF Proven
  <1> HIDE DEF methods
  <1>9. SUFFICES /\ found.status = 201 => found.user \in Proven(c, tokens)
                 /\ found.status = 401 => Proven(c, tokens) = {}
    BY DEF found
  <1>10. CASE ActiveSession(c)
    <2>1. found = By("OIDC") /\ methods = {"OIDC"}
      BY <1>4, <1>10 DEF methods
    <2> QED
      BY <1>3, <1>7, <1>8, <2>1
  <1>11. CASE ~ActiveSession(c) /\ decisive = {}
    <2>1. methods = Methods /\ found = Unauthorized
      BY <1>4, <1>11 DEF methods
    <2>2. \A m \in Methods : By(m) = Unauthorized
      BY <1>4, <1>11 DEF Methods
    <2>3. \A m \in Methods : ProvenBy(c, m, tokens) \subseteq {None}
      BY <1>3, <2>2 DEF Unauthorized
    <2> QED
      BY <1>8, <2>1, <2>3 DEF Unauthorized
  <1>12. CASE ~ActiveSession(c) /\ decisive # {}
    <2>1. PICK i \in DOMAIN AUTH_METHODS : found = outcome[i] /\ outcome[i] # Unauthorized
      BY <1>4, <1>5, <1>12
    <2>2. PICK m \in Methods : found = By(m) /\ By(m) # Unauthorized
      BY <1>4, <1>6, <2>1
    <2>3. methods = Methods
      BY <1>12 DEF methods
    <2> QED
      BY <1>3, <1>7, <1>8, <2>2, <2>3
  <1> QED
    BY <1>10, <1>11, <1>12

(* The fewer tokens are accepted, the fewer users are proven.              *)
LEMMA ProvenGrows ==
    ASSUME NEW c \in Credential, NEW few \in SUBSET Token, NEW many \in SUBSET Token,
           few \subseteq many
    PROVE  Proven(c, few) \subseteq Proven(c, many)
  <1>1. acquire_token(c, few) \ {None} \subseteq acquire_token(c, many)
    BY DEF acquire_token
  <1>2. \A m : ProvenBy(c, m, few) \subseteq ProvenBy(c, m, many)
    BY <1>1 DEF ProvenBy
  <1> QED
    BY <1>2 DEF Proven

============================================================================
