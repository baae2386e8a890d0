--------------------- MODULE WaiverServiceRightsProofs ---------------------
(***************************************************************************)
(* What TLAPS proves of the rights in WaiverService: whose waivers are     *)
(* stored, and who is refused.  RInv is inductive on top of IInv, which    *)
(* WaiverServiceProofs shows to hold in every state.                       *)
(***************************************************************************)
EXTENDS WaiverServiceProofs

----------------------------------------------------------------------------
(* The inductive invariant behind WaiverServiceRightsProofs, beside IInv.  *)

(* What may be stored for request r.                                       *)
Lawful(r, w) == Attributed(r, w) /\ Authorized(r, w) /\ w.subject_type # "brew-build"

(* Between the moments of a request: tokens only expire, and whoever       *)
(* stayed in a group is in it, and was in it.                              *)
MomentsInStep(r) ==
    /\ accepted \subseteq honoured[r]
    /\ \A u \in User : stayed[r][u] \subseteq groups[u] /\ groups[u] \subseteq member[r][u]

(* While LDAP is searched nothing else allows the submission, all that was *)
(* found is a right of the user's, and a group the user stayed in is among *)
(* it if one of the searches that are done could find it.                  *)
CheckInStep(r) ==
    LET args == Submission(r)
        user == WaivingUser(r, args)
        target == check[r].target
    IN /\ ~ProxyRefused(r, args)
       /\ \E found \in Resolutions(args) : found.status = 201 /\ found.target = target
       /\ Permissions # {} /\ user \notin AllowedUsers(target.testcase)
       /\ ~ClaimAllows(r, target.testcase, accepted)
       /\ check[r].searched < Len(LDAP_SEARCHES)
       /\ \A g \in check[r].found :
            g \in member[r][user] /\ \E i \in DOMAIN LDAP_SEARCHES : g \in LDAP_SEARCHES[i]
       /\ \A i \in 1..check[r].searched :
            stayed[r][user] \cap LDAP_SEARCHES[i] \subseteq check[r].found

RightsInStep(r) ==
    /\ Active(r) => MomentsInStep(r)
    /\ phase[r] \in {"create", "ldap"} => caller[r] \in Proven(credentials[r], honoured[r])
    /\ phase[r] = "ldap" => CheckInStep(r)
    /\ \A i \in DOMAIN made[r] : Lawful(r, made[r][i])
    /\ \A row \in Inserted(r) : Lawful(r, row.waiver)

RInv ==
    /\ \A r \in Request : RightsInStep(r)
    /\ \A row \in table : Lawful(row.request, row.waiver)
    /\ RefusedIsUnentitled /\ UnauthorizedIsUnproven

----------------------------------------------------------------------------

LEMMA InitRInv == Init => RInv
  <1> SUFFICES ASSUME Init PROVE RInv
    OBVIOUS
  <1> USE DEF Init
  <1>1. \A r \in Request : ~Active(r) /\ phase[r] = "new" /\ made[r] = <<>> /\ Inserted(r) = {}
    BY DEF Active, Inserted
  <1>2. \A r \in Request : RightsInStep(r)
    BY <1>1 DEF RightsInStep
  <1>3. \A r \in Request : status[r] = None
    OBVIOUS
  <1>4. RefusedIsUnentitled /\ UnauthorizedIsUnproven
    BY <1>3, StatusAssumption DEF RefusedIsUnentitled, UnauthorizedIsUnproven, Status
  <1> QED
    BY <1>2, <1>4 DEF RInv

(* A step that leaves alone what a request brought, and takes from no user *)
(* a group the user was in, takes the right to no waiver.                  *)
LEMMA LawfulStays ==
    ASSUME NEW r \in Request, NEW w \in Waiver,
           credentials'[r] = credentials[r], honoured'[r] = honoured[r],
           \A u \in User : member[r][u] \subseteq member'[r][u],
           Lawful(r, w)
    PROVE  Lawful(r, w)'
  <1>1. w.username \in User
    BY DEF Waiver
  <1>2. Entitled(w.username, w.testcase, member[r][w.username])
          => Entitled(w.username, w.testcase, member'[r][w.username])
    BY <1>1 DEF Entitled
  <1>3. Authorized(r, w)'
    BY <1>2 DEF Lawful, Authorized, ClaimAllows
  <1>4. Attributed(r, w)'
    BY DEF Lawful, Attributed
  <1> QED
    BY <1>3, <1>4 DEF Lawful

(* No step makes a refusal undue: tokens only expire.                      *)
LEMMA RefusableStays ==
    ASSUME TypeOK, TypeOK', NEW r \in Request, NEW args, credentials[r] \in Credentials,
           credentials'[r] = credentials[r], caller'[r] = caller[r],
           accepted' \subseteq accepted, stayed'[r] = stayed[r],
           Refusable(r, args)
    PROVE  Refusable(r, args)'
  <1> DEFINE user == WaivingUser(r, args)
  <1>1. user' = user /\ ProxyRefused(r, args)' = ProxyRefused(r, args)
    BY DEF WaivingUser, ProxyRefused, Proxied
  <1>2. ASSUME NEW t, ClaimAllows(r, t, accepted)' PROVE ClaimAllows(r, t, accepted)
    <2>1. /\ credentials[r] \in Credential /\ accepted' \in SUBSET Token
          /\ accepted \in SUBSET Token
      BY CredentialsAssumption DEF TypeOK
    <2>2. ClaimedGroups(credentials[r], accepted') \subseteq ClaimedGroups(credentials[r], accepted)
      BY <2>1, ClaimedGrows
    <2> QED
      BY <1>2, <2>2 DEF ClaimAllows
  <1> HIDE DEF user
  <1>3. CASE ProxyRefused(r, args)
    BY <1>1, <1>3 DEF Refusable
  <1>4. CASE \E found \in Resolutions(args) :
               /\ found.status = 201
               /\ ~Entitled(user, found.target.testcase, stayed[r][user])
               /\ ~ClaimAllows(r, found.target.testcase, accepted)
    <2>1. \E found \in Resolutions(args) :
            /\ found.status = 201
            /\ ~Entitled(user, found.target.testcase, stayed'[r][user])
            /\ ~ClaimAllows(r, found.target.testcase, accepted)'
      BY <1>2, <1>4
    <2> QED
      BY <1>1, <2>1 DEF Refusable, user
  <1> QED
    BY <1>3, <1>4 DEF Refusable, user

(* A step of another request.                                              *)
LEMMA OtherKeeps ==
    ASSUME IInv, IInv', NEW q \in Request, RightsInStep(q),
           UNCHANGED <<groups, accepted, body[q], credentials[q], honoured[q], member[q],
                       stayed[q], phase[q], caller[q], made[q], check[q], rows[q]>>
    PROVE  RightsInStep(q)'
  <1>1. TypeOK /\ TypeOK' /\ BatchInStep
    BY DEF IInv
  <1>2. Active(q)' = Active(q) /\ Inserted(q)' = Inserted(q) /\ Submission(q)' = Submission(q)
    BY DEF Active, Inserted, Submission
  <1>3. MomentsInStep(q) => MomentsInStep(q)'
    BY DEF MomentsInStep
  <1>4. CheckInStep(q) => CheckInStep(q)'
    BY <1>2 DEF CheckInStep, WaivingUser, Proxied, ProxyRefused, ClaimAllows
  <1>5. ASSUME NEW w, Lawful(q, w) PROVE Lawful(q, w)'
    BY <1>5 DEF Lawful, Attributed, Authorized, ClaimAllows
  <1> QED
    BY <1>2, <1>3, <1>4, <1>5 DEF RightsInStep

(* A step of request r keeps the invariant if it does so for r and stores  *)
(* nothing unlawful.                                                       *)
LEMMA RequestStep ==
    ASSUME IInv, IInv', RInv, NEW r \in Request,
           UNCHANGED <<groups, accepted, body, credentials, honoured, member, stayed>>,
           \A q \in Request \ {r} :
             UNCHANGED <<phase[q], caller[q], made[q], check[q], rows[q], status[q]>>,
           RightsInStep(r)',
           \A row \in table' \ table : Lawful(row.request, row.waiver),
           caller'[r] = caller[r] \/ status'[r] = None,
           status'[r] = 403 => \E i \in DOMAIN body[r] : Refusable(r, body[r][i]),
           status'[r] = 401 => Proven(credentials[r], accepted) = {}
    PROVE  RInv'
  <1>1. TypeOK /\ TypeOK' /\ BatchInStep' /\ StoredInStep'
    BY DEF IInv
  <1>2. \A q \in Request : RightsInStep(q)'
    BY OtherKeeps DEF RInv
  <1>3. \A row \in table' : Lawful(row.request, row.waiver)'
    <2> SUFFICES ASSUME NEW row \in table' PROVE Lawful(row.request, row.waiver)'
      OBVIOUS
    <2>1. row.request \in Request /\ row.waiver \in Waiver
      BY <1>1 DEF TypeOK, Row
    <2>2. Lawful(row.request, row.waiver)
      BY DEF RInv
    <2> QED
      BY <2>1, <2>2, LawfulStays
  <1>4. RefusedIsUnentitled'
    <2> SUFFICES ASSUME NEW q \in Request, status'[q] = 403
                 PROVE  \E i \in DOMAIN body'[q] : Refusable(q, body[q][i])'
      BY DEF RefusedIsUnentitled
    <2>1. caller'[q] = caller[q] /\ \E i \in DOMAIN body[q] : Refusable(q, body[q][i])
      BY NoneAssumption, StatusAssumption DEF RInv, RefusedIsUnentitled, Status
    <2>2. credentials[q] \in Credentials
      BY <1>1, StatusAssumption DEF BatchInStep, StoredInStep, Status
    <2> QED
      BY <1>1, <2>1, <2>2, RefusableStays
  <1>5. UnauthorizedIsUnproven'
    BY DEF RInv, UnauthorizedIsUnproven
  <1> QED
    BY <1>2, <1>3, <1>4, <1>5 DEF RInv

LEMMA ReceiveRights ==
    ASSUME IInv, IInv', RInv, NEW r \in Request, Receive(r)
    PROVE  RInv'
  <1> USE DEF Receive, GoTo, shared, work
  <1>1. TypeOK /\ TypeOK' /\ BatchInStep /\ BatchInStep' /\ StoredInStep
    BY DEF IInv
  <1>2. \A q \in Request \ {r} :
          UNCHANGED <<body[q], credentials[q], honoured[q], member[q], stayed[q], phase[q],
                      caller[q], made[q], check[q], rows[q], status[q]>>
    BY <1>1 DEF TypeOK
  <1>3. /\ phase'[r] = "received" /\ honoured'[r] = accepted
        /\ member'[r] = groups /\ stayed'[r] = groups
        /\ made'[r] = <<>> /\ rows'[r] = <<>> /\ status'[r] = None
    BY <1>1 DEF TypeOK, BatchInStep, StoredInStep
  <1>4. RightsInStep(r)'
    <2>1. MomentsInStep(r)'
      BY <1>3 DEF MomentsInStep
    <2> QED
      BY <1>3, <2>1 DEF RightsInStep, Inserted
  <1>5. \A q \in Request : RightsInStep(q)'
    BY <1>2, <1>4, OtherKeeps DEF RInv
  <1>6. \A row \in table' : Lawful(row.request, row.waiver)'
    <2> SUFFICES ASSUME NEW row \in table' PROVE Lawful(row.request, row.waiver)'
      OBVIOUS
    <2>1. row.request \in Request \ {r} /\ row.waiver \in Waiver
      BY <1>1, NothingDrawn DEF TypeOK, Row, Drawn
    <2>2. Lawful(row.request, row.waiver)
      BY DEF RInv
    <2> QED
      BY <1>2, <2>1, <2>2, LawfulStays
  <1>7. RefusedIsUnentitled'
    <2> SUFFICES ASSUME NEW q \in Request, status'[q] = 403
                 PROVE  \E i \in DOMAIN body'[q] : Refusable(q, body[q][i])'
      BY DEF RefusedIsUnentitled
    <2>1. q # r
      BY <1>3, StatusAssumption DEF Status
    <2>2. \E i \in DOMAIN body[q] : Refusable(q, body[q][i])
      BY DEF RInv, RefusedIsUnentitled
    <2>3. credentials[q] \in Credentials
      BY <1>1, StatusAssumption DEF BatchInStep, StoredInStep, Status
    <2>4. PICK i \in DOMAIN body[q] : Refusable(q, body[q][i])
      BY <2>2
    <2>5. Refusable(q, body[q][i])'
      <3>1. body'[q] = body[q]
        BY <1>2, <2>1
      <3> DEFINE args == body[q][i]
      <3> HIDE DEF args
      <3>2. ASSUME NEW other, Refusable(q, other) PROVE Refusable(q, other)'
        BY <1>1, <1>2, <2>1, <2>3, <3>2, RefusableStays
      <3> QED
        BY <2>4, <3>1, <3>2
    <2>6. i \in DOMAIN body'[q]
      BY <1>2, <2>1, <2>4
    <2> QED
      BY <2>5, <2>6, Zenon
  <1>8. UnauthorizedIsUnproven'
    <2>1. status'[r] # 401 /\ accepted' = accepted
      BY <1>3, StatusAssumption DEF Status
    <2> QED
      BY <1>2, <2>1 DEF RInv, UnauthorizedIsUnproven
  <1> QED
    BY <1>5, <1>6, <1>7, <1>8 DEF RInv

(* The end of a handler: only 403 and 401 say something about rights.      *)
LEMMA FinishRights ==
    ASSUME IInv, IInv', RInv, NEW r \in Request, NEW code,
           Finish(r, code), UNCHANGED <<table, groups, accepted, request>>,
           code = 403 => \E i \in DOMAIN body[r] : Refusable(r, body[r][i]),
           code = 401 => Proven(credentials[r], accepted) = {}
    PROVE  RInv'
  <1> USE DEF Finish, GoTo, request
  <1>1. TypeOK
    BY DEF IInv
  <1>2. \A q \in Request \ {r} :
          UNCHANGED <<phase[q], caller[q], made[q], check[q], rows[q], status[q]>>
    BY <1>1 DEF TypeOK
  <1>3. phase'[r] = "done" /\ made'[r] = <<>> /\ rows'[r] = <<>> /\ status'[r] = code
    BY <1>1 DEF TypeOK
  <1>4. RightsInStep(r)'
    BY <1>3 DEF RightsInStep, Active, Inserted
  <1> QED
    BY <1>2, <1>3, <1>4, RequestStep

(* An error on its way to the client that says nothing about rights, or    *)
(* says what is so.                                                        *)
LEMMA RefuseRights ==
    ASSUME IInv, IInv', RInv, NEW r \in Request, NEW code,
           Refuse(r, code) \/ Finish(r, code), UNCHANGED <<table, groups, accepted, request>>,
           code = 403 => \E i \in DOMAIN body[r] : Refusable(r, body[r][i]),
           code = 401 => Proven(credentials[r], accepted) = {}
    PROVE  RInv'
  BY FinishRights DEF Refuse

(* A handler goes on, with what it made and inserted or with what is as    *)
(* lawful.                                                                 *)
LEMMA AdvanceRights ==
    ASSUME IInv, IInv', RInv, NEW r \in Request, Active(r),
           NEW p \in {"create", "insert", "publish", "respond", "broken"},
           phase' = [phase EXCEPT ![r] = p],
           UNCHANGED <<groups, accepted, body, credentials, honoured, member, stayed, status>>,
           \A q \in Request \ {r} : UNCHANGED <<caller[q], made[q], check[q], rows[q]>>,
           \A row \in table' \ table : Lawful(row.request, row.waiver),
           p # "create" => caller'[r] = caller[r],
           p = "create" => caller'[r] \in Proven(credentials[r], honoured[r]),
           \A i \in DOMAIN made'[r] : Lawful(r, made'[r][i]),
           \A row \in Inserted(r)' : Lawful(r, row.waiver)
    PROVE  RInv'
  <1>1. TypeOK /\ TypeOK' /\ StoredInStep
    BY DEF IInv
  <1>2. status'[r] = None
    BY <1>1 DEF StoredInStep, Active
  <1>3. \A q \in Request : phase'[q] = IF q = r THEN p ELSE phase[q]
    BY <1>1 DEF TypeOK
  <1>4. ASSUME NEW w \in Waiver, Lawful(r, w) PROVE Lawful(r, w)'
    BY <1>4, LawfulStays
  <1>5. /\ \A i \in DOMAIN made'[r] : made'[r][i] \in Waiver
        /\ \A row \in Inserted(r)' : row.waiver \in Waiver
    <2>1. made'[r] \in Seq(Waiver) /\ rows'[r] \in Seq(Row)
      BY <1>1 DEF TypeOK
    <2>2. \A row \in Inserted(r)' : row \in Row
      BY <2>1 DEF Inserted
    <2> QED
      BY <2>1, <2>2 DEF Row
  <1>6. MomentsInStep(r)'
    BY DEF RInv, RightsInStep, MomentsInStep
  <1>7. RightsInStep(r)'
    BY <1>3, <1>4, <1>5, <1>6 DEF RightsInStep
  <1>8. /\ status'[r] = 403 => \E i \in DOMAIN body[r] : Refusable(r, body[r][i])
        /\ status'[r] = 401 => Proven(credentials[r], accepted) = {}
    BY <1>2, StatusAssumption DEF Status
  <1> QED
    BY <1>2, <1>3, <1>7, <1>8, RequestStep

LEMMA AuthenticateRights ==
    ASSUME IInv, IInv', RInv, NEW r \in Request, Authenticate(r)
    PROVE  RInv'
  <1>1. TypeOK /\ BatchInStep
    BY DEF IInv
  <1>2. /\ phase[r] = "received" /\ UNCHANGED shared
        /\ UNCHANGED <<body, credentials, stamp, before, honoured, member, stayed>>
    BY DEF Authenticate
  <1>3. PICK answer \in acquire_token(credentials[r], accepted) :
          LET found == get_user(credentials[r], answer) IN
          \/ /\ found.status = 201
             /\ caller' = [caller EXCEPT ![r] = found.user]
             /\ GoTo(r, "create")
             /\ UNCHANGED work
          \/ /\ found.status # 201
             /\ Refuse(r, found.status)
             /\ UNCHANGED caller
    BY DEF Authenticate
  <1> DEFINE found == get_user(credentials[r], answer)
  <1>4. /\ credentials[r] \in Credentials /\ credentials[r] \in Credential
        /\ accepted \in SUBSET Token /\ honoured[r] \in SUBSET Token
        /\ accepted \subseteq honoured[r]
    BY <1>1, <1>2, CredentialsAssumption
       DEF BatchInStep, TypeOK, RInv, RightsInStep, MomentsInStep, Active
  <1>5. /\ found \in Outcome
        /\ found.status = 201 => found.user \in Proven(credentials[r], accepted)
        /\ found.status = 401 => Proven(credentials[r], accepted) = {}
    BY <1>4, UserType, UserAgrees
  <1> HIDE DEF found
  <1>6. CASE found.status = 201 /\ caller' = [caller EXCEPT ![r] = found.user]
             /\ GoTo(r, "create") /\ UNCHANGED work
    <2> USE DEF shared, work, GoTo
    <2>1. made[r] = <<>> /\ rows[r] = <<>>
      BY <1>1, <1>2 DEF BatchInStep
    <2>2. caller'[r] \in Proven(credentials[r], honoured[r])
      <3>1. found.user \in Proven(credentials[r], honoured[r])
        BY <1>4, <1>5, <1>6, ProvenGrows
      <3> QED
        BY <1>1, <1>6, <3>1 DEF TypeOK
    <2>3. \A q \in Request \ {r} : caller'[q] = caller[q]
      BY <1>1, <1>6 DEF TypeOK
    <2>4. /\ DOMAIN made'[r] = {} /\ Inserted(r)' = {} /\ table' = table
          /\ phase' = [phase EXCEPT ![r] = "create"]
          /\ UNCHANGED <<groups, accepted, made, check, rows, status>>
      BY <1>2, <1>6, <2>1 DEF Inserted
    <2>5. Active(r)
      BY <1>2 DEF Active
    <2> HIDE DEF shared, work, GoTo
    <2> QED
      BY <1>2, <2>2, <2>3, <2>4, <2>5, AdvanceRights
  <1>7. CASE found.status # 201 /\ Refuse(r, found.status) /\ UNCHANGED caller
    <2>1. found.status # 403
      BY <1>5 DEF Outcome, Authenticated, Unauthorized, Failed
    <2> QED
      BY <1>2, <1>5, <1>7, <2>1, RefuseRights DEF shared, request
  <1> QED
    BY <1>3, <1>6, <1>7 DEF found

(* A claim that holds now held when the request was received.              *)
LEMMA ClaimHeld ==
    ASSUME IInv, RInv, NEW r \in Request, Active(r), NEW t, ClaimAllows(r, t, accepted)
    PROVE  ClaimAllows(r, t, honoured[r])
  <1>1. /\ credentials[r] \in Credential
        /\ accepted \in SUBSET Token /\ honoured[r] \in SUBSET Token
        /\ accepted \subseteq honoured[r]
    BY CredentialsAssumption
       DEF IInv, TypeOK, BatchInStep, RInv, RightsInStep, MomentsInStep, Active
  <1>2. ClaimedGroups(credentials[r], accepted) \subseteq ClaimedGroups(credentials[r], honoured[r])
    BY <1>1, ClaimedGrows
  <1> QED
    BY <1>2 DEF ClaimAllows

(* What verify_authorization says before it asks LDAP, of rights           *)
(* (authorization.py:126-149).                                             *)
LEMMA VerdictIs ==
    ASSUME IInv, NEW r \in Request, phase[r] # "new", NEW user, NEW t,
           NEW answer \in acquire_token(credentials[r], accepted)
    PROVE  LET verdict == verify_authorization(user, t, get_oidc_groups(credentials[r], answer))
           IN /\ verdict = "allow" =>
                   Permissions = {} \/ user \in AllowedUsers(t) \/ ClaimAllows(r, t, accepted)
              /\ verdict \in {"search", "forbid"} =>
                   /\ Permissions # {} /\ user \notin AllowedUsers(t)
                   /\ ~ClaimAllows(r, t, accepted)
                   /\ verdict = "forbid" <=> LDAP_SEARCHES = <<>>
  <1> DEFINE claims == get_oidc_groups(credentials[r], answer)
             verdict == verify_authorization(user, t, claims)
  <1>1. credentials[r] \in Credential /\ accepted \in SUBSET Token
    BY CredentialsAssumption DEF IInv, TypeOK, BatchInStep
  <1>2. claims \notin {None, Raises} => claims \in ClaimedGroups(credentials[r], accepted)
    BY <1>1, ClaimIsClaimed
  <1>3. claims # Raises => ClaimedGroups(credentials[r], accepted) \subseteq {claims} \ {None}
    BY <1>1, ClaimIsTheOnly
  <1> HIDE DEF claims
  <1>4. claims # Raises => (check_oidc_groups(claims, t) <=> ClaimAllows(r, t, accepted))
    BY <1>2, <1>3 DEF ClaimAllows, check_oidc_groups
  <1>5. verdict = "allow" =>
          Permissions = {} \/ user \in AllowedUsers(t) \/ ClaimAllows(r, t, accepted)
    BY <1>4 DEF verify_authorization
  <1>6. verdict \in {"search", "forbid"} =>
          /\ Permissions # {} /\ user \notin AllowedUsers(t)
          /\ ~ClaimAllows(r, t, accepted)
          /\ verdict = "forbid" <=> LDAP_SEARCHES = <<>>
    BY <1>4 DEF verify_authorization
  <1> QED
    BY <1>5, <1>6 DEF claims

(* The object _create_waiver returns is lawful if the check allowed it     *)
(* (api_v1.py:310-367).                                                    *)
LEMMA BuildRights ==
    ASSUME IInv, IInv', RInv, NEW r \in Request, phase[r] \in {"create", "ldap"},
           Len(made[r]) < Len(body[r]), NEW target \in Target,
           ~ProxyRefused(r, Submission(r)),
           LET user == WaivingUser(r, Submission(r))
           IN Entitled(user, target.testcase, member[r][user])
              \/ ClaimAllows(r, target.testcase, honoured[r]),
           Build(r, target), UNCHANGED <<shared, request>>
    PROVE  RInv'
  <1> DEFINE args == Submission(r)
             waiver == NewWaiver(target, WaivingUser(r, args), args.product_version,
                                 ProxiedBy(r, args))
  <1>1. TypeOK /\ BatchInStep
    BY DEF IInv
  <1>2. /\ made' = [made EXCEPT ![r] = Append(@, waiver)]
        /\ phase' = [phase EXCEPT ![r] = "create"] /\ UNCHANGED <<rows, status>>
        /\ check' = [check EXCEPT ![r] = None]
        /\ UNCHANGED <<table, groups, accepted, body, credentials, caller, honoured, member, stayed>>
    BY DEF Build, GoTo, shared, request
  <1>3. /\ waiver.username = WaivingUser(r, args) /\ waiver.testcase = target.testcase
        /\ waiver.proxied_by = ProxiedBy(r, args) /\ waiver.subject_type # "brew-build"
    BY DEF NewWaiver
  <1>4. caller[r] \in User \ {None} /\ caller[r] \in Proven(credentials[r], honoured[r])
    BY <1>1, NoneAssumption DEF BatchInStep, RInv, RightsInStep
  <1>5. Authorized(r, waiver)
    BY <1>3 DEF Authorized
  <1>6. Attributed(r, waiver)
    BY <1>3, <1>4 DEF Attributed, WaivingUser, ProxiedBy, ProxyRefused, Proxied
  <1>7. Lawful(r, waiver)
    BY <1>3, <1>5, <1>6 DEF Lawful
  <1> HIDE DEF args, waiver
  <1>8. made[r] \in Seq(Waiver) /\ made'[r] = Append(made[r], waiver)
    BY <1>1, <1>2 DEF TypeOK
  <1>9. \A i \in DOMAIN made'[r] : Lawful(r, made'[r][i])
    <2>1. \A i \in DOMAIN made'[r] :
            made'[r][i] = waiver \/ (i \in DOMAIN made[r] /\ made'[r][i] = made[r][i])
      BY <1>8
    <2> QED
      BY <1>7, <2>1 DEF RInv, RightsInStep
  <1>10. /\ \A q \in Request \ {r} : UNCHANGED <<caller[q], made[q], check[q], rows[q]>>
         /\ \A row \in Inserted(r)' : Lawful(r, row.waiver)
    BY <1>1, <1>2 DEF TypeOK, RInv, RightsInStep, Inserted
  <1>11. Active(r)
    BY DEF Active
  <1> QED
    BY <1>2, <1>4, <1>9, <1>10, <1>11, AdvanceRights

(* The LDAP check of a submission begins or goes on.                       *)
LEMMA CheckRights ==
    ASSUME IInv, IInv', RInv, NEW r \in Request, phase[r] \in {"create", "ldap"},
           NEW next, check' = [check EXCEPT ![r] = next],
           phase' = [phase EXCEPT ![r] = "ldap"],
           UNCHANGED <<shared, request, made, rows, status>>,
           CheckInStep(r)'
    PROVE  RInv'
  <1> USE DEF shared, request
  <1>1. TypeOK /\ StoredInStep
    BY DEF IInv
  <1>2. status[r] = None
    BY <1>1 DEF StoredInStep
  <1>3. /\ \A q \in Request \ {r} : UNCHANGED <<phase[q], check[q]>>
        /\ phase'[r] = "ldap" /\ Inserted(r)' = Inserted(r)
    BY <1>1 DEF TypeOK, Inserted
  <1>4. \A w : Lawful(r, w) => Lawful(r, w)'
    BY DEF Lawful, Attributed, Authorized, ClaimAllows
  <1>5. MomentsInStep(r)'
    BY DEF RInv, RightsInStep, MomentsInStep, Active
  <1>6. RightsInStep(r)'
    BY <1>3, <1>4, <1>5 DEF RInv, RightsInStep
  <1>7. status'[r] # 403 /\ status'[r] # 401
    BY <1>2, StatusAssumption DEF Status
  <1> QED
    BY <1>3, <1>6, <1>7, RequestStep

(* The submission at hand is one of the batch.                             *)
LEMMA SubmissionInBody ==
    ASSUME IInv, NEW r \in Request, Len(made[r]) < Len(body[r]), Refusable(r, Submission(r))
    PROVE  \E i \in DOMAIN body[r] : Refusable(r, body[r][i])
  <1>1. body[r] \in Seq(CreateWaiver) /\ made[r] \in Seq(Waiver)
    BY DEF IInv, TypeOK
  <1>2. Len(made[r]) + 1 \in DOMAIN body[r]
    BY <1>1
  <1> QED
    BY <1>2 DEF Submission

LEMMA CreateNextRights ==
    ASSUME IInv, IInv', RInv, NEW r \in Request, CreateNext(r)
    PROVE  RInv'
  <1> DEFINE args == Submission(r)
             user == WaivingUser(r, args)
  <1>1. /\ phase[r] = "create" /\ Len(made[r]) < Len(body[r]) /\ Active(r)
        /\ UNCHANGED <<shared, request>>
    BY DEF CreateNext, Active
  <1>2. UNCHANGED <<table, groups, accepted, request>>
    BY <1>1 DEF shared
  <1>3. CASE ProxyRefused(r, args) /\ Refuse(r, 403)
    <2>1. Refusable(r, args)
      BY <1>3 DEF Refusable
    <2> QED
      BY <1>1, <1>2, <1>3, <2>1, SubmissionInBody, RefuseRights
  <1>4. ASSUME NEW found \in Resolutions(args), found.status # 201, Refuse(r, found.status)
        PROVE  RInv'
    <2>1. found.status \in {400, 500, 503}
      BY <1>1, <1>4, SubmissionType, ResolutionType
    <2> QED
      BY <1>2, <1>4, <2>1, RefuseRights
  <1>5. ASSUME ~ProxyRefused(r, args), NEW found \in Resolutions(args), found.status = 201,
               Authorize(r, found.target)
        PROVE  RInv'
    <2> DEFINE target == found.target
    <2>1. target \in Target
      BY <1>1, <1>5, SubmissionType, ResolutionType
    <2>2. PICK answer \in acquire_token(credentials[r], accepted) :
            LET verdict == verify_authorization(user, target.testcase,
                                                get_oidc_groups(credentials[r], answer))
            IN \/ verdict = "allow" /\ Build(r, target)
               \/ verdict = "forbid" /\ Refuse(r, 403)
               \/ verdict = "raise" /\ Finish(r, 500)
               \/ /\ verdict = "search"
                  /\ check' = [check EXCEPT ![r] = Check(target, 0, {})]
                  /\ GoTo(r, "ldap")
                  /\ UNCHANGED <<made, rows, status>>
      BY <1>5 DEF Authorize
    <2> DEFINE verdict == verify_authorization(user, target.testcase,
                                               get_oidc_groups(credentials[r], answer))
    <2>3. /\ verdict = "allow" =>
              \/ Permissions = {} \/ user \in AllowedUsers(target.testcase)
              \/ ClaimAllows(r, target.testcase, accepted)
          /\ verdict \in {"search", "forbid"} =>
              /\ Permissions # {} /\ user \notin AllowedUsers(target.testcase)
              /\ ~ClaimAllows(r, target.testcase, accepted)
              /\ verdict = "forbid" <=> LDAP_SEARCHES = <<>>
      BY <1>1, VerdictIs
    <2> HIDE DEF verdict, target, user
    <2>4. CASE verdict = "allow" /\ Build(r, target)
      <3>1. \/ Entitled(user, target.testcase, member[r][user])
            \/ ClaimAllows(r, target.testcase, honoured[r])
        BY <1>1, <2>3, <2>4, ClaimHeld DEF Entitled
      <3> QED
        BY <1>1, <1>5, <2>1, <2>4, <3>1, BuildRights DEF user
    <2>5. CASE verdict = "forbid" /\ Refuse(r, 403)
      <3>1. ~Entitled(user, target.testcase, stayed[r][user])
        BY <2>3, <2>5 DEF Entitled
      <3>2. Refusable(r, args)
        BY <1>5, <2>3, <2>5, <3>1 DEF Refusable, target, user
      <3> QED
        BY <1>1, <1>2, <2>5, <3>2, SubmissionInBody, RefuseRights
    <2>6. CASE verdict = "raise" /\ Finish(r, 500)
      BY <1>2, <2>6, RefuseRights
    <2>7. CASE /\ verdict = "search"
               /\ check' = [check EXCEPT ![r] = Check(target, 0, {})]
               /\ GoTo(r, "ldap")
               /\ UNCHANGED <<made, rows, status>>
      <3>1. check'[r] = Check(target, 0, {})
        BY <2>7 DEF IInv, TypeOK
      <3>2. /\ check'[r].target = target /\ check'[r].searched = 0 /\ check'[r].found = {}
        BY <3>1 DEF Check
      <3>3. Submission(r)' = args /\ WaivingUser(r, args)' = user
            /\ ProxyRefused(r, args)' = ProxyRefused(r, args)
            /\ \A t : ClaimAllows(r, t, accepted)' <=> ClaimAllows(r, t, accepted)
        BY <1>1, <2>7 DEF Submission, WaivingUser, ProxyRefused, Proxied, ClaimAllows, shared,
                          request, user
      <3>4. 0 < Len(LDAP_SEARCHES)
        BY <2>3, <2>7, LDAPAssumption
      <3>5. CheckInStep(r)'
        BY <1>1, <1>5, <2>3, <2>7, <3>2, <3>3, <3>4 DEF CheckInStep, target
      <3> QED
        BY <1>1, <2>7, <3>5, CheckRights DEF GoTo
    <2> QED
      BY <2>2, <2>4, <2>5, <2>6, <2>7 DEF verdict
  <1> QED
    BY <1>3, <1>4, <1>5 DEF CreateNext

LEMMA LdapSearchRights ==
    ASSUME IInv, IInv', RInv, NEW r \in Request, LdapSearch(r)
    PROVE  RInv'
  <1> DEFINE args == Submission(r)
             user == WaivingUser(r, args)
             target == check[r].target
             old == check[r].searched
             searched == old + 1
             found == get_group_membership(check[r].found, searched, groups[user])
             t == target.testcase
  <1>1. phase[r] = "ldap" /\ Active(r) /\ UNCHANGED <<shared, request>>
    BY DEF LdapSearch, Active
  <1>2. Len(made[r]) < Len(body[r]) /\ check[r] \in LdapCheck
    BY <1>1 DEF IInv, BatchInStep
  <1>3. target \in Target /\ old \in Nat /\ check[r].found \in SUBSET Group
    BY <1>2 DEF LdapCheck
  <1>4. user \in User
    BY <1>1, <1>2, SubmissionType
  <1>5. /\ ~ProxyRefused(r, args)
        /\ \E resolved \in Resolutions(args) : resolved.status = 201 /\ resolved.target = target
        /\ Permissions # {} /\ user \notin AllowedUsers(t)
        /\ ~ClaimAllows(r, t, accepted)
        /\ old < Len(LDAP_SEARCHES)
        /\ \A g \in check[r].found :
             g \in member[r][user] /\ \E i \in DOMAIN LDAP_SEARCHES : g \in LDAP_SEARCHES[i]
        /\ \A i \in 1..old : stayed[r][user] \cap LDAP_SEARCHES[i] \subseteq check[r].found
    BY <1>1 DEF RInv, RightsInStep, CheckInStep
  <1>6. stayed[r][user] \subseteq groups[user] /\ groups[user] \subseteq member[r][user]
    BY <1>1, <1>4 DEF RInv, RightsInStep, MomentsInStep
  <1>7. found = check[r].found \cup (groups[user] \cap LDAP_SEARCHES[searched])
    BY DEF get_group_membership
  <1>8. searched \in DOMAIN LDAP_SEARCHES /\ DOMAIN LDAP_SEARCHES = 1..Len(LDAP_SEARCHES)
        /\ Len(LDAP_SEARCHES) \in Nat
    BY <1>3, <1>5, LDAPAssumption
  <1>9. UNCHANGED <<table, groups, accepted, request>>
    BY <1>1 DEF shared
  <1> HIDE DEF args, user, target, old, found
  <1>10. \A g \in found :
           g \in member[r][user] /\ \E i \in DOMAIN LDAP_SEARCHES : g \in LDAP_SEARCHES[i]
    BY <1>5, <1>6, <1>7, <1>8
  <1>11. \A i \in 1..searched : stayed[r][user] \cap LDAP_SEARCHES[i] \subseteq found
    <2> SUFFICES ASSUME NEW i \in 1..searched, NEW g \in stayed[r][user] \cap LDAP_SEARCHES[i]
                 PROVE  g \in found
      OBVIOUS
    <2>1. i \in 1..old \/ i = searched
      BY <1>3
    <2> QED
      BY <1>5, <1>6, <1>7, <2>1
  <1>12. CASE check_ldap_groups(found, t) /\ Build(r, target)
    <2>1. Entitled(user, t, member[r][user])
      BY <1>10, <1>12 DEF check_ldap_groups, Entitled
    <2> QED
      BY <1>1, <1>2, <1>3, <1>5, <1>12, <2>1, BuildRights DEF args, user
  <1>13. CASE /\ ~check_ldap_groups(found, t) /\ searched = Len(LDAP_SEARCHES)
              /\ Refuse(r, 403)
    <2>1. ~Entitled(user, t, stayed[r][user])
      BY <1>5, <1>8, <1>11, <1>13 DEF check_ldap_groups, Entitled
    <2>2. Refusable(r, args)
      BY <1>5, <2>1 DEF Refusable, user
    <2> QED
      BY <1>2, <1>9, <1>13, <2>2, SubmissionInBody, RefuseRights DEF args
  <1>14. CASE /\ ~check_ldap_groups(found, t) /\ searched < Len(LDAP_SEARCHES)
              /\ check' = [check EXCEPT ![r] = Check(target, searched, found)]
              /\ UNCHANGED <<phase, made, rows, status>>
    <2>1. check'[r] = Check(target, searched, found)
      BY <1>14 DEF IInv, TypeOK
    <2>2. check'[r].target = target /\ check'[r].searched = searched /\ check'[r].found = found
      BY <2>1 DEF Check
    <2>3. UNCHANGED <<body, caller, credentials, made, member, stayed, accepted>>
      BY <1>9, <1>14 DEF request
    <2>4. Submission(r)' = args
      BY <2>3 DEF Submission, args
    <2>5. CheckInStep(r)'
      <3>1. \A a : /\ WaivingUser(r, a)' = WaivingUser(r, a)
                   /\ ProxyRefused(r, a)' = ProxyRefused(r, a)
        BY <2>3 DEF WaivingUser, ProxyRefused, Proxied
      <3>2. \A c : ClaimAllows(r, c, accepted)' <=> ClaimAllows(r, c, accepted)
        BY <2>3 DEF ClaimAllows
      <3>3. /\ ~ProxyRefused(r, Submission(r))'
            /\ WaivingUser(r, Submission(r))' = user
            /\ ~ClaimAllows(r, check[r].target.testcase, accepted)'
        BY <1>5, <2>2, <2>4, <3>1, <3>2 DEF user
      <3> QED
        BY <1>5, <1>10, <1>11, <1>14, <2>2, <2>3, <2>4, <3>3 DEF CheckInStep
    <2>6. phase' = [phase EXCEPT ![r] = "ldap"]
      BY <1>1, <1>14 DEF IInv, TypeOK
    <2> QED
      BY <1>1, <1>14, <2>5, <2>6, CheckRights
  <1> QED
    BY <1>12, <1>13, <1>14 DEF LdapSearch, args, user, target, old, found

(* The rows of the transaction are those of the batch, and no more.        *)
LEMMA TransactionRights ==
    ASSUME IInv, IInv', RInv, NEW r \in Request,
           Flush(r) \/ Insert(r) \/ Commit(r) \/ CommitUnanswered(r)
           \/ PublishRow(r) \/ EndPublish(r)
    PROVE  RInv'
  <1> USE DEF shared, request, work
  <1>1. TypeOK /\ BatchInStep /\ RowsInBatch
    BY DEF IInv
  <1>2. /\ \A i \in DOMAIN made[r] : Lawful(r, made[r][i])
        /\ \A row \in Inserted(r) : Lawful(r, row.waiver)
    BY DEF RInv, RightsInStep
  <1>3. CASE Flush(r)
    <2>1. /\ Active(r) /\ phase' = [phase EXCEPT ![r] = "insert"]
          /\ UNCHANGED <<table, groups, accepted, body, credentials, caller, honoured, member,
                         stayed, made, check, rows, status>>
          /\ Inserted(r)' = Inserted(r)
      BY <1>3 DEF Flush, Active, GoTo, Inserted
    <2> HIDE DEF shared, request, work
    <2> QED
      BY <1>2, <2>1, AdvanceRights
  <1>4. CASE Insert(r)
    <2> DEFINE i == Len(rows[r]) + 1
               new == [id |-> lastId', timestamp |-> stamp[r] + i,
                       request |-> r, item |-> i, waiver |-> made[r][i]]
    <2>1. /\ phase[r] = "insert" /\ i <= Len(made[r])
          /\ rows' = [rows EXCEPT ![r] = Append(@, new)]
          /\ UNCHANGED <<table, groups, accepted, body, credentials, caller, honoured, member,
                         stayed, phase, made, check, status>>
      BY <1>4 DEF Insert
    <2>2. /\ rows[r] \in Seq(Row) /\ rows'[r] = Append(rows[r], new)
          /\ made[r] \in Seq(Waiver)
          /\ \A q \in Request \ {r} : rows'[q] = rows[q]
          /\ phase' = [phase EXCEPT ![r] = "insert"]
      BY <1>1, <2>1 DEF TypeOK
    <2>3. new.waiver = made[r][i] /\ i \in DOMAIN made[r]
      BY <2>1, <2>2
    <2> HIDE DEF new, i
    <2>4. \A row \in Inserted(r)' : row = new \/ row \in Inserted(r)
      BY <2>2 DEF Inserted
    <2>5. \A row \in Inserted(r)' : Lawful(r, row.waiver)
      BY <1>2, <2>3, <2>4
    <2>6. Active(r)
      BY <2>1 DEF Active
    <2> HIDE DEF shared, request, work
    <2> QED
      BY <1>2, <2>1, <2>2, <2>5, <2>6, AdvanceRights
  <1>5. CASE Commit(r) \/ CommitUnanswered(r)
    <2>1. \E p \in {"publish", "respond", "broken"} : phase' = [phase EXCEPT ![r] = p]
      BY <1>5 DEF Commit, CommitUnanswered, GoTo
    <2>2. /\ Active(r) /\ table' = table \cup Inserted(r) /\ Inserted(r)' = Inserted(r)
          /\ UNCHANGED <<groups, accepted, body, credentials, caller, honoured, member,
                         stayed, made, check, rows, status>>
      BY <1>5 DEF Commit, CommitUnanswered, Active, Inserted
    <2>3. \A row \in table' \ table : Lawful(row.request, row.waiver)
      BY <1>1, <1>2, <2>2 DEF RowsInBatch, Inserted
    <2> HIDE DEF shared, request, work
    <2> QED
      BY <1>2, <2>1, <2>2, <2>3, AdvanceRights
  <1>6. CASE PublishRow(r) \/ EndPublish(r)
    <2>1. \E p \in {"publish", "respond"} : phase' = [phase EXCEPT ![r] = p]
      BY <1>1, <1>6 DEF PublishRow, EndPublish, GoTo, TypeOK
    <2>2. /\ Active(r) /\ Inserted(r)' = Inserted(r)
          /\ UNCHANGED <<table, groups, accepted, body, credentials, caller, honoured, member,
                         stayed, made, check, rows, status>>
      BY <1>6 DEF PublishRow, EndPublish, Active, Inserted
    <2> HIDE DEF shared, request, work
    <2> QED
      BY <1>2, <2>1, <2>2, AdvanceRights
  <1> QED
    BY <1>3, <1>4, <1>5, <1>6

(* The handler ends with an answer that says nothing about rights.         *)
LEMMA EndRights ==
    ASSUME IInv, IInv', RInv, NEW r \in Request,
           Reject(r) \/ LdapRaises(r) \/ DatabaseError(r) \/ CommitRaises(r)
           \/ PublishRaises(r) \/ Respond(r) \/ RespondRaises(r) \/ Crash(r)
    PROVE  RInv'
  <1>1. PICK code \in {400, 502, 500, 201, Lost} :
          /\ Refuse(r, code) \/ Finish(r, code)
          /\ UNCHANGED <<table, groups, accepted, request>>
    BY DEF Reject, LdapRaises, DatabaseError, CommitRaises, PublishRaises, Respond, RespondRaises,
           Crash, shared
  <1> QED
    BY <1>1, RefuseRights DEF Lost

(* A step of the environment: tokens expire, and what a user gains or      *)
(* loses while a request runs is kept in its moments.                      *)
LEMMA EnvironmentRights ==
    ASSUME IInv, IInv', RInv,
           UNCHANGED <<table, phase, body, credentials, caller, honoured, made, check, rows, status>>,
           accepted' \subseteq accepted,
           \A r \in Request :
             /\ Active(r) => MomentsInStep(r)'
             /\ ~Active(r) => stayed'[r] = stayed[r]
             /\ \A u \in User : member[r][u] \subseteq member'[r][u]
                             /\ stayed'[r][u] \subseteq stayed[r][u]
    PROVE  RInv'
  <1>1. TypeOK /\ TypeOK' /\ BatchInStep /\ StoredInStep
    BY DEF IInv
  <1>2. ASSUME NEW r \in Request, NEW w \in Waiver, Lawful(r, w) PROVE Lawful(r, w)'
    BY <1>2, LawfulStays
  <1>3. ASSUME NEW r \in Request, phase[r] = "ldap" PROVE CheckInStep(r)'
    <2> DEFINE args == Submission(r)
               user == WaivingUser(r, args)
               t == check[r].target.testcase
    <2>1. CheckInStep(r)
      BY <1>3 DEF RInv, RightsInStep
    <2>2. user \in User
      BY <1>3, SubmissionType DEF IInv, BatchInStep
    <2>3. /\ credentials[r] \in Credential /\ accepted' \in SUBSET Token
          /\ accepted \in SUBSET Token
      BY <1>1, <1>3, CredentialsAssumption DEF TypeOK, BatchInStep
    <2>4. ClaimedGroups(credentials[r], accepted') \subseteq ClaimedGroups(credentials[r], accepted)
      BY <2>3, ClaimedGrows
    <2>5. ~ClaimAllows(r, t, accepted) => ~ClaimAllows(r, t, accepted)'
      BY <2>4 DEF ClaimAllows
    <2>6. /\ Submission(r)' = args /\ check'[r] = check[r]
          /\ \A a : /\ WaivingUser(r, a)' = WaivingUser(r, a)
                    /\ ProxyRefused(r, a)' = ProxyRefused(r, a)
      BY DEF Submission, WaivingUser, ProxyRefused, Proxied
    <2>7. member[r][user] \subseteq member'[r][user] /\ stayed'[r][user] \subseteq stayed[r][user]
      BY <2>2
    <2>8. /\ ~ProxyRefused(r, Submission(r))'
          /\ WaivingUser(r, Submission(r))' = user
      BY <2>1, <2>6 DEF CheckInStep
    <2> QED
      BY <2>1, <2>5, <2>6, <2>7, <2>8 DEF CheckInStep
  <1>4. ASSUME NEW r \in Request PROVE RightsInStep(r)'
    <2>1. Active(r)' = Active(r) /\ Inserted(r)' = Inserted(r)
      BY DEF Active, Inserted
    <2>2. made[r] \in Seq(Waiver) /\ Inserted(r) \subseteq Row
      BY <1>1, DrawnType DEF TypeOK
    <2>3. /\ \A i \in DOMAIN made[r] : made[r][i] \in Waiver
          /\ \A row \in Inserted(r) : row.waiver \in Waiver
      BY <2>2 DEF Row
    <2> QED
      BY <1>2, <1>3, <2>1, <2>3 DEF RInv, RightsInStep
  <1>5. \A row \in table' : Lawful(row.request, row.waiver)'
    <2> SUFFICES ASSUME NEW row \in table PROVE Lawful(row.request, row.waiver)'
      OBVIOUS
    <2>1. row.request \in Request /\ row.waiver \in Waiver
      BY <1>1 DEF TypeOK, Row
    <2> QED
      BY <1>2, <2>1 DEF RInv
  <1>6. RefusedIsUnentitled'
    <2> SUFFICES ASSUME NEW q \in Request, status[q] = 403
                 PROVE  \E i \in DOMAIN body[q] : Refusable(q, body[q][i])'
      BY DEF RefusedIsUnentitled
    <2>1. PICK i \in DOMAIN body[q] : Refusable(q, body[q][i])
      BY DEF RInv, RefusedIsUnentitled
    <2>2. credentials[q] \in Credentials /\ stayed'[q] = stayed[q]
      BY <1>1, StatusAssumption DEF BatchInStep, StoredInStep, Active, Status
    <2> QED
      BY <1>1, <2>1, <2>2, RefusableStays
  <1>7. UnauthorizedIsUnproven'
    <2> SUFFICES ASSUME NEW q \in Request, status[q] = 401
                 PROVE  Proven(credentials[q], accepted') = {}
      BY DEF UnauthorizedIsUnproven
    <2>1. credentials[q] \in Credential /\ accepted \in SUBSET Token /\ accepted' \in SUBSET Token
      BY <1>1, StatusAssumption, CredentialsAssumption
         DEF BatchInStep, StoredInStep, Status, TypeOK
    <2>2. Proven(credentials[q], accepted) = {}
      BY DEF RInv, UnauthorizedIsUnproven
    <2> QED
      BY <2>1, <2>2, ProvenGrows
  <1> QED
    BY <1>4, <1>5, <1>6, <1>7 DEF RInv

LEMMA ChangeMembershipRights ==
    ASSUME IInv, IInv', RInv, NEW u \in User, ChangeMembership(u)
    PROVE  RInv'
  <1>1. TypeOK /\ TypeOK'
    BY DEF IInv
  <1>2. UNCHANGED <<table, phase, body, credentials, caller, honoured, made, check, rows, status,
                    accepted>>
    BY DEF ChangeMembership, work
  <1>3. PICK gs \in SUBSET Group : groups' = [groups EXCEPT ![u] = gs]
    BY DEF ChangeMembership
  <1>4. ASSUME NEW r \in Request, Active(r)
        PROVE  /\ member'[r] = [member[r] EXCEPT ![u] = @ \cup gs]
               /\ stayed'[r] = [stayed[r] EXCEPT ![u] = @ \cap gs]
    BY <1>1, <1>3, <1>4 DEF ChangeMembership, TypeOK
  <1>5. ASSUME NEW r \in Request, ~Active(r)
        PROVE  member'[r] = member[r] /\ stayed'[r] = stayed[r]
    BY <1>5 DEF ChangeMembership
  <1>6. ASSUME NEW r \in Request
        PROVE  /\ Active(r) => MomentsInStep(r)'
               /\ \A v \in User : member[r][v] \subseteq member'[r][v]
                               /\ stayed'[r][v] \subseteq stayed[r][v]
    <2>1. /\ member[r] \in [User -> SUBSET Group] /\ stayed[r] \in [User -> SUBSET Group]
          /\ groups \in [User -> SUBSET Group]
      BY <1>1 DEF TypeOK
    <2>2. CASE Active(r)
      <3>1. \A v \in User :
              /\ groups'[v] = IF v = u THEN gs ELSE groups[v]
              /\ member'[r][v] = IF v = u THEN member[r][v] \cup gs ELSE member[r][v]
              /\ stayed'[r][v] = IF v = u THEN stayed[r][v] \cap gs ELSE stayed[r][v]
        <4>1. member'[r] = [member[r] EXCEPT ![u] = @ \cup gs]
          BY <1>4, <2>2
        <4>2. stayed'[r] = [stayed[r] EXCEPT ![u] = @ \cap gs]
          BY <1>4, <2>2
        <4> QED
          BY <1>3, <2>1, <4>1, <4>2
      <3>2. MomentsInStep(r)
        BY <2>2 DEF RInv, RightsInStep
      <3>3. MomentsInStep(r)'
        BY <1>2, <3>1, <3>2 DEF MomentsInStep
      <3> QED
        BY <3>1, <3>3
    <2> QED
      BY <1>5, <2>2
  <1> QED
    BY <1>2, <1>5, <1>6, EnvironmentRights

LEMMA ExpireRights ==
    ASSUME IInv, IInv', RInv, NEW token \in Token, Expire(token)
    PROVE  RInv'
  <1>1. /\ UNCHANGED <<table, phase, body, credentials, caller, honoured, made, check, rows,
                       status, groups, member, stayed>>
        /\ accepted' \subseteq accepted
    BY DEF Expire, request, work
  <1>2. \A r \in Request : Active(r) => MomentsInStep(r)'
    BY <1>1 DEF RInv, RightsInStep, MomentsInStep
  <1> QED
    BY <1>1, <1>2, EnvironmentRights

LEMMA StutterRights ==
    ASSUME IInv, IInv', RInv, UNCHANGED vars
    PROVE  RInv'
  <1>1. UNCHANGED <<table, phase, body, credentials, caller, honoured, made, check, rows, status,
                    accepted, groups, member, stayed>>
    BY DEF vars
  <1>2. \A r \in Request : Active(r) => MomentsInStep(r)'
    BY <1>1 DEF RInv, RightsInStep, MomentsInStep
  <1> QED
    BY <1>1, <1>2, EnvironmentRights

LEMMA NextRInv == IInv /\ IInv' /\ RInv /\ [Next]_vars => RInv'
  <1> SUFFICES ASSUME IInv, IInv', RInv, [Next]_vars PROVE RInv'
    OBVIOUS
  <1>1. ASSUME NEW r \in Request, Handle(r) PROVE RInv'
    <2>1. CASE Authenticate(r)
      BY <2>1, AuthenticateRights
    <2>2. CASE CreateNext(r)
      BY <2>2, CreateNextRights
    <2>3. CASE LdapSearch(r)
      BY <2>3, LdapSearchRights
    <2>4. CASE \/ Flush(r) \/ Insert(r) \/ Commit(r) \/ CommitUnanswered(r)
               \/ PublishRow(r) \/ EndPublish(r)
      BY <2>4, TransactionRights
    <2>5. CASE \/ Reject(r) \/ LdapRaises(r) \/ DatabaseError(r) \/ CommitRaises(r)
               \/ PublishRaises(r) \/ Respond(r) \/ RespondRaises(r)
      BY <2>5, EndRights
    <2> QED
      BY <1>1, <2>1, <2>2, <2>3, <2>4, <2>5 DEF Handle
  <1>2. ASSUME NEW r \in Request, Receive(r) \/ Crash(r) PROVE RInv'
    BY <1>2, ReceiveRights, EndRights
  <1> QED
    BY <1>1, <1>2, ChangeMembershipRights, ExpireRights, StutterRights DEF Next

(* The second invariant holds in every state of every behaviour.           *)
THEOREM RightsInvariance == Spec => []RInv
  BY InitRInv, NextRInv, Invariance, PTL DEF Spec

----------------------------------------------------------------------------
(* What follows from it.                                                   *)

(* A stored waiver was authorised at some moment of its request, however   *)
(* groups, tokens and the searches changed meanwhile (api_v1.py:309-367,   *)
(* authorization.py:126-149).                                              *)
THEOREM StoredWasAuthorized == Spec => []StoredIsAuthorized
  <1>1. RInv => StoredIsAuthorized
    BY DEF RInv, Lawful, StoredIsAuthorized
  <1> QED
    BY <1>1, RightsInvariance, PTL

(* Nobody's waiver is stored but of a user whom the request proves, or     *)
(* whom a superuser named (api_v1.py:310-315, auth.py:47-74).              *)
THEOREM StoredWasAttributed == Spec => []StoredIsAttributed
  <1>1. RInv => StoredIsAttributed
    BY DEF RInv, Lawful, StoredIsAttributed
  <1> QED
    BY <1>1, RightsInvariance, PTL

(* 403 is not the answer to those who had the right all the time           *)
(* (authorization.py:80-100, api_v1.py:99-116).                            *)
THEOREM RefusedWasUnentitled == Spec => []RefusedIsUnentitled
  <1>1. RInv => RefusedIsUnentitled
    BY DEF RInv
  <1> QED
    BY <1>1, RightsInvariance, PTL

(* 401 is not the answer to those who prove who they are (auth.py:47-113). *)
THEOREM UnauthorizedWasUnproven == Spec => []UnauthorizedIsUnproven
  <1>1. RInv => UnauthorizedIsUnproven
    BY DEF RInv
  <1> QED
    BY <1>1, RightsInvariance, PTL

(* Asking for one subject, without other criteria, is asking for the pair  *)
(* it stands for (GetWaiversBySubjectsAndTestcases.post).                  *)
LEMMA SelectedBySubject ==
    ASSUME NEW subject, NEW row
    PROVE  row \in BySubjectsAndTestcases(table, {[subject |-> subject, testcase |-> Empty]},
                                          NoFilter, TRUE)
             <=> /\ row \in table
                 /\ subject_dict_to_type_identifier(subject) # None
                 /\ row.waiver.subject_type = subject_dict_to_type_identifier(subject)[1]
                 /\ row.waiver.subject_identifier = subject_dict_to_type_identifier(subject)[2]
  <1> DEFINE result == [subject |-> subject, testcase |-> Empty]
             filter == [NoFilter EXCEPT !.testcase = None]
  <1>1. filter.since = <<None, None>> /\ \A column \in Columns : filter[column] = None
    BY DEF NoFilter, Columns
  <1> HIDE DEF filter
  <1>2. Matches(filter, row)
    BY <1>1 DEF Matches, Since, Truthy
  <1>3. result.subject = subject /\ ~Truthy(result.testcase)
    BY DEF Truthy
  <1> HIDE DEF result
  <1>4. row \in BySubjectsAndTestcases(table, {result}, NoFilter, TRUE)
          <=> row \in table /\ MatchesResult(result, row)
    BY <1>2 DEF BySubjectsAndTestcases, by_results, filter
  <1> QED
    BY <1>3, <1>4 DEF MatchesResult, result

(* Every waiver is found again by the subject of its response, with all    *)
(* others of that subject; one with an empty identifier is not             *)
(* (models/waivers.py:17-48, api_v1.py:353-355, 598-600).                  *)
THEOREM StoredIsFoundBySubject == Spec => []FoundBySubject
  <1>1. ASSUME NEW type \in OptText \ {"brew-build"}, NEW identifier \in OptText,
               subject_type_identifier_to_dict(type, identifier) # None
        PROVE  subject_dict_to_type_identifier(subject_type_identifier_to_dict(type, identifier))
                 = IF Truthy(identifier) THEN <<type, identifier>> ELSE None
    <2>1. CASE type = "compose"
      BY <1>1, <2>1 DEF subject_type_identifier_to_dict, subject_dict_to_type_identifier,
                        Truthy, KojiTypes
    <2>2. CASE type # "compose" /\ Truthy(type)
      BY <1>1, <2>2 DEF subject_type_identifier_to_dict, subject_dict_to_type_identifier,
                        Truthy, KojiTypes
    <2> QED
      BY <1>1, <2>1, <2>2 DEF subject_type_identifier_to_dict
  <1>2. ASSUME NEW type \in OptText, NEW identifier \in OptText
        PROVE  <<type, identifier>> # None
    BY <1>2, PairAssumption
  <1>3. TypeOK /\ RInv => FoundBySubject
    <2> SUFFICES ASSUME TypeOK, RInv, NEW row \in table, Renderable(row)
                 PROVE  FoundBy(row) = IF Truthy(row.waiver.subject_identifier)
                                         THEN SameSubject(row) ELSE {}
      BY DEF FoundBySubject
    <2> DEFINE type == row.waiver.subject_type
               identifier == row.waiver.subject_identifier
               shown == subject_type_identifier_to_dict(type, identifier)
    <2>1. type \in OptText \ {"brew-build"} /\ identifier \in OptText
      BY DEF TypeOK, Row, Waiver, RInv, Lawful
    <2>2. subject_dict_to_type_identifier(shown)
            = IF Truthy(identifier) THEN <<type, identifier>> ELSE None
      BY <1>1, <2>1 DEF Renderable
    <2>3. FoundBy(row) = BySubjectsAndTestcases(table, {[subject |-> shown, testcase |-> Empty]},
                                                NoFilter, TRUE)
      BY DEF FoundBy
    <2>4. SameSubject(row) = {other \in table : /\ other.waiver.subject_type = type
                                                /\ other.waiver.subject_identifier = identifier}
      BY DEF SameSubject
    <2> HIDE DEF type, identifier, shown
    <2>5. CASE Truthy(identifier)
      <3>1. <<type, identifier>> # None /\ <<type, identifier>>[1] = type
                                        /\ <<type, identifier>>[2] = identifier
        BY <1>2, <2>1
      <3>2. subject_dict_to_type_identifier(shown) = <<type, identifier>>
        BY <2>2, <2>5
      <3>3. \A other : other \in FoundBy(row)
              <=> /\ other \in table
                  /\ other.waiver.subject_type = type
                  /\ other.waiver.subject_identifier = identifier
        <4> DEFINE pair == <<type, identifier>>
        <4> HIDE DEF pair
        <4>1. \A other : other \in FoundBy(row)
                <=> /\ other \in table /\ pair # None
                    /\ other.waiver.subject_type = pair[1]
                    /\ other.waiver.subject_identifier = pair[2]
          BY <2>3, <3>2, SelectedBySubject, Zenon DEF pair
        <4> QED
          BY <3>1, <4>1 DEF pair
      <3>4. FoundBy(row) = SameSubject(row)
        BY <2>4, <3>3
      <3> QED
        BY <2>5, <3>4 DEF identifier
    <2>6. CASE ~Truthy(identifier)
      <3>1. \A other : other \notin FoundBy(row)
        BY <2>2, <2>3, <2>6, SelectedBySubject
      <3>2. FoundBy(row) = {}
        BY <3>1
      <3> QED
        BY <2>6, <3>2 DEF identifier
    <2> QED
      BY <2>5, <2>6
  <1> QED
    BY <1>3, TypeCorrect, RightsInvariance, PTL

============================================================================
