--------------------------- MODULE WaiverService ---------------------------
(***************************************************************************)
(* Submitting waivers: the requests POST /waivers/ and POST /waivers/new   *)
(* (waiverdb/api_v1.py), the database transaction each of them runs, and   *)
(* the after_commit hook that publishes what was committed                 *)
(* (waiverdb/events.py, waiverdb/messaging/fedmsg.py).                     *)
(*                                                                         *)
(* Requests run in the worker processes of gunicorn, so they interleave at *)
(* every call that leaves the process: the identity provider, LDAP, the    *)
(* database, the message bus.  What they share is the table, its id        *)
(* sequence, the clock and the bus.  A worker can die at any of those      *)
(* calls (gunicorn kills one that takes too long); a retry of the client   *)
(* is one more request.                                                    *)
(*                                                                         *)
(* A definition D_Something is D with a bug, kept to show that a property  *)
(* notices it; the specification uses none of them.                        *)
(***************************************************************************)
EXTENDS Authorization, WaiverQueries

CONSTANTS
    Body,                \* the bodies clients send: sequences of submissions
    SUPERUSERS,          \* those who may name another user
    MESSAGE_BUS_PUBLISH  \* whether the after_commit hook is registered

ASSUME BodyAssumption == Body \subseteq Seq(CreateWaiver)
ASSUME ConfigAssumption == SUPERUSERS \subseteq User /\ MESSAGE_BUS_PUBLISH \in BOOLEAN

VARIABLES
    \* shared
    table,    \* the committed rows of table "waiver"
    lastId,   \* the last value drawn from the id sequence
    clock,    \* the last value of utcnow_naive()
    bus,      \* the rows whose message reached the message bus
    returned, \* the rows whose message the broker returned
    groups,   \* user -> the LDAP groups the user is in now
    accepted, \* the Bearer tokens the identity provider accepts now
    \* of each request
    phase,    \* where its handler is
    body,     \* the submissions
    credentials, \* what the request brings to prove its user
    caller,   \* the authenticated user
    made,     \* the Waiver objects built for the batch
    check,    \* the LDAP check under way: its target, searches done, groups found
    stamp,    \* the clock when their timestamps were taken
    rows,     \* the rows inserted by its transaction
    status,   \* what the client got: None, a status code, or Lost
    \* bookkeeping for the properties
    before,   \* the ids acknowledged when the request was received
    honoured, \* the tokens that were accepted then
    member,   \* user -> every group the user was in while the request ran
    stayed    \* user -> the groups the user was in all that time

vars == <<table, lastId, clock, bus, returned, groups, accepted,
          phase, body, credentials, caller, made, check, stamp, rows, status,
          before, honoured, member, stayed>>

Phase == {"new", "received", "create", "ldap", "insert", "publish", "respond",
          "broken", "done"}

(* The connection broke before a response: the worker died.                *)
Lost == 0

ASSUME StatusAssumption == None \notin Status /\ None # Lost

Active(r) == phase[r] \notin {"new", "done"}

Acknowledged == {row.id : row \in {w \in table : status[w.request] = 201}}

Init ==
    /\ table = {} /\ bus = {} /\ returned = {}
    /\ lastId = 0 /\ clock = 0
    /\ groups \in [User -> SUBSET Group]
    /\ accepted = Token
    /\ phase = [r \in Request |-> "new"]
    /\ body = [r \in Request |-> <<>>]
    /\ credentials = [r \in Request |-> None]
    /\ caller = [r \in Request |-> None]
    /\ made = [r \in Request |-> <<>>]
    /\ check = [r \in Request |-> None]
    /\ stamp = [r \in Request |-> 0]
    /\ rows = [r \in Request |-> <<>>]
    /\ status = [r \in Request |-> None]
    /\ before = [r \in Request |-> {}]
    /\ honoured = [r \in Request |-> {}]
    /\ member = [r \in Request |-> [u \in User |-> {}]]
    /\ stayed = [r \in Request |-> [u \in User |-> {}]]

----------------------------------------------------------------------------
(* The steps of a request.                                                 *)

shared == <<table, lastId, clock, bus, returned, groups, accepted>>
request == <<body, credentials, caller, stamp, before, honoured, member, stayed>>
work == <<made, check, rows, status>>

GoTo(r, p) == phase' = [phase EXCEPT ![r] = p]

(* The handler ends, whether it returns or raises; the session is removed  *)
(* and with it whatever its transaction had not committed.                 *)
Finish(r, code) ==
    /\ status' = [status EXCEPT ![r] = code]
    /\ made' = [made EXCEPT ![r] = <<>>]
    /\ check' = [check EXCEPT ![r] = None]
    /\ rows' = [rows EXCEPT ![r] = <<>>]
    /\ GoTo(r, "done")

(* An error on its way to the client.  The browser session, if there is    *)
(* one, is saved to the database behind the handler, and a failure there   *)
(* becomes the answer.  (Behind a commit every step may end in 500.)       *)
Refuse(r, code) ==
    \/ Finish(r, code)
    \/ credentials[r].session # NoSession /\ Finish(r, 500)

Receive(r) ==
    /\ phase[r] = "new"
    /\ GoTo(r, "received")
    /\ \E b \in Body : body' = [body EXCEPT ![r] = b]
    /\ \E c \in Credentials : credentials' = [credentials EXCEPT ![r] = c]
    /\ before' = [before EXCEPT ![r] = Acknowledged]
    /\ honoured' = [honoured EXCEPT ![r] = accepted]
    /\ member' = [member EXCEPT ![r] = groups]
    /\ stayed' = [stayed EXCEPT ![r] = groups]
    /\ UNCHANGED <<shared, caller, stamp, work>>

(* Validation of the body comes first, then get_user.                      *)
ValidBody(r) == \A i \in DOMAIN body[r] : ValidCreateWaiver(body[r][i])

Authenticate_Anonymous(r) ==
    /\ phase[r] = "received" /\ ValidBody(r)
    /\ \E answer \in acquire_token(credentials[r], accepted) :
         /\ get_user(credentials[r], answer).status # 500
         /\ caller' = [caller EXCEPT ![r] = get_user(credentials[r], answer).user]
    /\ GoTo(r, "create")
    /\ UNCHANGED <<shared, body, credentials, stamp, before, honoured, member, stayed, work>>

Authenticate(r) ==
    /\ phase[r] = "received" /\ ValidBody(r)
    /\ \E answer \in acquire_token(credentials[r], accepted) :
         LET found == get_user(credentials[r], answer) IN
         \/ /\ found.status = 201
            /\ caller' = [caller EXCEPT ![r] = found.user]
            /\ GoTo(r, "create")
            /\ UNCHANGED work
         \/ /\ found.status # 201
            /\ Refuse(r, found.status)
            /\ UNCHANGED caller
    /\ UNCHANGED <<shared, body, credentials, stamp, before, honoured, member, stayed>>

(* The body is invalid; or the browser session, which is read before       *)
(* anything else, cannot be.                                               *)
Reject(r) ==
    /\ phase[r] = "received"
    /\ \/ ~ValidBody(r) /\ Refuse(r, 400)
       \/ credentials[r].session # NoSession /\ Finish(r, 500)
    /\ UNCHANGED <<shared, request>>

(* _create_waiver for the next submission of the batch.  A superuser may   *)
(* name the user the waiver is for; an empty name counts as none.          *)
Proxied(args) == args.username # None

ProxyRefused_Never(r, args) == FALSE

ProxyRefused(r, args) == Proxied(args) /\ caller[r] \notin SUPERUSERS

WaivingUser(r, args) == IF Proxied(args) THEN args.username ELSE caller[r]

ProxiedBy(r, args) == IF Proxied(args) THEN caller[r] ELSE None

Submission(r) == body[r][Len(made[r]) + 1]

(* The submission becomes an object of the batch.                          *)
Build(r, target) ==
    LET args == Submission(r)
    IN /\ made' = [made EXCEPT ![r] =
              Append(@, NewWaiver(target, WaivingUser(r, args), args.product_version,
                                  ProxiedBy(r, args)))]
       /\ check' = [check EXCEPT ![r] = None]
       /\ GoTo(r, "create")
       /\ UNCHANGED <<rows, status>>

Check(target, searched, found) == [target |-> target, searched |-> searched, found |-> found]

(* The groups claim is read again for each submission.                     *)
Authorize(r, target) ==
    \E answer \in acquire_token(credentials[r], accepted) :
        LET verdict == verify_authorization(WaivingUser(r, Submission(r)), target.testcase,
                                            get_oidc_groups(credentials[r], answer))
        IN \/ verdict = "allow" /\ Build(r, target)
           \/ verdict = "forbid" /\ Refuse(r, 403)
           \/ verdict = "raise" /\ Finish(r, 500)
           \/ /\ verdict = "search"
              /\ check' = [check EXCEPT ![r] = Check(target, 0, {})]
              /\ GoTo(r, "ldap")
              /\ UNCHANGED <<made, rows, status>>

CreateNext(r) ==
    /\ phase[r] = "create" /\ Len(made[r]) < Len(body[r])
    /\ \/ ProxyRefused(r, Submission(r)) /\ Refuse(r, 403)
       \/ /\ ~ProxyRefused(r, Submission(r))
          /\ \E found \in Resolutions(Submission(r)) :
               \/ found.status # 201 /\ Refuse(r, found.status)
               \/ found.status = 201 /\ Authorize(r, found.target)
    /\ UNCHANGED <<shared, request>>

(* One LDAP search.  No group at all, or none that is allowed, when the    *)
(* last one is done, is Forbidden.                                         *)
LdapSearch_OfCaller(r) ==
    LET target == check[r].target
        searched == check[r].searched + 1
        found == get_group_membership(check[r].found, searched, groups[caller[r]])
        authorized == check_ldap_groups(found, target.testcase)
    IN /\ phase[r] = "ldap"
       /\ \/ authorized /\ Build(r, target)
          \/ /\ ~authorized /\ searched = Len(LDAP_SEARCHES)
             /\ Refuse(r, 403)
          \/ /\ ~authorized /\ searched < Len(LDAP_SEARCHES)
             /\ check' = [check EXCEPT ![r] = Check(target, searched, found)]
             /\ UNCHANGED <<phase, made, rows, status>>
       /\ UNCHANGED <<shared, request>>

LdapSearch_First(r) ==
    LET target == check[r].target
        found == get_group_membership({}, 1, groups[WaivingUser(r, Submission(r))])
    IN /\ phase[r] = "ldap"
       /\ \/ check_ldap_groups(found, target.testcase) /\ Build(r, target)
          \/ ~check_ldap_groups(found, target.testcase) /\ Refuse(r, 403)
       /\ UNCHANGED <<shared, request>>

LdapSearch(r) ==
    LET target == check[r].target
        searched == check[r].searched + 1
        found == get_group_membership(check[r].found, searched,
                                      groups[WaivingUser(r, Submission(r))])
        authorized == check_ldap_groups(found, target.testcase)
    IN /\ phase[r] = "ldap"
       /\ \/ authorized /\ Build(r, target)
          \/ /\ ~authorized /\ searched = Len(LDAP_SEARCHES)
             /\ Refuse(r, 403)
          \/ /\ ~authorized /\ searched < Len(LDAP_SEARCHES)
             /\ check' = [check EXCEPT ![r] = Check(target, searched, found)]
             /\ UNCHANGED <<phase, made, rows, status>>
       /\ UNCHANGED <<shared, request>>

(* Binding or a search fails, whatever an earlier one found or a later one *)
(* would have: BadGateway; or its settings or an entry lack a key, or the  *)
(* unbinding in the finally clause fails.                                  *)
LdapRaises(r) ==
    /\ phase[r] = "ldap"
    /\ Refuse(r, 502) \/ Finish(r, 500)
    /\ UNCHANGED <<shared, request>>

(* add_all and commit: the flush takes the timestamps of the batch, then   *)
(* sends the INSERTs.                                                      *)
Flush(r) ==
    /\ phase[r] = "create" /\ Len(made[r]) = Len(body[r])
    /\ stamp' = [stamp EXCEPT ![r] = clock]
    /\ clock' = clock + Len(made[r])
    /\ GoTo(r, "insert")
    /\ UNCHANGED <<table, lastId, bus, returned, groups, accepted, body, credentials,
                   caller, before, honoured, member, stayed, work>>

(* The database draws the id of a row when it inserts it, in the order of  *)
(* the batch; the sequence is not transactional.                           *)
Insert_CountsRows(r) ==
    LET i == Len(rows[r]) + 1
    IN /\ phase[r] = "insert" /\ i <= Len(made[r])
       /\ Storable(made[r][i])
       /\ lastId' = Cardinality(table) + i
       /\ rows' = [rows EXCEPT ![r] =
            Append(@, [id |-> lastId', timestamp |-> stamp[r] + i,
                       request |-> r, item |-> i, waiver |-> made[r][i]])]
       /\ UNCHANGED <<table, clock, bus, returned, groups, accepted, request, phase, made,
                      check, status>>

Insert(r) ==
    LET i == Len(rows[r]) + 1
    IN /\ phase[r] = "insert" /\ i <= Len(made[r])
       /\ Storable(made[r][i])
       /\ lastId' = lastId + 1
       /\ rows' = [rows EXCEPT ![r] =
            Append(@, [id |-> lastId', timestamp |-> stamp[r] + i,
                       request |-> r, item |-> i, waiver |-> made[r][i]])]
       /\ UNCHANGED <<table, clock, bus, returned, groups, accepted, request, phase, made,
                      check, status>>

(* The database refuses a row, or the connection to it fails before the    *)
(* transaction is committed.                                               *)
DatabaseError(r) ==
    /\ phase[r] = "insert"
    /\ Finish(r, 500)
    /\ UNCHANGED <<shared, request>>

Inserted(r) == {rows[r][i] : i \in DOMAIN rows[r]}

Commit_Early(r) ==
    /\ phase[r] = "insert"
    /\ table' = table \cup Inserted(r)
    /\ GoTo(r, IF MESSAGE_BUS_PUBLISH THEN "publish" ELSE "respond")
    /\ UNCHANGED <<lastId, clock, bus, returned, groups, accepted, request, work>>

Commit_Purges(r) ==
    /\ phase[r] = "insert" /\ Len(rows[r]) = Len(made[r])
    /\ table' = (table \ Obsolete(table)) \cup Inserted(r)
    /\ GoTo(r, IF MESSAGE_BUS_PUBLISH THEN "publish" ELSE "respond")
    /\ UNCHANGED <<lastId, clock, bus, returned, groups, accepted, request, work>>

Commit(r) ==
    /\ phase[r] = "insert" /\ Len(rows[r]) = Len(made[r])
    /\ table' = table \cup Inserted(r)
    /\ GoTo(r, IF MESSAGE_BUS_PUBLISH THEN "publish" ELSE "respond")
    /\ UNCHANGED <<lastId, clock, bus, returned, groups, accepted, request, work>>

(* The transaction is committed and the connection fails before the        *)
(* service knows: commit() raises and after_commit is not run.             *)
CommitUnanswered(r) ==
    /\ phase[r] = "insert" /\ Len(rows[r]) = Len(made[r])
    /\ table' = table \cup Inserted(r)
    /\ GoTo(r, "broken")
    /\ UNCHANGED <<lastId, clock, bus, returned, groups, accepted, request, work>>

CommitRaises_Unavailable(r) ==
    /\ phase[r] = "broken"
    /\ Finish(r, 503)
    /\ UNCHANGED <<shared, request>>

CommitRaises_Retries(r) ==
    /\ phase[r] = "broken"
    /\ rows' = [rows EXCEPT ![r] = <<>>]
    /\ GoTo(r, "insert")
    /\ UNCHANGED <<shared, request, made, check, status>>

CommitRaises(r) ==
    /\ phase[r] = "broken"
    /\ Finish(r, 500)
    /\ UNCHANGED <<shared, request>>

(* The after_commit hook, for the rows of the session in any order.        *)
Unsent(r) == Inserted(r) \ (bus \cup returned)

PublishRow_OnFlush(r) ==
    /\ phase[r] \in {"insert", "publish"}
    /\ \E row \in Unsent(r) :
         /\ Renderable(row)
         /\ \/ bus' = bus \cup {row} /\ UNCHANGED returned
            \/ returned' = returned \cup {row} /\ UNCHANGED bus
    /\ UNCHANGED <<table, lastId, clock, groups, accepted, request, phase, work>>

PublishRow(r) ==
    /\ phase[r] = "publish"
    /\ \E row \in Unsent(r) :
         /\ Renderable(row)
         /\ \/ bus' = bus \cup {row} /\ UNCHANGED returned
            \* PublishReturned is logged and the loop goes on
            \/ returned' = returned \cup {row} /\ UNCHANGED bus
    /\ UNCHANGED <<table, lastId, clock, groups, accepted, request, phase, work>>

(* Marshalling the row or publishing it raises, out of commit(): a message *)
(* that timed out may have reached the bus.                                *)
PublishRaises_Swallowed(r) ==
    /\ phase[r] = "publish" /\ Unsent(r) # {}
    /\ GoTo(r, "respond")
    /\ UNCHANGED <<shared, request, work>>

PublishRaises(r) ==
    /\ phase[r] = "publish"
    /\ \E row \in Unsent(r) :
         \/ UNCHANGED bus
         \/ Renderable(row) /\ bus' = bus \cup {row}
    /\ Finish(r, 500)
    /\ UNCHANGED <<table, lastId, clock, returned, groups, accepted, request>>

EndPublish_AllAccepted(r) ==
    /\ phase[r] = "publish" /\ Inserted(r) \subseteq bus
    /\ GoTo(r, "respond")
    /\ UNCHANGED <<shared, request, work>>

EndPublish(r) ==
    /\ phase[r] = "publish" /\ Unsent(r) = {}
    /\ GoTo(r, "respond")
    /\ UNCHANGED <<shared, request, work>>

(* marshal_with reads the committed rows again and renders them.           *)
Respond(r) ==
    /\ phase[r] = "respond"
    /\ \A row \in Inserted(r) : Renderable(row)
    /\ Finish(r, 201)
    /\ UNCHANGED <<shared, request>>

RespondRaises(r) ==
    /\ phase[r] = "respond"
    /\ Finish(r, 500)
    /\ UNCHANGED <<shared, request>>

----------------------------------------------------------------------------
(* The environment.                                                        *)

Crash(r) ==
    /\ Active(r)
    /\ Finish(r, Lost)
    /\ UNCHANGED <<shared, request>>

ChangeMembership(u) ==
    /\ \E gs \in SUBSET Group : groups' = [groups EXCEPT ![u] = gs]
    /\ member' = [r \in Request |-> IF Active(r)
                                     THEN [member[r] EXCEPT ![u] = @ \cup groups'[u]]
                                     ELSE member[r]]
    /\ stayed' = [r \in Request |-> IF Active(r)
                                     THEN [stayed[r] EXCEPT ![u] = @ \cap groups'[u]]
                                     ELSE stayed[r]]
    /\ UNCHANGED <<table, lastId, clock, bus, returned, accepted, phase, body, credentials,
                   caller, stamp, before, honoured, work>>

(* A token expires or is revoked.                                          *)
Expire(token) ==
    /\ accepted' = accepted \ {token}
    /\ UNCHANGED <<table, lastId, clock, bus, returned, groups, phase, request, work>>

Handle(r) ==
    \/ Authenticate(r) \/ Reject(r)
    \/ CreateNext(r) \/ LdapSearch(r) \/ LdapRaises(r)
    \/ Flush(r) \/ Insert(r) \/ DatabaseError(r)
    \/ Commit(r) \/ CommitUnanswered(r) \/ CommitRaises(r)
    \/ PublishRow(r) \/ PublishRaises(r) \/ EndPublish(r)
    \/ Respond(r) \/ RespondRaises(r)

Next ==
    \/ \E r \in Request : Receive(r) \/ Handle(r) \/ Crash(r)
    \/ \E u \in User : ChangeMembership(u)
    \/ \E token \in Token : Expire(token)

(* Whatever a handler waits for has a time limit, so it takes its next     *)
(* step; nothing makes clients send requests.                              *)
Spec == Init /\ [][Next]_vars /\ \A r \in Request : WF_vars(Handle(r))

----------------------------------------------------------------------------
(* Properties.                                                             *)

LdapCheck == [target : Target, searched : Nat, found : SUBSET Group]

(* Every variable holds a value of its kind.                               *)
TypeOK ==
    /\ table \subseteq Row /\ bus \subseteq Row /\ returned \subseteq Row
    /\ lastId \in Nat /\ clock \in Nat
    /\ groups \in [User -> SUBSET Group] /\ accepted \in SUBSET Token
    /\ phase \in [Request -> Phase]
    /\ body \in [Request -> Seq(CreateWaiver)]
    /\ caller \in [Request -> User \cup {None}]
    /\ credentials \in [Request -> Credentials \cup {None}]
    /\ check \in [Request -> LdapCheck \cup {None}]
    /\ made \in [Request -> Seq(Waiver)]
    /\ stamp \in [Request -> Nat]
    /\ rows \in [Request -> Seq(Row)]
    /\ status \in [Request -> Status \cup {None, Lost}]
    /\ before \in [Request -> SUBSET Nat]
    /\ honoured \in [Request -> SUBSET Token]
    /\ member \in [Request -> [User -> SUBSET Group]]
    /\ stayed \in [Request -> [User -> SUBSET Group]]

ItemsOf(r) == {row.item : row \in RowsOf(table, r)}

(* A list of submissions is stored as a whole or not at all, whichever     *)
(* submission is refused, whenever the database fails or the worker dies   *)
(* (WaiversResource.post, api_v1.py:297-304).                              *)
BatchIsWhole ==
    \A r \in Request : ItemsOf(r) \in {{}, DOMAIN body[r]}

(* What the client was told is so: after 201 the whole batch is stored,    *)
(* after an error other than 500 nothing is and a retry duplicates nothing *)
(* (WaiversResource.post and _create_waiver, api_v1.py:296-367).           *)
AnswerIsTrue ==
    \A r \in Request :
        /\ status[r] = 201 => ItemsOf(r) = DOMAIN body[r]
        /\ status[r] \in Status \ {201, 500} => ItemsOf(r) = {}

(* A waiver supersedes all that were acknowledged before it was requested, *)
(* and in a batch the later one supersedes: nobody's new decision is       *)
(* overridden by an older one that its author could already see            *)
(* (max(Waiver.id), api_v1.py:88-96, with the ids of the commit at 304).   *)
SupersedesAcknowledged ==
    \A row \in table :
        /\ \A id \in before[row.request] : row.id > id
        /\ \A other \in table :
             /\ row.id = other.id => row = other
             /\ row.request = other.request /\ row.item > other.item => row.id > other.id

(* Once obsolete a waiver stays obsolete, although transactions commit in  *)
(* another order than they draw their ids (_filter_out_obsolete_waivers,   *)
(* api_v1.py:81-96).                                                       *)
ObsoleteForever == [][Obsolete(table) \subseteq Obsolete(table')]_vars

(* Nothing is announced that is not in the database, also when the worker  *)
(* dies in between (after_commit, app.py:194-195, events.py:19-37).        *)
PublishedIsStored == bus \cup returned \subseteq table

(* A client that got 201 knows every waiver of its batch was handed to the *)
(* broker, accepted or returned: an error of the hook leaves commit() and  *)
(* becomes the answer (fedmsg.py:19-39, api_v1.py:304-306).                *)
AcknowledgedIsPublished ==
    MESSAGE_BUS_PUBLISH =>
        \A row \in table : status[row.request] = 201 => row \in bus \cup returned

ClaimAllows(r, testcase, tokens) ==
    \E claim \in ClaimedGroups(credentials[r], tokens) : check_oidc_groups(claim, testcase)

(* At some moment of request r the user of waiver w had the right to it.   *)
Authorized(r, w) ==
    \/ Entitled(w.username, w.testcase, member[r][w.username])
    \/ ClaimAllows(r, w.testcase, honoured[r])

(* A stored waiver was authorised: at some moment while its request ran    *)
(* its user was entitled, or a token accepted then says so.  The check is  *)
(* several searches, precedes the commit, and the groups change meanwhile  *)
(* (_create_waiver, api_v1.py:309-367, and verify_authorization,           *)
(* authorization.py:126-149).                                              *)
StoredIsAuthorized == \A row \in table : Authorized(row.request, row.waiver)

(* At some moment of request r the submission was not its caller's to make *)
(* or its user lacked the right to it.                                     *)
Refusable(r, args) ==
    LET user == WaivingUser(r, args)
    IN \/ ProxyRefused(r, args)
       \/ \E found \in Resolutions(args) :
            /\ found.status = 201
            /\ ~Entitled(user, found.target.testcase, stayed[r][user])
            /\ ~ClaimAllows(r, found.target.testcase, accepted)

(* The other way round: 403 is never the answer to a batch whose users all *)
(* had the right from the first step to the last and whose caller may name *)
(* them, in whatever order groups, tokens and searches change or fail      *)
(* (_query_ldap_groups, authorization.py:80-100, api_v1.py:99-116).        *)
RefusedIsUnentitled ==
    \A r \in Request :
        status[r] = 403 => \E i \in DOMAIN body[r] : Refusable(r, body[r][i])

(* 401 is never the answer to a request that proves its user by a method   *)
(* that is configured, whatever the methods before it say: a source that   *)
(* cannot be read is an error of the server's (get_user, auth.py:47-74,    *)
(* and get_oidc_userinfo, auth.py:97-113).                                 *)
UnauthorizedIsUnproven ==
    \A r \in Request :
        status[r] = 401 => Proven(credentials[r], accepted) = {}

(* The author of waiver w is proven by what request r brought.             *)
Attributed(r, w) ==
    LET author == IF w.proxied_by = None THEN w.username ELSE w.proxied_by
    IN /\ author \in Proven(credentials[r], honoured[r])
       /\ w.proxied_by # None => author \in SUPERUSERS

(* A waiver is in the name of its author, or of the user a superuser named *)
(* and then says so; and its author is proven by what the request brought: *)
(* with an OIDC session, by nothing else (_create_waiver,                  *)
(* api_v1.py:310-315, get_user, auth.py:47-74).                            *)
StoredIsAttributed == \A row \in table : Attributed(row.request, row.waiver)

(* What +by-subjects-and-testcases answers for the subject in a response,  *)
(* obsolete waivers included.                                              *)
FoundBy(row) ==
    LET shown == subject_type_identifier_to_dict(row.waiver.subject_type,
                                                 row.waiver.subject_identifier)
    IN BySubjectsAndTestcases(table, {[subject |-> shown, testcase |-> Empty]}, NoFilter, TRUE)

SameSubject(row) ==
    {other \in table : /\ other.waiver.subject_type = row.waiver.subject_type
                       /\ other.waiver.subject_identifier = row.waiver.subject_identifier}

(* The subject in a response, passed back to +by-subjects-and-testcases,   *)
(* finds that waiver and all others of the same type and identifier, and   *)
(* nothing else: so no alias is ever stored.  But a waiver with an empty   *)
(* identifier is stored and shown, and its subject finds nothing, not even *)
(* that waiver: subject_type_identifier_to_dict is there not the "inverse  *)
(* of the above function" (models/waivers.py:17-48, 85-118,                *)
(* api_v1.py:353-355, 598-600).                                            *)
FoundBySubject ==
    \A row \in table : Renderable(row) =>
        FoundBy(row) = IF Truthy(row.waiver.subject_identifier) THEN SameSubject(row) ELSE {}

(* The service does what WaiverLog promises.                               *)
Asked == [r \in Request |-> IF phase[r] = "new" THEN None ELSE Len(body[r])]

Answered == [r \in Request |-> IF status[r] = None THEN None
                               ELSE IF status[r] = 201 THEN "created"
                               ELSE IF status[r] \in {500, Lost} THEN "unknown" ELSE "refused"]

ASSUME LogAssumption == None \notin Nat /\ None \notin {"created", "unknown", "refused"}

Log == INSTANCE WaiverLog WITH waivers <- table, asked <- Asked, answer <- Answered

ImplementsLog == Log!Spec

(* Every request that is received is answered, unless its connection       *)
(* breaks: no batch, empty or refused by the database, gets stuck.         *)
EveryRequestEnds == \A r \in Request : phase[r] = "received" ~> status[r] # None

----------------------------------------------------------------------------
(* What the repository says and the code does not keep to.                 *)

(* "This API behaves the same way as GET /api/v1.0/waivers/" (+filtered,   *)
(* api_v1.py:447).                                                         *)
FilteredBehavesAsGet == ObsoleteFiltered(table) = Obsolete(table)

(* "Subject type should be non-empty string" (models/waivers.py:47).       *)
SubjectTypeNonEmpty == \A row \in table : Truthy(row.waiver.subject_type)

(* "its structure must match one of the recognized subject types,          *)
(* otherwise the request will fail with 400 status code"                   *)
(* (docs/release-notes.rst:199-201).                                       *)
UnrecognizedSubject(args) ==
    args.subject # None /\ subject_dict_to_type_identifier(args.subject) = None

UnrecognizedSubjectIs400 ==
    \A r \in Request :
        body[r] # <<>> /\ UnrecognizedSubject(body[r][1])
            => status[r] \in {None, Lost, 400, 401, 403}

(* "other users (which still require to have the permission)"              *)
(* (docs/admin-guide.rst:65-66).                                           *)
ProxiedUserIsEntitled ==
    \A row \in table :
        LET w == row.waiver
        IN w.proxied_by # None =>
             Entitled(w.username, w.testcase, member[row.request][w.username])

============================================================================
