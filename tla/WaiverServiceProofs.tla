------------------------ MODULE WaiverServiceProofs ------------------------
(***************************************************************************)
(* What TLAPS proves of WaiverService, for every set of requests, users,   *)
(* bodies, credentials, tokens, permissions and LDAP searches: of the      *)
(* table and the answers, then of what is published, and that the service  *)
(* implements WaiverLog.                                                   *)
(***************************************************************************)
EXTENDS WaiverService, AuthenticationProofs

----------------------------------------------------------------------------
(* The inductive invariant.                                                *)

(* The rows that have drawn an id, committed or not.                       *)
Drawn == table \cup UNION {Inserted(r) : r \in Request}

(* How far the batch is, phase by phase.                                   *)
BatchInStep ==
    \A r \in Request :
        /\ phase[r] \in {"new", "received"} => made[r] = <<>>
        /\ phase[r] \in {"new", "received", "create", "ldap"} => rows[r] = <<>>
        /\ phase[r] # "new" => credentials[r] \in Credentials
        /\ phase[r] \in {"create", "ldap"} =>
             /\ caller[r] \in User
             /\ Len(made[r]) <= Len(body[r])
             /\ ValidBody(r)
        /\ phase[r] = "ldap" => Len(made[r]) < Len(body[r]) /\ check[r] \in LdapCheck
        /\ phase[r] = "insert" =>
             Len(made[r]) = Len(body[r]) /\ Len(rows[r]) <= Len(made[r])
        /\ phase[r] \in {"publish", "respond", "broken"} =>
             Len(rows[r]) = Len(body[r]) /\ Inserted(r) \subseteq table

(* A row of the transaction is where it says it is.                        *)
RowsInBatch ==
    \A r \in Request : \A i \in DOMAIN rows[r] :
        rows[r][i].request = r /\ rows[r][i].item = i

(* The table holds nothing of a request before its commit, then all of it. *)
StoredInStep ==
    \A r \in Request :
        /\ phase[r] \in {"new", "received", "create", "ldap", "insert"} => ItemsOf(r) = {}
        /\ phase[r] \in {"publish", "respond", "broken"} => ItemsOf(r) = DOMAIN body[r]
        /\ status[r] = None <=> phase[r] # "done"

(* Ids come from one sequence: later draws are larger.                     *)
IdsInOrder ==
    /\ \A r \in Request : \A id \in before[r] : id <= lastId
    /\ \A row \in Drawn :
         /\ row.id <= lastId
         /\ \A id \in before[row.request] : row.id > id
         /\ \A other \in Drawn :
              /\ row.id = other.id => row = other
              /\ row.request = other.request /\ row.item > other.item => row.id > other.id

IInv ==
    /\ TypeOK
    /\ BatchInStep /\ RowsInBatch
    /\ StoredInStep /\ BatchIsWhole /\ AnswerIsTrue
    /\ IdsInOrder
    /\ PublishedIsStored

(* A submission is resolved to a target of the right type, or to the       *)
(* status of an error (_create_waiver).                                    *)
LEMMA ResolutionType ==
    ASSUME NEW args \in CreateWaiver, ValidCreateWaiver(args),
           NEW found \in Resolutions(args)
    PROVE  /\ found.status \in {201, 400, 500, 503}
           /\ found.status = 201 => found.target \in Target
  <1> USE NoneAssumption, TextAssumption DEF OptText
  <1>1. CASE args.result_id # None
    <2>1. args.result_id \in DOMAIN ResultsDB
      BY <1>1 DEF CreateWaiver
    <2>2. CASE found = Unresolved(503)
      BY <2>2 DEF Unresolved
    <2>3. CASE found = Unresolved(400)
      BY <2>3 DEF Unresolved
    <2>4. CASE ResultsDB[args.result_id] # None
               /\ found = ResolveResult(ResultsDB[args.result_id])
      <3>1. ResultsDB[args.result_id] \in Result
        BY <2>1, <2>4, ResultsDBAssumption
      <3> QED
        BY <2>4, <3>1 DEF ResolveResult, Resolved, Unresolved, Result, Target, KojiTypes
    <2> QED
      BY <1>1, <2>2, <2>3, <2>4 DEF Resolutions
  <1>2. CASE args.result_id = None /\ args.subject # None
    <2>1. args.subject \in TestSubject /\ args.testcase \in OptText /\ args.scenario \in OptText
      BY <1>2 DEF CreateWaiver
    <2> DEFINE pair == subject_dict_to_type_identifier(args.subject)
    <2>2. pair = None \/ (pair[1] \in OptText /\ pair[2] \in OptText)
      BY <2>1 DEF subject_dict_to_type_identifier, TestSubject, KojiTypes, Truthy
    <2>3. found = IF pair = None THEN Unresolved(500)
                  ELSE Resolved(pair[1], pair[2], args.testcase, args.scenario)
      BY <1>2 DEF Resolutions
    <2> HIDE DEF pair
    <2> QED
      BY <2>1, <2>2, <2>3 DEF Resolved, Unresolved, Target
  <1>3. CASE args.result_id = None /\ args.subject = None
    BY <1>3 DEF Resolutions, Resolved, CreateWaiver, Target
  <1> QED
    BY <1>1, <1>2, <1>3

(* The object _create_waiver returns is a Waiver.                          *)
LEMMA NewWaiverType ==
    ASSUME NEW target \in Target, NEW user \in User, NEW version \in Text,
           NEW proxied_by \in User \cup {None}
    PROVE  NewWaiver(target, user, version, proxied_by) \in Waiver
  BY TextAssumption DEF NewWaiver, Target, Waiver, OptText

----------------------------------------------------------------------------
(* It is preserved by every step.                                          *)

LEMMA InitIInv == Init => IInv
  <1> SUFFICES ASSUME Init PROVE IInv
    OBVIOUS
  <1> USE DEF Init
  <1>1. TypeOK
    <2>1. /\ body \in [Request -> Seq(CreateWaiver)]
          /\ made \in [Request -> Seq(Waiver)]
          /\ rows \in [Request -> Seq(Row)]
      OBVIOUS
    <2>2. /\ member \in [Request -> [User -> SUBSET Group]]
          /\ stayed \in [Request -> [User -> SUBSET Group]]
      OBVIOUS
    <2>3. phase \in [Request -> Phase]
      BY DEF Phase
    <2> QED
      BY <2>1, <2>2, <2>3 DEF TypeOK
  <1>2. BatchInStep /\ RowsInBatch
    BY DEF BatchInStep, RowsInBatch
  <1>3. \A r \in Request : ItemsOf(r) = {}
    BY DEF ItemsOf, RowsOf
  <1>4. StoredInStep /\ BatchIsWhole /\ AnswerIsTrue
    BY <1>3, StatusAssumption DEF StoredInStep, BatchIsWhole, AnswerIsTrue, Status
  <1>5. IdsInOrder
    BY DEF IdsInOrder, Drawn, Inserted
  <1>6. PublishedIsStored
    BY DEF PublishedIsStored
  <1> QED
    BY <1>1, <1>2, <1>4, <1>5, <1>6 DEF IInv

(* The end of a handler, whatever ends it: the answers that say something  *)
(* about the table are given only where it is so.                          *)
LEMMA FinishStep ==
    ASSUME IInv, NEW r \in Request, NEW code \in Status \cup {Lost},
           Active(r), Finish(r, code),
           UNCHANGED <<table, lastId, clock, returned, groups, accepted, request>>,
           bus \subseteq bus', bus' \subseteq bus \cup table,
           code = 201 => phase[r] = "respond",
           code \in Status \ {201, 500} => phase[r] \in {"received", "create", "ldap"}
    PROVE  IInv'
  <1> USE DEF Finish, GoTo, request
  <1>1. TypeOK /\ BatchInStep /\ RowsInBatch /\ StoredInStep /\ BatchIsWhole
        /\ AnswerIsTrue /\ IdsInOrder /\ PublishedIsStored
    BY DEF IInv
  <1>2. /\ phase \in [Request -> Phase] /\ rows \in [Request -> Seq(Row)]
        /\ made \in [Request -> Seq(Waiver)]
        /\ status \in [Request -> Status \cup {None, Lost}]
        /\ check \in [Request -> LdapCheck \cup {None}]
    BY <1>1 DEF TypeOK
  <1>3. TypeOK'
    BY <1>1, <1>2 DEF TypeOK, Phase, PublishedIsStored
  <1>4. \A q \in Request : ItemsOf(q)' = ItemsOf(q)
    BY DEF ItemsOf, RowsOf
  <1>5. \A q \in Request : q # r => /\ phase'[q] = phase[q] /\ rows'[q] = rows[q]
                                    /\ made'[q] = made[q] /\ status'[q] = status[q]
                                    /\ check'[q] = check[q]
                                    /\ Inserted(q)' = Inserted(q)
    BY <1>2 DEF Inserted
  <1>6. phase'[r] = "done" /\ rows'[r] = <<>> /\ made'[r] = <<>> /\ status'[r] = code
        /\ Inserted(r)' = {}
    BY <1>2 DEF Inserted
  <1>7. BatchInStep'
    BY <1>1, <1>5, <1>6 DEF BatchInStep, ValidBody, Active
  <1>8. RowsInBatch'
    BY <1>1, <1>5, <1>6 DEF RowsInBatch
  <1>9. StoredInStep'
    BY <1>1, <1>4, <1>5, <1>6, StatusAssumption DEF StoredInStep
  <1>10. BatchIsWhole'
    BY <1>1, <1>4 DEF BatchIsWhole
  <1>11. AnswerIsTrue'
    BY <1>1, <1>4, <1>5, <1>6 DEF AnswerIsTrue, StoredInStep
  <1>12. Drawn' \subseteq Drawn
    BY <1>5, <1>6 DEF Drawn
  <1>13. IdsInOrder'
    BY <1>1, <1>12 DEF IdsInOrder
  <1>14. PublishedIsStored'
    BY <1>1 DEF PublishedIsStored
  <1> QED
    BY <1>3, <1>7, <1>8, <1>9, <1>10, <1>11, <1>13, <1>14 DEF IInv

LEMMA DrawnType ==
    ASSUME TypeOK
    PROVE  /\ Drawn \subseteq Row
           /\ \A r \in Request : Inserted(r) \subseteq Row
  <1>1. ASSUME NEW r \in Request PROVE Inserted(r) \subseteq Row
    <2>1. rows[r] \in Seq(Row)
      BY DEF TypeOK
    <2> QED
      BY <2>1 DEF Inserted
  <1> QED
    BY <1>1 DEF Drawn, TypeOK

(* Nothing of a request has drawn an id before its handler inserts.        *)
LEMMA NothingDrawn ==
    ASSUME IInv, NEW r \in Request, phase[r] \in {"new", "received", "create", "ldap"},
           NEW row \in Drawn
    PROVE  row.request # r
  <1>1. RowsInBatch /\ StoredInStep /\ BatchInStep
    BY DEF IInv
  <1>2. CASE row \in table
    BY <1>1, <1>2 DEF StoredInStep, ItemsOf, RowsOf
  <1>3. CASE \E q \in Request : row \in Inserted(q)
    BY <1>1, <1>3 DEF RowsInBatch, BatchInStep, Inserted
  <1> QED
    BY <1>2, <1>3 DEF Drawn

LEMMA ReceiveStep ==
    ASSUME IInv, NEW r \in Request, Receive(r)
    PROVE  IInv'
  <1> USE DEF Receive, GoTo, shared, work
  <1>1. TypeOK /\ BatchInStep /\ RowsInBatch /\ StoredInStep /\ BatchIsWhole
        /\ AnswerIsTrue /\ IdsInOrder /\ PublishedIsStored
    BY DEF IInv
  <1>2. ItemsOf(r) = {} /\ made[r] = <<>> /\ rows[r] = <<>> /\ status[r] = None
    BY <1>1 DEF StoredInStep, BatchInStep
  <1>3. Acknowledged \subseteq Nat /\ \A id \in Acknowledged : id <= lastId
    BY <1>1 DEF Acknowledged, TypeOK, Row, IdsInOrder, Drawn
  <1>4. TypeOK'
    BY <1>1, <1>3, BodyAssumption DEF TypeOK, Phase
  <1>5. \A q \in Request : ItemsOf(q)' = ItemsOf(q) /\ Inserted(q)' = Inserted(q)
    BY DEF ItemsOf, RowsOf, Inserted
  <1>6. \A q \in Request : q # r => /\ phase'[q] = phase[q] /\ body'[q] = body[q]
                                    /\ before'[q] = before[q]
                                    /\ credentials'[q] = credentials[q]
    BY <1>1 DEF TypeOK
  <1>7. /\ phase'[r] = "received" /\ before'[r] = Acknowledged
        /\ credentials'[r] \in Credentials
    BY <1>1 DEF TypeOK
  <1>8. BatchInStep' /\ RowsInBatch'
    BY <1>1, <1>2, <1>5, <1>6, <1>7 DEF BatchInStep, RowsInBatch, ValidBody
  <1>9. StoredInStep'
    BY <1>1, <1>2, <1>5, <1>6, <1>7 DEF StoredInStep
  <1>10. BatchIsWhole' /\ AnswerIsTrue'
    BY <1>1, <1>2, <1>5, <1>6, StatusAssumption DEF BatchIsWhole, AnswerIsTrue, Status
  <1>11. Drawn' = Drawn
    BY <1>5 DEF Drawn
  <1>12. \A row \in Drawn : row.request # r
    BY NothingDrawn
  <1>13. \A row \in Drawn : row.request \in Request
    BY <1>1, DrawnType DEF Row
  <1>14. IdsInOrder'
    BY <1>1, <1>3, <1>6, <1>7, <1>11, <1>12, <1>13 DEF IdsInOrder
  <1>15. PublishedIsStored'
    BY <1>1 DEF PublishedIsStored
  <1> QED
    BY <1>4, <1>8, <1>9, <1>10, <1>14, <1>15 DEF IInv

(* A step that leaves alone what is stored, drawn and answered, and moves  *)
(* no request but r, keeps everything that is not about r's own batch.     *)
LEMMA LocalStep ==
    ASSUME IInv, NEW r \in Request,
           UNCHANGED <<table, lastId, rows, status, before, body>>,
           bus' \cup returned' \subseteq table
    PROVE  /\ RowsInBatch' /\ BatchIsWhole' /\ AnswerIsTrue' /\ IdsInOrder'
           /\ PublishedIsStored'
           /\ \A q \in Request : ItemsOf(q)' = ItemsOf(q) /\ Inserted(q)' = Inserted(q)
  <1>1. RowsInBatch /\ BatchIsWhole /\ AnswerIsTrue /\ IdsInOrder
    BY DEF IInv
  <1>2. \A q \in Request : ItemsOf(q)' = ItemsOf(q) /\ Inserted(q)' = Inserted(q)
    BY DEF ItemsOf, RowsOf, Inserted
  <1>3. Drawn' = Drawn
    BY <1>2 DEF Drawn
  <1> QED
    BY <1>1, <1>2, <1>3
       DEF RowsInBatch, BatchIsWhole, AnswerIsTrue, IdsInOrder, PublishedIsStored

(* An error on its way to the client, before anything is inserted.         *)
LEMMA RefuseStep ==
    ASSUME IInv, NEW r \in Request, phase[r] \in {"received", "create", "ldap"},
           NEW code \in {400, 401, 403, 500, 502, 503},
           Refuse(r, code) \/ Finish(r, code), UNCHANGED <<shared, request>>
    PROVE  IInv'
  <1>1. PublishedIsStored /\ Active(r)
    BY DEF IInv, Active
  <1>2. ASSUME NEW c \in {400, 401, 403, 500, 502, 503}, Finish(r, c)
        PROVE  IInv'
    BY <1>1, <1>2, FinishStep DEF shared, Status, PublishedIsStored
  <1> QED
    BY <1>2 DEF Refuse

LEMMA AuthenticateStep ==
    ASSUME IInv, NEW r \in Request, Authenticate(r)
    PROVE  IInv'
  <1> USE DEF GoTo
  <1>1. TypeOK /\ BatchInStep /\ StoredInStep /\ PublishedIsStored
    BY DEF IInv
  <1>2. phase[r] = "received" /\ ValidBody(r) /\ UNCHANGED shared
        /\ UNCHANGED <<body, credentials, stamp, before, honoured, member, stayed>>
    BY DEF Authenticate
  <1>3. PICK answer \in acquire_token(credentials[r], accepted) :
          LET found == get_user(credentials[r], answer) IN
          \/ /\ found.status = 201
             /\ caller' = [caller EXCEPT ![r] = found.user]
             /\ GoTo(r, "create")
             /\ UNCHANGED work
          \/ /\ found.status # 201
             /\ Refuse(r, found.status)
             /\ UNCHANGED caller
    BY DEF Authenticate
  <1> DEFINE found == get_user(credentials[r], answer)
  <1>4. found \in Outcome
    <2>1. credentials[r] \in Credentials /\ accepted \in SUBSET Token
      BY <1>1, <1>2 DEF BatchInStep, TypeOK
    <2> QED
      BY <2>1, UserType
  <1> HIDE DEF found
  <1>5. CASE found.status = 201 /\ caller' = [caller EXCEPT ![r] = found.user]
             /\ GoTo(r, "create") /\ UNCHANGED work
    <2> USE DEF shared, work
    <2>1. found.user \in User
      BY <1>4, <1>5 DEF Outcome, Authenticated, Unauthorized, Failed
    <2>2. TypeOK'
      BY <1>1, <1>2, <1>5, <2>1 DEF TypeOK, Phase
    <2>3. /\ RowsInBatch' /\ BatchIsWhole' /\ AnswerIsTrue' /\ IdsInOrder'
          /\ PublishedIsStored'
          /\ \A q \in Request : ItemsOf(q)' = ItemsOf(q) /\ Inserted(q)' = Inserted(q)
      BY <1>1, <1>2, <1>5, LocalStep DEF PublishedIsStored
    <2>4. /\ phase'[r] = "create" /\ caller'[r] \in User
          /\ \A q \in Request : q # r => phase'[q] = phase[q] /\ caller'[q] = caller[q]
      BY <1>1, <1>5, <2>1 DEF TypeOK
    <2>5. BatchInStep'
      <3>1. Len(made[r]) <= Len(body[r])
        BY <1>1, <1>2 DEF BatchInStep, TypeOK
      <3> QED
        BY <1>1, <1>2, <1>5, <2>3, <2>4, <3>1 DEF BatchInStep, ValidBody
    <2>6. StoredInStep'
      BY <1>1, <1>2, <1>5, <2>3, <2>4 DEF StoredInStep
    <2> QED
      BY <2>2, <2>3, <2>5, <2>6 DEF IInv
  <1>6. CASE found.status # 201 /\ Refuse(r, found.status) /\ UNCHANGED caller
    <2>1. found.status \in {401, 500}
      BY <1>4, <1>6 DEF Outcome, Authenticated, Unauthorized, Failed
    <2>2. UNCHANGED <<shared, request>>
      BY <1>2, <1>6 DEF request
    <2> QED
      BY <1>2, <1>6, <2>1, <2>2, RefuseStep
  <1> QED
    BY <1>3, <1>5, <1>6 DEF found

LEMMA RejectStep ==
    ASSUME IInv, NEW r \in Request, Reject(r)
    PROVE  IInv'
  BY RefuseStep DEF Reject

(* The next submission is in the body, valid, and of a user.               *)
LEMMA SubmissionType ==
    ASSUME IInv, NEW r \in Request, phase[r] \in {"create", "ldap"},
           Len(made[r]) < Len(body[r])
    PROVE  LET args == Submission(r) IN
           /\ args \in CreateWaiver /\ ValidCreateWaiver(args)
           /\ WaivingUser(r, args) \in User /\ ProxiedBy(r, args) \in User \cup {None}
  <1> DEFINE args == Submission(r)
  <1>1. TypeOK /\ BatchInStep
    BY DEF IInv
  <1>2. args \in CreateWaiver /\ ValidCreateWaiver(args)
    <2>1. body[r] \in Seq(CreateWaiver) /\ made[r] \in Seq(Waiver)
      BY <1>1 DEF TypeOK
    <2>2. Len(made[r]) + 1 \in DOMAIN body[r]
      BY <2>1
    <2> QED
      BY <1>1, <2>1, <2>2 DEF BatchInStep, ValidBody, Submission
  <1>3. caller[r] \in User
    BY <1>1 DEF BatchInStep
  <1> QED
    BY <1>2, <1>3 DEF WaivingUser, ProxiedBy, Proxied, CreateWaiver

(* A submission becomes an object of the batch.                            *)
LEMMA BuildStep ==
    ASSUME IInv, NEW r \in Request, phase[r] \in {"create", "ldap"},
           Len(made[r]) < Len(body[r]), NEW target \in Target,
           Build(r, target), UNCHANGED <<shared, request>>
    PROVE  IInv'
  <1> DEFINE args == Submission(r)
             waiver == NewWaiver(target, WaivingUser(r, args), args.product_version,
                                 ProxiedBy(r, args))
  <1> USE DEF shared, request, GoTo
  <1>1. TypeOK /\ BatchInStep /\ StoredInStep /\ PublishedIsStored
    BY DEF IInv
  <1>2. waiver \in Waiver
    <2>1. args.product_version \in Text
      BY SubmissionType DEF CreateWaiver
    <2> QED
      BY <2>1, SubmissionType, NewWaiverType
  <1>3. /\ made' = [made EXCEPT ![r] = Append(@, waiver)]
        /\ check' = [check EXCEPT ![r] = None]
        /\ phase' = [phase EXCEPT ![r] = "create"] /\ UNCHANGED <<rows, status>>
    BY DEF Build
  <1> HIDE DEF args, waiver
  <1>4. /\ made[r] \in Seq(Waiver) /\ made \in [Request -> Seq(Waiver)]
        /\ body[r] \in Seq(CreateWaiver)
    BY <1>1 DEF TypeOK
  <1>5. /\ made' \in [Request -> Seq(Waiver)]
        /\ Len(made'[r]) = Len(made[r]) + 1 /\ Len(made'[r]) <= Len(body[r])
        /\ \A q \in Request : q # r => made'[q] = made[q]
    BY <1>2, <1>3, <1>4
  <1>6. TypeOK'
    BY <1>1, <1>3, <1>5 DEF TypeOK, Phase
  <1>7. /\ RowsInBatch' /\ BatchIsWhole' /\ AnswerIsTrue' /\ IdsInOrder'
        /\ PublishedIsStored'
        /\ \A q \in Request : ItemsOf(q)' = ItemsOf(q) /\ Inserted(q)' = Inserted(q)
    BY <1>1, <1>3, LocalStep DEF PublishedIsStored
  <1>8. /\ phase'[r] = "create"
        /\ \A q \in Request : q # r => phase'[q] = phase[q] /\ check'[q] = check[q]
    BY <1>1, <1>3 DEF TypeOK
  <1>9. BatchInStep'
    BY <1>1, <1>3, <1>5, <1>7, <1>8 DEF BatchInStep, ValidBody
  <1>10. StoredInStep'
    BY <1>1, <1>3, <1>7, <1>8 DEF StoredInStep
  <1> QED
    BY <1>6, <1>7, <1>9, <1>10 DEF IInv

(* The LDAP check of a submission begins or goes on.                       *)
LEMMA CheckStep ==
    ASSUME IInv, NEW r \in Request, phase[r] \in {"create", "ldap"},
           Len(made[r]) < Len(body[r]), NEW next \in LdapCheck,
           check' = [check EXCEPT ![r] = next], phase' = [phase EXCEPT ![r] = "ldap"],
           UNCHANGED <<shared, request, made, rows, status>>
    PROVE  IInv'
  <1> USE DEF shared, request
  <1>1. TypeOK /\ BatchInStep /\ StoredInStep /\ PublishedIsStored
    BY DEF IInv
  <1>2. TypeOK'
    BY <1>1 DEF TypeOK, Phase
  <1>3. /\ RowsInBatch' /\ BatchIsWhole' /\ AnswerIsTrue' /\ IdsInOrder'
        /\ PublishedIsStored'
        /\ \A q \in Request : ItemsOf(q)' = ItemsOf(q) /\ Inserted(q)' = Inserted(q)
    BY <1>1, LocalStep DEF PublishedIsStored
  <1>4. /\ phase'[r] = "ldap" /\ check'[r] = next
        /\ \A q \in Request : q # r => phase'[q] = phase[q] /\ check'[q] = check[q]
    BY <1>1 DEF TypeOK
  <1>5. BatchInStep'
    BY <1>1, <1>3, <1>4 DEF BatchInStep, ValidBody
  <1>6. StoredInStep'
    BY <1>1, <1>3, <1>4 DEF StoredInStep
  <1> QED
    BY <1>2, <1>3, <1>5, <1>6 DEF IInv

LEMMA CreateNextStep ==
    ASSUME IInv, NEW r \in Request, CreateNext(r)
    PROVE  IInv'
  <1>1. /\ phase[r] = "create" /\ Len(made[r]) < Len(body[r])
        /\ UNCHANGED <<shared, request>>
    BY DEF CreateNext
  <1>2. CASE Refuse(r, 403)
    BY <1>1, <1>2, RefuseStep
  <1>3. ASSUME NEW found \in Resolutions(Submission(r)), found.status # 201,
               Refuse(r, found.status)
        PROVE  IInv'
    <2>1. found.status \in {400, 500, 503}
      BY <1>1, <1>3, SubmissionType, ResolutionType
    <2> QED
      BY <1>1, <1>3, <2>1, RefuseStep
  <1>4. ASSUME NEW found \in Resolutions(Submission(r)), found.status = 201,
               Authorize(r, found.target)
        PROVE  IInv'
    <2>1. found.target \in Target
      BY <1>1, <1>4, SubmissionType, ResolutionType
    <2>2. CASE Build(r, found.target)
      BY <1>1, <2>1, <2>2, BuildStep
    <2>3. CASE Refuse(r, 403) \/ Finish(r, 500)
      BY <1>1, <2>3, RefuseStep
    <2>4. CASE /\ check' = [check EXCEPT ![r] = Check(found.target, 0, {})]
               /\ GoTo(r, "ldap")
               /\ UNCHANGED <<made, rows, status>>
      <3>1. Check(found.target, 0, {}) \in LdapCheck
        BY <2>1 DEF Check, LdapCheck
      <3> QED
        BY <1>1, <2>4, <3>1, CheckStep DEF GoTo
    <2> QED
      BY <1>4, <2>2, <2>3, <2>4 DEF Authorize
  <1> QED
    BY <1>2, <1>3, <1>4 DEF CreateNext

LEMMA LdapSearchStep ==
    ASSUME IInv, NEW r \in Request, LdapSearch(r)
    PROVE  IInv'
  <1> DEFINE target == check[r].target
             searched == check[r].searched + 1
             found == get_group_membership(check[r].found, searched,
                                           groups[WaivingUser(r, Submission(r))])
  <1>1. TypeOK /\ BatchInStep
    BY DEF IInv
  <1>2. phase[r] = "ldap" /\ UNCHANGED <<shared, request>>
    BY DEF LdapSearch
  <1>3. Len(made[r]) < Len(body[r]) /\ check[r] \in LdapCheck
    BY <1>1, <1>2 DEF BatchInStep
  <1>4. target \in Target /\ searched \in Nat
    BY <1>3 DEF LdapCheck
  <1>5. found \in SUBSET Group
    <2>1. groups[WaivingUser(r, Submission(r))] \in SUBSET Group
      BY <1>1, <1>2, <1>3, SubmissionType DEF TypeOK
    <2> QED
      BY <1>3, <2>1 DEF get_group_membership, LdapCheck
  <1> HIDE DEF target, searched, found
  <1>6. CASE Build(r, target)
    BY <1>2, <1>3, <1>4, <1>6, BuildStep
  <1>7. CASE Refuse(r, 403)
    BY <1>2, <1>7, RefuseStep
  <1>8. CASE /\ check' = [check EXCEPT ![r] = Check(target, searched, found)]
             /\ UNCHANGED <<phase, made, rows, status>>
    <2>1. Check(target, searched, found) \in LdapCheck
      BY <1>4, <1>5 DEF Check, LdapCheck
    <2>2. phase' = [phase EXCEPT ![r] = "ldap"]
      BY <1>1, <1>2, <1>8 DEF TypeOK
    <2> QED
      BY <1>2, <1>3, <1>8, <2>1, <2>2, CheckStep
  <1> QED
    BY <1>6, <1>7, <1>8 DEF LdapSearch, target, searched, found

LEMMA LdapRaisesStep ==
    ASSUME IInv, NEW r \in Request, LdapRaises(r)
    PROVE  IInv'
  BY RefuseStep DEF LdapRaises

LEMMA FlushStep ==
    ASSUME IInv, NEW r \in Request, Flush(r)
    PROVE  IInv'
  <1> USE DEF Flush, GoTo, work
  <1>1. TypeOK /\ BatchInStep /\ StoredInStep /\ PublishedIsStored
    BY DEF IInv
  <1>2. made[r] \in Seq(Waiver) /\ rows[r] = <<>>
    BY <1>1 DEF TypeOK, BatchInStep, ValidBody
  <1>3. clock' \in Nat
    BY <1>1, <1>2 DEF TypeOK
  <1>4. TypeOK'
    BY <1>1, <1>3 DEF TypeOK, Phase
  <1>5. /\ RowsInBatch' /\ BatchIsWhole' /\ AnswerIsTrue' /\ IdsInOrder'
        /\ PublishedIsStored'
        /\ \A q \in Request : ItemsOf(q)' = ItemsOf(q) /\ Inserted(q)' = Inserted(q)
    BY <1>1, LocalStep DEF PublishedIsStored
  <1>6. phase'[r] = "insert" /\ \A q \in Request : q # r => phase'[q] = phase[q]
    BY <1>1 DEF TypeOK
  <1>7. BatchInStep'
    BY <1>1, <1>2, <1>5, <1>6 DEF BatchInStep, ValidBody
  <1>8. StoredInStep'
    BY <1>1, <1>5, <1>6 DEF StoredInStep
  <1> QED
    BY <1>4, <1>5, <1>7, <1>8 DEF IInv

(* The row inserted has the largest id of all, and the largest position of *)
(* its request's rows.                                                     *)
LEMMA InsertStep ==
    ASSUME IInv, NEW r \in Request, Insert(r)
    PROVE  IInv'
  <1> DEFINE i == Len(rows[r]) + 1
             new == [id |-> lastId + 1, timestamp |-> stamp[r] + i,
                     request |-> r, item |-> i, waiver |-> made[r][i]]
  <1> USE DEF request
  <1>1. TypeOK /\ BatchInStep /\ RowsInBatch /\ StoredInStep /\ BatchIsWhole
        /\ AnswerIsTrue /\ IdsInOrder /\ PublishedIsStored
    BY DEF IInv
  <1>2. /\ phase[r] = "insert" /\ i <= Len(made[r])
        /\ lastId' = lastId + 1
        /\ rows' = [rows EXCEPT ![r] = Append(@, new)]
        /\ UNCHANGED <<table, clock, bus, returned, groups, accepted, request, phase, made, check,
                     status>>
    BY DEF Insert
  <1>3. /\ rows \in [Request -> Seq(Row)] /\ rows[r] \in Seq(Row)
        /\ made[r] \in Seq(Waiver) /\ lastId \in Nat /\ stamp[r] \in Nat
    BY <1>1 DEF TypeOK
  <1>4. i \in Nat /\ i \in DOMAIN made[r]
    BY <1>2, <1>3
  <1>5. new \in Row
    BY <1>3, <1>4 DEF Row
  <1> HIDE DEF new
  <1>6. /\ rows' \in [Request -> Seq(Row)]
        /\ Len(rows'[r]) = i /\ DOMAIN rows'[r] = 1..i
        /\ rows'[r][i] = new
        /\ \A j \in DOMAIN rows[r] : rows'[r][j] = rows[r][j]
        /\ \A q \in Request : q # r => rows'[q] = rows[q]
    BY <1>2, <1>3, <1>5
  <1>7. TypeOK'
    BY <1>1, <1>2, <1>3, <1>6 DEF TypeOK
  <1>8. DOMAIN rows[r] = 1..(i - 1)
    BY <1>3
  <1>9. /\ Inserted(r)' = Inserted(r) \cup {new}
        /\ \A q \in Request : q # r => Inserted(q)' = Inserted(q)
    <2>1. Inserted(r)' = {rows'[r][j] : j \in 1..i}
      BY <1>6 DEF Inserted
    <2>2. Inserted(r) = {rows[r][j] : j \in 1..(i - 1)}
      BY <1>8 DEF Inserted
    <2>3. 1..i = 1..(i - 1) \cup {i}
      BY <1>4
    <2> QED
      BY <1>6, <1>8, <2>1, <2>2, <2>3 DEF Inserted
  <1>10. \A q \in Request : ItemsOf(q)' = ItemsOf(q)
    BY <1>2 DEF ItemsOf, RowsOf
  <1>11. BatchInStep'
    BY <1>1, <1>2, <1>3, <1>6, <1>9 DEF BatchInStep, ValidBody
  <1>12. RowsInBatch'
    <2>1. new.request = r /\ new.item = i
      BY DEF new
    <2>2. \A j \in DOMAIN rows'[r] : j = i \/ j \in DOMAIN rows[r]
      BY <1>4, <1>6, <1>8
    <2> QED
      BY <1>1, <1>6, <2>1, <2>2 DEF RowsInBatch
  <1>13. StoredInStep' /\ BatchIsWhole' /\ AnswerIsTrue'
    BY <1>1, <1>2, <1>10 DEF StoredInStep, BatchIsWhole, AnswerIsTrue
  <1>14. Drawn' = Drawn \cup {new}
    BY <1>2, <1>9 DEF Drawn
  <1>15. \A row \in Drawn : row.id \in Nat /\ row.item \in Nat
    BY <1>1, DrawnType DEF Row
  <1>16. \A row \in Drawn : row.request = r => row.item < i
    <2> SUFFICES ASSUME NEW row \in Drawn, row.request = r PROVE row.item < i
      OBVIOUS
    <2>1. CASE row \in table
      BY <1>1, <1>2, <2>1 DEF StoredInStep, ItemsOf, RowsOf
    <2>2. CASE \E q \in Request : row \in Inserted(q)
      <3>1. PICK q \in Request : row \in Inserted(q)
        BY <2>2
      <3>2. PICK j \in DOMAIN rows[q] : row = rows[q][j]
        BY <3>1 DEF Inserted
      <3>3. q = r /\ row.item = j
        BY <1>1, <3>2 DEF RowsInBatch
      <3> QED
        BY <1>4, <1>8, <3>2, <3>3
    <2> QED
      BY <2>1, <2>2 DEF Drawn
  <1>17. /\ new.id = lastId + 1 /\ new.request = r /\ new.item = i
         /\ \A id \in before[r] : id <= lastId /\ id \in Nat
    BY <1>1 DEF new, IdsInOrder, TypeOK
  <1>18. \A row \in Drawn : row.id < new.id
    BY <1>1, <1>3, <1>15, <1>17 DEF IdsInOrder
  <1>19. IdsInOrder'
    <2>1. \A q \in Request : \A id \in before[q] : id <= lastId'
      BY <1>1, <1>2, <1>3 DEF IdsInOrder, TypeOK
    <2>2. ASSUME NEW row \in Drawn'
          PROVE row.id <= lastId' /\ \A id \in before[row.request] : row.id > id
      BY <1>1, <1>2, <1>3, <1>14, <1>15, <1>17 DEF IdsInOrder
    <2>3. ASSUME NEW row \in Drawn', NEW other \in Drawn'
          PROVE  /\ row.id = other.id => row = other
                 /\ row.request = other.request /\ row.item > other.item => row.id > other.id
      <3>1. CASE row \in Drawn /\ other \in Drawn
        BY <1>1, <3>1 DEF IdsInOrder
      <3>2. CASE row = new /\ other \in Drawn
        BY <1>3, <1>15, <1>17, <1>18, <3>2
      <3>3. CASE row \in Drawn /\ other = new
        BY <1>3, <1>4, <1>15, <1>16, <1>17, <1>18, <3>3
      <3>4. CASE row = new /\ other = new
        BY <1>4, <1>17, <3>4
      <3> QED
        BY <1>14, <3>1, <3>2, <3>3, <3>4
    <2> QED
      BY <1>2, <2>1, <2>2, <2>3 DEF IdsInOrder
  <1>20. PublishedIsStored'
    BY <1>1, <1>2 DEF PublishedIsStored
  <1> QED
    BY <1>7, <1>11, <1>12, <1>13, <1>19, <1>20 DEF IInv

(* A commit stores the whole batch, whether the handler learns of it       *)
(* (Commit) or not (CommitUnanswered).                                     *)
LEMMA CommitStep ==
    ASSUME IInv, NEW r \in Request, NEW p \in {"publish", "respond", "broken"},
           phase[r] = "insert", Len(rows[r]) = Len(made[r]),
           table' = table \cup Inserted(r), GoTo(r, p),
           UNCHANGED <<lastId, clock, bus, returned, groups, accepted, request, work>>
    PROVE  IInv'
  <1> USE DEF GoTo, request, work
  <1>1. TypeOK /\ BatchInStep /\ RowsInBatch /\ StoredInStep /\ BatchIsWhole
        /\ AnswerIsTrue /\ IdsInOrder /\ PublishedIsStored
    BY DEF IInv
  <1>2. /\ Inserted(r) \subseteq Row /\ rows[r] \in Seq(Row)
        /\ body[r] \in Seq(CreateWaiver) /\ made[r] \in Seq(Waiver)
    BY <1>1, DrawnType DEF TypeOK
  <1>3. TypeOK'
    BY <1>1, <1>2 DEF TypeOK, Phase
  <1>4. phase'[r] = p /\ \A q \in Request : q # r => phase'[q] = phase[q]
    BY <1>1 DEF TypeOK
  <1>5. \A q \in Request : Inserted(q)' = Inserted(q)
    BY DEF Inserted
  <1>6. \A row \in Inserted(r) : row.request = r
    BY <1>1 DEF RowsInBatch, Inserted
  <1>7. ItemsOf(r)' = DOMAIN body[r]
    <2>1. DOMAIN rows[r] = DOMAIN body[r]
      BY <1>1, <1>2 DEF BatchInStep, ValidBody
    <2>2. {row.item : row \in Inserted(r)} = DOMAIN rows[r]
      BY <1>1 DEF RowsInBatch, Inserted
    <2>3. RowsOf(table, r) = {}
      BY <1>1 DEF StoredInStep, ItemsOf
    <2>4. RowsOf(table', r) = Inserted(r)
      BY <1>6, <2>3 DEF RowsOf
    <2> QED
      BY <2>1, <2>2, <2>4 DEF ItemsOf
  <1>8. \A q \in Request : q # r => ItemsOf(q)' = ItemsOf(q)
    BY <1>6 DEF ItemsOf, RowsOf
  <1>9. BatchInStep'
    BY <1>1, <1>4, <1>5 DEF BatchInStep, ValidBody
  <1>10. RowsInBatch'
    BY <1>1 DEF RowsInBatch
  <1>11. StoredInStep'
    BY <1>1, <1>4, <1>7, <1>8 DEF StoredInStep
  <1>12. status[r] = None
    BY <1>1 DEF StoredInStep
  <1>13. BatchIsWhole' /\ AnswerIsTrue'
    BY <1>1, <1>7, <1>8, <1>12, StatusAssumption DEF BatchIsWhole, AnswerIsTrue, Status
  <1>14. Drawn' = Drawn
    BY <1>5 DEF Drawn
  <1>15. IdsInOrder' /\ PublishedIsStored'
    BY <1>1, <1>14 DEF IdsInOrder, PublishedIsStored
  <1> QED
    BY <1>3, <1>9, <1>10, <1>11, <1>13, <1>15 DEF IInv

LEMMA PublishRowStep ==
    ASSUME IInv, NEW r \in Request, PublishRow(r)
    PROVE  IInv'
  <1> USE DEF PublishRow, request, work
  <1>1. TypeOK /\ BatchInStep /\ StoredInStep /\ PublishedIsStored
    BY DEF IInv
  <1>2. Unsent(r) \subseteq table
    BY <1>1 DEF Unsent, BatchInStep, ValidBody
  <1>3. bus' \cup returned' \subseteq table
    BY <1>1, <1>2 DEF PublishedIsStored
  <1>4. TypeOK'
    BY <1>1, <1>3 DEF TypeOK
  <1>5. /\ RowsInBatch' /\ BatchIsWhole' /\ AnswerIsTrue' /\ IdsInOrder'
        /\ PublishedIsStored'
        /\ \A q \in Request : ItemsOf(q)' = ItemsOf(q) /\ Inserted(q)' = Inserted(q)
    BY <1>3, LocalStep
  <1>6. BatchInStep' /\ StoredInStep'
    BY <1>1, <1>5 DEF BatchInStep, ValidBody, StoredInStep
  <1> QED
    BY <1>4, <1>5, <1>6 DEF IInv

LEMMA EndPublishStep ==
    ASSUME IInv, NEW r \in Request, EndPublish(r)
    PROVE  IInv'
  <1> USE DEF EndPublish, GoTo, shared, request, work
  <1>1. TypeOK /\ BatchInStep /\ StoredInStep /\ PublishedIsStored
    BY DEF IInv
  <1>2. TypeOK'
    BY <1>1 DEF TypeOK, Phase
  <1>3. /\ RowsInBatch' /\ BatchIsWhole' /\ AnswerIsTrue' /\ IdsInOrder'
        /\ PublishedIsStored'
        /\ \A q \in Request : ItemsOf(q)' = ItemsOf(q) /\ Inserted(q)' = Inserted(q)
    BY <1>1, LocalStep DEF PublishedIsStored
  <1>4. phase'[r] = "respond" /\ \A q \in Request : q # r => phase'[q] = phase[q]
    BY <1>1 DEF TypeOK
  <1>5. BatchInStep' /\ StoredInStep'
    BY <1>1, <1>3, <1>4 DEF BatchInStep, ValidBody, StoredInStep
  <1> QED
    BY <1>2, <1>3, <1>5 DEF IInv

LEMMA ChangeMembershipStep ==
    ASSUME IInv, NEW u \in User, ChangeMembership(u)
    PROVE  IInv'
  <1> USE DEF ChangeMembership, work
  <1>1. TypeOK /\ BatchInStep /\ RowsInBatch /\ StoredInStep /\ BatchIsWhole
        /\ AnswerIsTrue /\ IdsInOrder /\ PublishedIsStored
    BY DEF IInv
  <1>2. TypeOK'
    <2>1. groups' \in [User -> SUBSET Group]
      BY <1>1 DEF TypeOK
    <2>2. member' \in [Request -> [User -> SUBSET Group]]
      BY <1>1, <2>1 DEF TypeOK
    <2>3. stayed' \in [Request -> [User -> SUBSET Group]]
      BY <1>1, <2>1 DEF TypeOK
    <2> QED
      BY <1>1, <2>1, <2>2, <2>3 DEF TypeOK
  <1>3. \A q \in Request : ItemsOf(q)' = ItemsOf(q) /\ Inserted(q)' = Inserted(q)
    BY DEF ItemsOf, RowsOf, Inserted
  <1>4. Drawn' = Drawn
    BY <1>3 DEF Drawn
  <1>5. BatchInStep' /\ RowsInBatch'
    BY <1>1, <1>3 DEF BatchInStep, ValidBody, RowsInBatch
  <1>6. StoredInStep' /\ BatchIsWhole' /\ AnswerIsTrue'
    BY <1>1, <1>3 DEF StoredInStep, BatchIsWhole, AnswerIsTrue
  <1>7. IdsInOrder' /\ PublishedIsStored'
    BY <1>1, <1>4 DEF IdsInOrder, PublishedIsStored
  <1> QED
    BY <1>2, <1>5, <1>6, <1>7 DEF IInv

LEMMA ExpireStep ==
    ASSUME IInv, NEW token \in Token, Expire(token)
    PROVE  IInv'
  <1> USE DEF Expire, request, work
  <1>1. /\ \A r \in Request : ItemsOf(r)' = ItemsOf(r) /\ Inserted(r)' = Inserted(r)
        /\ Drawn' = Drawn
    BY DEF ItemsOf, RowsOf, Inserted, Drawn
  <1>2. TypeOK' /\ PublishedIsStored'
    BY DEF IInv, TypeOK, PublishedIsStored
  <1>3. BatchInStep' /\ RowsInBatch'
    BY <1>1 DEF IInv, BatchInStep, ValidBody, RowsInBatch, ValidBody
  <1>4. StoredInStep' /\ BatchIsWhole' /\ AnswerIsTrue'
    BY <1>1 DEF IInv, StoredInStep, BatchIsWhole, AnswerIsTrue
  <1>5. IdsInOrder'
    BY <1>1 DEF IInv, IdsInOrder
  <1> QED
    BY <1>2, <1>3, <1>4, <1>5 DEF IInv

LEMMA StutterStep == IInv /\ UNCHANGED vars => IInv'
  <1> SUFFICES ASSUME IInv, UNCHANGED vars PROVE IInv'
    OBVIOUS
  <1> USE DEF vars
  <1>1. /\ \A r \in Request : ItemsOf(r)' = ItemsOf(r) /\ Inserted(r)' = Inserted(r)
        /\ Drawn' = Drawn
    BY DEF ItemsOf, RowsOf, Inserted, Drawn
  <1>2. TypeOK' /\ PublishedIsStored'
    BY DEF IInv, TypeOK, PublishedIsStored
  <1>3. BatchInStep' /\ RowsInBatch'
    BY <1>1 DEF IInv, BatchInStep, ValidBody, RowsInBatch
  <1>4. StoredInStep' /\ BatchIsWhole' /\ AnswerIsTrue'
    BY <1>1 DEF IInv, StoredInStep, BatchIsWhole, AnswerIsTrue
  <1>5. IdsInOrder'
    BY <1>1 DEF IInv, IdsInOrder
  <1> QED
    BY <1>2, <1>3, <1>4, <1>5 DEF IInv

LEMMA HandleStep ==
    ASSUME IInv, NEW r \in Request, Handle(r)
    PROVE  IInv'
  <1> USE DEF shared, Active, Status
  <1>1. BatchInStep /\ PublishedIsStored
    BY DEF IInv
  <1>2. CASE Authenticate(r)
    BY <1>2, AuthenticateStep
  <1>3. CASE Reject(r)
    BY <1>3, RejectStep
  <1>4. CASE CreateNext(r) \/ LdapSearch(r) \/ LdapRaises(r)
    BY <1>4, CreateNextStep, LdapSearchStep, LdapRaisesStep
  <1>5. CASE Flush(r)
    BY <1>5, FlushStep
  <1>6. CASE Insert(r)
    BY <1>6, InsertStep
  <1>7. CASE DatabaseError(r)
    BY <1>1, <1>7, FinishStep DEF DatabaseError
  <1>8. CASE Commit(r)
    BY <1>8, CommitStep DEF Commit
  <1>9. CASE CommitUnanswered(r)
    BY <1>9, CommitStep DEF CommitUnanswered
  <1>10. CASE CommitRaises(r)
    BY <1>1, <1>10, FinishStep DEF CommitRaises
  <1>11. CASE PublishRow(r)
    BY <1>11, PublishRowStep
  <1>12. CASE PublishRaises(r)
    <2>1. Unsent(r) \subseteq table
      BY <1>1, <1>12 DEF Unsent, BatchInStep, ValidBody, PublishRaises
    <2> QED
      BY <1>12, <2>1, FinishStep DEF PublishRaises
  <1>13. CASE EndPublish(r)
    BY <1>13, EndPublishStep
  <1>14. CASE Respond(r)
    BY <1>1, <1>14, FinishStep DEF Respond
  <1>15. CASE RespondRaises(r)
    BY <1>1, <1>15, FinishStep DEF RespondRaises
  <1> QED
    BY <1>2, <1>3, <1>4, <1>5, <1>6, <1>7, <1>8, <1>9, <1>10, <1>11, <1>12, <1>13,
       <1>14, <1>15 DEF Handle

LEMMA NextIInv == IInv /\ [Next]_vars => IInv'
  <1>1. ASSUME IInv, NEW r \in Request, Receive(r) PROVE IInv'
    BY <1>1, ReceiveStep
  <1>2. ASSUME IInv, NEW r \in Request, Handle(r) PROVE IInv'
    BY <1>2, HandleStep
  <1>3. ASSUME IInv, NEW r \in Request, Crash(r) PROVE IInv'
    BY <1>3, FinishStep DEF Crash, shared, Status, Lost
  <1>4. ASSUME IInv, NEW u \in User, ChangeMembership(u) PROVE IInv'
    BY <1>4, ChangeMembershipStep
  <1>5. ASSUME IInv, NEW token \in Token, Expire(token) PROVE IInv'
    BY <1>5, ExpireStep
  <1> QED
    BY <1>1, <1>2, <1>3, <1>4, <1>5, StutterStep DEF Next

(* The inductive invariant holds in every state of every behaviour.        *)
THEOREM Invariance == Spec => []IInv
  BY InitIInv, NextIInv, PTL DEF Spec

----------------------------------------------------------------------------
(* What follows from it.                                                   *)

(* Every variable always holds a value of its kind.                        *)
THEOREM TypeCorrect == Spec => []TypeOK
  <1>1. IInv => TypeOK
    BY DEF IInv
  <1> QED
    BY <1>1, Invariance, PTL

(* A batch is never partly in the database, whatever fails and whoever     *)
(* else is writing (api_v1.py:297-304).                                    *)
THEOREM BatchesAreWhole == Spec => []BatchIsWhole
  <1>1. IInv => BatchIsWhole
    BY DEF IInv
  <1> QED
    BY <1>1, Invariance, PTL

(* 201 means stored, and an error other than 500 means not stored          *)
(* (api_v1.py:296-367).                                                    *)
THEOREM AnswersAreTrue == Spec => []AnswerIsTrue
  <1>1. IInv => AnswerIsTrue
    BY DEF IInv
  <1> QED
    BY <1>1, Invariance, PTL

(* A waiver supersedes every waiver acknowledged before it was requested,  *)
(* and its own batch's earlier ones (api_v1.py:88-96, 304).                *)
THEOREM LaterSupersedes == Spec => []SupersedesAcknowledged
  <1>1. IInv => SupersedesAcknowledged
    BY DEF IInv, IdsInOrder, Drawn, SupersedesAcknowledged
  <1> QED
    BY <1>1, Invariance, PTL

(* Nothing is announced that is not in the database (events.py:19-37).     *)
THEOREM AnnouncedIsStored == Spec => []PublishedIsStored
  <1>1. IInv => PublishedIsStored
    BY DEF IInv
  <1> QED
    BY <1>1, Invariance, PTL

(* No step takes a row out of the table: the service has no operation that *)
(* updates or deletes a waiver.                                            *)
LEMMA TableGrows == [Next]_vars => table \subseteq table'
  <1> SUFFICES ASSUME [Next]_vars PROVE table \subseteq table'
    OBVIOUS
  <1> USE DEF shared
  <1>1. ASSUME NEW r \in Request, Receive(r) PROVE table \subseteq table'
    BY <1>1 DEF Receive
  <1>2. ASSUME NEW r \in Request, Handle(r) PROVE table \subseteq table'
    <2>1. CASE \/ Authenticate(r) \/ Reject(r) \/ CreateNext(r) \/ LdapSearch(r)
               \/ LdapRaises(r) \/ Flush(r) \/ Insert(r)
      BY <2>1 DEF Authenticate, Reject, CreateNext, LdapSearch, LdapRaises, Flush, Insert
    <2>2. CASE DatabaseError(r) \/ CommitRaises(r) \/ Respond(r) \/ RespondRaises(r)
      BY <2>2 DEF DatabaseError, CommitRaises, Respond, RespondRaises
    <2>3. CASE Commit(r) \/ CommitUnanswered(r)
      BY <2>3 DEF Commit, CommitUnanswered
    <2>4. CASE PublishRow(r) \/ PublishRaises(r) \/ EndPublish(r)
      BY <2>4 DEF PublishRow, PublishRaises, EndPublish
    <2> QED
      BY <1>2, <2>1, <2>2, <2>3, <2>4 DEF Handle
  <1>3. ASSUME NEW r \in Request, Crash(r) PROVE table \subseteq table'
    BY <1>3 DEF Crash
  <1>4. ASSUME NEW u \in User, ChangeMembership(u) PROVE table \subseteq table'
    BY <1>4 DEF ChangeMembership
  <1>5. ASSUME NEW token \in Token, Expire(token) PROVE table \subseteq table'
    BY <1>5 DEF Expire
  <1>6. CASE UNCHANGED vars
    BY <1>6 DEF vars
  <1> QED
    BY <1>1, <1>2, <1>3, <1>4, <1>5, <1>6 DEF Next

(* What makes a waiver obsolete is there for good, so no later commit      *)
(* revives it (_filter_out_obsolete_waivers, api_v1.py:81-96).             *)
THEOREM ObsoleteStays == Spec => ObsoleteForever
  <1>1. [Next]_vars => [Obsolete(table) \subseteq Obsolete(table')]_vars
    BY TableGrows DEF Obsolete
  <1> QED
    BY <1>1, PTL DEF Spec, ObsoleteForever

----------------------------------------------------------------------------
(* What is acknowledged is announced.                                      *)

(* PInv is inductive beside IInv.  Behind its commit a request still has   *)
(* all the rows it stored, and it leaves the hook for a response only when *)
(* the broker had each of them.                                            *)
PublishedInStep(r) ==
    /\ phase[r] \in {"publish", "respond", "broken"} => RowsOf(table, r) \subseteq Inserted(r)
    /\ MESSAGE_BUS_PUBLISH /\ phase[r] = "respond" => Inserted(r) \subseteq bus \cup returned

PInv == AcknowledgedIsPublished /\ \A r \in Request : PublishedInStep(r)

LEMMA InitPInv == Init => PInv
  <1> SUFFICES ASSUME Init PROVE PInv
    OBVIOUS
  <1> QED
    BY DEF Init, PInv, PublishedInStep, AcknowledgedIsPublished

(* A step of request r keeps the invariant if it does so for r.            *)
LEMMA PublishedStep ==
    ASSUME IInv, PInv, NEW r \in Request,
           \A q \in Request \ {r} : UNCHANGED <<phase[q], rows[q], status[q]>>,
           bus \subseteq bus', returned \subseteq returned',
           \A row \in table' \ table : row.request = r,
           table \subseteq table',
           PublishedInStep(r)',
           MESSAGE_BUS_PUBLISH /\ status'[r] = 201 =>
             \A row \in RowsOf(table', r) : row \in bus' \cup returned'
    PROVE  PInv'
  <1>1. ASSUME NEW q \in Request PROVE PublishedInStep(q)'
    <2>1. CASE q # r
      <3>1. RowsOf(table', q) = RowsOf(table, q) /\ Inserted(q)' = Inserted(q)
        BY <2>1 DEF RowsOf, Inserted
      <3> QED
        BY <2>1, <3>1 DEF PInv, PublishedInStep
    <2> QED
      BY <2>1
  <1>2. AcknowledgedIsPublished'
    <2> SUFFICES ASSUME MESSAGE_BUS_PUBLISH, NEW row \in table', status'[row.request] = 201
                 PROVE  row \in bus' \cup returned'
      BY DEF AcknowledgedIsPublished
    <2>1. CASE row.request = r
      BY <2>1 DEF RowsOf
    <2>2. CASE row.request # r
      <3>1. row \in table /\ row.request \in Request
        BY <2>2 DEF IInv, TypeOK, Row
      <3> QED
        BY <2>2, <3>1 DEF PInv, AcknowledgedIsPublished
    <2> QED
      BY <2>1, <2>2
  <1> QED
    BY <1>1, <1>2 DEF PInv

(* The end of a handler: 201 comes only out of "respond".                  *)
LEMMA PublishedFinish ==
    ASSUME IInv, PInv, NEW r \in Request, NEW code, Finish(r, code),
           table' = table, bus \subseteq bus', returned' = returned,
           code = 201 => phase[r] = "respond"
    PROVE  PInv'
  <1> USE DEF Finish, GoTo
  <1>1. TypeOK
    BY DEF IInv
  <1>2. /\ \A q \in Request \ {r} : UNCHANGED <<phase[q], rows[q], status[q]>>
        /\ phase'[r] = "done" /\ status'[r] = code
    BY <1>1 DEF TypeOK
  <1>3. PublishedInStep(r)'
    BY <1>2 DEF PublishedInStep
  <1>4. MESSAGE_BUS_PUBLISH /\ code = 201 =>
          \A row \in RowsOf(table, r) : row \in bus' \cup returned'
    BY DEF PInv, PublishedInStep
  <1> QED
    BY <1>2, <1>3, <1>4, PublishedStep

(* A handler goes on, and not into "respond" with something unsent.        *)
LEMMA PublishedAdvance ==
    ASSUME IInv, PInv, NEW r \in Request, NEW p,
           phase' = [phase EXCEPT ![r] = p], Active(r) \/ phase[r] = "new",
           \A q \in Request \ {r} : rows'[q] = rows[q],
           UNCHANGED status, bus \subseteq bus', returned \subseteq returned',
           \A row \in table' \ table : row.request = r,
           table \subseteq table',
           p \in {"publish", "respond", "broken"} => RowsOf(table', r) \subseteq Inserted(r)',
           MESSAGE_BUS_PUBLISH /\ p = "respond" => Inserted(r)' \subseteq bus' \cup returned'
    PROVE  PInv'
  <1>1. TypeOK /\ StoredInStep
    BY DEF IInv
  <1>2. status[r] = None
    BY <1>1 DEF StoredInStep, Active
  <1>3. \A q \in Request : phase'[q] = IF q = r THEN p ELSE phase[q]
    BY <1>1 DEF TypeOK
  <1>4. PublishedInStep(r)'
    BY <1>3 DEF PublishedInStep
  <1> QED
    BY <1>2, <1>3, <1>4, StatusAssumption, PublishedStep DEF Status

(* The end of a handler with an error, or before there are rows.           *)
LEMMA PublishedRefuse ==
    ASSUME IInv, PInv, NEW r \in Request, NEW code, code # 201,
           Refuse(r, code) \/ Finish(r, code), UNCHANGED <<table, bus, returned>>
    PROVE  PInv'
  BY PublishedFinish DEF Refuse

(* Up to the commit nothing is stored or sent.                             *)
LEMMA PublishedBefore ==
    ASSUME IInv, PInv, NEW r \in Request,
           Receive(r) \/ Authenticate(r) \/ Reject(r) \/ CreateNext(r) \/ LdapSearch(r)
           \/ LdapRaises(r) \/ Flush(r) \/ Insert(r) \/ DatabaseError(r)
    PROVE  PInv'
  <1> USE DEF shared
  <1>1. TypeOK /\ BatchInStep
    BY DEF IInv
  <1>2. ASSUME NEW p \in Phase \ {"publish", "respond", "broken"},
               phase' = [phase EXCEPT ![r] = p], Active(r) \/ phase[r] = "new",
               \A q \in Request \ {r} : rows'[q] = rows[q],
               UNCHANGED <<table, bus, returned, status>>
        PROVE  PInv'
    BY <1>2, PublishedAdvance
  <1>3. CASE Receive(r)
    BY <1>2, <1>3 DEF Receive, GoTo, work, Phase
  <1>4. CASE Authenticate(r)
    <2>1. PICK answer \in acquire_token(credentials[r], accepted) :
            \/ GoTo(r, "create") /\ UNCHANGED work
            \/ /\ get_user(credentials[r], answer).status # 201
               /\ Refuse(r, get_user(credentials[r], answer).status)
      BY <1>4 DEF Authenticate
    <2>2. phase[r] = "received" /\ UNCHANGED <<table, bus, returned>>
      BY <1>4 DEF Authenticate
    <2>3. CASE GoTo(r, "create") /\ UNCHANGED work
      BY <1>2, <2>2, <2>3 DEF GoTo, work, Phase, Active
    <2> QED
      BY <2>1, <2>2, <2>3, PublishedRefuse
  <1>5. CASE Reject(r)
    BY <1>5, PublishedRefuse DEF Reject
  <1>6. CASE CreateNext(r)
    <2>1. phase[r] = "create" /\ Len(made[r]) < Len(body[r]) /\ UNCHANGED <<table, bus, returned>>
      BY <1>6 DEF CreateNext
    <2>2. CASE Refuse(r, 403)
      BY <2>1, <2>2, PublishedRefuse
    <2>3. ASSUME NEW found \in Resolutions(Submission(r)), found.status # 201,
                 Refuse(r, found.status)
          PROVE  PInv'
      BY <2>1, <2>3, PublishedRefuse
    <2>4. ASSUME NEW found \in Resolutions(Submission(r)), Authorize(r, found.target)
          PROVE  PInv'
      <3>1. CASE Build(r, found.target)
        BY <1>2, <2>1, <3>1 DEF Build, GoTo, Phase, Active
      <3>2. CASE Refuse(r, 403) \/ Finish(r, 500)
        BY <2>1, <3>2, PublishedRefuse
      <3>3. CASE GoTo(r, "ldap") /\ UNCHANGED <<made, rows, status>>
        BY <1>2, <2>1, <3>3 DEF GoTo, Phase, Active
      <3> QED
        BY <2>4, <3>1, <3>2, <3>3 DEF Authorize
    <2> QED
      BY <1>6, <2>2, <2>3, <2>4 DEF CreateNext
  <1>7. CASE LdapSearch(r)
    <2>1. phase[r] = "ldap" /\ UNCHANGED <<table, bus, returned>>
      BY <1>7 DEF LdapSearch
    <2>2. CASE Build(r, check[r].target)
      BY <1>2, <2>1, <2>2 DEF Build, GoTo, Phase, Active
    <2>3. CASE Refuse(r, 403)
      BY <2>1, <2>3, PublishedRefuse
    <2>4. CASE UNCHANGED <<phase, made, rows, status>>
      <3>1. phase' = [phase EXCEPT ![r] = "ldap"]
        BY <1>1, <2>1, <2>4 DEF TypeOK
      <3> QED
        BY <1>2, <2>1, <2>4, <3>1 DEF Phase, Active
    <2> QED
      BY <1>7, <2>2, <2>3, <2>4 DEF LdapSearch
  <1>8. CASE LdapRaises(r)
    BY <1>8, PublishedRefuse DEF LdapRaises
  <1>9. CASE Flush(r)
    BY <1>2, <1>9 DEF Flush, GoTo, work, Phase, Active
  <1>10. CASE Insert(r)
    <2>1. /\ phase[r] = "insert" /\ UNCHANGED <<table, bus, returned, phase, status>>
          /\ \A q \in Request \ {r} : rows'[q] = rows[q]
      BY <1>1, <1>10 DEF Insert, TypeOK
    <2>2. phase' = [phase EXCEPT ![r] = "insert"]
      BY <1>1, <2>1 DEF TypeOK
    <2> QED
      BY <1>2, <2>1, <2>2 DEF Phase, Active
  <1>11. CASE DatabaseError(r)
    BY <1>11, PublishedRefuse DEF DatabaseError
  <1> QED
    BY <1>3, <1>4, <1>5, <1>6, <1>7, <1>8, <1>9, <1>10, <1>11

(* From the commit on.                                                     *)
LEMMA PublishedBehind ==
    ASSUME IInv, PInv, NEW r \in Request,
           Commit(r) \/ CommitUnanswered(r) \/ CommitRaises(r) \/ PublishRow(r)
           \/ PublishRaises(r) \/ EndPublish(r) \/ Respond(r) \/ RespondRaises(r) \/ Crash(r)
    PROVE  PInv'
  <1> USE DEF shared, work
  <1>1. TypeOK /\ StoredInStep /\ RowsInBatch
    BY DEF IInv
  <1>2. CASE Commit(r) \/ CommitUnanswered(r)
    <2>1. /\ phase[r] = "insert" /\ table' = table \cup Inserted(r)
          /\ UNCHANGED <<bus, returned, rows, status>>
      BY <1>2 DEF Commit, CommitUnanswered
    <2>2. PICK p \in {"publish", "respond", "broken"} :
            /\ phase' = [phase EXCEPT ![r] = p]
            /\ MESSAGE_BUS_PUBLISH => p # "respond"
      BY <1>2 DEF Commit, CommitUnanswered, GoTo
    <2>3. RowsOf(table, r) = {}
      BY <1>1, <2>1 DEF StoredInStep, ItemsOf
    <2>4. Inserted(r)' = Inserted(r)
      BY <2>1 DEF Inserted
    <2>5. RowsOf(table', r) \subseteq Inserted(r)'
      BY <2>1, <2>3, <2>4 DEF RowsOf
    <2>6. \A row \in table' \ table : row.request = r
      BY <1>1, <2>1 DEF RowsInBatch, Inserted
    <2> QED
      BY <2>1, <2>2, <2>5, <2>6, PublishedAdvance DEF Active
  <1>3. CASE CommitRaises(r) \/ RespondRaises(r)
    BY <1>3, PublishedRefuse DEF CommitRaises, RespondRaises
  <1>4. CASE PublishRow(r)
    <2>1. /\ phase[r] = "publish" /\ UNCHANGED <<table, rows, status, phase>>
          /\ bus \subseteq bus' /\ returned \subseteq returned'
      BY <1>4 DEF PublishRow
    <2>2. phase' = [phase EXCEPT ![r] = "publish"] /\ Inserted(r)' = Inserted(r)
      BY <1>1, <2>1 DEF TypeOK, Inserted
    <2>3. RowsOf(table', r) \subseteq Inserted(r)'
      BY <2>1, <2>2 DEF PInv, PublishedInStep
    <2>4. Active(r) /\ table' \ table = {} /\ table \subseteq table' /\ UNCHANGED <<rows, status>>
      BY <2>1 DEF Active
    <2> QED
      BY <2>1, <2>2, <2>3, <2>4, PublishedAdvance
  <1>5. CASE PublishRaises(r)
    BY <1>5, PublishedFinish DEF PublishRaises
  <1>6. CASE EndPublish(r)
    <2>1. /\ phase[r] = "publish" /\ UNCHANGED <<table, bus, returned, rows, status>>
          /\ phase' = [phase EXCEPT ![r] = "respond"]
          /\ Inserted(r) \subseteq bus \cup returned
      BY <1>6 DEF EndPublish, GoTo, Unsent
    <2>2. Inserted(r)' = Inserted(r) /\ RowsOf(table, r) \subseteq Inserted(r)
      BY <2>1 DEF Inserted, PInv, PublishedInStep
    <2> QED
      BY <2>1, <2>2, PublishedAdvance DEF Active
  <1>7. CASE Respond(r)
    BY <1>7, PublishedFinish DEF Respond
  <1>8. CASE Crash(r)
    BY <1>8, PublishedRefuse DEF Crash, Lost
  <1> QED
    BY <1>2, <1>3, <1>4, <1>5, <1>6, <1>7, <1>8

LEMMA NextPInv == IInv /\ PInv /\ [Next]_vars => PInv'
  <1> SUFFICES ASSUME IInv, PInv, [Next]_vars PROVE PInv'
    OBVIOUS
  <1>1. ASSUME NEW r \in Request, Receive(r) \/ Handle(r) \/ Crash(r) PROVE PInv'
    BY <1>1, PublishedBefore, PublishedBehind DEF Handle
  <1>2. ASSUME UNCHANGED <<table, bus, returned, phase, rows, status>> PROVE PInv'
    BY <1>2 DEF PInv, PublishedInStep, AcknowledgedIsPublished, Inserted
  <1>3. CASE \E u \in User : ChangeMembership(u)
    BY <1>2, <1>3 DEF ChangeMembership, work
  <1>4. CASE \E token \in Token : Expire(token)
    BY <1>2, <1>4 DEF Expire, work
  <1>5. CASE UNCHANGED vars
    BY <1>2, <1>5 DEF vars
  <1> QED
    BY <1>1, <1>3, <1>4, <1>5 DEF Next

(* Every waiver of a batch that got 201 was handed to the broker before,   *)
(* whatever happened to other requests (fedmsg.py:19-39,                   *)
(* api_v1.py:304-306).                                                     *)
THEOREM AcknowledgedWasPublished == Spec => []AcknowledgedIsPublished
  <1>1. PInv => AcknowledgedIsPublished
    BY DEF PInv
  <1> QED
    BY <1>1, InitPInv, NextPInv, Invariance, PTL DEF Spec

----------------------------------------------------------------------------
(* The service implements WaiverLog, step by step.                         *)

LEMMA InitLog == Init => Log!Init
  <1> SUFFICES ASSUME Init PROVE Log!Init
    OBVIOUS
  <1>1. Asked = [r \in Request |-> None]
    BY DEF Init, Asked
  <1>2. Answered = [r \in Request |-> None]
    BY DEF Init, Answered
  <1> QED
    BY <1>1, <1>2 DEF Init, Log!Init

(* The answers of the log say of a request what its status says.           *)
LEMMA AnswerIs ==
    ASSUME TypeOK, NEW r \in Request
    PROVE  /\ Answered[r] = "created" <=> status[r] = 201
           /\ Answered[r] = None <=> status[r] = None
           /\ Asked[r] = None <=> phase[r] = "new"
  <1>1. status[r] \in Status \cup {None, Lost} /\ Len(body[r]) \in Nat
    BY DEF TypeOK
  <1>2. Answered[r] = None <=> status[r] = None
    BY LogAssumption DEF Answered
  <1>3. Answered[r] = "created" <=> status[r] = 201
    BY LogAssumption, StatusAssumption DEF Answered, Status
  <1>4. Asked[r] = None <=> phase[r] = "new"
    BY <1>1, LogAssumption DEF Asked
  <1> QED
    BY <1>2, <1>3, <1>4

(* The receipt of a request is its beginning.                              *)
LEMMA BeginIs ==
    ASSUME IInv, NEW r \in Request, Receive(r)
    PROVE  Log!Begin(r)
  <1>1. TypeOK
    BY DEF IInv
  <1>2. /\ phase[r] = "new" /\ phase' = [phase EXCEPT ![r] = "received"]
        /\ \A q \in Request \ {r} : body'[q] = body[q]
        /\ body'[r] \in Seq(CreateWaiver)
        /\ before' = [before EXCEPT ![r] = Acknowledged]
        /\ UNCHANGED <<table, status>>
    BY <1>1, BodyAssumption DEF Receive, GoTo, shared, work, TypeOK
  <1>3. \A q \in Request : phase'[q] = IF q = r THEN "received" ELSE phase[q]
    BY <1>1, <1>2 DEF TypeOK
  <1>4. /\ Asked[r] = None /\ Asked'[r] = Len(body'[r])
        /\ \A q \in Request \ {r} : Asked'[q] = Asked[q]
        /\ Asked \in [Request -> {None} \cup Nat] /\ Asked' \in [Request -> {None} \cup Nat]
    <2>1. /\ Asked = [q \in Request |-> IF phase[q] = "new" THEN None ELSE Len(body[q])]
          /\ Asked' = [q \in Request |-> IF phase'[q] = "new" THEN None ELSE Len(body'[q])]
      BY DEF Asked
    <2>2. \A q \in Request : Len(body[q]) \in Nat /\ Len(body'[q]) \in Nat
      BY <1>1, <1>2 DEF TypeOK
    <2> QED
      BY <1>2, <1>3, <2>1, <2>2
  <1>5. Asked' = [Asked EXCEPT ![r] = Asked'[r]]
    BY <1>4
  <1>6. Asked'[r] \in Nat
    BY <1>2, <1>4
  <1>7. Answered' = Answered
    BY <1>2 DEF Answered
  <1>8. Log!Acknowledged = Acknowledged
    <2>1. \A w \in table : Answered[w.request] = "created" <=> status[w.request] = 201
      <3>1. \A w \in table : w.request \in Request
        BY <1>1 DEF TypeOK, Row
      <3> QED
        BY <1>1, <3>1, AnswerIs
    <2> QED
      BY <2>1 DEF Log!Acknowledged, Acknowledged
  <1> QED
    BY <1>2, <1>4, <1>5, <1>6, <1>7, <1>8 DEF Log!Begin

(* The end of a handler is the answer, if it is a true one.                *)
LEMMA AnswerStep ==
    ASSUME IInv, IInv', NEW r \in Request, Active(r), NEW code \in Status \cup {Lost},
           status' = [status EXCEPT ![r] = code], phase' = [phase EXCEPT ![r] = "done"],
           UNCHANGED <<table, body, before>>
    PROVE  \E a \in {"created", "refused", "unknown"} : Log!Answer(r, a)
  <1> DEFINE a == IF code = 201 THEN "created"
                  ELSE IF code \in {500, Lost} THEN "unknown" ELSE "refused"
  <1>1. TypeOK /\ StoredInStep /\ AnswerIsTrue'
    BY DEF IInv
  <1>2. status[r] = None /\ code # None /\ status'[r] = code
    BY <1>1, StatusAssumption DEF StoredInStep, Active, TypeOK
  <1>3. /\ \A q \in Request : status'[q] = IF q = r THEN code ELSE status[q]
        /\ \A q \in Request : phase'[q] = IF q = r THEN "done" ELSE phase[q]
    BY <1>1 DEF TypeOK
  <1>4. Asked' = Asked
    BY <1>3 DEF Asked, Active
  <1>5. Answered' = [Answered EXCEPT ![r] = a]
    <2> DEFINE Say(c) == IF c = None THEN None ELSE IF c = 201 THEN "created"
                         ELSE IF c \in {500, Lost} THEN "unknown" ELSE "refused"
    <2>1. /\ Answered = [q \in Request |-> Say(status[q])]
          /\ Answered' = [q \in Request |-> Say(status'[q])]
      BY DEF Answered
    <2>2. Say(code) = a
      BY <1>2
    <2> HIDE DEF Say, a
    <2> QED
      BY <1>3, <2>1, <2>2
  <1>6. Asked[r] = Len(body[r]) /\ Asked[r] # None /\ Answered[r] = None
    BY <1>1, <1>2, AnswerIs DEF Active, Asked
  <1>7. Log!ItemsOf(r) = ItemsOf(r) /\ ItemsOf(r)' = ItemsOf(r)
    BY DEF Log!ItemsOf, ItemsOf, RowsOf
  <1>8. a = "created" => ItemsOf(r) = 1..Len(body[r])
    <2>1. DOMAIN body[r] = 1..Len(body[r])
      BY <1>1 DEF TypeOK
    <2> QED
      BY <1>1, <1>2, <1>7, <2>1 DEF AnswerIsTrue
  <1>9. a = "refused" => ItemsOf(r) = {}
    BY <1>1, <1>2, <1>7 DEF AnswerIsTrue
  <1> HIDE DEF a
  <1>10. Log!Answer(r, a)
    BY <1>4, <1>5, <1>6, <1>7, <1>8, <1>9 DEF Log!Answer
  <1> QED
    BY <1>10 DEF a

(* The commit is the step that adds the batch.                             *)
LEMMA AppendStep ==
    ASSUME IInv, IInv', NEW r \in Request, NEW p \in {"publish", "respond", "broken"},
           phase[r] = "insert", Len(rows[r]) = Len(made[r]),
           table' = table \cup Inserted(r), phase' = [phase EXCEPT ![r] = p],
           UNCHANGED <<body, before, status, rows>>
    PROVE  Log!Append(r)
  <1>1. TypeOK /\ BatchInStep /\ StoredInStep /\ StoredInStep' /\ RowsInBatch /\ IdsInOrder
    BY DEF IInv
  <1>2. \A q \in Request : phase'[q] = IF q = r THEN p ELSE phase[q]
    BY <1>1 DEF TypeOK
  <1>3. ItemsOf(r) = {} /\ ItemsOf(r)' = DOMAIN body[r] /\ status[r] = None
    BY <1>1, <1>2 DEF StoredInStep
  <1>4. /\ Asked[r] = Len(body[r]) /\ Asked[r] # None /\ Answered[r] = None
        /\ DOMAIN body[r] = 1..Len(body[r])
    BY <1>1, <1>3, AnswerIs DEF Asked, TypeOK
  <1>5. Asked' = Asked /\ Answered' = Answered
    BY <1>2 DEF Asked, Answered
  <1>6. Log!ItemsOf(r) = ItemsOf(r)
    BY DEF Log!ItemsOf, ItemsOf, RowsOf
  <1>7. RowsOf(table, r) = {} /\ \A w \in Inserted(r) : w.request = r
    <2>1. ItemsOf(r) = {}
      BY <1>3
    <2>2. \A w \in Inserted(r) : w.request = r
      BY <1>1 DEF RowsInBatch, Inserted
    <2> QED
      BY <2>1, <2>2 DEF ItemsOf
  <1>8. table' \ table = Inserted(r) /\ RowsOf(table', r) = Inserted(r)
    BY <1>7 DEF RowsOf
  <1>9. {w.item : w \in table' \ table} = 1..Asked[r]
    BY <1>3, <1>4, <1>8 DEF ItemsOf
  <1>10. ASSUME NEW w \in Inserted(r)
         PROVE  /\ \A id \in before[r] : w.id > id
                /\ \A v \in table : w.id # v.id
                /\ \A v \in Inserted(r) : w.item > v.item => w.id > v.id
    <2>1. w \in Drawn /\ Inserted(r) \subseteq Drawn /\ table \subseteq Drawn /\ w \notin table
      BY <1>7 DEF Drawn, RowsOf
    <2> QED
      BY <1>1, <1>7, <2>1 DEF IdsInOrder
  <1> QED
    BY <1>3, <1>4, <1>5, <1>6, <1>7, <1>8, <1>9, <1>10 DEF Log!Append

(* Every other step is none of the log's.                                  *)
LEMMA QuietStep ==
    ASSUME TypeOK, UNCHANGED <<table, body, before, status>>,
           \A q \in Request : phase'[q] = "new" <=> phase[q] = "new"
    PROVE  UNCHANGED Log!vars
  <1>1. Asked' = Asked
    BY DEF Asked
  <1>2. Answered' = Answered
    BY DEF Answered
  <1> QED
    BY <1>1, <1>2 DEF Log!vars

(* A handler's step ends it, or stores its batch, or shows nowhere but in  *)
(* the handler.                                                            *)
Concludes(r) ==
    /\ Active(r) /\ UNCHANGED <<table, body, before>>
    /\ \E code \in Status \cup {Lost} : Finish(r, code)

Hides(r) ==
    /\ Active(r) /\ UNCHANGED <<table, body, before, status>>
    /\ phase' = phase \/ \E p \in Phase \ {"new"} : phase' = [phase EXCEPT ![r] = p]

LEMMA HandleKinds ==
    ASSUME IInv, NEW r \in Request, Handle(r)
    PROVE  Concludes(r) \/ Hides(r) \/ Commit(r) \/ CommitUnanswered(r)
  <1> USE DEF shared, request, work, GoTo, Phase
  <1>1. ASSUME NEW code \in Status, Refuse(r, code) \/ Finish(r, code), Active(r),
               UNCHANGED <<table, body, before>>
        PROVE  Concludes(r)
    BY <1>1 DEF Refuse, Concludes, Status
  <1>2. CASE Authenticate(r)
    <2>1. phase[r] = "received" /\ UNCHANGED <<table, body, before>>
      BY <1>2 DEF Authenticate
    <2>2. PICK answer \in acquire_token(credentials[r], accepted) :
            \/ GoTo(r, "create") /\ UNCHANGED work
            \/ /\ get_user(credentials[r], answer).status # 201
               /\ Refuse(r, get_user(credentials[r], answer).status)
      BY <1>2 DEF Authenticate
    <2>3. get_user(credentials[r], answer) \in Outcome
      <3>1. credentials[r] \in Credentials /\ accepted \in SUBSET Token
        BY <2>1 DEF IInv, BatchInStep, TypeOK
      <3> QED
        BY <2>2, <3>1, UserType
    <2>4. get_user(credentials[r], answer).status \in Status
      <3>1. \A outcome \in Outcome : outcome.status \in Status
        BY DEF Outcome, Authenticated, Unauthorized, Failed, Status
      <3> QED
        BY <2>3, <3>1
    <2>5. CASE GoTo(r, "create") /\ UNCHANGED work
      BY <2>1, <2>5 DEF Hides, Active
    <2>6. CASE Refuse(r, get_user(credentials[r], answer).status)
      BY <1>1, <2>1, <2>4, <2>6 DEF Active
    <2> QED
      BY <2>2, <2>5, <2>6
  <1>3. CASE Reject(r)
    BY <1>1, <1>3 DEF Reject, Active, Status
  <1>4. CASE CreateNext(r)
    <2>1. /\ phase[r] = "create" /\ Len(made[r]) < Len(body[r]) /\ Active(r)
          /\ UNCHANGED <<table, body, before>>
      BY <1>4 DEF CreateNext, Active
    <2>2. ASSUME Refuse(r, 403) \/ Finish(r, 500) PROVE Concludes(r)
      BY <1>1, <2>1, <2>2 DEF Status
    <2>3. ASSUME NEW found \in Resolutions(Submission(r)), Refuse(r, found.status)
          PROVE  Concludes(r)
      BY <1>1, <2>1, <2>3, SubmissionType, ResolutionType DEF Status
    <2>4. ASSUME NEW found \in Resolutions(Submission(r)), Authorize(r, found.target)
          PROVE  Concludes(r) \/ Hides(r)
      <3>1. \/ Refuse(r, 403) \/ Finish(r, 500)
            \/ Build(r, found.target)
            \/ GoTo(r, "ldap") /\ UNCHANGED <<made, rows, status>>
        BY <2>4 DEF Authorize
      <3>2. CASE Build(r, found.target)
        BY <2>1, <3>2 DEF Build, Hides
      <3>3. CASE GoTo(r, "ldap") /\ UNCHANGED <<made, rows, status>>
        BY <2>1, <3>3 DEF Hides
      <3> QED
        BY <2>2, <3>1, <3>2, <3>3
    <2> QED
      BY <1>4, <2>2, <2>3, <2>4 DEF CreateNext
  <1>5. CASE LdapSearch(r)
    <2>1. phase[r] = "ldap" /\ Active(r) /\ UNCHANGED <<table, body, before>>
      BY <1>5 DEF LdapSearch, Active
    <2>2. CASE Refuse(r, 403)
      BY <1>1, <2>1, <2>2 DEF Status
    <2>3. CASE Build(r, check[r].target)
      BY <2>1, <2>3 DEF Build, Hides
    <2>4. CASE UNCHANGED <<phase, made, rows, status>>
      BY <2>1, <2>4 DEF Hides
    <2> QED
      BY <1>5, <2>2, <2>3, <2>4 DEF LdapSearch
  <1>6. CASE LdapRaises(r)
    BY <1>1, <1>6 DEF LdapRaises, Active, Status
  <1>7. CASE Flush(r) \/ Insert(r)
    BY <1>7 DEF Flush, Insert, Hides, Active
  <1>8. CASE DatabaseError(r) \/ CommitRaises(r) \/ PublishRaises(r)
    BY <1>1, <1>8 DEF DatabaseError, CommitRaises, PublishRaises, Active, Status
  <1>9. CASE PublishRow(r) \/ EndPublish(r)
    BY <1>9 DEF PublishRow, EndPublish, Hides, Active
  <1>10. CASE Respond(r) \/ RespondRaises(r)
    BY <1>1, <1>10 DEF Respond, RespondRaises, Active, Status
  <1> QED
    BY <1>2, <1>3, <1>4, <1>5, <1>6, <1>7, <1>8, <1>9, <1>10 DEF Handle

LEMMA NextLog == IInv /\ IInv' /\ [Next]_vars => [Log!Next]_(Log!vars)
  <1> SUFFICES ASSUME IInv, IInv', [Next]_vars PROVE [Log!Next]_(Log!vars)
    OBVIOUS
  <1>1. TypeOK
    BY DEF IInv
  <1>2. ASSUME NEW r \in Request, Receive(r) PROVE Log!Next
    BY <1>2, BeginIs DEF Log!Next
  <1>3. ASSUME NEW r \in Request, Concludes(r) PROVE Log!Next
    BY <1>3, AnswerStep DEF Concludes, Finish, GoTo, Log!Next
  <1>4. ASSUME NEW r \in Request, Commit(r) \/ CommitUnanswered(r) PROVE Log!Next
    <2>1. /\ phase[r] = "insert" /\ Len(rows[r]) = Len(made[r])
          /\ table' = table \cup Inserted(r)
          /\ UNCHANGED <<body, before, status, rows>>
      BY <1>4 DEF Commit, CommitUnanswered, request, work
    <2>2. \E p \in {"publish", "respond", "broken"} : phase' = [phase EXCEPT ![r] = p]
      BY <1>4 DEF Commit, CommitUnanswered, GoTo
    <2>3. Log!Append(r)
      BY <2>1, <2>2, AppendStep
    <2> QED
      BY <2>3 DEF Log!Next
  <1>5. ASSUME NEW r \in Request, Hides(r) PROVE UNCHANGED Log!vars
    <2>1. \A q \in Request : phase'[q] = "new" <=> phase[q] = "new"
      BY <1>1, <1>5 DEF Hides, Active, TypeOK
    <2> QED
      BY <1>1, <1>5, <2>1, QuietStep DEF Hides
  <1>6. ASSUME NEW r \in Request, Crash(r) PROVE Concludes(r)
    BY <1>6 DEF Crash, Concludes, shared, request
  <1>7. ASSUME UNCHANGED <<table, body, before, status, phase>> PROVE UNCHANGED Log!vars
    BY <1>1, <1>7, QuietStep
  <1>8. CASE \E u \in User : ChangeMembership(u)
    BY <1>7, <1>8 DEF ChangeMembership, work
  <1>9. CASE \E token \in Token : Expire(token)
    BY <1>7, <1>9 DEF Expire, request, work
  <1>10. CASE UNCHANGED vars
    BY <1>7, <1>10 DEF vars
  <1> QED
    BY <1>2, <1>3, <1>4, <1>5, <1>6, <1>8, <1>9, <1>10, HandleKinds DEF Next

(* Whatever requests, failures and crashes interleave, the service is an   *)
(* append-only log to which each submission adds its whole batch at once   *)
(* or nothing, answered truly (api_v1.py:285-367, events.py:19-37).        *)
THEOREM ServiceImplementsLog == Spec => ImplementsLog
  BY InitLog, NextLog, Invariance, PTL DEF Spec, ImplementsLog, Log!Spec

==============================================================================
