------------------------------ MODULE Waivers ------------------------------
(***************************************************************************)
(* The data of WaiverDB: what a submission asks for, what a row of table   *)
(* "waiver" holds, how one is made from the other, and which rows the      *)
(* read endpoints consider obsolete (waiverdb/models/waivers.py,           *)
(* waiverdb/models/requests.py and the queries of waiverdb/api_v1.py).     *)
(*                                                                         *)
(* Strings stand for themselves; None is Python's None and SQL's NULL.     *)
(* The attributes "waived" and "comment" are carried by the program and    *)
(* never looked at, so they are left out.                                  *)
(***************************************************************************)
EXTENDS Integers

CONSTANTS
    None,       \* no value
    Text,       \* the strings that occur in submissions and in ResultsDB
    User,       \* the user names
    Request,    \* the submissions, one element for each POST that is sent
    ResultsDB   \* result id -> what ResultsDB answers, None for 404

Empty == ""

OptText == Text \cup {None}

(* The part of a ResultsDB result that is read; an absent key is None.     *)
Result == [testcase : Text, type : OptText, item : OptText,
           original_spec_nvr : OptText, scenario : OptText]

ASSUME TextAssumption == {Empty, "koji_build", "brew-build", "compose"} \subseteq Text
ASSUME NoneAssumption == None \notin Text /\ None \notin User
ASSUME PairAssumption == None \notin OptText \X OptText
ASSUME ResultsDBAssumption ==
    /\ None \notin DOMAIN ResultsDB
    /\ \A id \in DOMAIN ResultsDB : ResultsDB[id] \in Result \cup {None}

(* Python's truth value of an optional string.                             *)
Truthy(text) == text # None /\ text # Empty

(* HTTP status codes the service answers with.                             *)
Status == {201, 400, 401, 403, 500, 502, 503}

----------------------------------------------------------------------------
(* Subjects: the deprecated dict, and the pair of type and identifier that *)
(* replaced it.                                                            *)

TestSubject == [type : OptText, item : OptText,
                original_spec_nvr : OptText, productmd_compose_id : OptText]

KojiTypes == {"koji_build", "brew-build"}

(* None where the code raises ValueError.  The general case takes the type *)
(* as it is, the missing one included.                                     *)
subject_dict_to_type_identifier(subject) ==
    IF subject.type \in KojiTypes /\ Truthy(subject.item)
      THEN <<"koji_build", subject.item>>
    ELSE IF Truthy(subject.original_spec_nvr)
      THEN <<"koji_build", subject.original_spec_nvr>>
    ELSE IF Truthy(subject.productmd_compose_id)
      THEN <<"compose", subject.productmd_compose_id>>
    ELSE IF Truthy(subject.item)
      THEN <<subject.type, subject.item>>
    ELSE None

(* The field "subject" of a response; None where the code raises.          *)
subject_type_identifier_to_dict(type, identifier) ==
    IF type = "compose"
      THEN [type |-> None, item |-> None, original_spec_nvr |-> None,
            productmd_compose_id |-> identifier]
    ELSE IF Truthy(type)
      THEN [type |-> type, item |-> identifier, original_spec_nvr |-> None,
            productmd_compose_id |-> None]
    ELSE None

----------------------------------------------------------------------------
(* Submissions.                                                            *)

CreateWaiver == [subject_type : OptText, subject_identifier : OptText,
                 testcase : OptText, scenario : OptText,
                 subject : TestSubject \cup {None},
                 result_id : DOMAIN ResultsDB \cup {None},
                 product_version : Text, username : User \cup {None}]

(* The three model validators and the minimal length of product_version.   *)
ValidCreateWaiver(args) ==
    /\ args.product_version # Empty
    /\ args.result_id = None => args.testcase # None
    /\ args.result_id # None =>
         \A x \in {args.subject_identifier, args.subject_type, args.subject,
                   args.testcase, args.scenario} : x = None
    /\ args.subject # None => args.subject_type = None /\ args.subject_identifier = None
    /\ \/ args.result_id # None
       \/ args.subject # None
       \/ args.subject_type # None /\ args.subject_identifier # None

(* What a submission waives once result_id and subject are resolved.       *)
Target == [subject_type : OptText, subject_identifier : OptText,
           testcase : OptText, scenario : OptText]

Resolved(type, identifier, testcase, scenario) ==
    [status |-> 201,
     target |-> [subject_type |-> type, subject_identifier |-> identifier,
                 testcase |-> testcase, scenario |-> scenario]]

Unresolved(code) == [status |-> code, target |-> None]

(* The lookup of a result id.  A result with a type and no item is a       *)
(* KeyError, which nothing catches.                                        *)
ResolveResult(result) ==
    LET subject == IF result.original_spec_nvr # None
                     THEN <<"koji_build", result.original_spec_nvr>>
                   ELSE IF result.type \in KojiTypes
                     THEN <<"koji_build", result.item>>
                   ELSE <<result.type, result.item>>
    IN IF result.original_spec_nvr = None /\ result.type = None THEN Unresolved(400)
       ELSE IF subject[2] = None THEN Unresolved(500)
       ELSE Resolved(subject[1], subject[2], result.testcase, result.scenario)

(* Every way the first half of _create_waiver can end: ResultsDB can fail  *)
(* whatever it holds.                                                      *)
Resolutions(args) ==
    IF args.result_id # None THEN
        {Unresolved(503),
         IF ResultsDB[args.result_id] = None
           THEN Unresolved(400)
           ELSE ResolveResult(ResultsDB[args.result_id])}
    ELSE IF args.subject # None THEN
        LET pair == subject_dict_to_type_identifier(args.subject)
        IN {IF pair = None THEN Unresolved(500)
            ELSE Resolved(pair[1], pair[2], args.testcase, args.scenario)}
    ELSE {Resolved(args.subject_type, args.subject_identifier, args.testcase, args.scenario)}

----------------------------------------------------------------------------
(* Waivers, as objects and as rows of the table.  Rows carry, beside their *)
(* columns, the request and the position in its batch they come from:      *)
(* bookkeeping that no part of the program reads.                          *)

Waiver == [subject_type : OptText, subject_identifier : OptText,
           testcase : OptText, username : User, product_version : Text,
           proxied_by : User \cup {None}, scenario : OptText]

NewWaiver_NoAlias(target, user, product_version, proxied_by) ==
    [subject_type |-> target.subject_type,
     subject_identifier |-> target.subject_identifier,
     testcase |-> target.testcase, username |-> user,
     product_version |-> product_version, proxied_by |-> proxied_by,
     scenario |-> target.scenario]

(* brew-build is an alias for koji_build.                                  *)
NewWaiver(target, user, product_version, proxied_by) ==
    [subject_type |-> IF target.subject_type = "brew-build"
                        THEN "koji_build" ELSE target.subject_type,
     subject_identifier |-> target.subject_identifier,
     testcase |-> target.testcase, username |-> user,
     product_version |-> product_version, proxied_by |-> proxied_by,
     scenario |-> target.scenario]

(* The NOT NULL columns a submission can leave empty.                      *)
Storable(waiver) ==
    None \notin {waiver.subject_type, waiver.subject_identifier, waiver.testcase}

Row == [id : Nat, timestamp : Nat, request : Request, item : Nat, waiver : Waiver]

(* Marshalling a row by waiver_fields succeeds.                            *)
Renderable(row) ==
    subject_type_identifier_to_dict(row.waiver.subject_type,
                                    row.waiver.subject_identifier) # None

RowsOf(rows, r) == {row \in rows : row.request = r}

----------------------------------------------------------------------------
(* The read endpoints, on one snapshot of the table.                       *)

(* The columns GET /waivers/ and +by-subjects-and-testcases group by.      *)
GroupKey(waiver) ==
    <<waiver.subject_type, waiver.subject_identifier, waiver.testcase,
      waiver.scenario, waiver.username, waiver.product_version>>

(* The columns POST /waivers/+filtered groups by.                          *)
FilteredKey(waiver) ==
    <<waiver.subject_type, waiver.subject_identifier, waiver.testcase, waiver.scenario>>

(* Not the row of largest id in its group.                                 *)
Obsolete(rows) ==
    {row \in rows : \E newer \in rows : /\ GroupKey(newer.waiver) = GroupKey(row.waiver)
                                        /\ newer.id > row.id}

ObsoleteFiltered(rows) ==
    {row \in rows : \E newer \in rows : /\ FilteredKey(newer.waiver) = FilteredKey(row.waiver)
                                        /\ newer.id > row.id}

============================================================================
