--------------------------- MODULE WaiverQueries ---------------------------
(***************************************************************************)
(* What the read endpoints select from one snapshot of table "waiver"      *)
(* (waiverdb/api_v1.py): GET /waivers/, POST /waivers/+filtered and the    *)
(* deprecated POST /waivers/+by-subjects-and-testcases.  Their order and   *)
(* paging are in WaiverPages.                                              *)
(***************************************************************************)
EXTENDS Waivers

Columns == {"subject_type", "subject_identifier", "testcase", "scenario",
            "product_version", "username", "proxied_by"}

(* A criterion that is missing or empty is not applied.                    *)
Filter == [subject_type : OptText, subject_identifier : OptText,
           testcase : OptText, scenario : OptText, product_version : OptText,
           username : User \cup {None}, proxied_by : User \cup {None},
           since : (Nat \cup {None}) \X (Nat \cup {None})]

NoFilter == [column \in Columns \cup {"since"} |->
               IF column = "since" THEN <<None, None>> ELSE None]

(* Both bounds of "since" belong to the period.                            *)
Since(since, row) ==
    /\ since[1] # None => row.timestamp >= since[1]
    /\ since[2] # None => row.timestamp <= since[2]

Matches(filter, row) ==
    /\ \A column \in Columns : Truthy(filter[column]) => row.waiver[column] = filter[column]
    /\ Since(filter.since, row)

(* A waiver is hidden by a newer one whether or not that one matches.      *)
GetWaivers(rows, filter, include_obsolete) ==
    {row \in rows \ (IF include_obsolete THEN {} ELSE Obsolete(rows)) : Matches(filter, row)}

(* SQLAlchemy drops an empty and_() from an or_(), and an or_() without    *)
(* operands is no condition: a filter without criteria selects nothing     *)
(* beside another, and everything when no filter has criteria.             *)
HasCriteria(filter) ==
    \/ \E column \in Columns : Truthy(filter[column])
    \/ filter.since # <<None, None>>

FilteredWaivers_NoProxiedBy(rows, filters, include_obsolete) ==
    LET clauses == {[filter EXCEPT !.proxied_by = None] : filter \in {f \in filters : HasCriteria(f)}}
    IN {row \in rows \ (IF include_obsolete THEN {} ELSE ObsoleteFiltered(rows)) :
          clauses # {} => \E filter \in clauses : Matches(filter, row)}

FilteredWaivers(rows, filters, include_obsolete) ==
    LET clauses == {filter \in filters : HasCriteria(filter)}
    IN {row \in rows \ (IF include_obsolete THEN {} ELSE ObsoleteFiltered(rows)) :
          clauses # {} => \E filter \in clauses : Matches(filter, row)}

(* A result selects nothing when its subject cannot be recognized.         *)
TestResult == [subject : TestSubject, testcase : Text]

MatchesResult(result, row) ==
    LET pair == subject_dict_to_type_identifier(result.subject)
    IN /\ pair # None
       /\ row.waiver.subject_type = pair[1]
       /\ row.waiver.subject_identifier = pair[2]
       /\ Truthy(result.testcase) => row.waiver.testcase = result.testcase

by_results(rows, results) ==
    {row \in rows : results # {} => \E result \in results : MatchesResult(result, row)}

(* "filter" holds the remaining keys of the body; its "testcase" is        *)
(* accepted and not looked at.                                             *)
BySubjectsAndTestcases_AnyTestcase(rows, results, filter, include_obsolete) ==
    {row \in rows \ (IF include_obsolete THEN {} ELSE Obsolete(rows)) :
        /\ \E result \in results : MatchesResult([result EXCEPT !.testcase = Empty], row)
        /\ Matches([filter EXCEPT !.testcase = None], row)}

BySubjectsAndTestcases(rows, results, filter, include_obsolete) ==
    {row \in by_results(rows \ (IF include_obsolete THEN {} ELSE Obsolete(rows)), results) :
        Matches([filter EXCEPT !.testcase = None], row)}

============================================================================
