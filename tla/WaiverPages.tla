---------------------------- MODULE WaiverPages ----------------------------
(***************************************************************************)
(* A client that reads GET /waivers/ page by page, following "next", while *)
(* others submit waivers (waiverdb/api_v1.py, waiverdb/utils.py).          *)
(*                                                                         *)
(* Each page is two queries, the rows and their number, each on a snapshot *)
(* of its own; no two pages share one either.  Rows are sorted by          *)
(* timestamp alone, newest first: those of one timestamp come in any order *)
(* at each query.  Ids and timestamps are taken before the commit, by      *)
(* processes that know nothing of each other, so a transaction may bring   *)
(* any id and any timestamp that its predecessors left (WaiverService).    *)
(***************************************************************************)
EXTENDS WaiverQueries, FiniteSets, SequencesExt

CONSTANTS
    NewWaivers,  \* the waivers that are submitted
    Queries,     \* the criteria a client may scan with: filter, include_obsolete
    Results,     \* the results a client may ask by subject and testcase
    Limit,       \* rows on a page
    MaxRows      \* bound: rows in the table

ASSUME LimitAssumption == Limit \in Nat \ {0}
ASSUME MaxRowsAssumption == MaxRows \in Nat \ {0}
ASSUME QueriesAssumption ==
    /\ Queries \subseteq [filter : Filter, include_obsolete : BOOLEAN]
    /\ None \notin Queries /\ None \notin Nat
ASSUME ResultsAssumption == Results \subseteq TestResult

VARIABLES
    table,  \* the committed rows
    query,  \* the criteria of the scan, None before it begins
    next,   \* the page to get, None when the client has seen the last
    seen,   \* the rows the client was given
    phase,  \* "items" or "count": the query the server runs next
    kept    \* the rows in the listing at every moment of the scan so far

vars == <<table, query, next, seen, phase, kept>>

Entry == [id : 1..MaxRows, timestamp : 1..MaxRows, waiver : NewWaivers]

Listing(rows, q) == GetWaivers(rows, q.filter, q.include_obsolete)

Init ==
    /\ table = {} /\ query = None /\ next = None
    /\ seen = {} /\ phase = "items" /\ kept = {}

(* Another client's transaction.                                           *)
Commit ==
    /\ \E row \in Entry :
         /\ \A other \in table : other.id # row.id
         /\ table' = table \cup {row}
    /\ kept' = IF next = None THEN kept ELSE kept \cap Listing(table', query)
    /\ UNCHANGED <<query, next, seen, phase>>

Start ==
    /\ query = None
    /\ query' \in Queries
    /\ next' = 1
    /\ kept' = Listing(table, query')
    /\ UNCHANGED <<table, seen, phase>>

(* The orders the database may return a listing in.                        *)
OldestFirst(rows) ==
    {order \in SetToSeqs(rows) :
        \A i, j \in DOMAIN order : i < j => order[i].timestamp <= order[j].timestamp}

NewestFirst(rows) ==
    {order \in SetToSeqs(rows) :
        \A i, j \in DOMAIN order : i < j => order[i].timestamp >= order[j].timestamp}

(* The rows of a page.  None on a page but the first is a 404, which       *)
(* json_collection makes a page without links.  A page with a row that     *)
(* cannot be rendered is a 500, behind both queries: it gives the client   *)
(* nothing, who may ask for it again.                                      *)
Items ==
    /\ query # None /\ next # None /\ phase = "items"
    /\ \E order \in NewestFirst(Listing(table, query)) :
         LET page == DOMAIN order \cap ((next - 1) * Limit + 1)..(next * Limit) IN
         /\ \A i \in page : Renderable(order[i])
         /\ seen' = seen \cup {order[i] : i \in page}
         /\ IF page = {} /\ next # 1
              THEN next' = None /\ UNCHANGED phase
              ELSE phase' = "count" /\ UNCHANGED next
    /\ UNCHANGED <<table, query, kept>>

(* The number of rows, and with it whether there is a next page.           *)
Count_OneTooMany ==
    /\ phase = "count"
    /\ next' = IF next * Limit <= Cardinality(Listing(table, query)) THEN next + 1 ELSE None
    /\ phase' = "items"
    /\ UNCHANGED <<table, query, seen, kept>>

Count ==
    /\ phase = "count"
    /\ next' = IF next * Limit < Cardinality(Listing(table, query)) THEN next + 1 ELSE None
    /\ phase' = "items"
    /\ UNCHANGED <<table, query, seen, kept>>

Next == Commit \/ Start \/ Items \/ Count

Spec == Init /\ [][Next]_vars

----------------------------------------------------------------------------

(* Every variable holds a value of its kind, and the client is never sent  *)
(* to a page that the table has no rows for.                               *)
TypeOK ==
    /\ table \subseteq Entry /\ seen \subseteq table /\ kept \subseteq table
    /\ query \in Queries \cup {None}
    /\ next \in 1..MaxRows \cup {None}
    /\ phase \in {"items", "count"}

(* In each group, newer rows have newer timestamps.                        *)
InOrder ==
    \A row, newer \in table :
        (GroupKey(row.waiver) = GroupKey(newer.waiver) /\ row.id < newer.id)
            => row.timestamp <= newer.timestamp

OwnTimestamp(row) == \A other \in table : other.timestamp = row.timestamp => other = row

(* A row that meets the criteria of q is replaced by one that does.        *)
Lasting(q) == q.filter.proxied_by = None /\ q.filter.since[2] = None

(* A scan to the last page gives the client every waiver that was in the   *)
(* listing all the time, although submissions move rows to later pages and *)
(* make others obsolete meanwhile: a submission that takes a row out of    *)
(* the listing puts a newer one in.  Not so with criteria the newer one    *)
(* may fail, proxied_by and the end of "since", with ids out of order, or  *)
(* for rows of one timestamp (api_v1.py:197-223, utils.py:22-42).          *)
ScanIsComplete ==
    query # None /\ next = None /\ Lasting(query) /\ InOrder
        => \A row \in kept : OwnTimestamp(row) => row \in seen

(* POST /waivers/+filtered answers what GET answers to each of its filters *)
(* when obsolete waivers are included; when they are not, +filtered, which *)
(* forgets who waived and for which product version, hides at least what   *)
(* GET hides (api_v1.py:197-223, 511-546).  Not so for a filter without    *)
(* criteria, unless alone.  About the table alone: every one there can be  *)
(* is reached before the scan begins.                                      *)
EndpointsAgree ==
    query = None => \A filters \in (SUBSET {q.filter : q \in Queries}) \ {{}} :
        (\A filter \in filters : HasCriteria(filter) \/ filters = {filter}) =>
            /\ FilteredWaivers(table, filters, TRUE) =
                  UNION {GetWaivers(table, filter, TRUE) : filter \in filters}
            /\ FilteredWaivers(table, filters, FALSE) \subseteq
                  UNION {GetWaivers(table, filter, FALSE) : filter \in filters}

AsFilter(result) ==
    LET pair == subject_dict_to_type_identifier(result.subject)
    IN [NoFilter EXCEPT !.subject_type = pair[1], !.subject_identifier = pair[2],
                        !.testcase = result.testcase]

Recognized(results) ==
    {result \in results : subject_dict_to_type_identifier(result.subject) # None}

Typed(result) == Truthy(subject_dict_to_type_identifier(result.subject)[1])

(* Asking by subject and testcase is asking for each pair by its type and  *)
(* identifier; a subject that cannot be recognized adds nothing            *)
(* (waivers.py:85-118, api_v1.py:598-617); about the table alone, too.     *)
(* Not so for a subject of an empty type: as a filter, that is no filter.  *)
SubjectsAreFilters ==
    query = None => \A results \in SUBSET Results, obsolete \in BOOLEAN :
        results # {} /\ (\A result \in Recognized(results) : Typed(result)) =>
            BySubjectsAndTestcases(table, results, NoFilter, obsolete) =
                UNION {GetWaivers(table, AsFilter(result), obsolete) :
                         result \in Recognized(results)}

============================================================================
