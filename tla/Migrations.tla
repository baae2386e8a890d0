----------------------------- MODULE Migrations -----------------------------
(***************************************************************************)
(* The migrations of table "waiver" (waiverdb/migrations), as the command  *)
(* "waiverdb db upgrade" or "downgrade" runs them on a table that is in    *)
(* use.  Revisions are numbered in the order of their chain:               *)
(*   1 0a27a8ad723a  2 0a74cdab732a  3 f2772c2c64a6  4 71b84ccc31bb        *)
(*   5 ed43eb9b221c  6 1797bff52162  7 ce8a1351ecdc  8 f6bc296ba966        *)
(*   9 3868a8118458; 0 is a database without the table.                    *)
(*                                                                         *)
(* Each migration is a transaction, so a command that fails or is killed   *)
(* leaves those it has done.  Between them, and during them, a release of  *)
(* any age may be in service and insert rows.                              *)
(***************************************************************************)
EXTENDS Waivers, FiniteSets

CONSTANTS
    Subjects,  \* the subjects that releases before revision 8 were sent
    Pairs,     \* the types and identifiers that later ones store
    MaxRows    \* bound: rows in the table

Head == 9

(* No release stores the alias of a type (api_v1.py:353-355).              *)
ASSUME InputsAssumption ==
    /\ Subjects \subseteq TestSubject
    /\ Pairs \subseteq (Text \ {"brew-build"}) \X Text
    /\ "rpmlint" \in Text

ASSUME NoneIsNoValue == None \notin 0..Head /\ None \notin TestSubject

(* A column that the table does not have yet is None in every row.         *)
ColumnNames == {"result_id", "proxied_by", "subject", "testcase", "subject_type",
                "subject_identifier", "scenario"}

Unset == [column \in ColumnNames |-> None]

(* Beside its columns a row carries those it was inserted with: bookkeeping *)
(* for the properties.                                                     *)
Inserted(id, columns) == [id |-> id, now |-> columns, said |-> columns]

VARIABLES
    revision, \* the revision in alembic_version
    table,    \* the rows of table "waiver"
    goal,     \* the revision a running command goes to, None when none runs
    failed    \* the revision the last upgrade that failed did not reach

vars == <<revision, table, goal, failed>>

Has(column, n) ==
    CASE column = "result_id" -> n >= 1
      [] column = "proxied_by" -> n >= 2
      [] column \in {"subject", "testcase"} -> n >= 3
      [] column \in {"subject_type", "subject_identifier"} -> n >= 8
      [] column = "scenario" -> n >= 9

NotNull(n) ==
    {column \in ColumnNames :
        \/ column = "result_id" /\ n \in 1..4
        \/ column = "testcase" /\ n >= 5
        \/ column = "subject" /\ n \in 5..7
        \/ column \in {"subject_type", "subject_identifier"} /\ n >= 8}

Fits(columns, n) ==
    \A column \in ColumnNames :
        /\ columns[column] # None => Has(column, n)
        /\ column \in NotNull(n) => columns[column] # None

----------------------------------------------------------------------------
(* The service.                                                            *)

(* What a release made for a revision inserts: a result id; a subject and  *)
(* a test case; a type and an identifier.                                  *)
Submissions(release) ==
    IF release <= 2 THEN {[Unset EXCEPT !.result_id = id] : id \in DOMAIN ResultsDB}
    ELSE IF release <= 7 THEN
        {[Unset EXCEPT !.subject = subject, !.testcase = "rpmlint"] : subject \in Subjects}
    ELSE {[Unset EXCEPT !.subject_type = pair[1], !.subject_identifier = pair[2],
                        !.testcase = "rpmlint"] : pair \in Pairs}

(* A release works on its revision and on later ones that still take its   *)
(* rows; the revisions 3 and 4 are steps on the way to 5.                  *)
Submit ==
    /\ Cardinality(table) < MaxRows
    /\ \E release \in 1..revision \ {3, 4} :
         \E columns \in Submissions(release) :
           /\ Fits(columns, revision)
           /\ table' = table \cup {Inserted(Cardinality(table) + 1, columns)}
    /\ UNCHANGED <<revision, goal, failed>>

----------------------------------------------------------------------------
(* The conversions.                                                        *)

(* The subject of a result id in revision 4; None where the code raises.   *)
NoSubject == [type |-> None, item |-> None, original_spec_nvr |-> None,
              productmd_compose_id |-> None]

convert_id_to_subject_ItemFirst(result) ==
    IF result.type \in {"koji_build", "bodhi_update"}
      THEN [NoSubject EXCEPT !.type = result.type, !.item = result.item]
    ELSE IF result.original_spec_nvr # None
      THEN [NoSubject EXCEPT !.original_spec_nvr = result.original_spec_nvr]
    ELSE None

convert_id_to_subject(result) ==
    IF result.original_spec_nvr # None
      THEN [NoSubject EXCEPT !.original_spec_nvr = result.original_spec_nvr]
    ELSE IF result.type \in {"koji_build", "bodhi_update"}
      THEN [NoSubject EXCEPT !.type = result.type, !.item = result.item]
    ELSE None

Convertible(columns) ==
    /\ ResultsDB[columns.result_id] # None
    /\ convert_id_to_subject(ResultsDB[columns.result_id]) # None

FillSubject(columns) ==
    LET result == ResultsDB[columns.result_id]
    IN [columns EXCEPT !.subject = convert_id_to_subject(result), !.testcase = result.testcase]

(* The type and identifier in revision 8, those of an invalid subject      *)
(* included.                                                               *)
FillPair(columns) ==
    LET pair == subject_dict_to_type_identifier(columns.subject)
    IN [columns EXCEPT !.subject_type = IF pair = None THEN "koji_build" ELSE pair[1],
                       !.subject_identifier = IF pair = None THEN Empty ELSE pair[2]]

(* Back from revision 8: subjects are filled in where there is none.       *)
Lacking_Any(columns) == TRUE

Lacking(columns) == columns.subject = None

RestoreSubject(columns) ==
    LET subject == subject_type_identifier_to_dict(columns.subject_type,
                                                   columns.subject_identifier)
    IN [columns EXCEPT !.subject = IF Lacking(columns) THEN subject ELSE @,
                       !.subject_type = None, !.subject_identifier = None]

----------------------------------------------------------------------------
(* The commands.                                                           *)

(* A new database; or one whose rows an earlier release upgraded, when     *)
(* the conversion of revision 8 still was of dicts.                        *)
Init ==
    /\ goal = None /\ failed = None
    /\ \/ revision = 0 /\ table = {}
       \/ /\ revision = 8
          /\ \E columns \in Submissions(7) :
               /\ Fits(FillPair(columns), 8)
               /\ table = {[id |-> 1, now |-> FillPair(columns), said |-> columns]}

Begin ==
    /\ goal = None
    /\ goal' \in 0..Head \ {revision}
    /\ UNCHANGED <<revision, table, failed>>

Converted(Convert(_)) == {[row EXCEPT !.now = Convert(row.now)] : row \in table}

(* One migration of the chain, on the rows it leaves.                      *)
Migrated(to, rows) ==
    /\ table' = rows
    /\ revision' = to
    /\ goal' = IF goal = to THEN None ELSE goal
    /\ UNCHANGED failed

MigrationFails(reached) ==
    /\ goal' = None
    /\ failed' = reached
    /\ UNCHANGED <<revision, table>>

Upgrading(n) == goal # None /\ revision = n - 1 /\ goal >= n
Downgrading(n) == goal # None /\ revision = n /\ goal < n

(* Columns are added without a value, and nothing is converted: the        *)
(* revisions 1, 2, 3, 6 and 9.                                             *)
UpgradeSchema == \E n \in {1, 2, 3, 6, Head} : Upgrading(n) /\ Migrated(n, table)

upgrade_71b84ccc31bb ==
    /\ Upgrading(4)
    /\ \/ /\ \A row \in table : Convertible(row.now)
          /\ Migrated(4, Converted(FillSubject))
       \* or ResultsDB cannot be reached
       \/ table # {} /\ MigrationFails(4)

upgrade_ed43eb9b221c_Unchecked == Upgrading(5) /\ Migrated(5, table)

upgrade_ed43eb9b221c ==
    /\ Upgrading(5)
    /\ IF \A row \in table : row.now.subject # None /\ row.now.testcase # None
         THEN Migrated(5, table)
         ELSE MigrationFails(5)

(* The rows of SQLAlchemy 2 are not indexed by names: TypeError at the     *)
(* first row.                                                              *)
upgrade_ce8a1351ecdc ==
    /\ Upgrading(7)
    /\ IF table = {} THEN Migrated(7, table) ELSE MigrationFails(7)

(* A dict has no attribute "type": AttributeError at the first row, which  *)
(* is not the ValueError the code maps to a subject that is valid.         *)
upgrade_f6bc296ba966 ==
    /\ Upgrading(8)
    /\ IF table = {} THEN Migrated(8, table) ELSE MigrationFails(8)

(* Dropping the table, or columns.                                         *)
Dropping(names) ==
    {[row EXCEPT !.now = [column \in ColumnNames |->
                            IF column \in names THEN None ELSE row.now[column]]] : row \in table}

DowngradeSchema ==
    \/ Downgrading(1) /\ Migrated(0, {})
    \/ Downgrading(2) /\ Migrated(1, Dropping({"proxied_by"}))
    \/ Downgrading(3) /\ Migrated(2, Dropping({"subject", "testcase"}))
    \/ \E n \in {6, 7} : Downgrading(n) /\ Migrated(n - 1, table)
    \/ Downgrading(9) /\ Migrated(8, Dropping({"scenario"}))

downgrade_71b84ccc31bb == Downgrading(4) /\ MigrationFails(failed)

(* result_id becomes NOT NULL again.                                       *)
downgrade_ed43eb9b221c ==
    /\ Downgrading(5)
    /\ IF \A row \in table : row.now.result_id # None
         THEN Migrated(4, table)
         ELSE MigrationFails(failed)

(* Without a type there is no subject: ValueError.                         *)
downgrade_f6bc296ba966 ==
    /\ Downgrading(8)
    /\ IF \A row \in table : Lacking(row.now) => Truthy(row.now.subject_type)
         THEN Migrated(7, Converted(RestoreSubject))
         ELSE MigrationFails(failed)

(* The command is killed, or loses the database.                           *)
Kill == goal # None /\ MigrationFails(failed)

Next ==
    \/ Submit \/ Begin \/ Kill
    \/ UpgradeSchema \/ upgrade_71b84ccc31bb \/ upgrade_ed43eb9b221c
    \/ upgrade_ce8a1351ecdc \/ upgrade_f6bc296ba966
    \/ DowngradeSchema \/ downgrade_71b84ccc31bb \/ downgrade_ed43eb9b221c
    \/ downgrade_f6bc296ba966

Spec == Init /\ [][Next]_vars

----------------------------------------------------------------------------

(* Every variable holds a value of its kind, and the rows always have the  *)
(* columns of the table's revision and a value where one is required.      *)
TypeOK ==
    /\ revision \in 0..Head
    /\ goal \in 0..Head \cup {None} /\ failed \in 0..Head \cup {None}
    /\ goal # revision
    /\ \A row \in table : Fits(row.now, revision)

(* The subject that the service of today reads from a row.                 *)
Meaning(columns) ==
    IF columns.subject_identifier # None
      THEN <<columns.subject_type, columns.subject_identifier>>
    ELSE IF columns.subject # None
      THEN subject_dict_to_type_identifier(columns.subject)
    ELSE IF ResultsDB[columns.result_id] = None THEN None
    ELSE LET target == ResolveResult(ResultsDB[columns.result_id]).target
         IN IF target = None THEN None
            ELSE <<target.subject_type, target.subject_identifier>>

(* Through upgrades and downgrades, half-done ones and submissions among   *)
(* them included, a waiver stays a waiver for what it was submitted for:   *)
(* the migrations translate result ids and subjects as the API does        *)
(* (71b84ccc31bb:26-62 and f6bc296ba966:66-93 against api_v1.py:317-349).  *)
(* An empty identifier is the exception: its subject is not recognized.    *)
NamesTheSame ==
    \A row \in table :
        LET meaning == Meaning(row.said)
        IN meaning # None /\ Truthy(meaning[2]) => Meaning(row.now) = meaning

(* "Note that the original, invalid 'subject' value is still preserved in  *)
(* the row in case of downgrade": whatever is run, a subject is the one    *)
(* that was submitted (f6bc296ba966:45-47, 74-83).                         *)
SubjectIsPreserved ==
    \A row \in table : row.said.subject # None => row.now.subject = row.said.subject

----------------------------------------------------------------------------
(* What the repository says and the code does not keep to.                 *)

(* "The 'subject' value might be invalid ... Let's map it to something     *)
(* which is valid" (f6bc296ba966:42-44).                                   *)
SubjectsAreMapped == failed # 8

============================================================================
