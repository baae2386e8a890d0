-------------------------- MODULE MigrationsProofs --------------------------
(***************************************************************************)
(* The migrations, for all contents of ResultsDB, all submissions and any  *)
(* number of rows: whatever upgrades and downgrades are run, half-done     *)
(* ones included, the rows fit the table, no subject is lost, and a waiver *)
(* stays a waiver for what it was submitted for.                           *)
(***************************************************************************)
EXTENDS Migrations, TLAPS

----------------------------------------------------------------------------
(* The inductive invariant behind the theorems of MigrationsProofs: a row  *)
(* says what it was inserted with in the columns it came with, until a     *)
(* migration fills in others from them.                                    *)

HasColumns(columns) == columns = [column \in ColumnNames |-> columns[column]]

ByResult(now, said) ==
    /\ said.result_id \in DOMAIN ResultsDB
    /\ said.subject = None /\ said.subject_identifier = None
    /\ now.result_id = said.result_id /\ now.subject_identifier = None
    /\ now.subject # None =>
         /\ ResultsDB[said.result_id] # None
         /\ now.subject = convert_id_to_subject(ResultsDB[said.result_id])

BySubject(now, said) ==
    /\ said.subject \in TestSubject /\ said.subject_identifier = None
    /\ now.subject = said.subject /\ now.result_id = None
    /\ now.subject_identifier # None =>
         subject_dict_to_type_identifier(said.subject) \in
             {None, <<now.subject_type, now.subject_identifier>>}

ByPair(now, said) ==
    /\ said.subject = None
    /\ said.subject_identifier \in Text /\ said.subject_type \in Text \ {"brew-build"}
    /\ now.result_id = None
    /\ \/ /\ now.subject = None
          /\ now.subject_type = said.subject_type
          /\ now.subject_identifier = said.subject_identifier
       \/ /\ now.subject # None
          /\ now.subject = subject_type_identifier_to_dict(said.subject_type,
                                                           said.subject_identifier)
          /\ now.subject_identifier = None

RowInStep(row) ==
    /\ row = [id |-> row.id, now |-> row.now, said |-> row.said]
    /\ HasColumns(row.now)
    /\ ByResult(row.now, row.said) \/ BySubject(row.now, row.said) \/ ByPair(row.now, row.said)

IInv ==
    /\ TypeOK
    /\ revision = 0 => table = {}
    /\ \A row \in table : RowInStep(row)

----------------------------------------------------------------------------

LEMMA NoneIsNoText ==
    /\ None \notin Text /\ None # Empty /\ None # "koji_build" /\ None # "brew-build"
    /\ None # "compose" /\ None # "rpmlint"
  BY TextAssumption, NoneAssumption, InputsAssumption DEF Empty

(* What it takes to fit, column by column.                                 *)
LEMMA FitsIs ==
    ASSUME NEW columns, NEW n \in 0..Head
    PROVE  Fits(columns, n) <=>
             /\ columns.result_id # None => n >= 1
             /\ columns.proxied_by # None => n >= 2
             /\ columns.subject # None => n >= 3
             /\ columns.testcase # None => n >= 3
             /\ columns.subject_type # None => n >= 8
             /\ columns.subject_identifier # None => n >= 8
             /\ columns.scenario # None => n >= 9
             /\ n \in 1..4 => columns.result_id # None
             /\ n >= 5 => columns.testcase # None
             /\ n \in 5..7 => columns.subject # None
             /\ n >= 8 => columns.subject_type # None /\ columns.subject_identifier # None
  <1>1. /\ Has("result_id", n) <=> n >= 1
        /\ Has("proxied_by", n) <=> n >= 2
        /\ Has("subject", n) <=> n >= 3
        /\ Has("testcase", n) <=> n >= 3
        /\ Has("subject_type", n) <=> n >= 8
        /\ Has("subject_identifier", n) <=> n >= 8
        /\ Has("scenario", n) <=> n >= 9
    BY DEF Has
  <1>2. /\ "result_id" \in NotNull(n) <=> n \in 1..4
        /\ "proxied_by" \notin NotNull(n)
        /\ "subject" \in NotNull(n) <=> n \in 5..7
        /\ "testcase" \in NotNull(n) <=> n >= 5
        /\ "subject_type" \in NotNull(n) <=> n >= 8
        /\ "subject_identifier" \in NotNull(n) <=> n >= 8
        /\ "scenario" \notin NotNull(n)
    BY DEF NotNull, ColumnNames
  <1> QED
    BY <1>1, <1>2 DEF Fits, ColumnNames

(* What a release inserts, and a later one has not seen.                   *)
LEMMA SubmissionIs ==
    ASSUME NEW release \in Nat, NEW columns \in Submissions(release)
    PROVE  /\ HasColumns(columns)
           /\ ByResult(columns, columns) \/ BySubject(columns, columns) \/ ByPair(columns, columns)
  <1>1. CASE release <= 2
    <2>1. PICK id \in DOMAIN ResultsDB : columns = [Unset EXCEPT !.result_id = id]
      BY <1>1 DEF Submissions
    <2>2. HasColumns(columns)
      BY <2>1 DEF Unset, HasColumns
    <2>3. columns.result_id = id /\ columns.subject = None /\ columns.subject_identifier = None
      BY <2>1 DEF Unset, ColumnNames
    <2> QED
      BY <2>2, <2>3 DEF ByResult
  <1>2. CASE ~(release <= 2) /\ release <= 7
    <2>1. PICK subject \in Subjects :
            columns = [Unset EXCEPT !.subject = subject, !.testcase = "rpmlint"]
      BY <1>2 DEF Submissions
    <2>2. HasColumns(columns)
      BY <2>1 DEF Unset, HasColumns
    <2>3. /\ columns.result_id = None /\ columns.subject = subject
          /\ columns.subject_identifier = None
      BY <2>1 DEF Unset, ColumnNames
    <2> QED
      BY <2>2, <2>3, InputsAssumption DEF BySubject
  <1>3. CASE ~(release <= 7)
    <2>1. PICK pair \in Pairs :
            columns = [Unset EXCEPT !.subject_type = pair[1], !.subject_identifier = pair[2],
                                    !.testcase = "rpmlint"]
      <3>1. ~(release <= 2)
        BY <1>3
      <3>2. columns \in {[Unset EXCEPT !.subject_type = pair[1], !.subject_identifier = pair[2],
                                       !.testcase = "rpmlint"] : pair \in Pairs}
        BY <1>3, <3>1, Zenon DEF Submissions
      <3> QED
        BY <3>2, Zenon
    <2>2. HasColumns(columns)
      BY <2>1 DEF Unset, HasColumns
    <2>3. /\ columns.result_id = None /\ columns.subject = None
          /\ columns.subject_type = pair[1] /\ columns.subject_identifier = pair[2]
      BY <2>1 DEF Unset, ColumnNames
    <2>4. pair[1] \in Text \ {"brew-build"} /\ pair[2] \in Text
      BY InputsAssumption
    <2> QED
      BY <2>2, <2>3, <2>4 DEF ByPair
  <1> QED
    BY <1>1, <1>2, <1>3

(* A row whose columns are converted.                                      *)
LEMMA ConvertedRow ==
    ASSUME NEW row, RowInStep(row), NEW columns
    PROVE  /\ [row EXCEPT !.now = columns].now = columns
           /\ [row EXCEPT !.now = columns].said = row.said
           /\ [row EXCEPT !.now = columns] =
                [id |-> row.id, now |-> columns, said |-> row.said]
  BY DEF RowInStep

(* An API subject is never the lack of one.                                *)
LEMMA SubjectIsNone ==
    /\ \A subject \in TestSubject : subject # None
    /\ NoSubject \in TestSubject
  BY NoneIsNoValue DEF TestSubject, OptText, NoSubject

----------------------------------------------------------------------------
(* The rows.                                                               *)

LEMMA FillSubjectRow ==
    ASSUME NEW row, RowInStep(row), Fits(row.now, 3), Convertible(row.now)
    PROVE  LET filled == [row EXCEPT !.now = FillSubject(row.now)]
           IN RowInStep(filled) /\ Fits(filled.now, 4)
  <1> DEFINE result == ResultsDB[row.now.result_id]
             columns == FillSubject(row.now)
  <1>1. HasColumns(row.now)
    BY DEF RowInStep
  <1>2. /\ columns = [row.now EXCEPT !.subject = convert_id_to_subject(result),
                                     !.testcase = result.testcase]
    BY DEF FillSubject
  <1>3. /\ HasColumns(columns)
        /\ columns.subject = convert_id_to_subject(result)
        /\ columns.result_id = row.now.result_id
        /\ columns.subject_type = row.now.subject_type
        /\ columns.subject_identifier = row.now.subject_identifier
        /\ columns.proxied_by = row.now.proxied_by /\ columns.scenario = row.now.scenario
    BY <1>1, <1>2 DEF HasColumns, ColumnNames
  <1> HIDE DEF columns
  <1>4. row.now.result_id # None
    BY FitsIs DEF Head
  <1>5. ByResult(row.now, row.said)
    BY <1>4 DEF RowInStep, BySubject, ByPair
  <1>6. ByResult(columns, row.said)
    BY <1>3, <1>5 DEF ByResult, Convertible
  <1>7. Fits(columns, 4)
    BY <1>3, FitsIs DEF Head
  <1>8. RowInStep([row EXCEPT !.now = columns])
    BY <1>3, <1>6, ConvertedRow DEF RowInStep
  <1> QED
    BY <1>7, <1>8, ConvertedRow DEF columns

LEMMA FillPairIs ==
    ASSUME NEW columns, HasColumns(columns), BySubject(columns, columns)
    PROVE  HasColumns(FillPair(columns)) /\ BySubject(FillPair(columns), columns)
  <1> DEFINE pair == subject_dict_to_type_identifier(columns.subject)
             filled == FillPair(columns)
  <1>1. /\ HasColumns(filled)
        /\ filled.subject = columns.subject /\ filled.result_id = columns.result_id
        /\ filled.subject_type = IF pair = None THEN "koji_build" ELSE pair[1]
        /\ filled.subject_identifier = IF pair = None THEN Empty ELSE pair[2]
    BY DEF FillPair, HasColumns, ColumnNames
  <1>2. pair = None \/ pair = <<pair[1], pair[2]>>
    BY DEF subject_dict_to_type_identifier
  <1> HIDE DEF pair, filled
  <1>3. pair \in {None, <<filled.subject_type, filled.subject_identifier>>}
    BY <1>1, <1>2
  <1>4. BySubject(filled, columns)
    BY <1>1, <1>3 DEF BySubject, pair
  <1> QED
    BY <1>1, <1>4 DEF filled

LEMMA RestoreSubjectRow ==
    ASSUME NEW row, RowInStep(row), Fits(row.now, 8),
           Lacking(row.now) => Truthy(row.now.subject_type)
    PROVE  LET restored == [row EXCEPT !.now = RestoreSubject(row.now)]
           IN RowInStep(restored) /\ Fits(restored.now, 7)
  <1> DEFINE columns == RestoreSubject(row.now)
             dict == subject_type_identifier_to_dict(row.now.subject_type,
                                                     row.now.subject_identifier)
  <1>1. HasColumns(row.now)
    BY DEF RowInStep
  <1>2. /\ HasColumns(columns)
        /\ columns.subject = IF Lacking(row.now) THEN dict ELSE row.now.subject
        /\ columns.subject_type = None /\ columns.subject_identifier = None
        /\ columns.result_id = row.now.result_id /\ columns.testcase = row.now.testcase
        /\ columns.proxied_by = row.now.proxied_by /\ columns.scenario = row.now.scenario
    BY <1>1 DEF RestoreSubject, HasColumns, ColumnNames
  <1>3. row.now.subject_identifier # None /\ row.now.testcase # None
    BY FitsIs DEF Head
  <1>4. ASSUME BySubject(row.now, row.said)
        PROVE  columns.subject # None /\ BySubject(columns, row.said)
    <2>1. row.now.subject # None
      BY <1>4, SubjectIsNone DEF BySubject
    <2>2. columns.subject = row.now.subject
      BY <1>2, <2>1 DEF Lacking
    <2> HIDE DEF columns
    <2> QED
      BY <1>2, <1>4, <2>1, <2>2 DEF BySubject
  <1>5. ASSUME ByPair(row.now, row.said)
        PROVE  columns.subject # None /\ ByPair(columns, row.said)
    <2>1. /\ row.now.subject = None
          /\ row.now.subject_type = row.said.subject_type /\ row.now.subject_type \in Text
          /\ row.now.subject_identifier = row.said.subject_identifier
          /\ row.now.subject_identifier \in Text
      BY <1>3, <1>5 DEF ByPair
    <2>2. Truthy(row.now.subject_type)
      BY <2>1 DEF Lacking
    <2>3. dict \in TestSubject
      BY <2>1, <2>2 DEF subject_type_identifier_to_dict, TestSubject, OptText
    <2>4. columns.subject = dict /\ dict # None
      BY <1>2, <2>1, <2>3, SubjectIsNone DEF Lacking
    <2> HIDE DEF columns
    <2> QED
      BY <1>2, <1>5, <2>1, <2>4 DEF ByPair
  <1>6. columns.subject # None /\ (BySubject(columns, row.said) \/ ByPair(columns, row.said))
    BY <1>3, <1>4, <1>5 DEF RowInStep, ByResult
  <1> HIDE DEF columns, dict
  <1>7. Fits(columns, 7)
    BY <1>2, <1>3, <1>6, FitsIs DEF Head
  <1>8. RowInStep([row EXCEPT !.now = columns])
    BY <1>2, <1>6, ConvertedRow DEF RowInStep
  <1> QED
    BY <1>7, <1>8, ConvertedRow DEF columns

(* Columns that are dropped were not there before the row was filled.      *)
LEMMA DroppedRow ==
    ASSUME NEW row, RowInStep(row), NEW n \in {2, 3, 9}, Fits(row.now, n),
           NEW names,
           names = IF n = 2 THEN {"proxied_by"}
                   ELSE IF n = 3 THEN {"subject", "testcase"} ELSE {"scenario"}
    PROVE  LET columns == [column \in ColumnNames |->
                              IF column \in names THEN None ELSE row.now[column]]
               dropped == [row EXCEPT !.now = columns]
           IN RowInStep(dropped) /\ Fits(dropped.now, n - 1)
  <1> DEFINE columns == [column \in ColumnNames |->
                           IF column \in names THEN None ELSE row.now[column]]
  <1>1. /\ HasColumns(columns)
        /\ columns.result_id = row.now.result_id
        /\ columns.proxied_by = IF n = 2 THEN None ELSE row.now.proxied_by
        /\ columns.subject = IF n = 3 THEN None ELSE row.now.subject
        /\ columns.testcase = IF n = 3 THEN None ELSE row.now.testcase
        /\ columns.subject_type = row.now.subject_type
        /\ columns.subject_identifier = row.now.subject_identifier
        /\ columns.scenario = IF n = 9 THEN None ELSE row.now.scenario
    BY DEF HasColumns, ColumnNames
  <1> HIDE DEF columns
  <1>2. Fits(columns, n - 1)
    <2>1. CASE n = 2
      BY <1>1, <2>1, FitsIs DEF Head
    <2>2. CASE n = 3
      BY <1>1, <2>2, FitsIs DEF Head
    <2>3. CASE n = 9
      BY <1>1, <2>3, FitsIs DEF Head
    <2> QED
      BY <2>1, <2>2, <2>3
  <1>3. ByResult(columns, row.said) \/ BySubject(columns, row.said) \/ ByPair(columns, row.said)
    <2>1. n = 3 => row.now.result_id # None
      BY FitsIs DEF Head
    <2>2. ASSUME ByResult(row.now, row.said) PROVE ByResult(columns, row.said)
      BY <1>1, <2>2 DEF ByResult
    <2>3. ASSUME BySubject(row.now, row.said) PROVE BySubject(columns, row.said)
      BY <1>1, <2>1, <2>3 DEF BySubject
    <2>4. ASSUME ByPair(row.now, row.said) PROVE ByPair(columns, row.said)
      BY <1>1, <2>1, <2>4 DEF ByPair
    <2> QED
      BY <2>2, <2>3, <2>4 DEF RowInStep
  <1>4. RowInStep([row EXCEPT !.now = columns])
    BY <1>1, <1>3, ConvertedRow DEF RowInStep
  <1> QED
    BY <1>2, <1>4, ConvertedRow DEF columns

----------------------------------------------------------------------------
(* The invariant.                                                          *)

LEMMA InitInv == Init => IInv
  <1> SUFFICES ASSUME Init PROVE IInv
    OBVIOUS
  <1>1. CASE revision = 0 /\ table = {}
    BY <1>1, NoneIsNoValue DEF Init, IInv, TypeOK, Head
  <1>2. ASSUME NEW columns \in Submissions(7), Fits(FillPair(columns), 8), revision = 8,
               table = {[id |-> 1, now |-> FillPair(columns), said |-> columns]}
        PROVE  IInv
    <2>1. /\ HasColumns(columns) /\ BySubject(columns, columns)
      <3>1. PICK subject \in Subjects :
              columns = [Unset EXCEPT !.subject = subject, !.testcase = "rpmlint"]
        <4>1. ~(7 <= 2) /\ 7 <= 7
          OBVIOUS
        <4>2. Submissions(7) =
                {[Unset EXCEPT !.subject = subject, !.testcase = "rpmlint"] : subject \in Subjects}
          BY <4>1, Zenon DEF Submissions
        <4> QED
          BY <4>2
      <3>2. columns.subject = subject
        BY <3>1 DEF Unset, ColumnNames
      <3> QED
        BY <3>2, SubmissionIs, SubjectIsNone, InputsAssumption DEF ByResult, ByPair
    <2>2. RowInStep([id |-> 1, now |-> FillPair(columns), said |-> columns])
      BY <2>1, FillPairIs DEF RowInStep
    <2>3. TypeOK
      BY <1>2, NoneIsNoValue DEF Init, TypeOK, Head
    <2> QED
      BY <1>2, <2>2, <2>3 DEF IInv
  <1> QED
    BY <1>1, <1>2 DEF Init

(* A migration whose rows are in step with its revision.                   *)
LEMMA MigratedInv ==
    ASSUME IInv, NEW to \in 0..Head, NEW rows, Migrated(to, rows),
           to = 0 => rows = {},
           \A row \in rows : RowInStep(row) /\ Fits(row.now, to)
    PROVE  IInv'
  <1>1. table' = rows /\ revision' = to /\ failed' = failed
    BY DEF Migrated
  <1>2. goal' \in 0..Head \cup {None} /\ goal' # to
    BY NoneIsNoValue DEF Migrated, IInv, TypeOK
  <1>3. TypeOK'
    BY <1>1, <1>2 DEF IInv, TypeOK
  <1> QED
    BY <1>1, <1>3 DEF IInv

LEMMA FailedInv ==
    ASSUME IInv, NEW reached \in 0..Head \cup {None}, MigrationFails(reached)
    PROVE  IInv'
  BY NoneIsNoValue DEF MigrationFails, IInv, TypeOK

(* The rows fit the next revision as they are.                             *)
LEMMA SchemaInv ==
    ASSUME IInv, NEW to \in 0..Head, Migrated(to, table), to # 0,
           \A row \in table : Fits(row.now, to)
    PROVE  IInv'
  BY MigratedInv DEF IInv

LEMMA SubmitInv ==
    ASSUME IInv, Submit
    PROVE  IInv'
  <1>1. PICK release \in 1..revision \ {3, 4} : \E columns \in Submissions(release) :
          /\ Fits(columns, revision)
          /\ table' = table \cup {Inserted(Cardinality(table) + 1, columns)}
    BY DEF Submit
  <1>2. PICK columns \in Submissions(release) :
          /\ Fits(columns, revision)
          /\ table' = table \cup {Inserted(Cardinality(table) + 1, columns)}
    BY <1>1
  <1>3. revision \in 0..Head /\ release \in Nat /\ revision # 0
    BY DEF IInv, TypeOK, Head
  <1>4. UNCHANGED <<revision, goal, failed>>
    BY DEF Submit
  <1> DEFINE row == Inserted(Cardinality(table) + 1, columns)
  <1>5. row.now = columns /\ row.said = columns /\ row = [id |-> row.id, now |-> row.now, said |-> row.said]
    BY DEF Inserted
  <1>6. RowInStep(row)
    BY <1>3, <1>5, SubmissionIs DEF RowInStep
  <1>7. table' = table \cup {row} /\ Fits(row.now, revision)
    BY <1>2, <1>5
  <1> HIDE DEF row
  <1> QED
    BY <1>3, <1>4, <1>6, <1>7 DEF IInv, TypeOK

LEMMA UpgradeSchemaInv ==
    ASSUME IInv, UpgradeSchema
    PROVE  IInv'
  <1>1. PICK n \in {1, 2, 3, 6, Head} : Upgrading(n) /\ Migrated(n, table)
    BY DEF UpgradeSchema
  <1>2. revision = n - 1 /\ n \in 0..Head /\ n - 1 \in 0..Head /\ n # 0
    BY <1>1 DEF Upgrading, Head
  <1>3. ASSUME NEW row \in table PROVE Fits(row.now, n)
    <2>1. Fits(row.now, n - 1) /\ n # 1
      BY <1>2, <1>3 DEF IInv, TypeOK
    <2>2. CASE n = 2
      BY <2>1, <2>2, FitsIs DEF Head
    <2>3. CASE n = 3
      BY <2>1, <2>3, FitsIs DEF Head
    <2>4. CASE n = 6
      BY <2>1, <2>4, FitsIs DEF Head
    <2>5. CASE n = 9
      BY <2>1, <2>5, FitsIs DEF Head
    <2> QED
      BY <2>1, <2>2, <2>3, <2>4, <2>5 DEF Head
  <1> QED
    BY <1>1, <1>2, <1>3, SchemaInv

LEMMA DowngradeSchemaInv ==
    ASSUME IInv, DowngradeSchema
    PROVE  IInv'
  <1>1. \A row \in table : RowInStep(row) /\ Fits(row.now, revision)
    BY DEF IInv, TypeOK
  <1>2. CASE Downgrading(1) /\ Migrated(0, {})
    BY <1>2, MigratedInv DEF Head
  <1>3. ASSUME NEW n \in {2, 3, 9}, NEW names, Downgrading(n), Migrated(n - 1, Dropping(names)),
               names = IF n = 2 THEN {"proxied_by"}
                       ELSE IF n = 3 THEN {"subject", "testcase"} ELSE {"scenario"}
        PROVE  IInv'
    <2>1. revision = n /\ n - 1 \in 0..Head /\ n - 1 # 0
      BY <1>3 DEF Downgrading, Head
    <2>2. ASSUME NEW row \in Dropping(names) PROVE RowInStep(row) /\ Fits(row.now, n - 1)
      <3> DEFINE kept(old) == [column \in ColumnNames |->
                                 IF column \in names THEN None ELSE old.now[column]]
      <3>1. PICK old \in table : row = [old EXCEPT !.now = kept(old)]
        BY DEF Dropping
      <3>2. RowInStep(old) /\ Fits(old.now, n)
        BY <1>1, <2>1
      <3>3. LET dropped == [old EXCEPT !.now = kept(old)]
            IN RowInStep(dropped) /\ Fits(dropped.now, n - 1)
        BY <1>3, <3>2, DroppedRow
      <3> QED
        BY <3>1, <3>3
    <2> QED
      BY <1>3, <2>1, <2>2, MigratedInv
  <1>4. ASSUME NEW n \in {6, 7}, Downgrading(n), Migrated(n - 1, table)
        PROVE  IInv'
    <2>1. revision = n /\ n \in 0..Head /\ n - 1 \in 0..Head /\ n - 1 # 0
      BY <1>4 DEF Downgrading, Head
    <2>2. ASSUME NEW row \in table PROVE Fits(row.now, n - 1)
      <3>1. CASE n = 6
        BY <1>1, <2>1, <3>1, FitsIs DEF Head
      <3>2. CASE n = 7
        BY <1>1, <2>1, <3>2, FitsIs DEF Head
      <3> QED
        BY <3>1, <3>2
    <2> QED
      BY <1>4, <2>1, <2>2, SchemaInv
  <1>5. CASE Downgrading(2) /\ Migrated(1, Dropping({"proxied_by"}))
    BY <1>3, <1>5
  <1>6. CASE Downgrading(3) /\ Migrated(2, Dropping({"subject", "testcase"}))
    BY <1>3, <1>6
  <1>7. CASE Downgrading(9) /\ Migrated(8, Dropping({"scenario"}))
    BY <1>3, <1>7
  <1> QED
    BY <1>2, <1>4, <1>5, <1>6, <1>7 DEF DowngradeSchema

LEMMA UpgradeInv ==
    ASSUME IInv,
           \/ upgrade_71b84ccc31bb \/ upgrade_ed43eb9b221c
           \/ upgrade_ce8a1351ecdc \/ upgrade_f6bc296ba966
    PROVE  IInv'
  <1>1. \A row \in table : RowInStep(row) /\ Fits(row.now, revision)
    BY DEF IInv, TypeOK
  <1>2. ASSUME NEW reached \in {4, 5, 7, 8}, MigrationFails(reached) PROVE IInv'
    BY <1>2, FailedInv DEF Head
  <1>3. CASE upgrade_71b84ccc31bb
    <2>1. revision = 3
      BY <1>3 DEF upgrade_71b84ccc31bb, Upgrading
    <2>2. CASE (\A row \in table : Convertible(row.now)) /\ Migrated(4, Converted(FillSubject))
      <3>1. \A row \in Converted(FillSubject) : RowInStep(row) /\ Fits(row.now, 4)
        BY <1>1, <2>1, <2>2, FillSubjectRow DEF Converted
      <3> QED
        BY <2>2, <3>1, MigratedInv DEF Head
    <2> QED
      BY <1>2, <1>3, <2>2 DEF upgrade_71b84ccc31bb
  <1>4. CASE upgrade_ed43eb9b221c
    <2>1. revision = 4
      BY <1>4 DEF upgrade_ed43eb9b221c, Upgrading
    <2>2. CASE \A row \in table : row.now.subject # None /\ row.now.testcase # None
      <3>1. ASSUME NEW row \in table PROVE Fits(row.now, 5)
        BY <1>1, <2>1, <2>2, FitsIs DEF Head
      <3> QED
        BY <1>4, <2>2, <3>1, SchemaInv DEF upgrade_ed43eb9b221c, Head
    <2> QED
      BY <1>2, <1>4, <2>2 DEF upgrade_ed43eb9b221c
  <1>5. CASE upgrade_ce8a1351ecdc
    BY <1>2, <1>5, SchemaInv DEF upgrade_ce8a1351ecdc, Head
  <1>6. CASE upgrade_f6bc296ba966
    BY <1>2, <1>6, SchemaInv DEF upgrade_f6bc296ba966, Head
  <1> QED
    BY <1>3, <1>4, <1>5, <1>6

LEMMA DowngradeInv ==
    ASSUME IInv,
           downgrade_71b84ccc31bb \/ downgrade_ed43eb9b221c \/ downgrade_f6bc296ba966
    PROVE  IInv'
  <1>1. /\ \A row \in table : RowInStep(row) /\ Fits(row.now, revision)
        /\ failed \in 0..Head \cup {None}
    BY DEF IInv, TypeOK
  <1>2. CASE MigrationFails(failed)
    BY <1>1, <1>2, FailedInv
  <1>3. CASE downgrade_ed43eb9b221c
    <2>1. revision = 5
      BY <1>3 DEF downgrade_ed43eb9b221c, Downgrading
    <2>2. CASE \A row \in table : row.now.result_id # None
      <3>1. ASSUME NEW row \in table PROVE Fits(row.now, 4)
        BY <1>1, <2>1, <2>2, FitsIs DEF Head
      <3> QED
        BY <1>3, <2>2, <3>1, SchemaInv DEF downgrade_ed43eb9b221c, Head
    <2> QED
      BY <1>2, <1>3, <2>2 DEF downgrade_ed43eb9b221c
  <1>4. CASE downgrade_f6bc296ba966
    <2>1. revision = 8
      BY <1>4 DEF downgrade_f6bc296ba966, Downgrading
    <2>2. CASE \A row \in table : Lacking(row.now) => Truthy(row.now.subject_type)
      <3>1. \A row \in Converted(RestoreSubject) : RowInStep(row) /\ Fits(row.now, 7)
        BY <1>1, <2>1, <2>2, RestoreSubjectRow DEF Converted
      <3> QED
        BY <1>4, <2>2, <3>1, MigratedInv DEF downgrade_f6bc296ba966, Head
    <2> QED
      BY <1>2, <1>4, <2>2 DEF downgrade_f6bc296ba966
  <1> QED
    BY <1>2, <1>3, <1>4 DEF downgrade_71b84ccc31bb

LEMMA NextInv == IInv /\ [Next]_vars => IInv'
  <1> SUFFICES ASSUME IInv, [Next]_vars PROVE IInv'
    OBVIOUS
  <1>1. CASE Begin
    BY <1>1 DEF Begin, IInv, TypeOK
  <1>2. CASE Kill
    BY <1>2, FailedInv DEF Kill, IInv, TypeOK
  <1>3. CASE UNCHANGED vars
    BY <1>3 DEF vars, IInv, TypeOK
  <1> QED
    BY <1>1, <1>2, <1>3, SubmitInv, UpgradeSchemaInv, DowngradeSchemaInv, UpgradeInv,
       DowngradeInv DEF Next

LEMMA Invariance == Spec => []IInv
  BY InitInv, NextInv, PTL DEF Spec

(* Every variable holds a value of its kind, and every row fits the table  *)
(* at its revision, whatever command fails on the way.                     *)
THEOREM TypeCorrectness == Spec => []TypeOK
  <1>1. IInv => TypeOK
    BY DEF IInv
  <1> QED
    BY <1>1, Invariance, PTL

(* No migration, and none that fails, changes a subject that was submitted *)
(* (f6bc296ba966:45-47, 74-83).                                            *)
THEOREM SubjectWasPreserved == Spec => []SubjectIsPreserved
  <1>1. IInv => SubjectIsPreserved
    BY DEF IInv, RowInStep, ByResult, BySubject, ByPair, SubjectIsPreserved
  <1> QED
    BY <1>1, Invariance, PTL

----------------------------------------------------------------------------
(* What the rows mean.                                                     *)

LEMMA ResultMeaning ==
    ASSUME NEW now, NEW said, ByResult(now, said),
           Meaning(said) # None, Truthy(Meaning(said)[2])
    PROVE  Meaning(now) = Meaning(said)
  <1> DEFINE result == ResultsDB[said.result_id]
             target == ResolveResult(result).target
  <1>1. /\ said.subject = None /\ said.subject_identifier = None
        /\ now.result_id = said.result_id /\ now.subject_identifier = None
        /\ now.subject # None => now.subject = convert_id_to_subject(result)
    BY DEF ByResult
  <1>2. /\ result # None /\ target # None
        /\ Meaning(said) = <<target.subject_type, target.subject_identifier>>
    BY <1>1 DEF Meaning
  <1>3. CASE now.subject = None
    BY <1>1, <1>3 DEF Meaning
  <1>4. CASE now.subject # None
    <2>1. result \in Result /\ Meaning(now) = subject_dict_to_type_identifier(convert_id_to_subject(result))
      BY <1>1, <1>2, <1>4, ResultsDBAssumption DEF ByResult, Meaning
    <2>2. convert_id_to_subject(result) # None /\ Truthy(target.subject_identifier)
      BY <1>1, <1>2, <1>4
    <2> HIDE DEF result
    <2>3. CASE result.original_spec_nvr # None
      <3>1. target.subject_type = "koji_build" /\ target.subject_identifier = result.original_spec_nvr
        BY <1>2, <2>3 DEF ResolveResult, Resolved, Unresolved
      <3>2. convert_id_to_subject(result) = [NoSubject EXCEPT !.original_spec_nvr = result.original_spec_nvr]
        BY <2>3 DEF convert_id_to_subject
      <3> QED
        BY <1>2, <2>1, <2>2, <3>1, <3>2, NoneIsNoText
          DEF subject_dict_to_type_identifier, NoSubject, KojiTypes, Truthy
    <2>4. CASE result.original_spec_nvr = None
      <3>1. /\ result.type \in {"koji_build", "bodhi_update"}
            /\ convert_id_to_subject(result) = [NoSubject EXCEPT !.type = result.type, !.item = result.item]
        BY <2>2, <2>4 DEF convert_id_to_subject
      <3>2. target.subject_type = result.type /\ target.subject_identifier = result.item
        BY <1>2, <2>4, <3>1 DEF ResolveResult, Resolved, Unresolved, KojiTypes
      <3> QED
        BY <1>2, <2>1, <2>2, <3>1, <3>2, NoneIsNoText
          DEF subject_dict_to_type_identifier, NoSubject, KojiTypes, Truthy
    <2> QED
      BY <2>3, <2>4
  <1> QED
    BY <1>3, <1>4

LEMMA SubjectMeaning ==
    ASSUME NEW now, NEW said, BySubject(now, said), Meaning(said) # None
    PROVE  Meaning(now) = Meaning(said)
  BY SubjectIsNone DEF BySubject, Meaning

LEMMA PairMeaning ==
    ASSUME NEW now, NEW said, ByPair(now, said), Truthy(Meaning(said)[2])
    PROVE  Meaning(now) = Meaning(said)
  <1>1. /\ said.subject_identifier # None
        /\ Meaning(said) = <<said.subject_type, said.subject_identifier>>
        /\ Truthy(said.subject_identifier)
    BY NoneIsNoText DEF ByPair, Meaning
  <1>2. CASE now.subject_identifier # None
    BY <1>1, <1>2 DEF ByPair, Meaning
  <1>3. CASE now.subject_identifier = None
    <2>1. /\ now.subject # None
          /\ now.subject = subject_type_identifier_to_dict(said.subject_type,
                                                           said.subject_identifier)
      BY <1>1, <1>3 DEF ByPair
    <2>2. Meaning(now) = subject_dict_to_type_identifier(now.subject)
      BY <1>3, <2>1 DEF Meaning
    <2>3. said.subject_type # "brew-build"
      BY DEF ByPair
    <2> QED
      BY <1>1, <2>1, <2>2, <2>3, NoneIsNoText
        DEF subject_type_identifier_to_dict, subject_dict_to_type_identifier, KojiTypes, Truthy
  <1> QED
    BY <1>2, <1>3

(* A waiver stays a waiver for what it was submitted for, through every    *)
(* sequence of upgrades and downgrades (71b84ccc31bb:26-62 and             *)
(* f6bc296ba966:66-93 against api_v1.py:317-349).                          *)
THEOREM WaiversNameTheSame == Spec => []NamesTheSame
  <1>1. IInv => NamesTheSame
    BY ResultMeaning, SubjectMeaning, PairMeaning DEF IInv, RowInStep, NamesTheSame
  <1> QED
    BY <1>1, Invariance, PTL

============================================================================
