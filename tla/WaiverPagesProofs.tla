------------------------- MODULE WaiverPagesProofs --------------------------
(***************************************************************************)
(* Reading page by page, for pages and tables of every size and all        *)
(* criteria: a client that follows "next" to the end is given every waiver *)
(* that was there all the time; and what the three endpoints answer, for   *)
(* every table.                                                            *)
(***************************************************************************)
EXTENDS WaiverPages, FiniteSetTheorems, TLAPS

----------------------------------------------------------------------------
(* The inductive invariant.                                                *)

(* The rows of a listing that come before a row in every order.            *)
Newer(row, rows) == {other \in rows : other.timestamp > row.timestamp}

(* The number of rows on the pages that were read.                         *)
Read == IF phase = "count" THEN next * Limit ELSE (next - 1) * Limit

(* A row that the client has not been given is on a later page: whatever   *)
(* submissions do, as many newer rows as were read stay before it.         *)
ScanInStep ==
    query # None /\ next # None /\ Lasting(query) /\ InOrder
        => \A row \in kept : OwnTimestamp(row) =>
             row \in seen \/ Cardinality(Newer(row, Listing(table, query))) >= Read

IInv ==
    /\ TypeOK
    /\ IsFiniteSet(table) /\ \A row, other \in table : row.id = other.id => row = other
    /\ query = None => next = None
    /\ next = None => phase = "items"
    /\ query # None /\ next # None => kept \subseteq Listing(table, query)
    /\ ScanInStep /\ ScanIsComplete

----------------------------------------------------------------------------

(* Ids are the key of a set of rows.                                       *)
Keyed(rows) ==
    /\ rows \subseteq Entry /\ IsFiniteSet(rows)
    /\ \A row, other \in rows : row.id = other.id => row = other

LEMMA EntryType == \A row \in Entry : row.id \in 1..MaxRows /\ row.timestamp \in 1..MaxRows
  BY DEF Entry

LEMMA ListingType ==
    ASSUME NEW rows, NEW q
    PROVE  Listing(rows, q) \subseteq rows
  BY DEF Listing, GetWaivers

(* There are no more rows than ids.                                        *)
LEMMA RowsFit ==
    ASSUME NEW rows, Keyed(rows)
    PROVE  Cardinality(rows) \in Nat /\ Cardinality(rows) <= MaxRows
  <1> DEFINE id == [row \in rows |-> row.id]
  <1>1. id \in Injection(rows, 1..MaxRows)
    BY EntryType DEF Keyed, Injection, IsInjective
  <1>2. IsFiniteSet(1..MaxRows) /\ Cardinality(1..MaxRows) = MaxRows
    BY FS_Interval, MaxRowsAssumption
  <1>3. Cardinality(rows) <= Cardinality(1..MaxRows)
    BY <1>1, <1>2, FS_Injection
  <1> QED
    BY <1>2, <1>3, FS_CardinalityType DEF Keyed

----------------------------------------------------------------------------
(* A submission and a listing.                                             *)

LEMMA SameKey ==
    ASSUME NEW a, NEW b, GroupKey(a) = GroupKey(b)
    PROVE  \A column \in Columns \ {"proxied_by"} : a[column] = b[column]
  BY DEF GroupKey, Columns

(* What hides a row meets the criteria the row meets, if they last.        *)
LEMMA ReplacementMatches ==
    ASSUME NEW q \in Queries, Lasting(q), NEW old \in Entry, NEW new \in Entry,
           GroupKey(old.waiver) = GroupKey(new.waiver), old.timestamp <= new.timestamp,
           Matches(q.filter, old)
    PROVE  Matches(q.filter, new)
  <1>1. ASSUME NEW column \in Columns, Truthy(q.filter[column])
        PROVE  new.waiver[column] = q.filter[column]
    <2>1. column # "proxied_by"
      BY <1>1 DEF Lasting, Truthy
    <2>2. old.waiver[column] = q.filter[column]
      BY <1>1 DEF Matches
    <2> QED
      BY <2>1, <2>2, SameKey
  <1>2. Since(q.filter.since, new)
    <2>1. q.filter.since[1] \in Nat \cup {None} /\ q.filter.since[2] = None
      BY QueriesAssumption DEF Lasting, Filter
    <2>2. Since(q.filter.since, old)
      BY DEF Matches
    <2> QED
      BY <2>1, <2>2, EntryType DEF Since
  <1> QED
    BY <1>1, <1>2 DEF Matches

(* A row that a submission takes out of a listing is one that it hides.    *)
LEMMA HiddenBy ==
    ASSUME NEW rows, NEW new \in Entry, NEW q, Keyed(rows), Keyed(rows \cup {new}),
           NEW row \in Listing(rows, q), row \notin Listing(rows \cup {new}, q)
    PROVE  /\ ~q.include_obsolete
           /\ row \in rows /\ Matches(q.filter, row) /\ row \notin Obsolete(rows)
           /\ GroupKey(row.waiver) = GroupKey(new.waiver) /\ new.id > row.id
  BY DEF Listing, GetWaivers, Obsolete

(* Whatever is submitted, no row moves to an earlier place of the listing. *)
LEMMA PlaceKept ==
    ASSUME NEW rows, NEW new \in Entry \ rows, Keyed(rows), Keyed(rows \cup {new}),
           NEW q \in Queries, Lasting(q),
           \A old \in rows :
             GroupKey(old.waiver) = GroupKey(new.waiver) /\ old.id < new.id
               => old.timestamp <= new.timestamp,
           NEW row \in Entry
    PROVE  Cardinality(Newer(row, Listing(rows, q)))
             <= Cardinality(Newer(row, Listing(rows \cup {new}, q)))
  <1> DEFINE before == Newer(row, Listing(rows, q))
             after == Newer(row, Listing(rows \cup {new}, q))
  <1>1. before \subseteq rows /\ after \subseteq rows \cup {new}
    BY ListingType DEF Newer
  <1>2. /\ IsFiniteSet(before) /\ IsFiniteSet(after)
        /\ Cardinality(before) \in Nat /\ Cardinality(after) \in Nat
    BY <1>1, FS_Subset, FS_CardinalityType DEF Keyed
  <1>3. CASE before \subseteq after
    BY <1>2, <1>3, FS_Subset
  <1>4. CASE ~(before \subseteq after)
    <2>1. PICK gone \in before : gone \notin after
      BY <1>4
    <2>2. /\ ~q.include_obsolete
          /\ gone \in rows /\ Matches(q.filter, gone) /\ gone \notin Obsolete(rows)
          /\ GroupKey(gone.waiver) = GroupKey(new.waiver) /\ new.id > gone.id
          /\ gone.timestamp > row.timestamp
      BY <2>1, HiddenBy DEF Newer
    <2>3. gone \in Entry /\ gone.timestamp <= new.timestamp /\ new.timestamp > row.timestamp
      BY <2>2, EntryType DEF Keyed
    <2>4. Matches(q.filter, new)
      BY <2>2, <2>3, ReplacementMatches
    <2>5. new \notin Obsolete(rows \cup {new})
      <3> SUFFICES ASSUME NEW newer \in rows \cup {new},
                          GroupKey(newer.waiver) = GroupKey(new.waiver), newer.id > new.id
                   PROVE  FALSE
        BY DEF Obsolete
      <3>1. newer \in rows /\ newer.id > gone.id
        BY <2>2, <2>3, EntryType DEF Keyed
      <3> QED
        BY <2>2, <3>1 DEF Obsolete
    <2>6. new \in after
      BY <2>2, <2>3, <2>4, <2>5 DEF Newer, Listing, GetWaivers
    <2>7. ASSUME NEW other \in before \ {gone} PROVE other \in after
      <3> SUFFICES ASSUME other \notin after PROVE FALSE
        OBVIOUS
      <3>1. /\ other \in rows /\ other \notin Obsolete(rows)
            /\ GroupKey(other.waiver) = GroupKey(new.waiver)
        BY HiddenBy DEF Newer
      <3>2. ~(other.id > gone.id) /\ ~(gone.id > other.id)
        BY <2>2, <3>1 DEF Obsolete
      <3>3. other.id = gone.id
        BY <2>2, <3>1, <3>2, EntryType DEF Keyed
      <3> QED
        BY <2>2, <3>1, <3>3 DEF Keyed
    <2>8. (before \ {gone}) \cup {new} \subseteq after
      BY <2>6, <2>7
    <2>9. /\ IsFiniteSet(before \ {gone}) /\ Cardinality(before \ {gone}) = Cardinality(before) - 1
      BY <1>2, <2>1, FS_RemoveElement
    <2>10. new \notin before \ {gone}
      BY <1>1
    <2>11. Cardinality((before \ {gone}) \cup {new}) = Cardinality(before \ {gone}) + 1
      BY <2>9, <2>10, FS_AddElement
    <2>12. Cardinality((before \ {gone}) \cup {new}) <= Cardinality(after)
      BY <1>2, <2>8, FS_Subset
    <2>13. Cardinality(before \ {gone}) + 1 = Cardinality(before)
      BY <1>2, <2>9
    <2> QED
      BY <2>11, <2>12, <2>13
  <1> QED
    BY <1>3, <1>4

----------------------------------------------------------------------------
(* A listing and its pages.                                                *)

(* The place of a row, when no other has its timestamp, is the same in     *)
(* every order the database may choose: as many rows come before it as are *)
(* newer.                                                                  *)
LEMMA PlaceInOrder ==
    ASSUME NEW rows, rows \subseteq Entry, IsFiniteSet(rows), NEW order \in NewestFirst(rows),
           NEW row \in rows, \A other \in rows : other.timestamp = row.timestamp => other = row
    PROVE  /\ DOMAIN order = 1..Cardinality(rows)
           /\ Cardinality(Newer(row, rows)) + 1 \in DOMAIN order
           /\ order[Cardinality(Newer(row, rows)) + 1] = row
  <1> DEFINE n == Cardinality(rows)
  <1>1. n \in Nat
    BY FS_CardinalityType
  <1>2. /\ order \in [1..n -> rows]
        /\ \A i, j \in 1..n : i # j => order[i] # order[j]
        /\ \A i, j \in 1..n : i < j => order[i].timestamp >= order[j].timestamp
    BY DEF NewestFirst, SetToSeqs
  <1>3. IsFiniteSet(1..n) /\ Cardinality(1..n) = n
    BY <1>1, FS_Interval
  <1>4. order \in Injection(1..n, rows)
    BY <1>2 DEF Injection, IsInjective
  <1>5. order \in Surjection(1..n, rows)
    BY <1>3, <1>4, FS_Injection
  <1>6. PICK p \in 1..n : order[p] = row
    BY <1>5 DEF Surjection
  <1> HIDE DEF n
  <1>7. \A i \in 1..n : order[i] \in Newer(row, rows) <=> i < p
    <2> SUFFICES ASSUME NEW i \in 1..n PROVE order[i].timestamp > row.timestamp <=> i < p
      BY <1>2 DEF Newer
    <2>1. order[i] \in rows /\ order[i].timestamp \in 1..MaxRows /\ row.timestamp \in 1..MaxRows
      BY <1>2, EntryType
    <2>2. CASE i < p
      <3>1. order[i].timestamp >= row.timestamp /\ order[i] # row
        BY <1>2, <1>6, <2>2
      <3> QED
        BY <2>1, <2>2, <3>1
    <2>3. CASE ~(i < p)
      <3>1. order[i].timestamp <= row.timestamp
        BY <1>1, <1>2, <1>6, <2>1, <2>3
      <3> QED
        BY <2>1, <2>3, <3>1
    <2> QED
      BY <2>2, <2>3
  <1>8. Cardinality(Newer(row, rows)) = p - 1
    <2> DEFINE front == [i \in 1..(p - 1) |-> order[i]]
    <2>1. \A i \in 1..(p - 1) : i \in 1..n /\ i < p
      BY <1>1
    <2>2. front \in Injection(1..(p - 1), Newer(row, rows))
      BY <1>2, <1>7, <2>1 DEF Injection, IsInjective
    <2>3. ASSUME NEW other \in Newer(row, rows) PROVE \E i \in 1..(p - 1) : front[i] = other
      <3>1. PICK i \in 1..n : order[i] = other
        BY <1>5 DEF Surjection, Newer
      <3>2. i \in 1..(p - 1)
        BY <1>1, <1>7, <3>1
      <3> QED
        BY <3>1, <3>2
    <2>4. front \in Bijection(1..(p - 1), Newer(row, rows))
      BY <2>2, <2>3 DEF Injection, Surjection, Bijection
    <2>5. IsFiniteSet(1..(p - 1)) /\ Cardinality(1..(p - 1)) = p - 1
      BY <1>1, FS_Interval
    <2> QED
      BY <2>4, <2>5, FS_Bijection DEF ExistsBijection
  <1> QED
    BY <1>1, <1>2, <1>6, <1>8 DEF n

(* A row is in the listing itself, so not all of the listing is newer.     *)
LEMMA PlaceType ==
    ASSUME NEW rows, Keyed(rows), NEW q, NEW row
    PROVE  /\ IsFiniteSet(Listing(rows, q)) /\ Cardinality(Listing(rows, q)) \in Nat
           /\ Cardinality(Listing(rows, q)) <= MaxRows
           /\ Cardinality(Newer(row, Listing(rows, q))) \in Nat
           /\ row \in Listing(rows, q) /\ row \in Entry =>
                Cardinality(Newer(row, Listing(rows, q))) < Cardinality(Listing(rows, q))
  <1> DEFINE listing == Listing(rows, q)
             newer == Newer(row, listing)
  <1>1. /\ IsFiniteSet(listing) /\ Cardinality(listing) <= Cardinality(rows)
        /\ Cardinality(rows) \in Nat /\ Cardinality(rows) <= MaxRows
    BY ListingType, RowsFit, FS_Subset DEF Keyed
  <1>2. newer \in SUBSET listing
    BY DEF Newer
  <1>3. /\ IsFiniteSet(newer) /\ Cardinality(newer) <= Cardinality(listing)
        /\ Cardinality(listing) = Cardinality(newer) => listing = newer
    BY <1>1, <1>2, FS_Subset
  <1>4. Cardinality(listing) \in Nat /\ Cardinality(newer) \in Nat
    BY <1>1, <1>3, FS_CardinalityType
  <1>5. row \in listing /\ row \in Entry => listing # newer
    BY EntryType DEF Newer
  <1> HIDE DEF listing, newer
  <1>6. Cardinality(listing) <= MaxRows
    BY <1>1, <1>4, MaxRowsAssumption
  <1>7. row \in listing /\ row \in Entry => Cardinality(newer) < Cardinality(listing)
    BY <1>3, <1>4, <1>5
  <1> QED
    BY <1>1, <1>4, <1>6, <1>7 DEF listing, newer

LEMMA OrderType ==
    ASSUME NEW rows, IsFiniteSet(rows), NEW order \in NewestFirst(rows)
    PROVE  \A i \in DOMAIN order : order[i] \in rows
  BY FS_CardinalityType DEF NewestFirst, SetToSeqs

(* A page holds at least one row.                                          *)
LEMMA PagesOfRows ==
    ASSUME NEW page \in Nat \ {0}
    PROVE  /\ page * Limit \in Nat /\ (page - 1) * Limit \in Nat
           /\ page * Limit = (page - 1) * Limit + Limit
           /\ page * Limit >= page
  <1>1. page \in Int /\ Limit \in Int /\ Limit >= 1 /\ page >= 1
    BY LimitAssumption
  <1>2. page * Limit = (page - 1) * Limit + Limit
    BY <1>1
  <1>3. (page - 1) * Limit >= 0 /\ (page - 1) * Limit \in Int
    BY <1>1
  <1>4. page * (Limit - 1) >= 0 /\ page * Limit = page * (Limit - 1) + page
    BY <1>1
  <1> QED
    BY <1>1, <1>2, <1>3, <1>4

----------------------------------------------------------------------------
(* The invariant, step by step.                                            *)

LEMMA TableKeyed == IInv => Keyed(table)
  BY DEF IInv, TypeOK, Keyed

LEMMA ScanType ==
    IInv /\ next # None =>
        /\ query \in Queries /\ query # None /\ next \in 1..MaxRows
        /\ next \in Nat \ {0} /\ Read \in Nat
        /\ Read = IF phase = "count" THEN next * Limit ELSE (next - 1) * Limit
  <1> SUFFICES ASSUME IInv, next # None
               PROVE  /\ query \in Queries /\ query # None /\ next \in 1..MaxRows
                      /\ next \in Nat \ {0} /\ Read \in Nat
    BY DEF Read
  <1>1. query \in Queries /\ query # None /\ next \in 1..MaxRows
    BY DEF IInv, TypeOK
  <1>2. next \in Nat \ {0}
    BY <1>1
  <1> QED
    BY <1>1, <1>2, PagesOfRows DEF Read

LEMMA InitInv == Init => IInv
  BY FS_EmptySet DEF Init, IInv, TypeOK, ScanInStep, ScanIsComplete

(* Whoever is in the listing after a submission was there before it, and   *)
(* not at a later place.                                                   *)
LEMMA CommitInv == IInv /\ Commit => IInv'
  <1> SUFFICES ASSUME IInv, Commit PROVE IInv'
    OBVIOUS
  <1>1. PICK row \in Entry :
          /\ \A other \in table : other.id # row.id
          /\ table' = table \cup {row}
    BY DEF Commit
  <1>2. row \in Entry \ table /\ Keyed(table) /\ Keyed(table \cup {row})
    <2>1. row \notin table /\ Keyed(table)
      BY <1>1, TableKeyed
    <2>2. IsFiniteSet(table \cup {row})
      BY <2>1, FS_AddElement DEF Keyed
    <2> QED
      BY <1>1, <2>1, <2>2 DEF Keyed
  <1>3. kept' \subseteq kept /\ UNCHANGED <<query, next, seen, phase>>
    BY DEF Commit
  <1>4. TypeOK'
    BY <1>1, <1>3 DEF IInv, TypeOK
  <1>5. IsFiniteSet(table') /\ \A x, y \in table' : x.id = y.id => x = y
    BY <1>1, <1>2 DEF Keyed
  <1>6. query' # None /\ next' # None => kept' \subseteq Listing(table', query')
    BY <1>3 DEF Commit
  <1>7. InOrder' => InOrder
    BY <1>1 DEF InOrder
  <1>8. ASSUME NEW x PROVE OwnTimestamp(x)' => OwnTimestamp(x)
    BY <1>1 DEF OwnTimestamp
  <1>9. ScanIsComplete'
    <2> SUFFICES ASSUME query' # None, next' = None, Lasting(query'), InOrder',
                        NEW x \in kept', OwnTimestamp(x)'
                 PROVE  x \in seen'
      BY DEF ScanIsComplete, Lasting, OwnTimestamp
    <2>1. query # None /\ next = None /\ Lasting(query) /\ InOrder /\ x \in kept
      BY <1>3, <1>7
    <2>2. OwnTimestamp(x)
      BY <1>8
    <2> QED
      BY <1>3, <2>1, <2>2 DEF IInv, ScanIsComplete
  <1>10. ScanInStep'
    <2> SUFFICES ASSUME query' # None, next' # None, Lasting(query'), InOrder',
                        NEW x \in kept', OwnTimestamp(x)', x \notin seen'
                 PROVE  Cardinality(Newer(x, Listing(table', query'))) >= Read'
      BY DEF ScanInStep, Lasting, OwnTimestamp, Newer, Listing
    <2>1. query # None /\ next # None /\ Lasting(query) /\ InOrder /\ x \in kept /\ x \notin seen
      BY <1>3, <1>7
    <2>2. OwnTimestamp(x)
      BY <1>8
    <2>3. Cardinality(Newer(x, Listing(table, query))) >= Read
      BY <2>1, <2>2 DEF IInv, ScanInStep
    <2>4. x \in Entry /\ query \in Queries
      BY <2>1, ScanType DEF IInv, TypeOK
    <2>5. \A old \in table :
            GroupKey(old.waiver) = GroupKey(row.waiver) /\ old.id < row.id
              => old.timestamp <= row.timestamp
      BY <1>1 DEF InOrder
    <2>6. Cardinality(Newer(x, Listing(table, query)))
            <= Cardinality(Newer(x, Listing(table \cup {row}, query)))
      BY <1>2, <2>1, <2>4, <2>5, PlaceKept
    <2>7. /\ Cardinality(Newer(x, Listing(table, query))) \in Nat
          /\ Cardinality(Newer(x, Listing(table \cup {row}, query))) \in Nat
          /\ Read \in Nat /\ Read' = Read
      BY <1>2, <1>3, <2>1, PlaceType, ScanType DEF Read
    <2>8. Listing(table', query') = Listing(table \cup {row}, query)
      BY <1>1, <1>3
    <2> QED
      BY <2>3, <2>6, <2>7, <2>8
  <1>11. (query = None => next = None)' /\ (next = None => phase = "items")'
    BY <1>3 DEF IInv
  <1> QED
    BY <1>4, <1>5, <1>6, <1>9, <1>10, <1>11 DEF IInv

LEMMA StartInv == IInv /\ Start => IInv'
  <1> SUFFICES ASSUME IInv, Start PROVE IInv'
    OBVIOUS
  <1>1. /\ query' \in Queries /\ query' # None /\ next' = 1 /\ next' # None
        /\ kept' = Listing(table, query') /\ table' = table /\ seen' = seen
        /\ phase' = "items"
    BY QueriesAssumption DEF Start, IInv
  <1>2. kept' \subseteq table
    BY <1>1, ListingType
  <1>3. TypeOK'
    BY <1>1, <1>2, MaxRowsAssumption DEF IInv, TypeOK
  <1>4. ScanInStep'
    <2>1. Read' = 0
      BY <1>1, LimitAssumption DEF Read
    <2>2. Keyed(table)
      BY TableKeyed
    <2>3. ASSUME NEW x PROVE Cardinality(Newer(x, Listing(table', query'))) >= Read'
      BY <1>1, <2>1, <2>2, PlaceType
    <2> QED
      BY <2>3 DEF ScanInStep, Newer, Listing
  <1> QED
    BY <1>1, <1>3, <1>4 DEF IInv, ScanIsComplete

(* A row that is not on the pages read so far, this one included, has as   *)
(* many rows before it, or is on this one.                                 *)
LEMMA ItemsInv == IInv /\ Items => IInv'
  <1> SUFFICES ASSUME IInv, Items PROVE IInv'
    OBVIOUS
  <1> DEFINE listing == Listing(table, query)
             page(order) == DOMAIN order \cap ((next - 1) * Limit + 1)..(next * Limit)
  <1>1. PICK order \in NewestFirst(listing) :
          /\ seen' = seen \cup {order[i] : i \in page(order)}
          /\ IF page(order) = {} /\ next # 1
               THEN next' = None /\ UNCHANGED phase
               ELSE phase' = "count" /\ UNCHANGED next
    BY DEF Items
  <1>2. /\ query # None /\ next # None /\ phase = "items"
        /\ table' = table /\ query' = query /\ kept' = kept
    BY DEF Items
  <1>3. /\ Keyed(table) /\ query \in Queries /\ next \in 1..MaxRows /\ next \in Nat \ {0}
        /\ listing \subseteq table /\ IsFiniteSet(listing) /\ kept \subseteq listing
    BY <1>2, TableKeyed, ScanType, ListingType, PlaceType DEF IInv
  <1>4. seen' \subseteq table
    <2>1. \A i \in DOMAIN order : order[i] \in listing
      BY <1>3, OrderType
    <2> QED
      BY <1>1, <1>3, <2>1 DEF IInv, TypeOK
  <1>5. TypeOK'
    BY <1>1, <1>2, <1>4 DEF IInv, TypeOK
  <1>6. /\ next * Limit \in Nat /\ (next - 1) * Limit \in Nat
        /\ (next - 1) * Limit + 1 <= next * Limit
    BY <1>3, PagesOfRows, LimitAssumption
  <1> HIDE DEF listing
  <1>7. ASSUME Lasting(query), InOrder, NEW x \in kept, OwnTimestamp(x), x \notin seen'
        PROVE  /\ Cardinality(Newer(x, listing)) \in Nat
               /\ Cardinality(Newer(x, listing)) >= next * Limit
               /\ page(order) # {}
    <2> DEFINE place == Cardinality(Newer(x, listing))
    <2>1. x \in listing /\ listing \subseteq Entry /\ x \notin seen
      BY <1>1, <1>3, <1>7 DEF Keyed
    <2>2. \A other \in listing : other.timestamp = x.timestamp => other = x
      BY <1>3, <1>7 DEF OwnTimestamp
    <2>3. /\ DOMAIN order = 1..Cardinality(listing)
          /\ place + 1 \in DOMAIN order /\ order[place + 1] = x
      BY <1>3, <2>1, <2>2, PlaceInOrder
    <2>4. place \in Nat
      BY <1>3, PlaceType DEF listing
    <2>5. place >= (next - 1) * Limit
      BY <1>2, <1>7, <2>1 DEF IInv, ScanInStep, Read, listing
    <2> HIDE DEF place
    <2>6. ~(place + 1 <= next * Limit)
      <3> SUFFICES ASSUME place + 1 <= next * Limit PROVE FALSE
        OBVIOUS
      <3>1. place + 1 \in page(order)
        BY <1>6, <2>3, <2>4, <2>5
      <3> QED
        BY <1>1, <1>7, <2>3, <3>1
    <2>7. place >= next * Limit
      BY <1>6, <2>4, <2>6
    <2>8. (next - 1) * Limit + 1 \in page(order)
      <3>1. Cardinality(listing) \in Nat
        BY <1>3, FS_CardinalityType
      <3> QED
        BY <1>6, <2>3, <2>4, <2>7, <3>1
    <2> QED
      BY <2>4, <2>7, <2>8 DEF place
  <1>8. ScanIsComplete'
    <2> SUFFICES ASSUME next' = None, Lasting(query), InOrder,
                        NEW x \in kept, OwnTimestamp(x), x \notin seen'
                 PROVE  FALSE
      BY <1>2 DEF ScanIsComplete, InOrder, OwnTimestamp
    <2>1. page(order) = {}
      BY <1>1, <1>2
    <2> QED
      BY <1>7, <2>1
  <1>9. ScanInStep'
    <2> SUFFICES ASSUME next' # None, Lasting(query), InOrder,
                        NEW x \in kept, OwnTimestamp(x), x \notin seen'
                 PROVE  Cardinality(Newer(x, listing)) >= Read'
      BY <1>2 DEF ScanInStep, InOrder, OwnTimestamp, Newer, Listing, listing
    <2>1. Read' = next * Limit
      BY <1>1 DEF Read
    <2> QED
      BY <1>7, <2>1
  <1>10. query' # None /\ next' # None => kept' \subseteq Listing(table', query')
    BY <1>2, <1>3 DEF listing
  <1>11. (query = None => next = None)' /\ (next = None => phase = "items")'
    BY <1>1, <1>2
  <1> QED
    BY <1>2, <1>5, <1>8, <1>9, <1>10, <1>11 DEF IInv

(* Without a next page every row of the listing is on the pages read.      *)
LEMMA CountInv == IInv /\ Count => IInv'
  <1> SUFFICES ASSUME IInv, Count PROVE IInv'
    OBVIOUS
  <1> DEFINE n == Cardinality(Listing(table, query))
  <1>1. /\ phase = "count" /\ phase' = "items"
        /\ next' = IF next * Limit < n THEN next + 1 ELSE None
        /\ table' = table /\ query' = query /\ seen' = seen /\ kept' = kept
    BY DEF Count
  <1>2. /\ next # None /\ query \in Queries /\ query # None
        /\ next \in 1..MaxRows /\ next \in Nat \ {0} /\ Read = next * Limit
    BY <1>1, ScanType DEF IInv
  <1>3. Keyed(table) /\ n \in Nat /\ n <= MaxRows
    BY TableKeyed, PlaceType
  <1>4. next * Limit \in Nat /\ next * Limit >= next
    BY <1>2, PagesOfRows
  <1>5. next * Limit < n => next + 1 \in 1..MaxRows
    BY <1>2, <1>3, <1>4, MaxRowsAssumption
  <1>6. TypeOK'
    BY <1>1, <1>5 DEF IInv, TypeOK
  <1>7. ASSUME Lasting(query), InOrder, NEW x \in kept, OwnTimestamp(x), x \notin seen
        PROVE  /\ Cardinality(Newer(x, Listing(table, query))) >= next * Limit
               /\ next * Limit < n
    <2>1. Cardinality(Newer(x, Listing(table, query))) >= next * Limit
      BY <1>2, <1>7 DEF IInv, ScanInStep
    <2>2. x \in Listing(table, query) /\ x \in Entry
      BY <1>2 DEF IInv, TypeOK
    <2>3. /\ Cardinality(Newer(x, Listing(table, query))) \in Nat
          /\ Cardinality(Newer(x, Listing(table, query))) < n
      BY <1>3, <2>2, PlaceType
    <2> QED
      BY <1>3, <1>4, <2>1, <2>3
  <1>8. ScanIsComplete'
    <2> SUFFICES ASSUME next' = None, Lasting(query), InOrder,
                        NEW x \in kept, OwnTimestamp(x), x \notin seen
                 PROVE  FALSE
      BY <1>1 DEF ScanIsComplete, InOrder, OwnTimestamp
    <2>1. next + 1 # None
      BY <1>2, QueriesAssumption
    <2> QED
      BY <1>1, <1>7, <2>1
  <1>9. table' = table /\ query' = query /\ seen' = seen /\ kept' = kept
    BY DEF Count
  <1>10. ScanInStep'
    <2> SUFFICES ASSUME next' # None, Lasting(query), InOrder,
                        NEW x \in kept, OwnTimestamp(x), x \notin seen
                 PROVE  Cardinality(Newer(x, Listing(table, query))) >= Read'
      BY <1>9 DEF ScanInStep, InOrder, OwnTimestamp, Newer, Listing
    <2>1. next' = next + 1
      BY <1>1
    <2>2. next' - 1 = next
      BY <1>2, <2>1
    <2>3. Read' = next * Limit
      BY <1>1, <2>2 DEF Read
    <2> QED
      BY <1>7, <2>3
  <1>11. query' # None /\ next' # None => kept' \subseteq Listing(table', query')
    BY <1>1, <1>2 DEF IInv
  <1> QED
    BY <1>1, <1>2, <1>6, <1>8, <1>10, <1>11 DEF IInv

LEMMA StutterInv == IInv /\ UNCHANGED vars => IInv'
  <1> SUFFICES ASSUME IInv, UNCHANGED vars PROVE IInv'
    OBVIOUS
  <1>1. TypeOK' /\ ScanIsComplete' /\ ScanInStep'
    BY DEF IInv, vars, TypeOK, ScanIsComplete, ScanInStep, InOrder, OwnTimestamp, Newer, Listing,
           Read
  <1> QED
    BY <1>1 DEF IInv, vars

LEMMA StepInv == IInv /\ [Next]_vars => IInv'
  BY CommitInv, StartInv, ItemsInv, CountInv, StutterInv DEF Next

(* IInv holds in every state: what TypeCorrectness and ScanWasComplete     *)
(* follow from.                                                            *)
THEOREM ScanInvariance == Spec => []IInv
  BY InitInv, StepInv, PTL DEF Spec

(* Every variable keeps a value of its kind, and the client is never sent  *)
(* to a page that the table has no rows for (json_collection).             *)
THEOREM TypeCorrectness == Spec => []TypeOK
  <1>1. IInv => TypeOK
    BY DEF IInv
  <1> QED
    BY <1>1, ScanInvariance, PTL

(* Whatever is submitted meanwhile, a scan to the last page gives every    *)
(* waiver that was in the listing all the time (WaiversResource.get,       *)
(* json_collection).                                                       *)
THEOREM ScanWasComplete == Spec => []ScanIsComplete
  <1>1. IInv => ScanIsComplete
    BY DEF IInv
  <1> QED
    BY <1>1, ScanInvariance, PTL

----------------------------------------------------------------------------
(* What the endpoints answer, for every set of rows.                       *)

LEMMA NoCriteria ==
    ASSUME NEW filter, ~HasCriteria(filter), NEW row
    PROVE  Matches(filter, row)
  BY DEF HasCriteria, Matches, Since

(* The key of +filtered is a part of the other: it makes larger groups.    *)
LEMMA LargerGroups ==
    ASSUME NEW rows
    PROVE  Obsolete(rows) \subseteq ObsoleteFiltered(rows)
  <1>1. ASSUME NEW a, NEW b, GroupKey(a) = GroupKey(b) PROVE FilteredKey(a) = FilteredKey(b)
    BY <1>1 DEF GroupKey, FilteredKey
  <1> QED
    BY <1>1 DEF Obsolete, ObsoleteFiltered

(* One filter of +filtered selects what GET selects by it.                 *)
(* Filters among which one without criteria stands alone.                  *)
Meaningful(filters) ==
    filters # {} /\ \A filter \in filters : HasCriteria(filter) \/ filters = {filter}

(* They select what each of them does.                                     *)
LEMMA FiltersSelect ==
    ASSUME NEW rows, NEW filters, Meaningful(filters)
    PROVE  /\ \A row : row \in FilteredWaivers(rows, filters, TRUE) <=>
                 row \in rows /\ \E filter \in filters : Matches(filter, row)
           /\ \A row : row \in FilteredWaivers(rows, filters, FALSE) <=>
                 /\ row \in rows \ ObsoleteFiltered(rows)
                 /\ \E filter \in filters : Matches(filter, row)
  <1>1. CASE \A filter \in filters : HasCriteria(filter)
    <2>1. {filter \in filters : HasCriteria(filter)} = filters
      BY <1>1
    <2> QED
      BY <2>1 DEF FilteredWaivers, Meaningful
  <1>2. CASE \E filter \in filters : ~HasCriteria(filter)
    <2>1. PICK filter \in filters : ~HasCriteria(filter) /\ filters = {filter}
      BY <1>2 DEF Meaningful
    <2>2. {f \in filters : HasCriteria(f)} = {}
      BY <2>1
    <2>3. \A row \in rows : Matches(filter, row)
      BY <2>1, NoCriteria
    <2> QED
      BY <2>1, <2>2, <2>3 DEF FilteredWaivers
  <1> QED
    BY <1>1, <1>2

(* +filtered answers what GET answers to each of its filters with obsolete *)
(* waivers included, and hides at least as much without                    *)
(* (WaiversResource.get, FilteredWaiversResource.post): for every table.   *)
THEOREM EndpointsAgreed == Spec => []EndpointsAgree
  <1>1. ASSUME NEW filters, Meaningful(filters)
        PROVE  /\ FilteredWaivers(table, filters, TRUE) =
                     UNION {GetWaivers(table, filter, TRUE) : filter \in filters}
               /\ FilteredWaivers(table, filters, FALSE) \subseteq
                     UNION {GetWaivers(table, filter, FALSE) : filter \in filters}
    <2>1. \A row : row \in FilteredWaivers(table, filters, TRUE) <=>
            row \in table /\ \E filter \in filters : Matches(filter, row)
      BY <1>1, FiltersSelect
    <2>2. \A row : row \in FilteredWaivers(table, filters, FALSE) <=>
            /\ row \in table \ ObsoleteFiltered(table)
            /\ \E filter \in filters : Matches(filter, row)
      BY <1>1, FiltersSelect
    <2>3. \A filter, row :
            row \in GetWaivers(table, filter, TRUE) <=> row \in table /\ Matches(filter, row)
      BY DEF GetWaivers
    <2>4. \A filter, row :
            row \in GetWaivers(table, filter, FALSE) <=>
              row \in table \ Obsolete(table) /\ Matches(filter, row)
      BY DEF GetWaivers
    <2>5. ASSUME NEW row
          PROVE  row \in FilteredWaivers(table, filters, TRUE) <=>
                   row \in UNION {GetWaivers(table, filter, TRUE) : filter \in filters}
      BY <2>1, <2>3
    <2>6. ASSUME NEW row \in FilteredWaivers(table, filters, FALSE)
          PROVE  \E filter \in filters : row \in GetWaivers(table, filter, FALSE)
      BY <2>2, <2>4, LargerGroups
    <2> QED
      BY <2>5, <2>6
  <1>2. EndpointsAgree
    BY <1>1, Zenon DEF EndpointsAgree, Meaningful
  <1> QED
    BY <1>2, PTL

LEMMA RecognizedPair ==
    ASSUME NEW result \in TestResult, subject_dict_to_type_identifier(result.subject) # None
    PROVE  Truthy(subject_dict_to_type_identifier(result.subject)[2])
  BY DEF subject_dict_to_type_identifier

LEMMA AsFilterIs ==
    ASSUME NEW result, NEW column \in Columns \cup {"since"}
    PROVE  AsFilter(result)[column] =
             CASE column = "subject_type" -> subject_dict_to_type_identifier(result.subject)[1]
               [] column = "subject_identifier" -> subject_dict_to_type_identifier(result.subject)[2]
               [] column = "testcase" -> result.testcase
               [] column = "since" -> <<None, None>>
               [] OTHER -> None
  BY DEF AsFilter, NoFilter, Columns

(* A subject and a testcase select what their pair and testcase do.        *)
LEMMA ResultAsFilter ==
    ASSUME NEW result \in Recognized(Results), Typed(result), NEW row
    PROVE  MatchesResult(result, row) <=> Matches(AsFilter(result), row)
  <1> DEFINE pair == subject_dict_to_type_identifier(result.subject)
             filter == AsFilter(result)
  <1>1. pair # None /\ Truthy(pair[1]) /\ Truthy(pair[2])
    BY RecognizedPair, ResultsAssumption DEF Recognized, Typed
  <1>2. /\ filter["subject_type"] = pair[1] /\ filter["subject_identifier"] = pair[2]
        /\ filter["testcase"] = result.testcase /\ filter["since"] = <<None, None>>
    BY AsFilterIs DEF Columns
  <1>3. \A column \in Columns \ {"subject_type", "subject_identifier", "testcase"} :
          ~Truthy(filter[column])
    BY AsFilterIs DEF Columns, Truthy
  <1> HIDE DEF pair, filter
  <1>4. Since(filter.since, row)
    BY <1>2 DEF Since
  <1>5. (\A column \in Columns : Truthy(filter[column]) => row.waiver[column] = filter[column])
          <=> /\ row.waiver["subject_type"] = pair[1]
              /\ row.waiver["subject_identifier"] = pair[2]
              /\ Truthy(result.testcase) => row.waiver["testcase"] = result.testcase
    BY <1>1, <1>2, <1>3 DEF Columns
  <1>6. Matches(filter, row) <=> /\ row.waiver["subject_type"] = pair[1]
                                 /\ row.waiver["subject_identifier"] = pair[2]
                                 /\ Truthy(result.testcase) => row.waiver["testcase"] = result.testcase
    BY <1>4, <1>5 DEF Matches
  <1> QED
    BY <1>1, <1>6 DEF MatchesResult, pair, filter

(* Asking by subjects and testcases is asking for each recognized pair     *)
(* (Waiver.by_results, GetWaiversBySubjectsAndTestcases.post): for every   *)
(* table.                                                                  *)
THEOREM SubjectsWereFilters == Spec => []SubjectsAreFilters
  <1>1. ASSUME NEW results \in SUBSET Results, NEW obsolete \in BOOLEAN, results # {},
               \A result \in Recognized(results) : Typed(result)
        PROVE  BySubjectsAndTestcases(table, results, NoFilter, obsolete) =
                 UNION {GetWaivers(table, AsFilter(result), obsolete) :
                          result \in Recognized(results)}
    <2> DEFINE rows == table \ (IF obsolete THEN {} ELSE Obsolete(table))
    <2>1. \A row : Matches([NoFilter EXCEPT !.testcase = None], row)
      BY NoCriteria DEF HasCriteria, NoFilter, Columns, Truthy
    <2>2. BySubjectsAndTestcases(table, results, NoFilter, obsolete) =
            {row \in rows : \E result \in results : MatchesResult(result, row)}
      BY <1>1, <2>1 DEF BySubjectsAndTestcases, by_results
    <2>3. ASSUME NEW row, NEW result \in results
          PROVE  MatchesResult(result, row) <=>
                   result \in Recognized(results) /\ Matches(AsFilter(result), row)
      <3>1. CASE result \in Recognized(results)
        <4>1. result \in Recognized(Results)
          BY <3>1 DEF Recognized
        <4> QED
          BY <1>1, <3>1, <4>1, ResultAsFilter
      <3>2. CASE result \notin Recognized(results)
        BY <3>2 DEF Recognized, MatchesResult
      <3> QED
        BY <3>1, <3>2
    <2>4. \A result : GetWaivers(table, AsFilter(result), obsolete) =
                        {row \in rows : Matches(AsFilter(result), row)}
      BY DEF GetWaivers
    <2>5. Recognized(results) \subseteq results
      BY DEF Recognized
    <2> HIDE DEF rows
    <2> QED
      BY <2>2, <2>3, <2>4, <2>5
  <1>2. SubjectsAreFilters
    BY <1>1 DEF SubjectsAreFilters
  <1> QED
    BY <1>2, PTL

============================================================================
