# WaiverDB in TLA+

WaiverDB stores *waivers*: statements by a user that a failed test result of a
build may be ignored.  Greenwave and people read them; a waiver is never changed
or deleted, a newer one makes an older one *obsolete*.  This directory holds
TLA+ models of the service, TLC configurations that check them on small
instances, and theorems checked by TLAPS.  All paths below are relative to
`src/waiverdb/` unless they say otherwise.

## 1. Inventory

| Component | State it keeps | Operations | Talks to | Hard behaviour |
|---|---|---|---|---|
| Submission (`api_v1.py` 225-367, 395-402; `models/requests.py`) | none of its own; a scoped SQLAlchemy session per request | `POST /waivers/`, `POST /waivers/new` | authentication, ResultsDB, LDAP, database, hook | several workers and threads; lists stored in one transaction; failure or death between commit and answer; retries by clients |
| Waiver model (`models/waivers.py`, `fields.py`) | table `waiver`: rows with an id from a sequence and a timestamp from the process | subject dict to type/identifier and back, `by_results`, rendering | | two ids for time (id, timestamp); aliases; NULL and empty strings |
| Authorization (`authorization.py`, `api_v1.py` 56-116) | none; reads PERMISSIONS | `verify_authorization`, matching, LDAP searches | LDAP, OIDC claims | rights that change between the searches of one check; order of sources; proxying |
| Authentication (`auth.py`) | browser session, token | `get_user`, `get_oidc_userinfo`, `get_oidc_groups` | Kerberos, OIDC provider | fallbacks between methods and claim sources; tokens that expire while a batch is checked; sources that raise |
| Read endpoints (`api_v1.py` 197-223, 405-617; `utils.py`) | none | `GET /waivers/`, `GET /waivers/<id>`, `+filtered`, `+by-subjects-and-testcases` | database | pages read at different moments; three implementations of one set of criteria |
| after_commit hook (`events.py`, `app.py` 186-195) | none | `publish_new_waiver(session)` inside `commit()` | publisher | runs when the commit can no longer be undone |
| Publishers (`messaging/*.py`) | Kafka: one producer and queue per process; others none | `publish_new_waiver(session)` | brokers | retries, duplicates, time limits, late delivery reports, a shared queue |
| Metrics (`monitor.py`) | counters | `inc`, `GET /metrics` | | counters shared by all calls |
| Session store (`app.py` 150-158) | table `sessions` in the same database session | load and save a browser session | database | a commit behind the handler, whose failure replaces the answer |
| Application factory, configuration, tracing, `manage.py`, `wsgi.py` | configuration | start-up | | once, before any request |
| Migrations (`migrations/env.py`, `migrations/versions`) | the table's schema and data, its revision | upgrade, downgrade | database, ResultsDB | a transaction for each of nine revisions, with the service inserting rows between them; conversions of old data by code that has changed since |
| Web form, health check, about, config, permissions pages | none | reads | | none |
| `src/waiverdb-messages` | none | message schemas | | not imported by the service |

What makes each component correct, and the property that says it:

- *Submission.*  A list is stored whole or not at all (`BatchIsWhole`); the
  answer tells the truth about the table (`AnswerIsTrue`); every request is
  answered (`EveryRequestEnds`); all of it together is the promise of
  `WaiverLog` (`ImplementsLog`).
- *Waiver model.*  A new waiver supersedes what its author could see
  (`SupersedesAcknowledged`), and for good (`ObsoleteForever`); the subject a
  waiver is shown with finds all waivers of that subject, except that one with an
  empty identifier is found by no subject (`FoundBySubject`).
- *Authorization.*  Nothing is stored without a right that held while the
  request ran (`StoredIsAuthorized`), and nobody whose right held throughout is
  refused (`RefusedIsUnentitled`).
- *Authentication.*  Nothing is stored in a name the request does not prove, or
  in another's without saying so (`StoredIsAttributed`); 401 never meets a
  request that proves its user (`UnauthorizedIsUnproven`).
- *Migrations.*  A waiver keeps its meaning through any history of upgrades,
  downgrades and submissions (`NamesTheSame`), its columns fit the revision
  (`TypeOK`), and old subjects are never rewritten (`SubjectIsPreserved`).
- *Read endpoints.*  A client that follows the pages misses nothing
  (`ScanIsComplete`, with its exceptions); the endpoints select alike
  (`EndpointsAgree`, `SubjectsAreFilters`).
- *Hook and publishers.*  What is announced is stored (`PublishedIsStored`),
  what is acknowledged was announced (`AcknowledgedIsPublished`); each publisher
  keeps the contract of the hook (`ImplementsPublisher`), so a call that returns
  has sent all its rows (`ReturnedIsSent`), or spent its tries
  (`ReturnedIsSentOrGivenUp`); the Kafka counter claims no more than the broker
  has (`SentIsDelivered`), the STOMP counters forget no message
  (`SendsAreCounted`), nothing is sent more often than tried (`OncePerTry`), and
  each call ends (`EveryCallEnds`).

## 2. Modules

```
Waivers                       data: submissions, subjects, rows, obsolescence
 |-- Authentication           who sent a request, and the groups in its claims
 |    `-- Authorization       who may waive what
 |         `-- WaiverService  POST, transaction, hook, answer      --implements--> WaiverLog
 |              `-- MCWaiverService
 |-- WaiverQueries            what the read endpoints select (WaiverService uses it too)
 |    `-- WaiverPages         a paging client among submissions
 |         `-- MCWaiverPages
 `-- Migrations               the table through its revisions
      `-- MCMigrations
KafkaPublisher  (MCKafkaPublisher)   --implements--> Publisher
StompPublisher  (MCStompPublisher)   --implements--> Publisher
```

The theorems and the inductive invariants they need are in modules of their own,
but for the one theorem of `Publisher`:

```
AuthenticationProofs               lemmas: what get_user and the claims may say
 `-- WaiverServiceProofs           the table, ids and answers; what was published; WaiverLog
      `-- WaiverServiceRightsProofs    what was proven and allowed
Publisher                          what the contract promises
 |-- KafkaPublisherProofs          the contract is kept, and its promise with it
 `-- StompPublisherProofs          the same, and the counters
MigrationsProofs, WaiverPagesProofs
```

**Waivers** translates the data.  Strings that the code compares are themselves
("koji_build", "brew-build", "compose", ""); everything else is one of a small
set.  `None` is Python's None and SQL's NULL.  `subject_dict_to_type_identifier`,
`subject_type_identifier_to_dict`, the validators (`ValidCreateWaiver`) and the
resolution of result ids (`ResolveResult`) follow the code branch by branch,
the exceptions nobody catches included (a ResultsDB result without "item" is a
KeyError, hence 500).

**Authentication** is `auth.py`.  A request brings a record: the OIDC session of
its cookie, its Authorization header as each method reads it, and what nginx
says of its certificate.  A claim is a field of the first source that has it
(`FirstClaim`), and a source behind it is not read: that is why an access token
that is not a JWT (`Raises`) is harmless behind a profile with the claim and an
error in front of a good Bearer token.  `acquire_token` is the provider: it may
know the token, reject it, or be out of reach, and may answer differently for
the user name and for the groups of each submission.  `Proven` and
`ClaimedGroups` ask the same questions without an order of asking; only
properties use them.

**Authorization** treats a pattern as the set of the test cases it matches.
`verify_authorization` is the part before LDAP: "allow", "forbid", "raise" when
the claim cannot be read, or "search"; the searches themselves are steps of
`WaiverService`, since groups change between them.

**WaiverService** has one action per step of a request that another worker can
interleave with:

| Action | Code |
|---|---|
| `Receive`, `Authenticate`, `Reject` | body validation (before the handler), `get_user`; reading the browser session |
| `CreateNext` | one turn of the list comprehension over `_create_waiver`: proxying, ResultsDB, subject, the groups claim, authorization, alias |
| `LdapSearch`, `LdapRaises` | one search of `_query_ldap_groups` and what follows the last or a successful one; binding, searching or unbinding fails |
| `Flush`, `Insert`, `DatabaseError` | the flush in `commit()`: timestamps of the batch, then an INSERT per row that draws an id, or an error |
| `Commit`, `CommitUnanswered`, `CommitRaises` | COMMIT, known or not to have happened |
| `PublishRow`, `PublishRaises`, `EndPublish` | the hook with the Fedora Messaging publisher, inside `commit()` |
| `Respond`, `RespondRaises` | `marshal_with` |
| `Crash` | the worker dies in any phase |
| `ChangeMembership`, `Expire` | LDAP groups change; the provider stops accepting a token |

`Refuse` is every error on its way out: with a browser session, saving it to the
database comes behind the handler and its failure replaces the answer.  (The
commit of that save runs the hook once more; the waivers are no longer referenced
then and so not in the session's weak identity map, and nothing is published.)

The id sequence is not transactional, so a failed transaction leaves a gap.
The clock is one for all processes and never goes back: it is more orderly than
reality, and the disagreement of ids and timestamps (below) exists even so.

**WaiverLog** is the abstract specification of submission: an append-only
collection, a whole batch in one step, three kinds of answer.  The refinement
mapping reads `table` as the collection and maps 201 to "created", 500 and a
broken connection to "unknown" and every other status to "refused".

**WaiverQueries** holds the criteria.  Two details come from SQLAlchemy: a
filter of `+filtered` without criteria is dropped from the OR, and an OR of
nothing selects everything.  In `+by-subjects-and-testcases`, "testcase" at the
top level is accepted and ignored.

**WaiverPages** is a client that follows "next".  A page is two queries (`Items`,
`Count`), each on its own snapshot; the other clients are `Commit`, which adds a
row with any unused id and any timestamp, as `WaiverService` shows transactions
may commit.  Rows of equal timestamp are returned in any order at each query.  A
page with a row that cannot be rendered (its subject type is empty) is a 500 and
gives the client nothing: `Items` waits until the page has no such row.

**Migrations** has the nine revisions of the chain.  A command (`Begin`) goes to
a revision step by step, each in its transaction; it ends there, or in
`MigrationFails`, or is killed, and leaves what is done.  Any release made for
this or an earlier revision may insert rows meanwhile (`Submit`), as long as the
columns of the moment take them; no release stores the alias "brew-build" of a
type (`api_v1.py` 353-355), so `Pairs` has none.  A row keeps beside its columns
(`now`) those it was inserted with (`said`), and `Meaning` is the subject the
service of today would read from either.  Since revisions 7 and 8 can no longer
be applied to a table with rows, `Init` also has tables that an earlier release
brought to 8, whose rows have values where revision 8 wants them.

**Publisher** is the contract of the hook: a call gets rows no other call has,
since a row belongs to one transaction; it returns when each row was sent, or
dropped after the publisher's own way of giving up; or it raises and nothing is
known.  **KafkaPublisher** and **StompPublisher** are the detailed ones.  In the
first the producer's queue and reports are shared by all calls: `Serve` runs the
callback of a report in the flush of any call.  In the second "sent" means written
to the connection, since no receipt is asked for.  `conn.send` is two steps there:
the message is written (`Send`), and then it is counted as sent (`SendReturns`) or
as failed (`SendRaises`, also for an exception before anything was written).  A
process that dies between the two leaves a message that no counter knows, and its
call is "uncounted" from then on.  The
counters outlive the process: they are kept in files (`monitor.py` 21-25).

The mappings are named: `Given` is what a call was offered (`Nothing` before it
begins), `Outcome` how it ended; a message is `Dropped` by the STOMP publisher once
its call has used up its tries without sending it, and by the Kafka publisher never.
`MAX_STOMP_RETRY` is configuration and may be 0: then all is dropped from the
start.  The Fedora Messaging publisher is part of `WaiverService`.

## 3. Runs

| Run | Question | Instance |
|---|---|---|
| `service_batches` | Do two concurrent submissions keep batches whole, ids in order, bus, answers and table consistent, and implement `WaiverLog`? | 2 requests, batches of 0, 1, 2 in one group, hook on |
| `service_forms` | Does every form of submission end, with a true answer, and what does the subject it is shown with find? | 1 request, 72 forms alone and behind a good one, 6 ResultsDB results |
| `service_authorization` | Are stored waivers authorized and attributed, and only those refused that lack a right or a proof? | 1 request, 15 kinds of credentials, all methods, 2 users, a superuser, 2 groups found by 2 searches, a token that expires |
| `pages_scan` | What can a paging client miss, and do the read endpoints agree on each table? | tables of up to 3 rows of 4 waivers, one not renderable, pages of 1, ten sets of criteria |
| `migrations` | What do rows keep through upgrades, downgrades and submissions? | 2 rows, 9 revisions, 6 ResultsDB results, 4 old subjects, 6 pairs |
| `kafka_delivery` | What does a returned call guarantee with a shared queue, and what do the counters? | 3 calls, 5 messages, one not renderable, queue of 2 |
| `stomp_retry` | What does a returned call guarantee with retries, and what do the counters? | 2 calls, 3 messages, 3 tries |

Why the bounds are enough: atomicity and id order are relations between two
requests, and between two items of a batch; a batch of two has a "before", a
"between" and an "after" for each failure.  Missing a waiver while paging takes
the waiver, a row in front of it and a row that replaces that one: three.  A
queue of two is full, partly full and empty in front of a batch of two.  Rights
belong to one request and its own groups and tokens, so one request is enough,
with two submissions, two users and two searches that can disagree.  Migrations
treat rows one by one, but a command fails for all when one row does: two rows
have one that does and one that does not.

Each exception of `ScanIsComplete` is needed: with proxied_by or an end of
"since" among the criteria, or with ids and timestamps of a group in different
order, a submission can take a row out of the listing without putting a newer
one in, everything behind moves up, and the client misses a row at the boundary.
Rows that share a timestamp are left out too: the code sorts by timestamp alone,
so two queries may order them differently and neither page show one of them.
That hazard is real and no property excludes it.

Fairness: each step of a handler is weakly fair, since everything a handler
waits for has a time limit (LDAP, HTTP, database, gunicorn's own); nothing
makes clients send, crashes happen or membership change.  `Kafka`: librdkafka's
deliveries are not fair, `flush()` has a time limit.  `STOMP`: connecting is not
fair, since `connect(wait=True)` has no limit, and `EveryCallEnds` says so.

`RefusedIsUnentitled` is about users who had the right throughout: one who moves
from the group the second search finds to the group the first one finds, between
the two, is refused although entitled at every moment.

`SubjectsAreFilters` is about recognized subjects with a type: an empty type is
stored, though never shown (rendering it is a 500), and as a criterion of `GET`
it is none.

`FoundBySubject` has one exception, and states what happens there: an empty
identifier is stored and shown as `{"type": ..., "item": ""}`, and passed back
that subject is not recognized, so it selects nothing, not another subject's
waivers.

`Proven`, which `StoredIsAttributed` and `UnauthorizedIsUnproven` ask, has no
order.  That a session excludes the other methods is checked; which of two names
that one session proves goes first is not.

Deadlock checking is off where the system may stop: a publisher whose calls have
ended and a table that has reached its bound.

### Where the code and what is said of it differ

Each of these runs ends in a counterexample.

- `finding_filtered`: `+filtered` "behaves the same way as GET" (447) - it
  hides waivers of other users and product versions, that GET shows.  The advice
  to replace `+by-subjects-and-testcases` by an "equivalent request" (552-596)
  has the same exception.
- `finding_subject_type`: "Subject type should be non-empty string"
  (`models/waivers.py` 47) - an empty one is stored.
- `finding_unrecognized`: an unrecognized subject "will fail with 400"
  (`docs/release-notes.rst` 199) - it is a 500.
- `finding_proxied`: the user a superuser names must "still have the permission"
  (`docs/admin-guide.rst` 65) - the superuser's own OIDC groups are enough.

- `finding_migration`: an invalid subject is "mapped to something which is valid"
  (`f6bc296ba966` 42) - every subject, valid or not, stops the upgrade, because
  the conversion it imports now takes an object (AttributeError, not ValueError).

Other observations, without a run of their own: "more recent" (`api_v1.py` 85)
means the larger id, and the timestamps of two waivers may be in the other
order, since the process takes them before the database draws the ids. An opaque
access token in the session ends in 500 (`auth.py` 92) where the admin guide
(39-40) has LDAP as the fallback for an absent claim.  A Kerberos ticket that
asks for no mutual authentication leaves a str where bytes are encoded, hence
500 (`auth.py` 26, 165).  `subject_type_identifier_to_dict` is the "inverse of the
above function" (`models/waivers.py` 39), but not for an empty identifier, whose
subject the function above does not recognize (31-34, `FoundBySubject`).  A waiver
of an empty type makes every page that holds it a 500, so no client that follows
"next" gets past it.  Revision `ce8a1351ecdc` indexes rows by name, which
SQLAlchemy 2 does not allow, so it too fails on a table with rows.

The failed counter of the Kafka publisher has no such bound as `SentIsDelivered`
gives the other: a time limit counts one failure for all messages still queued,
and each of them is counted once more when its report comes in a later flush.

## 4. Proofs

TLAPS checks these for every value of the constants: any set of requests, users,
bodies, permissions, credentials and ResultsDB contents, any number of requests
in any interleaving, tables, pages, queues and retries of any size.

| Module | Theorem | Says |
|---|---|---|
| `WaiverServiceProofs` | `Invariance` | `Spec => []IInv` |
| | `TypeCorrect` | `Spec => []TypeOK` |
| | `BatchesAreWhole` | `Spec => []BatchIsWhole` |
| | `AnswersAreTrue` | `Spec => []AnswerIsTrue` |
| | `LaterSupersedes` | `Spec => []SupersedesAcknowledged` |
| | `AnnouncedIsStored` | `Spec => []PublishedIsStored` |
| | `ObsoleteStays` | `Spec => ObsoleteForever`, from `TableGrows`: no step removes a row |
| | `AcknowledgedWasPublished` | `Spec => []AcknowledgedIsPublished` |
| | `ServiceImplementsLog` | `Spec => ImplementsLog` |
| `WaiverServiceRightsProofs` | `RightsInvariance` | `Spec => []RInv` |
| | `StoredWasAuthorized` | `Spec => []StoredIsAuthorized` |
| | `StoredWasAttributed` | `Spec => []StoredIsAttributed` |
| | `RefusedWasUnentitled` | `Spec => []RefusedIsUnentitled` |
| | `UnauthorizedWasUnproven` | `Spec => []UnauthorizedIsUnproven` |
| | `StoredIsFoundBySubject` | `Spec => []FoundBySubject` |
| `Publisher` | `PromiseKept` | `Spec => []Promise` |
| `KafkaPublisherProofs` | `TypeCorrectness` | `Spec => []TypeOK` |
| | `SentWasDelivered` | `Spec => []SentIsDelivered` |
| | `KafkaImplementsPublisher` | `Spec => ImplementsPublisher` |
| | `ReturnedWasSent` | `Spec => []ReturnedIsSent` |
| `StompPublisherProofs` | `TypeCorrectness` | `Spec => []TypeOK` |
| | `SentOncePerTry` | `Spec => []OncePerTry` |
| | `SendsWereCounted` | `Spec => []SendsAreCounted` |
| | `StompImplementsPublisher` | `Spec => ImplementsPublisher` |
| | `ReturnedWasSentOrGivenUp` | `Spec => []ReturnedIsSentOrGivenUp` |
| `MigrationsProofs` | `TypeCorrectness` | `Spec => []TypeOK` |
| | `SubjectWasPreserved` | `Spec => []SubjectIsPreserved` |
| | `WaiversNameTheSame` | `Spec => []NamesTheSame` |
| `WaiverPagesProofs` | `ScanInvariance` | `Spec => []IInv` |
| | `TypeCorrectness` | `Spec => []TypeOK` |
| | `ScanWasComplete` | `Spec => []ScanIsComplete` |
| | `EndpointsAgreed` | `Spec => []EndpointsAgree` |
| | `SubjectsWereFilters` | `Spec => []SubjectsAreFilters` |

With them each safety property and each refinement that a passing run checks is
also a theorem; only liveness is not.

### Assumptions

They are the named ASSUMEs on the constants.  Inputs are of their types
(`BodyAssumption`, `PermissionsAssumption`, `ResultsDBAssumption`,
`CredentialsAssumption`, `TokenAssumption`, `LDAPAssumption`, `QueriesAssumption`,
`ResultsAssumption`, `InputsAssumption`); the special strings are in `Text`; with
the test method every header has a name.  `None`, `Raises`, `Lost` and `Nothing`
are none of the values they are told apart from (`NoneAssumption`,
`PairAssumption`, `RaisesAssumption`, `StatusAssumption`, `LogAssumption`, `NothingAssumption`,
`NoneIsNoValue`): TLC's model values are so by themselves.  Numbers are in the
range the code has them in: any number of tries, none included
(`RetryAssumption`), at least one row on a page.

### The service

`IInv` adds to the properties of `WaiverServiceProofs`, which are not inductive,
what they rest on:

- `BatchInStep`: how many waivers are built and rows inserted in each phase, that
  a caller is known and the body valid while the batch is built, that a check
  under way is one, and that from the commit on all of the transaction's rows are
  in the table;
- `RowsInBatch`: a row of a transaction carries its request and its position;
- `StoredInStep`: nothing of a request is in the table before its commit, all of
  it after, and a request without answer is not done;
- `IdsInOrder`: what `SupersedesAcknowledged` says, for the rows that have drawn
  an id whether or not they are committed, with the sequence as upper bound of
  all of them and of all acknowledged ids.  The strengthening to rows in flight
  is the point: two transactions that commit in either order must already have
  different ids.

There is one lemma per action (`InsertStep`, `CommitStep`, ...); `LocalStep`
covers the actions that leave table, sequence and rows alone, and `FinishStep`
the many ways a handler ends.  Resolution and construction give values of the
right type (`ResolutionType`, `NewWaiverType`).

`RInv` is about what a request has proven and may do.  Its difficulty is that
rights and tokens change between the steps of one check.  The model remembers,
for each request, the tokens that were accepted at some moment (`honoured`), and
the groups each user was in at some moment (`member`) and at every moment
(`stayed`); `MomentsInStep` says that the present lies between them.
`RightsInStep` carries what is settled from phase to phase: the caller is proven
while the batch is built; each waiver built and each row inserted is already
`Lawful`; and while LDAP is searched (`CheckInStep`) nothing else has allowed the
submission, every group found is or was the user's (hence `StoredIsAuthorized`),
and every group the user stayed in is found if a search that is done could find
it (hence `RefusedIsUnentitled`: behind the last search such a group would have
been found).  That waivers under construction are lawful, and not only those in
the table, is what makes it inductive.

`AuthenticationProofs` has the lemmas on `get_user` and the claims.  "The first
source" and "the first method" are minima of sets of positions (`MinExists`, from
the well-founded order of the natural numbers); `FirstClaimIs` says what the first
claim is without them; `ClaimIsClaimed`, `ClaimIsTheOnly` and `UserAgrees` relate
asking in an order to `ClaimedGroups` and `Proven`, which have none; and
`ClaimedGrows` and `ProvenGrows` say that more accepted tokens prove no less.

`PInv` adds to `AcknowledgedIsPublished` that behind its commit a request still
has every row it stored, and that it leaves the hook for a response only when the
broker was handed each of them.

`ServiceImplementsLog` is a step simulation: each action is matched with a step of
the log, or leaves `table` and the answers as the log sees them alone.  A commit,
known to have happened or not, is the step that appends a batch, which must be
whole and not yet there (`BatchIsWhole`, `StoredInStep`) and in order
(`IdsInOrder`); answers are matched with what `StoredInStep` says of the phase
they are given in.

### The publishers

The contract.  `PromiseKept` says what it is worth, whichever publisher keeps it:
the rows of a call that returned are out or given up, and stay so, and nothing is
out that was not offered.  The difficulty is `Raise`: calls that raise take back
what they had given up, several at once when the process dies.  That takes nothing
from a call that returned because no two calls are offered the same row, the part
of the invariant that `Begin` must keep.

Kafka.  `SentIsDelivered` bounds a counter that any flush may raise for any
call's message.  `ProducedOnce` is what it needs: a message enters the queue once,
and a delivery is reported once, so counted plus reported is no more than the
broker has.  `AccountedFor` is for the contract: what a running call produced is
in the queue, on the bus, or failed with its flag or a report to say so; so a call
whose flush found nothing left and its flag not set returns with all on the bus.
`ReturnedWasSent` is then `PromiseKept` seen through the refinement mapping, where
nothing is ever dropped.

STOMP.  `OncePerTry` alone says nothing of the try that is running; `CallInStep`
has the messages it has yet to send strictly below the number of tries, and those
it need not send again, like all of them when the connection closes without an
exception, on the bus: hence a call returns only when all were sent or its tries
are used up, which is the refinement; `ReturnedWasSentOrGivenUp` is `PromiseKept`
seen through it.  `SendsAreCounted` compares numbers of three kinds: `Copies`, the
messages on the bus as a set of pairs (message, how-manieth), which grows by one
element with each `Send`; the counters; and `Uncounted`, the calls between a send
and its counting or dead there, which a call enters as it sends and leaves as it
counts.  Both sets are finite, of whatever size (`Counted`).

### Migrations

A row is one of three, by the columns it came with: `ByResult` (a result id),
`BySubject` (a subject) or `ByPair` (a type and an identifier).  Each says how what
is in the row now follows from what was inserted, whichever of the conversions
have been applied and undone; `RowInStep` is preserved by each revision up and
down.  `NamesTheSame` then is a fact about the conversions: reading the subject
made from a result, or back from a pair, gives the same.

### Paging

`ScanInStep` is the argument for every table: a row that the client was not given
has at least as many newer rows in front of it in the listing as were read.  A
submission cannot lower that number: it takes a row out of the listing only by
putting in its replacement, which meets the same criteria (`ReplacementMatches`,
where `proxied_by` and the end of "since" are excluded) and is no older
(`PlaceKept`, where `InOrder` is used).  The place of a row with a timestamp of its
own is the same in every order the database may choose (`PlaceInOrder`), so it is
on the page read or behind it; and behind the last page there is nothing.  That no
page is asked for without rows (`TypeOK`) is counted from ids: a table has no more
rows than there are ids (`RowsFit`).

`EndpointsAgreed` and `SubjectsWereFilters` hold for every table, reachable or
not, and are proved without an invariant.  The first is about any set of filters in
one body of `+filtered`, of which one without criteria must stand alone: beside
others it would select nothing, where `GET` selects all (`FiltersSelect`).

### What stays with TLC

- `EveryRequestEnds` and `EveryCallEnds`: liveness under fairness.
- The instances where the code and what is said of it differ (section 3).

What the proofs changed in the models: a table that an earlier release brought to
revision 8 must already fit its NOT NULL columns, and the pairs a release stores
exclude the alias (`Migrations`); an empty subject type is no criterion
(`SubjectsAreFilters`); `Raises` must not be a user or a set of claims
(`Authentication`); `OncePerTry` and `SendsAreCounted` were one property.  A send
and its counting are two steps, and `SendsAreCounted` allows for the calls that died
between them (`StompPublisher`, which had them as one step and so a bound that a
crash breaks); the rows of two calls are disjoint, and a publisher may be set up to
give up all it gets (`Publisher`).

## 5. Not modelled, and why

- The table of the session store: its rows are written by flask-session, and
  nothing else in the service reads them.  What of it a request notices is in
  `WaiverService`.  The redirect of flask-oidc for an expired login comes before
  the handler.
- Configuration, application factory, choice of publisher, tracing, `manage.py`:
  start-up.  Web form, pages of configuration, health check, `GET` of one waiver,
  JSONP: one read each.  Their configuration is the CONSTANTS.
- The counters of the Fedora Messaging publisher, wording of errors, which of
  several 401 answers with which challenge, `waived` and `comment`: no property
  tells their values apart.
- The clock of different hosts, and time zones in "since".
- Of the migrations: indexes, types of columns, the offline mode that prints SQL.
  What earlier releases of SQLAlchemy and of the conversions did to a table with
  rows is only there as the table they left.

## 6. Plan

1. Done: submission, its abstract specification and first theorems; queries and
   paging; Kafka and STOMP publishers with their contract.
2. Done: authentication with its methods and claim sources, LDAP searches one by
   one, what a request notices of the session store, migrations.
3. Done: rights, attribution and refusals; `WaiverLog` and `Publisher` as step
   simulations; the publishers' counters; migrations; paging and queries.
4. Done: what follows from the contract of the hook, carried over to both
   publishers by their refinements; the STOMP counters; `+filtered` with several
   filters.
5. Left: the Fedora Messaging publisher is the only one without a step simulation
   of `Publisher`; it is proved in `WaiverService` instead, where its answers are
   (`AcknowledgedWasPublished`).
