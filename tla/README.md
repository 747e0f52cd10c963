# Verification of SecureDocs AI Hub

TLA+ models of the backend of SecureDocs AI Hub (`backend/app`), TLC configurations that check them
on small instances, and TLAPS proofs of the properties that matter most. Paths of the program are
given relative to the repository; line numbers refer to the commit the models were read from.

- [The system](#the-system): its parts, their state, how they interact, what must hold
- [The modules](#the-modules): which module models what, and how actions correspond to code
- [The runs](#the-runs): what each shows, its bounds, and the fairness it assumes
- [The proofs](#the-proofs)
- [Findings](#findings)
- [Not modelled](#not-modelled) and [the plan](#the-plan)

## The system

One FastAPI process serves one PostgreSQL database (READ COMMITTED) and one MinIO bucket behind
nginx; a Next.js frontend is the client. There is no queue and no cache: the worker container only
waits, Redis is only pinged, and all coordination is done by database rows, locks and indexes.

| Part | State it keeps | Operations | What is hard | What makes it correct |
|---|---|---|---|---|
| Document versions (`documents/service.py`, `repository.py`, `storage.py`) | `documents`, `document_versions`, bucket objects, the FOR UPDATE row lock | `upload`, `upload_version`, `delete` | a saga over two stores; concurrent uploads; failures between any two statements; crashes | numbers 1..n, link = latest version, no repeated content, object for every committed version, all or nothing, a deleted document is frozen, every request ends |
| Access rules (`documents/access.py`) | none | `has_document_permission`, `build_document_access_predicate` | one rule written twice, in Python and in SQL | both decide alike |
| Sharing (`documents/service.py:232-299`) | `document_acl_entries` with partial unique indexes | `grant_acl`, `revoke_acl`, list, principal search | find-then-insert races, waiting grants and deadlocks, revokes in between, failures in the loop | no duplicate, ACL = what the audit log says, an acknowledged grant is in effect, every change by somebody who was given the right, nobody waits for good |
| Downloads (`documents/service.py:126-189`) | audit rows, an open MinIO stream | `download`, `download_version`, the streaming generator | runs after the session is closed; a client that stalls or leaves; a generator that never starts | the rows tell the outcome, no stream that was read stays open |
| Upload validation (`documents/validators.py`) | the position of the file object | `validate_upload_stream` | limits over data in chunks | same verdict as a definition over the whole file, and the file rewound |
| Refresh tokens (`auth/service.py`) | `refresh_tokens`, audit rows | `login`, `refresh`, `logout` | rotation without a lock, refresh against logout | the log explains the table, a token is used twice only by overlapping requests, a login has one live token |
| Users, departments (`users/service.py`, `departments/service.py`) | `users`, `departments` | create, update, (de)activate | count-then-write, check-then-insert, parent cycles | the last SYSTEM_ADMIN is lost only by overlap, unique names, the log agrees with the tables |
| Audit log (`audit/service.py`) | `audit_logs` | `record` in the caller's transaction | which transaction a row belongs to | rows tell the truth about successes |
| Sessions, pool, scheduling (`database/session.py`, `dependencies/auth.py`, FastAPI) | transactions, 15 pooled connections, the threads, the event loop | checkout, return, `get_db`, dispatch | three limited resources, taken in several orders; synchronous waits on the event loop | nobody waits for himself, every request ends |
| Browser session (`frontend/lib/auth-store.ts`, `api-client.ts`) | cookie; per tab the status and the shared refresh promise | restore, login, logout, retry after 401 | answers late, lost, dropped by a reload, in any order | the calls of a page share one refresh, no used token comes back, a logout that nothing disturbs is final |
| Pages (`frontend/app/documents`) | loaded lists | load, upload, share | answers in any order | not modelled |

**Interactions.** A route opens one database session (`get_db`), resolves the current user in it and
calls one service method, which owns the transaction: it flushes rows, calls MinIO, adds an audit row
and commits; an exception rolls back and leads to a failure audit row in a second transaction, where
the method has an `except` block. Closing the session at the end of the request rolls back what was
not committed. Upload routes are `async def` and call the synchronous service, so one upload at a time
runs per process and it blocks its event loop, also while it waits for a row lock; the other routes
run in the thread pool. Services meet in the tables: sharing reads `is_active` of users and
departments and `is_deleted` of the document, which their own services write. They also meet in what the
process has few of: pooled connections, threads, the event loop. A download leaves its session behind
and streams from a generator, which opens a second session for its last audit row. The browser sends its
refresh token as a cookie that its tabs share; each tab has its own store and its own shared refresh.

## The modules

| Module | Content |
|---|---|
| `DocumentVersions` | the upload, version and delete sagas, one action per statement another party can get between |
| `DocumentHistory` | abstract specification: documents with a history of files, appended to until deletion |
| `MCDocumentVersions` | instances of `DocumentVersions` for TLC and the refinement mapping to `DocumentHistory` |
| `DocumentVersions_proofs` | proofs about the tables and locks of `DocumentVersions`, its bucket and its audit log |
| `DocumentHistory_proofs` | the proof that it implements `DocumentHistory` |
| `DocumentAccess` | the rules of `access.py` and the ACL query as pure operators |
| `DocumentAcl` | grant and revoke, the waits and deadlocks of PostgreSQL, and the services that switch users and departments off |
| `MCDocumentAcl` | an owner, a manager and a department for TLC |
| `DocumentAcl_proofs` | proofs about `DocumentAccess` and `DocumentAcl` |
| `Administration` | create and update users and departments, and the script `create_admin` |
| `MCAdministration` | two administrators, a department and the payloads for TLC |
| `Administration_proofs` | proofs about `Administration` |
| `Transfers` | every request, and downloads in detail, on the pool, the threads and the event loop |
| `MCTransfers`, `Transfers_proofs` | the instance of `Transfers` and the proofs about it |
| `RefreshTokens` | the server side of sessions: the table of refresh tokens, login, refresh, logout |
| `BrowserSession` | a browser with tabs, composed with `RefreshTokens` |
| `MCBrowserSession` | two tabs and two calls for TLC |
| `RefreshTokens_proofs`, `BrowserSession_proofs` | proofs about each, and that the composition implements the server |
| `UploadValidation`, `MCUploadValidation` | the validators step by step, and the files TLC tries them on |
| `UploadValidation_proofs` | the proof that they decide what the whole file deserves |

Definitions named `X_Y` beside a definition `X` (such as `Unlocked_Always` beside `Unlocked`) are `X`
with one plausible bug. Nothing uses them; replacing `X` by one shows that a property notices.

### DocumentVersions

`documents`, `versions` and `auditLog` are the committed rows, `objects` the keys in the bucket,
`rowLock` the holder of the `FOR UPDATE` lock of each `documents` row, and `request[r]` the local state
of a handler: its program counter, the process it runs on, what it read and what it will insert.
Rows a transaction has inserted but not committed are visible to nobody, so they are only the local
state of the request. A request mints the uuid4 ids of its rows, so it stands for them.

| Action | Code (`documents/service.py` unless noted) |
|---|---|
| `ReceiveUpload`, `ReceiveVersion`, `ReceiveDelete` | the routes (`router.py:67-91`, `143-146`): arrival on a process whose event loop is free |
| `LockDocument` | `get_for_update`, the 404 of line 73, the wait for the row lock |
| `CheckVersion` | permission, duplicate check against the current version, `max + 1` (74-80) |
| `InsertVersion` | the flush of the version row and the unique index (81-83, 93-97) |
| `PutObject` | `DocumentStorage.upload`, which may fail after MinIO stored the object |
| `CommitUpload`, `CommitUploadFails` | link, status, audit row and commit (51-54, 86-89); a failure before or after it took effect |
| `Refresh` | `db.refresh` inside the `try`, and the answer after it (55-56, 90-91) |
| `Rollback`, `Compensate`, `RecordFailure` | the `except` blocks: rollback, `remove_uploaded_object` if `uploaded`, the failure audit row |
| `ReadForDelete`, `MarkDeleted`, `CommitDelete` | `delete` (191-204): reads without a lock, an UPDATE that waits for the row, the commit |
| `StatementFails`, `Crash` | any statement raises; a process stops and PostgreSQL aborts its transactions |

Abstracted: file contents are their checksum; validation and the title check are before the saga and
have no effect (a refused file is a request that does not arrive); who has which permission is one
Boolean outcome (`access_denied`), decided in `DocumentAccess`. One `updated_at` and the descriptive
columns are left out, because no code reads them to decide anything.

### DocumentAccess and DocumentAcl

`HasDocumentPermission` over `GrantedPermissions` is the decision for one document, `AccessPredicate`
the WHERE clause of lists. In `DocumentAcl`, `entries` is the committed ACL of one document, `active`
the users and departments with `is_active`, `deleted` the document's flag. A request's `written` is
what its open transaction inserted (a grant) or deleted (a revoke). An audit row carries its request,
its `actor`, the entries and the result.

| Action | Code (`documents/service.py`) |
|---|---|
| `ReceiveGrant`, `ReceiveRevoke` | `get_current_user`, the deduplicated payload (`schemas.py:62-73`) |
| `CheckManageAcl` | `_document_for_permission` (293-299), with the actor and document as read on arrival |
| `FindPrincipal` | active user or department, not the owner (241-256) |
| `FindEntry`, `InsertEntry` | one round of the loop (260-266): lookup; flush, which waits for a transaction that wrote the key and raises if the key is committed |
| `FindRevoked`, `DeleteEntry` | 278-282: the row, and the DELETE, which waits for another one and does not mind finding the row gone |
| `Commit`, `CommitFails` | audit row and commit; an error before or after it took effect; the listing for the answer (274) failing |
| `Rollback`, `RecordFailure` | the `except` block of `grant_acl` (269-273) |
| `DeadlockDetected` | PostgreSQL aborts a transaction of a cycle of waiting ones |
| `ToggleActive`, `DeleteDocument` | `update_user` and `update_department` set `is_active`, `delete` marks the document |

Not modelled there: the `FOR KEY SHARE` lock an inserted ACL row takes on its document, user and
department rows, which conflicts with the `FOR UPDATE` of a version upload only and delays it;
other columns of users and departments; the two queries that change nothing.

### Administration

`users` and `departments` are the committed rows by id, `auditLog` the committed audit rows with the new
values they name, and `request[r]` a running request: its payload, its target and `row`, the copy of the
target that its ORM session holds. The session takes no row lock, so everything a request decides rests
on that copy and on lookups of different moments. `stale` is the one variable the program does not have:
it says that another request has committed to `users` since this one began.

The program has no record of the order in which audit rows were committed: their ids are random and `created_at`
is PostgreSQL's `now()`, the start of the transaction (`models/audit.py:23`). Requests are therefore numbers, served in
their order, an audit row carries its request as `created_at`, and `AuditReplaysTables` reads the log by that. What a
reader of the table finds is then not always true: of two overlapping administrators who change the same field, the
one who began first may commit last, and the last record by `created_at` names the value the other one wrote.
`Overtaken` is this exception, and the only one. The position of a row in the sequence `auditLog` is the order of the
commits; only `Overtaken` looks at it. Two transactions that begin in the same microsecond have one
`created_at`; which of them a reader takes to be the later is left out. Accounts made by `create_admin.py` are not logged at all, and
`USER_CREATE` does not name the department, so neither is claimed.

| Action | Code (`users/service.py`, `departments/service.py`) |
|---|---|
| `Receive` | the routes behind `require_system_admin`; an administrator who updates himself works on the row that authenticated him; or the script `create_admin.py` starts |
| `ReadTarget` | `get_by_id`, 404, the refusal of a department as its own parent |
| `LookUpReference` | the department of a user or the parent of a department exists |
| `LookUpKey` | `get_by_email`, `get_by_name`, in the stored spelling |
| `CountSystemAdmins` | `_ensure_not_last_admin` (82-85) |
| `CommitUser`, `CommitDepartment` | flush, audit rows and commit: an INSERT, or an UPDATE of the columns that differ from the copy; the unique indexes |
| `Fails` | any statement raises, in particular on a key committed since the lookup, or the process stops |

The flush and the commit are one step, because nothing of the request reads between them and nobody else
sees the flushed rows; a wait for a row lock or an index entry only delays the flush. Left out are names
of users, passwords, descriptions and times, which no rule depends on.

### Transfers

`connections` are the requests whose session holds a pooled connection, `threads` and `loop` who
occupies a thread or the event loop, `stream[r]` the response of MinIO a download has opened, `left[r]`
the chunks it has not read, `rows[r]` its audit rows. A session takes a connection at its first statement
and returns it at a commit, a rollback or its close, so `handle` is a step with one and `reload` and
`record_failure` are steps that ask for one. `faulted` is the one variable the program does not have.

| Action | Code |
|---|---|
| `Dispatch` | FastAPI starts a sync dependency, endpoint or stream step in a thread; an async upload runs on the loop itself |
| `Authenticate` | `get_current_user` (`dependencies/auth.py:17`): the first statement of the session, which keeps the connection |
| `Answer`, `CommitOrRollback`, `Reload`, `RecordFailure` | what endpoints do with their session: read and answer; commit and read the expired object again (`service.py:55`, `:90`, `:123`); roll back and commit a failure row (`:57-63`) |
| `Serialize` | FastAPI validates what a sync endpoint returns against its `response_model` in a thread, a second wait for one while the session keeps its connection; a coroutine's is validated on the loop |
| `Close` | the exit of `get_db`, before a streamed answer is sent |
| `RefuseDownload`, `OpenStream`, `RecordStarted` | `download`, `download_version`, `_download_version` (126-164) |
| `ReadChunk`, `SourceEnds`, `Finalize` | the generator (166-180) and `iter_response` (`storage.py:75-88`): a chunk; the end or a failure of the object; the last row in a session of its own |
| `ClientLeaves` | Starlette cancels the stream: a generator that was advanced runs its `finally` on the loop, one that was not runs nothing |
| `DatabaseFails`, `CheckoutTimesOut` | a statement raises; the pool gives up on a checkout after its timeout |

Abstracted: which endpoint a request calls, except that uploads run on the loop and downloads stream;
rows, locks and permissions (other modules have them). A commit that takes effect and is reported as
failed is not distinguished. `_current_version` may answer 404 without a row "failed" (`service.py:206-210`), when the link of a
document names no version: `CurrentIsLatest` says that this does not happen, and what it would leave behind is what
`DatabaseFails` leaves of a request that is being handled. The thread of `get_db`'s exit is not counted: it only returns a connection
and FastAPI gives it a thread of its own limiter.

### RefreshTokens and BrowserSession

A token has the number of the request that minted it; `tokens[t]` is its row with the login it goes back
to, `request[r]` what a request was sent, has found and answered. `audit[r]` is the action of the row it
committed. `seen` (who had committed when a request read its token) is an observation for the properties.
In `BrowserSession`, `flight[r]` follows a request from the page that sent it to the moment its answer has
been read or dropped; its field `mount` says that `AuthProvider` sent it when the page was loaded. `signedOut` and the
field `alone` are observations too. Only calls that are refused with 401 matter to a session, so a call begins with
its refusal.

| Action | Code |
|---|---|
| `FindToken`, `LogoutFindsNothing`, `Refuse` | `auth/service.py:40-49`, `60-64`, `24-31`: the lookup and the ways to be refused, none of which commits |
| `CommitLogin`, `CommitRefresh`, `CommitLogout`, `CommitExpiry` | the ends of `login`, `refresh`, `logout`, and the expired token (46-49), which is revoked without an audit row |
| `Expire` | seven days pass |
| `LoadPage` | `AuthProvider` restores the session; what the old page waited for is dropped |
| `Login`, `Logout` | the form (`login/page.tsx:18`), the button (`topbar.tsx:16`), each disabled while it is busy |
| `RefreshOnce`, `EndCall` | `apiRequest` and `apiDownload` (`api-client.ts:80-159`): a call is refused with 401 and joins or starts the shared refresh; the call that was sent again ends |
| `AnswerArrives` | the headers set or delete the cookie (`auth/router.py:15-30`) |
| `BodyRead`, `AnswerLost` | the store is set or cleared (`auth-store.ts:38-66`) and the calls that joined go on (`Resume`) |

A call may be refused whatever the status of its tab. The pages of documents call the API in a mount effect
(`documents-page-client.tsx:44-47`, `document-detail-client.tsx:35-38`) of the component that contains `ProtectedRoute`,
so a page that is loaded calls without a token, is refused (`dependencies/auth.py:18`) and sends a refresh beside that of
`AuthProvider`, with the same cookie. `restoreSession` sets the status to "loading" unless the tab is authenticated
(`auth-store.ts:45`). The model follows a production build: under `next dev`, which the container runs, React's strict
mode runs mount effects twice, and the load of a page sends two refreshes of its own.

A request that commits and then fails to read the user for its answer is, for the browser, an answer
that was lost. Which access token is valid is left open: any call may be refused.

### UploadValidation

One upload is validated step by step: `CheckNames`; `ReadChunk` until `EndOfFile`; then `CheckPdf`,
`CheckText`, or `OpenArchive`, `ReadEntry` and `CheckEntries`. Bytes are classes (plain, control, NUL, signature,
first byte of a UTF-8 sequence of two, three or four, continuation, a byte that occurs in no UTF-8) and the incremental decoder is modelled
by the bytes it still expects. `Decoded` and `Uncompressed` are recursive functions over a chunk and over
the entries of an archive. The narrower ranges of some second bytes (overlong
forms, surrogates, beyond U+10FFFF) are not distinguished. The checksum, the spelling of names and the three Office formats, which differ
only in one required entry, are left out.

## The runs

| Run | Instance | Properties | Shows |
|---|---|---|---|
| `faults` | 3 requests, 2 processes, 2 contents, every failure | `TypeOK`, `VersionNumbersContiguous`, `CurrentIsLatest`, `NoRepeatedContent`, `RowLockIsTheOnlyQueue`, `DeletedFrozen`, `AckedVersionDownloadable`, `SuccessAuditMatchesHistory`, `ImplementsDocumentHistory` | the row lock keeps numbering, link, duplicate check and deletion right and is all that requests wait for; what was acknowledged stays, the audit log tells the truth about successes, the sagas implement the abstract history |
| `recovery` | 3 requests, 2 processes, 1 content, fair, failures the saga recovers from | `CommittedObjectsKept`, `UploadIsAllOrNothing`, `EveryRequestEnds` | the compensation removes exactly the objects of uploads that did not commit; waiting requests end although lock holders crash |
| `object_lost` | 1 upload, `refresh` may fail | `CommittedObjectsKept`: violated | see [Findings](#findings) |
| `deleted_twice` | 3 requests, no failure | `DeletedOnce`: violated | see [Findings](#findings) |
| `administration` | 3 requests, 2 administrators, 1 department, 9 payloads, failures | `TypeOK`, `UniqueKeys`, `AuditReplaysTables`, `LastAdminLostOnlyByOverlap` | overlapping administrators keep keys unique and the tables in step with the audit log as it can be read; the last administrator is lost only if requests overlap |
| `last_admin_lost` | 2 requests about users | `AdminRemains`: violated | see [Findings](#findings) |
| `transfers` | 3 requests of any kind, 1 connection, 2 threads, objects of 2 chunks, fair | `TypeOK`, `NobodyHoldsAndWaits`, `AuditTellsOutcome`, `StreamsReleased`, `StandstillIsCircular`, `EveryRequestSettles` | what the audit log says of downloads is true, streams are closed, and requests that wait for each other are set free by the checkout timeout and by nothing else |
| `sessions` | 3 requests to `/auth`, 2 tabs, 2 calls, the first token may expire | `TypeOK`, `AuditExplainsTokens`, `TokenReusedOnlyByOverlap`, `OneLiveTokenPerLogin`, `CallsShareOneRefresh`, `CookieIsLive`, `CallsNeverReuse`, `UndisturbedLogoutSticks` | when a token can be used twice, which refreshes a page sends, which token the browser is left with, what a logout guarantees |
| `logout_undone` | 2 requests, 1 tab, 1 call | `LogoutIsFinal`: violated | see [Findings](#findings) |
| `session_lost` | 2 requests, 1 tab, 1 call | `RestoredSessionKept`: violated | see [Findings](#findings) |
| `validation` | texts and PDFs of up to 5 bytes, archives of up to 4 entries, chunks of 2, limits of 4 bytes and 3 entries | `VerdictMatchesFile`, `ScanCountsPrefix`, `RewoundForStorage` | the chunked pass decides what the whole file deserves, at and around every limit |
| `sharing` | 3 requests, 3 principals, 4 payloads, failures | `TypeOK`, `NoDuplicateEntries`, `AuditReplaysAcl`, `AckedGrantInEffect`, `ListMatchesCheck`, `AuthorityIsGranted`, `NoStandstill` | grants and revokes on one document, including grants that deadlock, keep the ACL and its audit log in step; every change was made by somebody entitled to it |

**Bounds.** The number of requests is the only bound of the state: each is served once and no counter
grows beyond it. Three uploads and deletes are one document, its next version and a rival for the same
number, or a document, an upload and a deletion; two processes are needed, because one serialises its
uploads. Two contents make the duplicate check pass and fail. Longer histories are left to the proofs, which hold for
any number of requests. Three sharing requests are two grants that wait for each other
and a third that commits before them, or a grant and two revokes of it; the payloads hold two
permissions in both orders, a department, and the owner, who is refused. Three administrative requests
are two that read the same row, key or count, and a third that commits between them; the payloads change
every field, and submit one e-mail address and one name in two spellings. Requests, processes and
contents are symmetric in most safety runs; `recovery` checks liveness without symmetry, and `administration`, `sessions` and
their relatives have none, because their requests are numbers.

One connection and two threads are the smallest process in which a request that has a connection can wait
for a thread while both threads wait for a connection; the third request is the upload that takes the loop
meanwhile. Two chunks separate a download that was not started, is in the middle, and is at its end.
Three requests to `/auth` are a refresh, its rival with the same cookie, and a logout or a login that
overlaps either, from two tabs, one of which can be loaded again; every order in which their answers
can be set, read or lost occurs. The runs that refute a claim need two requests and one tab. Five bytes in chunks of two are an empty file, one at the limit of four and
one beyond it, and cut every UTF-8 sequence at every place. Four entries are one over the limit, and
sizes of 1 and 2 reach the sum of 4 and pass it.

`CommittedObjectsKept` and `UploadIsAllOrNothing` are checked without `commit_unknown`, `refresh`,
`put_unknown`, `remove` and `remove_unknown`: with the first two they fail (see Findings), with the
others an object is left behind that the code cannot know of or fails to remove.

**Fairness.** `FairSpec` requires only that a handler that can go on does: `WF_vars(Step(r))` for each
request. Its thread is run by the operating system, a wait for a row lock ends when the holder's
transaction does, and MinIO and database calls have time limits (`minio_client.py:10-16`). Failures,
crashes and arrivals are not fair, so nothing relies on them. `EveryRequestEnds` is meaningful
because a waiting request can go on only after another has released the lock.
`NoStandstill` says the same of sharing without fairness: as long as some request runs, some request
can take a step; each request has finitely many steps. Its first part, `SomebodyCanGoOn`, says so of the
guards (`CanGoOn`: nobody keeps the request waiting, or PostgreSQL frees it), its second that these guards are
exactly when the request's actions are enabled. `StandstillIsCircular` has the same two parts.

`Transfers` is fair to `Work(r) \/ Start(r) \/ CheckoutTimesOut(r)` for each request: threads are run, the
loop turns, and SQLAlchemy's pool gives up on a checkout after 30 seconds. It assumes nothing of clients
(`ClientReads`, `ClientLeaves`), of MinIO or of PostgreSQL failures, so `EveryRequestSettles` lets a download
wait for its client for ever, provided it holds no resource then. `StandstillIsCircular` says what the
timeout is needed for: it is the only way on when requests that hold the pool wait for a thread or
the loop, and those who have the threads or the loop wait for the pool.
`BrowserSession` has no fairness. Nothing in the code bounds how long an answer takes; that nobody waits in
vain is an invariant instead (`CallsShareOneRefresh`: whoever waits for a refresh waits for one under way).

`CHECK_DEADLOCK FALSE` appears in every configuration because behaviours end: every request is served
at most once, and a browser runs out of requests.

## The proofs

Every theorem holds for any finite or infinite set of requests, processes, users and contents; the
only assumptions are the named ones in the modules: the failures are of the kinds listed, `None` is
none of the other values (`FaultsAssumption`, `NoneAssumption`), and users, departments and payloads
have their types (`AclAssumption`, `PayloadAssumption`), and, for administration, the initial rows have
unique keys, ids of new rows are new, a normalised key is its own normal form, and there is an
administrator at the start (`AdministrationAssumption`, which also takes requests to be numbers and the users to be finitely many,
since the code counts them). `CapacityAssumption` takes the pool, the threads and the chunks to be positive
and the requests to be finitely many, because capacities are compared with cardinalities; `TokenAssumption`
and `TabAssumption` say that `None` is no request, tab or audit action. For the validation, `LimitAssumption` takes
the limits to be numbers (a size limit of 0, which `test_document_validators.py:161` uses, included), `UploadAssumption` gives uploads their types, and `TypesAssumption` says of the tables in
`validators.py` what can be read off them: the Office formats are neither PDF nor text, and the signatures fit into
the 8192 bytes that are kept.

**`DocumentVersions_proofs`.** `TypeCorrect`, `NumbersAreContiguous`, `LinkIsLatest`, `ContentChanges`,
`OnlyTheRowLockQueues` and the action property `DeletedIsFrozen`, all with every failure and crash
allowed. None of them is inductive: a commit keeps numbers contiguous only if the number computed
earlier is still the next one. `IInv` adds what makes that so: `InputsKnown` (program counters match
operations), `LocksMatch` (a version upload between its lock and the end of its transaction holds the
row lock of its document, and every lock has such a holder), `RowsHaveOrigin` (rows were made by
requests that have passed their commit) and `ReadsStillHold` (what a handler has read, the next number,
the current checksum and the absence of a deletion, is still true until it commits). One lemma per
action shows that it keeps `IInv`; `CurrentHasMaxNumber` and `PreparedVersionFits` carry the argument
about the maximum. `OnlyTheRowLockQueues` proves of any number of requests that one which cannot go on waits for a
row lock whose holder can: a holder asks for no second lock, and the unique index never makes it wait, because the
number it inserts was computed under the lock. So there is no circle of waits, and no deadlock for PostgreSQL to break.
`AtMostTenSteps` bounds each request: `StepsLeft` counts the stages ahead of it and every step lowers
it, a failure or a crash too. It needs `RecordsOK`, that a request which has ended runs on no process, so that a
crash does not touch it, and that a deletion has no version number.

Its second half is about the bucket and the audit log. `AckedVersionsAreDownloadable` and `AuditMatchesHistory` allow every failure;
`CommittedObjectsAreKept` assumes `CommitKnown` (no `commit_unknown`, no `refresh`), without which Finding 1
refutes it, and `UploadsAreAllOrNothing` also `StorageKnown` (no `put_unknown`, `remove`, `remove_unknown`).
`StepsOfSaga` first reduces every action to what it does to one request, its object and its row
(`SagaStep`); the invariant `SagaOK` then has one part for each theorem: `Stored` (an upload has its object when it
commits and both when it answers, and a rollback carries an error), `Kept` (an upload with a committed row is past the
point of compensation) and `Clean` (the handler's flag `uploaded` says whether there is an object). For the log,
`AuditOK` says that a request has a success row if and only if its row or its deletion is committed.

**`DocumentHistory_proofs`.** `HistoryIsImplemented`: `Spec` implements `DocumentHistory` under the mapping of
`MCDocumentVersions`. `HInv` adds to `IInv` that a document with k versions has exactly the numbers 1 to k
(`Counted`), so its rows are a sequence; `CommitCounts` and `CommitAppends` show that a commit appends to it.

**`DocumentAcl_proofs`.** `PredicateAgrees` proves that the two access rules coincide on every user,
document, permission and ACL table; `ListsAgree` is its consequence for all behaviours.
`TypeCorrect`, `NoDuplicates`, `AuditExplainsAcl` and `GrantsHold` rest on an invariant with `LocalShapes`
(the local state at each program counter), `OwnRows` (a grant writes rows with its own ids, a revoke the
row it names), `IndexesHold` (no key is written by two open grants, nor by an open and a committed
one: this is where the waits on the unique indexes enter), `AuditHasOrigin` and `RevokesHold` (a revoke
about to commit holds the row of its entry if it still exists). Most steps write nothing; `QuietKeeps`
treats them together, and inserts, deletes and the two kinds of commit have a lemma each. `GrantsHold`
adds `GrantsProgress`: each permission of a running grant is still to do, or has a row that the grant
wrote or that somebody committed. `NeverAllWaiting` proves `SomebodyCanGoOn` for any number of requests. If every
running request waited, for a transaction that wrote something and so runs too, take a smallest
non-empty set in which everybody waits for a member (there is one: `FinitelyServed` says that only finitely many
requests have arrived, and strict inclusion is well-founded on finite sets). Whoever is waited for by nobody could be
left out of it, so each member waits and is waited for, and PostgreSQL's deadlock detection takes one.
`BoundedSteps` adds that a request has finitely many steps: the loop over the permissions never goes back, so a
grant of n permissions takes at most 2n + 6, whatever fails.
`AuthorityComesFromOffice` proves `AuthorityIsGranted`, which is about chains: somebody who may share can empower
somebody else, who can go on, and any link may have been revoked before the next one used it. The property says that no
non-empty set of recorded changes rests on itself alone. The proof orders the changes by their commits: `ChecksHold`
says that a request that has passed `CheckManageAcl` acts for the owner, a SYSTEM_ADMIN, or somebody whom a change
*already in the log* empowered. That stays true because the log only grows (`MayShareLasts`), and it was true when the
right was read because every row of the ACL was once granted in the log (`RightWasGiven`, from `AuditExplainsAcl`). A
new change is thus well-founded over earlier ones (`ChainsStaySound`).

**`Administration_proofs`.** `TypeCorrect`, `KeysUnique` and the action property `LastAdminNeedsOverlap`.
`UniqueKeys` becomes inductive with the types and `MintInv` (an id that may still be minted has no row);
the argument at a commit is the unique index for inserts, and for updates that a name which is not
written stays what it was. `LastAdminNeedsOverlap` needs `FreshInv`: as long as a request is not stale its
copy equals the row, and if it is about to commit the removal of an administrator, there are still two.
`FreshCommitKeepsAdmin` then finds the one who remains.
`LogReplaysTables` proves that the log, read by `created_at`, replays both tables but for what was overtaken. It has two
halves. `LogInv` says it of the order of the commits, for every row that exists, without an exception; and adds that the log names nobody who does not (so the first row under an id
finds no older record) and that an id is a user's or a department's, never both. The lemmas behind it are about logs only: rows that
do not record a field leave its last record where it was (`UnrecordedKeeps`), one that does becomes the last
(`RecordedLast`). They are applied to what an insert and an update log: all fields, or exactly those that differ from
the copy. A stale copy is harmless, because a field that is not written keeps both its value and its last record. `StampInv` ties dates to requests: rows of
one date are of one request, so they agree. `ReplaysByDate` then compares the row dated latest with the row committed
last: they are of one request, or the second was dated earlier and has overtaken the first.

**`Transfers_proofs`.** `TypeCorrectness` (no capacity is exceeded), `NobodyWaitsForItself`, `AuditIsTrue` and
`NoStreamLeaks`, for every size of the pool, of the thread limit and of objects. Their invariant `Inv` adds
`StageInv`: what each step of a request implies of its stream, the chunks left, its rows, and whether it met a fault. With
it every action needs only its own stage; the lemmas follow the actions in the order of the module.
`OnlyCirclesStop` proves the first part of `StandstillIsCircular`. It adds `PlaceInv`, which ties the step of a request to
whether it has a thread or the loop: one that does not run stands before a dispatch, at its close, in its stream or at its
end. So if nobody ran, the loop and all threads would be free; whoever runs waits for the pool, hence holds none of it
(`NobodyHoldsAndWaits`), and those who hold it wait for a thread or the loop.
`StepsAreBounded` gives each request the steps it has left, from its stage, its unread chunks and whether it is still to be
dispatched. Every step of the system lowers the number of one request and leaves all others alone, so nothing can run
in a circle and requests can only stop by waiting; `OnlyCirclesStop` says when.

**`RefreshTokens_proofs`.** `TokensExplained`, `ReuseNeedsOverlap` and `OneLiveToken`. `ServerInv` joins `RowsOK` and
`RequestOK` (rows and requests describe each other), `SeenOK` (a request that committed before another read a
token had revoked what it used, so the other cannot have found the same token) and
`OneUnusedPerLogin` (a login has one token nobody has used, unless two refreshes `Forked` it).
The argument about overlap is `SeenOK`: what a request saw committed when it read can never be a rival for its token.

**`BrowserSession_proofs`.** `BrowserImplementsServer` shows that the composition implements `RefreshTokens`: each
step of browser and server is a step of `ServerNext` or leaves `serverVars` alone. `SessionTokens` then
holds without another induction. `OneSharedRefresh`, `CookieNeverGoesBack`, `SharedRefreshesNeverCollide` and
`UndisturbedLogout` rest on
`BrowserInv`, which adds to `ServerInv` what ties the two sides together: `FlightOK` (a request sent is
a request received), `CookieOK` (who can have used the token in the cookie), `PageOK` and `CallOK` (a tab has at most two
refreshes, the one its calls share and the one of its load, and who waits for which), `RetryOK` (of two refreshes of one
kind from one page with one token, one was refused), `AloneOK` and `SignedOutOK` (what an
undisturbed logout leaves in flight). No status is assumed of the tab that calls. `SharedRefreshesNeverCollide` says what the
shared promise is worth: refreshes of calls never use one token twice, however many calls are refused and however often
the page is loaded. That a load's refresh and that of its calls can is Finding 5, and the run `session_lost` shows
what comes of it.

**`UploadValidation_proofs`.** `VerdictIsDeserved`, `ScanIsOfPrefix` and `StoredFromTheStart`, for files and archives of
every length and all limits. The operators are recursive over data, so the first half of the module proves
what they compute. The library's induction theorems take an operator as a parameter, which the provers cannot
instantiate; `SetInduction` is about a set instead: a subset of `Nat` that contains 0 and successors is `Nat`. It follows
from `SmallestOfSet`, which rests on the well-foundedness of inclusion on finite sets, and gives `RecursionExists`, that a
function defined from its value at the number before exists. `CountChunk` and `FirstBytes` show that counting and keeping
the first bytes chunk by chunk is the same as doing it once. For the decoder, `Viable` says that some continuation of
the first n bytes is UTF-8 and `Owed` how many bytes complete their last character. `ViableNext` is the step from
one byte to the next, `DecodeChunk` shows that the decoder computes `Owed` or fails exactly when the bytes are not viable,
wherever chunks are cut, and `WellFormedIsViable` and `Completion` connect this to the definition over the whole file.
The invariant `Inv` has one part per stage: `ScanInv` (the counters are those of the prefix read), `ReadInv` (the same of the
whole file, and the decoder's final answer) and `ArchiveInv` (entries seen so far are sound, sizes add up). A refusal in
the middle is justified because nothing later can repair it: a prefix that is too long or not viable
(`ViableMonotone`), sizes that only grow (`UncompressedGrows`). `ValidationIsBounded` adds that a validation ends: each
step lowers what is left of the bytes, the entries and the stages, and there is always a check that applies, so that no
allowed extension falls through the `if` of `validators.py:161`.

**Only model-checked.** Two liveness properties, and two conjuncts. `EveryRequestEnds` and `EveryRequestSettles` are liveness
under fairness, and the second parts of `NoStandstill` and `StandstillIsCircular`, that the guards in `CanGoOn` are exactly
when a request's actions are `ENABLED`, use that operator: both are beyond the prover. What they rest on is proved:

| Model-checked | Proved about it |
|---|---|
| `EveryRequestEnds` | `AtMostTenSteps`: a request has finitely many steps. `OnlyTheRowLockQueues`: one that cannot take its next step waits for one that can |
| `NoStandstill` | `NeverAllWaiting`: its first part. `BoundedSteps`: a request has finitely many steps |
| `EveryRequestSettles`, `StandstillIsCircular` | `OnlyCirclesStop`: its first part. `StepsAreBounded`: the system has finitely many steps |

What is left to TLC is the temporal step: that fairness makes a request which can go on do so. Every other property
of the passing runs is a theorem.

## Findings

1. **An object of a committed version is removed** (`documents/service.py:55` and `:90`, run
   `object_lost`). `db.refresh` follows the commit inside the `try` block. If it fails, the `except`
   block removes the stored object although the version is committed, ACTIVE and current. `README.md:485`
   says that objects of past versions are neither overwritten nor deleted. The same happens when the
   commit takes effect but its acknowledgement is lost.
2. **A document is deleted twice** (`documents/service.py:192-202`, run `deleted_twice`). Two concurrent
   deletions both pass the check of `is_deleted`, which line 196 would answer 409 with "이미 삭제된
   문서입니다."; the second overwrites `deleted_at` and records a second success.

3. **The last administrator is lost** (`users/service.py:84`, run `last_admin_lost`). Two overlapping
   updates that each demote or deactivate an administrator both count two and both commit; nobody can
   administrate afterwards, although line 85 answers "마지막 SYSTEM_ADMIN은 변경하거나 비활성화할 수
   없습니다." `LastAdminNeedsOverlap` proves that only this overlap can do it.

4. **A logout is undone** (`auth-store.ts:48`, run `logout_undone`). A refresh that a refused call started is
   answered after the logout of the same tab has cleared the store: `restoreSession` sets the session again.
   `README.md:415` says that the session in memory is removed whether or not the request succeeds. The
   server may have revoked the old token, but the one the refresh minted is live. `UndisturbedLogout` proves
   that only an overlapping request can do it.

5. **A restored session is lost** (`api-client.ts:82`, run `session_lost`). A page of documents that is loaded sends two
   refreshes with one cookie: one is `AuthProvider`'s, the other is started by the page's own call, which is
   made on mount and refused because there is no token yet. If the server handles them one after the other, the
   second is refused; when its answer is read last, `clearSession` ends the session the first has restored. The
   cookie of the first is kept, so another reload may succeed. `README.md:403` says that a session is restored by a
   refresh request at the start, and `README.md:407` that requests which get 401 at the same time lead to one refresh. If the
   server handles the two at once, both succeed and leave two successors of one token (`TokenReusedOnlyByOverlap`).

A download whose client leaves before the first byte keeps its row "started" for ever, because Python runs
nothing of a generator that was never advanced, and nobody closes its response of MinIO.
`README.md:438` and `:481` say that a stream that is not read to its end is recorded as "interrupted";
`AuditTellsOutcome` and `StreamsReleased` state what is true instead, with this case ("dropped") as the exception.

Other observations go without a property. Overlapping administrators can leave a last audit row, by `created_at`, that
disagrees with the table (`Overtaken`, in [Administration](#administration)). `update_department` records a submitted name even if it equals
the one that was read, so the log may end with a name another request has replaced meanwhile. Chains of
updates can make a department its own grandparent; nothing walks the hierarchy. The audit row of a failed
login (`auth/service.py:27`) is added to a session that nobody commits, so it is never stored (`Refuse`).

Two concurrent revokes of one entry both succeed, because a DELETE that finds no row is only
a warning to SQLAlchemy; the ACL and its audit log stay consistent (`AuditReplaysAcl`).

## Not modelled

- The document pages (`frontend/app/documents`): forms, lists and buttons over the server's answers. They
  keep nothing across a reload and every operation is decided again on the server. One ordering that can
  mislead a reader is in the list of hazards.
- Names of users, passwords and descriptions: no rule depends on them.
- Passwords, JWT signatures and token hashes: cryptography. A refresh token is a number, and any call with an
  access token may be refused.
- Spelling of file names, titles and content types, and the checksum as a function of bytes. `DocumentVersions` starts
  where `UploadValidation` ends with "ok"; nothing is stored or locked before.
- Health probes, settings, error formatting, migrations, containers, nginx, the waiting worker and the
  empty packages (`rag`, `search`, `backup`, ...): no state that changes, or no code.
- Static pages, navigation and layout of the frontend.

## The plan

| Order | Module | Content | Runs, theorems |
|---|---|---|---|
| done | `DocumentVersions`, `DocumentHistory` | the core | 4 runs; 13 theorems, the refinement among them |
| done | `DocumentAccess`, `DocumentAcl` | sharing | `sharing`; 9 theorems |
| done | `Administration` | users, departments, the last administrator | `administration`, `last_admin_lost`; 4 theorems |
| done | `Transfers` | downloads, pool, threads, event loop | `transfers`; 7 theorems |
| done | `RefreshTokens`, `BrowserSession` | rotation and logout; the browser composed with the server | `sessions`, `logout_undone`, `session_lost`; 4 theorems for the server, 8 for the browser, the refinement among them |
| done | `UploadValidation` | the validators against definitions over the whole file | `validation`; 4 theorems |
| open | `DocumentPages` | loads whose answers arrive out of order; the pages keep nothing the server relies on, so it comes last | one run |
