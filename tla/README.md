# TLA+ models of haditssoft-api

The API is one Go program (Fiber + GORM over one SQLite file in WAL mode), started
with Prefork: several processes serve requests at the same time and share nothing but
the database. Almost no handler runs in a transaction that spans its reads and its
writes, so the interesting behaviour is what requests do *between* each other's SQL
statements. That is what these modules model: **one step per SQL statement (or per
transaction, where the code uses one), and any number of requests between two steps.**

## Inventory

| Component | State | Operations | What is hard, and what makes it correct |
|---|---|---|---|
| Sessions (`internal/auth`) | `RefreshToken` rows | login, admin login, refresh | check-then-mark without transaction, ignored write errors; a token is exchanged once, reuse ends the sessions, a dead session stays dead, a deleted user gets no token |
| Accounts (`internal/user`, `models/user.model.go`) | `User` row | sign-up, verify, resend, forgot/confirm, update, delete, admin CRUD | load, check, later `Save` of the *whole* loaded row; the `BeforeSave` hook hashes what it finds; activation must be earned, codes are used once, old passwords and codes stay dead |
| Access gate (`internal/shared/middleware`, `auth.Logout`) | `BlacklistToken` rows, the `User` row it reads | `Protected`, `TokenOnly`, `IsAdmin`, logout | four reads, then the handler; a logged-out token and a deleted account are refused |
| Database handle (`internal/shared/database`) | global `*gorm.DB`, its context, a pool of ten connections | every query | the context is the last caller's; handlers that hold one connection and ask for another |
| Translation and summary sweeps (`internal/opencode`) | translation columns, summary tables | single, bulk, titles, summaries | termination of `all=1`, accounting of updated/failed, overwriting concurrent edits, retries |
| Personal data (`bookmark`, `note`, `lastread`, `font`, `theme`, `searchmode`, `translationsetting`) | one table each, `Activity` | find-then-insert, update, delete | duplicates, partial failure, nested transactions |
| Search (`internal/search`, `lru_cache`, `ip_cache`) | LRU cache with time to live, attempt counters | search in one book, in all | non-atomic counter, cache keys that collide, fan-out over the books |
| Main/classification/custom data (`models`) | goroutines and channels | load with counts and titles | early returns that leave goroutines blocked |
| Query combinations (`fts_utils`) | none | build the FTS fallbacks | pure algorithm |
| Hadith administration | the hadith rows | put, post, delete | races the sweeps |
| Request validation (`internal/shared/validator`) | one validator for the process | rules, two of which look notes up | a look-up that fails, or that looks at another user |
| Read-only handlers, captcha, e-mail, logging, migrations | none of their own | | not modelled: no state to check |

Requests meet in the tables, and, within one process, in the context of the database
handle, the pool of connections, the cache of full-text expressions and the attempt
counters. Sessions and accounts meet in the user's `DeletedAt`; the access gate reads
what the account operations write; the sweeps and the administration write the same
rows. `main.go:46` sets `Prefork: true`, so each process has its own handle, pool, cache
and counters: what is said of the pool, of the cache (`CacheSound`, `ServedQueries`) and of
the attempt counter (`CountsWhenAlone`) is said of one process. An address whose searches
are served by several is counted once in each. What is said of rows holds across all.

## Modules

| Module | Models |
|---|---|
| `RotationPolicy` | what the repository's README promises of refresh tokens, as an abstract machine without requests or statements, and what follows for clients |
| `RotationPolicyProofs` | theorems about `RotationPolicy` |
| `RefreshTokens` | `Login`, `AdminLogin` and `Refresh`, statement by statement |
| `MCRefreshTokens` | symmetry for TLC |
| `RefreshTokensProofs` | theorems about `RefreshTokens` |
| `UserAccount` | every operation on one account, with the pending whole-row Saves |
| `MCUserAccount` | symmetry for TLC |
| `UserAccountProofs` | theorems about `UserAccount` |
| `BulkSweep` | the translation, title and summary sweeps, and the hadith administration they race |
| `BulkSweepProofs` | theorems about `BulkSweep` |
| `MCBulkSweep` | the requests, the initial kitabs and the pairs of sweeps that TLC checks |
| `LoadRow` | the handlers that load a row and fill it from goroutines |
| `Search` | searches of one book and of many, over the cache of expressions |
| `SearchProofs` | theorems about `Search` |
| `FullText` | which words the full-text expression of a query asks for |
| `AttemptCounter` | the searches that count themselves by address |
| `AiCall` | one call of the AI provider: the pipes of the command, the deadline |
| `ReadersProofs` | theorems about `LoadRow`, `FullText`, `AttemptCounter`, `AiCall` and `MCReaders` |
| `MCReaders` | one of the five above per behaviour, for TLC |
| `AccessGate` | `Protected`, `IsAdmin` and logout |
| `Notes` | the notes on one hadith, with the process-wide context |
| `Bookmarks` | the items under one title and one book |
| `Preferences` | font, theme, search mode, translation setting, last read |
| `ConnPool` | the pool of connections and the handlers that need two |
| `PersonalProofs` | theorems about `AccessGate`, `Notes`, `ConnPool` and `MCPersonal` |
| `StorageProofs` | theorems about `Preferences` and `Bookmarks` |
| `MCPersonal` | one of the five above per behaviour, for TLC |

The components of `MCReaders` share no variable, and neither do those of `MCPersonal`:
what they could share, the tables, is written by none of the first five, and each of the
second five writes tables that no other reads. A behaviour of both modules is therefore
one of a single component, chosen at the start. `RefreshTokens` and `UserAccount` hold
what sessions and accounts have in common; `AccessGate` takes the user's flags to change
at any time, which covers every operation of `UserAccount`.

### RefreshTokens

A request is a slot with a next statement (`pc`), the token it works on (`tok`) and the
user it read (`uid`); an idle slot is a client about to call. `rows` is the table;
`session` and `parent` in a row are history (the login the token descends from, the
token it was exchanged for), as are `held` (tokens a client has learnt: only those can
be presented) and `detected` (sessions the user had when reuse was answered).

| Code | Actions |
|---|---|
| `Service.Login`, `AdminLogin` | `Login`/`AdminLogin` (read the user), `CreateLoginToken` (insert), `LogLogin` (activity; if it fails the client never learns the token), `CreateFails` |
| `Service.Refresh` 132-148 | `FindRefreshToken`: the one read on which used/expired/valid is decided |
| 140-143 | `AnswerReuse` (`RevokeAllRefreshTokens`; its error is ignored) |
| 145-148 | `AnswerExpired` |
| 150 | `ExpireRefreshToken` (marks by primary key; its error is ignored) |
| 152-155 | `GetUserFromRefreshToken`, `AnswerNoUser` |
| 157-181 | `CreateRefreshToken`, `CreateFails`; the answer may be lost |
| `ExpiresAt` | `Lapse` |
| account deleted, or inserted again by a stale `Save` | `DeleteUser`, `RestoreUser` |

The random tokens are model values and do not collide. Access tokens are not modelled
here. `StatementsMayFail` lets any write, and the read of the user, return an error.

`ImplementsRotation` maps the table to `RotationPolicy`: the live tokens of a session
are its unused, unexpired tokens that no refresh has accepted, and a session is
exchanging while a refresh is between its checks and its insert. `RotationPolicy` is
judged by what follows from it (`OneUsableToken`, `SpentStaysSpent`, `EndedStaysEnded`);
`issued`, every token there has been, is in it for that.

### UserAccount

`row` is the account's row; a request that has loaded and checked it holds a `copy` and
a pending step in `pc` until it saves. `code` stands for the verification code together
with its expiry; `age` says how old each code is, in the classes the code distinguishes
(cooldown, valid, expired). A password is stored as the pair of the secret and
`rehashed`: `BeforeSave` hashes whatever the `Password` field holds, so a Save that
assigned a new password stores its hash and any other Save of a loaded row stores a
hash of the stored hash, which the secret no longer matches. `Save` writes every column;
when the row was soft-deleted meanwhile, the `UPDATE` matches nothing and GORM falls
back to an upsert of all columns, so the row is live again (external: GORM 1.25.2).
`earned`, `uses` and `lastSecret` are history.

`Verify`, `Resend`, `ForgotPassword` and `ConfirmForgotPassword` are a `Load...` and a
`Save...` action each. `Update` and `AdminUpdate` read and write inside one transaction,
and SQLite refuses the write of a transaction whose snapshot another write has made
stale: they are one step. `Update` is admitted by `Protected()` in an earlier step
(`AdmitUpdate`). `SaveFails` is any pending request that ends without having written.

Left out: the e-mail address and the Admin flag (no operation on the account decides on
them), the mails, other accounts.

### BulkSweep

`cell` is the target column of every row of one kitab: in the hadith table, the Kitab
and Bab title tables, and the summary table; a summary is wanted where the hadith has a
translation. What a text says is not modelled, only whether there is none (NULL or
`''`), one a sweep wrote, or one that was there before or came from an admin. `run[s]`
holds the local variables of a sweep.

| Code | Actions |
|---|---|
| `translateHadithsBulk`, `translateTitlesBulk`, `TranslateHadiths`, `SummarizeHadiths` | `Start` with a call that says which tables, one AI call per row or per batch, `?limit=`, `?all=`, `?maxBatches=`; `Answer` |
| the loops of `runBulkTranslate` and `runSummarizeSweep` | `TakeBatch` (query and mark), `EndTable` (the three break conditions; for titles the Bab table follows), `QueryFails` (the counts are dropped) |
| `translateWithRetryAgent` | `AiReplies`, `AiFailsForNow` (retried), `AiFails` |
| `processBulkBatch`, the loops over rows | `SaveRow`, `RowFails` (no key, a blank text, a failed write) |
| `AdminPutOne`, `AdminPostOne`, `AdminDeleteOne` | actions of the same names |
| the process stops | `Crash` |

`TranslateHadiths` is a sweep of one batch with a call per row. A reply is decided row by
row when it is used, which is the same as deciding it at once. `wasEmpty` and `deleted`
are history. Not modelled: columns other than the target. That a call ends is assumed
here; `AiCall` says when it does.

### LoadRow

`load[l]` is a handler: which of the five readers it runs, how many rows of its page are
left, which channel it reads next. `helper[l][h]` is a goroutine that fills a field, and
`filled` the fields that are set.

| Code | Actions |
|---|---|
| the first query of `LoadMainData`, `LoadClassificationData`, `LoadCustomData`, `AfterGetTotalHadith`, `SearchMainData` | `FetchRow`, which starts the helpers |
| `countRows`, `getMinimalKitab`, `getMinimalBab`, `getNoLain` | `Query`, and then the blocked states `"ok"`, `"error"`, `"again"` of `helper` |
| `err = <-countRowsChan` and so on | `ReceiveField`, in the order of `Order(kind)` |

The helpers of main data and of classifications have no `return` after they send their
error, so they block again on the `nil` that follows (`"again"`); those of custom data
return. Of the fields only whether they are set is modelled.

### Search

A handler (`search`) has a goroutine per book (`worker`) and a channel with room for a
result of each. `order` and `items` are the list and the map of the cache, whose
operations hold its mutex and are one step each. The single search is a list of one book
whose error is the answer.

| Code | Actions |
|---|---|
| `GetSearchHadith`, `SearchHadithAll` up to the goroutines | `Ask` |
| `searchOneKitab` up to the cache; the LIKE searches | `Start` |
| `FtsCache.Get` | `Lookup` (`Get`, `Hit`: an entry that has expired is removed) |
| the cached expression | `RunCached` |
| `GetOtherKeywords` to the end of `indonesiaFTSearch` | `Build` (`Set` with `Evicted`) |
| `res := <-ch` | `ReceiveResult` |

The key is the words run together, so `"ab" "c"` and `"a" "bc"` share an entry and the
second is served the expression of the first; `ServedQueries` says exactly that much. The
code stores an expression just before it runs it; both are in `Build`. How many rows a query finds is any number up to `MaxRows`.

### FullText

Pure functions, one step. A keyword is its position. `lost` are the keywords whose batch
of variants is empty (`ExtractWordVariants` leaves those out); `Words` numbers the rest,
and `QueryCombination` is chosen by the number *before* some were left out, as in the
code. `AllWordsTried` is the reference definition.

### AttemptCounter

`GetIPEntry` and `SetIPEntry` are a step each, with midnight and other searches in
between; both drop the entries of another day first. One address; addresses never meet.
The day of the year is taken to change, so an entry exactly a year old is left out. One
process: its entries are not those of the others. Searches that overlap lose increments,
and one that runs over midnight takes yesterday's count along; `CountsWhenAlone` is what is
true of the others.

### AiCall

The command is a child with two pipes of a bounded size (`ChildWrites`, `ChildExits`,
external). `ReadAll` reads the standard output to its end, then the standard error;
`DeadlineKills` is the context of a summary, which the translation sweeps do not have. A
child that writes more to the standard error than a pipe holds blocks while its caller
waits for the standard output to end: without a deadline that call hangs, and
`CallEnds` excepts exactly it. Descendants of the child that keep the pipes open are not
modelled.

### AccessGate

`jwtSuccess` is `CheckToken`, `CheckActive`, `CheckDeleted` and `Expel`, a query each;
`IsAdmin` is `CheckAdmin`; the handler is `Answer`, or `Logout` and `LogoutActivity`.
`Administrate` is whatever changes the user's row. `dead` (the tokens an answer called
dead) and `bars` (the reasons to refuse a request that have held since it arrived) are
history: since the checks are separate, a reason that appears while a request passes can
be missed, and `NoBarredEntry` claims what remains true. `CreateBlacklistToken` is outside
the transaction of the logout, so a logout answered with 500 leaves a dead token that
`dead` does not count.

### Notes

A request is `noteReq[r]`; `BeginNote` also replaces the context of the process
(`SetConexContext`), on which `ExistsForContext` depends. `ValidateCreate` and
`InsertNote` are the two steps of a create, `FindNoteID`, `ValidateUpdate` and
`UpdateNote` the three of an update; `DeleteNotes` is one statement. The rule of a create
is the negation of the rule that a note exists, so a look-up that fails lets the create
pass. One hadith; `disturbed` is history.

### Bookmarks and Preferences

Both rest on one property of SQLite's write-ahead log, which the code relies on without
saying so (its `SELECT ... FOR UPDATE` does nothing there): a transaction that has read
sees the tables as they were then, and its first write fails when anything was committed
since (`MayWrite`, `MaySave`; `stale` in a request). `Bookmarks` has `Create` as
`FindBookmark` (on another connection, its error counting as "none") and `CreateItem`;
`UpdateAll` and `DeleteParent` as `FindItem` and `DeleteItem`. Each of these two deletes
one item, where the repository's README says "Update all bookmark items" and "Delete a
bookmark group": `GroupFollowsRequest` says what it says, and `BookmarkGroup` refutes it;
`EachDeleteCounts` says what is kept of the one-item deletions when they race, and is no
claim that one item is what a client asked for. In `Preferences` a put is
`FindRow` and `SaveRow`; `FindRow` takes an error for a missing row, and the unique index
then refuses the second one. A put of the fonts gives either half, both or none, and saves
the whole row. The last read position commits in `UpdateOrCreate` before its activity is
written in `CreateActivity`, so a put answered with 500 may have changed it; `latest`
(history) counts it from its commit.

### ConnPool

`handler[h].left` is how many statements on `database.DB` a handler has still to run
inside its transaction: one in `Create` of a bookmark and in `Logout`, two in the update
of the last read position, none elsewhere. `held[h]` is the connections it holds.
`Stuck` says only that requests are under way and that none can take a step (`CanGoOn`),
whoever holds what; `StuckOnlyWhenAllNested` concludes that all connections are then with
requests that ask for a second one. A connection lost with a failed transaction, or kept
by a request that needs one at a time, would refute it.

## Runs

| Run | Bounds | Shows |
|---|---|---|
| `RefreshConcurrent` | 2 users, 2 requests, 3 tokens, failing statements | `TypeOK`, `SessionOwner`, `ClosedStaysClosed`, `DeletionIsFinal` under every interleaving |
| `RefreshSequential` | 2 users, 1 request, 4 tokens, no failures | `ExchangedOnce`, `DetectedSessionsAreDead`, `ImplementsRotation` |
| `RefreshDoubleExchange` | 2 requests, 3 tokens | `ExchangedOnce` is violated |
| `RefreshReuseRace` | 2 requests, 3 tokens | `DetectedSessionsAreDead` is violated |
| `AccountConcurrent` | 2 requests, 2 codes, 2 passwords | `TypeOK`, `ActivationEarned`, `OnlyLatestPasswordLogsIn`, `DeadCodesStayDead` |
| `AccountSequential` | 1 request, 3 codes, 2 passwords | `VerificationSticks`, `CodeUsedOnce`, `DeletionSticks`, `DeactivationSticks` |
| `AccountStaleSave` | 2 requests, 2 codes | `VerificationSticks` is violated |
| `AccountRehash` | 1 request, 2 codes | `LatestPasswordLogsIn` is violated |
| `Sweeps` | 2 rows per table; 2 sweeps side by side with batches of 2, or 1 sweep with batches of 1 and 2 tries | `TypeOK`, `Accounted`, `SummaryHasSource`, `SweepsOnlyFill`, `NothingForgotten`, `SweepsEnd` |
| `Readers` | 1 load, pages of up to 2 rows; 2 searches, 3 queries with 2 keys, cache of 1; 8 keywords; 3 counted searches, 1 midnight; pipes of 2, outputs of 3 | `RowsAreComplete`, `LeaksAfterErrors`, `CacheSound`, `TotalIsSum`, `ServedQueries`, `AllWordsTried`, `CountsWhenAlone`, `NothingLost`, `AllAnswered`, `TypeOK` |
| `Personal` | 2 requests at the gate, 1 token; 3 requests and 2 users on notes; 3 requests and 2 numbers on bookmarks; 3 puts to 3 tables; 3 handlers, 2 connections | `NoBarredEntry`, `OneNoteIfAlone`, `OwnNotesOnly`, `AddedItemsVisible`, `EachDeleteCounts`, `NothingLostInPreferences`, `StuckOnlyWhenAllNested`, `PoolAnswers`, `TypeOK` |
| `BookmarkGroup` | 3 requests, 2 numbers | `GroupFollowsRequest` is violated |

**Bounds.** Two requests are every pairwise race, and the tables have no operation in
which three requests take part at once; the theorems cover any number. Three tokens are
a login and two exchanges of its token (or two logins and an exchange); four give chains
of exchanges beside a second login. Two codes are the code and its replacement; three
let one be replaced twice. `TokenIds` and `Codes` bound the behaviours: when all are
used, logins and resends stop. Batches of two
rows give batches that fail in part; batches of one give sweeps of several batches. A
sweep that translates beside another, or beside one that summarizes, and an admin who
posts, edits and deletes are the pairwise races for a row. `MCBulkSweep` keeps that
instance apart from the sweeps in batches by what the kitab holds (`SideBySide` where there
are no titles, `OneInBatches` where there are), and bounds the former further: the second
hadith is never deleted, and no AI call is tried again. That is done by the requests, the
admin and the AI, never by what a sweep may do next, so that its fairness is unaffected.

Loads share nothing, so one is enough; a page of one row has every order of its helpers,
and the second row repeats the loop. One search of one book beside one of a list whose
second book is the same or is unknown has every pair of operations on the cache; a cache
of one entry is always full, so each new key evicts, and two searches with different
words but one key collide. With one entry the *order* of eviction is not exercised; which
entry goes affects only the speed. The clock starts with the first entry and passes its
expiry. Eight keywords are one more than the code uses, and every set of them is left out
once. Outputs of three exceed a pipe of two. Two requests at the gate are one that logs
out or expels and one that races it; three requests on the notes are two of one user and
one of another in between, which is how the context goes wrong; three on bookmarks or
preferences are a creation and two that race over it. Of the preferences, `SearchMode` and
`TranslationSetting` are written like `Theme`. Three handlers and two connections have
both a pool that is stuck and a third request that waits for it.

The account model ends when the row is deleted and
nothing is pending, so its configurations do not check for deadlock; the refresh-token
model never stops. `Readers` and `Personal` end when every request is answered, or hang
where the properties say so.

**Fairness.** `SweepsEnd`: a running sweep keeps taking steps
(`WF_vars(Work(s))`), that is, its goroutine is scheduled, its queries return and its AI
calls end. The code bounds an AI call by 90 seconds with the OpenAI provider and by
`OPENCODE_ASK_TIMEOUT_SEC` in summaries; the translations through the opencode CLI have
no deadline and rely on the command to end. Nothing is assumed of admins, of crashes or
of the AI's answers: a sweep ends although every call fails.

`AllAnswered`: goroutines are scheduled, queries return, the child process runs and
deadlines pass (weak fairness of those steps; every one brings its request nearer to its
end). New requests, midnight and the clock have none. `PoolAnswers`: statements end (weak
fairness of the release of a connection) and a free connection is handed to one of the
waiting requests so that none is passed over for ever (strong fairness of getting one):
`database/sql` keeps the waiting requests and gives each returned connection to one of
them. The property is conditional on fewer nested handlers than connections, and does not
hold without that: two updates of the last read position in a pool of two wait for each
other for ever, and so do ten in the pool of ten.

### What the violated properties show

- *RefreshDoubleExchange*: two refreshes present one token; both read `is_used = false`
  (`auth/service.go:132`), both mark it (150), both insert a new token (172).
- *RefreshReuseRace*: a refresh has marked its token; the same token is presented again,
  all the user's rows are marked used and the answer says so; the first refresh then
  inserts its new token, which nobody revokes.
- *AccountStaleSave*: a resend loads the row; the verification commits; the resend saves
  its copy with `EmailVerifiedAt` null and `Active` false.
- *BookmarkGroup*: two items are added to one book of one title; a DELETE of the group is
  answered with success and one of the two is left (`bookmark/service.go:116`). The README
  (279) calls it "Delete a bookmark group" and the PUT "Update all bookmark items", of which
  the code (90) deletes one that is not in the payload.
- *AccountRehash*: sign up, verify: `BeforeSave` hashes the loaded hash, so the password
  given at sign-up does not log in.

## Proofs

TLC checks small instances; the theorems hold for every value of the constants: any
users, requests, tokens, codes, passwords, books, rows, capacities and sizes, and any
number of each where no finiteness is assumed. Every safety property of a passing run is
proved, type invariants included, and each also of the specification that the run
checks: `MCReaders` and `MCPersonal` put components side by side, `ReadersSteps` and
`PersonalSteps` show that each of them behaves there as its own specification says, and
`ReadersKeep`, `ReadersTypes`, `PersonalKeeps` and `PersonalTypes` carry over what is
proved of it. `SweepsSpec` of `MCBulkSweep` is `Spec` with fewer initial states and steps.

**Assumptions.** Each module names what its proofs need of its constants, and TLC
evaluates it in the runs: the distinguished values (`NoToken`, `NoUser`, `NoCode`,
`NoCall`, `NoKeywords`, `Unknown`, `Default`) are none of the values they stand apart
from; admins are users; limits, capacities and lifetimes are natural numbers, not zero
where the code's are not; `Tokens`, `NoteUsers` and `PrefTables` are not empty. `Ids`,
`Handlers` and `MarkRequests` are finite, because what is proved counts them; there are
as many as one database or one server has at a time. The theorems that bound a number by
the number of requests say so themselves: `PersonalTypes` takes `NoteRequests` to be
finite, `ReadersTypes` `Counts`, and `ExchangesAreBounded` `Requests`. `NoKeywords` is the
entry of an address that has none yet: a list of one empty keyword joins to the empty
string, so the empty string cannot stand for it.

**Sequential service.** The properties that the violating runs refute under concurrency
are proved under `Sequential`: all requests are one and the same, that is, there is one
slot, which serves a request after the other; for refresh tokens also that no statement
fails. It is the hypothesis of the runs `RefreshSequential` and `AccountSequential`.

**Overlapping requests.** What the violating runs leave of the README's rotation is proved
too, of properties that `RefreshTokensProofs` states. A mark is unconditional and its
error is ignored, so a token can be exchanged by every request that read it in time; but
once it is spent and the last of them has answered, it is retired for good, whatever fails
(`RetiredTokensStayRetired`). When statements do not fail, `ExchangesAreBounded` says that
a token's exchanges, with those under way, are never more than the requests that can be
under way at once, and `ReuseClosesSessionsAtRest` that a reuse answer leaves open only
sessions of the user that a refresh in flight is exchanging; the others are closed for
ever, by `ClosedStaysClosed`. Timing can do no more harm than the two violating runs show.

**The inductive invariants.** Every proof is *initial states satisfy the invariant, every
action keeps it, it implies the property*, with one step per action.

- `RefreshTokensProofs`. `IInv` adds to `TypeOK` and `SessionOwner` what a request holds
  at each statement (`RequestsOK`): its token is in the table, and the user it is about
  to mint for is that token's, since row and user are read in different statements.
  `SeqInv` adds, for sequential service, that every token with a child is used, that a
  session has one usable token at most, and that the token being exchanged is that one,
  unused until it is marked and without child until the insert (`ExchangeOK`). From it
  follow `ExchangedOnce`, `DetectedSessionsAreDead` and, action by action, that each
  statement is a step of `RotationPolicy` or a stutter under the mapping of
  `ImplementsRotation`. For overlapping requests the steps are sorted into four kinds by
  what they do to exchanges (`Quiet`, `Accepts`, and `Issues` for a login or for a
  refresh); `BoundInv` adds to the bound that before the first mark no exchange has ended.
- `RotationPolicyProofs`. `PolicyInv`: whatever is usable has been issued, so that a fresh
  token is in no other session. `HandlersKeepThePromises` brings its theorems back to the
  handlers by the refinement.
- `UserAccountProofs`. `IInv` speaks of the copies: a copy is active only if activation
  was earned, every code in the row or in a copy has been generated, and a request about
  to verify or reset has a code. `SeqInv` adds that a copy is the row it was loaded from
  (`CopyIsRow`) and that a code which succeeded is no longer in the row (`UsedIsGone`).
- `PersonalProofs`. `GateInv`: a token called dead is in the blacklist, a reason that has
  held all along holds now, and at each `pc` the checks already passed exclude some
  reasons. `NotesInv`: as long as nothing was `disturbed`, one request at most is under
  way and what it validated is still true; an update has an id of its own user's note,
  whoever the context names. `NotesCounted`: there are no more notes than creations that
  have been answered, and nobody looks for the id of one that is not there. `PoolInv`: the
  connections a request holds follow from its `pc`, and their sum is within the pool. When
  nobody can step it rules out every holder but those that wait for a second connection
  (`HoldersWait`); no connection is free, so they are as many as the pool has.
- `StorageProofs`. `PrefInv`: the row is what the committed puts made of it, and a put
  that is not stale has read it as it is, or has taken an error for a missing row.
  `MarksInv`: items and answered creations are equally many, no bookmark is ever deleted,
  and a deletion that is not stale has an item that is still there.
- `ReadersProofs`. `CountInv`: undisturbed, the cached entry or the only pending one has
  the count. `CallInv`: what was read and what is in a pipe is at most what was written,
  and standard error is read only after standard output has ended. `LoadInv`: the helpers
  before the channel at hand have set their field and ended, those from it on are at
  work. `CountBounds`: no count exceeds the number of searches that have begun. `QueryInv`:
  the query is the one its keywords give. That it then asks for all words needs what
  `generateDrops` computes. It is a recursive function, three levels deep; the proof
  exhibits a function that satisfies its equation (`GeneratedDrops`), unfolds it
  (`DropSets`), shows that the combinations hold all positions up to six and all but any
  one (`CombosOfAll`, `CombosOfAllButOne`), and that the keywords that are left have ranks
  below their number, all different (`Ranks`), so that a set of positions selects what it
  should.
- `BulkSweepProofs`. `RunOK`: the counts balance; the batch, the failures and what was
  attempted are disjoint or contained as they should be; every row that was attempted is
  in the batch, has failed, has a text or was deleted (`AccountedFor`); and in the tables
  that an unbounded sweep of everything has left, what is empty has failed or was deleted
  (`TablesDone`). It is stated of the variables of one sweep among any cells, so that one
  lemma says what the steps of others, sweeps and admins, preserve.
- `SearchProofs`. `CacheOK`: list and map hold the same keys once each, within the
  capacity, and each entry was built from words with its key, TTL before it expires.
  `FanOK`: a worker sends once, the total is the number of rows of the positions that
  were sent and no longer wait in the channel, and the handler answers when those are all
  (a set of positions within `1..n` that has `n` elements is all of it). `SearchBounds`
  adds the bounds of rows, of the clock and of expiries for the types.

**Only model-checked.** `SweepsEnd`, `AllAnswered` and `PoolAnswers` are liveness under
fairness, which the proof system does not reach. That the detailed properties fail under
concurrency is shown by the violating runs. Conversely, `RetiredStaysRetired`,
`ExchangesBounded`, `ReuseClosesResting` and the promises of `RotationPolicy` are proved
and are in no run.

## Not modelled

- Captcha, e-mail, logging, migrations, environment: forwarding, wording and start-up,
  with no state that the rest depends on.
- The read-only handlers of `hadithdata` (chains of narrators, biographies, chapters,
  books, narrators): one query and its encoding each. `models/search.model.go` is an
  earlier search that nothing calls any more.
- The content of texts, prompts, stems and variants, and the SQL of searches.
- The translation maps of the validation library, which `ValidateModel` fills again on
  every request from every goroutine: third-party state, listed under the hazards.
- The e-mail address of an account, and the `user_id` that model hooks take from the
  context.

## Plan

Every item of the plan is done: the components above are modelled, their runs pass, and
the safety properties are proved. What a continuation would add:

1. The cooldown of codes with the mails it is there to limit (`user/service.go:136`): the
   codes are in `UserAccount`, the mails are not.
2. Several accounts in `UserAccount`, for the uniqueness of the e-mail address.
3. Liveness, should the proof system come to support fairness: the variants are in the
   runs' comments (every step of `Work` brings a request nearer to its end).
