# A verification of Non-Profit Hermes in TLA+

Non-Profit Hermes takes Telegram messages of a small charity (`/need`,
`/donation`, `/report`, `/task`, `/inventory`, `/event`, and plain follow-ups),
keeps them as rows of a Google spreadsheet, promotes approved events to a
Google Calendar, and publishes what is approved as a static site. This
directory holds TLA+ models of its core, the TLC runs that check them and
theorems that TLAPS proves. `PROJECT.json` lists components, runs, mutants of
the code that each property catches, the map from definitions to source lines,
the hazards and the theorems.

Paths below are relative to the repository.

## 1. Inventory

| component | state | operations | what makes it correct |
|---|---|---|---|
| durable credential refresh (`non_profit_hermes/oauth_refresh.py`) | token file, candidate file, lock file, one backup per attempt | `refresh_and_persist_credential`: snapshot, refresh in memory, prepare and validate a candidate, lock, compare, back up, replace, verify, flush, roll back, clean up | one promotion at a time; no lost update; a usable token survives; nothing is left behind |
| event drafts and promotion (`router.py` 185-343, 1880-2360; `operations.py` 919-1430) | CalendarLog tab, Calendar, authorization file, active event pointer | `/event`, follow-up, authorize, promote | one event per authorization; gates hold when the event is inserted; the event's ID is never erased; one row per draft |
| sheet records (`operations.py` 137-917, `router.py` 387-408) | five record tabs, AuditLog | `add_*`, `update_*`, `update_inventory`, numbering of `/need` | one row per ID; a new record is not dropped; an operation takes effect at one instant; the log accounts for the tab |
| draft router (`router.py` 451-969, 1054-1877) | JSON file of active pointers of all chats and kinds | the chain of follow-up handlers, `resolve_*`, `set_active_*`, `clear_active_*` | a follow-up goes to a draft of its own chat: the one it names, or the one written last |
| publication (`approved_safe_sync.py`) | `docs/` JSON and HTML | collect tabs and Calendar, deduplicate, gate, write | what is shown was released; a sync leaves nothing behind that had been taken back; a newer private row suppresses an older public one; a dry run accounts for every row |
| OAuth re-authorization (`scripts/google_oauth_*.py`) | pending session, URL handoff and candidate files; per run a listener thread with its result and code; token file and backup of the swap | preflight, listen, save, publish, wait, check, exchange, clean up; callbacks; `atomic_promote` | one callback counts and it is the run's own; a run whose exchange is answered returns; a refused run leaves only what it could not remove; an accepted candidate stays; a swap keeps both tokens unless a refresh moves the file under it |
| plugin installer and drift check (`scripts/install_runtime_plugins.py`, `check_runtime_plugin_drift.py`) | plugin directories, backups, staging directories | verify, stage, move aside, place, move back, per plugin; classify | mutable files survive; a plugin is there; what is installed is what was verified |
| plugins, command line shims, configuration, models, doctor, diagnostics, CI scripts, daily summary | none | pure or read-only | - |

**How they interact.** A plugin (or the command line) calls
`run_plugin_command`, that is `handle_message`, which calls a handler; the
handler reads the pointer file and the sheet and calls `operations.py`, which
calls Sheets and Calendar with credentials from `get_creds`, where a refresh
may run. Publication reads the tabs the operations write. An operator runs the
re-authorization when the credential is lost, promotes its candidate over the
token file that the refresh writes too, and installs the plugins. All sharing is
through files and remote services, but for the listener's thread and its run.

**Nothing in the repository puts messages into an order**: a plugin command, a
command line call and a second gateway are processes that share the sheet, the
Calendar, the pointer file and the token file. Only the refresh takes a file
lock, and only the listener has a lock between threads.
What is hard is therefore: two processes between any two calls; a call that
fails, or a process that dies, between two of them; whole-row and whole-file
writes from an earlier reading; check-then-append; readings with a limited
window; a fixed order of handlers; an authorization consumed by unlinking a
name. `PROJECT.json` lists each under "hazards" at its line.

## 2. Modules

| module | models | extends or implements |
|---|---|---|
| `TokenRegister` | what a refresh promises: a register changed by compare-and-swap | - |
| `TokenRefresh` | every file operation of an attempt, with failures and crashes | implements `TokenRegister` |
| `TokenRefreshProofs` | theorems about it | `TokenRefresh` |
| `EventPromotion` | drafting, promotion and its authorization, call by call | - |
| `EventPromotionProofs` | theorems about it | `EventPromotion` |
| `RecordTable` | what the operations on a tab promise: records by ID, each operation at one instant | - |
| `SheetRecords` | the operations on one tab, call by call, and the AuditLog | implements `RecordTable` |
| `SheetRecordsProofs` | theorems about it | `SheetRecords` |
| `DraftRouter` | the handler chain, target resolution and the pointer file | - |
| `DraftRouterProofs` | theorems about it | `DraftRouter` |
| `Publication` | collection, deduplication, gates and writing of the public site, call by call | - |
| `PublicationProofs` | theorems about it | `Publication` |
| `OAuthRuns` | the constants that the next three share | - |
| `CallbackListener` | the one-shot loopback listener: its thread, its result, and the other threads that settle it | - |
| `CredentialSwap` | `atomic_promote` and, beside it, what a refresh does to the same file, rollback included | - |
| `OAuthRecovery` | the guarded runs around the listener, composed with the swap | extends `CallbackListener`, `CredentialSwap` |
| `CallbackListenerProofs`, `OAuthRecoveryProofs` | lemmas of the listener; theorems of the composition | the modules they name |
| `PluginInstall` | the installer, call by call, and the drift check | - |
| `PluginInstallProofs` | theorems about it | `PluginInstall` |
| `MC*` | instances for TLC | the module they name |

### TokenRefresh
An attempt is one call of `refresh_and_persist_credential`. One action is one
file-system call and the checks on its result; `pc` says which comes next:
load, snapshot, refresh, probe (candidate absent?), read, write, flush,
recheck, validate, lock, compare, backup, replace, verify, drop (the backup),
sync, unlock, cleanup; displace and restore are the two replaces of the
rollback. The bytes of a token are the attempt that obtained it; `Torn` is what
an interrupted write leaves; comparing hashes is comparing contents. `Faults`
says which calls may fail; `Crash` stops an attempt for good and leaves its
files. The second reading of the token (`recheck`) stands outside every handler: when
it raises, the attempt is `unread` and nobody removes its candidate. A backup stays
when it was written and reading it back, or its flush, fails, and an empty one when
`_new_backup_path` cannot remove the file that it made for the sake of its name
(`NewBackupPath`). `Acceptable` is what validation decides of a candidate's bytes. All
attempts share one candidate path and one lock path, as in the code;
backups have unique names (`mkstemp`).

The refinement mapping undoes a swap that can still be rolled back
(`Undoable`): the abstract register changes when the backup is removed, which
is the point of no return.

### EventPromotion
A process handles one message at a time; an action is one remote call or one
file access and the decisions after it. `rows` is CalendarLog, `made` counts
insertions per draft and chat, `issued` authorizations, `auth` is the
authorization file. A promotion writes the row (find, write), reads it again
and gates it, validates and unlinks the authorization, reads the row once more
(`create_calendar_event_from_draft`), inserts, records the event's ID, and
clears the pointer. `Abort` is any call that raises and any death. A row keeps
what the gates read; approval and status keep the values they tell apart.

### SheetRecords
One tab. An operation is the sequence of its calls: number, check for a
duplicate, append, find, write the whole row, log. `AddNeed` is the `/need` that is
still to be numbered; `FindRow` is the reading of the row in the `update_*`
operations, `FindItem` the one in `update_inventory`, which goes on to append an item
that is not there. A follow-up reads its target
before the operation finds the row again, so that a message holds two readings.
`Window` and `Reach` are the 499 and 999 rows that `_row_exists` and the other
readers see. A message is a partial function from fields to values; `Optional`
are the fields that `/inventory` leaves empty, and so untouched, when it does
not mention them. `ImplementsTable` maps the rows to a set of records and the
calls of a worker, up to its write, to one operation that is still to come; what
a follow-up passes on of its first reading counts as said by the message.
An audit entry shows some columns of the row it is about (`Said`): on a creation the
ID and a description, on an update those that the operation lists (`Logged`). `last`
is how a row was last written, `lost` where its writer died before its entry; it only
observes.

### DraftRouter
`Chain` is the order in which `handle_message` asks; `Takes` is when a handler
takes a message (a key of its kind, an active pointer, for events a named ID
and no other command's word in front). `AskHandler` asks one handler, which reads the
pointer file anew, so that other processes may change it between two of them.
`Resolve` and `PickDraft` are
`resolve_*_followup_target`. A change of the pointer file is three steps: load,
empty, fill (`write_text` truncates before it writes); a torn file reads as no
pointers. A follow-up's ID counts only under `id` or the key of the handler
that takes it. A written row belongs to the chat of its last message, as
`SourceMessageLink` is overwritten. `OpenStates` and `ClearStates` say for each kind on
which status its follow-up sets the pointer and on which it drops it: a report or a
task that is cancelled keeps a pointer, which the next follow-up drops as stale.
`touched`, `latest` and `lost` only observe; `lost` marks the pointers that a death
kept from the file or, between the emptying and the filling, dropped from it.

### Publication
A syncer is a process that calls `run_sync`. `pc` is the tab it reads next, then
the Calendar, of which one action lists one page, then `write`; `snap` is what
it has read. The gates are pure operators with the names of the code:
`deduplicate_rows`, `safe_record` (the three exports whose gates are the same),
`safe_calendar_row`, `rejection_reason`. `Shows` says which records a file
shows, `Files` which files there are and in which order they are written.
`WriteFile` writes one file; `Abort` ends a run anywhere, in the middle of a file
too; `Return` ends a run that has written all of them, or none (a dry run, or
`/daily`, which collects the same snapshot). The bot appends a row or writes the
first row with an ID, with a new `LastUpdated`; the staff edit by hand, which
changes no `LastUpdated`; events are created and cancelled. `MayBePublic` and
`Released` state what may be public independently of the gates, and tolerate
either row of a tie. `ever`, `since`, `alone` and `hidden` only observe.

### OAuthRecovery, CallbackListener, CredentialSwap
A run is one process that executes `main` or `run_guarded_oauth`; `phase` is the
call its main thread makes next. `arm` is the command line's own preflight,
`preflight` the one whose hash becomes `baseline`; `listen` to `confirm` are the
steps of `run_oauth_exchange` and `GoogleAuthFlowAdapter.exchange`; `discard` is
what their handlers do; `clear` to `handoff` are the two `finally` clauses. Every
unlink may fail: `clear` swallows that, in the handlers of the exchange it takes the
place of the first error, and `stuck` records which file of its own a run tried to
remove and could not. `pend`
and `url` say whose session and URL are in the files all runs share, `cand` whose
token is in the candidate. `outcome` is the result, where `refused` stands for
every code of a refusal, and `changed`, `raised` and `interrupted` for the ways out
that keep the candidate.

The listener's thread is serving (at the head of `_serve`'s loop, or waiting for a
connection), reading from a client, deciding (between the two critical sections of
`_consume_query` and `_finish`), or dead. `Decide`, `Expire`, `CloseListener` and
`DirectDecide` all end in `Finish`, which is `_finish`. A request is whose state it
carries, and whether the rest of it is accepted with all scopes, accepted with
others, or turned down. `consume_callback_once` is `DirectReceive` and
`DirectDecide`, from any thread.

`swap` is the next call of `atomic_promote`: the two renames, the ACL comparison,
the two renames of the way back, and the removal of the backup. `refresh` is the next
call of a refresh by the bot (with `Refreshing`), as far as it touches the same token
file: the comparison and the backup (`kept`), the replacement, verification and
removal of the backup, the last flush, and both renames of the rollback.
`TokenRefresh` has what comes before and its candidate and lock. `disturbed` records
that the refresh moved the token file after a swap had begun.

### PluginInstall
An installer is a process that executes `main`; `at` is the plugin it is at and
`pc` the call it makes next in `atomic_install`: `Stage` is `build_staging` with
`copy_mutable` in one step, as no mutable file is a listed one, `LookAtTarget` finds the name of a backup, `MoveAside` and `Place`
are the two renames, `Undo` and `Restore` the handler. Of a plugin's files, those the
manifest lists are one content (a revision with its line endings), the mutable ones
the number of the writing they come from, and all others one bit. `repo` is what git
and the manifest say; `canonical_source_bytes` and `PassesStrict` are the drift
check. `latest` and `exposed` only observe.

## 3. Runs

| run | instance | shows |
|---|---|---|
| `refresh_faults` | three attempts, every failure but the last flush, crashes | mutual exclusion, no lost update, compare-and-swap, an unlocked token is trusted, a token is always recoverable, the files implement the register |
| `refresh_live` | three attempts, failures that do not keep the clean-up itself from working, no crash, fair | locks are released; the directory is clean at the end; a candidate stays only behind the one unhandled read |
| `refresh_final_flush` | two attempts, only the last flush fails | **violation**: the token file is gone |
| `event_serial` | one process, two drafts, failing calls | one row per draft, the ID is kept, insertions are gated, none without an authorization of its own |
| `event_one_shot` | two promoting processes | **violation**: one authorization, two events |
| `event_retry` | one process, two authorizations, failing calls | **violation**: a retry after a failed record inserts again |
| `sheet_records` | two chats with IDs of their own, failing calls | one row per ID, new records kept, the tab implements an atomic table, the log accounts for the tab in the columns it shows, but for a writer that died before its entry |
| `router` | one process, two chats, two reports and a need, death anywhere | the pointer is to the open draft written last, unless a need replaced it or a death lost it; unnamed follow-ups stay in their chat |
| `publication` | two syncs in any overlap, changes to a request, an event row and the Calendar, death anywhere | what is shown was released; a sync of its own leaves nothing stale; what was taken back stays hidden; a dry run accounts for every row |
| `oauth` | two runs, callbacks of either and of none, one with too few scopes, every failure, Ctrl-C, crashes, a swap | a run exchanges its own code only; a refused run leaves nothing but what it tried and failed to remove; an accepted candidate stays |
| `oauth_live` | one run, any request over the socket or from another thread, every failure, a swap, a refresh beside it, fair | the swap loses neither token unless the refresh interferes; the first result is final; the run returns, unless `fetch_token` never does; the listener closes unless a client holds it |
| `plugin_install` | two installers, two plugins, three states of the repository, two backup names, failures and deaths anywhere | the latest mutable files survive; a plugin is missing only between the renames or after a death there; what is installed passes the drift check |

Every property of a passing run has a mutant: a faulty form of a mapped
definition, kept beside it in the module, under which the property fails.

**Bounds, and why they are enough.**
Attempts: three, since a third is what removes a file that two fight over;
attempts are symmetric. The theorems cover any number.
Events: `MaxRows` 1 or 2 and `MaxIssued` 1 or 2: the properties relate a row to
itself or to a second one, and an authorization to a next one. Two drafts and
one chat, or one draft and two chats, cover both parts of a grant.
Records: two rows, `MaxLive` 3, two fields, two values: a field to change and
one to keep, and a value unlike the default. `Window` and `Reach` are no less
than `MaxRows` (see "Also seen" for what happens below). A state with three entries in
the log is not continued (`ShortLog`, a constraint): two are a creation and an update
of one row, or one of each of two rows. The theorem needs no bound.
Router: two reports make a choice ambiguous, a need has its own way of setting
a pointer, and the message sets hold an unnamed and a named answer with and
without a status, words with and without a command in front, and a bare ID.
Statuses that no rule tells apart are one value. The drafts that a command writes
are incomplete, new or ready; a follow-up confirms or cancels them.
Publication: two syncs, two changes, one ID and one event, two rows in a tab that
changes, two seconds: enough for a row superseded by an older one with its ID, a
consent withdrawn between two readings, an event cancelled between two pages or
two files, and an old site under a new one. The reports do not change in the
run and hold what the account of a dry run needs: a duplicate, a rejected row
and a row without a key. Three files (the board log and the two copies of the
first page) stand for the seventeen of `AllFiles`: one that shows what was
counted, and two written one after the other that show records of every tab.
The theorems are for any list of those files.
Re-authorization: two runs, since all they share is files that each overwrites or
unlinks whole; the callback of each run, one of nobody's and one that grants too
little are the cases `_consume_query` tells apart, and `oauth_live` takes all
requests. `Synthetic` is empty in `oauth`: a callback handed over by another thread
goes the way of one from the socket, and `oauth_live` has both. One swap and one
refresh, which is what one candidate and one expiry ask for; the refresh is in
`oauth_live` only, with the run whose candidate is swapped, since what it adds is on
the token file and a second run adds nothing there but a candidate that is removed.
Installer: two installers are what a backup name can be fought over with; two plugins
make the second of a sequence fail with the first one installed; two names and one
writing are a backup, the one it collides with, and a file that is newer than the
staged one. The checkouts are a clean one with other line endings, one whose manifest
has them and with an ignored file, and an edited one.

**Deadlock** is not checked: attempts end, bounds are reached, and a `/need`
without a number left stops; the system itself may be idle for ever.

**Fairness.** `refresh_live`: weak fairness of each attempt's next
step. The operating system runs every live process and no attempt waits for
another: a lock or a candidate that is in the way is a refusal.
Crashes are excluded there because nothing removes a dead process's lock.
`oauth_live`: weak fairness of the main thread, but not in `fetch`: `wait` and `close`
join with a limit and the calls of the file system return, while `fetch_token` is
called without a timeout (`google_oauth_live_runner.py:371`) and may never come back.
`RunReturns` therefore excepts a run that stays in its exchange for ever. (The
subprocess `icacls` has no timeout either; it is local, and is assumed to end.) Weak
fairness, too, of a handler that is past reading; strong fairness of the end of the listener's loop, because
`handle_request` returns after at most 0.1 s without a connection and the loop then
looks at `_done` and the clock, so that clients may keep it reading in between but
not for ever without one such look, unless one of them never lets go. No fairness
of clients: whether one hangs up is its own affair. Crashes are included, since a
dead process has returned and its sockets are closed.

**Preconditions some properties have.** `OneRowPerDraft`, `CalendarIdKept` and
`InsertGated` hold when messages are handled one after the other
(`event_serial`); between processes the code has check-then-append and
whole-row writes, listed as hazards. `OneRowPerId`, `NewRecordKept` and
`ImplementsTable` hold between chats that name different IDs with one process that
numbers, and with readings that do not fail silently. `Audited` excepts a row whose
writer died between the write and the entry, until it is written again. `Remembered`
holds for one process, and has two exceptions: a need replaces the pointers of its
chat (on purpose or not), and a death loses the pointer it kept from the file, or
all of them when it leaves the file empty; both last until the chat writes an open
draft of that kind. It therefore does not promise that pointers survive a death:
they do not. `DirectoryClean` and `CandidateRemoved` except the attempt that left
through the unhandled read. `CompleteRunIsFresh` is about a sync that no other
overlaps; it measures freshness from the moment the sync begins, since a consent
withdrawn after its tab was read cannot be seen any more. `TakenBackIsHidden` is
about writes of the bot in a second of their own. `NothingLeftBehind` is about the
run's own files, and about the candidate of refused runs only: the last check of
`run_guarded_oauth` and Ctrl-C leave it, on purpose or not. It excepts what a run
tried to unlink and could not (`stuck`). `AcceptedIsCandidate` excepts the removal by
another run that has exchanged a code. `SwapLosesNothing` asks for both tokens only
as long as no refresh has moved the token file since the swap began and no other run
has exchanged a code, and for any token at all unless the refresh has displaced the
file after removing its own backup (`RolledBackBlind`). `InstalledPassesCheck`
assumes a clean checkout without ignored files and a manifest of committed digests.

## 4. Disagreements found

1. **`oauth_refresh.py:598`** The backup is unlinked before the last flush. When
   that flush raises, the rollback removes the promoted token and finds no
   backup. `SECURITY_AND_PRIVACY.md:79` promises exact bytes back.
2. **`router.py:342`** Two processes can validate one authorization before either
   unlinks it, and the second ignores that it is gone. `SOUL.md:41` says one-shot.
3. **`operations.py:1416`** The event is inserted before its ID is recorded; a
   retry after a failure in between inserts again. The docstring promises
   exactly one insert on retry.

Also seen, with no run of its own: the duplicate check reads 499 rows
(`operations.py:142`) of a tab whose other readers read 999, while the docstring of
`add_request` says idempotent (with `Window` 1 and `Reach` 3 `OneRowPerId` fails);
with an active report draft, `donationid=... status=ready` is taken by the report
handler (`router.py:1487`), which marks the report ready, although the reply of
`router.py:1277` asks for just such a message; `route_donation_followup` always answers, so `route_need_followup`
is never reached from `handle_message`, although its docstring and the sequence
at `router.py:2560` expect it; `id=` of any kind is taken by the event handler;
`set_active_need_request_id` (`router.py:484-489`) replaces the other pointers of its
chat, and `write_text` (`router.py:472`) empties the file of all chats before it
fills it, so that a death in between loses every pointer, while the comment at
`router.py:1882-1883` says (of events) that other pointers are never erased. On a
creation the AuditLog holds the ID and one description, and on an update a list of
columns that leaves out some of those written.
In the refresh: the second reading of the token (`oauth_refresh.py:479`) is in no
handler; when it raises, the candidate stays and every later refresh is refused as
`CANDIDATE_ALREADY_EXISTS`. A backup whose flush or comparison fails stays as well.
In the publication: `calendar_rejection_reason` says "the same gates as
``safe_calendar_export``", but it takes `PublicCalendarAllowed` = `approved` for
affirmative and the export does not, so that such a row is reported as an event
that is not live; the docstring of `deduplicate_rows` promises the highest
record date before the last physical row, and the code has no such step; the
board log counts entries about CalendarLog rows whatever their privacy; two
overlapping syncs may leave the older snapshot on the site.
In the re-authorization: `CLEANUP_006B_R4L_REDIRECT_DECISION.md:178` says that every
terminal path deletes restricted session material and closes the listener; a client
that connects and sends nothing keeps the listener's thread past `close`, whose join
has a limit, and `clear` swallows a failed unlink (`google_oauth_live_runner.py:149-153`,
`195-200`), although the same paragraph wants such a failure recorded. `fetch_token`
has no timeout. `atomic_promote` and the refresh share no lock: with no failure at
all, a refresh that compared before the swap began can replace, or fail to flush, a
file that the swap has moved away, displace the swap's new token to its own candidate
path, unlink it there, and have no backup to restore, whereupon the swap drops its
own: no token is left. Any request to the port, a
favicon's too, settles the run (`google_oauth_redirect.py:302`). The hash on the
command line is compared by a preflight of its own (`google_oauth_live_runner.py:633`);
the exchange is guarded by that of a second one. After Ctrl-C or
`OPERATIONAL_TOKEN_CHANGED` of the last check the candidate stays, and refuses every
later preflight until someone removes it.
In the installer: `OPERATIONS.md:179-188` says that it preserves declared mutable files
and atomically replaces the target. Between the two renames there is no target, and
after a death there the next installation finds no mutable files; what a plugin writes
between staging and moving is in the backup only. Ignored files of the source are
copied, and a checkout whose digest differs from that of HEAD may be verified while HEAD
is installed; the strict drift check then reports both. A failure at the second plugin
leaves the first one installed.

## 5. Proofs

All are about the specifications that TLC runs, for every value of the
constants that satisfies the named assumptions of the module.

| theorem | states |
|---|---|
| `TokenRefreshProofs!TypeInvariant` | every variable keeps its type |
| `PromotionMutualExclusion`, `NoLostUpdate`, `OperationalCompareAndSwap`, `UnlockedTokenIsTrusted` | the properties of `refresh_faults`, for any set of attempts and of failures |
| `TokenAlwaysRecoverable` | the same, assuming only that the last flush does not fail |
| `RefreshImplementsRegister` | `TokenRefresh` implements `TokenRegister` |
| `AttemptsCleanUp` | `DirectoryClean`, assuming that no process dies and that no unlink, no flush before the last and no reading back of a backup fails; what it says of the candidate excepts the unhandled read, which may fail |
| `RollbacksRestoreTheOriginal` | an attempt that leaves the rollback leaves what it read, assuming that neither a replace nor the last flush fails |
| `DeadOwnersFreezeTheToken` | after a death with the lock neither the lock nor the token ever changes again |
| `EventPromotionProofs!TypeInvariant` | every variable keeps its type; no process writes a row that is not there |
| `OneShot` | `OneInsertPerAuthorization`, assuming one promoting process |
| `SerialDraftsHaveOneRow`, `SerialCalendarIdsAreKept`, `SerialInsertionsAreGated` | `OneRowPerDraft`, `CalendarIdKept`, `InsertGated`, assuming one process, with failing calls |
| `FailureFreeSerialInsertsOnce` | `OneEventPerDraft`, assuming one process and no failing call |
| `DraftRouterProofs!TypeInvariant` | pointers are pointers, torn file or not |
| `FollowUpsStayInTheirChat` | `OwnDraftsOnly`, for any number of processes, chats and drafts |
| `SerialRouterRemembers` | `Remembered` with its two exceptions, assuming one process, which may die |
| `SheetRecordsProofs!TypeInvariant`, `LogAccountsForRows` | rows are rows; `Audited`, whatever messages race, whatever fails and whichever columns an entry shows |
| `AddIsIdempotent`, `NewRecordsAreKept`, `OperationsAreAtomic` | `OneRowPerId`, `NewRecordKept`, `ImplementsTable`, assuming `ChatsApart`, `MaxRows <= Window` and no reading that fails unnoticed |
| `PublicationProofs!GatesAgree` | the exports and the dry run have the same gates, for every row |
| `PublicationProofs!TypeInvariant` | every variable keeps its type |
| `SiteShowsReleased`, `CompleteRunLeavesNothingStale`, `TakenBackStaysHidden` | `PublishedWasReleased`, `CompleteRunIsFresh`, `TakenBackIsHidden`, for any number of syncs, rows, events and files |
| `DryRunsAddUp` | `DryRunAccounts`, for every tab, however many rows share a key or have none |
| `OAuthRecoveryProofs!TypeInvariant`, `OwnCodeOnly`, `CleanReturn`, `AcceptedStays`, `SwapIsSafe` | the invariants of `oauth` and `oauth_live`, with the exceptions they name, for any number of runs, any requests and failures, with or without a refresh |
| `FirstResultFinal` | `OneDisposition`, the same |
| `PluginInstallProofs!TypeInvariant`, `MutableFilesSurvive`, `TargetIsAvailable`, `InstalledIsVerified` | the properties of `plugin_install`, for any number of installers, plugins, names and checkouts |

**TokenRefresh.** Mutual exclusion is inductive with types. `SnapshotStillCurrent`
is not: a step of another attempt could change the file unless the lock
excludes it, and a rollback step could unless the rollback starts from what the
attempt itself promoted. The invariant `Inv` therefore adds that an attempt in
its promotion read a token (`OriginalIsToken`), that its backup holds that token
(`BackupHeld`), that what it rolls back or verifies is its own token
(`PromotedOwn`), that outcomes are decided only at the end (`OutcomeDecided`),
and that the file is trusted or in the hands of an attempt (`TrustedOrUndoable`).
The refinement has one case per action under this invariant.

`DirectoryClean` needs to know who still removes what (`Owned`). The lock belongs to an
attempt inside the promotion, and a backup to one between writing and dropping it.
The candidate is shared, and an attempt that finds the operational file missing
(`RecheckOriginal`) leaves its own behind: it is the attempt that is restoring the file
that sweeps it. So a missing operational file is part of the invariant, too. A death, a
failed unlink, a failed flush of the backup and a failed reading back of it each break
it in `TokenRefresh`; the unhandled read breaks the part about the candidate only, and
is named there (`SomeUnread`). With
`BackupHeld`, a rollback that begins before the last flush has failed finds its exact
backup: `RollbacksRestoreTheOriginal` is the sentence of `SECURITY_AND_PRIVACY.md:79`
where it holds, and `refresh_final_flush` shows where it does not.
`DeadOwnersFreezeTheToken` is the other side of mutual exclusion: a dead owner keeps
everybody else out as well, for good. The token is safe, and somebody has to
remove the lock file by hand.

**EventPromotion.** `Structure` says where each process is: what it holds, that
the index it found is a row, that a promotion has a promotion message. `Budget`
counts: insertions made plus the one that is due never exceed the
authorizations issued, and a promoter that has validated has one in hand. The
assumption of one promoter is needed: with two, `event_one_shot` violates it.
The other properties need one process for drafts and promotions alike, since a draft
message overwrites the row that a promotion has read. `Serial` then says that what
the process has read is what the tab still holds (`Fresh`): no row with the ID it is
about to append, the `CalendarEventID` of the row it is about to overwrite, the gates
that it has passed. Calls may fail anywhere. Only for `OneEventPerDraft` must they not:
`Recorded` says that a draft with an event has it in its row, or is one step from it,
and a failure in that step is what `event_retry` shows.

**DraftRouter.** `Structure` says that a process in the middle of a handler has
its message and its pointer change. `Owned` says that every row, every pointer
in the file, every pointer a process has loaded and every pointer it is about to
set belongs to a chat that has created or named the draft. A torn file breaks
none of it, since it reads as no pointers; a stale set of pointers written back
breaks none either, as `touched` only grows. That is why no lock is needed for
this property, although one would be needed for `Remembered`. For one process `Memory`
compares what a chat wrote last with what the file is going to hold once the process is
done (`Intended`: the change applied to what the file holds, what was loaded, or the
file), so that it holds in the middle of the read, emptying and writing of the file as
well; and a draft that was written last is open (`LatestOpen`), so that a pointer that is
dropped as stale is never to it.

**SheetRecords.** Two layers. `Base` needs no condition: types, `Busy` (a worker past
the numbering holds a row with an ID) and `Audited`, whose witness is the worker that
wrote and has not logged, or the entry, which agrees in the columns shown with what was
written. `Apart` needs three. `ChatsApart` makes the IDs that workers
may hold disjoint (`Own`, `OwnApart`), so that no two hold the same ID (`Distinct`);
then an ID that was not in the tab when it was looked for is not there when its row is
appended (`Vacant`), and a row found is unchanged when it is overwritten (`Located`).
`Shape` says that what is appended or written is made of the message alone, or of the
message and that row: the two steps that `Records!Create` and `Records!Merge` stand for.
`MaxRows <= Window` says that the duplicate check reads the whole tab, so that not
found means not there. Without a failed reading the number after the highest is free
(`LastNumberIsLast`). That a set of rows has a first, and one of numbers a highest, is
well-foundedness (`LeastNumber`, `GreatestNumber`). Each condition is needed:
chats that share an ID break `OneRowPerId` and `ImplementsTable`; two numbering
processes, and a failed reading, these and `NewRecordKept`; a tab that outgrows what is
read `OneRowPerId`.

**Publication.** `SyncInv` relates a snapshot to the history: what a sync has
read passes the gates only if it was released since the sync began
(`ReadSince`), because the gates imply `MayBePublic` and the row that
`deduplicate_rows` chooses has the highest `LastUpdated` (`PassingIsReleased`,
`DedupRows`); and while a sync is alone, the files before the one at hand are
its own (`OwnFiles`). `HiddenInv` says that a record taken back has a row that
is not public and strictly newer than all others with its ID. That a dry run adds up is
counting: each key keeps exactly one row (`OneIsKept`, `OneRowPerKey`), which is exported
or rejected and never both (`ExportedOrRejected`, from the gates that `GatesAgree`
compares).

**OAuthRecovery.** Three layers. What a listener has stored: an accepted code is the
run's own (`OwnCode`), and a stored result stays (`Settled`); `CallbackListenerProofs`
shows it of every action of a listener. How far a run has come (`Progress`,
`Session`): the phases in which it may own the session files, and those that follow
an accepted callback. Where tokens are: a run that may still be refused has its token
in the candidate only (`Holding`), an accepted one there until the swap begins
(`Candidate`), and the swap has put the old and the new token where its phase says
unless a refresh has disturbed it (`SwapInv`). A step of a run is first reduced to what the credentials see of it
(`Effect`, `Frame`), so that the last two layers need no case per action.

**PluginInstall.** `TargetAvailable` is not inductive, as an installer whose backup
another one has put back leaves without looking; `SomeoneAnswers` asks of whoever
answers for a missing target that he can still restore it. `StagedIsHead` says that
the repository is still what was verified and staged while any installer is at work.

**Only model-checked.** `LockReleased`, `CandidateRemoved`, `RunReturns` and
`ListenerCloses`: fairness and `ENABLED` are beyond the prover. Every other property of
a passing run is a theorem. The three violations are counterexamples and need no
proof; each has a theorem that says when the promise is kept after all (`OneShot`,
`FailureFreeSerialInsertsOnce`, `RollbacksRestoreTheOriginal`).

## 6. Abstractions

- A file write is atomic, except that a crash may leave the file torn, and that
  the pointer file is emptied first. A crash is of a process, not of the machine.
  Files have no open handles and nobody outside the protocol writes them.
- A reading of a tab is atomic, row numbers do not move (nobody sorts or deletes
  rows by hand), and the service appends below the last row.
- In `DraftRouter` reading a target and writing it is one step; `SheetRecords` and
  `EventPromotion` have what happens in between. Promoted events are not in it.
- The AuditLog is state in `SheetRecords` only. `ensure_header` is left out: it
  rewrites a constant.
- A source link that yields no chat at all would see the drafts of every chat
  (`open_*_drafts` compare only a non-empty scope); every caller passes a link
  with a chat.
- In `Publication` a file is the set of records that it shows. A reading of a tab is
  one call, as in the code; a page of the Calendar's list has one event. Two syncs
  never write into one file at the same instant. Entries of the AuditLog are seen
  only through which visible records they count.
- In `OAuthRecovery` a preflight is one step, and so are looking for a URL file and
  writing it. The code that a callback carries is the one of its state. Ctrl-C does not come inside a handler or
  a `finally` clause. The operator promotes when no run is at work. In the command
  line the end of the process ends the listener's thread, so that `ListenerCloses` is
  about callers of `run_guarded_oauth`.
- In `PluginInstall` the repository does not change during an installation, the
  manifest's files are tracked and `git show` succeeds, and a rename never puts a
  directory onto another one.
- Parsing, wording, time zones, privacy terms and the columns of a row are
  abstracted to what gates and handlers tell apart.

## 7. Not modelled, and plan

In this order:

1. `DraftRouter` composed with `EventPromotion` through the shared pointer file, so
   that the event pointer is read and written in the steps of the file.
2. `CredentialSwap` as a second implementation of `TokenRegister`, to say which of its
   clauses fail without a lock; a full `TokenRefresh` beside it.
3. In `Publication`: the Calendar part of the dry-run report next to the gates of
   the export, and an abstract site that a sync of its own implements.
4. Proofs: the refinements for 1 to 3, as they are written.

Left out for good: doctor, diagnostics and CI scripts (read-only and
sequential), configuration and models (constants), plugins and command line
shims (stateless), rendering of pages (formatting).
