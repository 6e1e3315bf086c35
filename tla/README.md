# tgctl-go in TLA+

Specifications of `tgctl-go` (`../src`), a Telegram command line client for scripts and agents,
with the TLC runs that check them and TLAPS proofs of their main properties.

The program keeps one SQLite database and one session file per account. Any number of processes
work on them: every invocation of a command is a process, and `listen`, `sync` and the local reader
are long-lived ones. A process opens a Telegram client, which owns the session lock until it is
closed, and calls Telegram through it. Nothing but the database survives a process, and Telegram
decides what it is sent at its own pace. The hard part of the program is to say something true about
a write after any of this fails: whether it happened, and whether it may be tried again.

## Components

Paths of code are relative to `../src/internal` here and below.

| Component | State | Operations | Hard behaviour | What makes it correct |
|---|---|---|---|---|
| Write ledger (`client/write_ledger.go`, `client/cooldown.go`) | `tg_write_calls`, `tg_write_window`, `tg_rpc_cooldowns`; per client `sequence`, `accepted` | `Invoke`: check the cooldown, reserve the window, store the request, call, store the wait, apply the updates, store the outcome | a crash or a failed statement between any two steps, late or lost answers, reads in parallel | the ledger never lies; a definitive rejection proves that nothing was sent; waits and the write limit hold account-wide |
| Write pipeline (`writes/pipeline.go`, `idempotency/idempotency.go`, `dispatch/dispatch.go`) | `tg_idempotency` | claim of the key, replay, resolve, preflight, operation, release / finalization / retention | retries that compete for a key, crashes that leave it pending, error chains that carry several claims | one writer per key, truthful reports, faithful replays |
| Operations (`client/gotd.go` and neighbours) | none | one or several mutations, reads before them | partial success | a partial success is reported as committed |
| Session lock, client lifecycle and session file (`safety/sessionlock.go`, `client/lifecycle.go`, `client/session_storage.go`, `client/logout.go`, `commands/login.go`, `auth.go`) | the lock, the session file, the user the cache is bound to | acquire with `--lock-wait`, start, close, login, `me`, logout | startup that fails late, a transport that outlives its caller, stores that race logout, another user over the same cache | one client at a time, always released; a removed session stays removed; rows of one user only |
| Update store (`client/update_storage.go`, `client/update_outbox.go`, `store/events.go`) | `tg_update_state`, `tg_channel_state`, `tg_event_outbox`, tombstones, the barrier in memory | apply an update, advance the checkpoint, recover, listen, acknowledge | a failed application under a moving checkpoint, crashes around output and acknowledgement | no checkpoint passes an update that was not applied; events are delivered at least once |
| Message cache (`store/messages.go`, `store/download_identity.go`, `store/media_hashes.go`, `commands/localdb.go`, `sync.go`, `media_download.go`, `upload_hash.go`, `media_hash.go`, `destructive.go`) | `tg_messages`, `tg_media_hashes`, the downloaded files | upsert from updates and from history, download, upload, index, delete | a command stores what it saw after its client is closed, when others have edited, deleted or downloaded | a deleted message stays deleted, an edit is never undone, a path, an identity and a digest belong together |
| History (`commands/sync.go`, `localdb.go`, the pager in `client/gotd.go`, `store/sync_state.go`) | `tg_sync_state`, the cached rows | backfill, sync, `sync --follow` | pages read while messages are posted and recalled, crashes between pages, store and acknowledgement | a checkpoint never skips a message; a failed command left nothing |
| Message lists (`store/cursor.go`, `commands/messages_read.go`, `threads.go`) | none; a cursor is handed to the caller | a page from the cache or from Telegram | rows that change between pages | in order, nothing skipped |
| Albums (`client/upload_album.go`, `upload_snapshot.go`, `commands/upload_album.go`) | fingerprints, snapshots, rows and hashes | fingerprint, upload the parts, send, map the answer, record | files that change, an answer that is lost or identifies only some items | accepted is never reported as failed; rows and hashes describe the right message |
| Downloads (`media/download.go`, `client/media_download.go`, `commands/media_album_download.go`) | temporary and published files | create, transfer, verify, publish, clean up; an album item by item | interruption anywhere, other downloads and programs at the same names | no partial file under the final name, nobody else's file removed |
| Export (`commands/export.go`, `store/export.go`, `manifest.go`) | output and manifest files | write, describe, verify | cache and media change meanwhile | output, manifest and verification agree with what was there |
| Moderation and permissions (`client/gotd.go`, `permissions.go`, `permission_inspection.go`) | Telegram's | read, patch, write; derive from several answers | other administrators between two requests | nothing erased that was not named; no claim without ground |
| Folders (`commands/folders.go`, `client/gotd.go`) | Telegram's; `tg_idempotency` | create, edit, add, remove, delete | another client between read and write; keys without a reservation | a patch is minimal, a replay stands for an effect |
| Accounts, backup, recovery (`accounts`, `store/backup.go`, `commands/recovery.go`) | directories, the pointer of the current account, snapshots | create, select, remove, back up, restore | running clients of the account | nothing is removed or replaced under a running client |
| Reader (`reader/server.go`, `commands/reader.go`) | an HTTP session, advertisements, durable keys | pages, files; callbacks that each run the pipeline | parallel and repeated requests, shutdown, restart, switch of account | at most one callback per interaction, one user and chat, closed for good |
| Strings (`resolve`, `text/entities.go`, `safety/ratelimit.go`) | none | functions | boundaries | not modelled |
| Output, audit, flags, fake client, tools | files appended to | formatting | none of their own | not modelled |

How they interact: a write command calls `dispatch.Run`, which calls `writes.Run` with a callback;
the callback opens a client (`newLockedClient`, which acquires the session lock), runs the operation
through the client's `writeLedgerInvoker` and closes the client. The update manager of the same client
runs beside it and shares the invoker, so its reads meet the same cooldowns and record their own.
All of them share the account's database; only one of them holds the session lock.

`PROJECT.json` lists every component with its state of modelling, and every hazard with the line
where it bites and the property that watches it.

## Modules

* `WriteLedger` - the invoker and the tables it shares with the other clients of the account, the
  session lock as the mutual exclusion of clients, Telegram as an environment that applies or refuses
  each mutation in transit, possibly after the client is gone, and the clock.
* `KeyedWrites` - what an idempotency key promises, in five actions.
* `WritePipeline` - `writes.Run` and the client callback around `WriteLedger`; it extends that module and
  conjoins its actions (`Open`, `Invoke`, `InvokeStep`, `Close`, `Crash`) with its own. `KeepsPromise`
  is the refinement of `KeyedWrites`.
* `UpdateStore` - the way of an update from Telegram's streams through `updateStorage` into the database and
  the outbox, and from there to `listen`, `events-list` and `events-ack`. It stands alone: of a client it needs only that one is
  open at a time, which `WriteLedger` shows.
* `MessageCache` - the row of a message, the file and the identity it names and the hash index, against Telegram's versions
  of the message, under six commands and the live updates. It starts where `UpdateStore` ends: an update that is applied is one upsert.
* `AccountSession` - one account directory: the session file, its lock, the cache and the user it is bound to, under every kind of
  process that touches them, each a caller and the goroutine of its transport.
* `AccountDirectory` - the same lock as an inode with a name, against `accounts-remove`, which unlinks it.
* `History` - Telegram's history of a chat, the pager, `sync`, `sync --follow` and `backfill`, with the checkpoint.
* `MessagePages` - lists read page by page with cursors.
* `Moderation`, `Permissions` - the commands that change what a member may do, and the one that reports it.
* `Folders` - the folder commands and their own use of idempotency keys.
* `MediaDestination` - the publication of a downloaded file, system call by system call.
* `AlbumUpload`, `AlbumDownload` - the two album commands over their items.
* `Archive` - export, manifest and verification.
* `Reader` - the local reader: parallel requests, one gate, callbacks under durable keys.
* `WriteLedger_proofs`, `WritePipeline_proofs`, `UpdateStore_proofs`, `MessageCache_proofs`, `Accounts_proofs`, `Chats_proofs`, `Media_proofs`,
  `Writes_proofs` - theorems and proofs. `Accounts_proofs` and `Media_proofs` take the modules of the run of the same name together, `Chats_proofs` those
  of `chats`, and `Writes_proofs` takes `KeyedWrites`, `Folders` and `Reader`.
* `MCStores`, `MCWritePipeline`, `MCUpdateStore`, `MCMessageCache`, `MCAccounts`, `MCChats`, `MCHistory`, `MCMedia`, `MCWrites` - the small
  instances. Modules that share no state are checked in one run: the variable `which` chooses at the start the one that moves, so the states
  of such a run are the sum, and not the product, of those of its modules. `AccountSession` and `AccountDirectory` tell apart by their state
  which of them has begun.

What composes what: `WritePipeline` extends `WriteLedger` and implements `KeyedWrites`; a callback of `Reader` and a change by `Folders` or
`Moderation` is one operation of the pipeline, whose answer may be lost; `History` takes from `UpdateStore` that events are applied in order and
delivered until acknowledged, and leaves to `MessageCache` what a row holds; `AlbumDownload` takes a file from `MediaDestination`; every module but `AccountDirectory`
takes the exclusion of clients from `AccountSession`. `KeyedWrites` is checked as what `WritePipeline` implements, and has no instance of its own.

### WriteLedger and the code

| Model | Code |
|---|---|
| `holder`, `Open`, `Close`, `Crash` | `newLockedClient`, `GotdClient.Close`, the lock's release by the goroutine of the client or by the operating system |
| `cooldown`, `Blocked`, `Upsert` | `tg_rpc_cooldowns`, `checkCooldown`, `recordCooldown` (`by` is history: who recorded it) |
| `rows`, `live`, `Kept`, `ReserveWindow` | `tg_write_window`: `rows` is every row ever inserted, `live` those not purged |
| `ledger`, `seq`, `accepted` | `tg_write_calls.state`, `writeLedgerInvoker.sequence` and `accepted` |
| `phase` | the statement `Invoke` stands at: check (45), window (61), prepare (64-81), send and wait (82), settle (83-109), record (110-127) |
| `reply`, `Receive`, `Lose` | what `next.Invoke` returns: a typed answer, or any error that proves nothing |
| `verdict` | the error chain `Invoke` returned, as the set of the kinds `errors.As` finds in it: `definitive`, `committed`, `unknown`, `flood`, `other` |
| `reading`, `StartRead`, `EndRead` | calls that are not mutations, by the command or the update manager, beside the mutation in hand |
| `transit`, `effect`, `Apply`, `Refuse` | Telegram |

A statement that can fail may fail in the model: `CheckCooldown`, `ReserveWindow`, `Prepare`, `Settle` and
`Record` have a disjunct for it with the error the code returns there. The two disjuncts of `Settle` and
the one of `Record` leave the ledger row `prepared`, as the code does. `Crash` may come at any point, and the
mutation in transit is then decided without a client. Requests, responses and fingerprints are left out: no
property tells them apart. A client sends its mutations one after the other and none after a failed one; this is
how the operations in `gotd.go` are written, and it is the guard of `Invoke`.

### WritePipeline and the code

`pc` is the place in `writes.Run`: `reserve` and `lookup` are the two database accesses of
`idempotency.Reserve`, `resolve` is 175-206, `preflight` 208-229, `open`, `run`, `call` and `close` are the callback
`commands/messages_write.go:287-301`, `finalize` is 248-288, and `release` is `idempotency.Release`, also when it runs
deferred. `Start` takes the write gate, the file digests and the fingerprint together, because nothing of them is
shared. The row of a key keeps its command, its fingerprint, its owner's request id and whether it is still
pending; the owner is compared by `Finalize` and `Release` as the code does. Every invocation has its own request id.
`TakeVerdict` covers the operations as plans of mutations: one for a send, two for kick. A response that does
not identify the message it created is a success that returns a committed write (`sentMessageID`).
`Succeed` is the end of `dispatch.Run`: a durable command whose audit line cannot be appended reports a committed
write.

### UpdateStore and the code

| Model | Code |
|---|---|
| `feed`, `sent`, `Produce` | Telegram: what each stream will hold, and how much of it is numbered (`pts`) |
| `db.applied` | history: the updates whose transaction committed |
| `db.outbox`, `db.lastId` | `tg_event_outbox` and its AUTOINCREMENT sequence; a row remembers its update instead of the JSON text |
| `db.rows`, `db.tomb`, `db.common`, `db.read` | `tg_messages`, its `deleted = 1`, `tg_common_deleted`, `tg_read_state` |
| `stored` | `tg_update_state.pts` and `tg_channel_state.pts`; `None` is no row or the placeholder 0 |
| `failed` | `updateStorage.failure`, the closed barrier |
| `have`, `due` | what gotd's manager holds in memory: its position, and a checkpoint it is about to write |
| `tx`, `work`, `Begin`, `PersistOne`, `Commit`, `RollBack` | the transaction of `Handle`, one event at a time, under the mutex of `updateStorage` |
| `ApplyOne` | `persistUpdateEvent` and the conditional insert of one event |
| `SetCheckpoint`, `Adopt` | `exec` for the checkpoint statements; the first `SetState` or `SetChannelPts` of a stream |
| `RecoveryFails` | `recoveryAPI` and `OnChannelTooLong` |
| `cons`, `CheckBarrier`, `SelectRow`, `Consider`, `Emit`, `Acknowledge` | one round of `listenDurable`, the loop of `listen` and `AcknowledgeEvent` |
| `ListPending`, `AckReceipt` | `events-list` and `events-ack`: processes without the session lock; `shown` are the receipts in circulation |

An update is a kind, a chat and a number: text, dates and edits do not matter to delivery and deletion, and an edit is
content like a new message. Every statement may fail where the code returns its error: BEGIN, any statement of the transaction,
a checkpoint, the acknowledgement, the output. gotd is a library and its manager is modelled by what the code says of it: it
may write the checkpoint of updates whose handler failed (`AfterHandler`), it recovers a gap from the checkpoint, and it adopts a
stream without a checkpoint where Telegram stands. The digest of a receipt is modelled by the row it names. A transaction
excludes the other writers of the database (`~InTx`), readers see the state before it.

### MessageCache and the code

| Model | Code |
|---|---|
| `hist`, `gone`, `Post`, `Edit`, `Remove` | Telegram: the versions of a message (date of the edit, medium) in order, and its deletion |
| `inbox`, `HandleUpdate` | an update under way, and its application by `persistUpdateEvent`; it may be missing where the code recovers by history |
| `row` | `tg_messages`: `date`, `edit_date`, `has_media`, `media_path`, `media_id`, `deleted`. `ver` and `mver` are history: the versions the text and the media columns were written from |
| `index` | `tg_media_hashes`, one entry for each message and representation |
| `files` | the content of the files, by name: with chat, message and identity in it (`unique`, backfill and sync), as its sender called it (`named`, `download-media`), the file a user uploads (`source`) |
| `job` | the commands at work; `pc` is the access that comes next, the other fields what the command holds in its variables |
| `Upserted`, `Backfilled` | the `ON CONFLICT` clauses of `UpsertLiveMessage` and `insertBackfillMessageContext` |
| `Acceptable`, `WithMedia`, `Bare`, `MediaPathStored` | `StoreVerifiedDownload` and `StoreMessageMediaPath` |
| `UploadRecorded`, `Unidentified` | `RecordUploadedMedia`, `RecordUploadedAlbum`, `recordUploadHash` |
| `Tombstoned`, `Indexable`, `IndexEntry`, `Found` | `MarkLiveMessagesDeleted`, `IndexMediaHashKind`, `FindMediaHash` |

A command that talks to Telegram reads it under the session lock, closes its client and only then stores what it saw: the
step that reads and the one that stores are separate actions, and edits, deletions, updates and the other commands come
between. Within a statement of SQLite nothing does. `Quit` ends a command between any two steps: a failed statement, a refused write, a
crash. Media are photos and documents, whose identity stands for their content; polls, contacts and the other kinds have no
file. One chat is enough because every statement names its chat. The caps of a backfill are a page from which any row may be left out.
A digest is modelled by the content it was taken of, and a date by whether a local clock gave it.

### AccountSession, AccountDirectory and the code

| Model | Code |
|---|---|
| `caller`, `runner` | the command, and the goroutine of `startClientRun` that runs gotd and releases the lock when it returns |
| `Begin`, `Acquire`, `GiveUp` | `SessionLock.AcquireContext` with its wait; `sidecar` is the file a read-only client must find |
| `Connect`, `StoreBegins`, `StoreEnds`, `flushing` | `LoadSession`; `StoreSession` in two steps, because it holds `mu` from the temporary file to the rename |
| `Status`, `Bind`, `Ready` | `Auth().Status`, `tg_account_identity`, the `ready` channel |
| `Abandon`, `Unwind`, `Release`, `Close`, `Stopped` | a startup whose caller gives up, the end of `Run`, the deferred release under `logoutMu`, `GotdClient.Close` |
| `Logout`, `Revoked`, `LogoutFails`, `Clear` | `auth.LogOut` under `logoutMu`, its answers, `AtomicSessionStorage.Clear` |
| `Publish`, `CopyDatabase`, `CopyFails` | `db-backup` and `db-restore`: a snapshot is linked to a name that must not exist |
| `sidecar` as a number, `flock`, `OpenSidecar`, `Compare`, `Lock` | the inode opened, compared with the name, and locked |
| `Reset`, `List`, `Delete`, `Unlink`, `RemoveDir` | `Manager.Remove` in its order |

A fresh key is any key that was not used. Another session may be revoked from outside at no time: `auth.resetAuthorizations` is not modelled.
The exit of a process whose runner still unwinds is a crash. `me` and login write `tg_me` without comparing it with the bound user, and the models do so.
The entity row they write of the same user is left out: it is one more row of that user.

### History, MessagePages and the code

| Model | Code |
|---|---|
| `posted`, `gone`, `Post`, `Recall`, `Read` | Telegram; `Read` marks what a page returned, so that a run can exclude that it is recalled (`RecallsRead`) |
| `rows`, `tombs`, `outbox`, `applied`, `HandleNew`, `HandleDeletion` | the tables and the update handler of the connected client |
| `checkpoint`, `mem` | `tg_sync_state.last_message_id`, `state.LastMessageID` |
| `task`, `FetchPage`, `Page`, `More`, `After`, `Paged` | `paginateBackfillHistory` and the message bounds it asks with |
| `LoadState`, `Connect`, `End`, `Persist`, `ApplyEvent`, `SaveState`, `Acknowledge`, `LoseConnection` | the stations of `sync --follow`; a transaction is one action |
| `Prepare`, `CloseClient`, `Insert`, `Taken`, `BackfillFails`, `FailureReport` | `backfill`: count, fetch, close, insert under the exclusive lock with a second count, and `wrapBackfillMediaCommit` |
| `query`, `Listings`, `Beyond`, `CacheNext`, `Matches`, `RemoteNext` | a listing, `cursorClause`, `MessageCursor`, `DecodeRemoteCursor`, `remoteRows` |

`listen` is in `UpdateStore`; events of other chats are only acknowledged here. A backfill starts at the newest message each time. A tombstoned
row is counted as taken by its number. A cursor of the cache is checked for chat and order only, and one of Telegram for the whole query;
the models do both. A message whose date changes may be listed twice or not at all, and the properties except it. A message Telegram returns and the
client cannot convert ends a remote listing early (`remoteRows` compares counts); the model has none. `get-msg` is not modelled.

### Moderation, Permissions, Folders and the code

`Moderation` gives each command the requests of `AdminAction` and `DeleteMessages` in their order, with another administrator before each;
`Answered`, `Refused` and `Lost` are the three answers, `Failure` the report. `Permissions` has the three answers `GetChatPermissions` puts together
(`ReadChat`, `ReadFull`, `ReadParticipant` or `ReadGroup`), and the derivation `Effective` as it stands in the code, with its order of tests; `ReportFounded` compares it
with Telegram's rules written from the definitions of rights, for the chat and participant of the answers. The report may mix moments, which the documents call
advisory. The chat carries rights of the account also when it is no administrator (`Carried`: an empty set, as `dialogs.go:28` gives a zero struct), and `ReadGroup` takes them
as its rights when the full form calls it one: `ReportFounded` therefore excepts what is denied an account promoted between the two, which is the disagreement `permissions_promotion` shows. `view_messages` of a ban is not a right of the report.

`Folders` has `runFolderWrite`: `LookupKey` at the start, `TakeSession`, the operation (`List`, `ReadFolder`, `Write`), `StoreEnvelope`. `copy` is the folder as read,
`PatchPeers` is `patchFolderPeers`, `OtherClient` changes folders at any time. The command a recorded key belongs to is not compared, and
`StoreEnvelope` may fail where the code finds the key recorded: the model admits more. `ReorderFolders` and `SetPeerFolder` are single requests and left out.

### MediaDestination, AlbumUpload, AlbumDownload, Archive and the code

A file is its inode; `dir` maps the names to files: the final name, and for each download its part, private and quarantine names. Each action is one system
call on a name another program can see, with the checks of private names that follow. `at` is the place in `OpenDestination`, the transfer, `Commit`
(`SyncPart`, `ValidateTarget`, `Capture`, then `PublishAbsent` or `Exchange`, `Verify`, `Rollback`) or `Abort`; `outcome` is what `DownloadMedia` returns. The part and private names
are random, and only their owner touches the private ones, as the code assumes. A step that finds its part replaced while the destination is being opened ends like a
transfer that failed.

`AlbumUpload` follows one command: `Fingerprint` before the key, `Snapshot` for each item, `SendAlbum`, `Extract`, `Record`, `HashItem`. `flight` is what Telegram does
with the request; `Answers` is what an update may say of each item: nothing, the random id, the message. A refusal before anything is sent, which the code reports as an unknown outcome, and
an album that names one path twice have no step of their own. `AlbumDownload` follows the loop over the items
in several runs (`Plan`, `Fetch`, `Skip`, `Failure`, `Committed`, `Unrecorded`, `Conclude`). A file has the name its sender gave it (`sentName`), so that two items may have one name, and a file of
another program may have it too (`Foreign`); `disk` says whose medium the file of each name holds. A taken name is skipped without `--overwrite`, without a look at the file, and with it the file is
replaced (`Publish`). The names stay the same from run to run. Files are removed and replaced by others between two runs (`Meddle`) and not while one is at work: what happens at one name then is
`MediaDestination`.

`Archive` has the atomic writers of output and manifest (`WriteTemp`, `LookAgain`, `Rename`; `WriteManifest`, `PublishManifest`), the description item by item, its hash in a second
access, and the verification, where one item is one step. Files are sizes and contents. Files of other chats under the media root count as extra, as in the code.

### Reader and the code

`stage` is the station of each request, `turn` the place of `Server.gate`. `Arrive` includes the method and body checks, `Turn` and `Late` the check of the context after
the wait. `BeginPage`, `PageArrives`, `AdArrives` are a page with its advertisement; `BeginEvent`, `ReserveKey`, `Send`, `SendFails` a callback, which is one run of the pipeline under
the key `CallbackKey`. A client that does not open, or is another user's, is no rejection by Telegram, and leaves the key reserved (`SendFails`); a refusal releases it. `Shutdown`, `Clear` and `Restart` are the end of `Serve` and a new process over the same database; `Expire` and `Switch` are the clock and
other commands. Report options, static pages, tokens and origins are left out.

## Runs

| Run | Question | Instance |
|---|---|---|
| `stores` | Is the journal true, are waits and the limit honoured, whatever fails? Does the update checkpoint skip nothing, is nothing lost, reordered or brought back? Do folder commands keep what they were not asked to change? | journal: 2 clients, 2 mutations each, scopes account and one peer, limit 1 in a window of 2 seconds, waits of 1 and 2 seconds, clock 0..2. Updates: one stream of up to 3 updates, five feeds with deletions and expiries in every order and read markers, 2 clients one after the other, listeners with and without filter and with manual acknowledgement. Folders: 2 invocations of every command, ids up to 3, 2 chats, 1 key or none, one change by another client. About 1 650 000 states up to symmetry |
| `update_delivery` | Do two streams share the barrier, do deletions keep to their peer, does every update reach a consumer and every failure the listener? | the account and a channel, messages of one number, a listener with a filter, fairness below; about 240 000 states |
| `writes` | Does a key admit one writer, are reports and replays true, is `KeyedWrites` implemented? Does the reader tell Telegram nothing twice? | pipeline: 2 invocations, one key or none, a one- and a two-mutation command, two fingerprints, dry runs, crashes. Reader: 2 requests at a time, 1 advertisement fetched up to twice, 2 interactions, 2 events, 2 starts, one switch of the user, no page issued beyond the first. About 950 000 states up to symmetry |
| `pipeline_liveness` | Is an acquired session always released? | 2 invocations, no symmetry, fairness below; about 320 000 states |
| `accounts` | Does the lock follow the transport, does logout stick, do users keep apart, does removal respect clients? | session: 2 processes at a time, 3 started, 2 users, 2 keys. Directory: 3 processes, 2 lock files. About 750 000 states |
| `chats` | Has the history a gap? Are pages complete? What do moderation and the report of permissions do beside others? | history: 1 sync and 1 backfill, 4 messages one of which is a service message, pages of 2, one recall of a message not yet read. Pages: 3 messages on 2 dates, limits 1 and 2, one change. Moderation: 2 acts of another administrator. Permissions: all roles and types, three sets of restrictions, two of rights, one change. About 1 010 000 states |
| `message_cache` | Does the text only move forward, is a tombstone final, do path and identity agree? | one message with 2 versions, 2 media, 2 commands at a time out of backfill, sync, download and delete, one update under way; about 1 720 000 states up to symmetry |
| `media_matches` | Do lookups and rows name the current medium? | the same with download, upload and index; about 2 260 000 states |
| `media` | Is a published file whole and nobody else's removed? Are albums and archives reported as they are? | publication: 2 downloads and 2 acts of another program. Upload: 3 items, 2 contents. Download: 2 items, 2 names they may share, 2 runs. Export: 2 messages, 2 files, 2 changes. About 2 100 000 states up to symmetry |
| `history_gap` | Does the pager tell a full last page from a page with more history? (not when what it read is recalled) | as `chats`, with recalls of messages that were read, 2 of 4 messages to fetch |
| `permissions_promotion` | Are effective rights that are unknown omitted? (not when the account is promoted between two answers) | `Permissions` alone, one set of rights |
| `pipeline_flood_wait` | Can the documented retry after FLOOD_WAIT work? (it cannot) | the pipeline of `writes` |

Properties with parts. Where a run composes modules it checks one named conjunction per module, and each part has its own comment there:

| Property | Parts besides the type invariant of the module |
|---|---|
| `SessionSafe` (`accounts`) | `TransportOwnsSession`, `ClosedMeansReleased`, `LogoutSticks`, `RowsOfOwner` |
| `DirectorySafe` (`accounts`) | `OneOwnerUnlessUnlinked` |
| `NothingTakenAway` (`accounts`) | the action properties `OnlyRevokedIsRemoved`, `OwnerIsForever`, `NothingSweptAway` |
| `HistoryCovered` (`chats`) | `PagingLeavesNoGap`, `CheckpointCovers`, `AckedIsBehindCheckpoint`, `FailedLeavesNothing` |
| `PagesComplete` (`chats`) | `ListedInOrder`, `NothingSkipped` |
| `ModerationHonest`, `ReportSound` (`chats`) | `VerdictHonest`; `ReportFounded`, `RestrictionsTakeAway` |
| `NothingElseChanged` (`chats`) | the action properties `CapHolds`, `UnrelatedKept`, `KickKeepsRestrictions`, `OtherChatIntact` |
| `FoldersConsistent`, `FolderWritesMinimal` (`stores`) | `ListsDisjoint`, `ReplayMeansEffect`; the action properties `PatchIsMinimal`, `CreateMakesNew` |
| `ReaderSafe`, `CallbacksAdmitted` (`writes`) | `CallbackOnce`, `OneSubject`; the action properties `SentAsShown`, `ClosedForGood` |
| `PublicationSafe` (`media`) | `NoForeignFileRemoved`, `FinalIsWhole`, `CleanEndLeavesNothing`, `OneWinner`, `FailureNotPublished` |
| `AlbumHonest`, `GroupResultHonest` (`media`) | `FailureMeansUnsent`, `SentAsFingerprinted`, `RowsMatchMessages`, `HashesMatchMessages`; `WholeMeansAllThere`, `DownloadedIsOwn`, `SuccessIsFinalized` |
| `ArchiveFaithful` (`media`) | `ManifestCoversOutput`, `CleanMeansSame`, `NoFalseAlarm` |

The type invariants of `WriteLedger`, `WritePipeline`, `UpdateStore` and `MessageCache`, and `CooldownNeverShortened`, `ReadMarkersKept`, `SettledPerformed` and
`EditedIdentity`, are theorems for every value of the constants and have no run of their own.

Why the bounds are enough. Two clients give every interleaving of a client with one that died or is waiting for the
lock, since at most one is open; that a third invocation finds nothing else under its key is a theorem (`OneWriter`, `FaithfulReplays`).
Two mutations per client distinguish the first from a later one, which is the only distinction the code makes
(`accepted`). Limit 1 with window 2 and a clock of 3 instants has writes inside, at the edge of and outside the window,
purges, refusals and reservations that are never used; the theorem `LimitedWrites` covers every limit and window. In the
pipeline's runs the clock stands still: time enters it only through the ledger, which `stores` runs with it.
The feeds of the update runs hold each pair of kinds that can meet in one message, in both orders, and a third update to be
recovered after them; the second client is the one that replays what the first applied without a checkpoint. The theorems
cover all feeds. Two commands and an update beside them are the three writers of a row that can have read different things of two versions
and a deletion; the theorems of the cache cover any number of commands, messages and versions. `message_cache` runs without uploads and
`media_matches` without a plain sync, because the code does not keep the properties there, as "Disagreements" says.
Two downloads and one other program are the three parties the publication code distinguishes: itself, another one of its kind and a stranger; two acts of the stranger
put a file under a name and take it away again between two calls. Three items are the least album of which an answer can name one, several or all,
in another order. Pages of 2 over 4 messages give a first, a middle and a last page, and a total reached early. One service message and one recall are enough for each
of the counters of the pager to differ from the others. Two users and two keys let a login meet the cache of the other user and a key that was removed. Two lock
files are the removed one and the one created after it. A folder id up to 3 leaves a gap (2) and an end (3).
`chats` excludes recalls of messages the pager has read, and runs one sync at a time: what happens otherwise is `history_gap` and the last
paragraph of "Disagreements".
Every action, and every disjunct of the next-state relations, fires in the passing runs. Deadlock is not checked
because the invocations, the clients, the feeds and the versions of a message are finite and the system really stops when all are done.

Fairness. `FairSpec` is weakly fair for the step of each invocation and for nothing else: not for Telegram,
whose answer may never come, not for the clock. A step of an invocation is always possible while it runs: the
RPC ends in a transport error or by its context (`Lose`), the wait for the lock ends with `--lock-wait`, and
statements return. An invocation may die instead, which releases the lock too.

`FairUpdateSpec` is weakly fair for the manager of each stream, for the transaction that runs, and for the listener: their loops
do nothing else, and statements return. Not for Telegram, not for the failures, not for those who list and acknowledge. Delivery
may therefore end in a closed barrier, in a client that stops or in a listener whose output fails, and the properties say so.

Disagreements with the documents. `pipeline_flood_wait`: `docs/safety.md` tells a caller to sleep and retry with
the same key after FLOOD_WAIT. A FLOOD_WAIT that Telegram answers to the first mutation does release the key; one
that comes from a stored cooldown, or from a read before the first mutation, keeps it pending for good, although
nothing was sent, and the retry is told that the operation is unresolved.

`history_gap`: the pager counts the items it has seen against the total of the page in hand. A message that is recalled after it was read lowers the total but not the count,
so the paging ends before the oldest messages were fetched, the result is not marked truncated, and `sync` moves its checkpoint past what it never read.

`permissions_promotion`: in a basic group, `chat-permissions` takes the rights of the account from the first answer once a later one calls it an administrator
(`permission_inspection.go:94-95`). An account that was no administrator has an empty set there, not none (`dialogs.go:28`), and so each right of an administrator is denied, which no
answer has said; `docs/phase-progress.md:119` has it that unknown effective rights are omitted.

The following were met while modelling and have no run of their own; the passing runs leave the case out where they would be violated by it, or their properties except it by name.

* The cache. `sync` without `--download-media` stores an edit without an identity, and the upsert then keeps the path of the old medium (`store/messages.go:84`), against "changed media invalidates
  old file associations" (`docs/reliability.md:45`). `download-media --overwrite` replaces a file of the sender's name before the row is compared, and rows that name it keep another identity, against
  "Keep verified download paths and Telegram media identities together" (`CHANGELOG.md:31`). The record of an upload replaces text, path and tombstone that an update has already
  brought up to date (`store/messages.go:466`), against "Newer edits win over older history". Each is shown by `message_cache` with the uploads, the plain sync or one common file name added.
* Accounts. A client that waits for the lock file which `accounts-remove` unlinks gets the lock of a file without a name, and another client may then own a new one: two owners,
  against `docs/safety.md:186`. `OneOwnerUnlessUnlinked` says that this is the only way. A read-only client accepts a missing cache, although `docs/reliability.md:9` requires a matching one.
* History. `sync` reads its checkpoint before it takes the session (`sync.go:76` before `86`), so of two syncs of a chat the later one may move it back.
* Folders. A folder command looks its key up before the effect and records it after, with no reservation: a crash in between, or two commands with one key, perform it
  twice, against the promise of `README.md:116` for keys. `ReplayMeansEffect` is what remains. `folder-edit --remove` is accepted and ignored (`commands/folders.go:254`).
* Downloads. Two items of an album whose senders gave one file name share one file (`client/media_download.go:136`). Without `--overwrite` the second is reported as skipped, as documented (`README.md:183`:
  no content is compared), but `download-album` then succeeds without `partial` although its medium is not there. With `--overwrite` it replaces the first, and both are reported as downloaded.
  `WholeMeansAllThere` promises a file of the name and `DownloadedIsOwn` names the exception. A canceled album download whose cache could not be finalized reports the cancellation and not the commitment (`media_album_download.go:304` before `307`). The comment of `Commit` says that a
  changed target is restored; between the rejection and the restoration another program can still put a file under the name, which is then kept and reported.
* Export. The output is published before the manifest, so a manifest that cannot be written fails a command whose output is there. Between the second look and the rename another
  program's file is replaced; the manifest has no second look at all.

Two more differences. `MessageCache.cfg` with `EditSeconds = {0, 1}` and three versions shows that of two edits in one second the one
applied last stays. The comment of `DefinitiveRejection` promises that nothing of the operation was accepted, and the write window
returns it for a second mutation too; the pipeline is safe because kick wraps the failure of its second mutation as committed, which
`OneWriterPerKey` depends on.

## Proofs

Every invariant and every action property of the passing runs is stated by a theorem. The theorems hold for any sets of clients, processes,
chats, messages, keys, files and users, and for any limits, windows, page sizes and bounds on the environment, under the named assumptions of
the modules (`LedgerAssumption`, `PipelineAssumption`, `UpdateAssumption`, `CacheAssumption`, `SessionAssumption`,
`DirectoryAssumption`, `HistoryAssumption`, `PagesAssumption`, `ModerationAssumption`, `PermissionsAssumption`, `FoldersAssumption`,
`ReaderAssumption`, `DestinationAssumption`, `AlbumAssumption`, `DownloadAssumption`, `ArchiveAssumption`). These say that sentinels are not
members of the sets they stand beside, that numbers and dates are positive and bounds natural, that plans fit `MaxCalls`, an album has at least two
items (as the command demands), the items of an album and the numbers of messages are finitely many, and that requests are those the command line admits. TLC evaluates
each on every run that uses the module. A theorem that needs more says so in its own `ASSUME`, and the text below says why it is needed; those of `KeyedWrites`, which has no run, say there that `NoRequest` is no request.

An invariant is seldom inductive alone; each component has one inductive invariant, from which its properties follow. `LedgerInv`, `PipelineInv`,
`UpdateInv`, `CacheInv` and `FileInv` stand in the specification modules, the others in the proof modules beside the proofs they are for. All were checked by TLC
before they were proved.

* `WriteLedger_proofs`. `LedgerTyping`, `WaitsGrow`, `HonouredWaits`, `HonestLedger`, `SafeRejection`, `LimitedWrites`.
  No property is inductive alone. That a row called `rejected` was never applied needs to know what the
  client learned and when (`ReplyTrue`: a refusal in hand means that this mutation is decided; in flight its row
  is `prepared`), that Telegram decides once (`DecidedOnce`), that whatever was sent was numbered and stored first
  (`SentKnown`), and, for a rejection to speak of the whole client, that mutations come one after another, each after an
  accepted one (`Sequential`). These, with `LedgerHonest` and `RejectionIsSafe`, form `Protocol` of the proof module.
  `CooldownHonoured` rests on `Exclusive`: only the owner of the lock records a wait. `WriteLimit` rests on `WindowRows` (rows are
  in order of time, and what was purged is older than the window) and `Paid` (each ledger row follows a reservation), which
  need the cardinality theorems of the library.
* `WritePipeline_proofs`. `PipelineUsesLedger` proves that each step of the pipeline is a step of the ledger or leaves it
  alone, so every theorem of the ledger holds of the pipeline. `Aligned` then ties the place in `writes.Run` to the place in `Invoke`,
  `AllApplied` says that all mutations but the one in hand took effect while none failed, `ErrorTrue` says that an error
  that carries no commitment proves nothing was sent, and `ClaimHeld` that a running invocation owns the row
  of its key. From these follow `KeptKeys`, `OneWriter` (two writers would both own one row), `HonestReports`, `FaithfulReplays`
  and `PromiseKept`, the refinement, proved action by action: each step maps to one action of `KeyedWrites` or to a stutter.
* `UpdateStore_proofs`. `NothingSkipped`, `AtLeastOnce`, `StreamOrder`, `ExpiryPurges`, `ExactDeletions`, `MarkersGrow`, from
  `UpdateInv`. The checkpoint alone is not inductive: `Barrier` adds what is covered by gotd's position and by the checkpoint it is
  about to write while the barrier is open, and `Handling` what the transaction covers so far. `DbInv` collects what holds of the
  database before and after each update; the lemmas `ApplyGrows`, `ApplySettles`, `ApplyKeeps` and `ApplyOrders` show it for one update and any
  database, so that the step of the transaction is one citation. That a message is hidden exactly when it was deleted needs `db.common` to
  be exactly the numbers deleted so far, and rows for all that was named. Order needs the outbox to be ordered (`OrderedIn`) and what the
  listener has in hand to stay the oldest (`Consumers`), although others acknowledge rows meanwhile.
* `MessageCache_proofs`. `CacheTyping`, `EditsKeepIdentity`, `FinalTombstones`, `EditsWin`, `IdentitiesNameFiles`, `MatchesStayCurrent`, `FilesStayCurrent`.
  The lemma `RowSteps` says what any step does to a row, as one of the code's statements with the values of one command, and `Refreshed` what
  a refresh does; the properties are then argued about rows and not about actions. `CacheInv` is what they share: `Sourced` (rows and updates speak
  of versions that exist) and `Working` (what a command holds at each step was so when it read it). `EditsWin` needs that edits have growing
  dates (`EditsGrow`) and that a row has the date of its text (`RowEdits`), and `IdentitiesNameFiles` that a file is never rewritten
  with other content (`FilesByName`) and that a command's belief about the file it is going to store stays true (`FilesTrue`).
  The hash index is `MatchInv`: what a row says of its medium - path, identity - is so of the version its media columns describe (`RowMatches`), what an entry says is so
  of the version the row described when the entry was taken (`EntryMatches`), and what a command is about to store is so of the version it read (`JobMatches`). A lookup returns
  an entry only while the row still has its identity and, unless it is that of an upload, its path (`Found`). A file and an identity belong to one medium each, so entry and row are of one medium, although the entry
  may describe an older version.
  Five of the theorems have hypotheses, and each is needed: no uploads (`FinalTombstones`, `EditsWin`), edits in different seconds (`EditsWin`),
  file names of their own (`IdentitiesNameFiles` and the two about matches), and that a sync fetches media (`SyncsFetchMedia`, for the
  two about matches: a plain sync stores no identity and keeps the path of the old medium). See "Disagreements".
* `Accounts_proofs`. `SessionIsSafe`, `OnlyRevokedKeysGo` and `OwnerStays` from `SessionInv`: what the stages of caller and goroutine say of the lock (`StagesOf`:
  the lock is held exactly while a transport is alive or the database is copied), of key and session file (`KeyOf`: a transport that has a key finds this key in the file, or none; a flush never
  follows a removal; a removed key has cleared whoever still holds it) and of the cache (`CacheOf`: a command that is served works on a cache bound to its user). That a key which
  was removed is never stored again needs all three, since a flush, a removal and the end of the transport are steps of two threads.
  `DirectoryIsSafe` and `NothingIsSweptAway` from `DirInv`: a lock is that of the inode its owner has open (`LockOfOpened`), and unless a waiter took an unlinked sidecar, every owner
  has the inode open that the name denotes (`OwnersHaveTheName`); then two owners would own one lock. `NothingIsTakenAway` puts both together.
* `Chats_proofs`. `HistoryIsCovered` from `HistoryInv`: a pager has read every message between its offset and where it began (`TaskInv`), a sync that pages began at the checkpoint and
  has in the cache what came since (`SyncInv`), so the checkpoint it saves covers the history (`CoversTo(checkpoint)`), and what is acknowledged lies behind it. That the paging ends no earlier than it says
  is an argument by cardinality: the pager has seen no more messages than there are above its offset. Two hypotheses, both needed: a message that the pager has read is not recalled while it pages
  (`history_gap` is the counterexample), and there is one process that syncs the chat (of two, one may move the checkpoint back, see "Disagreements"); backfills may be any number.
  `CapIsHeld` needs neither.
  `PagesAreComplete` from `PagesInv`: the list is in order, the cursor is its last position, and nothing that stayed in place lies before the cursor without being listed. The lemmas
  about `InOrderOf` and `Take` (a finite set has one enumeration in order, and a page is its least part) are by induction on the size of the set.
  `ModerationIsHonest`, `UnrelatedAreKept`, `KickKeeps`, `OtherChatIsIntact` from `ModerationInv`: what the command read is still so when it writes, unless someone else meddled; `ReportIsSound` from
  `PermissionsInv`, with the tables of rights taken key by key and the account's rights in a basic group as its first answer carried them (`CarriedRights`); `NothingElseIsChanged` puts them together.
* `Media_proofs`. `PublicationIsSafe` from `PublicationInv`: each file has one name (`OneName`), a file under the final or a private name is whole and synced (`Complete`), a download that has not published is the only one to
  name its file (`Hidden`), and a winner's file is under the final name as long as no other program acts (`Won`); with what each place in the code says of its own names (`PartName`, `PrivName`, `QuarName`).
  The proof goes by frame lemmas: an action of one download moves its own names only, and what another knows of its own is kept. `AlbumIsHonest`, `GroupResultIsHonest` and `ArchiveIsFaithful` from
  `AlbumInv`, `GroupInv` (failed and outstanding items are no more than the album has; an item that left the loop well has its name taken, `WellOff`) and `ArchiveInv` (what the exporter
  knows of an item was so, and is so unless somebody touched it; the verdict of the check is that of its last look).
* `Writes_proofs`. `KeyedTyping`, `ActorKeepsKey` and `SettledAfterActing` of `KeyedWrites`: whoever acted still holds its key (`HolderPerformed`), and a result on record is that of a holder that acted. `FoldersAreConsistent` and `WritesAreMinimal` from `FolderInv`: what a command
  has read is the folder unless somebody touched it since, and a folder never excludes what it includes. `ReaderIsSafe` and `CallbacksAreAdmitted` from `ReaderInv`: the place of the gate is had by the
  one request past it (`OneAtWork`), the advertisement it interacts with stays until it has answered (`AdHeld`), what Telegram has counted has a key nobody may take (`CountedIsTaken`), a process serves the
  user and chat it is bound to (`ServedIsBound`), and once cleared nothing is at work (`ClearedIsEmpty`).

The induction theorems of the library take an operator as a parameter, which the provers here cannot instantiate. Where a proof needs induction over numbers or over the size of a finite set, it
takes the least counterexample instead (`LeastExists` and `OrderExists`, from `WFMin` and `NatLessThanWellFounded`). The sorting of a page is defined as the choice of the enumeration in order (`InOrderOf`) because
the prover treats `SortSeq` and `SelectSeq` as its own and does not expand them.

Only model-checked: `SessionReleased`, `LockComesBack`, `Delivery` and `FailureReported`, since liveness under fairness is out of the prover's reach, and the three disagreements, which are counterexamples.

## Not modelled, and the plan

All components with a state of their own have a module, and every safety property a theorem. What is left:

1. An abstract `EventDelivery` (each event handed out at least once, in order, and none after its acknowledgement) with `UpdateStore` as its refinement.
2. What holds of `History` with recalls, or with several syncs of a chat: at least that the cache has what was fetched, and that only a recall during the paging, or a second sync, opens a gap.
3. The part of `MatchesAreCurrent` that holds with plain syncs, for matches by identity.

Left out of modelled components: prompts, API credentials, termination of other sessions, the cap on bytes of the cache, throttling, reordering of folders, contacts and notifications (one
mutation each, whose way is the pipeline's), the removal of files of expired media, visual hashes, the checks inside a database snapshot.

Left out for good: the resolver and text entities (pure functions of strings), formatting, wording, flags, the fake client, the documentation generator (no state or no
concurrency of their own), Telegram's protocol below `tg.Invoker` (a library), and the web pages.
