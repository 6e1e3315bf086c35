---------------------------- MODULE MessageCache ----------------------------
(***************************************************************************)
(* The cached copy of a message (tg_messages), the file it is said to have *)
(* (media_path, media_id) and the hash index over both, against Telegram,  *)
(* where messages are edited, given other media and deleted at any time.   *)
(* Six commands and the live updates write the same row.  A command reads  *)
(* Telegram under the session lock, closes its client and stores what it   *)
(* saw afterwards, when other commands and updates may have come between.  *)
(* Sources: store/messages.go, store/download_identity.go,                 *)
(* store/media_hashes.go, commands/{localdb,sync,media,media_download,     *)
(* upload_hash,media_hash,media_download_hash,destructive}.go.             *)
(***************************************************************************)
EXTENDS Integers, Sequences, FiniteSets

CONSTANTS
  Messages,      \* messages of one chat
  Media,         \* identities of photos and documents; one identity, one content
  None,          \* no media, no identity, no message
  FileName,      \* FileName[x]: the identity that stands for the file name x came with
  Jobs,          \* commands running at the same time
  Ops,           \* the commands they may be: subset of AllOps
  HistoryMedia,  \* what a history command may do with media: subset of Outcomes
  SyncMedia,     \* the same for sync
  EditSeconds,   \* how far the clock moved between two edits: 0 is the same second
  MaxVersions,   \* bound: versions of a message
  MaxInbox       \* bound: updates under way

AllOps   == {"backfill", "sync", "download", "upload", "index", "delete"}
Outcomes == {"none", "downloaded", "skipped", "failed"}
Kinds    == {"downloaded", "cached_file", "upload_original"}

ASSUME CacheAssumption ==
  /\ None \notin Messages \cup Media
  /\ FileName \in [Media -> Media]
  /\ Ops \subseteq AllOps
  /\ HistoryMedia \subseteq Outcomes
  /\ SyncMedia \subseteq Outcomes
  /\ EditSeconds \subseteq Nat
  /\ MaxVersions \in Nat
  /\ MaxInbox \in Nat

VARIABLES
  hist,     \* hist[m]: the versions Telegram gave the message, in order
  gone,     \* messages Telegram has deleted
  inbox,    \* updates that gotd has not handed to the handler yet
  row,      \* tg_messages
  index,    \* tg_media_hashes: an entry for each message and representation
  files,    \* what the files on disk contain
  job       \* the commands at work

vars == <<hist, gone, inbox, row, index, files, job>>

\* A file under the name that backfill gives it, which carries chat, message
\* and identity; under the name its sender gave it, shared by a chat; or the
\* file the user uploads.
Path   == [dir : {"unique", "named", "source"}, msg : Messages \cup {None}, name : Media]
NoPath == [dir |-> "no", msg |-> None, name |-> None]

UniquePath(m, x) == [dir |-> "unique", msg |-> m,    name |-> x]
NamedPath(x)     == [dir |-> "named",  msg |-> None, name |-> FileName[x]]
SourcePath(m, x) == [dir |-> "source", msg |-> m,    name |-> x]

Version == [edit : Nat, media : Media \cup {None}]

\* date 0 is the date Telegram gave the message, 1 a later local clock.  ver
\* and mver are history: the versions the text and the media columns come from
\* (0: none yet).
Columns ==
  [known : BOOLEAN, date : {0, 1}, edit : Nat, ver : Nat, mver : Nat,
   has : BOOLEAN, path : Path \cup {NoPath}, id : Media \cup {None}, deleted : BOOLEAN]
NoRow ==
  [known |-> FALSE, date |-> 0, edit |-> 0, ver |-> 0, mver |-> 0,
   has |-> FALSE, path |-> NoPath, id |-> None, deleted |-> FALSE]

\* sha is the content the digest was taken of.
Entry   == [sha : Media \cup {None}, path : Path \cup {NoPath}, id : Media \cup {None}, mver : Nat]
NoEntry == [sha |-> None, path |-> NoPath, id |-> None, mver |-> 0]

\* A command: what it read of Telegram (version k), of the cache and of files.
Stages ==
  {"idle", "fetch", "store", "hash", "record", "identify", "original", "digest", "entry", "mark"}
Job ==
  [pc : Stages,
   op : AllOps \cup {"no"}, m : Messages \cup {None}, k : Nat, outcome : Outcomes,
   path : Path \cup {NoPath}, id : Media \cup {None}, sha : Media \cup {None}]
At(pc, op, m, k) ==
  [pc |-> pc, op |-> op, m |-> m, k |-> k, outcome |-> "none", path |-> NoPath,
   id |-> None, sha |-> None]
Idle == At("idle", "no", None, 0)

MediaOf(m, k)  == hist[m][k].media
Active(m)      == row[m].known /\ ~row[m].deleted
Newest(m)      == Len(hist[m])
Visible(m)     == hist[m] # <<>> /\ m \notin gone

-----------------------------------------------------------------------------
(* Mutants: plausible bugs that the properties below must notice.          *)

MutantWins(new, old) == new.date >= old.date
MutantUpserted(old, new) ==   \* the file outlives the identity it belongs to
  IF ~old.known THEN new
  ELSE IF old.deleted \/ new.edit < old.edit THEN old
  ELSE [new EXCEPT !.path = IF new.has /\ new.path = NoPath THEN old.path ELSE new.path]
MutantBackfilled(old, new, outcome) ==   \* writes under a tombstone
  IF old.known /\ new.edit < old.edit THEN old ELSE [new EXCEPT !.deleted = old.deleted]
MutantIndexable(m, path, id) == Active(m) /\ row[m].has

-----------------------------------------------------------------------------
(* What the statements do to a row.                                        *)

\* The rule of every refresh: a later edit wins, and of equal edits the one
\* with the later date or the one that is applied last.
Wins(new, old) == new.edit > old.edit \/ (new.edit = old.edit /\ new.date >= old.date)

\* UpsertLiveMessage, for updates and for sync.
Upserted(old, new) ==
  IF ~old.known THEN new
  ELSE IF old.deleted \/ ~Wins(new, old) THEN old
  ELSE [new EXCEPT !.path =
          IF ~new.has THEN NoPath
          ELSE IF new.id # None /\ new.id # old.id THEN new.path
          ELSE IF new.path # NoPath THEN new.path ELSE old.path]

\* insertBackfillMessageContext: the outcome of the download decides whether
\* the media columns are replaced, kept or cleared.
Backfilled(old, new, outcome) ==
  IF ~old.known THEN new
  ELSE IF old.deleted \/ ~Wins(new, old) THEN old
  ELSE IF outcome \in {"downloaded", "skipped"} THEN new
  ELSE IF outcome = "failed" /\ new.id # None /\ old.id = new.id
    THEN [new EXCEPT !.path = old.path]
  ELSE [new EXCEPT !.id = None]

\* The row of a message that is first heard of by its media: no text yet.
Bare(k, path, id) ==
  [known |-> TRUE, date |-> 0, edit |-> 0, ver |-> 0, mver |-> k, has |-> TRUE,
   path |-> path, id |-> id, deleted |-> FALSE]

WithMedia(old, k, path, id) ==
  [old EXCEPT !.has = TRUE, !.mver = k, !.path = path, !.id = id]

\* StoreVerifiedDownload: not over a deletion, other media, or an edit.
Acceptable(old, expected, id) ==
  /\ expected \in {None, id}
  /\ old.known => /\ ~old.deleted
                  /\ (old.id = id \/ (old.id = None /\ old.edit = 0))

\* StoreMessageMediaPath, for a file that was there before the download.
MediaPathStored(old, k, path) ==
  IF ~old.known THEN Bare(k, path, None) ELSE WithMedia(old, k, path, None)

\* RecordUploadedMedia and each item of RecordUploadedAlbum.
UploadRecorded(old, date, path) ==
  [known |-> TRUE, date |-> date, edit |-> old.edit, ver |-> 1, mver |-> 1,
   has |-> TRUE, path |-> path, id |-> None, deleted |-> FALSE]

\* MarkLiveMessagesDeleted, and a deletion that an update reports: an unknown
\* message gets a row of nothing but the tombstone.
Tombstoned(old) == [old EXCEPT !.known = TRUE, !.deleted = TRUE]

\* recordUploadHash gives a row an identity only as long as it is the upload's own.
Unidentified(old, path) == old.path = path /\ old.id = None /\ old.edit = 0 /\ ~old.deleted

\* IndexMediaHashKind: only while the row has the path and the identity the
\* hash was taken for.
Indexable(m, path, id) ==
  Active(m) /\ row[m].has /\ row[m].path = path /\ row[m].id = id

IndexEntry(m, kind, sha) ==
  index' = [index EXCEPT ![m][kind] =
              [sha |-> sha, path |-> row[m].path, id |-> row[m].id, mver |-> row[m].mver]]

\* FindMediaHash: an entry that a lookup of its digest returns.
Found(m, kind) ==
  /\ index[m][kind] # NoEntry
  /\ Active(m) /\ row[m].has
  /\ kind = "upload_original" \/ row[m].path = index[m][kind].path
  /\ index[m][kind].id = row[m].id

-----------------------------------------------------------------------------
CacheInit ==
  /\ hist  = [m \in Messages |-> <<>>]
  /\ gone  = {}
  /\ inbox = <<>>
  /\ row   = [m \in Messages |-> NoRow]
  /\ index = [m \in Messages |-> [k \in Kinds |-> NoEntry]]
  /\ files = [p \in Path |-> None]
  /\ job   = [j \in Jobs |-> Idle]

(* Telegram.  An update is under way for every change but those that fall  *)
(* before the first checkpoint or into a gap that cannot be recovered.     *)

Announce(m, k) ==
  inbox' \in {inbox} \cup (IF Len(inbox) < MaxInbox THEN {Append(inbox, <<m, k>>)} ELSE {})

Post(m) ==
  /\ hist[m] = <<>>
  /\ \E x \in Media \cup {None} : hist' = [hist EXCEPT ![m] = <<[edit |-> 0, media |-> x]>>]
  /\ Announce(m, 1)
  /\ UNCHANGED <<gone, row, index, files, job>>

Edit(m) ==
  /\ Visible(m) /\ Newest(m) < MaxVersions
  /\ \E x \in Media, s \in EditSeconds :
       /\ hist[m][Newest(m)].edit + s > 0
       /\ hist' = [hist EXCEPT ![m] =
                     Append(@, [edit |-> hist[m][Newest(m)].edit + s, media |-> x])]
  /\ Announce(m, Newest(m) + 1)
  /\ UNCHANGED <<gone, row, index, files, job>>

Remove(m) ==
  /\ Visible(m)
  /\ gone' = gone \cup {m}
  /\ Announce(m, 0)
  /\ UNCHANGED <<hist, row, index, files, job>>

\* The row an update or a history page describes.
Described(m, k, path, id) ==
  [known |-> TRUE, date |-> 0, edit |-> hist[m][k].edit, ver |-> k, mver |-> k,
   has |-> MediaOf(m, k) # None, path |-> path, id |-> id, deleted |-> FALSE]

\* The update manager of whichever client is open applies the next update.
HandleUpdate ==
  /\ inbox # <<>>
  /\ LET m == Head(inbox)[1]
         k == Head(inbox)[2] IN
       row' = [row EXCEPT ![m] =
                 IF k = 0 THEN Tombstoned(@)
                 ELSE Upserted(@, Described(m, k, NoPath, MediaOf(m, k)))]
  /\ inbox' = Tail(inbox)
  /\ UNCHANGED <<hist, gone, index, files, job>>

-----------------------------------------------------------------------------
(* The commands.                                                           *)

Free(j, op) == job[j] = Idle /\ op \in Ops
In(j, pc)   == job[j] # Idle /\ job[j].pc = pc
Set(j, r)   == job' = [job EXCEPT ![j] = r]

\* A failed statement, a lost race for the database or a crash ends a command
\* between any two of its steps.
Quit(j) ==
  /\ job[j] # Idle
  /\ Set(j, Idle)
  /\ UNCHANGED <<hist, gone, inbox, row, index, files>>

\* backfillMessageMedia: the download of one message of a history page.
FetchHistory(j, op, allowed) ==
  /\ Free(j, op)
  /\ \E m \in Messages : /\ Visible(m)
       /\ LET k == Newest(m)
              x == MediaOf(m, k)
              p == UniquePath(m, x)
              r == At("store", op, m, k) IN
            \/ /\ "none" \in allowed \/ x = None
               /\ Set(j, [r EXCEPT !.outcome = "none"])
               /\ files' = files
            \/ /\ "failed" \in allowed /\ x # None
               /\ Set(j, [r EXCEPT !.outcome = "failed", !.id = x])
               /\ files' \in {files, [files EXCEPT ![p] = x]}   \* late failure: the file is there
            \/ /\ "skipped" \in allowed /\ x # None /\ files[p] # None
               /\ Set(j, [r EXCEPT !.outcome = "skipped", !.id = x, !.path = p])
               /\ files' = files
            \/ /\ "downloaded" \in allowed /\ x # None
               /\ Set(j, [r EXCEPT !.outcome = "downloaded", !.id = x, !.path = p])
               /\ files' = [files EXCEPT ![p] = x]
  /\ UNCHANGED <<hist, gone, inbox, row, index>>

FetchBackfill(j) == FetchHistory(j, "backfill", HistoryMedia)
FetchSync(j)     == FetchHistory(j, "sync", SyncMedia)

StoreBackfill(j) ==
  /\ In(j, "store") /\ job[j].op = "backfill"
  /\ LET r == job[j] IN
       /\ row' \in {row,   \* a cap on the cache leaves it out
                    [row EXCEPT ![r.m] =
                       Backfilled(@, Described(r.m, r.k, r.path, r.id), r.outcome)]}
       /\ Set(j, IF r.outcome = "downloaded" THEN [r EXCEPT !.pc = "hash"] ELSE Idle)
  /\ UNCHANGED <<hist, gone, inbox, index, files>>

StoreSync(j) ==
  /\ In(j, "store") /\ job[j].op = "sync"
  /\ LET r == job[j] IN
       row' = [row EXCEPT ![r.m] = Upserted(@, Described(r.m, r.k, r.path, r.id))]
  /\ Set(j, Idle)
  /\ UNCHANGED <<hist, gone, inbox, index, files>>

\* download-media: the identity the cache has before the transfer.
LookUp(j) ==
  /\ Free(j, "download")
  /\ \E m \in Messages :
       Set(j, [At("fetch", "download", m, 0) EXCEPT
                 !.id = IF row[m].known THEN row[m].id ELSE None])
  /\ UNCHANGED <<hist, gone, inbox, row, index, files>>

\* The transfer.  sha stands for the identity Telegram reports.  Without
\* --overwrite a file of that name is taken as it is.
FetchMedia(j) ==
  /\ In(j, "fetch")
  /\ LET m == job[j].m
         k == Newest(m)
         x == MediaOf(m, k)
         p == NamedPath(x)
         r == [job[j] EXCEPT !.pc = "store", !.k = k, !.path = p, !.sha = x] IN
       /\ Visible(m) /\ x # None
       /\ \/ /\ files[p] # None
             /\ Set(j, [r EXCEPT !.outcome = "skipped"])
             /\ files' = files
          \/ /\ Set(j, [r EXCEPT !.outcome = "downloaded"])
             /\ files' = [files EXCEPT ![p] = x]
  /\ UNCHANGED <<hist, gone, inbox, row, index>>

StoreSkipped(j) ==
  /\ In(j, "store") /\ job[j].op = "download" /\ job[j].outcome = "skipped"
  /\ row' = [row EXCEPT ![job[j].m] = MediaPathStored(@, job[j].k, job[j].path)]
  /\ Set(j, Idle)
  /\ UNCHANGED <<hist, gone, inbox, index, files>>

StoreVerified(j) ==
  /\ In(j, "store") /\ job[j].op = "download" /\ job[j].outcome = "downloaded"
  /\ LET r == job[j] IN
       \/ /\ Acceptable(row[r.m], r.id, r.sha)
          /\ row' = [row EXCEPT ![r.m] =
                       IF ~@.known THEN Bare(r.k, r.path, r.sha)
                       ELSE WithMedia(@, r.k, r.path, r.sha)]
          /\ Set(j, [r EXCEPT !.pc = "hash", !.id = r.sha])
       \/ /\ ~Acceptable(row[r.m], r.id, r.sha)
          /\ row' = row
          /\ Set(j, Idle)
  /\ UNCHANGED <<hist, gone, inbox, index, files>>

\* indexDownloadedMediaHash: the file must still be the one the download left.
HashDownloaded(j) ==
  /\ In(j, "hash")
  /\ LET r == job[j] IN
       /\ files[r.path] = r.id
       /\ Indexable(r.m, r.path, r.id)
       /\ IndexEntry(r.m, "downloaded", files[r.path])
  /\ Set(j, Idle)
  /\ UNCHANGED <<hist, gone, inbox, row, files>>

\* An upload creates the message; its own update may be applied before the
\* command records the row.
Upload(j) ==
  /\ Free(j, "upload")
  /\ \E m \in Messages, x \in Media :
       /\ hist[m] = <<>>
       /\ hist' = [hist EXCEPT ![m] = <<[edit |-> 0, media |-> x]>>]
       /\ files' = [files EXCEPT ![SourcePath(m, x)] = x]
       /\ Announce(m, 1)
       /\ Set(j, [At("record", "upload", m, 1) EXCEPT !.path = SourcePath(m, x), !.sha = x])
  /\ UNCHANGED <<gone, row, index>>

RecordUpload(j) ==
  /\ In(j, "record")
  /\ \E date \in {0, 1} :
       row' = [row EXCEPT ![job[j].m] = UploadRecorded(@, date, job[j].path)]
  /\ Set(j, [job[j] EXCEPT !.pc = "identify"])
  /\ UNCHANGED <<hist, gone, inbox, index, files>>

\* recordUploadHash: the identity of the response, then the digest of the
\* bytes that were sent.
IdentifyUpload(j) ==
  /\ In(j, "identify")
  /\ LET r == job[j] IN
       row' = IF Unidentified(row[r.m], r.path) THEN [row EXCEPT ![r.m].id = r.sha] ELSE row
  /\ Set(j, [job[j] EXCEPT !.pc = "original"])
  /\ UNCHANGED <<hist, gone, inbox, index, files>>

HashUpload(j) ==
  /\ In(j, "original")
  /\ Indexable(job[j].m, job[j].path, job[j].sha)
  /\ IndexEntry(job[j].m, "upload_original", job[j].sha)
  /\ Set(j, Idle)
  /\ UNCHANGED <<hist, gone, inbox, row, files>>

\* media-index: a page of rows, the digest of each file, then the entry.
ScanRow(j) ==
  /\ Free(j, "index")
  /\ \E m \in Messages :
       /\ Active(m) /\ row[m].has /\ row[m].path # NoPath
       /\ Set(j, [At("digest", "index", m, 0) EXCEPT !.path = row[m].path, !.id = row[m].id])
  /\ UNCHANGED <<hist, gone, inbox, row, index, files>>

DigestFile(j) ==
  /\ In(j, "digest")
  /\ files[job[j].path] # None
  /\ Set(j, [job[j] EXCEPT !.pc = "entry", !.sha = files[job[j].path]])
  /\ UNCHANGED <<hist, gone, inbox, row, index, files>>

IndexFile(j) ==
  /\ In(j, "entry")
  /\ Indexable(job[j].m, job[j].path, job[j].id)
  /\ IndexEntry(job[j].m, "cached_file", job[j].sha)
  /\ Set(j, Idle)
  /\ UNCHANGED <<hist, gone, inbox, row, files>>

\* delete-msg: the RPC, then the tombstones.
DeleteRemote(j) ==
  /\ Free(j, "delete")
  /\ \E m \in Messages :
       /\ Visible(m)
       /\ gone' = gone \cup {m}
       /\ Announce(m, 0)
       /\ Set(j, At("mark", "delete", m, 0))
  /\ UNCHANGED <<hist, row, index, files>>

MarkDeleted(j) ==
  /\ In(j, "mark")
  /\ row' = [row EXCEPT ![job[j].m] = Tombstoned(@)]
  /\ Set(j, Idle)
  /\ UNCHANGED <<hist, gone, inbox, index, files>>

-----------------------------------------------------------------------------
Telegram == \E m \in Messages : Post(m) \/ Edit(m) \/ Remove(m)

History(j) == FetchBackfill(j) \/ StoreBackfill(j) \/ FetchSync(j) \/ StoreSync(j)
Download(j) == \/ LookUp(j) \/ FetchMedia(j) \/ StoreSkipped(j) \/ StoreVerified(j)
               \/ HashDownloaded(j)
Send(j)     == Upload(j) \/ RecordUpload(j) \/ IdentifyUpload(j) \/ HashUpload(j)
Local(j)    == \/ ScanRow(j) \/ DigestFile(j) \/ IndexFile(j)
               \/ DeleteRemote(j) \/ MarkDeleted(j)

CacheNext ==
  \/ Telegram
  \/ HandleUpdate
  \/ \E j \in Jobs : History(j) \/ Download(j) \/ Send(j) \/ Local(j) \/ Quit(j)

CacheSpec == CacheInit /\ [][CacheNext]_vars

-----------------------------------------------------------------------------
(* Properties.                                                             *)

TypeOK ==
  /\ hist \in [Messages -> Seq(Version)]
  /\ gone \subseteq Messages
  /\ inbox \in Seq(Messages \X Nat)
  /\ row \in [Messages -> Columns]
  /\ index \in [Messages -> [Kinds -> Entry]]
  /\ files \in [Path -> Media \cup {None}]
  /\ job \in [Jobs -> Job]

\* "Newer edits win over older history" (docs/reliability.md): the cached text
\* of a message is never replaced by that of an earlier version, however late
\* an update, a history page or a download is stored.
NewerEditsWin == [][\A m \in Messages : row'[m].ver >= row[m].ver]_vars

\* A tombstone is final: no command or update that saw the message before its
\* deletion brings it back or changes its text.
TombstonesStay ==
  [][\A m \in Messages : row[m].deleted => row'[m].deleted /\ row'[m].ver = row[m].ver]_vars

\* A row that names both a file and an identity names a file with that content
\* (CHANGELOG.md: verified paths and identities are kept together).
IdentityNamesFile ==
  \A m \in Messages :
    Active(m) /\ row[m].path # NoPath /\ row[m].id # None => files[row[m].path] = row[m].id

\* Once an edit has been cached, a slower download of the medium it replaced
\* does not put the old identity beside the new text
\* (store/download_identity.go: "A newer replacement/deletion must not be
\* overwritten by an older download").
EditedIdentity ==
  \A m \in Messages :
    Active(m) /\ row[m].edit > 0 /\ row[m].id # None => row[m].id = MediaOf(m, row[m].ver)

\* media-find returns no entry taken for a medium the message no longer has,
\* as far as the cache knows, and the digest of a downloaded or uploaded
\* original is the digest of that medium (store/media_hashes.go).
MatchesAreCurrent ==
  \A m \in Messages, kind \in Kinds : Found(m, kind) =>
    LET e == index[m][kind]
        x == MediaOf(m, row[m].mver) IN
      /\ e.mver > 0 /\ MediaOf(m, e.mver) = x
      /\ kind # "cached_file" => e.sha = x

\* "changed media invalidates old file associations" (docs/reliability.md): the
\* file a row names is that of the version its media columns describe.
FileOfCurrentMedia ==
  \A m \in Messages :
    Active(m) /\ row[m].path # NoPath => files[row[m].path] = MediaOf(m, row[m].mver)

-----------------------------------------------------------------------------
(* What the proofs rest on.                                                *)

\* Telegram has every version that a row or an update speaks of.
Sourced ==
  /\ \A i \in 1..Len(inbox) : inbox[i][2] <= Newest(inbox[i][1])
  /\ \A m \in Messages :
       /\ row[m].ver <= Newest(m)
       /\ row[m].edit > 0 => row[m].ver > 0
       /\ row[m].known \/ row[m] = NoRow

\* What a command holds at each of its steps.
HistoryRead(r) == r.id \in {None, MediaOf(r.m, r.k)} /\ (r.id = None => r.path = NoPath)
InStage(r) ==
  /\ r.pc # "idle" => r.m \in Messages
  /\ r.pc = "fetch" => r.op = "download"
  /\ r.pc \in {"store", "record"} => r.k \in 1..Newest(r.m)
  /\ r.pc = "store" /\ r.op # "download" => HistoryRead(r)
  /\ r.pc = "store" /\ r.op = "download" => r.sha \in Media /\ r.path = NamedPath(r.sha)
  /\ r.pc = "store" /\ r.outcome = "downloaded" => r.path \in Path
  /\ r.pc \in {"hash", "digest", "entry"} => r.path \in Path
  /\ r.pc \in {"record", "identify", "original"} =>
       r.op = "upload" /\ r.sha \in Media /\ r.path = SourcePath(r.m, r.sha)
Working == \A j \in Jobs : InStage(job[j])

\* A file has the content its name stands for.
FilesByName ==
  \A p \in Path : files[p] # None =>
    p.name = IF p.dir = "named" THEN FileName[files[p]] ELSE files[p]

\* What a command believes of a file, until it has stored it, and a row after.
Content(path, id) == path # NoPath /\ id # None => path \in Path /\ files[path] = id
Held(r) ==
  /\ r.pc = "store" /\ r.op # "download" => Content(r.path, r.id)
  /\ r.pc = "store" /\ r.outcome = "downloaded" /\ r.op = "download" => Content(r.path, r.sha)
  /\ r.pc \in {"record", "identify"} => Content(r.path, r.sha)
FilesTrue ==
  /\ \A m \in Messages : Content(row[m].path, row[m].id)
  /\ \A j \in Jobs : Held(job[j])

\* Edits have later dates, and a row the date of its version.
EditsGrow ==
  \A m \in Messages : \A k \in 1..Newest(m), i \in 1..Newest(m) :
    i < k => hist[m][i].edit < hist[m][k].edit
RowEdits ==
  \A m \in Messages :
    row[m].edit = IF row[m].ver = 0 THEN 0 ELSE hist[m][row[m].ver].edit

CacheInv == TypeOK /\ Sourced /\ Working /\ EditedIdentity
FileInv  == FilesByName /\ FilesTrue
====
