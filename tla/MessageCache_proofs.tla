------------------------ MODULE MessageCache_proofs ------------------------
(***************************************************************************)
(* Proofs about the cached message: its types, its text, its tombstone, the *)
(* identity and the file beside it, and the entries of the hash index.     *)
(***************************************************************************)
EXTENDS MessageCache, TLAPS

----------------------------------------------------------------------------
(* The operators keep types.                                               *)

LEMMA PathsTyped ==
  ASSUME CacheAssumption, NEW m \in Messages, NEW x \in Media
  PROVE  /\ UniquePath(m, x) \in Path /\ NamedPath(x) \in Path /\ SourcePath(m, x) \in Path
         /\ NoPath \notin Path
         /\ x # None
BY DEF CacheAssumption, UniquePath, NamedPath, SourcePath, Path, NoPath

LEMMA RowsTyped ==
  /\ \A old \in Columns, new \in Columns : Upserted(old, new) \in Columns
  /\ \A old \in Columns, new \in Columns, o \in Outcomes : Backfilled(old, new, o) \in Columns
  /\ \A k \in Nat, p \in Path \cup {NoPath}, x \in Media \cup {None} : Bare(k, p, x) \in Columns
  /\ \A old \in Columns, k \in Nat, p \in Path \cup {NoPath}, x \in Media \cup {None} :
       WithMedia(old, k, p, x) \in Columns
  /\ \A old \in Columns, k \in Nat, p \in Path \cup {NoPath} : MediaPathStored(old, k, p) \in Columns
  /\ \A old \in Columns, date \in {0, 1}, p \in Path \cup {NoPath} :
       UploadRecorded(old, date, p) \in Columns
  /\ \A old \in Columns : Tombstoned(old) \in Columns
  /\ \A old \in Columns, x \in Media \cup {None} : [old EXCEPT !.id = x] \in Columns
<1>1. ASSUME NEW old \in Columns, NEW new \in Columns
      PROVE  Upserted(old, new) \in Columns
  <2>1. \A q \in Path \cup {NoPath} : [new EXCEPT !.path = q] \in Columns
    BY DEF Columns
  <2>2. old.path \in Path \cup {NoPath} /\ new.path \in Path \cup {NoPath}
    BY DEF Columns
  <2> QED BY <2>1, <2>2 DEF Upserted
<1>2. ASSUME NEW old \in Columns, NEW new \in Columns, NEW o \in Outcomes
      PROVE  Backfilled(old, new, o) \in Columns
  <2>1. [new EXCEPT !.path = old.path] \in Columns /\ [new EXCEPT !.id = None] \in Columns
    BY DEF Columns
  <2> QED BY <2>1 DEF Backfilled
<1>3. ASSUME NEW k \in Nat, NEW p \in Path \cup {NoPath}, NEW x \in Media \cup {None}
      PROVE  Bare(k, p, x) \in Columns
  BY DEF Bare, Columns
<1>4. ASSUME NEW old \in Columns, NEW k \in Nat, NEW p \in Path \cup {NoPath}, NEW x \in Media \cup {None}
      PROVE  WithMedia(old, k, p, x) \in Columns
  BY DEF WithMedia, Columns
<1>5. ASSUME NEW old \in Columns, NEW date \in {0, 1}, NEW p \in Path \cup {NoPath}
      PROVE  UploadRecorded(old, date, p) \in Columns
  BY DEF UploadRecorded, Columns
<1>6. ASSUME NEW old \in Columns
      PROVE  Tombstoned(old) \in Columns
  BY DEF Tombstoned, Columns
<1>7. ASSUME NEW old \in Columns, NEW x \in Media \cup {None}
      PROVE  [old EXCEPT !.id = x] \in Columns
  BY DEF Columns
<1>8. ASSUME NEW old \in Columns, NEW k \in Nat, NEW p \in Path \cup {NoPath}
      PROVE  MediaPathStored(old, k, p) \in Columns
  BY <1>3, <1>4 DEF MediaPathStored
<1> QED BY <1>1, <1>2, <1>3, <1>4, <1>5, <1>6, <1>7, <1>8

\* A version of a message that Telegram has.
LEMMA VersionTyped ==
  ASSUME TypeOK, NEW m \in Messages, NEW k \in 1..Newest(m)
  PROVE  /\ Newest(m) \in Nat /\ k \in Nat
         /\ hist[m][k].edit \in Nat /\ MediaOf(m, k) \in Media \cup {None}
<1>1. hist[m] \in Seq(Version)
  BY DEF TypeOK
<1>2. hist[m][k] \in Version
  BY <1>1 DEF Newest
<1> QED BY <1>1, <1>2 DEF Newest, Version, MediaOf

LEMMA DescribedTyped ==
  ASSUME TypeOK, NEW m \in Messages, NEW k \in 1..Newest(m),
         NEW p \in Path \cup {NoPath}, NEW x \in Media \cup {None}
  PROVE  Described(m, k, p, x) \in Columns
BY VersionTyped DEF Described, Columns

\* An update under way is one that was, or the one that is announced.
LEMMA Announced ==
  ASSUME TypeOK, NEW m \in Messages, NEW k \in Nat, Announce(m, k)
  PROVE  /\ inbox' \in Seq(Messages \X Nat)
         /\ \A i \in 1..Len(inbox') :
              inbox'[i] = <<m, k>> \/ (i \in 1..Len(inbox) /\ inbox'[i] = inbox[i])
<1>1. inbox \in Seq(Messages \X Nat) /\ <<m, k>> \in Messages \X Nat
  BY DEF TypeOK
<1>2. inbox' = inbox \/ inbox' = Append(inbox, <<m, k>>)
  BY DEF Announce
<1>3. CASE inbox' = inbox
  BY <1>1, <1>3
<1>4. CASE inbox' = Append(inbox, <<m, k>>)
  <2>1. /\ Append(inbox, <<m, k>>) \in Seq(Messages \X Nat)
        /\ Len(Append(inbox, <<m, k>>)) = Len(inbox) + 1
        /\ Len(inbox) \in Nat
        /\ \A i \in 1..Len(inbox) : Append(inbox, <<m, k>>)[i] = inbox[i]
        /\ Append(inbox, <<m, k>>)[Len(inbox) + 1] = <<m, k>>
    BY <1>1
  <2>2. inbox' \in Seq(Messages \X Nat)
    BY <1>4, <2>1
  <2>3. ASSUME NEW i \in 1..Len(inbox')
        PROVE  inbox'[i] = <<m, k>> \/ (i \in 1..Len(inbox) /\ inbox'[i] = inbox[i])
    <3>1. i \in 1..Len(inbox) \/ i = Len(inbox) + 1
      BY <1>4, <2>1, SMTT(30)
    <3> QED BY <3>1, <1>4, <2>1
  <2> QED BY <2>2, <2>3
<1> QED BY <1>2, <1>3, <1>4

\* The next update for the handler.
LEMMA HeadTyped ==
  ASSUME TypeOK, Sourced, inbox # <<>>
  PROVE  /\ Head(inbox)[1] \in Messages
         /\ Head(inbox)[2] \in 0..Newest(Head(inbox)[1])
         /\ Tail(inbox) \in Seq(Messages \X Nat)
<1>1. inbox \in Seq(Messages \X Nat) /\ hist \in [Messages -> Seq(Version)]
  BY DEF TypeOK
<1>2. Len(inbox) \in Nat /\ 1 \in 1..Len(inbox) /\ Head(inbox) = inbox[1]
      /\ inbox[1] \in Messages \X Nat /\ Tail(inbox) \in Seq(Messages \X Nat)
  BY <1>1
<1>3. Newest(inbox[1][1]) \in Nat /\ inbox[1][2] <= Newest(inbox[1][1])
  BY <1>1, <1>2 DEF Sourced, Newest
<1> QED BY <1>2, <1>3

LEMMA JobsTyped ==
  ASSUME CacheAssumption
  PROVE  /\ Idle \in Job
         /\ \A pc \in Stages, op \in AllOps, m \in Messages, k \in Nat : At(pc, op, m, k) \in Job
         /\ \A r \in Job, pc \in Stages : [r EXCEPT !.pc = pc] \in Job
         /\ \A r \in Job, o \in Outcomes : [r EXCEPT !.outcome = o] \in Job
         /\ \A r \in Job, x \in Media \cup {None} : [r EXCEPT !.id = x] \in Job
         /\ \A r \in Job, pc \in Stages, x \in Media \cup {None} : [r EXCEPT !.pc = pc, !.id = x] \in Job
         /\ \A r \in Job, pc \in Stages, x \in Media \cup {None} : [r EXCEPT !.pc = pc, !.sha = x] \in Job
         /\ \A r \in Job, o \in Outcomes, x \in Media \cup {None} :
              [r EXCEPT !.outcome = o, !.id = x] \in Job
         /\ \A r \in Job, o \in Outcomes, x \in Media, p \in Path :
              [r EXCEPT !.outcome = o, !.id = x, !.path = p] \in Job
         /\ \A r \in Job, p \in Path, x \in Media : [r EXCEPT !.path = p, !.sha = x] \in Job
         /\ \A r \in Job, p \in Path, x \in Media \cup {None} : [r EXCEPT !.path = p, !.id = x] \in Job
         /\ \A r \in Job, k \in Nat, p \in Path, x \in Media :
              [r EXCEPT !.pc = "store", !.k = k, !.path = p, !.sha = x] \in Job
<1>1. ASSUME NEW pc \in Stages, NEW op \in AllOps, NEW m \in Messages, NEW k \in Nat
      PROVE  At(pc, op, m, k) \in Job
  BY DEF At, Job, Outcomes
<1>2. Idle \in Job
  BY DEF Idle, At, Job, Outcomes, Stages
<1>3. ASSUME NEW r \in Job
      PROVE  /\ \A pc \in Stages : [r EXCEPT !.pc = pc] \in Job
             /\ \A o \in Outcomes : [r EXCEPT !.outcome = o] \in Job
             /\ \A x \in Media \cup {None} : [r EXCEPT !.id = x] \in Job
  BY DEF Job
<1>4. "store" \in Stages
  BY DEF Stages
<1>5. ASSUME NEW r \in Job, NEW pc \in Stages, NEW x \in Media \cup {None}
      PROVE  [r EXCEPT !.pc = pc, !.id = x] \in Job /\ [r EXCEPT !.pc = pc, !.sha = x] \in Job
  BY DEF Job
<1>6. ASSUME NEW r \in Job, NEW o \in Outcomes, NEW x \in Media \cup {None}
      PROVE  [r EXCEPT !.outcome = o, !.id = x] \in Job
  BY DEF Job
<1>7. ASSUME NEW r \in Job, NEW o \in Outcomes, NEW x \in Media, NEW p \in Path
      PROVE  [r EXCEPT !.outcome = o, !.id = x, !.path = p] \in Job
  BY DEF Job
<1>8. ASSUME NEW r \in Job, NEW p \in Path
      PROVE  /\ \A x \in Media : [r EXCEPT !.path = p, !.sha = x] \in Job
             /\ \A x \in Media \cup {None} : [r EXCEPT !.path = p, !.id = x] \in Job
  BY DEF Job
<1>9. ASSUME NEW r \in Job, NEW k \in Nat, NEW p \in Path, NEW x \in Media
      PROVE  [r EXCEPT !.pc = "store", !.k = k, !.path = p, !.sha = x] \in Job
  BY <1>4 DEF Job
<1> QED BY <1>1, <1>2, <1>3, <1>5, <1>6, <1>7, <1>8, <1>9

\* What a command at work has in hand.
LEMMA InHand ==
  ASSUME TypeOK, NEW j \in Jobs
  PROVE  /\ job[j] \in Job
         /\ job[j].k \in Nat /\ job[j].m \in Messages \cup {None}
         /\ job[j].path \in Path \cup {NoPath}
         /\ job[j].id \in Media \cup {None} /\ job[j].sha \in Media \cup {None}
         /\ job[j].outcome \in Outcomes
<1>1. job[j] \in Job
  BY DEF TypeOK
<1> QED BY <1>1 DEF Job

----------------------------------------------------------------------------
(* Telegram's versions stay.                                               *)

HistKept ==
  \A m \in Messages :
    /\ Len(hist[m]) <= Len(hist'[m])
    /\ \A k \in 1..Len(hist[m]) : hist'[m][k] = hist[m][k]

LEMMA Appended ==
  ASSUME TypeOK, NEW m \in Messages, NEW v \in Version,
         hist' = [hist EXCEPT ![m] = Append(@, v)]
  PROVE  hist' \in [Messages -> Seq(Version)] /\ HistKept
<1>1. hist \in [Messages -> Seq(Version)]
  BY DEF TypeOK
<1>2. ASSUME NEW n \in Messages
      PROVE  /\ Append(hist[n], v) \in Seq(Version)
             /\ Len(hist[n]) \in Nat /\ Len(Append(hist[n], v)) = Len(hist[n]) + 1
             /\ \A k \in 1..Len(hist[n]) : Append(hist[n], v)[k] = hist[n][k]
  BY <1>1
<1>3. \A n \in Messages : hist'[n] = IF n = m THEN Append(hist[n], v) ELSE hist[n]
  BY <1>1
<1>4. hist' \in [Messages -> Seq(Version)]
  BY <1>1, <1>2
<1>5. HistKept
  BY <1>2, <1>3 DEF HistKept
<1> QED BY <1>4, <1>5

LEMMA First ==
  ASSUME TypeOK, NEW m \in Messages, NEW v \in Version, hist[m] = <<>>,
         hist' = [hist EXCEPT ![m] = <<v>>]
  PROVE  hist' \in [Messages -> Seq(Version)] /\ HistKept
<1>1. hist \in [Messages -> Seq(Version)]
  BY DEF TypeOK
<1>2. <<v>> = Append(hist[m], v)
  BY SMT
<1>3. hist' = [hist EXCEPT ![m] = Append(@, v)]
  BY <1>1, <1>2
<1> QED BY <1>3, Appended

\* The version that an edit adds.
LEMMA EditedVersion ==
  ASSUME CacheAssumption, TypeOK, NEW m \in Messages, Visible(m), NEW x \in Media, NEW s \in EditSeconds
  PROVE  [edit |-> hist[m][Newest(m)].edit + s, media |-> x] \in Version
<1>1. hist[m] \in Seq(Version) /\ hist[m] # <<>>
  BY DEF TypeOK, Visible
<1>2. Newest(m) \in 1..Newest(m)
  BY <1>1 DEF Newest
<1>3. hist[m][Newest(m)].edit \in Nat /\ s \in Nat
  BY <1>2, VersionTyped DEF CacheAssumption
<1> QED BY <1>3 DEF Version

LEMMA HistStep ==
  ASSUME CacheAssumption, TypeOK, CacheNext
  PROVE  hist' \in [Messages -> Seq(Version)] /\ HistKept
<1>1. CASE UNCHANGED hist
  <2>1. hist \in [Messages -> Seq(Version)]
    BY DEF TypeOK
  <2>2. \A m \in Messages : Len(hist[m]) \in Nat
    BY <2>1
  <2> QED BY <1>1, <2>1, <2>2 DEF HistKept
<1>2. ASSUME NEW m \in Messages, Post(m)
      PROVE  hist' \in [Messages -> Seq(Version)] /\ HistKept
  <2>1. PICK x \in Media \cup {None} : hist' = [hist EXCEPT ![m] = <<[edit |-> 0, media |-> x]>>]
    BY <1>2 DEF Post
  <2>2. [edit |-> 0, media |-> x] \in Version
    BY DEF Version
  <2> QED BY <1>2, <2>1, <2>2, First DEF Post
<1>3. ASSUME NEW m \in Messages, Edit(m)
      PROVE  hist' \in [Messages -> Seq(Version)] /\ HistKept
  <2>1. PICK x \in Media, s \in EditSeconds :
          hist' = [hist EXCEPT ![m] = Append(@, [edit |-> hist[m][Newest(m)].edit + s, media |-> x])]
    BY <1>3 DEF Edit
  <2> DEFINE v == [edit |-> hist[m][Newest(m)].edit + s, media |-> x]
  <2>2. v \in Version
    BY <1>3, EditedVersion DEF Edit
  <2>3. hist' = [hist EXCEPT ![m] = Append(@, v)]
    BY <2>1
  <2> QED BY <2>2, <2>3, Appended
<1>4. ASSUME NEW j \in Jobs, Upload(j)
      PROVE  hist' \in [Messages -> Seq(Version)] /\ HistKept
  <2>1. PICK m \in Messages, x \in Media :
          hist[m] = <<>> /\ hist' = [hist EXCEPT ![m] = <<[edit |-> 0, media |-> x]>>]
    BY <1>4 DEF Upload
  <2>2. [edit |-> 0, media |-> x] \in Version
    BY DEF Version
  <2> QED BY <2>1, <2>2, First
<1>5. \/ UNCHANGED hist
      \/ \E m \in Messages : Post(m) \/ Edit(m)
      \/ \E j \in Jobs : Upload(j)
  BY ZenonT(30) DEF CacheNext, Telegram, Remove, HandleUpdate, History, Download, Send, Local, Quit,
         FetchBackfill, FetchSync, FetchHistory, StoreBackfill, StoreSync, LookUp, FetchMedia,
         StoreSkipped, StoreVerified, HashDownloaded, RecordUpload, IdentifyUpload, HashUpload,
         ScanRow, DigestFile, IndexFile, DeleteRemote, MarkDeleted
<1> QED BY <1>1, <1>2, <1>3, <1>4, <1>5

----------------------------------------------------------------------------
(* Type correctness.                                                       *)

LEMMA EntryTyped ==
  ASSUME TypeOK, NEW m \in Messages, NEW kind \in Kinds, NEW sha \in Media \cup {None},
         IndexEntry(m, kind, sha)
  PROVE  index' \in [Messages -> [Kinds -> Entry]]
<1>1. row[m] \in Columns /\ index \in [Messages -> [Kinds -> Entry]]
  BY DEF TypeOK
<1>2. [sha |-> sha, path |-> row[m].path, id |-> row[m].id, mver |-> row[m].mver] \in Entry
  BY <1>1 DEF Columns, Entry
<1> DEFINE e == [sha |-> sha, path |-> row[m].path, id |-> row[m].id, mver |-> row[m].mver]
<1>3. index' = [index EXCEPT ![m][kind] = e]
  BY DEF IndexEntry
<1>4. e \in Entry
  BY <1>2
<1> HIDE DEF e
<1> QED BY <1>1, <1>3, <1>4

\* A command and a row are replaced by others of their type.
LEMMA ReplaceTyped ==
  ASSUME TypeOK
  PROVE  /\ \A j \in Jobs, r \in Job : Set(j, r) => job' \in [Jobs -> Job]
         /\ \A m \in Messages, c \in Columns : [row EXCEPT ![m] = c] \in [Messages -> Columns]
         /\ \A p \in Path, x \in Media : [files EXCEPT ![p] = x] \in [Path -> Media \cup {None}]
BY DEF TypeOK, Set

LEMMA Constants ==
  ASSUME CacheAssumption
  PROVE  /\ 0 \in Nat /\ None \in Media \cup {None}
         /\ NoPath \in Path \cup {NoPath}
         /\ {"backfill", "sync", "download", "upload", "index", "delete"} = AllOps
         /\ "none" \in Outcomes /\ "failed" \in Outcomes
         /\ "skipped" \in Outcomes /\ "downloaded" \in Outcomes
         /\ "downloaded" \in Kinds /\ "cached_file" \in Kinds /\ "upload_original" \in Kinds
         /\ {"idle", "fetch", "store", "hash", "record", "identify", "original", "digest",
             "entry", "mark"} = Stages
BY DEF AllOps, Outcomes, Kinds, Stages

LEMMA TelegramTyped ==
  ASSUME CacheAssumption, TypeOK, Sourced, CacheNext, Telegram \/ HandleUpdate
  PROVE  TypeOK'
<1>1. hist' \in [Messages -> Seq(Version)]
  BY HistStep
<1>2. ASSUME NEW m \in Messages, Post(m)
      PROVE  TypeOK'
  <2>1. Announce(m, 1)
    BY <1>2 DEF Post
  <2>2. inbox' \in Seq(Messages \X Nat)
    BY <2>1, Announced
  <2> QED BY <1>1, <1>2, <2>2 DEF TypeOK, Post
<1>3. ASSUME NEW m \in Messages, Edit(m)
      PROVE  TypeOK'
  <2>1. Announce(m, Newest(m) + 1) /\ Newest(m) + 1 \in Nat
    BY <1>3 DEF Edit, Newest, TypeOK
  <2>2. inbox' \in Seq(Messages \X Nat)
    BY <2>1, Announced
  <2> QED BY <1>1, <1>3, <2>2 DEF TypeOK, Edit
<1>4. ASSUME NEW m \in Messages, Remove(m)
      PROVE  TypeOK'
  <2>1. Announce(m, 0)
    BY <1>4 DEF Remove
  <2>2. inbox' \in Seq(Messages \X Nat)
    BY <2>1, Announced
  <2> QED BY <1>1, <1>4, <2>2 DEF TypeOK, Remove
<1>5. CASE HandleUpdate
  <2> DEFINE m == Head(inbox)[1]
             k == Head(inbox)[2]
             c == IF k = 0 THEN Tombstoned(row[m])
                  ELSE Upserted(row[m], Described(m, k, NoPath, MediaOf(m, k)))
  <2>1. m \in Messages /\ k \in 0..Newest(m) /\ Tail(inbox) \in Seq(Messages \X Nat)
    BY <1>5, HeadTyped DEF HandleUpdate
  <2>2. row[m] \in Columns
    BY <2>1 DEF TypeOK
  <2>3. Newest(m) \in Nat
    BY <2>1 DEF TypeOK, Newest
  <2>4. k # 0 => k \in 1..Newest(m)
    BY <2>1, <2>3
  <2>5. k # 0 => Described(m, k, NoPath, MediaOf(m, k)) \in Columns
    BY <2>1, <2>4, VersionTyped, DescribedTyped
  <2>6. c \in Columns
    BY <2>2, <2>5, RowsTyped, Constants
  <2>7. row' = [row EXCEPT ![m] = c] /\ inbox' = Tail(inbox)
    BY <1>5, <2>1 DEF HandleUpdate, TypeOK
  <2>8. row' \in [Messages -> Columns]
    <3> HIDE DEF c, m
    <3> QED BY <2>1, <2>6, <2>7, ReplaceTyped
  <2>9. inbox' \in Seq(Messages \X Nat)
    BY <2>1, <2>7
  <2> QED BY <1>1, <1>5, <2>8, <2>9 DEF TypeOK, HandleUpdate
<1> QED BY <1>2, <1>3, <1>4, <1>5 DEF Telegram

LEMMA HistoryTyped ==
  ASSUME CacheAssumption, TypeOK, Working, CacheNext, NEW j \in Jobs, History(j)
  PROVE  TypeOK'
<1>1. hist' \in [Messages -> Seq(Version)]
  BY HistStep
<1>2. ASSUME NEW op \in AllOps, NEW allowed, FetchHistory(j, op, allowed)
      PROVE  TypeOK'
  <2>1. PICK m \in Messages :
          /\ Visible(m)
          /\ LET k == Newest(m)
                 x == MediaOf(m, k)
                 p == UniquePath(m, x)
                 r == At("store", op, m, k) IN
               \/ Set(j, [r EXCEPT !.outcome = "none"]) /\ files' = files
               \/ /\ x # None /\ Set(j, [r EXCEPT !.outcome = "failed", !.id = x])
                  /\ files' \in {files, [files EXCEPT ![p] = x]}
               \/ x # None /\ Set(j, [r EXCEPT !.outcome = "skipped", !.id = x, !.path = p]) /\ files' = files
               \/ /\ x # None /\ Set(j, [r EXCEPT !.outcome = "downloaded", !.id = x, !.path = p])
                  /\ files' = [files EXCEPT ![p] = x]
    BY <1>2 DEF FetchHistory
  <2> DEFINE k == Newest(m)
             x == MediaOf(m, k)
             p == UniquePath(m, x)
             r == At("store", op, m, k)
  <2>2. k \in Nat /\ x \in Media \cup {None}
    <3>1. hist[m] \in Seq(Version) /\ hist[m] # <<>>
      BY <2>1 DEF TypeOK, Visible
    <3>2. Newest(m) \in 1..Newest(m)
      BY <3>1 DEF Newest
    <3> QED BY <3>2, VersionTyped
  <2>3. r \in Job
    <3>1. job[j] \in Job
      BY InHand
    <3> QED BY <2>2, <3>1, JobsTyped, Constants
  <2>4. x # None => p \in Path
    BY <2>2, PathsTyped
  <2>5. files \in [Path -> Media \cup {None}] /\ job \in [Jobs -> Job]
    BY DEF TypeOK
  <2> HIDE DEF k, x, p, r
  <2>6. /\ [r EXCEPT !.outcome = "none"] \in Job
        /\ [r EXCEPT !.outcome = "failed", !.id = x] \in Job
        /\ x # None => /\ [r EXCEPT !.outcome = "skipped", !.id = x, !.path = p] \in Job
                       /\ [r EXCEPT !.outcome = "downloaded", !.id = x, !.path = p] \in Job
    BY <2>2, <2>3, <2>4, JobsTyped, Constants
  <2>7. job' \in [Jobs -> Job] /\ files' \in [Path -> Media \cup {None}]
    BY <2>1, <2>2, <2>4, <2>5, <2>6, ReplaceTyped DEF k, x, p, r
  <2> QED BY <1>1, <1>2, <2>7 DEF TypeOK, FetchHistory
<1>3. ASSUME In(j, "store"), job[j].op # "download"
      PROVE  /\ job[j].m \in Messages
             /\ row[job[j].m] \in Columns
             /\ Described(job[j].m, job[j].k, job[j].path, job[j].id) \in Columns
  <2>1. job[j].m \in Messages /\ job[j].k \in 1..Newest(job[j].m)
    BY <1>3 DEF Working, InStage, In
  <2> QED BY <2>1, InHand, DescribedTyped DEF TypeOK
<1>4. CASE StoreBackfill(j)
  <2> DEFINE r == job[j]
             c == Backfilled(row[r.m], Described(r.m, r.k, r.path, r.id), r.outcome)
  <2>1. c \in Columns /\ r.m \in Messages
    BY <1>3, <1>4, InHand, RowsTyped, Constants DEF StoreBackfill
  <2>2. row' \in {row, [row EXCEPT ![r.m] = c]}
    BY <1>4, <2>1 DEF StoreBackfill, TypeOK
  <2>3. row' \in [Messages -> Columns]
    <3>1. row \in [Messages -> Columns]
      BY DEF TypeOK
    <3> HIDE DEF c, r
    <3>2. [row EXCEPT ![r.m] = c] \in [Messages -> Columns]
      BY <2>1, <3>1, ReplaceTyped
    <3> QED BY <2>2, <3>1, <3>2
  <2>4. job' \in [Jobs -> Job]
    <3>1. job[j] \in Job /\ [job[j] EXCEPT !.pc = "hash"] \in Job /\ Idle \in Job
      BY InHand, JobsTyped, Constants
    <3> QED BY <1>4, <3>1, ReplaceTyped DEF StoreBackfill
  <2> QED BY <1>1, <1>4, <2>3, <2>4 DEF TypeOK, StoreBackfill
<1>5. CASE StoreSync(j)
  <2> DEFINE r == job[j]
             c == Upserted(row[r.m], Described(r.m, r.k, r.path, r.id))
  <2>1. c \in Columns /\ r.m \in Messages
    BY <1>3, <1>5, RowsTyped, Constants DEF StoreSync
  <2>2. row' = [row EXCEPT ![r.m] = c]
    BY <1>5, <2>1 DEF StoreSync, TypeOK
  <2>3. row' \in [Messages -> Columns]
    <3> HIDE DEF c, r
    <3> QED BY <2>1, <2>2, ReplaceTyped
  <2>4. job' \in [Jobs -> Job]
    <3>1. Idle \in Job
      BY InHand, JobsTyped, Constants
    <3> QED BY <1>5, <3>1, ReplaceTyped DEF StoreSync
  <2> QED BY <1>1, <1>5, <2>3, <2>4 DEF TypeOK, StoreSync
<1> QED BY <1>2, <1>4, <1>5, Constants DEF History, FetchBackfill, FetchSync

LEMMA DownloadTyped ==
  ASSUME CacheAssumption, TypeOK, Working, CacheNext, NEW j \in Jobs, Download(j)
  PROVE  TypeOK'
<1>1. hist' \in [Messages -> Seq(Version)] /\ Idle \in Job
  BY HistStep, InHand, JobsTyped, Constants
<1>2. CASE LookUp(j)
  <2>1. PICK m \in Messages :
          Set(j, [At("fetch", "download", m, 0) EXCEPT !.id = IF row[m].known THEN row[m].id ELSE None])
    BY <1>2 DEF LookUp
  <2>2. (IF row[m].known THEN row[m].id ELSE None) \in Media \cup {None}
    BY DEF TypeOK, Columns
  <2>3. At("fetch", "download", m, 0) \in Job
    BY InHand, JobsTyped, Constants
  <2>4. [At("fetch", "download", m, 0) EXCEPT !.id = IF row[m].known THEN row[m].id ELSE None] \in Job
    BY <2>2, <2>3, JobsTyped, Constants
  <2>5. job' \in [Jobs -> Job]
    BY <2>1, <2>4, ReplaceTyped
  <2> QED BY <1>1, <1>2, <2>5 DEF TypeOK, LookUp
<1>3. CASE FetchMedia(j)
  <2> DEFINE m == job[j].m
             k == Newest(m)
             x == MediaOf(m, k)
             p == NamedPath(x)
             r == [job[j] EXCEPT !.pc = "store", !.k = k, !.path = p, !.sha = x]
  <2>1. m \in Messages /\ Visible(m) /\ x # None
    BY <1>3 DEF FetchMedia, Working, InStage, In
  <2>2. k \in Nat /\ x \in Media
    <3>1. hist[m] \in Seq(Version) /\ hist[m] # <<>>
      BY <2>1 DEF TypeOK, Visible
    <3>2. Newest(m) \in 1..Newest(m)
      BY <3>1 DEF Newest
    <3> QED BY <2>1, <3>2, VersionTyped
  <2>3. p \in Path
    BY <2>1, <2>2, PathsTyped
  <2>4. r \in Job
    BY <2>2, <2>3, InHand, JobsTyped, Constants
  <2>5. [r EXCEPT !.outcome = "skipped"] \in Job /\ [r EXCEPT !.outcome = "downloaded"] \in Job
    BY <2>4, JobsTyped, Constants
  <2>6. \/ Set(j, [r EXCEPT !.outcome = "skipped"]) /\ files' = files
        \/ Set(j, [r EXCEPT !.outcome = "downloaded"]) /\ files' = [files EXCEPT ![p] = x]
    BY <1>3 DEF FetchMedia
  <2>7. job' \in [Jobs -> Job] /\ files' \in [Path -> Media \cup {None}]
    <3>1. files \in [Path -> Media \cup {None}]
      BY DEF TypeOK
    <3> HIDE DEF r, p, x
    <3> QED BY <2>2, <2>3, <2>5, <2>6, <3>1, ReplaceTyped
  <2> QED BY <1>1, <1>3, <2>7 DEF TypeOK, FetchMedia
<1>4. In(j, "store") => job[j].m \in Messages /\ row[job[j].m] \in Columns
  BY DEF Working, InStage, In, TypeOK
<1>5. CASE StoreSkipped(j)
  <2>1. MediaPathStored(row[job[j].m], job[j].k, job[j].path) \in Columns
    BY <1>4, <1>5, InHand, RowsTyped, Constants DEF StoreSkipped
  <2>2. row' \in [Messages -> Columns]
    BY <1>4, <1>5, <2>1, ReplaceTyped DEF StoreSkipped, TypeOK
  <2>3. job' \in [Jobs -> Job]
    BY <1>1, <1>5, ReplaceTyped DEF StoreSkipped
  <2> QED BY <1>1, <1>5, <2>2, <2>3 DEF TypeOK, StoreSkipped
<1>6. CASE StoreVerified(j)
  <2> DEFINE r == job[j]
  <2>1. r.m \in Messages /\ row[r.m] \in Columns
    BY <1>4, <1>6 DEF StoreVerified
  <2>2. Bare(r.k, r.path, r.sha) \in Columns /\ WithMedia(row[r.m], r.k, r.path, r.sha) \in Columns
    BY <2>1, InHand, RowsTyped, Constants
  <2>3. \/ row' = [row EXCEPT ![r.m] = Bare(r.k, r.path, r.sha)]
        \/ row' = [row EXCEPT ![r.m] = WithMedia(row[r.m], r.k, r.path, r.sha)]
        \/ row' = row
    BY <1>6, <2>1 DEF StoreVerified, TypeOK
  <2>4. row' \in [Messages -> Columns]
    BY <2>1, <2>2, <2>3, ReplaceTyped DEF TypeOK
  <2>5. [r EXCEPT !.pc = "hash", !.id = r.sha] \in Job
    BY InHand, JobsTyped, Constants
  <2>6. job' \in [Jobs -> Job]
    BY <1>1, <1>6, <2>5, ReplaceTyped DEF StoreVerified
  <2> QED BY <1>1, <1>6, <2>4, <2>6 DEF TypeOK, StoreVerified
<1>7. CASE HashDownloaded(j)
  <2>1. files[job[j].path] \in Media \cup {None} /\ job[j].m \in Messages
    BY <1>7 DEF HashDownloaded, Working, InStage, In, TypeOK
  <2>2. index' \in [Messages -> [Kinds -> Entry]]
    BY <1>7, <2>1, EntryTyped, Constants DEF HashDownloaded
  <2>3. job' \in [Jobs -> Job]
    BY <1>1, <1>7, ReplaceTyped DEF HashDownloaded
  <2> QED BY <1>1, <1>7, <2>2, <2>3 DEF TypeOK, HashDownloaded
<1> QED BY <1>2, <1>3, <1>5, <1>6, <1>7 DEF Download

LEMMA SendTyped ==
  ASSUME CacheAssumption, TypeOK, Working, CacheNext, NEW j \in Jobs, Send(j)
  PROVE  TypeOK'
<1>1. hist' \in [Messages -> Seq(Version)] /\ Idle \in Job /\ job[j] \in Job
  BY HistStep, InHand, JobsTyped, Constants
<1>2. CASE Upload(j)
  <2>1. PICK m \in Messages, x \in Media :
          /\ files' = [files EXCEPT ![SourcePath(m, x)] = x]
          /\ Announce(m, 1)
          /\ Set(j, [At("record", "upload", m, 1) EXCEPT !.path = SourcePath(m, x), !.sha = x])
    BY <1>2 DEF Upload
  <2>2. SourcePath(m, x) \in Path
    BY PathsTyped
  <2>3. At("record", "upload", m, 1) \in Job
    BY JobsTyped, Constants
  <2>4. [At("record", "upload", m, 1) EXCEPT !.path = SourcePath(m, x), !.sha = x] \in Job
    BY <2>2, <2>3, JobsTyped
  <2>5. job' \in [Jobs -> Job] /\ files' \in [Path -> Media \cup {None}]
    BY <2>1, <2>2, <2>4, ReplaceTyped
  <2>6. inbox' \in Seq(Messages \X Nat)
    BY <2>1, Announced, Constants
  <2> QED BY <1>1, <1>2, <2>5, <2>6 DEF TypeOK, Upload
<1>3. job[j].pc \in {"record", "identify", "original"} =>
        job[j].m \in Messages /\ row[job[j].m] \in Columns
  <2>1. job[j].pc # "idle" => job[j].m \in Messages
    BY DEF Working, InStage
  <2> QED BY <2>1 DEF TypeOK
<1>4. CASE RecordUpload(j)
  <2>1. PICK date \in {0, 1} :
          row' = [row EXCEPT ![job[j].m] = UploadRecorded(@, date, job[j].path)]
    BY <1>4 DEF RecordUpload
  <2>2. UploadRecorded(row[job[j].m], date, job[j].path) \in Columns /\ job[j].m \in Messages
    BY <1>3, <1>4, InHand, RowsTyped DEF RecordUpload, In
  <2>3. row' \in [Messages -> Columns]
    BY <2>1, <2>2, ReplaceTyped DEF TypeOK
  <2>4. [job[j] EXCEPT !.pc = "identify"] \in Job
    BY <1>1, JobsTyped, Constants
  <2>5. job' \in [Jobs -> Job]
    BY <1>4, <2>4, ReplaceTyped DEF RecordUpload
  <2> QED BY <1>1, <1>4, <2>3, <2>5 DEF TypeOK, RecordUpload
<1>5. CASE IdentifyUpload(j)
  <2>1. [row[job[j].m] EXCEPT !.id = job[j].sha] \in Columns /\ job[j].m \in Messages
    BY <1>3, <1>5, InHand, RowsTyped DEF IdentifyUpload, In
  <2>2. row' = row \/ row' = [row EXCEPT ![job[j].m] = [row[job[j].m] EXCEPT !.id = job[j].sha]]
    BY <1>5 DEF IdentifyUpload
  <2>3. row' \in [Messages -> Columns]
    BY <2>1, <2>2, ReplaceTyped DEF TypeOK
  <2>4. [job[j] EXCEPT !.pc = "original"] \in Job
    BY <1>1, JobsTyped, Constants
  <2>5. job' \in [Jobs -> Job]
    BY <1>5, <2>4, ReplaceTyped DEF IdentifyUpload
  <2> QED BY <1>1, <1>5, <2>3, <2>5 DEF TypeOK, IdentifyUpload
<1>6. CASE HashUpload(j)
  <2>1. index' \in [Messages -> [Kinds -> Entry]]
    BY <1>3, <1>6, InHand, EntryTyped, Constants DEF HashUpload, In
  <2>2. job' \in [Jobs -> Job]
    BY <1>1, <1>6, ReplaceTyped DEF HashUpload
  <2> QED BY <1>1, <1>6, <2>1, <2>2 DEF TypeOK, HashUpload
<1> QED BY <1>2, <1>4, <1>5, <1>6 DEF Send

LEMMA LocalTyped ==
  ASSUME CacheAssumption, TypeOK, Working, CacheNext, NEW j \in Jobs, Local(j) \/ Quit(j)
  PROVE  TypeOK'
<1>1. hist' \in [Messages -> Seq(Version)] /\ Idle \in Job /\ job[j] \in Job
  BY HistStep, InHand, JobsTyped, Constants
<1>2. CASE ScanRow(j)
  <2>1. PICK m \in Messages :
          /\ row[m].path # NoPath
          /\ Set(j, [At("digest", "index", m, 0) EXCEPT !.path = row[m].path, !.id = row[m].id])
    BY <1>2 DEF ScanRow
  <2>2. At("digest", "index", m, 0) \in Job
    BY JobsTyped, Constants
  <2>3. row[m].path \in Path /\ row[m].id \in Media \cup {None}
    BY <2>1 DEF TypeOK, Columns
  <2>4. [At("digest", "index", m, 0) EXCEPT !.path = row[m].path, !.id = row[m].id] \in Job
    BY <2>2, <2>3, JobsTyped
  <2>5. job' \in [Jobs -> Job]
    BY <2>1, <2>4, ReplaceTyped
  <2> QED BY <1>1, <1>2, <2>5 DEF TypeOK, ScanRow
<1>3. CASE DigestFile(j)
  <2>1. files[job[j].path] \in Media \cup {None}
    BY <1>3 DEF DigestFile, In, Working, InStage, TypeOK
  <2>2. [job[j] EXCEPT !.pc = "entry", !.sha = files[job[j].path]] \in Job
    BY <1>1, <2>1, JobsTyped, Constants
  <2>3. job' \in [Jobs -> Job]
    BY <1>3, <2>2, ReplaceTyped DEF DigestFile
  <2> QED BY <1>1, <1>3, <2>3 DEF TypeOK, DigestFile
<1>4. CASE IndexFile(j)
  <2>1. job[j].m \in Messages
    BY <1>4 DEF IndexFile, In, Working, InStage
  <2>2. index' \in [Messages -> [Kinds -> Entry]]
    BY <1>4, <2>1, InHand, EntryTyped, Constants DEF IndexFile
  <2>3. job' \in [Jobs -> Job]
    BY <1>1, <1>4, ReplaceTyped DEF IndexFile
  <2> QED BY <1>1, <1>4, <2>2, <2>3 DEF TypeOK, IndexFile
<1>5. CASE DeleteRemote(j)
  <2>1. PICK m \in Messages :
          gone' = gone \cup {m} /\ Announce(m, 0) /\ Set(j, At("mark", "delete", m, 0))
    BY <1>5 DEF DeleteRemote
  <2>2. At("mark", "delete", m, 0) \in Job
    BY JobsTyped, Constants
  <2>3. job' \in [Jobs -> Job] /\ inbox' \in Seq(Messages \X Nat)
    BY <2>1, <2>2, ReplaceTyped, Announced, Constants
  <2>4. gone' \subseteq Messages
    BY <2>1 DEF TypeOK
  <2> QED BY <1>1, <1>5, <2>3, <2>4 DEF TypeOK, DeleteRemote
<1>6. CASE MarkDeleted(j)
  <2>1. job[j].m \in Messages /\ row[job[j].m] \in Columns
    BY <1>6 DEF MarkDeleted, In, Working, InStage, TypeOK
  <2>2. Tombstoned(row[job[j].m]) \in Columns
    BY <2>1, RowsTyped
  <2>3. row' \in [Messages -> Columns]
    BY <1>6, <2>1, <2>2, ReplaceTyped DEF MarkDeleted, TypeOK
  <2>4. job' \in [Jobs -> Job]
    BY <1>1, <1>6, ReplaceTyped DEF MarkDeleted
  <2> QED BY <1>1, <1>6, <2>3, <2>4 DEF TypeOK, MarkDeleted
<1>7. CASE Quit(j)
  <2>1. job' \in [Jobs -> Job]
    BY <1>1, <1>7, ReplaceTyped DEF Quit
  <2> QED BY <1>1, <1>7, <2>1 DEF TypeOK, Quit
<1> QED BY <1>2, <1>3, <1>4, <1>5, <1>6, <1>7 DEF Local

LEMMA TypeStep ==
  ASSUME CacheAssumption, TypeOK, Sourced, Working, CacheNext
  PROVE  TypeOK'
BY TelegramTyped, HistoryTyped, DownloadTyped, SendTyped, LocalTyped DEF CacheNext

----------------------------------------------------------------------------
(* What a step does to a row.                                              *)

JobRowStep(m, r) ==
  \/ /\ r.pc = "store" /\ r.op # "download"
     /\ \/ r.op = "sync" /\ row'[m] = Upserted(row[m], Described(m, r.k, r.path, r.id))
        \/ row'[m] = Backfilled(row[m], Described(m, r.k, r.path, r.id), r.outcome)
  \/ /\ r.pc = "store" /\ r.op = "download"
     /\ row'[m] = MediaPathStored(row[m], r.k, r.path)
  \/ /\ r.pc = "store" /\ r.op = "download" /\ r.outcome = "downloaded"
     /\ Acceptable(row[m], r.id, r.sha)
     /\ row'[m] = IF ~row[m].known THEN Bare(r.k, r.path, r.sha)
                                   ELSE WithMedia(row[m], r.k, r.path, r.sha)
  \/ /\ r.pc = "record"
     /\ \E date \in {0, 1} : row'[m] = UploadRecorded(row[m], date, r.path)
  \/ /\ r.pc = "identify" /\ Unidentified(row[m], r.path)
     /\ row'[m] = [row[m] EXCEPT !.id = r.sha]

RowStep(m) ==
  \/ row'[m] = row[m]
  \/ row'[m] = Tombstoned(row[m])
  \/ \E k \in 1..Newest(m) : row'[m] = Upserted(row[m], Described(m, k, NoPath, MediaOf(m, k)))
  \/ \E j \in Jobs : job[j].m = m /\ JobRowStep(m, job[j])

LEMMA RowSteps ==
  ASSUME CacheAssumption, TypeOK, Sourced, Working, CacheNext, NEW m \in Messages
  PROVE  RowStep(m)
<1>1. row \in [Messages -> Columns]
  BY DEF TypeOK
<1>2. CASE UNCHANGED row
  BY <1>2 DEF RowStep
<1>3. CASE HandleUpdate
  <2>1. Head(inbox)[1] \in Messages /\ Head(inbox)[2] \in 0..Newest(Head(inbox)[1])
    BY <1>3, HeadTyped DEF HandleUpdate
  <2>2. Newest(Head(inbox)[1]) \in Nat
    BY <2>1 DEF TypeOK, Newest
  <2>3. PICK n \in Messages : \E k \in 0..Newest(n) :
          row' = [row EXCEPT ![n] = IF k = 0 THEN Tombstoned(@)
                                    ELSE Upserted(@, Described(n, k, NoPath, MediaOf(n, k)))]
    BY <1>3, <2>1 DEF HandleUpdate
  <2>8. PICK k \in 0..Newest(n) :
          row' = [row EXCEPT ![n] = IF k = 0 THEN Tombstoned(@)
                                    ELSE Upserted(@, Described(n, k, NoPath, MediaOf(n, k)))]
    BY <2>3
  <2>4. Newest(n) \in Nat
    BY DEF TypeOK, Newest
  <2>5. CASE n # m
    BY <1>1, <2>8, <2>5 DEF RowStep
  <2>6. CASE n = m /\ k = 0
    BY <1>1, <2>8, <2>6 DEF RowStep
  <2>7. CASE n = m /\ k # 0
    <3>1. k \in 1..Newest(m)
      BY <2>4, <2>7
    <3>2. row'[m] = Upserted(row[m], Described(m, k, NoPath, MediaOf(m, k)))
      BY <1>1, <2>8, <2>7
    <3> QED BY <3>1, <3>2 DEF RowStep
  <2> QED BY <2>5, <2>6, <2>7
<1>4. ASSUME NEW j \in Jobs, job[j].m # m,
             \E c : row' = [row EXCEPT ![job[j].m] = c]
      PROVE  row'[m] = row[m]
  BY <1>1, <1>4
<1>5. ASSUME NEW j \in Jobs, StoreBackfill(j) \/ StoreSync(j)
      PROVE  RowStep(m)
  <2>1. job[j].pc = "store" /\ job[j].op # "download"
    BY <1>5 DEF StoreBackfill, StoreSync, In
  <2>2. CASE job[j].m = m
    <3>1. \/ row'[m] = row[m]
          \/ /\ job[j].op = "sync"
             /\ row'[m] = Upserted(row[m], Described(m, job[j].k, job[j].path, job[j].id))
          \/ row'[m] = Backfilled(row[m], Described(m, job[j].k, job[j].path, job[j].id), job[j].outcome)
      BY <1>1, <1>5, <2>2 DEF StoreBackfill, StoreSync
    <3> QED BY <2>1, <2>2, <3>1 DEF RowStep, JobRowStep
  <2>3. CASE job[j].m # m
    <3>1. row'[m] = row[m]
      BY <1>1, <1>5, <2>3 DEF StoreBackfill, StoreSync
    <3> QED BY <3>1 DEF RowStep
  <2> QED BY <2>2, <2>3
<1>6. ASSUME NEW j \in Jobs, StoreSkipped(j) \/ StoreVerified(j)
      PROVE  RowStep(m)
  <2>1. job[j].pc = "store" /\ job[j].op = "download"
    BY <1>6 DEF StoreSkipped, StoreVerified, In
  <2>2. CASE job[j].m = m
    <3>1. \/ row'[m] = row[m]
          \/ row'[m] = MediaPathStored(row[m], job[j].k, job[j].path)
          \/ /\ job[j].outcome = "downloaded" /\ Acceptable(row[m], job[j].id, job[j].sha)
             /\ row'[m] = IF ~row[m].known THEN Bare(job[j].k, job[j].path, job[j].sha)
                                           ELSE WithMedia(row[m], job[j].k, job[j].path, job[j].sha)
      BY <1>1, <1>6, <2>2 DEF StoreSkipped, StoreVerified
    <3> QED BY <2>1, <2>2, <3>1 DEF RowStep, JobRowStep
  <2>3. CASE job[j].m # m
    <3>1. row'[m] = row[m]
      BY <1>1, <1>6, <2>3 DEF StoreSkipped, StoreVerified
    <3> QED BY <3>1 DEF RowStep
  <2> QED BY <2>2, <2>3
<1>7. ASSUME NEW j \in Jobs, RecordUpload(j)
      PROVE  RowStep(m)
  <2>1. PICK date \in {0, 1} :
          row' = [row EXCEPT ![job[j].m] = UploadRecorded(@, date, job[j].path)]
    BY <1>7 DEF RecordUpload
  <2>2. CASE job[j].m = m
    BY <1>1, <1>7, <2>1, <2>2 DEF RecordUpload, In, RowStep, JobRowStep
  <2>3. CASE job[j].m # m
    BY <1>1, <2>1, <2>3 DEF RowStep
  <2> QED BY <2>2, <2>3
<1>8. ASSUME NEW j \in Jobs, IdentifyUpload(j)
      PROVE  RowStep(m)
  <2>1. CASE job[j].m = m
    <3>1. row'[m] = row[m] \/ (Unidentified(row[m], job[j].path) /\ row'[m] = [row[m] EXCEPT !.id = job[j].sha])
      BY <1>1, <1>8, <2>1 DEF IdentifyUpload
    <3> QED BY <1>8, <2>1, <3>1 DEF IdentifyUpload, In, RowStep, JobRowStep
  <2>2. CASE job[j].m # m
    <3>1. row'[m] = row[m]
      BY <1>1, <1>8, <2>2 DEF IdentifyUpload
    <3> QED BY <3>1 DEF RowStep
  <2> QED BY <2>1, <2>2
<1>9. ASSUME NEW j \in Jobs, MarkDeleted(j)
      PROVE  RowStep(m)
  BY <1>1, <1>9 DEF MarkDeleted, RowStep
<1>10. \/ UNCHANGED row
       \/ HandleUpdate
       \/ \E j \in Jobs : \/ StoreBackfill(j) \/ StoreSync(j) \/ StoreSkipped(j) \/ StoreVerified(j)
                          \/ RecordUpload(j) \/ IdentifyUpload(j) \/ MarkDeleted(j)
  BY DEF CacheNext, Telegram, Post, Edit, Remove, History, Download, Send, Local, Quit,
         FetchBackfill, FetchSync, FetchHistory, LookUp, FetchMedia, HashDownloaded,
         Upload, HashUpload, ScanRow, DigestFile, IndexFile, DeleteRemote
<1> QED BY <1>2, <1>3, <1>5, <1>6, <1>7, <1>8, <1>9, <1>10

\* A refresh leaves the row, or gives it the version it describes.
LEMMA Refreshed ==
  ASSUME TypeOK, Sourced, NEW m \in Messages, NEW k \in 1..Newest(m),
         NEW p \in Path \cup {NoPath}, NEW x \in Media \cup {None}, NEW n,
         \/ n = Upserted(row[m], Described(m, k, p, x))
         \/ \E o \in Outcomes : n = Backfilled(row[m], Described(m, k, p, x), o)
  PROVE  \/ n = row[m]
         \/ /\ n.known /\ n.ver = k /\ n.edit = hist[m][k].edit
            /\ ~row[m].deleted
            /\ ~row[m].known \/ hist[m][k].edit >= row[m].edit
            /\ n.id \in {None, x}
            /\ n.path = NoPath \/ n.id = None \/ (n.path = p /\ n.id = x)
               \/ (n.path = row[m].path /\ n.id = row[m].id)
<1> DEFINE d == Described(m, k, p, x)
<1>1. /\ d \in Columns /\ d.known /\ d.ver = k /\ d.edit = hist[m][k].edit /\ d.path = p /\ d.id = x
  BY DescribedTyped DEF Described
<1>2. row[m] \in Columns /\ (row[m].known \/ row[m] = NoRow)
  BY DEF TypeOK, Sourced
<1>3. hist[m][k].edit \in Nat /\ row[m].edit \in Nat
  BY <1>2, VersionTyped DEF Columns
<1>4. CASE ~row[m].known
  <2>1. n = d /\ ~row[m].deleted
    BY <1>2, <1>4 DEF Upserted, Backfilled, NoRow
  <2> QED BY <1>1, <1>4, <2>1
<1>5. CASE row[m].known /\ (row[m].deleted \/ ~Wins(d, row[m]))
  BY <1>5 DEF Upserted, Backfilled
<1>6. CASE row[m].known /\ ~row[m].deleted /\ Wins(d, row[m])
  <2>1. d.edit >= row[m].edit
    BY <1>1, <1>3, <1>6 DEF Wins
  <2>2. PICK q \in Path \cup {NoPath}, y \in {None, x} :
          /\ n = [d EXCEPT !.path = q, !.id = y]
          /\ q = NoPath \/ y = None \/ (q = p /\ y = x) \/ (q = row[m].path /\ y = row[m].id)
    <3>1. row[m].path \in Path \cup {NoPath}
      BY <1>2 DEF Columns
    <3>2. /\ d = [d EXCEPT !.path = p, !.id = x]
          /\ \A q \in Path \cup {NoPath} : [d EXCEPT !.path = q] = [d EXCEPT !.path = q, !.id = x]
          /\ [d EXCEPT !.id = None] = [d EXCEPT !.path = p, !.id = None]
      BY <1>1, ZenonT(30) DEF Columns
    <3>3. CASE n = Upserted(row[m], d)
      <4>1. PICK q \in Path \cup {NoPath} :
              n = [d EXCEPT !.path = q]
              /\ (q = NoPath \/ q = p \/ (q = row[m].path /\ (x = None \/ x = row[m].id)))
        BY <1>1, <1>6, <3>1, <3>3 DEF Upserted
      <4> QED BY <3>2, <4>1
    <3>4. ASSUME NEW o \in Outcomes, n = Backfilled(row[m], d, o)
          PROVE  \/ n = d
                 \/ x = row[m].id /\ n = [d EXCEPT !.path = row[m].path]
                 \/ n = [d EXCEPT !.id = None]
      BY <1>1, <1>6, <3>4 DEF Backfilled
    <3> QED BY <3>1, <3>2, <3>3, <3>4
  <2>3. n.known /\ n.ver = k /\ n.edit = hist[m][k].edit /\ n.path = q /\ n.id = y
    BY <1>1, <2>2 DEF Columns
  <2> QED BY <1>1, <1>6, <2>1, <2>2, <2>3
<1> QED BY <1>4, <1>5, <1>6

----------------------------------------------------------------------------
(* What updates and commands hold stays true while Telegram moves on.      *)

LEMMA LengthTyped ==
  ASSUME TypeOK, NEW m \in Messages
  PROVE  Len(hist[m]) \in Nat /\ Newest(m) = Len(hist[m]) /\ hist[m] \in Seq(Version)
BY DEF TypeOK, Newest

LEMMA InboxKept ==
  ASSUME TypeOK, Sourced, hist' \in [Messages -> Seq(Version)], HistKept,
         NEW m \in Messages, NEW k \in Nat, Announce(m, k), k <= Len(hist'[m])
  PROVE  \A i \in 1..Len(inbox') : inbox'[i][2] <= Len(hist'[inbox'[i][1]])
<1> TAKE i \in 1..Len(inbox')
<1>1. CASE inbox'[i] = <<m, k>>
  BY <1>1
<1>2. CASE i \in 1..Len(inbox) /\ inbox'[i] = inbox[i]
  <2>1. inbox[i] \in Messages \X Nat /\ inbox[i][2] <= Len(hist[inbox[i][1]])
    BY <1>2 DEF TypeOK, Sourced, Newest
  <2>2. PICK n \in Messages, q \in Nat : inbox[i][1] = n /\ inbox[i][2] = q
    BY <2>1
  <2>3. Len(hist[n]) \in Nat /\ Len(hist'[n]) \in Nat /\ Len(hist[n]) <= Len(hist'[n])
    BY LengthTyped DEF HistKept
  <2> QED BY <1>2, <2>1, <2>2, <2>3
<1> QED BY <1>1, <1>2, Announced

LEMMA InboxStep ==
  ASSUME CacheAssumption, TypeOK, Sourced, CacheNext
  PROVE  \A i \in 1..Len(inbox') : inbox'[i][2] <= Len(hist'[inbox'[i][1]])
<1>1. hist' \in [Messages -> Seq(Version)] /\ HistKept
  BY HistStep
<1>2. ASSUME NEW m \in Messages, Announce(m, 0)
      PROVE  \A i \in 1..Len(inbox') : inbox'[i][2] <= Len(hist'[inbox'[i][1]])
  <2>1. Len(hist'[m]) \in Nat
    BY <1>1
  <2> QED BY <1>1, <1>2, <2>1, InboxKept
<1>3. ASSUME NEW m \in Messages, Announce(m, 1), NEW v, hist[m] = <<>>, hist' = [hist EXCEPT ![m] = <<v>>]
      PROVE  \A i \in 1..Len(inbox') : inbox'[i][2] <= Len(hist'[inbox'[i][1]])
  <2>1. Len(hist'[m]) = 1
    BY <1>3 DEF TypeOK
  <2> QED BY <1>1, <1>3, <2>1, InboxKept
<1>4. ASSUME NEW m \in Messages, Edit(m)
      PROVE  \A i \in 1..Len(inbox') : inbox'[i][2] <= Len(hist'[inbox'[i][1]])
  <2>1. PICK x \in Media, s \in EditSeconds :
          hist' = [hist EXCEPT ![m] = Append(@, [edit |-> hist[m][Newest(m)].edit + s, media |-> x])]
    BY <1>4 DEF Edit
  <2> DEFINE v == [edit |-> hist[m][Newest(m)].edit + s, media |-> x]
  <2>2. v \in Version
    BY <1>4, EditedVersion DEF Edit
  <2>3. hist'[m] = Append(hist[m], v)
    BY <2>1 DEF TypeOK
  <2>4. Len(hist'[m]) = Newest(m) + 1 /\ Newest(m) \in Nat
    <3> HIDE DEF v
    <3> QED BY <2>2, <2>3, LengthTyped
  <2>5. Announce(m, Newest(m) + 1) /\ Newest(m) + 1 \in Nat /\ Newest(m) + 1 <= Len(hist'[m])
    BY <1>4, <2>4 DEF Edit
  <2> HIDE DEF v
  <2> QED BY <1>1, <2>5, InboxKept
<1>5. CASE UNCHANGED inbox
  <2> TAKE i \in 1..Len(inbox')
  <2>1. inbox[i] \in Messages \X Nat /\ inbox[i][2] <= Len(hist[inbox[i][1]]) /\ inbox'[i] = inbox[i]
    BY <1>5 DEF TypeOK, Sourced, Newest
  <2>2. PICK n \in Messages, q \in Nat : inbox[i][1] = n /\ inbox[i][2] = q
    BY <2>1
  <2>3. Len(hist[n]) \in Nat /\ Len(hist'[n]) \in Nat /\ Len(hist[n]) <= Len(hist'[n])
    BY <1>1, LengthTyped DEF HistKept
  <2> QED BY <2>1, <2>2, <2>3
<1>6. CASE HandleUpdate
  <2>1. inbox \in Seq(Messages \X Nat) /\ inbox # <<>> /\ inbox' = Tail(inbox) /\ hist' = hist
    BY <1>6 DEF HandleUpdate, TypeOK
  <2>2. Len(inbox') = Len(inbox) - 1 /\ Len(inbox) \in Nat
        /\ \A i \in 1..Len(inbox') : inbox'[i] = inbox[i + 1]
    BY <2>1
  <2>3. ASSUME NEW i \in 1..Len(inbox')
        PROVE  inbox'[i][2] <= Len(hist'[inbox'[i][1]])
    <3>1. i + 1 \in 1..Len(inbox) /\ inbox'[i] = inbox[i + 1]
      BY <2>2
    <3> QED BY <2>1, <3>1 DEF Sourced, Newest
  <2> QED BY <2>3
<1>7. \/ UNCHANGED inbox
      \/ HandleUpdate
      \/ \E m \in Messages : \/ Edit(m)
                             \/ Announce(m, 0)
                             \/ \E v : Announce(m, 1) /\ hist[m] = <<>> /\ hist' = [hist EXCEPT ![m] = <<v>>]
  <2>1. ASSUME NEW m \in Messages, Post(m)
        PROVE  \E v : Announce(m, 1) /\ hist[m] = <<>> /\ hist' = [hist EXCEPT ![m] = <<v>>]
    BY <2>1 DEF Post
  <2>2. ASSUME NEW j \in Jobs, Upload(j)
        PROVE  \E m \in Messages : \E v : Announce(m, 1) /\ hist[m] = <<>> /\ hist' = [hist EXCEPT ![m] = <<v>>]
    BY <2>2 DEF Upload
  <2>3. ASSUME NEW j \in Jobs, DeleteRemote(j)
        PROVE  \E m \in Messages : Announce(m, 0)
    BY <2>3 DEF DeleteRemote
  <2>4. \/ UNCHANGED inbox
        \/ HandleUpdate
        \/ \E m \in Messages : Post(m) \/ Edit(m) \/ Announce(m, 0)
        \/ \E j \in Jobs : Upload(j) \/ DeleteRemote(j)
    BY ZenonT(30) DEF CacheNext, Telegram, Remove, History, Download, Send, Local, Quit,
           FetchBackfill, FetchSync, FetchHistory, StoreBackfill, StoreSync, LookUp, FetchMedia,
           StoreSkipped, StoreVerified, HashDownloaded, RecordUpload, IdentifyUpload, HashUpload,
           ScanRow, DigestFile, IndexFile, MarkDeleted
  <2> QED BY <2>1, <2>2, <2>3, <2>4
<1> QED BY <1>2, <1>3, <1>4, <1>5, <1>6, <1>7

LEMMA SourcedStep ==
  ASSUME CacheAssumption, TypeOK, Sourced, Working, CacheNext
  PROVE  Sourced'
<1>1. hist' \in [Messages -> Seq(Version)] /\ HistKept
  BY HistStep
<1>2. ASSUME NEW m \in Messages
      PROVE  /\ row'[m].ver <= Len(hist'[m])
             /\ row'[m].edit > 0 => row'[m].ver > 0
             /\ row'[m].known \/ row'[m] = NoRow
  <2>1. /\ row[m] \in Columns /\ row[m].ver \in Nat /\ row[m].edit \in Nat
        /\ row[m].ver <= Len(hist[m]) /\ (row[m].edit > 0 => row[m].ver > 0)
        /\ row[m].known \/ row[m] = NoRow
    BY DEF TypeOK, Sourced, Columns, Newest
  <2>2. Len(hist[m]) \in Nat /\ Len(hist'[m]) \in Nat /\ Len(hist[m]) <= Len(hist'[m])
    BY <1>1, LengthTyped DEF HistKept
  <2>3. ASSUME row'[m].known, row'[m].ver = row[m].ver, row'[m].edit = row[m].edit
        PROVE  /\ row'[m].ver <= Len(hist'[m])
               /\ row'[m].edit > 0 => row'[m].ver > 0
               /\ row'[m].known \/ row'[m] = NoRow
    BY <2>1, <2>2, <2>3
  <2>4. ASSUME NEW k \in 1..Newest(m), row'[m].known, row'[m].ver = k
        PROVE  /\ row'[m].ver <= Len(hist'[m])
               /\ row'[m].edit > 0 => row'[m].ver > 0
               /\ row'[m].known \/ row'[m] = NoRow
    BY <2>2, <2>4 DEF Newest
  <2>5. CASE row'[m] = row[m]
    BY <2>1, <2>2, <2>5
  <2>6. CASE row'[m] = Tombstoned(row[m])
    BY <2>1, <2>3, <2>6 DEF Tombstoned, Columns
  <2>7. ASSUME NEW k \in 1..Newest(m), NEW p \in Path \cup {NoPath}, NEW x \in Media \cup {None},
               \/ row'[m] = Upserted(row[m], Described(m, k, p, x))
               \/ \E o \in Outcomes : row'[m] = Backfilled(row[m], Described(m, k, p, x), o)
        PROVE  row'[m] = row[m] \/ (row'[m].known /\ row'[m].ver = k)
    <3> HIDE DEF RowStep
    <3> QED BY <2>7, Refreshed
  <2>8. ASSUME NEW k \in 1..Newest(m), row'[m] = Upserted(row[m], Described(m, k, NoPath, MediaOf(m, k)))
        PROVE  row'[m] = row[m] \/ (row'[m].known /\ row'[m].ver = k)
    BY <2>7, <2>8, VersionTyped
  <2>9. ASSUME NEW j \in Jobs, job[j].m = m, JobRowStep(m, job[j])
        PROVE  /\ row'[m].ver <= Len(hist'[m])
               /\ row'[m].edit > 0 => row'[m].ver > 0
               /\ row'[m].known \/ row'[m] = NoRow
    <3> DEFINE r == job[j]
    <3>1. /\ r.k \in Nat /\ r.path \in Path \cup {NoPath} /\ r.id \in Media \cup {None}
          /\ r.sha \in Media \cup {None} /\ r.outcome \in Outcomes
      BY InHand
    <3>2. r.pc \in {"store", "record"} => r.k \in 1..Newest(m)
      BY <2>9 DEF Working, InStage
    <3>3. r.pc \in {"record", "identify", "original"} => r.path \in Path
      BY <2>9, PathsTyped DEF Working, InStage
    <3> HIDE DEF r
    <3>4. CASE /\ r.pc = "store" /\ r.op # "download"
               /\ \/ row'[m] = Upserted(row[m], Described(m, r.k, r.path, r.id))
                  \/ row'[m] = Backfilled(row[m], Described(m, r.k, r.path, r.id), r.outcome)
      <4>1. row'[m] = row[m] \/ (row'[m].known /\ row'[m].ver = r.k)
        BY <2>7, <3>1, <3>2, <3>4
      <4> QED BY <2>4, <2>5, <3>2, <3>4, <4>1
    <3>5. CASE row'[m] = MediaPathStored(row[m], r.k, r.path)
      <4>1. row'[m].known /\ row'[m].ver = row[m].ver /\ row'[m].edit = row[m].edit
        BY <2>1, <3>5 DEF MediaPathStored, Bare, WithMedia, NoRow, Columns
      <4> QED BY <2>3, <4>1
    <3>6. CASE row'[m] = IF ~row[m].known THEN Bare(r.k, r.path, r.sha)
                                          ELSE WithMedia(row[m], r.k, r.path, r.sha)
      <4>1. row'[m].known /\ row'[m].ver = row[m].ver /\ row'[m].edit = row[m].edit
        BY <2>1, <3>6 DEF Bare, WithMedia, NoRow, Columns
      <4> QED BY <2>3, <4>1
    <3>7. CASE r.pc = "record" /\ \E date \in {0, 1} : row'[m] = UploadRecorded(row[m], date, r.path)
      <4>1. row'[m].known /\ row'[m].ver = 1 /\ 1 \in 1..Newest(m)
        BY <3>1, <3>2, <3>7, LengthTyped DEF UploadRecorded
      <4> QED BY <2>4, <4>1
    <3>8. CASE r.pc = "identify" /\ Unidentified(row[m], r.path) /\ row'[m] = [row[m] EXCEPT !.id = r.sha]
      <4>1. row[m] # NoRow
        BY <3>3, <3>8, PathsTyped DEF Unidentified, NoRow, NoPath, Path
      <4>2. row'[m].known /\ row'[m].ver = row[m].ver /\ row'[m].edit = row[m].edit
        BY <2>1, <3>8, <4>1 DEF Columns
      <4> QED BY <2>3, <4>2
    <3> QED BY <2>9, <3>4, <3>5, <3>6, <3>7, <3>8 DEF JobRowStep, r
  <2>10. RowStep(m)
    BY RowSteps
  <2> QED BY <2>4, <2>5, <2>6, <2>8, <2>9, <2>10 DEF RowStep
<1>3. \A i \in 1..Len(inbox') : inbox'[i][2] <= Len(hist'[inbox'[i][1]])
  BY InboxStep
<1> QED BY <1>2, <1>3 DEF Sourced, Newest

LEMMA StageKept ==
  ASSUME TypeOK, HistKept, hist' \in [Messages -> Seq(Version)], NEW r, InStage(r)
  PROVE  InStage(r)'
<1>1. ASSUME r.pc \in {"store", "record"}
      PROVE  /\ r.m \in Messages /\ r.k \in 1..Len(hist'[r.m])
             /\ hist'[r.m][r.k] = hist[r.m][r.k]
  <2>1. r.m \in Messages /\ r.k \in 1..Len(hist[r.m])
    BY <1>1 DEF InStage, Newest
  <2>2. Len(hist[r.m]) \in Nat /\ Len(hist'[r.m]) \in Nat /\ Len(hist[r.m]) <= Len(hist'[r.m])
    BY <2>1, LengthTyped DEF HistKept
  <2> QED BY <2>1, <2>2 DEF HistKept
<1>2. r.pc = "store" /\ r.op # "download" => HistoryRead(r)'
  BY <1>1 DEF InStage, HistoryRead, MediaOf
<1> QED BY <1>1, <1>2 DEF InStage, Newest, NamedPath, SourcePath

LEMMA StageReplaced ==
  ASSUME TypeOK, Working, HistKept, hist' \in [Messages -> Seq(Version)],
         NEW j \in Jobs, NEW r, job' = [job EXCEPT ![j] = r], InStage(r)'
  PROVE  Working'
<1>1. ASSUME NEW i \in Jobs
      PROVE  InStage(job[i])'
  <2>1. PICK q : q = job'[i]
    OBVIOUS
  <2>2. q = r \/ q = job[i]
    BY <2>1 DEF TypeOK
  <2>3. InStage(q)'
    BY <2>2, StageKept DEF Working
  <2> QED BY <2>1, <2>3
<1> QED BY <1>1 DEF Working

LEMMA VisibleNewest ==
  ASSUME TypeOK, NEW m \in Messages, Visible(m)
  PROVE  /\ Newest(m) \in 1..Newest(m) /\ Newest(m) \in Nat
         /\ MediaOf(m, Newest(m)) \in Media \cup {None}
<1>1. hist[m] \in Seq(Version) /\ hist[m] # <<>>
  BY DEF TypeOK, Visible
<1>2. Newest(m) \in 1..Newest(m)
  BY <1>1 DEF Newest
<1> QED BY <1>2, VersionTyped

LEMMA WorkingHistory ==
  ASSUME CacheAssumption, TypeOK, Working, HistKept, hist' \in [Messages -> Seq(Version)],
         NEW j \in Jobs, History(j)
  PROVE  Working'
<1>1. ASSUME NEW op \in {"backfill", "sync"}, NEW allowed, FetchHistory(j, op, allowed)
      PROVE  Working'
  <2>1. PICK m \in Messages :
          /\ Visible(m)
          /\ LET k == Newest(m)
                 x == MediaOf(m, k)
                 p == UniquePath(m, x)
                 r == At("store", op, m, k) IN
               \/ Set(j, [r EXCEPT !.outcome = "none"])
               \/ x # None /\ Set(j, [r EXCEPT !.outcome = "failed", !.id = x])
               \/ x # None /\ Set(j, [r EXCEPT !.outcome = "skipped", !.id = x, !.path = p])
               \/ x # None /\ Set(j, [r EXCEPT !.outcome = "downloaded", !.id = x, !.path = p])
    BY <1>1 DEF FetchHistory
  <2> DEFINE k == Newest(m)
             x == MediaOf(m, k)
             p == UniquePath(m, x)
             r == At("store", op, m, k)
  <2>2. k \in 1..Newest(m) /\ x = MediaOf(m, k)
    BY <2>1, VisibleNewest
  <2>5. x # None => p \in Path
    BY <2>1, VisibleNewest, PathsTyped
  <2> HIDE DEF k, x, p
  <2>3. /\ InStage([r EXCEPT !.outcome = "none"])
        /\ InStage([r EXCEPT !.outcome = "failed", !.id = x])
        /\ x # None => /\ InStage([r EXCEPT !.outcome = "skipped", !.id = x, !.path = p])
                       /\ InStage([r EXCEPT !.outcome = "downloaded", !.id = x, !.path = p])
    BY <2>2, <2>5 DEF At, InStage, HistoryRead
  <2>4. PICK q : Set(j, q) /\ InStage(q)
    <3> HIDE DEF r
    <3> QED BY <2>1, <2>3 DEF k, x, p, r
  <2> QED BY <2>4, StageKept, StageReplaced DEF Set
<1>2. InStage(Idle)
  BY DEF InStage, Idle, At
<1>3. CASE StoreBackfill(j)
  <2>1. job[j].pc = "store" /\ InStage(job[j]) /\ job[j] \in Job
    BY <1>3, InHand DEF StoreBackfill, In, Working
  <2>2. job[j].outcome = "downloaded" => InStage([job[j] EXCEPT !.pc = "hash"])
    BY <2>1 DEF InStage, Job
  <2>3. PICK q : Set(j, q) /\ InStage(q)
    BY <1>2, <1>3, <2>2 DEF StoreBackfill
  <2> QED BY <2>3, StageKept, StageReplaced DEF Set
<1>4. CASE StoreSync(j)
  BY <1>2, <1>4, StageKept, StageReplaced DEF StoreSync, Set
<1> QED BY <1>1, <1>3, <1>4 DEF History, FetchBackfill, FetchSync

LEMMA WorkingDownload ==
  ASSUME CacheAssumption, TypeOK, Working, HistKept, hist' \in [Messages -> Seq(Version)],
         NEW j \in Jobs, Download(j)
  PROVE  Working'
<1>1. InStage(Idle)
  BY DEF InStage, Idle, At
<1>2. InStage(job[j]) /\ job[j] \in Job
  BY InHand DEF Working
<1>3. CASE LookUp(j)
  <2>1. PICK m \in Messages : \E y : Set(j, [At("fetch", "download", m, 0) EXCEPT !.id = y])
    BY <1>3 DEF LookUp
  <2>3. PICK x : Set(j, [At("fetch", "download", m, 0) EXCEPT !.id = x])
    BY <2>1
  <2>2. InStage([At("fetch", "download", m, 0) EXCEPT !.id = x])
    BY DEF InStage, At
  <2> QED BY <2>2, <2>3, StageKept, StageReplaced DEF Set
<1>4. CASE FetchMedia(j)
  <2> DEFINE m == job[j].m
             k == Newest(m)
             x == MediaOf(m, k)
             r == [job[j] EXCEPT !.pc = "store", !.k = k, !.path = NamedPath(x), !.sha = x]
  <2>1. m \in Messages /\ Visible(m) /\ x # None
    BY <1>2, <1>4 DEF FetchMedia, InStage, In
  <2>2. k \in 1..Newest(m) /\ x \in Media /\ NamedPath(x) \in Path
    BY <2>1, VisibleNewest, PathsTyped
  <2>3. job[j].op = "download" /\ job[j].pc = "fetch"
    BY <1>2, <1>4 DEF FetchMedia, InStage, In
  <2>4. Set(j, [r EXCEPT !.outcome = "skipped"]) \/ Set(j, [r EXCEPT !.outcome = "downloaded"])
    BY <1>4 DEF FetchMedia
  <2>5. InStage([r EXCEPT !.outcome = "skipped"]) /\ InStage([r EXCEPT !.outcome = "downloaded"])
    <3>1. ASSUME NEW o \in Outcomes, NEW q, q = [r EXCEPT !.outcome = o]
          PROVE  /\ q.pc = "store" /\ q.op = "download" /\ q.m = m /\ q.k = k
                 /\ q.path = NamedPath(x) /\ q.sha = x
      <4> HIDE DEF k, x, m
      <4>1. r.pc = "store" /\ r.op = "download" /\ r.m = job[j].m /\ r.k = k /\ r.path = NamedPath(x) /\ r.sha = x
        BY <1>2, <2>3 DEF Job
      <4>2. q.pc = r.pc /\ q.op = r.op /\ q.m = r.m /\ q.k = r.k /\ q.path = r.path /\ q.sha = r.sha
        <5> HIDE DEF r
        <5> QED BY <3>1
      <4> QED BY <4>1, <4>2 DEF m
    <3>2. ASSUME NEW o \in Outcomes
          PROVE  InStage([r EXCEPT !.outcome = o])
      <4>1. PICK q : q = [r EXCEPT !.outcome = o]
        OBVIOUS
      <4> HIDE DEF r
      <4>2. /\ q.pc = "store" /\ q.op = "download" /\ q.m = m /\ q.k = k
            /\ q.path = NamedPath(x) /\ q.sha = x
        BY <3>1, <4>1
      <4> HIDE DEF x, k, m
      <4>3. InStage(q)
        BY <2>1, <2>2, <4>2 DEF InStage, k
      <4> QED BY <4>1, <4>3
    <3> HIDE DEF r
    <3> QED BY <3>2, Constants
  <2> HIDE DEF r
  <2> QED BY <2>4, <2>5, StageKept, StageReplaced DEF Set
<1>5. CASE StoreVerified(j)
  <2>1. job[j].pc = "store" /\ job[j].outcome = "downloaded"
    BY <1>5 DEF StoreVerified, In
  <2>2. InStage([job[j] EXCEPT !.pc = "hash", !.id = job[j].sha])
    BY <1>2, <2>1 DEF InStage, Job
  <2>3. PICK q : Set(j, q) /\ InStage(q)
    BY <1>1, <1>5, <2>2 DEF StoreVerified
  <2> QED BY <2>3, StageKept, StageReplaced DEF Set
<1>6. CASE StoreSkipped(j) \/ HashDownloaded(j)
  BY <1>1, <1>6, StageKept, StageReplaced DEF StoreSkipped, HashDownloaded, Set
<1> QED BY <1>3, <1>4, <1>5, <1>6 DEF Download

LEMMA WorkingSend ==
  ASSUME CacheAssumption, TypeOK, Working, HistKept, hist' \in [Messages -> Seq(Version)],
         NEW j \in Jobs, Send(j)
  PROVE  Working'
<1>1. InStage(Idle)
  BY DEF InStage, Idle, At
<1>2. InStage(job[j]) /\ job[j] \in Job
  BY InHand DEF Working
<1>3. CASE Upload(j)
  <2>1. PICK m \in Messages, x \in Media :
          /\ hist[m] = <<>> /\ hist' = [hist EXCEPT ![m] = <<[edit |-> 0, media |-> x]>>]
          /\ Set(j, [At("record", "upload", m, 1) EXCEPT !.path = SourcePath(m, x), !.sha = x])
    BY <1>3 DEF Upload
  <2> DEFINE r == [At("record", "upload", m, 1) EXCEPT !.path = SourcePath(m, x), !.sha = x]
  <2>2. 1 \in 1..Len(hist'[m])
    BY <2>1 DEF TypeOK
  <2>3. r.pc = "record" /\ r.op = "upload" /\ r.m = m /\ r.k = 1 /\ r.path = SourcePath(m, x) /\ r.sha = x
    BY DEF At
  <2>4. PICK q : q = r
    OBVIOUS
  <2>5. InStage(q)'
    <3> HIDE DEF r
    <3> QED BY <2>2, <2>3, <2>4 DEF InStage, Newest, SourcePath
  <2>6. job' = [job EXCEPT ![j] = q]
    BY <2>1, <2>4 DEF Set
  <2> QED BY <2>5, <2>6, StageReplaced
<1>4. CASE RecordUpload(j)
  <2>1. job[j].pc = "record" /\ Set(j, [job[j] EXCEPT !.pc = "identify"])
    BY <1>4 DEF RecordUpload, In
  <2>2. InStage([job[j] EXCEPT !.pc = "identify"])
    BY <1>2, <2>1 DEF InStage, Job
  <2> QED BY <2>1, <2>2, StageKept, StageReplaced DEF Set
<1>5. CASE IdentifyUpload(j)
  <2>1. job[j].pc = "identify" /\ Set(j, [job[j] EXCEPT !.pc = "original"])
    BY <1>5 DEF IdentifyUpload, In
  <2>2. InStage([job[j] EXCEPT !.pc = "original"])
    BY <1>2, <2>1 DEF InStage, Job
  <2> QED BY <2>1, <2>2, StageKept, StageReplaced DEF Set
<1>6. CASE HashUpload(j)
  BY <1>1, <1>6, StageKept, StageReplaced DEF HashUpload, Set
<1> QED BY <1>3, <1>4, <1>5, <1>6 DEF Send

LEMMA WorkingLocal ==
  ASSUME CacheAssumption, TypeOK, Working, HistKept, hist' \in [Messages -> Seq(Version)],
         NEW j \in Jobs, Local(j) \/ Quit(j)
  PROVE  Working'
<1>1. InStage(Idle)
  BY DEF InStage, Idle, At
<1>2. InStage(job[j]) /\ job[j] \in Job
  BY InHand DEF Working
<1>3. CASE ScanRow(j)
  <2>1. PICK m \in Messages :
          /\ row[m].path # NoPath
          /\ Set(j, [At("digest", "index", m, 0) EXCEPT !.path = row[m].path, !.id = row[m].id])
    BY <1>3 DEF ScanRow
  <2>2. row[m].path \in Path
    BY <2>1 DEF TypeOK, Columns
  <2>3. InStage([At("digest", "index", m, 0) EXCEPT !.path = row[m].path, !.id = row[m].id])
    BY <2>2 DEF InStage, At
  <2> QED BY <2>1, <2>3, StageKept, StageReplaced DEF Set
<1>4. CASE DigestFile(j)
  <2>1. PICK x : job[j].pc = "digest" /\ Set(j, [job[j] EXCEPT !.pc = "entry", !.sha = x])
    BY <1>4 DEF DigestFile, In
  <2>2. InStage([job[j] EXCEPT !.pc = "entry", !.sha = x])
    BY <1>2, <2>1 DEF InStage, Job
  <2> QED BY <2>1, <2>2, StageKept, StageReplaced DEF Set
<1>5. CASE DeleteRemote(j)
  <2>1. PICK m \in Messages : Set(j, At("mark", "delete", m, 0))
    BY <1>5 DEF DeleteRemote
  <2>2. InStage(At("mark", "delete", m, 0))
    BY DEF InStage, At
  <2> QED BY <2>1, <2>2, StageKept, StageReplaced DEF Set
<1>6. CASE IndexFile(j) \/ MarkDeleted(j) \/ Quit(j)
  BY <1>1, <1>6, StageKept, StageReplaced DEF IndexFile, MarkDeleted, Quit, Set
<1> QED BY <1>3, <1>4, <1>5, <1>6 DEF Local

LEMMA WorkingStep ==
  ASSUME CacheAssumption, TypeOK, Working, CacheNext
  PROVE  Working'
<1>1. HistKept /\ hist' \in [Messages -> Seq(Version)]
  BY HistStep
<1>2. CASE UNCHANGED job
  <2>1. ASSUME NEW i \in Jobs
        PROVE  InStage(job[i])'
    <3>1. PICK q : q = job[i]
      OBVIOUS
    <3>2. InStage(q)'
      BY <1>1, <3>1, StageKept DEF Working
    <3> QED BY <1>2, <3>1, <3>2
  <2> QED BY <2>1 DEF Working
<1>3. UNCHANGED job \/ \E j \in Jobs : History(j) \/ Download(j) \/ Send(j) \/ Local(j) \/ Quit(j)
  BY DEF CacheNext, Telegram, Post, Edit, Remove, HandleUpdate
<1> QED BY <1>1, <1>2, <1>3, WorkingHistory, WorkingDownload, WorkingSend, WorkingLocal

----------------------------------------------------------------------------
(* The identity beside an edited text.                                     *)

LEMMA EditedStep ==
  ASSUME CacheAssumption, TypeOK, Sourced, Working, EditedIdentity, CacheNext
  PROVE  EditedIdentity'
<1>1. hist' \in [Messages -> Seq(Version)] /\ HistKept
  BY HistStep
<1> DEFINE Good(m, c) == c.known /\ ~c.deleted /\ c.edit > 0 /\ c.id # None => c.id = hist'[m][c.ver].media
<1>2. ASSUME NEW m \in Messages
      PROVE  Good(m, row'[m])
  <2>1. /\ row[m] \in Columns /\ row[m].ver \in Nat /\ row[m].edit \in Nat
        /\ row[m].ver <= Len(hist[m]) /\ (row[m].edit > 0 => row[m].ver > 0)
        /\ row[m].known \/ row[m] = NoRow
    BY DEF TypeOK, Sourced, Columns, Newest
  <2>2. \A k \in 1..Newest(m) : hist'[m][k].media = MediaOf(m, k)
    BY <1>1 DEF HistKept, Newest, MediaOf
  <2>3. Good(m, row[m])
    <3>1. Len(hist[m]) \in Nat
      BY LengthTyped
    <3>2. row[m].edit > 0 => row[m].ver \in 1..Newest(m)
      BY <2>1, <3>1 DEF Newest
    <3> QED BY <2>2, <3>2 DEF EditedIdentity, Active
  <2>4. CASE row'[m] = row[m]
    BY <2>3, <2>4
  <2>5. CASE row'[m] = Tombstoned(row[m])
    <3>1. row'[m].deleted
      BY <2>1, <2>5 DEF Tombstoned, Columns
    <3> QED BY <3>1
  <2>6. ASSUME NEW k \in 1..Newest(m), NEW p \in Path \cup {NoPath}, NEW x \in {None, MediaOf(m, k)},
               \/ row'[m] = Upserted(row[m], Described(m, k, p, x))
               \/ \E o \in Outcomes : row'[m] = Backfilled(row[m], Described(m, k, p, x), o)
        PROVE  Good(m, row'[m])
    <3>1. x \in Media \cup {None}
      BY VersionTyped
    <3>2. row'[m] = row[m] \/ (row'[m].ver = k /\ row'[m].id \in {None, x})
      BY <2>6, <3>1, Refreshed
    <3> QED BY <2>2, <2>4, <3>2
  <2>7. ASSUME NEW k \in 1..Newest(m), row'[m] = Upserted(row[m], Described(m, k, NoPath, MediaOf(m, k)))
        PROVE  Good(m, row'[m])
    BY <2>6, <2>7
  <2>8. ASSUME NEW j \in Jobs, job[j].m = m, JobRowStep(m, job[j])
        PROVE  Good(m, row'[m])
    <3> DEFINE r == job[j]
    <3>1. /\ r.k \in Nat /\ r.path \in Path \cup {NoPath} /\ r.id \in Media \cup {None}
          /\ r.sha \in Media \cup {None} /\ r.outcome \in Outcomes
      BY InHand
    <3>2. r.pc = "store" /\ r.op # "download" => r.k \in 1..Newest(m) /\ r.id \in {None, MediaOf(m, r.k)}
      BY <2>8 DEF Working, InStage, HistoryRead
    <3> HIDE DEF r
    <3>3. CASE /\ r.pc = "store" /\ r.op # "download"
               /\ \/ row'[m] = Upserted(row[m], Described(m, r.k, r.path, r.id))
                  \/ row'[m] = Backfilled(row[m], Described(m, r.k, r.path, r.id), r.outcome)
      <4> HIDE DEF Good
      <4> QED BY <2>6, <3>1, <3>2, <3>3
    <3>4. CASE row'[m] = MediaPathStored(row[m], r.k, r.path)
      <4>1. row'[m].id = None
        BY <2>1, <3>4 DEF MediaPathStored, Bare, WithMedia, Columns
      <4> QED BY <4>1
    <3>5. CASE /\ Acceptable(row[m], r.id, r.sha)
               /\ row'[m] = IF ~row[m].known THEN Bare(r.k, r.path, r.sha)
                                             ELSE WithMedia(row[m], r.k, r.path, r.sha)
      <4>1. CASE ~row[m].known
        <5>1. row'[m].edit = 0
          BY <3>5, <4>1 DEF Bare
        <5> QED BY <5>1
      <4>2. CASE row[m].known
        <5>1. /\ row'[m].known = row[m].known /\ row'[m].deleted = row[m].deleted
              /\ row'[m].edit = row[m].edit /\ row'[m].ver = row[m].ver /\ row'[m].id = r.sha
          BY <2>1, <3>5, <4>2, ZenonT(30) DEF WithMedia, Columns
        <5>2. row[m].id = r.sha \/ row[m].edit = 0
          BY <3>5, <4>2 DEF Acceptable
        <5> QED BY <2>3, <5>1, <5>2
      <4> QED BY <4>1, <4>2
    <3>6. CASE \E date \in {0, 1} : row'[m] = UploadRecorded(row[m], date, r.path)
      <4>1. row'[m].id = None
        BY <3>6 DEF UploadRecorded
      <4> QED BY <4>1
    <3>7. CASE Unidentified(row[m], r.path) /\ row'[m] = [row[m] EXCEPT !.id = r.sha]
      <4>1. row'[m].edit = 0
        BY <2>1, <3>7 DEF Unidentified, Columns
      <4> QED BY <4>1
    <3> HIDE DEF Good
    <3> QED BY <2>8, <3>3, <3>4, <3>5, <3>6, <3>7 DEF JobRowStep, r
  <2>9. RowStep(m)
    BY RowSteps
  <2> HIDE DEF Good
  <2> QED BY <2>4, <2>5, <2>7, <2>8, <2>9 DEF RowStep
<1> QED BY <1>2 DEF EditedIdentity, Active, MediaOf

LEMMA InitInv ==
  ASSUME CacheAssumption, CacheInit
  PROVE  CacheInv
<1>1. TypeOK
  <2>1. NoRow \in Columns /\ NoEntry \in Entry /\ Idle \in Job
    BY JobsTyped DEF NoRow, Columns, NoEntry, Entry
  <2>2. <<>> \in Seq(Version) /\ <<>> \in Seq(Messages \X Nat)
    OBVIOUS
  <2> QED BY <2>1, <2>2 DEF CacheInit, TypeOK
<1>2. Sourced
  <2>1. Len(<<>>) = 0 /\ 1..0 = {}
    OBVIOUS
  <2> QED BY <2>1 DEF CacheInit, Sourced, NoRow, Newest
<1>3. Working
  BY DEF CacheInit, Working, InStage, Idle, At
<1>4. EditedIdentity
  BY DEF CacheInit, EditedIdentity, Active, NoRow
<1> QED BY <1>1, <1>2, <1>3, <1>4 DEF CacheInv

LEMMA InvStep ==
  ASSUME CacheAssumption, CacheInv, [CacheNext]_vars
  PROVE  CacheInv'
<1>1. CASE CacheNext
  BY <1>1, TypeStep, SourcedStep, WorkingStep, EditedStep DEF CacheInv
<1>2. CASE UNCHANGED vars
  <2>1. TypeOK' /\ Sourced'
    BY <1>2 DEF CacheInv, TypeOK, Sourced, Newest, vars
  <2>2. Working'
    BY <1>2 DEF CacheInv, Working, InStage, HistoryRead, MediaOf, NamedPath, SourcePath, Newest, vars
  <2>3. EditedIdentity'
    BY <1>2 DEF CacheInv, EditedIdentity, Active, MediaOf, vars
  <2> QED BY <2>1, <2>2, <2>3 DEF CacheInv
<1> QED BY <1>1, <1>2

\* What the six commands, the updates and Telegram leave is always a cache of
\* the types of its columns, in which every row stems from a version that
\* Telegram has.
THEOREM CacheTyping == CacheSpec => []TypeOK
<1>1. CacheInit => CacheInv
  BY CacheAssumption, InitInv
<1>2. CacheInv /\ [CacheNext]_vars => CacheInv'
  BY CacheAssumption, InvStep
<1>3. CacheInv => TypeOK
  BY DEF CacheInv
<1> QED BY <1>1, <1>2, <1>3, PTL DEF CacheSpec

\* A cached edit never stands beside the identity of the medium it replaced,
\* whatever downloads, uploads and history pages were under way
\* (store/download_identity.go).
THEOREM EditsKeepIdentity == CacheSpec => []EditedIdentity
<1>1. CacheInit => CacheInv
  BY CacheAssumption, InitInv
<1>2. CacheInv /\ [CacheNext]_vars => CacheInv'
  BY CacheAssumption, InvStep
<1>3. CacheInv => EditedIdentity
  BY DEF CacheInv
<1> QED BY <1>1, <1>2, <1>3, PTL DEF CacheSpec

----------------------------------------------------------------------------
(* The order of edits and deletions, without uploads.                      *)

NoUploads == \A j \in Jobs : job[j].op # "upload"

LEMMA UploadsAbsent ==
  ASSUME CacheAssumption, TypeOK, "upload" \notin Ops, NoUploads, CacheNext
  PROVE  NoUploads'
<1> SUFFICES ASSUME NEW i \in Jobs
             PROVE  job'[i].op # "upload"
  BY DEF NoUploads
<1>1. ASSUME NEW j \in Jobs, NEW r, Set(j, r), r.op # "upload"
      PROVE  job'[i].op # "upload"
  BY <1>1 DEF NoUploads, TypeOK, Set
<1>2. CASE UNCHANGED job
  BY <1>2 DEF NoUploads
<1>3. Idle.op # "upload"
  BY DEF Idle, At
<1>4. ASSUME NEW j \in Jobs
      PROVE  \A pc, id : /\ [job[j] EXCEPT !.pc = pc].op # "upload"
                         /\ [job[j] EXCEPT !.pc = pc, !.id = id].op # "upload"
                         /\ [job[j] EXCEPT !.pc = pc, !.sha = id].op # "upload"
  <2>1. job[j] \in Job /\ job[j].op # "upload"
    BY InHand DEF NoUploads
  <2> QED BY <2>1 DEF Job
<1>5. ASSUME NEW j \in Jobs, NEW op \in {"backfill", "sync"}, NEW allowed, FetchHistory(j, op, allowed)
      PROVE  job'[i].op # "upload"
  <2>1. PICK m \in Messages :
          LET k == Newest(m)
              x == MediaOf(m, k)
              p == UniquePath(m, x)
              r == At("store", op, m, k) IN
            \/ Set(j, [r EXCEPT !.outcome = "none"])
            \/ Set(j, [r EXCEPT !.outcome = "failed", !.id = x])
            \/ Set(j, [r EXCEPT !.outcome = "skipped", !.id = x, !.path = p])
            \/ Set(j, [r EXCEPT !.outcome = "downloaded", !.id = x, !.path = p])
    BY <1>5 DEF FetchHistory
  <2> DEFINE k == Newest(m)
             x == MediaOf(m, k)
             p == UniquePath(m, x)
             r == At("store", op, m, k)
  <2>2. /\ [r EXCEPT !.outcome = "none"].op # "upload"
        /\ [r EXCEPT !.outcome = "failed", !.id = x].op # "upload"
        /\ [r EXCEPT !.outcome = "skipped", !.id = x, !.path = p].op # "upload"
        /\ [r EXCEPT !.outcome = "downloaded", !.id = x, !.path = p].op # "upload"
    BY DEF At
  <2> HIDE DEF k, x, p, r
  <2> QED BY <1>1, <2>1, <2>2 DEF k, x, p, r
<1>6. ASSUME NEW j \in Jobs, StoreBackfill(j) \/ StoreSync(j)
      PROVE  job'[i].op # "upload"
  <2>1. Set(j, [job[j] EXCEPT !.pc = "hash"]) \/ Set(j, Idle)
    BY <1>6 DEF StoreBackfill, StoreSync
  <2> QED BY <1>1, <1>3, <1>4, <2>1
<1>7. ASSUME NEW j \in Jobs, LookUp(j) \/ ScanRow(j)
      PROVE  job'[i].op # "upload"
  <2>1. PICK m \in Messages : \/ \E x : Set(j, [At("fetch", "download", m, 0) EXCEPT !.id = x])
                              \/ Set(j, [At("digest", "index", m, 0) EXCEPT !.path = row[m].path, !.id = row[m].id])
    BY <1>7 DEF LookUp, ScanRow
  <2>2. /\ \A x : [At("fetch", "download", m, 0) EXCEPT !.id = x].op # "upload"
        /\ [At("digest", "index", m, 0) EXCEPT !.path = row[m].path, !.id = row[m].id].op # "upload"
    BY DEF At
  <2> QED BY <1>1, <2>1, <2>2
<1>8. ASSUME NEW j \in Jobs, FetchMedia(j)
      PROVE  job'[i].op # "upload"
  <2> DEFINE m == job[j].m
             k == Newest(m)
             x == MediaOf(m, k)
             p == NamedPath(x)
             r == [job[j] EXCEPT !.pc = "store", !.k = k, !.path = p, !.sha = x]
  <2>1. Set(j, [r EXCEPT !.outcome = "skipped"]) \/ Set(j, [r EXCEPT !.outcome = "downloaded"])
    BY <1>8 DEF FetchMedia
  <2>2. [r EXCEPT !.outcome = "skipped"].op # "upload" /\ [r EXCEPT !.outcome = "downloaded"].op # "upload"
    <3>1. job[j] \in Job /\ job[j].op # "upload"
      BY InHand DEF NoUploads
    <3> HIDE DEF k, x, p, m
    <3> QED BY <3>1 DEF Job
  <2> HIDE DEF r
  <2> QED BY <1>1, <2>1, <2>2
<1>9. ASSUME NEW j \in Jobs, StoreSkipped(j) \/ StoreVerified(j) \/ HashDownloaded(j)
      PROVE  job'[i].op # "upload"
  <2>1. Set(j, [job[j] EXCEPT !.pc = "hash", !.id = job[j].sha]) \/ Set(j, Idle)
    BY <1>9 DEF StoreSkipped, StoreVerified, HashDownloaded
  <2> QED BY <1>1, <1>3, <1>4, <2>1
<1>10. ASSUME NEW j \in Jobs, Send(j)
       PROVE  job'[i].op # "upload"
  <2>1. \/ Set(j, [job[j] EXCEPT !.pc = "identify"])
        \/ Set(j, [job[j] EXCEPT !.pc = "original"])
        \/ Set(j, Idle)
    BY <1>10 DEF Send, Upload, Free, RecordUpload, IdentifyUpload, HashUpload
  <2> QED BY <1>1, <1>3, <1>4, <2>1
<1>11. ASSUME NEW j \in Jobs, DigestFile(j)
       PROVE  job'[i].op # "upload"
  <2>1. Set(j, [job[j] EXCEPT !.pc = "entry", !.sha = files[job[j].path]])
    BY <1>11 DEF DigestFile
  <2> QED BY <1>1, <1>4, <2>1
<1>12. ASSUME NEW j \in Jobs, IndexFile(j) \/ DeleteRemote(j) \/ MarkDeleted(j) \/ Quit(j)
       PROVE  job'[i].op # "upload"
  <2>1. PICK r : Set(j, r) /\ (r = Idle \/ \E m \in Messages : r = At("mark", "delete", m, 0))
    BY <1>12 DEF IndexFile, DeleteRemote, MarkDeleted, Quit
  <2>2. r.op # "upload"
    BY <1>3, <2>1 DEF At
  <2> QED BY <1>1, <2>1, <2>2
<1>13. UNCHANGED job \/ \E j \in Jobs : History(j) \/ Download(j) \/ Send(j) \/ Local(j) \/ Quit(j)
  BY DEF CacheNext, Telegram, Post, Edit, Remove, HandleUpdate
<1> QED BY <1>2, <1>5, <1>6, <1>7, <1>8, <1>9, <1>10, <1>11, <1>12, <1>13
        DEF History, Download, Local, FetchBackfill, FetchSync

\* A step keeps the text of a row, or refreshes it with a version that is not
\* older and not over a tombstone.
LEMMA TextStep ==
  ASSUME CacheAssumption, CacheInv, NoUploads, CacheNext, NEW m \in Messages
  PROVE  \/ /\ row'[m].ver = row[m].ver /\ row'[m].edit = row[m].edit
            /\ row[m].deleted => row'[m].deleted
         \/ \E k \in 1..Newest(m) :
              /\ row'[m].ver = k /\ row'[m].edit = hist[m][k].edit
              /\ ~row[m].deleted
              /\ ~row[m].known \/ hist[m][k].edit >= row[m].edit
<1> DEFINE Kept == /\ row'[m].ver = row[m].ver /\ row'[m].edit = row[m].edit
                   /\ row[m].deleted => row'[m].deleted
           Fresh(k) == /\ row'[m].ver = k /\ row'[m].edit = hist[m][k].edit
                       /\ ~row[m].deleted
                       /\ ~row[m].known \/ hist[m][k].edit >= row[m].edit
<1>1. row[m] \in Columns /\ (row[m].known \/ row[m] = NoRow)
  BY DEF CacheInv, TypeOK, Sourced
<1>2. ASSUME NEW k \in 1..Newest(m), NEW p \in Path \cup {NoPath}, NEW x \in Media \cup {None},
             \/ row'[m] = Upserted(row[m], Described(m, k, p, x))
             \/ \E o \in Outcomes : row'[m] = Backfilled(row[m], Described(m, k, p, x), o)
      PROVE  Kept \/ Fresh(k)
  BY <1>2, Refreshed DEF CacheInv
<1>3. row'[m] = row[m] => Kept
  OBVIOUS
<1>4. row'[m] = Tombstoned(row[m]) => Kept
  BY <1>1 DEF Tombstoned, Columns
<1>5. ASSUME NEW k \in 1..Newest(m), row'[m] = Upserted(row[m], Described(m, k, NoPath, MediaOf(m, k)))
      PROVE  Kept \/ Fresh(k)
  BY <1>2, <1>5, VersionTyped DEF CacheInv
<1>6. ASSUME NEW j \in Jobs, job[j].m = m, JobRowStep(m, job[j])
      PROVE  Kept \/ \E k \in 1..Newest(m) : Fresh(k)
  <2> DEFINE r == job[j]
  <2>1. /\ r.k \in Nat /\ r.path \in Path \cup {NoPath} /\ r.id \in Media \cup {None}
        /\ r.outcome \in Outcomes
    BY InHand DEF CacheInv
  <2>2. /\ r.pc = "store" => r.k \in 1..Newest(m)
        /\ r.pc \notin {"record", "identify"}
    BY <1>6 DEF CacheInv, Working, InStage, NoUploads
  <2> HIDE DEF r
  <2>3. CASE /\ r.pc = "store" /\ r.op # "download"
             /\ \/ row'[m] = Upserted(row[m], Described(m, r.k, r.path, r.id))
                \/ row'[m] = Backfilled(row[m], Described(m, r.k, r.path, r.id), r.outcome)
    <3> HIDE DEF Kept, Fresh
    <3> QED BY <1>2, <2>1, <2>2, <2>3
  <2>4. CASE row'[m] = MediaPathStored(row[m], r.k, r.path)
    BY <1>1, <2>4 DEF MediaPathStored, Bare, WithMedia, NoRow, Columns
  <2>5. CASE row'[m] = IF ~row[m].known THEN Bare(r.k, r.path, r.sha)
                                        ELSE WithMedia(row[m], r.k, r.path, r.sha)
    BY <1>1, <2>5 DEF Bare, WithMedia, NoRow, Columns
  <2> HIDE DEF Kept, Fresh
  <2> QED BY <1>6, <2>2, <2>3, <2>4, <2>5 DEF JobRowStep, r
<1>7. RowStep(m)
  BY RowSteps DEF CacheInv
<1> HIDE DEF Kept, Fresh
<1>8. Kept \/ \E k \in 1..Newest(m) : Fresh(k)
  BY <1>3, <1>4, <1>5, <1>6, <1>7 DEF RowStep
<1> QED BY <1>8 DEF Kept, Fresh

\* A tombstone is final: whatever pages, downloads and updates were read before
\* the deletion, none of them brings the message back or changes its text
\* (store/messages.go, store/download_identity.go).  Uploads are left out: the
\* code records them without looking at the row.
THEOREM FinalTombstones ==
  ASSUME "upload" \notin Ops
  PROVE  CacheSpec => TombstonesStay
<1>1. CacheInit => CacheInv /\ NoUploads
  BY CacheAssumption, InitInv DEF CacheInit, NoUploads, Idle, At
<1>2. CacheInv /\ NoUploads /\ [CacheNext]_vars => CacheInv' /\ NoUploads'
  <2>1. CacheInv /\ [CacheNext]_vars => CacheInv'
    BY CacheAssumption, InvStep
  <2>2. CacheInv /\ NoUploads /\ CacheNext => NoUploads'
    BY CacheAssumption, UploadsAbsent DEF CacheInv
  <2>3. NoUploads /\ UNCHANGED vars => NoUploads'
    BY DEF NoUploads, vars
  <2> QED BY <2>1, <2>2, <2>3
<1>3. CacheInv /\ NoUploads /\ [CacheNext]_vars =>
        [\A m \in Messages : row[m].deleted => row'[m].deleted /\ row'[m].ver = row[m].ver]_vars
  <2> SUFFICES ASSUME CacheInv, NoUploads, CacheNext, NEW m \in Messages, row[m].deleted
               PROVE  row'[m].deleted /\ row'[m].ver = row[m].ver
    OBVIOUS
  <2> QED BY CacheAssumption, TextStep
<1> QED BY <1>1, <1>2, <1>3, PTL DEF CacheSpec, TombstonesStay

----------------------------------------------------------------------------
(* The order of edits.                                                     *)

LEMMA EditAppended ==
  ASSUME CacheAssumption, 0 \notin EditSeconds, TypeOK, EditsGrow, NEW m \in Messages, Edit(m)
  PROVE  EditsGrow'
<1>1. PICK x \in Media, s \in EditSeconds :
        hist' = [hist EXCEPT ![m] = Append(@, [edit |-> hist[m][Newest(m)].edit + s, media |-> x])]
  BY DEF Edit
<1> DEFINE n == Len(hist[m])
           v == [edit |-> hist[m][n].edit + s, media |-> x]
<1>2. v \in Version /\ v.edit = hist[m][n].edit + s
  BY EditedVersion DEF Edit, Newest
<1>3. hist[m] \in Seq(Version) /\ n \in Nat
  BY DEF TypeOK
<1>4. hist'[m] = Append(hist[m], v)
  BY <1>1 DEF TypeOK, Newest
<1>5. \A q \in Messages : q # m => hist'[q] = hist[q]
  BY <1>1 DEF TypeOK
<1>6. s \in Nat /\ s > 0
  BY DEF CacheAssumption
<1>7. \A i \in 1..n : hist[m][i].edit \in Nat
  BY VersionTyped DEF Newest
<1> HIDE DEF v
<1>8. /\ Len(hist'[m]) = n + 1
      /\ hist'[m][n + 1] = v
      /\ \A i \in 1..n : hist'[m][i] = hist[m][i]
  BY <1>2, <1>3, <1>4
<1> HIDE DEF n
<1>9. ASSUME NEW k \in 1..(n + 1), NEW i \in 1..(n + 1), i < k
      PROVE  hist'[m][i].edit < hist'[m][k].edit
  <2>1. i \in 1..n
    BY <1>3, <1>9
  <2>2. CASE k \in 1..n
    BY <1>8, <1>9, <2>1, <2>2 DEF EditsGrow, Newest, n
  <2>3. CASE k = n + 1
    <3>1. n \in 1..n /\ (i = n \/ i < n)
      BY <1>3, <2>1
    <3>2. i < n => hist[m][i].edit < hist[m][n].edit
      BY <2>1, <3>1 DEF EditsGrow, Newest, n
    <3>3. hist'[m][i] = hist[m][i] /\ hist'[m][k].edit = hist[m][n].edit + s
      BY <1>2, <1>8, <2>1, <2>3
    <3> QED BY <1>6, <1>7, <2>1, <3>1, <3>2, <3>3
  <2> QED BY <1>3, <2>2, <2>3
<1>10. ASSUME NEW q \in Messages, NEW k \in 1..Len(hist'[q]), NEW i \in 1..Len(hist'[q]), i < k
       PROVE  hist'[q][i].edit < hist'[q][k].edit
  <2>1. CASE q = m
    BY <1>8, <1>9, <1>10, <2>1
  <2>2. CASE q # m
    BY <1>5, <1>10, <2>2 DEF EditsGrow, Newest
  <2> QED BY <2>1, <2>2
<1> QED BY <1>10 DEF EditsGrow, Newest

LEMMA EditsGrowStep ==
  ASSUME CacheAssumption, 0 \notin EditSeconds, TypeOK, EditsGrow, CacheNext
  PROVE  EditsGrow'
<1>1. CASE UNCHANGED hist
  BY <1>1 DEF EditsGrow, Newest
<1>2. ASSUME NEW m \in Messages, NEW v, hist[m] = <<>>, hist' = [hist EXCEPT ![m] = <<v>>]
      PROVE  EditsGrow'
  <2>1. ASSUME NEW q \in Messages, NEW k \in 1..Len(hist'[q]), NEW i \in 1..Len(hist'[q]), i < k
        PROVE  hist'[q][i].edit < hist'[q][k].edit
    <3>1. CASE q = m
      <4>1. Len(hist'[q]) = 1
        BY <1>2, <3>1 DEF TypeOK
      <4> QED BY <2>1, <4>1
    <3>2. CASE q # m
      <4>1. hist'[q] = hist[q]
        BY <1>2, <3>2 DEF TypeOK
      <4> QED BY <2>1, <4>1 DEF EditsGrow, Newest
    <3> QED BY <3>1, <3>2
  <2> QED BY <2>1 DEF EditsGrow, Newest
<1>3. ASSUME NEW m \in Messages, Post(m)
      PROVE  EditsGrow'
  BY <1>2, <1>3 DEF Post
<1>4. ASSUME NEW j \in Jobs, Upload(j)
      PROVE  EditsGrow'
  BY <1>2, <1>4 DEF Upload
<1>5. \/ UNCHANGED hist
      \/ \E m \in Messages : Post(m) \/ Edit(m)
      \/ \E j \in Jobs : Upload(j)
  BY ZenonT(30) DEF CacheNext, Telegram, Remove, HandleUpdate, History, Download, Send, Local, Quit,
         FetchBackfill, FetchSync, FetchHistory, StoreBackfill, StoreSync, LookUp, FetchMedia,
         StoreSkipped, StoreVerified, HashDownloaded, RecordUpload, IdentifyUpload, HashUpload,
         ScanRow, DigestFile, IndexFile, DeleteRemote, MarkDeleted
<1> QED BY <1>1, <1>3, <1>4, <1>5, EditAppended

\* The date of a row's edit is that of the version its text comes from.
LEMMA RowEditsStep ==
  ASSUME CacheAssumption, CacheInv, NoUploads, RowEdits, CacheNext
  PROVE  RowEdits'
<1> SUFFICES ASSUME NEW m \in Messages
             PROVE  row'[m].edit = IF row'[m].ver = 0 THEN 0 ELSE hist'[m][row'[m].ver].edit
  BY DEF RowEdits
<1>1. \A k \in 1..Newest(m) : hist'[m][k] = hist[m][k] /\ k # 0
  BY HistStep DEF CacheInv, HistKept, Newest
<1>2. row[m].ver # 0 => row[m].ver \in 1..Newest(m)
  <2>1. row[m].ver \in Nat /\ row[m].ver <= Newest(m) /\ Newest(m) \in Nat
    BY DEF CacheInv, TypeOK, Sourced, Columns, Newest
  <2> QED BY <2>1
<1>3. row[m].edit = IF row[m].ver = 0 THEN 0 ELSE hist[m][row[m].ver].edit
  BY DEF RowEdits
<1>4. CASE row'[m].ver = row[m].ver /\ row'[m].edit = row[m].edit
  BY <1>1, <1>2, <1>3, <1>4
<1>5. CASE \E k \in 1..Newest(m) : row'[m].ver = k /\ row'[m].edit = hist[m][k].edit
  BY <1>1, <1>5
<1> QED BY <1>4, <1>5, TextStep

LEMMA NoOlderText ==
  ASSUME CacheAssumption, CacheInv, NoUploads, EditsGrow, RowEdits, CacheNext, NEW m \in Messages
  PROVE  row'[m].ver >= row[m].ver
<1>1. row[m].ver \in Nat /\ row[m].ver <= Newest(m) /\ Newest(m) \in Nat
  BY DEF CacheInv, TypeOK, Sourced, Columns, Newest
<1>2. ASSUME NEW k \in 1..Newest(m), row'[m].ver = k,
             ~row[m].known \/ hist[m][k].edit >= row[m].edit
      PROVE  row'[m].ver >= row[m].ver
  <2>1. CASE row[m].ver = 0
    BY <1>2, <2>1
  <2>2. CASE row[m].ver # 0
    <3>1. row[m].ver \in 1..Newest(m)
      BY <1>1, <2>2
    <3>2. row[m].known
      BY <2>2 DEF CacheInv, Sourced, NoRow
    <3>3. row[m].edit = hist[m][row[m].ver].edit
      BY <2>2 DEF RowEdits
    <3>4. hist[m][k].edit \in Nat /\ hist[m][row[m].ver].edit \in Nat
      BY <3>1, VersionTyped DEF CacheInv
    <3>5. k < row[m].ver => hist[m][k].edit < hist[m][row[m].ver].edit
      BY <3>1 DEF EditsGrow
    <3> QED BY <1>1, <1>2, <3>2, <3>3, <3>4, <3>5
  <2> QED BY <2>1, <2>2
<1>3. row'[m].ver = row[m].ver => row'[m].ver >= row[m].ver
  BY <1>1
<1> QED BY <1>2, <1>3, TextStep

\* "Newer edits win over older history" (docs/reliability.md): however late an
\* update, a page or a download is stored, the cached text is never replaced by
\* that of an earlier version, provided that no two edits of a message share a
\* second, which is what the code can tell apart.
THEOREM EditsWin ==
  ASSUME "upload" \notin Ops, 0 \notin EditSeconds
  PROVE  CacheSpec => NewerEditsWin
<1> DEFINE Inv == CacheInv /\ NoUploads /\ EditsGrow /\ RowEdits
<1>1. CacheInit => Inv
  <2> SUFFICES ASSUME CacheInit
               PROVE  Inv
    OBVIOUS
  <2>1. CacheInv
    BY CacheAssumption, InitInv
  <2>2. NoUploads
    BY DEF CacheInit, NoUploads, Idle, At
  <2>3. EditsGrow
    <3>1. Len(<<>>) = 0 /\ 1..0 = {}
      OBVIOUS
    <3> QED BY <3>1 DEF CacheInit, EditsGrow, Newest
  <2>4. RowEdits
    BY DEF CacheInit, RowEdits, NoRow
  <2> QED BY <2>1, <2>2, <2>3, <2>4
<1>2. Inv /\ [CacheNext]_vars => Inv'
  <2>1. CacheInv /\ [CacheNext]_vars => CacheInv'
    BY CacheAssumption, InvStep
  <2>2. CacheInv /\ NoUploads /\ CacheNext => NoUploads'
    BY CacheAssumption, UploadsAbsent DEF CacheInv
  <2>3. Inv /\ CacheNext => EditsGrow' /\ RowEdits'
    BY CacheAssumption, EditsGrowStep, RowEditsStep DEF CacheInv
  <2>4. Inv /\ UNCHANGED vars => NoUploads' /\ EditsGrow' /\ RowEdits'
    BY DEF NoUploads, EditsGrow, RowEdits, Newest, vars
  <2> QED BY <2>1, <2>2, <2>3, <2>4
<1>3. Inv /\ [CacheNext]_vars => [\A m \in Messages : row'[m].ver >= row[m].ver]_vars
  BY CacheAssumption, NoOlderText
<1> QED BY <1>1, <1>2, <1>3, PTL DEF CacheSpec, NewerEditsWin

----------------------------------------------------------------------------
(* The file beside an identity, when no two media share a file name.       *)

OwnFileNames == \A x \in Media, y \in Media : FileName[x] = FileName[y] => x = y

FilesKept == \A p \in Path : files[p] # None => files'[p] = files[p]

\* A file is written again only with the content it has.
LEMMA FileWritten ==
  ASSUME CacheAssumption, TypeOK, FilesByName, OwnFileNames, NEW p \in Path, NEW x \in Media,
         p.name = IF p.dir = "named" THEN FileName[x] ELSE x,
         files' = [files EXCEPT ![p] = x]
  PROVE  FilesByName' /\ FilesKept /\ files'[p] = x
<1>1. \A q \in Path : files'[q] = IF q = p THEN x ELSE files[q]
  BY DEF TypeOK
<1>2. \A q \in Path : files[q] # None => files[q] \in Media
  BY DEF TypeOK
<1>3. files[p] # None => files[p] = x
  BY <1>2 DEF FilesByName, OwnFileNames
<1> QED BY <1>1, <1>3 DEF FilesByName, FilesKept

LEMMA NamesOfPaths ==
  ASSUME CacheAssumption, NEW m \in Messages, NEW x \in Media
  PROVE  /\ UniquePath(m, x).name = IF UniquePath(m, x).dir = "named" THEN FileName[x] ELSE x
         /\ NamedPath(x).name = IF NamedPath(x).dir = "named" THEN FileName[x] ELSE x
         /\ SourcePath(m, x).name = IF SourcePath(m, x).dir = "named" THEN FileName[x] ELSE x
BY DEF UniquePath, NamedPath, SourcePath

\* What was believed of a file stays true.
LEMMA ContentKept ==
  ASSUME FilesKept, NEW path, NEW id, Content(path, id)
  PROVE  Content(path, id)'
BY DEF Content, FilesKept

LEMMA HeldKept ==
  ASSUME FilesKept, NEW r, Held(r)
  PROVE  Held(r)'
BY ContentKept DEF Held

LEMMA HeldReplaced ==
  ASSUME TypeOK, FilesTrue, FilesKept, NEW j \in Jobs, NEW r, Set(j, r), Held(r)'
  PROVE  \A i \in Jobs : Held(job[i])'
<1>1. ASSUME NEW i \in Jobs
      PROVE  Held(job[i])'
  <2>1. PICK q : q = job'[i]
    OBVIOUS
  <2>2. q = r \/ q = job[i]
    BY <2>1 DEF TypeOK, Set
  <2>3. Held(q)'
    BY <2>2, HeldKept DEF FilesTrue
  <2> QED BY <2>1, <2>3
<1> QED BY <1>1

\* A command that is past its store holds nothing that the row does not.
LEMMA HeldPast ==
  ASSUME TypeOK, FilesTrue, FilesKept, NEW j \in Jobs, NEW r, Set(j, r),
         r.pc \notin {"store", "record", "identify"}
  PROVE  \A i \in Jobs : Held(job[i])'
<1>1. Held(r)'
  BY DEF Held
<1> QED BY <1>1, HeldReplaced

LEMMA HistoryFiles ==
  ASSUME CacheAssumption, TypeOK, FilesByName, FilesTrue, OwnFileNames,
         NEW j \in Jobs, NEW op \in {"backfill", "sync"}, NEW allowed, FetchHistory(j, op, allowed)
  PROVE  FilesByName' /\ FilesKept /\ \A i \in Jobs : Held(job[i])'
<1>1. PICK m \in Messages :
        /\ Visible(m)
        /\ LET k == Newest(m)
               x == MediaOf(m, k)
               p == UniquePath(m, x)
               r == At("store", op, m, k) IN
             \/ /\ Set(j, [r EXCEPT !.outcome = "none"])
                /\ files' = files
             \/ /\ x # None
                /\ Set(j, [r EXCEPT !.outcome = "failed", !.id = x])
                /\ files' \in {files, [files EXCEPT ![p] = x]}
             \/ /\ x # None /\ files[p] # None
                /\ Set(j, [r EXCEPT !.outcome = "skipped", !.id = x, !.path = p])
                /\ files' = files
             \/ /\ x # None
                /\ Set(j, [r EXCEPT !.outcome = "downloaded", !.id = x, !.path = p])
                /\ files' = [files EXCEPT ![p] = x]
  BY DEF FetchHistory
<1> DEFINE k == Newest(m)
           x == MediaOf(m, k)
           p == UniquePath(m, x)
           r == At("store", op, m, k)
<1>2. x # None => /\ x \in Media /\ p \in Path
                  /\ p.name = (IF p.dir = "named" THEN FileName[x] ELSE x)
                  /\ p.dir # "named"
  <2>1. x \in Media \cup {None}
    BY <1>1, VisibleNewest
  <2>2. p.dir # "named"
    BY DEF UniquePath
  <2> QED BY <2>1, <2>2, PathsTyped, NamesOfPaths
<1>3. PICK q : /\ Set(j, q)
               /\ q.pc = "store" /\ q.op # "download"
               /\ \/ (q.path = NoPath \/ q.id = None) /\ files' = files
                  \/ q.path = NoPath /\ x # None /\ files' = [files EXCEPT ![p] = x]
                  \/ q.path = p /\ q.id = x /\ x # None /\ files[p] # None /\ files' = files
                  \/ q.path = p /\ q.id = x /\ x # None /\ files' = [files EXCEPT ![p] = x]
  <2> HIDE DEF k, x, p
  <2>1. /\ r.pc = "store" /\ r.op # "download" /\ r.path = NoPath /\ r.id = None
        /\ [r EXCEPT !.outcome = "none"].pc = "store" /\ [r EXCEPT !.outcome = "none"].op # "download"
        /\ [r EXCEPT !.outcome = "none"].path = NoPath
    BY DEF At
  <2>2. PICK q1 : q1 = [r EXCEPT !.outcome = "failed", !.id = x]
    OBVIOUS
  <2>3. q1.pc = "store" /\ q1.op # "download" /\ q1.path = NoPath
    BY <2>2 DEF At
  <2>4. ASSUME NEW o \in {"skipped", "downloaded"}
        PROVE  LET q2 == [r EXCEPT !.outcome = o, !.id = x, !.path = p] IN
                 q2.pc = "store" /\ q2.op # "download" /\ q2.path = p /\ q2.id = x
    BY DEF At
  <2> HIDE DEF r
  <2> QED BY <1>1, <2>1, <2>2, <2>3, <2>4 DEF k, x, p, r
<1> HIDE DEF k, x, p, r
<1>4. CASE files' = files
  <2>1. FilesByName' /\ FilesKept
    BY <1>4 DEF FilesByName, FilesKept
  <2>2. files[p] # None /\ x # None => files[p] = x
    BY <1>2 DEF FilesByName
  <2>3. ASSUME q.path # NoPath, q.id # None
        PROVE  q.path \in Path /\ files'[q.path] = q.id
    <3>1. q.path = p /\ q.id = x /\ x # None /\ (files[p] # None \/ files' = [files EXCEPT ![p] = x])
      BY <1>3, <2>3
    <3>2. [files EXCEPT ![p] = x][p] = x
      BY <1>2, <3>1 DEF TypeOK
    <3> QED BY <1>2, <1>4, <2>2, <3>1, <3>2
  <2>4. Held(q)'
    BY <1>3, <2>3 DEF Held, Content
  <2> QED BY <1>3, <2>1, <2>4, HeldReplaced
<1>5. CASE x # None /\ files' = [files EXCEPT ![p] = x]
  <2>1. FilesByName' /\ FilesKept /\ files'[p] = x
    BY <1>2, <1>5, FileWritten
  <2>2. ASSUME q.path # NoPath, q.id # None
        PROVE  q.path \in Path /\ files'[q.path] = q.id
    <3>1. CASE q.path = p /\ q.id = x
      BY <1>2, <1>5, <2>1, <3>1
    <3>2. CASE q.path # p \/ q.id # x
      BY <1>3, <2>2, <3>2
    <3> QED BY <3>1, <3>2
  <2>3. Held(q)'
    BY <1>3, <2>2 DEF Held, Content
  <2> QED BY <1>3, <2>1, <2>3, HeldReplaced
<1> QED BY <1>3, <1>4, <1>5

LEMMA DownloadFiles ==
  ASSUME CacheAssumption, TypeOK, Working, FilesByName, FilesTrue, OwnFileNames,
         NEW j \in Jobs, FetchMedia(j)
  PROVE  FilesByName' /\ FilesKept /\ \A i \in Jobs : Held(job[i])'
<1> DEFINE m == job[j].m
           k == Newest(m)
           x == MediaOf(m, k)
           p == NamedPath(x)
           r == [job[j] EXCEPT !.pc = "store", !.k = k, !.path = p, !.sha = x]
<1>1. m \in Messages /\ Visible(m) /\ x # None /\ job[j].op = "download"
  BY DEF FetchMedia, Working, InStage, In
<1>2. x \in Media /\ p \in Path /\ p.name = (IF p.dir = "named" THEN FileName[x] ELSE x)
  BY <1>1, VisibleNewest, PathsTyped, NamesOfPaths
<1>3. \/ Set(j, [r EXCEPT !.outcome = "skipped"]) /\ files' = files
      \/ Set(j, [r EXCEPT !.outcome = "downloaded"]) /\ files' = [files EXCEPT ![p] = x]
  BY DEF FetchMedia
<1>4. ASSUME NEW o \in Outcomes
      PROVE  LET q == [r EXCEPT !.outcome = o] IN
               q.pc = "store" /\ q.op = "download" /\ q.outcome = o /\ q.path = p /\ q.sha = x
  <2> HIDE DEF m, k, x, p
  <2>1. job[j] \in Job
    BY InHand
  <2>2. r.pc = "store" /\ r.op = "download" /\ r.path = p /\ r.sha = x /\ r.outcome = job[j].outcome
        /\ [r EXCEPT !.outcome = o].outcome = o
    BY <1>1, <2>1 DEF Job
  <2> HIDE DEF r
  <2> QED BY <2>2
<1> HIDE DEF m, k, x, p, r
<1>5. CASE Set(j, [r EXCEPT !.outcome = "skipped"]) /\ files' = files
  <2>1. PICK q : q = [r EXCEPT !.outcome = "skipped"]
    OBVIOUS
  <2>2. q.pc = "store" /\ q.op = "download" /\ q.outcome = "skipped"
    BY <1>4, <2>1, Constants
  <2>3. Held(q)'
    BY <2>2 DEF Held
  <2>4. FilesByName' /\ FilesKept
    BY <1>5 DEF FilesByName, FilesKept
  <2> QED BY <1>5, <2>1, <2>3, <2>4, HeldReplaced
<1>6. CASE Set(j, [r EXCEPT !.outcome = "downloaded"]) /\ files' = [files EXCEPT ![p] = x]
  <2>1. PICK q : q = [r EXCEPT !.outcome = "downloaded"]
    OBVIOUS
  <2>2. q.pc = "store" /\ q.op = "download" /\ q.path = p /\ q.sha = x
    BY <1>4, <2>1, Constants
  <2>3. FilesByName' /\ FilesKept /\ files'[p] = x
    BY <1>2, <1>6, FileWritten
  <2>4. Held(q)'
    BY <1>2, <2>2, <2>3 DEF Held, Content
  <2> QED BY <1>6, <2>1, <2>3, <2>4, HeldReplaced
<1> QED BY <1>3, <1>5, <1>6

LEMMA SendFiles ==
  ASSUME CacheAssumption, TypeOK, FilesByName, FilesTrue, OwnFileNames, NEW j \in Jobs, Send(j)
  PROVE  FilesByName' /\ FilesKept /\ \A i \in Jobs : Held(job[i])'
<1>1. CASE Upload(j)
  <2>1. PICK m \in Messages, x \in Media :
          /\ files' = [files EXCEPT ![SourcePath(m, x)] = x]
          /\ Set(j, [At("record", "upload", m, 1) EXCEPT !.path = SourcePath(m, x), !.sha = x])
    BY <1>1 DEF Upload
  <2>2. PICK q : q = [At("record", "upload", m, 1) EXCEPT !.path = SourcePath(m, x), !.sha = x]
    OBVIOUS
  <2>3. q.pc = "record" /\ q.path = SourcePath(m, x) /\ q.sha = x
    BY <2>2 DEF At
  <2>4. SourcePath(m, x) \in Path
    BY PathsTyped
  <2>5. FilesByName' /\ FilesKept /\ files'[SourcePath(m, x)] = x
    BY <2>1, <2>4, NamesOfPaths, FileWritten
  <2>6. Held(q)'
    BY <2>3, <2>4, <2>5 DEF Held, Content
  <2> QED BY <2>1, <2>2, <2>5, <2>6, HeldReplaced
<1>2. ASSUME files' = files
      PROVE  FilesByName' /\ FilesKept
  BY <1>2 DEF FilesByName, FilesKept
<1>3. CASE RecordUpload(j)
  <2>1. PICK q : q = [job[j] EXCEPT !.pc = "identify"]
    OBVIOUS
  <2>2. q.pc = "identify" /\ q.path = job[j].path /\ q.sha = job[j].sha
    BY <2>1, InHand DEF Job
  <2>3. Content(job[j].path, job[j].sha)
    BY <1>3 DEF RecordUpload, In, FilesTrue, Held
  <2>4. Content(q.path, q.sha)
    BY <2>2, <2>3
  <2>5. Held(q)'
    <3>1. Content(q.path, q.sha)'
      BY <1>2, <1>3, <2>4, ContentKept DEF RecordUpload
    <3> QED BY <2>2, <3>1 DEF Held
  <2> QED BY <1>2, <1>3, <2>1, <2>5, HeldReplaced DEF RecordUpload
<1>4. CASE IdentifyUpload(j)
  <2>1. PICK q : q = [job[j] EXCEPT !.pc = "original"]
    OBVIOUS
  <2>2. q.pc = "original"
    BY <2>1, InHand DEF Job
  <2> QED BY <1>2, <1>4, <2>1, <2>2, HeldPast DEF IdentifyUpload
<1>5. CASE HashUpload(j)
  <2>1. Idle.pc = "idle"
    BY DEF Idle, At
  <2> QED BY <1>2, <1>5, <2>1, HeldPast DEF HashUpload
<1> QED BY <1>1, <1>3, <1>4, <1>5 DEF Send

LEMMA FilesStep ==
  ASSUME CacheAssumption, TypeOK, Working, FilesByName, FilesTrue, OwnFileNames, CacheNext
  PROVE  FilesByName' /\ FilesKept /\ \A i \in Jobs : Held(job[i])'
<1>1. ASSUME files' = files
      PROVE  FilesByName' /\ FilesKept
  BY <1>1 DEF FilesByName, FilesKept
<1>2. CASE UNCHANGED <<files, job>>
  <2>1. ASSUME NEW i \in Jobs
        PROVE  Held(job[i])'
    <3>1. PICK q : q = job[i]
      OBVIOUS
    <3>2. Held(q)'
      BY <1>1, <1>2, <3>1, HeldKept DEF FilesTrue
    <3> QED BY <1>2, <3>1, <3>2
  <2> QED BY <1>1, <1>2, <2>1
<1>3. ASSUME NEW j \in Jobs, NEW r, Set(j, r), r.pc \notin {"store", "record", "identify"}, files' = files
      PROVE  FilesByName' /\ FilesKept /\ \A i \in Jobs : Held(job[i])'
  BY <1>1, <1>3, HeldPast
<1>4. Idle.pc = "idle"
  BY DEF Idle, At
<1>5. ASSUME NEW j \in Jobs
      PROVE  \A x : /\ [job[j] EXCEPT !.pc = "hash"].pc = "hash"
                    /\ [job[j] EXCEPT !.pc = "hash", !.id = x].pc = "hash"
                    /\ [job[j] EXCEPT !.pc = "entry", !.sha = x].pc = "entry"
  BY InHand DEF Job
<1>6. ASSUME NEW j \in Jobs, StoreBackfill(j) \/ StoreSync(j) \/ StoreSkipped(j) \/ StoreVerified(j)
      PROVE  FilesByName' /\ FilesKept /\ \A i \in Jobs : Held(job[i])'
  <2>1. /\ files' = files
        /\ \/ Set(j, [job[j] EXCEPT !.pc = "hash"])
           \/ Set(j, [job[j] EXCEPT !.pc = "hash", !.id = job[j].sha])
           \/ Set(j, Idle)
    BY <1>6 DEF StoreBackfill, StoreSync, StoreSkipped, StoreVerified
  <2> QED BY <1>3, <1>4, <1>5, <2>1
<1>7. ASSUME NEW j \in Jobs, LookUp(j) \/ ScanRow(j) \/ DeleteRemote(j)
      PROVE  FilesByName' /\ FilesKept /\ \A i \in Jobs : Held(job[i])'
  <2>1. /\ files' = files
        /\ \E m \in Messages :
             \/ \E x : Set(j, [At("fetch", "download", m, 0) EXCEPT !.id = x])
             \/ Set(j, [At("digest", "index", m, 0) EXCEPT !.path = row[m].path, !.id = row[m].id])
             \/ Set(j, At("mark", "delete", m, 0))
    BY <1>7 DEF LookUp, ScanRow, DeleteRemote
  <2>2. ASSUME NEW m \in Messages
        PROVE  /\ \A x : [At("fetch", "download", m, 0) EXCEPT !.id = x].pc = "fetch"
               /\ [At("digest", "index", m, 0) EXCEPT !.path = row[m].path, !.id = row[m].id].pc = "digest"
               /\ At("mark", "delete", m, 0).pc = "mark"
    BY DEF At
  <2>3. PICK r : Set(j, r) /\ r.pc \in {"fetch", "digest", "mark"}
    BY <2>1, <2>2
  <2> QED BY <1>3, <2>1, <2>3
<1>8. ASSUME NEW j \in Jobs, DigestFile(j)
      PROVE  FilesByName' /\ FilesKept /\ \A i \in Jobs : Held(job[i])'
  <2>1. files' = files /\ Set(j, [job[j] EXCEPT !.pc = "entry", !.sha = files[job[j].path]])
    BY <1>8 DEF DigestFile
  <2> QED BY <1>3, <1>5, <2>1
<1>9. ASSUME NEW j \in Jobs, HashDownloaded(j) \/ IndexFile(j) \/ MarkDeleted(j) \/ Quit(j)
      PROVE  FilesByName' /\ FilesKept /\ \A i \in Jobs : Held(job[i])'
  BY <1>3, <1>4, <1>9 DEF HashDownloaded, IndexFile, MarkDeleted, Quit
<1>10. UNCHANGED <<files, job>> \/ \E j \in Jobs : History(j) \/ Download(j) \/ Send(j) \/ Local(j) \/ Quit(j)
  BY DEF CacheNext, Telegram, Post, Edit, Remove, HandleUpdate
<1> QED BY <1>2, <1>6, <1>7, <1>8, <1>9, <1>10, HistoryFiles, DownloadFiles, SendFiles
        DEF History, Download, Local, FetchBackfill, FetchSync

\* A row takes path and identity together: both from one command, both from
\* itself, or without one of them.
LEMMA PairStep ==
  ASSUME CacheAssumption, TypeOK, Sourced, Working, FilesTrue, CacheNext, NEW m \in Messages
  PROVE  Content(row'[m].path, row'[m].id)
<1>1. row[m] \in Columns /\ Content(row[m].path, row[m].id)
  BY DEF TypeOK, FilesTrue
<1>2. ASSUME row'[m].path = NoPath \/ row'[m].id = None
      PROVE  Content(row'[m].path, row'[m].id)
  BY <1>2 DEF Content
<1>3. ASSUME row'[m].path = row[m].path, row'[m].id = row[m].id
      PROVE  Content(row'[m].path, row'[m].id)
  BY <1>1, <1>3
<1>4. ASSUME NEW k \in 1..Newest(m), NEW p \in Path \cup {NoPath}, NEW x \in Media \cup {None},
             Content(p, x),
             \/ row'[m] = Upserted(row[m], Described(m, k, p, x))
             \/ \E o \in Outcomes : row'[m] = Backfilled(row[m], Described(m, k, p, x), o)
      PROVE  Content(row'[m].path, row'[m].id)
  <2>1. \/ row'[m] = row[m]
        \/ row'[m].path = NoPath \/ row'[m].id = None
        \/ row'[m].path = p /\ row'[m].id = x
        \/ row'[m].path = row[m].path /\ row'[m].id = row[m].id
    BY <1>4, Refreshed
  <2> QED BY <1>2, <1>3, <1>4, <2>1
<1>5. CASE row'[m] = row[m]
  BY <1>3, <1>5
<1>6. CASE row'[m] = Tombstoned(row[m])
  BY <1>1, <1>3, <1>6 DEF Tombstoned, Columns
<1>7. ASSUME NEW k \in 1..Newest(m), row'[m] = Upserted(row[m], Described(m, k, NoPath, MediaOf(m, k)))
      PROVE  Content(row'[m].path, row'[m].id)
  <2>1. Content(NoPath, MediaOf(m, k))
    BY DEF Content
  <2> QED BY <1>4, <1>7, <2>1, VersionTyped
<1>8. ASSUME NEW j \in Jobs, job[j].m = m, JobRowStep(m, job[j])
      PROVE  Content(row'[m].path, row'[m].id)
  <2> DEFINE r == job[j]
  <2>1. /\ r.k \in Nat /\ r.path \in Path \cup {NoPath} /\ r.id \in Media \cup {None}
        /\ r.outcome \in Outcomes
    BY InHand
  <2>2. r.pc = "store" => r.k \in 1..Newest(m)
    BY <1>8 DEF Working, InStage
  <2>3. /\ r.pc = "store" /\ r.op # "download" => Content(r.path, r.id)
        /\ r.pc = "store" /\ r.outcome = "downloaded" /\ r.op = "download" => Content(r.path, r.sha)
        /\ r.pc = "identify" => Content(r.path, r.sha)
    BY DEF FilesTrue, Held
  <2> HIDE DEF r
  <2>4. CASE /\ r.pc = "store" /\ r.op # "download"
             /\ \/ row'[m] = Upserted(row[m], Described(m, r.k, r.path, r.id))
                \/ row'[m] = Backfilled(row[m], Described(m, r.k, r.path, r.id), r.outcome)
    BY <1>4, <2>1, <2>2, <2>3, <2>4
  <2>5. CASE row'[m] = MediaPathStored(row[m], r.k, r.path)
    <3>1. row'[m].id = None
      BY <1>1, <2>5 DEF MediaPathStored, Bare, WithMedia, Columns
    <3> QED BY <1>2, <3>1
  <2>6. CASE /\ r.pc = "store" /\ r.op = "download" /\ r.outcome = "downloaded"
             /\ row'[m] = IF ~row[m].known THEN Bare(r.k, r.path, r.sha)
                                           ELSE WithMedia(row[m], r.k, r.path, r.sha)
    <3>1. row'[m].path = r.path /\ row'[m].id = r.sha
      BY <1>1, <2>6 DEF Bare, WithMedia, Columns
    <3> QED BY <2>3, <2>6, <3>1
  <2>7. CASE \E date \in {0, 1} : row'[m] = UploadRecorded(row[m], date, r.path)
    <3>1. row'[m].id = None
      BY <2>7 DEF UploadRecorded
    <3> QED BY <1>2, <3>1
  <2>8. CASE r.pc = "identify" /\ Unidentified(row[m], r.path) /\ row'[m] = [row[m] EXCEPT !.id = r.sha]
    <3>1. row'[m].path = r.path /\ row'[m].id = r.sha
      BY <1>1, <2>8 DEF Unidentified, Columns
    <3> QED BY <2>3, <2>8, <3>1
  <2> QED BY <1>8, <2>4, <2>5, <2>6, <2>7, <2>8 DEF JobRowStep, r
<1>9. RowStep(m)
  BY RowSteps
<1> QED BY <1>5, <1>6, <1>7, <1>8, <1>9 DEF RowStep

LEMMA FileInvStep ==
  ASSUME CacheAssumption, CacheInv, FileInv, OwnFileNames, CacheNext
  PROVE  FileInv'
<1>1. FilesByName' /\ FilesKept /\ \A i \in Jobs : Held(job[i])'
  BY FilesStep DEF CacheInv, FileInv
<1>2. ASSUME NEW m \in Messages
      PROVE  Content(row[m].path, row[m].id)'
  <2>1. PICK p, x : p = row'[m].path /\ x = row'[m].id
    OBVIOUS
  <2>2. Content(p, x)
    BY <2>1, PairStep DEF CacheInv, FileInv
  <2>3. Content(p, x)'
    BY <1>1, <2>2, ContentKept
  <2> QED BY <2>1, <2>3
<1> QED BY <1>1, <1>2 DEF FileInv, FilesTrue

\* FileInv holds at the start.
LEMMA FileInit ==
  ASSUME CacheAssumption, CacheInit
  PROVE  FileInv
<1>1. FilesByName
  BY DEF CacheInit, FilesByName
<1>2. FilesTrue
  BY DEF CacheInit, FilesTrue, Content, Held, NoRow, Idle, At
<1> QED BY <1>1, <1>2 DEF FileInv

\* A row that names a file and an identity names a file with that content,
\* whichever commands were under way together (CHANGELOG.md: verified paths and
\* identities are kept together), as long as no two media come with one file
\* name: of two that share a name, the later download would be what the row of
\* the earlier one names.
THEOREM IdentitiesNameFiles ==
  ASSUME OwnFileNames
  PROVE  CacheSpec => []IdentityNamesFile
<1>1. CacheInit => CacheInv /\ FileInv
  <2> SUFFICES ASSUME CacheInit
               PROVE  CacheInv /\ FileInv
    OBVIOUS
  <2>1. CacheInv
    BY CacheAssumption, InitInv
  <2>2. FileInv
    BY CacheAssumption, FileInit
  <2> QED BY <2>1, <2>2
<1>2. CacheInv /\ FileInv /\ [CacheNext]_vars => CacheInv' /\ FileInv'
  <2>1. CacheInv /\ [CacheNext]_vars => CacheInv'
    BY CacheAssumption, InvStep
  <2>2. CacheInv /\ FileInv /\ CacheNext => FileInv'
    BY CacheAssumption, FileInvStep
  <2>3. FileInv /\ UNCHANGED vars => FileInv'
    BY DEF FileInv, FilesByName, FilesTrue, Content, Held, vars
  <2> QED BY <2>1, <2>2, <2>3
<1>3. FileInv => IdentityNamesFile
  BY DEF FileInv, FilesTrue, Content, IdentityNamesFile
<1> QED BY <1>1, <1>2, <1>3, PTL DEF CacheSpec

----------------------------------------------------------------------------
(* The media of a row and of the entries of the hash index.                *)

\* A sync, if there are any, is one that downloads media.
SyncsFetchMedia == "sync" \in Ops => "none" \notin SyncMedia

\* What a row says of its medium is so of the version its media columns describe,
RowMatches(m, c) ==
  /\ ~c.has => c.path = NoPath /\ c.id = None
  /\ c.has => c.mver \in 1..Newest(m) /\ MediaOf(m, c.mver) # None
  /\ c.path # NoPath => files[c.path] = MediaOf(m, c.mver)
  /\ c.id # None => c.id = MediaOf(m, c.mver)

\* what an entry says, of the version that the row described when it was taken,
EntryMatches(m, kind, e) ==
  e # NoEntry =>
    /\ e.mver \in 1..Newest(m) /\ MediaOf(m, e.mver) # None
    /\ e.path # NoPath => files[e.path] = MediaOf(m, e.mver)
    /\ e.id # None => e.id = MediaOf(m, e.mver)
    /\ kind # "cached_file" => e.id # None /\ e.sha = e.id
    /\ kind = "cached_file" => e.path # NoPath

\* and what a command is about to store, of the version it has read.
JobMatches(r) ==
  /\ r.pc = "store" /\ r.op = "sync" /\ r.id = None => MediaOf(r.m, r.k) = None
  /\ r.pc = "store" /\ r.op = "download" => r.sha = MediaOf(r.m, r.k) /\ files[r.path] = r.sha
  /\ r.pc = "hash" => r.id # None
  /\ r.pc = "record" => r.k = 1 /\ r.sha = MediaOf(r.m, 1)

MatchInv ==
  /\ \A m \in Messages : RowMatches(m, row[m])
  /\ \A m \in Messages, kind \in Kinds : EntryMatches(m, kind, index[m][kind])
  /\ \A j \in Jobs : JobMatches(job[j])

\* None of this depends on what Telegram does next, nor on files to come.
LEMMA VersionKept ==
  ASSUME TypeOK, HistKept, hist' \in [Messages -> Seq(Version)], NEW m \in Messages, NEW k \in 1..Newest(m)
  PROVE  k \in 1..Newest(m)' /\ MediaOf(m, k)' = MediaOf(m, k)
<1>1. Len(hist[m]) \in Nat /\ Len(hist'[m]) \in Nat /\ Len(hist[m]) <= Len(hist'[m])
  BY LengthTyped DEF HistKept
<1>2. k \in Nat /\ k >= 1 /\ k <= Len(hist[m])
  BY <1>1 DEF Newest
<1>3. hist'[m][k] = hist[m][k]
  BY DEF HistKept, Newest
<1>4. k \in 1..Len(hist'[m])
  BY <1>1, <1>2
<1> QED BY <1>3, <1>4 DEF Newest, MediaOf

\* A row, an entry and a command that are right stay so.
LEMMA RowMatchKept ==
  ASSUME TypeOK, HistKept, hist' \in [Messages -> Seq(Version)], FilesKept,
         NEW m \in Messages, NEW c \in Columns, RowMatches(m, c)
  PROVE  RowMatches(m, c)'
<1>1. c.path \in Path \cup {NoPath}
  BY DEF Columns
<1>2. c.path # NoPath \/ c.id # None => c.has
  BY DEF RowMatches
<1>3. c.has => c.mver \in 1..Newest(m)' /\ MediaOf(m, c.mver)' = MediaOf(m, c.mver)
  BY VersionKept DEF RowMatches
<1>4. c.path # NoPath => files'[c.path] = files[c.path]
  BY <1>1, <1>2 DEF RowMatches, FilesKept
<1> QED BY <1>2, <1>3, <1>4 DEF RowMatches

LEMMA EntryMatchKept ==
  ASSUME TypeOK, HistKept, hist' \in [Messages -> Seq(Version)], FilesKept,
         NEW m \in Messages, NEW kind, NEW e \in Entry, EntryMatches(m, kind, e)
  PROVE  EntryMatches(m, kind, e)'
<1>1. e.path \in Path \cup {NoPath}
  BY DEF Entry
<1>2. e # NoEntry => e.mver \in 1..Newest(m)' /\ MediaOf(m, e.mver)' = MediaOf(m, e.mver)
  BY VersionKept DEF EntryMatches
<1>3. e # NoEntry /\ e.path # NoPath => files'[e.path] = files[e.path]
  BY <1>1 DEF EntryMatches, FilesKept
<1> QED BY <1>2, <1>3 DEF EntryMatches

LEMMA JobMatchKept ==
  ASSUME CacheAssumption, TypeOK, HistKept, hist' \in [Messages -> Seq(Version)], FilesKept,
         NEW r, InStage(r), JobMatches(r)
  PROVE  JobMatches(r)'
<1>1. CASE r.pc = "store"
  <2>1. r.m \in Messages /\ r.k \in 1..Newest(r.m)
    BY <1>1 DEF InStage
  <2>2. MediaOf(r.m, r.k)' = MediaOf(r.m, r.k)
    BY <2>1, VersionKept
  <2>3. r.op = "download" => r.path \in Path /\ r.sha # None
    BY <1>1, PathsTyped, <2>1 DEF InStage
  <2>4. r.op = "download" => files'[r.path] = files[r.path]
    BY <1>1, <2>3 DEF JobMatches, FilesKept
  <2> QED BY <1>1, <2>2, <2>4 DEF JobMatches
<1>2. CASE r.pc = "record"
  <2>1. r.m \in Messages /\ r.k \in 1..Newest(r.m) /\ r.k = 1
    BY <1>2 DEF InStage, JobMatches
  <2>2. MediaOf(r.m, r.k)' = MediaOf(r.m, r.k)
    BY <2>1, VersionKept
  <2> QED BY <1>2, <2>1, <2>2 DEF JobMatches
<1>3. CASE r.pc \notin {"store", "record"}
  BY <1>3 DEF JobMatches
<1> QED BY <1>1, <1>2, <1>3

\* A refresh that comes with the identity or with nothing, and with the file only
\* beside the identity.
LEMMA RefreshMatches ==
  ASSUME TypeOK, Sourced, NEW m \in Messages, NEW k \in 1..Newest(m),
         NEW p \in Path \cup {NoPath}, NEW x \in {None, MediaOf(m, k)},
         x = None => p = NoPath, Content(p, x), RowMatches(m, row[m]), NEW n,
         \/ (x = None => MediaOf(m, k) = None) /\ n = Upserted(row[m], Described(m, k, p, x))
         \/ \E o \in Outcomes : n = Backfilled(row[m], Described(m, k, p, x), o)
  PROVE  RowMatches(m, n)
<1> DEFINE d == Described(m, k, p, x)
<1>0. MediaOf(m, k) \in Media \cup {None} /\ row[m] \in Columns
  BY VersionTyped DEF TypeOK
<1>1. /\ d \in Columns /\ d.mver = k /\ d.path = p /\ d.id = x
      /\ d.has = (MediaOf(m, k) # None)
  BY <1>0, DescribedTyped DEF Described
<1>2. ASSUME NEW q \in Path \cup {NoPath}, NEW y \in {None, x},
             q # NoPath => MediaOf(m, k) # None /\ files[q] = MediaOf(m, k),
             n = [d EXCEPT !.path = q, !.id = y]
      PROVE  RowMatches(m, n)
  <2>1. n.mver = k /\ n.path = q /\ n.id = y /\ n.has = (MediaOf(m, k) # None)
    BY <1>1, <1>2 DEF Columns
  <2> QED BY <1>2, <2>1 DEF RowMatches
<1>3. p # NoPath => MediaOf(m, k) # None /\ files[p] = MediaOf(m, k)
  BY DEF Content
<1>4. /\ d = [d EXCEPT !.path = p, !.id = x]
      /\ \A q \in Path \cup {NoPath} : [d EXCEPT !.path = q] = [d EXCEPT !.path = q, !.id = x]
      /\ [d EXCEPT !.id = None] = [d EXCEPT !.path = p, !.id = None]
  BY <1>1, ZenonT(30) DEF Columns
<1>5. row[m].path \in Path \cup {NoPath}
  BY <1>0 DEF Columns
<1>6. x # None /\ x = row[m].id /\ row[m].path # NoPath => MediaOf(m, k) # None /\ files[row[m].path] = MediaOf(m, k)
  BY DEF RowMatches
<1> HIDE DEF d
<1>7. CASE n = row[m]
  BY <1>7
<1>8. CASE n = d
  BY <1>2, <1>3, <1>4, <1>8
<1>9. CASE (x = None => MediaOf(m, k) = None) /\ n = Upserted(row[m], d)
  <2>1. \/ n = row[m] \/ n = d
        \/ \E q \in Path \cup {NoPath} :
             /\ n = [d EXCEPT !.path = q]
             /\ \/ q = NoPath \/ q = p
                \/ q = row[m].path /\ d.has /\ ~(x # None /\ x # row[m].id)
    BY <1>1, <1>5, <1>9 DEF Upserted
  <2>2. ASSUME NEW q \in Path \cup {NoPath}, n = [d EXCEPT !.path = q],
               \/ q = NoPath \/ q = p
               \/ q = row[m].path /\ d.has /\ ~(x # None /\ x # row[m].id)
        PROVE  RowMatches(m, n)
    <3>1. q # NoPath => MediaOf(m, k) # None /\ files[q] = MediaOf(m, k)
      <4>1. CASE q = NoPath \/ q = p
        BY <1>3, <4>1
      <4>2. CASE q = row[m].path /\ d.has /\ ~(x # None /\ x # row[m].id)
        <5>1. MediaOf(m, k) # None
          BY <1>1, <4>2
        <5>2. x # None /\ x = row[m].id
          BY <1>9, <4>2, <5>1
        <5> QED BY <1>6, <4>2, <5>2
      <4> QED BY <2>2, <4>1, <4>2
    <3> QED BY <1>2, <1>4, <2>2, <3>1
  <2> QED BY <1>7, <1>8, <2>1, <2>2
<1>10. ASSUME NEW o \in Outcomes, n = Backfilled(row[m], d, o)
       PROVE  RowMatches(m, n)
  <2>1. \/ n = row[m] \/ n = d
        \/ x # None /\ row[m].id = x /\ n = [d EXCEPT !.path = row[m].path]
        \/ n = [d EXCEPT !.id = None]
    BY <1>1, <1>10 DEF Backfilled
  <2>2. CASE x # None /\ row[m].id = x /\ n = [d EXCEPT !.path = row[m].path]
    BY <1>2, <1>4, <1>5, <1>6, <2>2
  <2>3. CASE n = [d EXCEPT !.id = None]
    BY <1>2, <1>3, <1>4, <2>3
  <2> QED BY <1>7, <1>8, <2>1, <2>2, <2>3
<1> QED BY <1>9, <1>10 DEF d

\* Whatever a step does to a row, the row says what is so.
LEMMA RowMatchStep ==
  ASSUME CacheAssumption, CacheInv, FileInv, MatchInv, CacheNext, NEW m \in Messages
  PROVE  RowMatches(m, row'[m])
<1>0. TypeOK /\ Sourced /\ Working /\ FilesTrue
  BY DEF CacheInv, FileInv
<1>1. row[m] \in Columns /\ RowMatches(m, row[m]) /\ (row[m].known \/ row[m] = NoRow)
  BY <1>0 DEF TypeOK, MatchInv, Sourced
<1>2. CASE row'[m] = row[m]
  BY <1>1, <1>2
<1>3. CASE row'[m] = Tombstoned(row[m])
  <2>1. /\ row'[m].has = row[m].has /\ row'[m].path = row[m].path
        /\ row'[m].id = row[m].id /\ row'[m].mver = row[m].mver
    BY <1>1, <1>3 DEF Tombstoned, Columns
  <2> QED BY <1>1, <2>1 DEF RowMatches
<1>4. ASSUME NEW k \in 1..Newest(m), row'[m] = Upserted(row[m], Described(m, k, NoPath, MediaOf(m, k)))
      PROVE  RowMatches(m, row'[m])
  <2>1. Content(NoPath, MediaOf(m, k))
    BY DEF Content
  <2>2. MediaOf(m, k) \in {None, MediaOf(m, k)} /\ NoPath \in Path \cup {NoPath}
    OBVIOUS
  <2> QED BY <1>0, <1>1, <1>4, <2>1, <2>2, RefreshMatches
<1>5. ASSUME NEW k \in 1..Newest(m), NEW p \in Path, NEW x \in Media \cup {None},
             MediaOf(m, k) # None, files[p] = MediaOf(m, k), x \in {None, MediaOf(m, k)},
             row'[m].has, row'[m].mver = k, row'[m].path = p, row'[m].id = x
      PROVE  RowMatches(m, row'[m])
  BY <1>5 DEF RowMatches
<1>6. ASSUME NEW j \in Jobs, job[j].m = m, JobRowStep(m, job[j])
      PROVE  RowMatches(m, row'[m])
  <2> DEFINE r == job[j]
  <2>1. /\ r.k \in Nat /\ r.path \in Path \cup {NoPath} /\ r.id \in Media \cup {None}
        /\ r.outcome \in Outcomes
    BY <1>0, InHand
  <2>2. r.m = m /\ InStage(r) /\ Held(r) /\ JobMatches(r)
    BY <1>0, <1>6 DEF Working, FilesTrue, MatchInv
  <2>3. JobRowStep(m, r)
    BY <1>6
  <2> HIDE DEF r
  <2>4. CASE /\ r.pc = "store" /\ r.op # "download"
             /\ \/ r.op = "sync" /\ row'[m] = Upserted(row[m], Described(m, r.k, r.path, r.id))
                \/ row'[m] = Backfilled(row[m], Described(m, r.k, r.path, r.id), r.outcome)
    <3>1. r.k \in 1..Newest(m) /\ r.id \in {None, MediaOf(m, r.k)} /\ (r.id = None => r.path = NoPath) /\ Content(r.path, r.id)
      BY <2>2, <2>4 DEF InStage, HistoryRead, Held
    <3>2. r.op = "sync" => (r.id = None => MediaOf(m, r.k) = None)
      BY <2>2, <2>4 DEF JobMatches
    <3> QED BY <1>0, <1>1, <2>1, <2>4, <3>1, <3>2, RefreshMatches
  <2>5. CASE r.pc = "store" /\ r.op = "download"
    <3>1. r.k \in 1..Newest(m) /\ r.sha \in Media /\ r.path = NamedPath(r.sha)
      BY <2>2, <2>5 DEF InStage
    <3>2. r.path \in Path /\ r.sha # None
      BY <1>1, <3>1, PathsTyped
    <3>3. r.sha = MediaOf(m, r.k) /\ files[r.path] = r.sha
      BY <2>2, <2>5 DEF JobMatches
    <3>4. CASE row'[m] = MediaPathStored(row[m], r.k, r.path)
      <4>1. row'[m].has /\ row'[m].mver = r.k /\ row'[m].path = r.path /\ row'[m].id = None
        BY <1>1, <3>4 DEF MediaPathStored, Bare, WithMedia, Columns
      <4> QED BY <1>5, <3>1, <3>2, <3>3, <4>1
    <3>5. CASE row'[m] = IF ~row[m].known THEN Bare(r.k, r.path, r.sha) ELSE WithMedia(row[m], r.k, r.path, r.sha)
      <4>1. row'[m].has /\ row'[m].mver = r.k /\ row'[m].path = r.path /\ row'[m].id = r.sha
        BY <1>1, <3>5 DEF Bare, WithMedia, Columns
      <4> QED BY <1>5, <3>1, <3>2, <3>3, <4>1
    <3> QED BY <2>3, <2>5, <3>4, <3>5 DEF JobRowStep
  <2>6. CASE r.pc = "record"
    <3>1. PICK date \in {0, 1} : row'[m] = UploadRecorded(row[m], date, r.path)
      BY <2>3, <2>6 DEF JobRowStep
    <3>2. 1 \in 1..Newest(m) /\ r.sha = MediaOf(m, 1) /\ r.sha \in Media /\ r.path = SourcePath(m, r.sha)
      BY <2>2, <2>6 DEF InStage, JobMatches
    <3>3. r.path \in Path /\ r.sha # None /\ r.path # NoPath
      BY <3>2, PathsTyped
    <3>4. files[r.path] = r.sha
      BY <2>2, <2>6, <3>3 DEF Held, Content
    <3>5. row'[m].has /\ row'[m].mver = 1 /\ row'[m].path = r.path /\ row'[m].id = None
      BY <3>1 DEF UploadRecorded
    <3> QED BY <1>5, <3>2, <3>3, <3>4, <3>5
  <2>7. CASE r.pc = "identify"
    <3>1. Unidentified(row[m], r.path) /\ row'[m] = [row[m] EXCEPT !.id = r.sha]
      BY <2>3, <2>7 DEF JobRowStep
    <3>2. r.sha \in Media /\ r.path = SourcePath(m, r.sha)
      BY <2>2, <2>7 DEF InStage
    <3>3. r.path \in Path /\ r.sha # None /\ r.path # NoPath
      BY <3>2, PathsTyped
    <3>4. files[r.path] = r.sha
      BY <2>2, <2>7, <3>3 DEF Held, Content
    <3>5. row[m].path = r.path
      BY <3>1 DEF Unidentified
    <3>6. row[m].has /\ row[m].mver \in 1..Newest(m) /\ MediaOf(m, row[m].mver) = r.sha
      BY <1>1, <3>3, <3>4, <3>5 DEF RowMatches
    <3>7. row'[m].has = row[m].has /\ row'[m].mver = row[m].mver /\ row'[m].path = r.path /\ row'[m].id = r.sha
      BY <1>1, <3>1, <3>5 DEF Columns
    <3> QED BY <1>5, <3>2, <3>3, <3>4, <3>6, <3>7
  <2> QED BY <2>3, <2>4, <2>5, <2>6, <2>7 DEF JobRowStep
<1>7. RowStep(m)
  BY <1>0, RowSteps
<1> QED BY <1>2, <1>3, <1>4, <1>6, <1>7 DEF RowStep

\* An entry is taken of a row that has the path and the identity the digest is of.
LEMMA EntryTaken ==
  ASSUME CacheInv, MatchInv, NEW m \in Messages, NEW kind \in Kinds, NEW path, NEW id, NEW sha,
         Indexable(m, path, id), IndexEntry(m, kind, sha),
         kind # "cached_file" => id # None /\ sha = id,
         kind = "cached_file" => path # NoPath
  PROVE  \A n \in Messages, l \in Kinds : EntryMatches(n, l, index'[n][l])
<1> DEFINE e == [sha |-> sha, path |-> row[m].path, id |-> row[m].id, mver |-> row[m].mver]
<1>1. index \in [Messages -> [Kinds -> Entry]]
  BY DEF CacheInv, TypeOK
<1>2. index' = [index EXCEPT ![m][kind] = e]
  BY DEF IndexEntry
<1>3. row[m].has /\ row[m].path = path /\ row[m].id = id /\ RowMatches(m, row[m])
  BY DEF Indexable, MatchInv
<1>4. EntryMatches(m, kind, e)
  BY <1>3 DEF EntryMatches, RowMatches
<1> HIDE DEF e
<1>5. ASSUME NEW n \in Messages, NEW l \in Kinds
      PROVE  (index'[n][l] = e /\ n = m /\ l = kind) \/ index'[n][l] = index[n][l]
  BY <1>1, <1>2
<1> QED BY <1>4, <1>5 DEF MatchInv

\* So do all entries after a step.
LEMMA EntryMatchStep ==
  ASSUME CacheAssumption, CacheInv, MatchInv, CacheNext
  PROVE  \A m \in Messages, kind \in Kinds : EntryMatches(m, kind, index'[m][kind])
<1>1. CASE UNCHANGED index
  BY <1>1 DEF MatchInv
<1>2. ASSUME NEW j \in Jobs, HashDownloaded(j) \/ HashUpload(j) \/ IndexFile(j)
      PROVE  \A m \in Messages, kind \in Kinds : EntryMatches(m, kind, index'[m][kind])
  <2> DEFINE r == job[j]
  <2>1. InStage(r) /\ JobMatches(r) /\ {"downloaded", "upload_original", "cached_file"} = Kinds
    BY DEF CacheInv, Working, MatchInv, Kinds
  <2>2. CASE HashDownloaded(j)
    <3>1. r.pc = "hash" /\ files[r.path] = r.id /\ Indexable(r.m, r.path, r.id) /\ IndexEntry(r.m, "downloaded", r.id)
      BY <2>2 DEF HashDownloaded, In
    <3> HIDE DEF r
    <3>2. r.m \in Messages /\ r.id # None
      BY <2>1, <3>1 DEF InStage, JobMatches
    <3> QED BY <2>1, <3>1, <3>2, EntryTaken
  <2>3. CASE HashUpload(j)
    <3>1. r.pc = "original" /\ Indexable(r.m, r.path, r.sha) /\ IndexEntry(r.m, "upload_original", r.sha)
      BY <2>3 DEF HashUpload, In
    <3> HIDE DEF r
    <3>2. r.m \in Messages /\ r.sha # None
      BY <2>1, <3>1 DEF InStage, CacheAssumption
    <3> QED BY <2>1, <3>1, <3>2, EntryTaken
  <2>4. CASE IndexFile(j)
    <3>1. r.pc = "entry" /\ Indexable(r.m, r.path, r.id) /\ IndexEntry(r.m, "cached_file", r.sha)
      BY <2>4 DEF IndexFile, In
    <3> HIDE DEF r
    <3>2. r.m \in Messages /\ r.path # NoPath
      BY <2>1, <3>1, PathsTyped DEF InStage, NoPath, Path
    <3> QED BY <2>1, <3>1, <3>2, EntryTaken
  <2> QED BY <1>2, <2>2, <2>3, <2>4
<1>3. UNCHANGED index \/ \E j \in Jobs : HashDownloaded(j) \/ HashUpload(j) \/ IndexFile(j)
  BY ZenonT(30) DEF CacheNext, Telegram, Post, Edit, Remove, HandleUpdate, History, Download, Send, Local, Quit,
         FetchBackfill, FetchSync, FetchHistory, StoreBackfill, StoreSync, LookUp, FetchMedia,
         StoreSkipped, StoreVerified, Upload, RecordUpload, IdentifyUpload,
         ScanRow, DigestFile, DeleteRemote, MarkDeleted
<1> QED BY <1>1, <1>2, <1>3

\* The commands other than the one that takes a step.
LEMMA JobMatchReplaced ==
  ASSUME CacheAssumption, CacheInv, MatchInv, HistKept, hist' \in [Messages -> Seq(Version)], FilesKept,
         NEW j \in Jobs, NEW r, Set(j, r), JobMatches(r)'
  PROVE  \A i \in Jobs : JobMatches(job[i])'
<1>1. ASSUME NEW i \in Jobs
      PROVE  JobMatches(job[i])'
  <2>1. PICK q : q = job'[i]
    OBVIOUS
  <2>2. q = r \/ q = job[i]
    BY <2>1 DEF CacheInv, TypeOK, Set
  <2>3. q = job[i] => InStage(q) /\ JobMatches(q)
    BY DEF CacheInv, Working, MatchInv
  <2>4. JobMatches(q)'
    BY <2>2, <2>3, JobMatchKept DEF CacheInv
  <2> QED BY <2>1, <2>4
<1> QED BY <1>1

\* A page of history that a command has read: a sync that has no identity has
\* none to have.
LEMMA FetchMatches ==
  ASSUME CacheAssumption, SyncsFetchMedia, CacheInv, MatchInv, HistKept,
         hist' \in [Messages -> Seq(Version)], FilesKept,
         NEW j \in Jobs, FetchBackfill(j) \/ FetchSync(j)
  PROVE  \A i \in Jobs : JobMatches(job[i])'
<1>1. PICK op \in {"backfill", "sync"}, allowed \in SUBSET Outcomes :
        FetchHistory(j, op, allowed) /\ (op = "sync" => "none" \notin allowed)
  BY DEF FetchBackfill, FetchSync, FetchHistory, Free, SyncsFetchMedia, CacheAssumption
<1>2. PICK m \in Messages :
        LET k == Newest(m)
            x == MediaOf(m, k)
            r == At("store", op, m, k) IN
          \/ ("none" \in allowed \/ x = None) /\ Set(j, [r EXCEPT !.outcome = "none"])
          \/ x # None /\ Set(j, [r EXCEPT !.outcome = "failed", !.id = x])
          \/ \E o, p : x # None /\ Set(j, [r EXCEPT !.outcome = o, !.id = x, !.path = p])
  BY <1>1 DEF FetchHistory
<1> DEFINE k == Newest(m)
           x == MediaOf(m, k)
           r == At("store", op, m, k)
<1>3. hist' = hist
  BY <1>1 DEF FetchHistory
<1>4. PICK q : /\ Set(j, q) /\ q.pc = "store" /\ q.op = op /\ q.m = m /\ q.k = k
               /\ op = "sync" /\ q.id = None => x = None
  <2> HIDE DEF k, x
  <2>1. r.pc = "store" /\ r.op = op /\ r.m = m /\ r.k = k /\ r.id = None
    BY DEF At
  <2>2. CASE ("none" \in allowed \/ x = None) /\ Set(j, [r EXCEPT !.outcome = "none"])
    <3>1. LET q == [r EXCEPT !.outcome = "none"] IN q.pc = "store" /\ q.op = op /\ q.m = m /\ q.k = k
      BY DEF At
    <3> QED BY <1>1, <2>2, <3>1
  <2>3. CASE x # None /\ Set(j, [r EXCEPT !.outcome = "failed", !.id = x])
    <3>1. LET q == [r EXCEPT !.outcome = "failed", !.id = x] IN q.pc = "store" /\ q.op = op /\ q.m = m /\ q.k = k /\ q.id = x
      BY DEF At
    <3> QED BY <2>3, <3>1
  <2>4. ASSUME NEW o, NEW p, x # None, Set(j, [r EXCEPT !.outcome = o, !.id = x, !.path = p])
        PROVE  \E q : /\ Set(j, q) /\ q.pc = "store" /\ q.op = op /\ q.m = m /\ q.k = k
                      /\ op = "sync" /\ q.id = None => x = None
    <3>1. LET q == [r EXCEPT !.outcome = o, !.id = x, !.path = p] IN q.pc = "store" /\ q.op = op /\ q.m = m /\ q.k = k /\ q.id = x
      BY DEF At
    <3> QED BY <2>4, <3>1
  <2> HIDE DEF r
  <2> QED BY <1>2, <2>2, <2>3, <2>4 DEF k, x, r
<1>5. MediaOf(m, k)' = x
  BY <1>3 DEF MediaOf, Newest
<1> HIDE DEF k, x
<1>6. JobMatches(q)'
  BY <1>3, <1>4, <1>5 DEF JobMatches, MediaOf, x
<1> QED BY <1>4, <1>6, JobMatchReplaced

\* The medium that download-media has transferred.
LEMMA TransferMatches ==
  ASSUME CacheAssumption, CacheInv, FileInv, OwnFileNames, MatchInv, HistKept,
         hist' \in [Messages -> Seq(Version)], FilesKept, FilesByName',
         NEW j \in Jobs, FetchMedia(j)
  PROVE  \A i \in Jobs : JobMatches(job[i])'
<1> DEFINE m == job[j].m
           k == Newest(m)
           x == MediaOf(m, k)
           p == NamedPath(x)
           r == [job[j] EXCEPT !.pc = "store", !.k = k, !.path = p, !.sha = x]
<1>1. m \in Messages /\ Visible(m) /\ x # None /\ job[j].op = "download" /\ TypeOK /\ hist' = hist
  BY DEF FetchMedia, CacheInv, Working, InStage, In
<1>2. x \in Media /\ p \in Path
  BY <1>1, VisibleNewest, PathsTyped
<1>3. \E o : Set(j, [r EXCEPT !.outcome = o])
  BY DEF FetchMedia
<1>4. files'[p] = x
  <2>1. files[p] # None => files[p] = x
    <3>1. files[p] # None => files[p] \in Media /\ FileName[x] = FileName[files[p]]
      BY <1>1, <1>2 DEF FileInv, FilesByName, NamedPath, TypeOK
    <3> QED BY <1>2, <3>1 DEF OwnFileNames
  <2>2. (files[p] # None /\ files' = files) \/ files' = [files EXCEPT ![p] = x]
    BY DEF FetchMedia
  <2> HIDE DEF p, x
  <2> QED BY <1>1, <1>2, <2>1, <2>2 DEF TypeOK
<1>5. ASSUME NEW o
      PROVE  LET q == [r EXCEPT !.outcome = o] IN
               q.pc = "store" /\ q.op = "download" /\ q.m = m /\ q.k = k /\ q.path = p /\ q.sha = x
  <2>1. job[j] \in Job
    BY <1>1, InHand
  <2>2. job[j].op = "download" /\ job[j].m = m
    BY <1>1
  <2> HIDE DEF m, k, x, p
  <2>3. r.pc = "store" /\ r.op = "download" /\ r.m = m /\ r.k = k /\ r.path = p /\ r.sha = x
    BY <2>1, <2>2 DEF Job
  <2>4. DOMAIN r = DOMAIN job[j] /\ r \in [DOMAIN r -> {r[f] : f \in DOMAIN r}]
    BY <2>1 DEF Job
  <2> QED BY <2>1, <2>2 DEF Job
<1> HIDE DEF r
<1>6. PICK q : /\ Set(j, q) /\ q.pc = "store" /\ q.op = "download" /\ q.m = m /\ q.k = k
               /\ q.path = p /\ q.sha = x
  BY <1>3, <1>5
<1>7. hist'[m][k].media = x
  BY <1>1 DEF MediaOf
<1> HIDE DEF m, k, x, p
<1>8. JobMatches(q)'
  BY <1>4, <1>6, <1>7 DEF JobMatches, MediaOf
<1> QED BY <1>6, <1>8, JobMatchReplaced

\* An upload, up to the row it records.
LEMMA SendMatches ==
  ASSUME CacheAssumption, CacheInv, MatchInv, HistKept,
         hist' \in [Messages -> Seq(Version)], FilesKept, NEW j \in Jobs, Upload(j)
  PROVE  \A i \in Jobs : JobMatches(job[i])'
<1>1. PICK m \in Messages, x \in Media :
        /\ hist' = [hist EXCEPT ![m] = <<[edit |-> 0, media |-> x]>>]
        /\ Set(j, [At("record", "upload", m, 1) EXCEPT !.path = SourcePath(m, x), !.sha = x])
  BY DEF Upload
<1>2. MediaOf(m, 1)' = x
  <2>1. hist'[m] = <<[edit |-> 0, media |-> x]>>
    BY <1>1 DEF CacheInv, TypeOK
  <2> QED BY <2>1 DEF MediaOf
<1>3. PICK q : q = [At("record", "upload", m, 1) EXCEPT !.path = SourcePath(m, x), !.sha = x]
  OBVIOUS
<1>4. q.pc = "record" /\ q.m = m /\ q.k = 1 /\ q.sha = x
  BY <1>3 DEF At
<1>5. JobMatches(q)'
  BY <1>2, <1>4 DEF JobMatches, MediaOf
<1> QED BY <1>1, <1>3, <1>5, JobMatchReplaced

\* The other steps of a command leave it with nothing of the kind in hand.
LEMMA JobMatchStep ==
  ASSUME CacheAssumption, SyncsFetchMedia, OwnFileNames, CacheInv, FileInv, MatchInv, CacheNext
  PROVE  \A i \in Jobs : JobMatches(job[i])'
<1>0. TypeOK /\ HistKept /\ hist' \in [Messages -> Seq(Version)] /\ FilesKept /\ FilesByName'
  BY HistStep, FilesStep DEF CacheInv, FileInv
<1>1. CASE UNCHANGED job
  <2>1. ASSUME NEW i \in Jobs
        PROVE  JobMatches(job[i])'
    <3>1. PICK q : q = job[i]
      OBVIOUS
    <3>2. JobMatches(q)'
      BY <1>0, <3>1, JobMatchKept DEF CacheInv, Working, MatchInv
    <3> QED BY <1>1, <3>1, <3>2
  <2> QED BY <2>1
<1>2. ASSUME NEW j \in Jobs, NEW r, Set(j, r), r.pc \notin {"store", "hash", "record"}
      PROVE  \A i \in Jobs : JobMatches(job[i])'
  <2>1. JobMatches(r)'
    BY <1>2 DEF JobMatches
  <2> QED BY <1>0, <1>2, <2>1, JobMatchReplaced
<1>3. Idle.pc = "idle"
  BY DEF Idle, At
<1>4. ASSUME NEW j \in Jobs
      PROVE  /\ [job[j] EXCEPT !.pc = "hash"].pc = "hash" /\ [job[j] EXCEPT !.pc = "hash"].id = job[j].id
             /\ [job[j] EXCEPT !.pc = "identify"].pc = "identify"
             /\ [job[j] EXCEPT !.pc = "original"].pc = "original"
             /\ \A x : /\ [job[j] EXCEPT !.pc = "hash", !.id = x].pc = "hash"
                       /\ [job[j] EXCEPT !.pc = "hash", !.id = x].id = x
                       /\ [job[j] EXCEPT !.pc = "entry", !.sha = x].pc = "entry"
  BY <1>0, InHand DEF Job
<1>5. ASSUME NEW j \in Jobs, NEW r, Set(j, r), r.pc = "hash", r.id # None
      PROVE  \A i \in Jobs : JobMatches(job[i])'
  <2>1. JobMatches(r)'
    BY <1>5 DEF JobMatches
  <2> QED BY <1>0, <1>5, <2>1, JobMatchReplaced
<1>6. ASSUME NEW j \in Jobs, StoreBackfill(j) \/ StoreSync(j) \/ StoreSkipped(j) \/ StoreVerified(j)
      PROVE  \A i \in Jobs : JobMatches(job[i])'
  <2>1. \/ job[j].pc = "store" /\ job[j].op = "backfill" /\ job[j].outcome = "downloaded" /\ Set(j, [job[j] EXCEPT !.pc = "hash"])
        \/ job[j].pc = "store" /\ job[j].op = "download" /\ Set(j, [job[j] EXCEPT !.pc = "hash", !.id = job[j].sha])
        \/ Set(j, Idle)
    BY <1>6 DEF StoreBackfill, StoreSync, StoreSkipped, StoreVerified, In
  <2>2. CASE job[j].pc = "store" /\ job[j].op = "backfill" /\ job[j].outcome = "downloaded" /\ Set(j, [job[j] EXCEPT !.pc = "hash"])
    <3>1. InStage(job[j]) /\ NoPath \notin Path
      BY DEF CacheInv, Working, NoPath, Path
    <3>2. job[j].pc = "store" /\ job[j].op # "download" /\ job[j].outcome = "downloaded"
      BY <2>2
    <3>3. job[j].path # NoPath /\ HistoryRead(job[j])
      BY <3>1, <3>2 DEF InStage
    <3>4. job[j].id # None
      BY <3>3 DEF HistoryRead
    <3>5. PICK r : r = [job[j] EXCEPT !.pc = "hash"]
      OBVIOUS
    <3>6. r.pc = "hash" /\ r.id # None /\ Set(j, r)
      BY <1>4, <2>2, <3>4, <3>5
    <3> QED BY <1>5, <3>6
  <2>3. CASE job[j].pc = "store" /\ job[j].op = "download" /\ Set(j, [job[j] EXCEPT !.pc = "hash", !.id = job[j].sha])
    <3>1. InStage(job[j])
      BY DEF CacheInv, Working
    <3>2. job[j].pc = "store" /\ job[j].op = "download"
      BY <2>3
    <3>3. job[j].sha # None
      BY <3>1, <3>2 DEF InStage, CacheAssumption
    <3>4. PICK r : r = [job[j] EXCEPT !.pc = "hash", !.id = job[j].sha]
      OBVIOUS
    <3>5. r.pc = "hash" /\ r.id # None /\ Set(j, r)
      BY <1>4, <2>3, <3>3, <3>4
    <3> QED BY <1>5, <3>5
  <2>4. CASE Set(j, Idle)
    BY <1>2, <1>3, <2>4
  <2> QED BY <2>1, <2>2, <2>3, <2>4
<1>7. ASSUME NEW j \in Jobs, LookUp(j) \/ ScanRow(j) \/ DeleteRemote(j)
      PROVE  \A i \in Jobs : JobMatches(job[i])'
  <2>1. \E m \in Messages :
             \/ \E x : Set(j, [At("fetch", "download", m, 0) EXCEPT !.id = x])
             \/ Set(j, [At("digest", "index", m, 0) EXCEPT !.path = row[m].path, !.id = row[m].id])
             \/ Set(j, At("mark", "delete", m, 0))
    BY <1>7 DEF LookUp, ScanRow, DeleteRemote
  <2>2. ASSUME NEW m \in Messages
        PROVE  /\ \A x : [At("fetch", "download", m, 0) EXCEPT !.id = x].pc = "fetch"
               /\ [At("digest", "index", m, 0) EXCEPT !.path = row[m].path, !.id = row[m].id].pc = "digest"
               /\ At("mark", "delete", m, 0).pc = "mark"
    BY DEF At
  <2>3. PICK r : Set(j, r) /\ r.pc \in {"fetch", "digest", "mark"}
    BY <2>1, <2>2
  <2> QED BY <1>2, <2>3
<1>8. ASSUME NEW j \in Jobs, DigestFile(j) \/ RecordUpload(j) \/ IdentifyUpload(j)
      PROVE  \A i \in Jobs : JobMatches(job[i])'
  <2>1. \/ \E x : Set(j, [job[j] EXCEPT !.pc = "entry", !.sha = x])
        \/ Set(j, [job[j] EXCEPT !.pc = "identify"])
        \/ Set(j, [job[j] EXCEPT !.pc = "original"])
    BY <1>8 DEF DigestFile, RecordUpload, IdentifyUpload
  <2> QED BY <1>2, <1>4, <2>1
<1>9. ASSUME NEW j \in Jobs, HashDownloaded(j) \/ HashUpload(j) \/ IndexFile(j) \/ MarkDeleted(j) \/ Quit(j)
      PROVE  \A i \in Jobs : JobMatches(job[i])'
  BY <1>2, <1>3, <1>9 DEF HashDownloaded, HashUpload, IndexFile, MarkDeleted, Quit
<1>10. UNCHANGED job \/ \E j \in Jobs : History(j) \/ Download(j) \/ Send(j) \/ Local(j) \/ Quit(j)
  BY DEF CacheNext, Telegram, Post, Edit, Remove, HandleUpdate
<1> QED BY <1>0, <1>1, <1>6, <1>7, <1>8, <1>9, <1>10, FetchMatches, TransferMatches, SendMatches
        DEF History, Download, Send, Local

\* Rows, entries and commands, after a step.
LEMMA MatchStep ==
  ASSUME CacheAssumption, SyncsFetchMedia, OwnFileNames, CacheInv, FileInv, MatchInv, CacheNext
  PROVE  MatchInv'
<1>0. TypeOK /\ TypeOK' /\ HistKept /\ hist' \in [Messages -> Seq(Version)] /\ FilesKept
  BY HistStep, FilesStep, InvStep DEF CacheInv, FileInv
<1>1. ASSUME NEW m \in Messages
      PROVE  RowMatches(m, row[m])'
  <2>1. PICK c \in Columns : c = row'[m]
    BY <1>0 DEF TypeOK
  <2>2. RowMatches(m, c)
    BY <2>1, RowMatchStep
  <2>3. RowMatches(m, c)'
    BY <1>0, <2>2, RowMatchKept
  <2> QED BY <2>1, <2>3
<1>2. ASSUME NEW m \in Messages, NEW kind \in Kinds
      PROVE  EntryMatches(m, kind, index[m][kind])'
  <2>1. PICK e \in Entry : e = index'[m][kind]
    BY <1>0 DEF TypeOK
  <2>2. EntryMatches(m, kind, e)
    BY <2>1, EntryMatchStep
  <2>3. EntryMatches(m, kind, e)'
    BY <1>0, <2>2, EntryMatchKept
  <2> QED BY <2>1, <2>3
<1> QED BY <1>1, <1>2, JobMatchStep DEF MatchInv

\* What the run checks follows.
LEMMA MatchImplies ==
  ASSUME TypeOK, MatchInv
  PROVE  MatchesAreCurrent /\ FileOfCurrentMedia
<1>1. FileOfCurrentMedia
  BY DEF FileOfCurrentMedia, MatchInv, RowMatches
<1>2. ASSUME NEW m \in Messages, NEW kind \in Kinds, Found(m, kind)
      PROVE  LET e == index[m][kind]
                 x == MediaOf(m, row[m].mver) IN
               /\ e.mver > 0 /\ MediaOf(m, e.mver) = x
               /\ kind # "cached_file" => e.sha = x
  <2> DEFINE e == index[m][kind]
             c == row[m]
  <2>1. RowMatches(m, c) /\ EntryMatches(m, kind, e)
    BY DEF MatchInv
  <2>2. e # NoEntry /\ c.has /\ e.id = c.id /\ (kind = "upload_original" \/ c.path = e.path)
    BY <1>2 DEF Found
  <2>3. Newest(m) \in Nat
    BY LengthTyped
  <2> HIDE DEF e, c
  <2>4. e.mver \in 1..Newest(m)
    BY <2>1, <2>2 DEF EntryMatches
  <2>5. e.mver > 0
    BY <2>3, <2>4
  <2>6. MediaOf(m, e.mver) = MediaOf(m, c.mver)
    <3>1. CASE e.id # None
      BY <2>1, <2>2, <3>1 DEF EntryMatches, RowMatches
    <3>2. CASE e.id = None
      <4>1. kind = "cached_file" /\ e.path # NoPath /\ c.path = e.path
        BY <2>1, <2>2, <3>2 DEF EntryMatches
      <4> QED BY <2>1, <2>2, <4>1 DEF EntryMatches, RowMatches
    <3> QED BY <3>1, <3>2
  <2>7. kind # "cached_file" => e.sha = MediaOf(m, c.mver)
    BY <2>1, <2>2, <2>6 DEF EntryMatches
  <2> QED BY <2>5, <2>6, <2>7 DEF e, c
<1> QED BY <1>1, <1>2 DEF MatchesAreCurrent

\* The inductive invariant, CacheInv with FileInv and MatchInv, holds at the start ...
LEMMA MatchStart ==
  ASSUME CacheAssumption, CacheInit
  PROVE  CacheInv /\ FileInv /\ MatchInv
<1>1. MatchInv
  BY DEF CacheInit, MatchInv, RowMatches, EntryMatches, JobMatches, NoRow, Idle, At
<1> QED BY <1>1, InitInv, FileInit

\* ... and every step keeps it.
LEMMA MatchKept ==
  ASSUME CacheAssumption, OwnFileNames, SyncsFetchMedia, CacheInv, FileInv, MatchInv, [CacheNext]_vars
  PROVE  CacheInv' /\ FileInv' /\ MatchInv'
<1>1. CacheInv'
  BY InvStep
<1>2. CASE CacheNext
  BY <1>1, <1>2, FileInvStep, MatchStep
<1>3. CASE UNCHANGED vars
  <2>1. FileInv'
    BY <1>3 DEF FileInv, FilesByName, FilesTrue, Content, Held, vars
  <2>2. MatchInv'
    BY <1>3 DEF MatchInv, RowMatches, EntryMatches, JobMatches, MediaOf, Newest, vars
  <2> QED BY <1>1, <2>1, <2>2
<1> QED BY <1>2, <1>3

\* media-find returns no entry that was taken for a medium the message no longer
\* has, whichever commands were under way together (store/media_hashes.go): as long
\* as no two media come with one file name and every sync downloads media.
THEOREM MatchesStayCurrent ==
  ASSUME OwnFileNames, SyncsFetchMedia
  PROVE  CacheSpec => []MatchesAreCurrent
<1>1. CacheInit => CacheInv /\ FileInv /\ MatchInv
  BY CacheAssumption, MatchStart
<1>2. CacheInv /\ FileInv /\ MatchInv /\ [CacheNext]_vars => CacheInv' /\ FileInv' /\ MatchInv'
  BY CacheAssumption, MatchKept
<1>3. CacheInv /\ MatchInv => MatchesAreCurrent
  BY MatchImplies DEF CacheInv
<1> QED BY <1>1, <1>2, <1>3, PTL DEF CacheSpec

\* The file a row names is that of the version its media columns describe, under the
\* same conditions: a sync that downloads no media keeps the path of the old medium
\* beside the new columns (store/messages.go:84).
THEOREM FilesStayCurrent ==
  ASSUME OwnFileNames, SyncsFetchMedia
  PROVE  CacheSpec => []FileOfCurrentMedia
<1>1. CacheInit => CacheInv /\ FileInv /\ MatchInv
  BY CacheAssumption, MatchStart
<1>2. CacheInv /\ FileInv /\ MatchInv /\ [CacheNext]_vars => CacheInv' /\ FileInv' /\ MatchInv'
  BY CacheAssumption, MatchKept
<1>3. CacheInv /\ MatchInv => FileOfCurrentMedia
  BY MatchImplies DEF CacheInv
<1> QED BY <1>1, <1>2, <1>3, PTL DEF CacheSpec
====
