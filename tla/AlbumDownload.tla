---------------------------- MODULE AlbumDownload ----------------------------
(***************************************************************************)
(* download-album (internal/commands/media_album_download.go): the items   *)
(* of a cached media group, one DownloadMedia after the other, each with   *)
(* its own outcome, and the one result the command reports for all.  A     *)
(* file gets the name its sender gave it (internal/client/                 *)
(* media_download.go), so that two items may have one name; how a name is  *)
(* published is MediaDestination's matter.  Runs follow each other: a      *)
(* later one finds what earlier ones, interrupted or not, have left.       *)
(***************************************************************************)
EXTENDS Naturals, FiniteSets

CONSTANTS AlbumItems,  \* the messages of the group
          AlbumNames,  \* names of files in the output directory
          MaxRuns      \* bound: runs of the command

Absent  == "absent"  \* no file has the name
Foreign == "foreign" \* a file that has the name holds the medium of no item

ASSUME DownloadAssumption ==
  MaxRuns \in Nat /\ IsFiniteSet(AlbumItems) /\ {Absent, Foreign} \cap AlbumItems = {}

VARIABLES hasMedia,  \* the rows that have media
          sentName,  \* the name its sender gave the file of each item
          cached,    \* the row: none, bare (a path only) or verified
          disk,      \* whose medium the file of each name holds
          active,    \* the command runs
          overwrite, \* --overwrite of this run
          todo,      \* the items the loop has not reached
          status,    \* downloadAlbumItem.Status
          failed,    \* downloadAlbumResult.Failed
          partial,   \* downloadAlbumResult.Partial
          interrupted,    \* canceled
          unfinalized,    \* cacheFinalizationFailed
          albumResult,    \* what the run reports
          runs

downloadVars == <<hasMedia, sentName, cached, disk, active, overwrite, todo, status, failed, partial,
                  interrupted, unfinalized, albumResult, runs>>

Statuses == {"none", "missing", "cached", "downloaded", "skipped", "committed", "failed"}

\* The item's name is taken, by whichever file.
NameTaken(i) == disk[sentName[i]] # Absent

\* What the file of a name may hold: the medium of one of the items so named, or
\* something else.
MayHold(n) == {Absent, Foreign} \cup {i \in AlbumItems : sentName[i] = n}

DownloadInit ==
  /\ hasMedia \in SUBSET AlbumItems
  /\ cached \in [AlbumItems -> {"none", "verified"}]
  /\ \A i \in AlbumItems : cached[i] = "verified" => i \in hasMedia
  /\ sentName \in [AlbumItems -> AlbumNames]
  /\ disk \in [AlbumNames -> AlbumItems \cup {Absent, Foreign}]
  /\ \A n \in AlbumNames : disk[n] \in MayHold(n)
  /\ active = FALSE /\ overwrite = FALSE /\ todo = {}
  /\ status = [i \in AlbumItems |-> "none"]
  /\ failed = 0 /\ partial = FALSE /\ interrupted = FALSE /\ unfinalized = FALSE
  /\ albumResult = "none" /\ runs = 0

\* The plan: rows without media are missing; without --overwrite an item whose
\* row names an identified file needs no download while any file is there.  When
\* nothing is pending the run ends before a client is opened.
Plan ==
  /\ ~active /\ runs < MaxRuns
  /\ runs' = runs + 1
  /\ \E o \in BOOLEAN :
       /\ overwrite' = o
       /\ status' = [i \in AlbumItems |->
            IF i \notin hasMedia THEN "missing"
            ELSE IF ~o /\ cached[i] = "verified" /\ NameTaken(i) THEN "cached"
            ELSE "none"]
  /\ todo' = {i \in AlbumItems : status'[i] = "none"}
  /\ active' = (todo' # {})
  /\ albumResult' = IF todo' = {} THEN "done" ELSE "none"
  /\ failed' = 0 /\ interrupted' = FALSE /\ unfinalized' = FALSE
  /\ partial' = (hasMedia # AlbumItems)
  /\ UNCHANGED <<hasMedia, sentName, cached, disk>>

Settle(i, s) ==
  /\ active /\ i \in todo /\ ~interrupted
  /\ todo' = todo \ {i}
  /\ status' = [status EXCEPT ![i] = s]
  /\ UNCHANGED <<hasMedia, sentName, active, overwrite, albumResult, runs>>

\* The item's file gets its name, in place of any other only with --overwrite.
Publish(i) ==
  /\ overwrite \/ ~NameTaken(i)
  /\ disk' = [disk EXCEPT ![sentName[i]] = i]

\* Mutant of Failure: the result stays whole.
FailureNotPartial(i) ==
  /\ Settle(i, "failed")
  /\ failed' = failed + 1
  /\ interrupted' \in BOOLEAN
  /\ UNCHANGED disk \/ Publish(i)
  /\ UNCHANGED <<cached, partial, unfinalized>>

\* DownloadMedia fails, or the answer about the file it published does not pass
\* validateDownloadMediaResponse; a canceled context ends the loop.
Failure(i) ==
  /\ Settle(i, "failed")
  /\ failed' = failed + 1 /\ partial' = TRUE
  /\ interrupted' \in BOOLEAN
  /\ UNCHANGED disk \/ Publish(i)
  /\ UNCHANGED <<cached, unfinalized>>

\* The file was published but its directory or cleanup was not finished: the
\* path is stored without an identity.
Committed(i) ==
  /\ Settle(i, "committed")
  /\ Publish(i)
  /\ partial' = TRUE
  /\ \/ cached' = [cached EXCEPT ![i] = "bare"] /\ UNCHANGED <<failed, unfinalized>>
     \/ failed' = failed + 1 /\ unfinalized' = TRUE /\ UNCHANGED cached
  /\ UNCHANGED interrupted

\* The row could not be written after the file was published, or found there.
Unrecorded(i) ==
  /\ Settle(i, "committed")
  /\ \/ Publish(i)
     \/ ~overwrite /\ NameTaken(i) /\ UNCHANGED disk
  /\ failed' = failed + 1 /\ partial' = TRUE /\ unfinalized' = TRUE
  /\ UNCHANGED <<cached, interrupted>>

\* A file of that name exists, and is not looked into: its path is stored, the
\* identity is dropped.
Skip(i) ==
  /\ ~overwrite /\ NameTaken(i)
  /\ Settle(i, "skipped")
  /\ cached' = [cached EXCEPT ![i] = "bare"]
  /\ UNCHANGED <<disk, failed, partial, interrupted, unfinalized>>

\* A fresh file; StoreVerifiedDownload leaves the row alone when the message
\* shows another media by now (ErrDownloadedMediaChanged).
Fetch(i) ==
  /\ Settle(i, "downloaded")
  /\ Publish(i)
  /\ cached' \in {cached, [cached EXCEPT ![i] = "verified"]}
  /\ UNCHANGED <<failed, partial, interrupted, unfinalized>>

\* After the loop: a client or cache that does not close is a committed
\* error, then a cancellation counts, then a row that was not written.
Conclude ==
  /\ active /\ (todo = {} \/ interrupted)
  /\ active' = FALSE
  /\ \E closes \in BOOLEAN :
       albumResult' = IF ~closes THEN "committed"
                      ELSE IF interrupted THEN "canceled"
                      ELSE IF unfinalized THEN "committed"
                      ELSE "done"
  /\ UNCHANGED <<hasMedia, sentName, cached, disk, overwrite, todo, status, failed, partial,
                 interrupted, unfinalized, runs>>

\* Between two runs a file is removed, or another put in its place.
Meddle ==
  /\ ~active /\ runs \in 1..MaxRuns - 1
  /\ \E n \in AlbumNames, h \in {Absent, Foreign} :
       disk[n] # h /\ disk' = [disk EXCEPT ![n] = h]
  /\ albumResult' = "none"
  /\ status' = [i \in AlbumItems |-> "none"]
  /\ UNCHANGED <<hasMedia, sentName, cached, active, overwrite, todo, failed, partial,
                 interrupted, unfinalized, runs>>

DownloadNext ==
  \/ Plan \/ Conclude \/ Meddle
  \/ \E i \in AlbumItems :
       Failure(i) \/ Committed(i) \/ Unrecorded(i) \/ Skip(i) \/ Fetch(i)

DownloadSpec == DownloadInit /\ [][DownloadNext]_downloadVars

-----------------------------------------------------------------------------
DownloadTypeOK ==
  /\ hasMedia \subseteq AlbumItems
  /\ sentName \in [AlbumItems -> AlbumNames]
  /\ cached \in [AlbumItems -> {"none", "bare", "verified"}]
  /\ disk \in [AlbumNames -> AlbumItems \cup {Absent, Foreign}]
  /\ \A n \in AlbumNames : disk[n] \in MayHold(n)
  /\ active \in BOOLEAN /\ overwrite \in BOOLEAN
  /\ todo \subseteq AlbumItems
  /\ status \in [AlbumItems -> Statuses]
  /\ failed \in 0..Cardinality(AlbumItems)
  /\ partial \in BOOLEAN /\ interrupted \in BOOLEAN /\ unfinalized \in BOOLEAN
  /\ albumResult \in {"none", "done", "committed", "canceled"}
  /\ runs \in 0..MaxRuns

\* A run that reports success without "partial" has brought every item of the
\* group to an end that is no failure, and the name of each is taken.
WholeMeansAllThere ==
  albumResult = "done" /\ ~partial =>
    \A i \in AlbumItems : status[i] \in {"cached", "skipped", "downloaded"} /\ NameTaken(i)

\* The file of an item reported as downloaded holds that item's medium, unless the
\* run has since replaced it by another item of the same name, as --overwrite
\* allows; and that one is not reported as left alone.
DownloadedIsOwn ==
  \A i \in AlbumItems :
    status[i] = "downloaded" =>
      \/ disk[sentName[i]] = i
      \/ \E j \in AlbumItems \ {i} :
           /\ overwrite /\ sentName[j] = sentName[i] /\ disk[sentName[i]] = j
           /\ status[j] \in {"downloaded", "committed", "failed"}

\* Success never hides a file whose row could not be written.
SuccessIsFinalized == albumResult = "done" => ~unfinalized

\* The one result of download-album is true of all items, over shared names,
\* files of others, and interrupted and repeated runs.
GroupResultHonest ==
  /\ DownloadTypeOK
  /\ WholeMeansAllThere
  /\ DownloadedIsOwn
  /\ SuccessIsFinalized

=============================================================================
