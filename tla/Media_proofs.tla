------------------------------ MODULE Media_proofs ------------------------------
(***************************************************************************)
(* What the modules about media files promise, proved for every number of  *)
(* items, downloads, messages and files: upload-album, download-album, the *)
(* publication of a downloaded file and export with its verification.      *)
(***************************************************************************)
EXTENDS MediaDestination, AlbumUpload, AlbumDownload, Archive, TLAPS,
        FiniteSetTheorems, SequenceTheorems

--------------------------------------------------------------------------------
(* upload-album *)

(* What the command knows at each stage: the items before pos are uploaded as they *)
(* were fingerprinted, nothing is sent before the stage that sends, and the        *)
(* messages are recorded in the order of the items.                                *)
UploadStages ==
  /\ stage = "snapshot" => \A i \in Items : i < pos => snapshot[i] = preflight[i]
  /\ stage = "media" => \A i \in Items : i <= pos => snapshot[i] = preflight[i]
  /\ stage \in {"send", "wait", "extract", "record", "hash"} => snapshot = preflight
  /\ stage \in {"preflight", "snapshot", "media", "send"} => flight = None
  /\ stage \in {"wait", "extract", "record", "hash"} => flight # None
  /\ stage \in {"record", "hash"} => ids = InOrder
  /\ stage \notin {"hash", "end"} => \A i \in Items : hashes[i] = None
  /\ stage # "end" => result = None

AlbumInv == AlbumHonest /\ UploadStages

(* An answer that identifies every message identifies them in the order of the *)
(* items (extractAlbumResponse).                                               *)
LEMMA CorrelatedInOrder ==
  ASSUME NEW a \in Answers \cup {NoAnswer}
  PROVE  Correlated(a) \in {InOrder, << >>}
  BY AlbumAssumption DEF Correlated, Answers, NoAnswer, AlbumAssumption

(* The row of a message is the one of the item it shows (RecordUploadedAlbum). *)
LEMMA RowOfMessage ==
  ASSUME NEW s, \A i \in Items : s[i] = i, NEW m \in Items
  PROVE  (CHOOSE i \in Items : s[i] = m) = m
  OBVIOUS

(* The rows recorded, if any, are those of the items in their order. *)
LEMMA RecordRows ==
  ASSUME Record, \A i \in Items : ids[i] = i
  PROVE  \/ rows' = rows
         \/ /\ rows' \in [Items -> Items]
            /\ \A m \in Items : rows'[m] = m
<1>1. \A m \in Items : (CHOOSE i \in Items : ids[i] = m) = m
  BY RowOfMessage
<1>2. ASSUME rows' = [m \in Items |-> CHOOSE i \in Items : ids[i] = m]
      PROVE  /\ rows' \in [Items -> Items]
             /\ \A m \in Items : rows'[m] = m
  BY <1>1, <1>2, Zenon
<1>3. QED
  BY <1>2, Zenon DEF Record

(* The order of the items is one of the orders an answer may have. *)
LEMMA InOrderType == InOrder \in Orders
  BY DEF InOrder, Orders

(* The inductive invariant holds at the start. *)
LEMMA AlbumInit == UploadInit => AlbumInv
<1> SUFFICES ASSUME UploadInit PROVE AlbumInv
  OBVIOUS
<1> USE AlbumAssumption DEF AlbumAssumption, UploadInit
<1>1. UploadTypeOK
  <2>1. 1 \in Items
    BY DEF Items
  <2>2. rows \in [Items -> Items \cup {0}] /\ hashes \in [Items -> Contents \cup {None}]
    OBVIOUS
  <2>3. preflight \in [Items -> Contents \cup {None}] /\ snapshot \in [Items -> Contents \cup {None}]
    OBVIOUS
  <2>4. QED
    BY <2>1, <2>2, <2>3 DEF UploadTypeOK
<1>2. UploadStages
  BY DEF UploadStages, None
<1>3. QED
  BY <1>1, <1>2 DEF AlbumInv, AlbumHonest, FailureMeansUnsent, SentAsFingerprinted,
    RowsMatchMessages, HashesMatchMessages, None

(* Every step of upload-album preserves the inductive invariant. *)
LEMMA AlbumStep == AlbumInv /\ [UploadNext]_uploadVars => AlbumInv'
<1> SUFFICES ASSUME AlbumInv, [UploadNext]_uploadVars PROVE AlbumInv'
  OBVIOUS
<1> USE AlbumAssumption DEF AlbumAssumption, AlbumInv, AlbumHonest, UploadTypeOK, UploadStages,
    FailureMeansUnsent, SentAsFingerprinted, RowsMatchMessages, HashesMatchMessages,
    Report, Items, None
<1>1. CASE Fingerprint
  BY <1>1 DEF Fingerprint, Advance
<1>2. CASE Snapshot
  BY <1>2 DEF Snapshot
<1>3. CASE UploadMedia
  <2>1. ASSUME stage' = "send" PROVE snapshot = preflight
    BY <1>3, <2>1 DEF UploadMedia
  <2>2. QED
    BY <1>3, <2>1 DEF UploadMedia
<1>4. CASE SendAlbum
  BY <1>4 DEF SendAlbum
<1>5. CASE Decide
  BY <1>5 DEF Decide
<1>6. CASE Refused
  BY <1>6 DEF Refused
<1>7. CASE Unanswered
  BY <1>7 DEF Unanswered
<1>8. CASE Answered
  BY <1>8 DEF Answered
<1>9. CASE Extract
  <2>1. Correlated(answer) \in {InOrder, << >>}
    BY CorrelatedInOrder
  <2>2. QED
    BY <1>9, <2>1, InOrderType DEF Extract
<1>10. CASE Record
  <2>1. /\ stage = "record" /\ ids = InOrder
        /\ UNCHANGED <<pos, source, preflight, snapshot, canceled, flight, answer, ids, hashes>>
        /\ \/ stage' = "hash" /\ UNCHANGED result
           \/ stage' = "end" /\ result' = "committed"
    BY <1>10 DEF Record
  <2>2. \A i \in Items : ids[i] = i
    BY <2>1 DEF InOrder
  <2>3. \/ rows' = rows
        \/ rows' \in [Items -> Items] /\ \A m \in Items : rows'[m] = m
    BY <1>10, <2>2, RecordRows
  <2>4. QED
    BY <2>1, <2>3
<1>11. CASE HashItem
  <2>1. ids[pos] = pos
    BY <1>11 DEF HashItem, InOrder
  <2>2. hashes' \in {[hashes EXCEPT ![pos] = snapshot[pos]], hashes}
    BY <1>11, <2>1 DEF HashItem
  <2>3. /\ hashes' \in [Items -> Contents \cup {None}]
        /\ \A m \in Items : hashes'[m] \in {None, snapshot[m]}
    BY <2>2
  <2>4. /\ stage = "hash" /\ stage' \in {"hash", "end"}
        /\ stage' = "hash" => pos' = pos + 1 /\ pos < AlbumSize /\ result' = result
        /\ stage' = "end" => pos' = pos /\ result' = "done"
        /\ UNCHANGED <<source, preflight, snapshot, canceled, flight, answer, ids, rows>>
    BY <1>11 DEF HashItem
  <2>5. QED
    BY <2>3, <2>4
<1>12. CASE Rewrite
  BY <1>12 DEF Rewrite
<1>13. CASE Cancel
  BY <1>13 DEF Cancel
<1>14. CASE UNCHANGED uploadVars
  BY <1>14 DEF uploadVars
<1>15. QED
  BY <1>1, <1>2, <1>3, <1>4, <1>5, <1>6, <1>7, <1>8, <1>9, <1>10, <1>11, <1>12, <1>13,
     <1>14 DEF UploadNext

(* Whatever upload-album reports is true of what was sent and recorded: a failure    *)
(* means that nothing was sent, the items sent are those fingerprinted, and the rows *)
(* and hashes recorded are those of the messages.                                    *)
THEOREM AlbumIsHonest == UploadSpec => []AlbumHonest
<1>1. AlbumInv => AlbumHonest
  BY DEF AlbumInv
<1>2. QED
  BY <1>1, AlbumInit, AlbumStep, PTL DEF UploadSpec

--------------------------------------------------------------------------------
(* download-album *)

(* The types, but for the number of failures. *)
GroupTypes ==
  /\ hasMedia \subseteq AlbumItems
  /\ sentName \in [AlbumItems -> AlbumNames]
  /\ cached \in [AlbumItems -> {"none", "bare", "verified"}]
  /\ disk \in [AlbumNames -> AlbumItems \cup {Absent, Foreign}]
  /\ \A n \in AlbumNames : disk[n] \in MayHold(n)
  /\ active \in BOOLEAN /\ overwrite \in BOOLEAN
  /\ todo \subseteq AlbumItems
  /\ status \in [AlbumItems -> Statuses]
  /\ failed \in Nat
  /\ partial \in BOOLEAN /\ interrupted \in BOOLEAN /\ unfinalized \in BOOLEAN
  /\ albumResult \in {"none", "done", "committed", "canceled"}
  /\ runs \in 0..MaxRuns

(* The item came to an end that is no failure, and a file has its name. *)
WellOff(i) == status[i] \in {"cached", "skipped", "downloaded"} /\ NameTaken(i)

(* What a run of download-album knows while its loop runs: every failure is of an  *)
(* item that is no longer to do, an item to do has no outcome, one the loop has left *)
(* is well off as long as nothing is partial, and a result is reported only once   *)
(* the loop is over.                                                               *)
GroupInv ==
  /\ GroupTypes
  /\ failed + Cardinality(todo) <= Cardinality(AlbumItems)
  /\ active => albumResult = "none"
  /\ active => \A i \in todo : status[i] = "none"
  /\ active /\ ~partial => \A i \in AlbumItems \ todo : WellOff(i)
  /\ WholeMeansAllThere /\ DownloadedIsOwn /\ SuccessIsFinalized

(* The cardinalities the invariant speaks of are natural numbers. *)
LEMMA GroupCounts ==
  ASSUME GroupTypes
  PROVE  /\ IsFiniteSet(todo) /\ IsFiniteSet(AlbumItems)
         /\ Cardinality(todo) \in Nat /\ Cardinality(AlbumItems) \in Nat
<1>1. IsFiniteSet(todo) /\ IsFiniteSet(AlbumItems)
  BY DownloadAssumption, FS_Subset DEF GroupTypes, DownloadAssumption
<1>2. QED
  BY <1>1, FS_CardinalityType

(* Failures are bounded by the items that are no longer to do. *)
LEMMA GroupImplies == GroupInv => GroupResultHonest
<1> SUFFICES ASSUME GroupInv PROVE GroupResultHonest
  OBVIOUS
<1>1. Cardinality(todo) \in Nat /\ Cardinality(AlbumItems) \in Nat
  BY GroupCounts DEF GroupInv
<1>2. failed \in Nat /\ failed + Cardinality(todo) <= Cardinality(AlbumItems)
  BY DEF GroupInv, GroupTypes
<1>3. failed \in 0..Cardinality(AlbumItems)
  BY <1>1, <1>2
<1>4. QED
  BY <1>3 DEF GroupInv, GroupTypes, GroupResultHonest, DownloadTypeOK

(* One item less to do. *)
LEMMA SettledCount ==
  ASSUME GroupTypes, NEW i \in todo, todo' = todo \ {i}
  PROVE  /\ Cardinality(todo) \in Nat /\ Cardinality(AlbumItems) \in Nat
         /\ Cardinality(todo') \in Nat
         /\ Cardinality(todo') = Cardinality(todo) - 1
<1>1. IsFiniteSet(todo') /\ Cardinality(todo') = Cardinality(todo) - 1
  BY GroupCounts, FS_RemoveElement
<1>2. QED
  BY <1>1, GroupCounts, FS_CardinalityType

(* The invariant holds before the first run. *)
LEMMA GroupInit == DownloadInit => GroupInv
<1> SUFFICES ASSUME DownloadInit PROVE GroupInv
  OBVIOUS
<1> USE DownloadAssumption DEF DownloadAssumption
<1>1. /\ disk \in [AlbumNames -> AlbumItems \cup {Absent, Foreign}]
      /\ \A n \in AlbumNames : disk[n] \in MayHold(n)
      /\ sentName \in [AlbumItems -> AlbumNames]
  BY Zenon DEF DownloadInit
<1>2. cached \in [AlbumItems -> {"none", "bare", "verified"}]
  BY DEF DownloadInit
<1>3. /\ hasMedia \subseteq AlbumItems /\ status \in [AlbumItems -> Statuses]
      /\ active = FALSE /\ overwrite = FALSE /\ todo = {} /\ failed = 0 /\ partial = FALSE
      /\ interrupted = FALSE /\ unfinalized = FALSE /\ albumResult = "none"
      /\ failed \in Nat /\ runs \in 0..MaxRuns
  BY DEF DownloadInit, Statuses
<1>6. GroupTypes
  BY <1>1, <1>2, <1>3, Zenon DEF GroupTypes
<1>4. failed + Cardinality(todo) <= Cardinality(AlbumItems)
  BY FS_EmptySet, FS_CardinalityType DEF DownloadInit
<1>5. DownloadedIsOwn
  BY DEF DownloadInit, DownloadedIsOwn
<1>7. QED
  BY <1>3, <1>4, <1>5, <1>6 DEF GroupInv, WholeMeansAllThere, SuccessIsFinalized

(* What a file holds is one of the things it may hold, whichever item is stored under *)
(* its own name.                                                                      *)
LEMMA PublishTypes ==
  ASSUME GroupTypes, NEW i \in AlbumItems, Publish(i) \/ UNCHANGED disk, sentName' = sentName
  PROVE  /\ disk' \in [AlbumNames -> AlbumItems \cup {Absent, Foreign}]
         /\ \A n \in AlbumNames : disk'[n] \in MayHold(n)'
         /\ \A j \in AlbumItems : NameTaken(j) => NameTaken(j)'
         /\ Publish(i) => NameTaken(i)'
BY DownloadAssumption DEF DownloadAssumption, GroupTypes, Publish, MayHold, NameTaken

(* An item that is settled leaves every file a download reported its own, or replaced *)
(* by another of its name.                                                            *)
LEMMA SettleKeepsOwn ==
  ASSUME GroupInv, NEW i \in todo, NEW s \in Statuses \ {"none"}, Settle(i, s),
         \/ UNCHANGED disk /\ s # "downloaded"
         \/ Publish(i) /\ s \in {"downloaded", "committed", "failed"}
  PROVE  DownloadedIsOwn'
<1> USE DEF GroupInv, GroupTypes, DownloadedIsOwn
<1>1. /\ i \in AlbumItems /\ status[i] = "none" /\ status' = [status EXCEPT ![i] = s]
      /\ overwrite' = overwrite /\ sentName' = sentName
  BY DEF Settle
<1>2. SUFFICES ASSUME NEW k \in AlbumItems, status'[k] = "downloaded"
      PROVE  \/ disk'[sentName[k]] = k
             \/ \E j \in AlbumItems \ {k} :
                  /\ overwrite /\ sentName[j] = sentName[k] /\ disk'[sentName[k]] = j
                  /\ status'[j] \in {"downloaded", "committed", "failed"}
  BY <1>1
<1>3. CASE UNCHANGED disk /\ s # "downloaded"
  <2>1. k # i /\ status[k] = "downloaded"
    BY <1>1, <1>2, <1>3
  <2>2. CASE disk[sentName[k]] = k
    BY <1>3, <2>2
  <2>3. CASE disk[sentName[k]] # k
    <3>1. PICK j \in AlbumItems \ {k} :
            /\ overwrite /\ sentName[j] = sentName[k] /\ disk[sentName[k]] = j
            /\ status[j] \in {"downloaded", "committed", "failed"}
      BY <2>1, <2>3
    <3>2. status'[j] = status[j]
      BY <1>1, <3>1
    <3>3. QED
      BY <1>3, <3>1, <3>2
  <2>4. QED
    BY <2>2, <2>3
<1>4. CASE Publish(i) /\ s \in {"downloaded", "committed", "failed"}
  <2>1. /\ overwrite \/ disk[sentName[i]] = Absent
        /\ disk' = [disk EXCEPT ![sentName[i]] = i]
    BY <1>4 DEF Publish, NameTaken
  <2>2. CASE k = i
    BY <1>1, <2>1, <2>2
  <2>3. CASE k # i /\ sentName[k] = sentName[i]
    <3>1. status[k] = "downloaded"
      BY <1>1, <1>2, <2>3
    <3>2. disk[sentName[k]] \in AlbumItems
      BY <3>1
    <3>3. overwrite
      BY <2>1, <2>3, <3>2, DownloadAssumption DEF DownloadAssumption
    <3>4. disk'[sentName[k]] = i /\ status'[i] = s
      BY <1>1, <2>1, <2>3
    <3>5. QED
      BY <1>1, <1>4, <2>3, <3>3, <3>4
  <2>4. CASE k # i /\ sentName[k] # sentName[i]
    <3>1. status[k] = "downloaded" /\ disk'[sentName[k]] = disk[sentName[k]]
      BY <1>1, <1>2, <2>1, <2>4
    <3>2. CASE disk[sentName[k]] = k
      BY <3>1, <3>2
    <3>3. CASE disk[sentName[k]] # k
      <4>1. PICK j \in AlbumItems \ {k} :
              /\ overwrite /\ sentName[j] = sentName[k] /\ disk[sentName[k]] = j
              /\ status[j] \in {"downloaded", "committed", "failed"}
        BY <3>1, <3>3
      <4>2. status'[j] = status[j]
        BY <1>1, <4>1
      <4>3. QED
        BY <3>1, <4>1, <4>2
    <3>4. QED
      BY <3>2, <3>3
  <2>5. QED
    BY <2>2, <2>3, <2>4
<1>5. QED
  BY <1>3, <1>4

(* Every step of download-album, and of others between its runs, preserves the *)
(* inductive invariant.                                                        *)
LEMMA GroupStep == GroupInv /\ [DownloadNext]_downloadVars => GroupInv'
<1> SUFFICES ASSUME GroupInv, [DownloadNext]_downloadVars PROVE GroupInv'
  OBVIOUS
<1> USE DownloadAssumption DEF DownloadAssumption, GroupInv, GroupTypes,
    WholeMeansAllThere, SuccessIsFinalized, WellOff
<1>1. CASE Plan
  <2>1. /\ Cardinality(todo') \in Nat /\ Cardinality(todo') <= Cardinality(AlbumItems)
        /\ todo' = {i \in AlbumItems : status'[i] = "none"}
        /\ todo' \subseteq AlbumItems /\ Cardinality(AlbumItems) \in Nat
    BY <1>1, FS_Subset, FS_CardinalityType DEF Plan
  <2>2. PICK o \in BOOLEAN :
          /\ overwrite' = o
          /\ status' = [i \in AlbumItems |->
               IF i \notin hasMedia THEN "missing"
               ELSE IF ~o /\ cached[i] = "verified" /\ NameTaken(i) THEN "cached"
               ELSE "none"]
    BY <1>1, Zenon DEF Plan
  <2>3. /\ status' \in [AlbumItems -> Statuses]
        /\ \A i \in AlbumItems : status'[i] # "none" =>
             i \notin hasMedia \/ (status'[i] = "cached" /\ NameTaken(i))
        /\ \A i \in AlbumItems : status'[i] # "downloaded"
    BY <2>2 DEF Statuses
  <2> DEFINE SameRows == UNCHANGED <<hasMedia, sentName, cached, disk>>
  <2>11. /\ runs < MaxRuns /\ runs' = runs + 1
         /\ active' = (todo' # {}) /\ albumResult' = IF todo' = {} THEN "done" ELSE "none"
         /\ partial' = (hasMedia # AlbumItems)
         /\ failed' = 0 /\ interrupted' = FALSE /\ unfinalized' = FALSE
         /\ SameRows
    BY <1>1, Zenon DEF Plan
  <2>12. runs' \in 0..MaxRuns
    <3>1. runs \in 0..MaxRuns /\ MaxRuns \in Nat
      OBVIOUS
    <3>2. QED
      BY <2>11, <3>1
  <2>5. /\ runs' \in 0..MaxRuns /\ active' \in BOOLEAN /\ partial' \in BOOLEAN
        /\ active' => albumResult' = "none"
        /\ albumResult' = "done" => todo' = {}
        /\ albumResult' \in {"none", "done"}
        /\ partial' = (hasMedia # AlbumItems)
        /\ failed' = 0 /\ interrupted' = FALSE /\ unfinalized' = FALSE
        /\ UNCHANGED <<hasMedia, sentName, cached, disk>>
    BY <2>11, <2>12
  <2>4. ASSUME ~partial', NEW i \in AlbumItems, i \notin todo' PROVE WellOff(i)'
    BY <2>1, <2>3, <2>4, <2>5 DEF NameTaken
  <2>6. GroupTypes'
    <3>1. \A n \in AlbumNames : disk'[n] \in MayHold(n)'
      BY <2>5 DEF MayHold
    <3>2. QED
      BY <2>1, <2>2, <2>3, <2>5, <3>1
  <2>7. WholeMeansAllThere' /\ SuccessIsFinalized'
    BY <2>4, <2>5
  <2>8. failed' + Cardinality(todo') <= Cardinality(AlbumItems)
    BY <2>1, <2>5
  <2>9. DownloadedIsOwn'
    BY <2>3 DEF DownloadedIsOwn
  <2>10. QED
    BY <2>1, <2>4, <2>5, <2>6, <2>7, <2>8, <2>9
<1>2. CASE Conclude
  <2>1. /\ albumResult' \in {"done", "committed", "canceled"} /\ active' = FALSE
        /\ albumResult' = "done" => todo = {} /\ ~unfinalized
        /\ active
        /\ UNCHANGED <<hasMedia, sentName, cached, disk, overwrite, todo, status, failed,
                       partial, interrupted, unfinalized, runs>>
    BY <1>2 DEF Conclude
  <2>2. GroupTypes' /\ DownloadedIsOwn'
    BY <2>1 DEF MayHold, DownloadedIsOwn
  <2>3. QED
    BY <2>1, <2>2 DEF NameTaken
<1>3. CASE Meddle
  <2>1. PICK n \in AlbumNames, h \in {Absent, Foreign} : disk' = [disk EXCEPT ![n] = h]
    BY <1>3 DEF Meddle
  <2>2. /\ ~active /\ active' = active /\ albumResult' = "none"
        /\ status' = [i \in AlbumItems |-> "none"]
        /\ UNCHANGED <<hasMedia, sentName, cached, overwrite, todo, failed, partial,
                       interrupted, unfinalized, runs>>
    BY <1>3 DEF Meddle
  <2>3. /\ disk' \in [AlbumNames -> AlbumItems \cup {Absent, Foreign}]
        /\ \A m \in AlbumNames : disk'[m] \in MayHold(m)'
    BY <2>1, <2>2 DEF MayHold
  <2>4. status' \in [AlbumItems -> Statuses]
    BY <2>2 DEF Statuses
  <2>5. GroupTypes'
    BY <2>2, <2>3, <2>4
  <2>6. DownloadedIsOwn'
    BY <2>2 DEF DownloadedIsOwn
  <2>7. QED
    BY <2>2, <2>5, <2>6
<1>4. ASSUME NEW i \in AlbumItems, \/ Failure(i) \/ Committed(i) \/ Unrecorded(i)
                                   \/ Skip(i) \/ Fetch(i)
      PROVE  GroupInv'
  <2>1. PICK s \in Statuses \ {"none"} :
          /\ Settle(i, s)
          /\ \/ UNCHANGED disk /\ s # "downloaded"
             \/ Publish(i) /\ s \in {"downloaded", "committed", "failed"}
          /\ partial' = TRUE \/ (partial' = partial /\ s \in {"skipped", "downloaded"})
          /\ s = "skipped" => NameTaken(i)
    BY <1>4 DEF Failure, Committed, Unrecorded, Skip, Fetch, Statuses
  <2>2. /\ i \in todo /\ todo' = todo \ {i} /\ failed' \in {failed, failed + 1}
        /\ active /\ active' = active /\ albumResult' = albumResult
        /\ status' = [status EXCEPT ![i] = s]
        /\ UNCHANGED <<hasMedia, sentName, overwrite, runs>>
    BY <1>4, <2>1 DEF Failure, Committed, Unrecorded, Skip, Fetch, Settle
  <2>3. /\ cached' \in [AlbumItems -> {"none", "bare", "verified"}]
        /\ interrupted' \in BOOLEAN /\ unfinalized' \in BOOLEAN
    BY <1>4 DEF Failure, Committed, Unrecorded, Skip, Fetch
  <2>4. /\ disk' \in [AlbumNames -> AlbumItems \cup {Absent, Foreign}]
        /\ \A n \in AlbumNames : disk'[n] \in MayHold(n)'
        /\ \A j \in AlbumItems : NameTaken(j) => NameTaken(j)'
        /\ Publish(i) => NameTaken(i)'
    BY <2>1, <2>2, PublishTypes
  <2>5. GroupTypes'
    <3>1. failed \in Nat
      OBVIOUS
    <3>4. failed' \in Nat
      BY <2>2, <3>1
    <3>5. status' \in [AlbumItems -> Statuses] /\ todo' \subseteq AlbumItems
      BY <2>2
    <3>6. partial' \in BOOLEAN
      BY <2>1, Zenon
    <3>2. /\ hasMedia' \subseteq AlbumItems /\ sentName' \in [AlbumItems -> AlbumNames]
          /\ active' \in BOOLEAN /\ overwrite' \in BOOLEAN /\ runs' \in 0..MaxRuns
          /\ albumResult' \in {"none", "done", "committed", "canceled"}
      BY <2>2
    <3>3. QED
      BY <2>3, <2>4, <3>2, <3>4, <3>5, <3>6, Zenon
  <2>6. failed' + Cardinality(todo') <= Cardinality(AlbumItems)
    <3>1. /\ Cardinality(todo) \in Nat /\ Cardinality(AlbumItems) \in Nat
          /\ Cardinality(todo') = Cardinality(todo) - 1
      BY <2>2, SettledCount
    <3>2. failed \in Nat /\ failed + Cardinality(todo) <= Cardinality(AlbumItems)
      OBVIOUS
    <3>3. QED
      BY <2>2, <3>1, <3>2
  <2>7. ASSUME ~partial', NEW j \in AlbumItems, j \notin todo' PROVE WellOff(j)'
    <3>1. CASE j = i
      BY <2>1, <2>2, <2>4, <2>7, <3>1
    <3>2. CASE j # i
      <4>1. ~partial /\ status'[j] = status[j]
        BY <2>1, <2>2, <2>7, <3>2
      <4>2. j \notin todo
        BY <2>2, <2>7, <3>2
      <4>3. WellOff(j)
        BY <2>2, <4>1, <4>2
      <4>4. QED
        BY <2>4, <4>1, <4>3
    <3>3. QED
      BY <3>1, <3>2
  <2>8. DownloadedIsOwn'
    BY <2>1, <2>2, SettleKeepsOwn
  <2>9. \A j \in todo' : status'[j] = "none"
    BY <2>2
  <2>10. QED
    BY <2>2, <2>5, <2>6, <2>7, <2>8, <2>9
<1>5. CASE UNCHANGED downloadVars
  BY <1>5 DEF downloadVars, MayHold, NameTaken, DownloadedIsOwn
<1>6. QED
  BY <1>1, <1>2, <1>3, <1>4, <1>5 DEF DownloadNext

(* A success without "partial" has a file for every item; a file reported downloaded *)
(* holds its item's medium, or that of a later item of the same name; a success is   *)
(* recorded in the cache: in any order of the items, whichever names they share.     *)
THEOREM GroupResultIsHonest == DownloadSpec => []GroupResultHonest
<1>1. QED
  BY GroupImplies, GroupInit, GroupStep, PTL DEF DownloadSpec

--------------------------------------------------------------------------------
(* Publication of a downloaded file *)

(* A download that has not written anything yet has no name and removed nothing. *)
Fresh(d) == at[d] \in {"start", "create"} =>
  /\ part[d] = NoFile /\ ~dirty[d]
  /\ \A n \in NamesOf(d) : dir[n] = NoFile
  /\ \A r \in removed : r[1] # d
(* The stages at which a download has a part file. *)
Working == Places \ {"start", "create", "end", "crashed"}
(* Where the names of a download stand at each of its stages. *)
PartName(d) ==
  /\ at[d] \in Working => part[d] # NoFile
  /\ at[d] \in {"publish", "collide", "verify", "identify", "dispose", "rollback", "finish", "unlink"}
       => dir[Part(d)] = NoFile
(* The private name holds the part, and after an exchange the target. *)
PrivName(d) ==
  /\ at[d] \in {"write", "sync", "target", "validate", "capture"} => dir[Priv(d)] = NoFile
  /\ at[d] \in {"publish", "collide"} => dir[Priv(d)] = part[d]
  /\ at[d] = "uncapture" => dir[Priv(d)] # NoFile /\ files[dir[Priv(d)]].owner = "user"
  /\ at[d] \in {"verify", "identify"} => (Exchanges(d) <=> dir[Priv(d)] # NoFile)
  /\ at[d] = "rollback" => Exchanges(d) /\ dir[Priv(d)] # NoFile
  /\ at[d] = "dispose" => Exchanges(d) /\ dir[Priv(d)] = target[d]
  /\ at[d] \in {"finish", "unlink", "reinstate"} => dirty[d] \/ dir[Priv(d)] = NoFile
  /\ at[d] = "abort" => dirty[d] \/ dir[Priv(d)] = NoFile \/ dir[Part(d)] = NoFile
(* The quarantine name holds the part while it is removed. *)
QuarName(d) ==
  /\ at[d] \notin {"unlink", "reinstate", "end", "crashed"} => dir[Quar(d)] = NoFile
  /\ at[d] = "unlink" => dir[Quar(d)] = part[d]
(* Nothing is reported before the end. *)
Ended(d) ==
  /\ pub[d] \/ outcome[d] # "none" => at[d] = "end"
  /\ outcome[d] = "failed" => ~pub[d]
(* The files: each download has at most one, its part. *)
PartOwned(d) ==
  /\ part[d] # NoFile => files[part[d]].owner = d
  /\ at[d] \in {"sync", "target", "validate", "capture"} => files[part[d]].whole
  /\ at[d] \in {"target", "validate", "capture"} => files[part[d]].synced
  /\ \A n \in {Part(d), Quar(d)} :
       dir[n] \in {NoFile, part[d]} \/ files[dir[n]].owner = "user"
(* Every file that a download made is its part. *)
Owned == \A f \in FileIds : files[f].owner = "user" \/ part[files[f].owner] = f
(* A file has one name. *)
OneName == \A a, b \in Names : dir[a] = dir[b] /\ dir[a] # NoFile => a = b
(* What has the final name or a private one is written and synced. *)
Complete == \A n \in {Final} \cup {Priv(d) : d \in Downloads} :
  dir[n] # NoFile /\ files[dir[n]].owner # "user" => files[dir[n]].whole /\ files[dir[n]].synced
(* The stages at which the part has not been given the final name. *)
Unpublished(d) ==
  \/ at[d] \in {"write", "sync", "target", "validate", "capture"}
  \/ ~over[d] /\ at[d] \notin {"verify", "identify", "finish", "crashed"} /\ ~pub[d]
Hidden == \A d \in Downloads : Unpublished(d) /\ part[d] # NoFile =>
  \A n \in Names : dir[n] = part[d] => n \in NamesOf(d)
(* A download without --overwrite that has published. *)
Winner(d) == ~over[d] /\ (at[d] \in {"verify", "identify", "finish"} \/ pub[d])
Won == other = 0 => \A d \in Downloads : Winner(d) =>
    dir[Final] # NoFile /\ \A e \in Downloads : Winner(e) => e = d
(* The inductive invariant: what is true of each download, and of all of them. *)
Local(d) == Fresh(d) /\ PartName(d) /\ PrivName(d) /\ QuarName(d) /\ Ended(d) /\ PartOwned(d)
Shared == Owned /\ OneName /\ Complete /\ Hidden /\ Won
PublicationInv ==
  /\ TypeOK /\ NoForeignFileRemoved /\ CleanEndLeavesNothing
  /\ \A d \in Downloads : Local(d)
  /\ Shared

(* The names of the directory are all different. *)
LEMMA NamesApart ==
  /\ Final \in Names
  /\ \A d \in Downloads : /\ Part(d) \in Names /\ Priv(d) \in Names /\ Quar(d) \in Names
                          /\ Part(d) # Final /\ Priv(d) # Final /\ Quar(d) # Final
  /\ \A d, e \in Downloads :
       /\ Part(d) # Priv(e) /\ Part(d) # Quar(e) /\ Priv(d) # Quar(e)
       /\ d # e => Part(d) # Part(e) /\ Priv(d) # Priv(e) /\ Quar(d) # Quar(e)
<1>1. Final \in Names
  BY DEF Names
<1>2. ASSUME NEW d \in Downloads
      PROVE  /\ Part(d) \in Names /\ Priv(d) \in Names /\ Quar(d) \in Names
             /\ Part(d) # Final /\ Priv(d) # Final /\ Quar(d) # Final
  <2>1. NamesOf(d) \subseteq Names
    BY DEF Names
  <2>2. Part(d) # Final /\ Priv(d) # Final /\ Quar(d) # Final
    BY DEF Part, Priv, Quar, Final
  <2>3. QED
    BY <2>1, <2>2 DEF NamesOf
<1>3. ASSUME NEW d \in Downloads, NEW e \in Downloads
      PROVE  /\ Part(d) # Priv(e) /\ Part(d) # Quar(e) /\ Priv(d) # Quar(e)
             /\ d # e => Part(d) # Part(e) /\ Priv(d) # Priv(e) /\ Quar(d) # Quar(e)
  BY DEF Part, Priv, Quar
<1>4. QED
  BY <1>1, <1>2, <1>3

(* Every name but the final one belongs to a download. *)
LEMMA NameOwner ==
  ASSUME NEW n \in Names
  PROVE  \/ n = Final
         \/ \E d \in Downloads : n \in {Part(d), Priv(d), Quar(d)}
  BY DEF Names, NamesOf

(* A file of the directory. *)
FileType == [owner : Downloads \cup {"user"}, kind : Kinds, whole : BOOLEAN, synced : BOOLEAN]

(* A file added at the end leaves the others as they were. *)
LEMMA FileAdded ==
  ASSUME TypeOK, NEW o \in Downloads \cup {"user"}, NEW k \in Kinds,
         files' = Append(files, File(o, k))
  PROVE  /\ files' \in Seq(FileType) /\ Len(files') = Len(files) + 1
         /\ Len(files) \in Nat /\ FileIds \subseteq FileIds' /\ Len(files) + 1 \in FileIds'
         /\ files'[Len(files) + 1] = File(o, k)
         /\ \A f \in FileIds : files'[f] = files[f]
         /\ \A f \in FileIds' : f \in FileIds \/ f = Len(files) + 1
<1>1. File(o, k) \in FileType
  BY DEF File, FileType
<1>2. files \in Seq(FileType)
  BY DEF TypeOK, FileType
<1>3. /\ files' \in Seq(FileType) /\ Len(files') = Len(files) + 1
      /\ Len(files) \in Nat /\ files'[Len(files) + 1] = File(o, k)
      /\ \A f \in 1..Len(files) : files'[f] = files[f]
  BY <1>1, <1>2, AppendProperties
<1>4. QED
  BY <1>3 DEF FileIds

(* A file rewritten in place leaves the others as they were. *)
LEMMA FileWritten ==
  ASSUME TypeOK, NEW f \in FileIds, NEW v \in FileType, files' = [files EXCEPT ![f] = v]
  PROVE  /\ files' \in Seq(FileType) /\ FileIds' = FileIds
         /\ files'[f] = v /\ \A g \in FileIds : g # f => files'[g] = files[g]
<1>1. files \in Seq(FileType)
  BY DEF TypeOK, FileType
<1>2. QED
  BY <1>1, ExceptSeq DEF FileIds

(* What is found under a file's number is a file. *)
LEMMA FileRead ==
  ASSUME TypeOK, NEW f \in FileIds
  PROVE  files[f] \in FileType
<1>1. files \in Seq(FileType)
  BY DEF TypeOK, FileType
<1>2. QED
  BY <1>1, ElementOfSeq DEF FileIds

(* A download at work has a part, and the targets and private files it removes *)
(* are files.                                                                  *)
LEMMA WorkingPart ==
  ASSUME TypeOK, NEW d \in Downloads, Local(d), at[d] \in Working
  PROVE  /\ part[d] \in FileIds
         /\ at[d] = "dispose" => dir[Priv(d)] \in FileIds
         /\ at[d] = "unlink" => dir[Quar(d)] \in FileIds
<1>1. \A f \in Maybe : f # NoFile => f \in FileIds
  BY DEF Maybe
<1>2. part[d] \in Maybe /\ part[d] # NoFile /\ target[d] \in Maybe
  BY DEF TypeOK, Local, PartName
<1>3. at[d] = "dispose" => dir[Priv(d)] = target[d] /\ target[d] # NoFile
  BY DEF Local, PrivName, Exchanges
<1>4. at[d] = "unlink" => dir[Quar(d)] = part[d]
  BY DEF Local, QuarName
<1>5. QED
  BY <1>1, <1>2, <1>3, <1>4

(* What the types of a step come to when no file is created or written. *)
LEMMA TypesKept ==
  ASSUME PublicationInv, files' = files, other' \in 0..MaxOther, over' = over,
         dir' \in [Names -> Maybe], at' \in [Downloads -> Places],
         target' \in [Downloads -> Maybe], part' \in [Downloads -> Maybe],
         dirty' \in [Downloads -> BOOLEAN], met' \in [Downloads -> Kinds \cup {"none"}],
         pub' \in [Downloads -> BOOLEAN], ident' \in [Downloads -> Maybe],
         outcome' \in [Downloads -> Outcomes], removed' \subseteq (Downloads \X FileIds)
  PROVE  TypeOK'
<1>1. FileIds' = FileIds /\ Maybe' = Maybe
  BY DEF FileIds, Maybe
<1>2. QED
  BY <1>1 DEF PublicationInv, TypeOK

(* Every action keeps the types. *)
LEMMA TypeStep ==
  ASSUME PublicationInv, NEW d \in Downloads, Step(d) \/ Crash(d)
  PROVE  TypeOK'
<1> USE DestinationAssumption DEF DestinationAssumption, Go, Fail, Moved, Exchanged, Fixed
<1>0. /\ TypeOK /\ Local(d) /\ other \in 0..MaxOther
      /\ Final \in Names /\ Part(d) \in Names /\ Priv(d) \in Names /\ Quar(d) \in Names
  BY NamesApart DEF PublicationInv, TypeOK
<1>1. CASE Inspect(d)
  <2>1. dir[Final] \in Maybe
    BY <1>0 DEF TypeOK
  <2>2. /\ target' \in [Downloads -> Maybe] /\ ident' \in [Downloads -> Maybe]
        /\ at' \in [Downloads -> Places] /\ outcome' \in [Downloads -> Outcomes]
    BY <1>0, <1>1, <2>1 DEF Inspect, TypeOK, Places, Outcomes
  <2>3. QED
    BY <1>0, <1>1, <2>2, TypesKept DEF Inspect, TypeOK
<1>2. CASE Unsupported(d)
  BY <1>0, <1>2, TypesKept DEF Unsupported, TypeOK, Places, Outcomes, Maybe
<1>3. CASE SyncFails(d)
  BY <1>0, <1>3, TypesKept DEF SyncFails, TypeOK, Places, Outcomes, Maybe
<1>4. CASE ValidateTarget(d)
  BY <1>0, <1>4, TypesKept DEF ValidateTarget, TypeOK, Places, Outcomes, Maybe
<1>5. CASE ValidatePart(d)
  BY <1>0, <1>5, TypesKept DEF ValidatePart, TypeOK, Places, Outcomes, Maybe
<1>6. CASE ProbeFails(d)
  BY <1>0, <1>6, TypesKept DEF ProbeFails, TypeOK, Places, Outcomes, Maybe
<1>7. CASE Collide(d)
  <2>1. dir[Final] \in Maybe
    BY <1>0 DEF TypeOK
  <2>2. dir[Final] # NoFile => files[dir[Final]].kind \in Kinds
    BY <1>0, <2>1, FileRead DEF Maybe, FileType
  <2>3. /\ met' \in [Downloads -> Kinds \cup {"none"}] /\ ident' \in [Downloads -> Maybe]
        /\ at' \in [Downloads -> Places]
    BY <1>0, <1>7, <2>1, <2>2 DEF Collide, TypeOK, Places
  <2>4. QED
    BY <1>0, <1>7, <2>3, TypesKept DEF Collide, TypeOK
<1>8. CASE Verify(d)
  BY <1>0, <1>8, TypesKept DEF Verify, TypeOK, Places, Outcomes, Maybe, Changed
<1>9. CASE Identify(d)
  BY <1>0, <1>9, TypesKept DEF Identify, TypeOK, Places, Outcomes, Maybe, Kinds, Regular, FileIds, Changed
<1>10. CASE Finish(d)
  BY <1>0, <1>10, TypesKept DEF Finish, TypeOK, Places, Outcomes, Maybe
<1>11. CASE Crash(d)
  BY <1>0, <1>11, TypesKept DEF Crash, TypeOK, Places, Outcomes, Maybe
<1>12. CASE Capture(d)
  BY <1>0, <1>12, TypesKept DEF Capture, TypeOK, Places, Outcomes, Maybe
<1>13. CASE Uncapture(d)
  BY <1>0, <1>13, TypesKept DEF Uncapture, TypeOK, Places, Outcomes, Maybe
<1>14. CASE PublishAbsent(d)
  BY <1>0, <1>14, TypesKept DEF PublishAbsent, TypeOK, Places, Outcomes, Maybe
<1>15. CASE Exchange(d)
  BY <1>0, <1>15, TypesKept DEF Exchange, TypeOK, Places, Outcomes, Maybe
<1>16. CASE Dispose(d)
  <2>1. dir[Priv(d)] \in FileIds
    BY <1>0, <1>16, WorkingPart DEF Dispose, Working, Places
  <2>2. removed' \subseteq (Downloads \X FileIds)
    BY <1>0, <1>16, <2>1 DEF Dispose, TypeOK
  <2>3. QED
    BY <1>0, <1>16, <2>2, TypesKept DEF Dispose, TypeOK, Places, Outcomes, Maybe, Result
<1>17. CASE Rollback(d)
  <2>1. dir' \in [Names -> Maybe] /\ at' \in [Downloads -> Places] /\ dirty' \in [Downloads -> BOOLEAN]
    BY <1>0, <1>17 DEF Rollback, TypeOK, Places
  <2>2. QED
    BY <1>0, <1>17, <2>1, TypesKept DEF Rollback, TypeOK
<1>18. CASE Restore(d)
  BY <1>0, <1>18, TypesKept DEF Restore, TypeOK, Places, Outcomes, Maybe
<1>19. CASE Abort(d)
  BY <1>0, <1>19, TypesKept DEF Abort, TypeOK, Places, Outcomes, Maybe
<1>20. CASE Unlink(d)
  <2>1. dir[Quar(d)] \in FileIds
    BY <1>0, <1>20, WorkingPart DEF Unlink, Working, Places
  <2>2. removed' \subseteq (Downloads \X FileIds)
    BY <1>0, <1>20, <2>1 DEF Unlink, TypeOK
  <2>3. QED
    BY <1>0, <1>20, <2>2, TypesKept DEF Unlink, TypeOK, Places, Outcomes, Maybe, Result
<1>21. CASE Reinstate(d)
  BY <1>0, <1>21, TypesKept DEF Reinstate, TypeOK, Places, Outcomes, Maybe
<1>22. CASE CreatePart(d)
  <2>1. /\ files' \in Seq(FileType) /\ FileIds \subseteq FileIds' /\ Len(files) + 1 \in FileIds'
    BY <1>0, <1>22, FileAdded DEF CreatePart, Kinds
  <2>2. Maybe \subseteq Maybe' /\ Len(files) + 1 \in Maybe'
    BY <2>1 DEF Maybe
  <2>3. QED
    BY <1>0, <1>22, <2>1, <2>2 DEF CreatePart, TypeOK, FileType, Places
<1>23. CASE Transfer(d)
  <2>1. PICK ok \in BOOLEAN : /\ files' = [files EXCEPT ![part[d]].whole = ok]
                              /\ Go(d, IF ok THEN "sync" ELSE "abort")
    BY <1>23 DEF Transfer
  <2>2. part[d] \in FileIds /\ files[part[d]] \in FileType
    BY <1>0, <1>23, WorkingPart, FileRead DEF Transfer, Working, Places
  <2>3. files' \in Seq(FileType) /\ FileIds' = FileIds
    BY <1>0, <2>1, <2>2, FileWritten DEF FileType
  <2>4. QED
    BY <1>0, <1>23, <2>1, <2>3 DEF Transfer, TypeOK, FileType, Places, Maybe
<1>24. CASE SyncPart(d)
  <2>2. part[d] \in FileIds /\ files[part[d]] \in FileType
    BY <1>0, <1>24, WorkingPart, FileRead DEF SyncPart, Working, Places
  <2>3. files' \in Seq(FileType) /\ FileIds' = FileIds
    BY <1>0, <1>24, <2>2, FileWritten DEF FileType, SyncPart
  <2>4. QED
    BY <1>0, <1>24, <2>3 DEF SyncPart, TypeOK, FileType, Places, Maybe
<1>25. QED
  BY <1>1, <1>2, <1>3, <1>4, <1>5, <1>6, <1>7, <1>8, <1>9, <1>10, <1>11, <1>12, <1>13, <1>14, <1>15, <1>16, <1>17, <1>18, <1>19, <1>20, <1>21, <1>22, <1>23, <1>24 DEF Step

(* What a step of one download leaves to the others: their state, their names and *)
(* their files.                                                                    *)
Frame(d) ==
  /\ over' = over /\ other' = other
  /\ \A e \in Downloads \ {d} :
       /\ at'[e] = at[e] /\ target'[e] = target[e] /\ part'[e] = part[e]
       /\ dirty'[e] = dirty[e] /\ pub'[e] = pub[e] /\ outcome'[e] = outcome[e]
       /\ dir'[Part(e)] = dir[Part(e)] /\ dir'[Priv(e)] = dir[Priv(e)]
       /\ dir'[Quar(e)] = dir[Quar(e)]
  /\ \A r \in removed' : r \in removed \/ r[1] = d
  /\ FileIds \subseteq FileIds'
  /\ \A f \in FileIds : files'[f].owner = files[f].owner /\ (f # part[d] => files'[f] = files[f])

(* Every step of a download leaves the others alone. *)
LEMMA FrameStep ==
  ASSUME PublicationInv, NEW d \in Downloads, Step(d) \/ Crash(d)
  PROVE  Frame(d)
<1> USE DEF Go, Fail, Moved, Exchanged, Fixed, Frame
<1>0. /\ TypeOK /\ Local(d)
      /\ Final \in Names /\ Part(d) \in Names /\ Priv(d) \in Names /\ Quar(d) \in Names
  BY NamesApart DEF PublicationInv
<1>a. files' = files => /\ FileIds \subseteq FileIds'
                        /\ \A f \in FileIds : files'[f] = files[f]
  BY DEF FileIds
<1>1. CASE Inspect(d)
  BY <1>0, <1>a, <1>1 DEF Inspect, TypeOK
<1>2. CASE Unsupported(d)
  BY <1>0, <1>a, <1>2 DEF Unsupported, TypeOK
<1>3. CASE SyncFails(d)
  BY <1>0, <1>a, <1>3 DEF SyncFails, TypeOK
<1>4. CASE ValidateTarget(d)
  BY <1>0, <1>a, <1>4 DEF ValidateTarget, TypeOK
<1>5. CASE ValidatePart(d)
  BY <1>0, <1>a, <1>5 DEF ValidatePart, TypeOK
<1>6. CASE ProbeFails(d)
  BY <1>0, <1>a, <1>6 DEF ProbeFails, TypeOK
<1>7. CASE Collide(d)
  BY <1>0, <1>a, <1>7 DEF Collide, TypeOK
<1>8. CASE Verify(d)
  BY <1>0, <1>a, <1>8 DEF Verify, TypeOK, Changed
<1>9. CASE Identify(d)
  BY <1>0, <1>a, <1>9 DEF Identify, TypeOK, Changed
<1>10. CASE Finish(d)
  BY <1>0, <1>a, <1>10 DEF Finish, TypeOK
<1>11. CASE Crash(d)
  BY <1>0, <1>a, <1>11 DEF Crash, TypeOK
<1>12. CASE Capture(d)
  BY <1>0, <1>a, <1>12, NamesApart DEF Capture, TypeOK
<1>13. CASE Uncapture(d)
  BY <1>0, <1>a, <1>13, NamesApart DEF Uncapture, TypeOK
<1>14. CASE PublishAbsent(d)
  BY <1>0, <1>a, <1>14, NamesApart DEF PublishAbsent, TypeOK
<1>15. CASE Exchange(d)
  BY <1>0, <1>a, <1>15, NamesApart DEF Exchange, TypeOK
<1>16. CASE Dispose(d)
  BY <1>0, <1>a, <1>16, NamesApart DEF Dispose, TypeOK
<1>17. CASE Rollback(d)
  BY <1>0, <1>a, <1>17, NamesApart DEF Rollback, TypeOK
<1>18. CASE Restore(d)
  BY <1>0, <1>a, <1>18, NamesApart DEF Restore, TypeOK
<1>19. CASE Abort(d)
  BY <1>0, <1>a, <1>19, NamesApart DEF Abort, TypeOK
<1>20. CASE Unlink(d)
  BY <1>0, <1>a, <1>20, NamesApart DEF Unlink, TypeOK
<1>21. CASE Reinstate(d)
  BY <1>0, <1>a, <1>21, NamesApart DEF Reinstate, TypeOK
<1>22. CASE CreatePart(d)
  <2>1. /\ FileIds \subseteq FileIds' /\ \A f \in FileIds : files'[f] = files[f]
    BY <1>0, <1>22, FileAdded DEF CreatePart, Kinds
  <2>2. QED
    BY <1>0, <1>22, <2>1, NamesApart DEF CreatePart, TypeOK
<1>23. CASE Transfer(d)
  <2>1. PICK ok \in BOOLEAN : /\ files' = [files EXCEPT ![part[d]].whole = ok]
                              /\ Go(d, IF ok THEN "sync" ELSE "abort")
    BY <1>23 DEF Transfer
  <2>2. part[d] \in FileIds /\ files[part[d]] \in FileType
    BY <1>0, <1>23, WorkingPart, FileRead DEF Transfer, Working, Places
  <2>3. /\ FileIds' = FileIds /\ files'[part[d]].owner = files[part[d]].owner
        /\ \A f \in FileIds : f # part[d] => files'[f] = files[f]
    <3> DEFINE v == [files[part[d]] EXCEPT !.whole = ok]
    <3>1. v \in FileType /\ v.owner = files[part[d]].owner
      BY <2>2 DEF FileType
    <3>2. files' = [files EXCEPT ![part[d]] = v]
      BY <2>1
    <3> HIDE DEF v
    <3>3. QED
      BY <1>0, <2>2, <3>1, <3>2, FileWritten
  <2>4. QED
    BY <1>0, <1>23, <2>1, <2>3 DEF Transfer, TypeOK
<1>24. CASE SyncPart(d)
  <2>2. part[d] \in FileIds /\ files[part[d]] \in FileType
    BY <1>0, <1>24, WorkingPart, FileRead DEF SyncPart, Working, Places
  <2>3. /\ FileIds' = FileIds /\ files'[part[d]].owner = files[part[d]].owner
        /\ \A f \in FileIds : f # part[d] => files'[f] = files[f]
    <3> DEFINE v == [files[part[d]] EXCEPT !.synced = TRUE]
    <3>1. v \in FileType /\ v.owner = files[part[d]].owner
      BY <2>2 DEF FileType
    <3>2. files' = [files EXCEPT ![part[d]] = v]
      BY <1>24 DEF SyncPart
    <3> HIDE DEF v
    <3>3. QED
      BY <1>0, <2>2, <3>1, <3>2, FileWritten
  <2>4. QED
    BY <1>0, <1>24, <2>3 DEF SyncPart, TypeOK
<1>25. QED
  BY <1>1, <1>2, <1>3, <1>4, <1>5, <1>6, <1>7, <1>8, <1>9, <1>10, <1>11, <1>12, <1>13, <1>14, <1>15, <1>16, <1>17, <1>18, <1>19, <1>20, <1>21, <1>22, <1>23, <1>24 DEF Step

(* What a download knows of itself survives the steps of the others. *)
LEMMA LocalKept ==
  ASSUME PublicationInv, NEW d \in Downloads, Frame(d), TypeOK',
         NEW e \in Downloads, e # d
  PROVE  Local(e)'
<1>1. /\ TypeOK /\ Local(e) /\ \A f \in Maybe : f # NoFile => f \in FileIds
      /\ Part(e) \in Names /\ Priv(e) \in Names /\ Quar(e) \in Names
      /\ Part(e) # Quar(e)
  BY NamesApart DEF PublicationInv, Maybe
<1>2. part[e] # NoFile => part[e] \in FileIds /\ part[e] # part[d]
  <2>1. part[d] # NoFile => files[part[d]].owner = d
    BY DEF PublicationInv, Local, PartOwned
  <2>2. part[e] # NoFile => files[part[e]].owner = e
    BY DEF PublicationInv, Local, PartOwned
  <2>3. QED
    BY <1>1, <2>1, <2>2 DEF TypeOK
<1>3. Fresh(e)' /\ Ended(e)'
  BY <1>1 DEF Local, Fresh, Ended, Frame, NamesOf
<1>4. PartName(e)' /\ QuarName(e)'
  BY <1>1 DEF Local, PartName, QuarName, Frame
<1>5. PrivName(e)'
  <2>1. dir[Priv(e)] # NoFile => dir[Priv(e)] \in FileIds
    BY <1>1 DEF TypeOK
  <2>2. QED
    BY <1>1, <2>1 DEF Local, PrivName, Frame, Exchanges
<1>6. PartOwned(e)'
  <2>1. \A n \in {Part(e), Quar(e)} : dir[n] # NoFile => dir[n] \in FileIds
    BY <1>1 DEF TypeOK
  <2>2. at[e] \in {"sync", "target", "validate", "capture"} => part[e] # NoFile
    BY <1>1 DEF Local, PartName, Working, Places
  <2>3. QED
    BY <1>1, <1>2, <2>1, <2>2 DEF Local, PartOwned, Frame
<1>7. QED
  BY <1>3, <1>4, <1>5, <1>6 DEF Local

(* Every action of a download keeps what the download knows of itself. *)
LEMMA LocalStep ==
  ASSUME PublicationInv, NEW d \in Downloads, Step(d) \/ Crash(d)
  PROVE  Local(d)'
<1> USE DEF Go, Fail, Moved, Exchanged, Fixed, Local
<1>0. /\ TypeOK /\ Fresh(d) /\ PartName(d) /\ PrivName(d) /\ QuarName(d) /\ Ended(d) /\ PartOwned(d)
      /\ Part(d) \in Names /\ Priv(d) \in Names /\ Quar(d) \in Names /\ Final \in Names
      /\ Part(d) # Final /\ Priv(d) # Final /\ Quar(d) # Final
      /\ Part(d) # Priv(d) /\ Part(d) # Quar(d) /\ Priv(d) # Quar(d)
  BY NamesApart DEF PublicationInv
<1>1. CASE Inspect(d)
  BY <1>0, <1>1 DEF Inspect, TypeOK, Fresh, PartName, PrivName, QuarName, Ended, PartOwned, Working, Places, NamesOf
<1>2. CASE Unsupported(d)
  BY <1>0, <1>2 DEF Unsupported, TypeOK, Fresh, PartName, PrivName, QuarName, Ended, PartOwned, Working, Places, NamesOf
<1>3. CASE SyncFails(d)
  BY <1>0, <1>3 DEF SyncFails, TypeOK, Fresh, PartName, PrivName, QuarName, Ended, PartOwned, Working, Places, NamesOf
<1>4. CASE ValidateTarget(d)
  BY <1>0, <1>4 DEF ValidateTarget, TypeOK, Fresh, PartName, PrivName, QuarName, Ended, PartOwned, Working, Places, NamesOf
<1>5. CASE ValidatePart(d)
  BY <1>0, <1>5 DEF ValidatePart, TypeOK, Fresh, PartName, PrivName, QuarName, Ended, PartOwned, Working, Places, NamesOf
<1>6. CASE ProbeFails(d)
  BY <1>0, <1>6 DEF ProbeFails, TypeOK, Fresh, PartName, PrivName, QuarName, Ended, PartOwned, Working, Places, NamesOf
<1>7. CASE Collide(d)
  BY <1>0, <1>7 DEF Collide, TypeOK, Fresh, PartName, PrivName, QuarName, Ended, PartOwned, Working, Places, NamesOf
<1>8. CASE Verify(d)
  BY <1>0, <1>8 DEF Verify, TypeOK, Fresh, PartName, PrivName, QuarName, Ended, PartOwned, Working, Places, NamesOf, Changed, Exchanges
<1>9. CASE Identify(d)
  BY <1>0, <1>9 DEF Identify, TypeOK, Fresh, PartName, PrivName, QuarName, Ended, PartOwned, Working, Places, NamesOf, Changed, Exchanges
<1>10. CASE Finish(d)
  BY <1>0, <1>10 DEF Finish, TypeOK, Fresh, PartName, PrivName, QuarName, Ended, PartOwned, Working, Places, NamesOf
<1>11. CASE Crash(d)
  BY <1>0, <1>11 DEF Crash, TypeOK, Fresh, PartName, PrivName, QuarName, Ended, PartOwned, Working, Places, NamesOf
<1>12. CASE Capture(d)
  <2>1. Fresh(d)' /\ Ended(d)'
    BY <1>0, <1>12 DEF Capture, TypeOK, Fresh, Ended
  <2>2. PartName(d)' /\ QuarName(d)'
    BY <1>0, <1>12 DEF Capture, TypeOK, PartName, QuarName, Working, Places
  <2>3. PrivName(d)'
    BY <1>0, <1>12 DEF Capture, TypeOK, PrivName, PartName, PartOwned, Exchanges, Working, Places
  <2>4. PartOwned(d)'
    BY <1>0, <1>12 DEF Capture, TypeOK, PartOwned, PrivName, QuarName
  <2>5. QED
    BY <2>1, <2>2, <2>3, <2>4
<1>13. CASE Uncapture(d)
  <2>1. Fresh(d)' /\ Ended(d)'
    BY <1>0, <1>13 DEF Uncapture, TypeOK, Fresh, Ended
  <2>2. PartName(d)' /\ QuarName(d)'
    BY <1>0, <1>13 DEF Uncapture, TypeOK, PartName, QuarName, Working, Places
  <2>3. PrivName(d)'
    BY <1>0, <1>13 DEF Uncapture, TypeOK, PrivName, PartName, Exchanges, Working, Places
  <2>4. PartOwned(d)'
    BY <1>0, <1>13 DEF Uncapture, TypeOK, PartOwned, PrivName, QuarName
  <2>5. QED
    BY <2>1, <2>2, <2>3, <2>4
<1>14. CASE PublishAbsent(d)
  <2>1. Fresh(d)' /\ Ended(d)'
    BY <1>0, <1>14 DEF PublishAbsent, TypeOK, Fresh, Ended
  <2>2. PartName(d)' /\ QuarName(d)'
    BY <1>0, <1>14 DEF PublishAbsent, TypeOK, PartName, QuarName, Working, Places
  <2>3. PrivName(d)'
    BY <1>0, <1>14 DEF PublishAbsent, TypeOK, PrivName, PartName, Exchanges, Working, Places
  <2>4. PartOwned(d)'
    BY <1>0, <1>14 DEF PublishAbsent, TypeOK, PartOwned, PrivName, QuarName
  <2>5. QED
    BY <2>1, <2>2, <2>3, <2>4
<1>15. CASE Exchange(d)
  <2>1. Fresh(d)' /\ Ended(d)'
    BY <1>0, <1>15 DEF Exchange, TypeOK, Fresh, Ended
  <2>2. PartName(d)' /\ QuarName(d)'
    BY <1>0, <1>15 DEF Exchange, TypeOK, PartName, QuarName, Working, Places
  <2>3. PrivName(d)'
    BY <1>0, <1>15 DEF Exchange, TypeOK, PrivName, PartName, Exchanges, Working, Places
  <2>4. PartOwned(d)'
    BY <1>0, <1>15 DEF Exchange, TypeOK, PartOwned, PrivName, QuarName
  <2>5. QED
    BY <2>1, <2>2, <2>3, <2>4
<1>16. CASE Dispose(d)
  <2>1. Fresh(d)' /\ Ended(d)'
    BY <1>0, <1>16 DEF Dispose, TypeOK, Fresh, Ended
  <2>2. PartName(d)' /\ QuarName(d)'
    BY <1>0, <1>16 DEF Dispose, TypeOK, PartName, QuarName, Working, Places
  <2>3. PrivName(d)'
    BY <1>0, <1>16 DEF Dispose, TypeOK, PrivName, PartName, Exchanges, Working, Places
  <2>4. PartOwned(d)'
    BY <1>0, <1>16 DEF Dispose, TypeOK, PartOwned, PrivName, QuarName
  <2>5. QED
    BY <2>1, <2>2, <2>3, <2>4
<1>17. CASE Rollback(d)
  <2>1. Fresh(d)' /\ Ended(d)'
    BY <1>0, <1>17 DEF Rollback, TypeOK, Fresh, Ended
  <2>2. PartName(d)' /\ QuarName(d)'
    BY <1>0, <1>17 DEF Rollback, TypeOK, PartName, QuarName, Working, Places
  <2>3. PrivName(d)'
    BY <1>0, <1>17 DEF Rollback, TypeOK, PrivName, PartName, Exchanges, Working, Places
  <2>4. PartOwned(d)'
    BY <1>0, <1>17 DEF Rollback, TypeOK, PartOwned, PrivName, QuarName
  <2>5. QED
    BY <2>1, <2>2, <2>3, <2>4
<1>18. CASE Restore(d)
  <2>1. Fresh(d)' /\ Ended(d)'
    BY <1>0, <1>18 DEF Restore, TypeOK, Fresh, Ended
  <2>2. PartName(d)' /\ QuarName(d)'
    BY <1>0, <1>18 DEF Restore, TypeOK, PartName, QuarName, Working, Places
  <2>3. PrivName(d)'
    BY <1>0, <1>18 DEF Restore, TypeOK, PrivName, PartName, Exchanges, Working, Places
  <2>4. PartOwned(d)'
    BY <1>0, <1>18 DEF Restore, TypeOK, PartOwned, PrivName, QuarName
  <2>5. QED
    BY <2>1, <2>2, <2>3, <2>4
<1>19. CASE Abort(d)
  <2>1. Fresh(d)' /\ Ended(d)'
    BY <1>0, <1>19 DEF Abort, TypeOK, Fresh, Ended
  <2>2. PartName(d)' /\ QuarName(d)'
    BY <1>0, <1>19 DEF Abort, TypeOK, PartName, QuarName, Working, Places
  <2>3. PrivName(d)'
    BY <1>0, <1>19 DEF Abort, TypeOK, PrivName, PartName, Exchanges, Working, Places
  <2>4. PartOwned(d)'
    BY <1>0, <1>19 DEF Abort, TypeOK, PartOwned, PrivName, QuarName
  <2>5. QED
    BY <2>1, <2>2, <2>3, <2>4
<1>20. CASE Unlink(d)
  <2>1. Fresh(d)' /\ Ended(d)'
    BY <1>0, <1>20 DEF Unlink, TypeOK, Fresh, Ended
  <2>2. PartName(d)' /\ QuarName(d)'
    BY <1>0, <1>20 DEF Unlink, TypeOK, PartName, QuarName, Working, Places
  <2>3. PrivName(d)'
    BY <1>0, <1>20 DEF Unlink, TypeOK, PrivName, PartName, Exchanges, Working, Places
  <2>4. PartOwned(d)'
    BY <1>0, <1>20 DEF Unlink, TypeOK, PartOwned, PrivName, QuarName
  <2>5. QED
    BY <2>1, <2>2, <2>3, <2>4
<1>21. CASE Reinstate(d)
  <2>1. Fresh(d)' /\ Ended(d)'
    BY <1>0, <1>21 DEF Reinstate, TypeOK, Fresh, Ended
  <2>2. PartName(d)' /\ QuarName(d)'
    BY <1>0, <1>21 DEF Reinstate, TypeOK, PartName, QuarName, Working, Places
  <2>3. PrivName(d)'
    BY <1>0, <1>21 DEF Reinstate, TypeOK, PrivName, PartName, Exchanges, Working, Places
  <2>4. PartOwned(d)'
    BY <1>0, <1>21 DEF Reinstate, TypeOK, PartOwned, PrivName, QuarName
  <2>5. QED
    BY <2>1, <2>2, <2>3, <2>4
<1>22. CASE CreatePart(d)
  <2>1. /\ FileIds \subseteq FileIds' /\ \A f \in FileIds : files'[f] = files[f]
        /\ files'[Len(files) + 1] = File(d, "regular") /\ Len(files) \in Nat
    BY <1>0, <1>22, FileAdded DEF CreatePart, Kinds
  <2>2. /\ part'[d] = Len(files) + 1 /\ at'[d] = "write" /\ dir'[Part(d)] = part'[d]
        /\ dir'[Priv(d)] = NoFile /\ dir'[Quar(d)] = NoFile /\ part'[d] # NoFile
        /\ files'[part'[d]].owner = d
        /\ pub' = pub /\ outcome' = outcome /\ at[d] = "create"
    BY <1>0, <1>22, <2>1 DEF CreatePart, TypeOK, Fresh, NamesOf, NoFile, File
  <2>3. QED
    BY <1>0, <2>2 DEF Fresh, PartName, PrivName, QuarName, Ended, PartOwned, Working, Places
<1>23. CASE Transfer(d)
  <2>1. PICK ok \in BOOLEAN : /\ files' = [files EXCEPT ![part[d]].whole = ok]
                              /\ Go(d, IF ok THEN "sync" ELSE "abort")
    BY <1>23 DEF Transfer
  <2>2. part[d] \in FileIds /\ files[part[d]] \in FileType
    BY <1>0, <1>23, WorkingPart, FileRead DEF Transfer, Working, Places
  <2>3. /\ files'[part[d]].whole = ok
        /\ \A f \in FileIds : files'[f].owner = files[f].owner
    <3> DEFINE v == [files[part[d]] EXCEPT !.whole = ok]
    <3>1. v \in FileType /\ v.owner = files[part[d]].owner /\ v.whole = ok
      BY <2>2 DEF FileType
    <3>2. files' = [files EXCEPT ![part[d]] = v]
      BY <2>1
    <3> HIDE DEF v
    <3>3. QED
      BY <1>0, <2>2, <3>1, <3>2, FileWritten
  <2>4. Fresh(d)' /\ Ended(d)' /\ PartName(d)' /\ QuarName(d)' /\ PrivName(d)'
    BY <1>0, <1>23, <2>1 DEF Transfer, TypeOK, Fresh, Ended, PartName, QuarName, PrivName, Working, Places
  <2>5. dir[Part(d)] \in Maybe /\ dir[Quar(d)] \in Maybe /\ \A f \in Maybe : f # NoFile => f \in FileIds
    BY <1>0 DEF TypeOK, Maybe
  <2>6. PartOwned(d)'
    BY <1>0, <1>23, <2>1, <2>2, <2>3, <2>5 DEF Transfer, TypeOK, PartOwned
  <2>7. QED
    BY <2>4, <2>6
<1>24. CASE SyncPart(d)
  <2>2. part[d] \in FileIds /\ files[part[d]] \in FileType
    BY <1>0, <1>24, WorkingPart, FileRead DEF SyncPart, Working, Places
  <2>3. /\ files'[part[d]].synced = TRUE /\ files'[part[d]].whole = files[part[d]].whole
        /\ \A f \in FileIds : files'[f].owner = files[f].owner
    <3> DEFINE v == [files[part[d]] EXCEPT !.synced = TRUE]
    <3>1. /\ v \in FileType /\ v.owner = files[part[d]].owner
          /\ v.synced = TRUE /\ v.whole = files[part[d]].whole
      BY <2>2 DEF FileType
    <3>2. files' = [files EXCEPT ![part[d]] = v]
      BY <1>24 DEF SyncPart
    <3> HIDE DEF v
    <3>3. QED
      BY <1>0, <2>2, <3>1, <3>2, FileWritten
  <2>4. Fresh(d)' /\ Ended(d)' /\ PartName(d)' /\ QuarName(d)' /\ PrivName(d)'
    BY <1>0, <1>24 DEF SyncPart, TypeOK, Fresh, Ended, PartName, QuarName, PrivName, Working, Places
  <2>5. dir[Part(d)] \in Maybe /\ dir[Quar(d)] \in Maybe /\ \A f \in Maybe : f # NoFile => f \in FileIds
    BY <1>0 DEF TypeOK, Maybe
  <2>6. PartOwned(d)'
    BY <1>0, <1>24, <2>2, <2>3, <2>5 DEF SyncPart, TypeOK, PartOwned
  <2>7. QED
    BY <2>4, <2>6
<1>25. QED
  BY <1>1, <1>2, <1>3, <1>4, <1>5, <1>6, <1>7, <1>8, <1>9, <1>10, <1>11, <1>12, <1>13, <1>14, <1>15, <1>16, <1>17, <1>18, <1>19, <1>20, <1>21, <1>22, <1>23, <1>24 DEF Step

(* What a step of a download does to the directory: nothing, one move, one exchange *)
(* or one removal among its own names and the final one, or a new part.            *)
OwnNames(d) == {Final, Part(d), Priv(d), Quar(d)}
Renames(d) ==
  \/ dir' = dir
  \/ \E a, b \in OwnNames(d) : a # b /\ dir' = Moved(a, b)
  \/ \E a, b \in OwnNames(d) : a # b /\ dir' = Exchanged(a, b)
  \/ \E a \in OwnNames(d) : dir' = [dir EXCEPT ![a] = NoFile]

(* Every step of a download changes the directory in one of these ways. *)
LEMMA RenameStep ==
  ASSUME PublicationInv, NEW d \in Downloads, Step(d) \/ Crash(d)
  PROVE  CreatePart(d) \/ Renames(d)
<1>0. /\ Part(d) # Final /\ Priv(d) # Final /\ Quar(d) # Final
      /\ Part(d) # Priv(d) /\ Part(d) # Quar(d) /\ Priv(d) # Quar(d)
      /\ OwnNames(d) = {Final, Part(d), Priv(d), Quar(d)}
  BY NamesApart DEF OwnNames
<1>1. CASE Inspect(d) \/ Unsupported(d) \/ SyncFails(d) \/ ValidateTarget(d)
  BY <1>1 DEF Inspect, Unsupported, SyncFails, ValidateTarget, Renames
<1>2. CASE ValidatePart(d) \/ ProbeFails(d) \/ Collide(d) \/ Verify(d)
  BY <1>2 DEF ValidatePart, ProbeFails, Collide, Verify, Renames
<1>3. CASE Identify(d) \/ Finish(d) \/ Crash(d) \/ Transfer(d) \/ SyncPart(d)
  BY <1>3 DEF Identify, Finish, Crash, Transfer, SyncPart, Renames
<1>4. CASE Capture(d)
  BY <1>0, <1>4 DEF Capture, Renames
<1>5. CASE Uncapture(d)
  BY <1>0, <1>5 DEF Uncapture, Renames
<1>6. CASE PublishAbsent(d)
  BY <1>0, <1>6 DEF PublishAbsent, Renames
<1>7. CASE Exchange(d)
  BY <1>0, <1>7 DEF Exchange, Renames
<1>8. CASE Dispose(d)
  BY <1>0, <1>8 DEF Dispose, Renames
<1>9. CASE Rollback(d)
  BY <1>0, <1>9 DEF Rollback, Renames
<1>10. CASE Restore(d)
  BY <1>0, <1>10 DEF Restore, Renames
<1>11. CASE Abort(d)
  BY <1>0, <1>11 DEF Abort, Renames
<1>12. CASE Unlink(d)
  BY <1>0, <1>12 DEF Unlink, Renames
<1>13. CASE Reinstate(d)
  BY <1>0, <1>13 DEF Reinstate, Renames
<1>14. QED
  BY <1>1, <1>2, <1>3, <1>4, <1>5, <1>6, <1>7, <1>8, <1>9, <1>10, <1>11, <1>12, <1>13 DEF Step

(* What a directory loses or gains by it. *)
LEMMA RenamedNames ==
  ASSUME TypeOK, OneName, NEW d \in Downloads, Renames(d)
  PROVE  /\ OneName'
         /\ \A n \in OwnNames(d) : dir'[n] = NoFile \/ \E m \in OwnNames(d) : dir'[n] = dir[m]
         /\ \A n \in Names \ OwnNames(d) : dir'[n] = dir[n]
<1> USE DEF Moved, Exchanged, OneName
<1>0. dir \in [Names -> Maybe] /\ OwnNames(d) \subseteq Names
  BY NamesApart DEF TypeOK, OwnNames
<1>1. CASE dir' = dir
  BY <1>1
<1>2. ASSUME NEW a \in OwnNames(d), NEW b \in OwnNames(d), a # b, dir' = Moved(a, b)
      PROVE  /\ OneName'
             /\ \A n \in OwnNames(d) : dir'[n] = NoFile \/ \E m \in OwnNames(d) : dir'[n] = dir[m]
             /\ \A n \in Names \ OwnNames(d) : dir'[n] = dir[n]
  BY <1>0, <1>2
<1>3. ASSUME NEW a \in OwnNames(d), NEW b \in OwnNames(d), a # b, dir' = Exchanged(a, b)
      PROVE  /\ OneName'
             /\ \A n \in OwnNames(d) : dir'[n] = NoFile \/ \E m \in OwnNames(d) : dir'[n] = dir[m]
             /\ \A n \in Names \ OwnNames(d) : dir'[n] = dir[n]
  BY <1>0, <1>3
<1>4. ASSUME NEW a \in OwnNames(d), dir' = [dir EXCEPT ![a] = NoFile]
      PROVE  /\ OneName'
             /\ \A n \in OwnNames(d) : dir'[n] = NoFile \/ \E m \in OwnNames(d) : dir'[n] = dir[m]
             /\ \A n \in Names \ OwnNames(d) : dir'[n] = dir[n]
  BY <1>0, <1>4
<1>5. QED
  BY <1>1, <1>2, <1>3, <1>4 DEF Renames

(* The new part is no file that has a name already. *)
LEMMA CreatedNames ==
  ASSUME TypeOK, OneName, NEW d \in Downloads, CreatePart(d)
  PROVE  /\ OneName'
         /\ dir'[Part(d)] = part'[d] /\ part'[d] \notin Maybe
         /\ \A n \in Names \ {Part(d)} : dir'[n] = dir[n]
<1>1. Len(files) + 1 \notin Maybe
  <2>1. Len(files) \in Nat
    BY FileAdded DEF CreatePart, Kinds
  <2>2. QED
    BY <2>1 DEF Maybe, FileIds, NoFile
<1>2. /\ dir \in [Names -> Maybe] /\ part \in [Downloads -> Maybe] /\ Part(d) \in Names
      /\ dir' = [dir EXCEPT ![Part(d)] = Len(files) + 1]
      /\ part' = [part EXCEPT ![d] = Len(files) + 1]
  BY NamesApart DEF TypeOK, CreatePart
<1>3. QED
  BY <1>1, <1>2 DEF OneName

(* A download that ends without an incomplete cleanup leaves nothing (CleanEnd). *)
CleanEnd(d) ==
  at[d] = "end" /\ ~dirty[d] =>
    /\ \A n \in NamesOf(d) : dir[n] = NoFile
    /\ ~pub[d] /\ part[d] # NoFile => \A n \in Names : dir[n] # part[d]

(* A download that reports no incomplete cleanup leaves none of its names. *)
LEMMA CleanEndStep ==
  ASSUME PublicationInv, NEW d \in Downloads, Step(d) \/ Crash(d)
  PROVE  CleanEnd(d)'
<1> USE DEF Go, Fail, Moved, Exchanged, Fixed, CleanEnd, NamesOf
<1>0. /\ TypeOK /\ Fresh(d) /\ PartName(d) /\ PrivName(d) /\ QuarName(d) /\ Ended(d)
      /\ Part(d) \in Names /\ Priv(d) \in Names /\ Quar(d) \in Names /\ Final \in Names
      /\ Part(d) # Priv(d) /\ Part(d) # Quar(d) /\ Priv(d) # Quar(d)
  BY NamesApart DEF PublicationInv, Local
<1>1. CASE CreatePart(d) \/ Transfer(d) \/ SyncPart(d) \/ SyncFails(d) \/ ValidateTarget(d) \/ ValidatePart(d) \/ ProbeFails(d) \/ Collide(d)
  <2>1. at'[d] # "end"
    BY <1>0, <1>1 DEF CreatePart, Transfer, SyncPart, SyncFails, ValidateTarget, ValidatePart, ProbeFails, Collide, TypeOK
  <2>2. QED
    BY <2>1
<1>2. CASE Capture(d) \/ Uncapture(d) \/ PublishAbsent(d) \/ Exchange(d) \/ Dispose(d) \/ Rollback(d) \/ Restore(d)
  <2>1. at'[d] # "end"
    BY <1>0, <1>2 DEF Capture, Uncapture, PublishAbsent, Exchange, Dispose, Rollback, Restore, TypeOK
  <2>2. QED
    BY <2>1
<1>3. CASE Verify(d) \/ Identify(d)
  <2>1. at'[d] # "end"
    BY <1>0, <1>3 DEF Verify, Identify, TypeOK, Changed
  <2>2. QED
    BY <2>1
<1>4. CASE Inspect(d)
  BY <1>0, <1>4 DEF Inspect, TypeOK, Fresh, PartName, PrivName, QuarName, Ended
<1>5. CASE Unsupported(d)
  BY <1>0, <1>5 DEF Unsupported, TypeOK, Fresh, PartName, PrivName, QuarName, Ended
<1>6. CASE Finish(d)
  BY <1>0, <1>6 DEF Finish, TypeOK, Fresh, PartName, PrivName, QuarName, Ended
<1>7. CASE Crash(d)
  BY <1>0, <1>7 DEF Crash, TypeOK, Fresh, PartName, PrivName, QuarName, Ended
<1>8. CASE Reinstate(d)
  BY <1>0, <1>8 DEF Reinstate, TypeOK, Fresh, PartName, PrivName, QuarName, Ended
<1>9. CASE Abort(d)
  BY <1>0, <1>9 DEF Abort, TypeOK
<1>10. CASE Unlink(d)
  <2>1. CASE dir' = dir /\ Fail(d)
    BY <1>0, <1>10, <2>1 DEF Unlink, TypeOK
  <2>2. CASE dir' = [dir EXCEPT ![Quar(d)] = NoFile] /\ dirty' = dirty
    <3>1. /\ dir[Quar(d)] = part[d] /\ part[d] # NoFile /\ dir[Part(d)] = NoFile
          /\ dirty[d] \/ dir[Priv(d)] = NoFile
      BY <1>0, <1>10 DEF Unlink, QuarName, PartName, PrivName, Working, Places
    <3>2. \A n \in Names : dir'[n] # part[d]
      BY <1>0, <2>2, <3>1 DEF PublicationInv, Shared, OneName, TypeOK
    <3>3. QED
      BY <1>0, <1>10, <2>2, <3>1, <3>2 DEF Unlink, TypeOK
  <2>3. QED
    BY <1>10, <2>1, <2>2 DEF Unlink
<1>11. QED
  BY <1>1, <1>2, <1>3, <1>4, <1>5, <1>6, <1>7, <1>8, <1>9, <1>10 DEF Step

(* A step of one download leaves what another one has cleaned up. *)
LEMMA CleanEndKept ==
  ASSUME PublicationInv, NEW d \in Downloads, Step(d) \/ Crash(d), Frame(d),
         NEW e \in Downloads, e # d
  PROVE  CleanEnd(e)'
<1>1. CleanEnd(e) /\ TypeOK /\ OneName
  BY DEF PublicationInv, CleanEndLeavesNothing, CleanEnd, Shared
<1>2. /\ at'[e] = at[e] /\ dirty'[e] = dirty[e] /\ pub'[e] = pub[e] /\ part'[e] = part[e]
      /\ \A n \in NamesOf(e) : dir'[n] = dir[n]
  BY DEF Frame, NamesOf
<1>3. ASSUME part[e] # NoFile, \A n \in Names : dir[n] # part[e], NEW n \in Names
      PROVE  dir'[n] # part[e]
  <2>1. CASE Renames(d)
    <3>1. OwnNames(d) \subseteq Names
      BY NamesApart DEF OwnNames
    <3>2. QED
      BY <1>1, <1>3, <2>1, <3>1, RenamedNames
  <2>2. CASE CreatePart(d)
    BY <1>1, <1>3, <2>2, CreatedNames DEF TypeOK
  <2>3. QED
    BY <2>1, <2>2, RenameStep
<1>4. QED
  BY <1>1, <1>2, <1>3 DEF CleanEnd

(* Only CreatePart makes a file, and only Transfer and SyncPart write one. *)
LEMMA FilesStep ==
  ASSUME PublicationInv, NEW d \in Downloads, Step(d) \/ Crash(d), ~CreatePart(d)
  PROVE  /\ FileIds' = FileIds /\ part' = part
         /\ files' = files \/ ((Transfer(d) \/ SyncPart(d)) /\ dir' = dir)
<1>1. CASE Transfer(d) \/ SyncPart(d)
  <2>1. files \in Seq(FileType) /\ part' = part /\ dir' = dir
    BY <1>1 DEF Transfer, SyncPart, PublicationInv, TypeOK, FileType
  <2>2. CASE Transfer(d)
    <3>1. PICK ok \in BOOLEAN : files' = [files EXCEPT ![part[d]].whole = ok]
      BY <2>2 DEF Transfer
    <3>2. Len(files') = Len(files)
      BY <2>1, <3>1
    <3>3. QED
      BY <1>1, <2>1, <3>2 DEF FileIds
  <2>3. CASE SyncPart(d)
    <3>1. Len(files') = Len(files)
      BY <2>1, <2>3 DEF SyncPart
    <3>2. QED
      BY <1>1, <2>1, <3>1 DEF FileIds
  <2>4. QED
    BY <1>1, <2>2, <2>3
<1>2. CASE Inspect(d) \/ Unsupported(d) \/ SyncFails(d) \/ ValidateTarget(d) \/ ValidatePart(d)
  <2>1. files' = files /\ part' = part
    BY <1>2 DEF Inspect, Unsupported, SyncFails, ValidateTarget, ValidatePart
  <2>2. QED
    BY <2>1, Zenon DEF FileIds
<1>3. CASE ProbeFails(d) \/ Collide(d) \/ Verify(d) \/ Identify(d) \/ Finish(d) \/ Crash(d)
  <2>1. files' = files /\ part' = part
    BY <1>3 DEF ProbeFails, Collide, Verify, Identify, Finish, Crash
  <2>2. QED
    BY <2>1, Zenon DEF FileIds
<1>4. CASE Capture(d) \/ Uncapture(d) \/ PublishAbsent(d) \/ Exchange(d) \/ Dispose(d)
  <2>1. files' = files /\ part' = part
    BY <1>4 DEF Capture, Uncapture, PublishAbsent, Exchange, Dispose
  <2>2. QED
    BY <2>1, Zenon DEF FileIds
<1>5. CASE Rollback(d) \/ Restore(d) \/ Abort(d) \/ Unlink(d) \/ Reinstate(d)
  <2>1. files' = files /\ part' = part
    BY <1>5 DEF Rollback, Restore, Abort, Unlink, Reinstate
  <2>2. QED
    BY <2>1, Zenon DEF FileIds
<1>6. QED
  BY <1>1, <1>2, <1>3, <1>4, <1>5 DEF Step

(* Every file that a download made is its part. *)
LEMMA OwnedStep ==
  ASSUME PublicationInv, NEW d \in Downloads, Step(d) \/ Crash(d), Frame(d)
  PROVE  Owned'
<1>1. TypeOK /\ Owned
  BY DEF PublicationInv, Shared
<1>2. CASE CreatePart(d)
  <2>1. /\ \A f \in FileIds' : f \in FileIds \/ f = Len(files) + 1
        /\ files'[Len(files) + 1] = File(d, "regular")
        /\ part'[d] = Len(files) + 1
        /\ \A e \in Downloads : e # d => part'[e] = part[e]
    BY <1>1, <1>2, FileAdded DEF CreatePart, Kinds, TypeOK
  <2>2. part[d] = NoFile /\ NoFile \notin FileIds
    BY <1>2 DEF CreatePart, PublicationInv, Local, Fresh, NoFile, FileIds
  <2>3. \A f \in FileIds : files'[f].owner = files[f].owner /\ files[f].owner \in Downloads \cup {"user"}
    BY <1>1, FileRead DEF Frame, FileType
  <2>4. QED
    BY <1>1, <2>1, <2>2, <2>3 DEF Owned, File
<1>3. CASE ~CreatePart(d)
  BY <1>1, <1>3, FilesStep DEF Owned, Frame
<1>4. QED
  BY <1>2, <1>3

(* What the final name and the private name show after a step was there before, *)
(* but for the part that Capture takes.                                          *)
LEMMA ShownBefore ==
  ASSUME PublicationInv, NEW d \in Downloads, Step(d) \/ Crash(d), ~Capture(d)
  PROVE  /\ dir'[Final] \in {NoFile, dir[Final], dir[Priv(d)]}
         /\ dir'[Priv(d)] \in {NoFile, dir[Final], dir[Priv(d)]}
<1> USE DEF Moved, Exchanged
<1>0. /\ TypeOK
      /\ Part(d) \in Names /\ Priv(d) \in Names /\ Quar(d) \in Names /\ Final \in Names
      /\ Part(d) # Final /\ Priv(d) # Final /\ Quar(d) # Final
      /\ Part(d) # Priv(d) /\ Part(d) # Quar(d) /\ Priv(d) # Quar(d)
  BY NamesApart DEF PublicationInv
<1>1. CASE Inspect(d) \/ Unsupported(d) \/ SyncFails(d) \/ ValidateTarget(d) \/ ValidatePart(d)
  BY <1>1 DEF Inspect, Unsupported, SyncFails, ValidateTarget, ValidatePart
<1>2. CASE ProbeFails(d) \/ Collide(d) \/ Verify(d) \/ Identify(d) \/ Finish(d) \/ Crash(d)
  BY <1>2 DEF ProbeFails, Collide, Verify, Identify, Finish, Crash
<1>3. CASE Uncapture(d)
  BY <1>0, <1>3 DEF Uncapture, TypeOK
<1>4. CASE PublishAbsent(d)
  BY <1>0, <1>4 DEF PublishAbsent, TypeOK
<1>5. CASE Exchange(d)
  BY <1>0, <1>5 DEF Exchange, TypeOK
<1>6. CASE Dispose(d)
  BY <1>0, <1>6 DEF Dispose, TypeOK
<1>7. CASE Rollback(d)
  BY <1>0, <1>7 DEF Rollback, TypeOK
<1>8. CASE Restore(d)
  BY <1>0, <1>8 DEF Restore, TypeOK
<1>9. CASE Abort(d)
  BY <1>0, <1>9 DEF Abort, TypeOK
<1>10. CASE Unlink(d)
  BY <1>0, <1>10 DEF Unlink, TypeOK
<1>11. CASE Reinstate(d)
  BY <1>0, <1>11 DEF Reinstate, TypeOK
<1>12. CASE CreatePart(d)
  BY <1>0, <1>12 DEF CreatePart, TypeOK
<1>13. CASE Transfer(d)
  BY <1>0, <1>13 DEF Transfer, TypeOK
<1>14. CASE SyncPart(d)
  BY <1>0, <1>14 DEF SyncPart, TypeOK
<1>15. QED
  BY <1>1, <1>2, <1>3, <1>4, <1>5, <1>6, <1>7, <1>8, <1>9, <1>10, <1>11, <1>12, <1>13, <1>14 DEF Step

(* A part is shown under the final name, or a private one, only when it is whole *)
(* and synced.                                                                   *)
LEMMA CompleteStep ==
  ASSUME PublicationInv, NEW d \in Downloads, Step(d) \/ Crash(d), Frame(d), TypeOK'
  PROVE  Complete'
<1>0. /\ TypeOK /\ Complete /\ Hidden /\ PrivName(d) /\ PartName(d) /\ PartOwned(d) /\ Final \in Names
      /\ \A e \in Downloads : Priv(e) \in Names
      /\ \A n \in Names : dir[n] # NoFile => dir[n] \in FileIds
      /\ Part(d) \in Names /\ Priv(d) # Part(d)
  BY NamesApart DEF PublicationInv, Local, Shared, TypeOK, Maybe
<1> SUFFICES ASSUME NEW n \in {Final} \cup {Priv(e) : e \in Downloads}, dir'[n] # NoFile,
                    files'[dir'[n]].owner # "user"
             PROVE  files'[dir'[n]].whole /\ files'[dir'[n]].synced
  BY DEF Complete
<1>a. n \in Names
  BY <1>0
<1>1. CASE CreatePart(d)
  <2>1. dir'[n] = dir[n] /\ dir[n] \in FileIds
    <3>1. n # Part(d)
      BY NamesApart
    <3>2. QED
      BY <1>0, <1>1, <1>a, <3>1 DEF CreatePart, TypeOK
  <2>2. files'[dir[n]] = files[dir[n]]
    BY <1>0, <1>1, <2>1, FileAdded DEF CreatePart, Kinds
  <2>3. QED
    BY <1>0, <2>1, <2>2 DEF Complete
<1>2. CASE Transfer(d) \/ SyncPart(d)
  <2>1. at[d] \in {"write", "sync"} /\ dir' = dir
    BY <1>2 DEF Transfer, SyncPart
  <2>2. part[d] # NoFile /\ dir[Priv(d)] = NoFile
    BY <1>0, <2>1 DEF PartName, PrivName, Working, Places
  <2>3. dir[n] # part[d]
    <3>1. ASSUME dir[n] = part[d] PROVE FALSE
      <4>1. n \in NamesOf(d)
        BY <1>0, <1>a, <2>1, <2>2, <3>1 DEF Hidden, Unpublished
      <4>2. n = Priv(d)
        BY <4>1, NamesApart DEF NamesOf
      <4>3. QED
        BY <2>2, <3>1, <4>2
    <3>2. QED
      BY <3>1
  <2>4. dir[n] \in FileIds /\ files'[dir[n]] = files[dir[n]]
    BY <1>0, <1>a, <2>1, <2>3 DEF Frame
  <2>5. QED
    BY <1>0, <2>1, <2>4 DEF Complete
<1>3. CASE files' = files
  <2>1. ASSUME n \notin {Final, Priv(d)} PROVE dir'[n] = dir[n]
    BY <2>1 DEF Frame
  <2>2. CASE ~Capture(d)
    BY <1>0, <1>3, <2>1, <2>2, ShownBefore DEF Complete
  <2>3. CASE Capture(d)
    <3>1. dir'[Final] = dir[Final] /\ dir'[Priv(d)] = dir[Part(d)] /\ at[d] = "capture"
      BY <1>0, <2>3, NamesApart DEF Capture, Moved, TypeOK
    <3>2. /\ dir[Part(d)] \in {NoFile, part[d]} \/ files[dir[Part(d)]].owner = "user"
          /\ files[part[d]].whole /\ files[part[d]].synced
      BY <1>0, <3>1 DEF PartOwned
    <3>3. QED
      BY <1>0, <1>3, <2>1, <3>1, <3>2 DEF Complete
  <2>4. QED
    BY <2>2, <2>3
<1>4. QED
  BY <1>1, <1>2, <1>3, FilesStep

(* A part that is not published is not moved to the final name. *)
LEMMA UnpublishedStep ==
  ASSUME PublicationInv, NEW d \in Downloads, Step(d) \/ Crash(d), ~CreatePart(d),
         part[d] # NoFile, Unpublished(d)'
  PROVE  Unpublished(d) /\ dir'[Final] # part[d]
<1> USE DEF Go, Fail, Moved, Exchanged, Fixed, Unpublished
<1>0. /\ TypeOK /\ PrivName(d) /\ Fresh(d)
      /\ Part(d) \in Names /\ Priv(d) \in Names /\ Quar(d) \in Names /\ Final \in Names
      /\ Part(d) # Final /\ Priv(d) # Final /\ Quar(d) # Final
      /\ Part(d) # Priv(d) /\ Part(d) # Quar(d) /\ Priv(d) # Quar(d)
  BY NamesApart DEF PublicationInv, Local
<1>a. Unpublished(d) => dir[Final] # part[d]
  BY NamesApart DEF PublicationInv, Shared, Hidden, NamesOf
<1>1. CASE Inspect(d)
  BY <1>0, <1>a, <1>1 DEF Inspect, TypeOK, Fresh
<1>2. CASE Unsupported(d)
  BY <1>0, <1>a, <1>2 DEF Unsupported, TypeOK, Fresh
<1>3. CASE SyncFails(d)
  BY <1>0, <1>a, <1>3 DEF SyncFails, TypeOK
<1>4. CASE ValidateTarget(d)
  BY <1>0, <1>a, <1>4 DEF ValidateTarget, TypeOK
<1>5. CASE ValidatePart(d)
  BY <1>0, <1>a, <1>5 DEF ValidatePart, TypeOK
<1>6. CASE ProbeFails(d)
  BY <1>0, <1>a, <1>6 DEF ProbeFails, TypeOK
<1>7. CASE Collide(d)
  BY <1>0, <1>a, <1>7 DEF Collide, TypeOK
<1>8. CASE Verify(d)
  BY <1>0, <1>a, <1>8 DEF Verify, TypeOK, Changed, Exchanges
<1>9. CASE Identify(d)
  BY <1>0, <1>a, <1>9 DEF Identify, TypeOK, Changed, Exchanges
<1>10. CASE Finish(d)
  BY <1>0, <1>a, <1>10 DEF Finish, TypeOK
<1>11. CASE Crash(d)
  BY <1>0, <1>a, <1>11 DEF Crash, TypeOK
<1>12. CASE Transfer(d)
  BY <1>0, <1>a, <1>12 DEF Transfer, TypeOK
<1>13. CASE SyncPart(d)
  BY <1>0, <1>a, <1>13 DEF SyncPart, TypeOK
<1>14. CASE Capture(d)
  BY <1>0, <1>a, <1>14 DEF Capture, TypeOK
<1>15. CASE Uncapture(d)
  BY <1>0, <1>a, <1>15 DEF Uncapture, TypeOK
<1>16. CASE PublishAbsent(d)
  BY <1>0, <1>a, <1>16 DEF PublishAbsent, TypeOK, Exchanges, PrivName
<1>17. CASE Exchange(d)
  BY <1>0, <1>a, <1>17 DEF Exchange, TypeOK, Exchanges, PrivName
<1>18. CASE Dispose(d)
  BY <1>0, <1>a, <1>18 DEF Dispose, TypeOK, PrivName, Exchanges
<1>19. CASE Rollback(d)
  BY <1>0, <1>a, <1>19 DEF Rollback, TypeOK, Exchanges, PrivName
<1>20. CASE Restore(d)
  BY <1>0, <1>a, <1>20 DEF Restore, TypeOK
<1>21. CASE Abort(d)
  BY <1>0, <1>a, <1>21 DEF Abort, TypeOK
<1>22. CASE Unlink(d)
  BY <1>0, <1>a, <1>22 DEF Unlink, TypeOK
<1>23. CASE Reinstate(d)
  BY <1>0, <1>a, <1>23 DEF Reinstate, TypeOK
<1>24. QED
  BY <1>1, <1>2, <1>3, <1>4, <1>5, <1>6, <1>7, <1>8, <1>9, <1>10, <1>11, <1>12, <1>13, <1>14, <1>15, <1>16, <1>17, <1>18, <1>19, <1>20, <1>21, <1>22, <1>23 DEF Step

(* Nothing but its own names shows what a download has not published. *)
LEMMA HiddenStep ==
  ASSUME PublicationInv, NEW d \in Downloads, Step(d) \/ Crash(d), Frame(d)
  PROVE  Hidden'
<1>0. /\ TypeOK /\ OneName /\ Hidden
  BY DEF PublicationInv, Shared
<1> SUFFICES ASSUME NEW e \in Downloads, Unpublished(e)', part'[e] # NoFile,
                    NEW n \in Names, dir'[n] = part'[e]
             PROVE  n \in NamesOf(e)
  BY DEF Hidden
<1>1. CASE e # d
  <2>1. Unpublished(e) /\ part'[e] = part[e] /\ part[e] \in Maybe
    BY <1>0, <1>1 DEF Unpublished, Frame, TypeOK
  <2>2. \A m \in Names : dir[m] = part[e] => m \in NamesOf(e)
    BY <1>0, <2>1 DEF Hidden
  <2>3. /\ OwnNames(d) \subseteq Names /\ OwnNames(d) \cap NamesOf(e) = {}
    BY <1>1, NamesApart DEF OwnNames, NamesOf
  <2>4. CASE CreatePart(d)
    BY <1>0, <2>1, <2>2, <2>4, CreatedNames
  <2>5. CASE Renames(d)
    BY <1>0, <2>1, <2>2, <2>3, <2>5, RenamedNames
  <2>6. QED
    BY <2>4, <2>5, RenameStep
<1>2. CASE e = d /\ CreatePart(d)
  <2>1. n = Part(d)
    BY <1>0, <1>2, CreatedNames DEF TypeOK
  <2>2. QED
    BY <1>2, <2>1 DEF NamesOf
<1>3. CASE e = d /\ ~CreatePart(d)
  <2>1. part' = part
    BY <1>3, FilesStep
  <2>2. Unpublished(d) /\ dir'[Final] # part[d]
    BY <1>3, <2>1, UnpublishedStep
  <2>3. CASE n \in OwnNames(d)
    BY <1>3, <2>1, <2>2, <2>3 DEF OwnNames, NamesOf
  <2>4. CASE n \notin OwnNames(d)
    <3>1. dir'[n] = dir[n]
      BY <1>0, <1>3, <2>4, RenameStep, RenamedNames
    <3>2. QED
      BY <1>0, <1>3, <2>1, <2>2, <3>1 DEF Hidden
  <2>5. QED
    BY <2>3, <2>4
<1>4. QED
  BY <1>1, <1>2, <1>3

(* A step never empties the final name, and a download that publishes without *)
(* --overwrite finds it empty.                                                *)
LEMMA WinnerStep ==
  ASSUME PublicationInv, NEW d \in Downloads, Step(d) \/ Crash(d)
  PROVE  /\ dir[Final] # NoFile => dir'[Final] # NoFile
         /\ Winner(d)' => Winner(d) \/ (dir[Final] = NoFile /\ dir'[Final] # NoFile)
<1> USE DEF Go, Fail, Moved, Exchanged, Fixed, Winner
<1>0. /\ TypeOK /\ PrivName(d) /\ PartName(d) /\ Ended(d)
      /\ Part(d) \in Names /\ Priv(d) \in Names /\ Quar(d) \in Names /\ Final \in Names
      /\ Part(d) # Final /\ Priv(d) # Final /\ Quar(d) # Final
      /\ Part(d) # Priv(d) /\ Part(d) # Quar(d) /\ Priv(d) # Quar(d)
  BY NamesApart DEF PublicationInv, Local
<1>1. CASE Inspect(d)
  BY <1>0, <1>1 DEF Inspect, TypeOK
<1>2. CASE Unsupported(d)
  BY <1>0, <1>2 DEF Unsupported, TypeOK
<1>3. CASE SyncFails(d)
  BY <1>0, <1>3 DEF SyncFails, TypeOK
<1>4. CASE ValidateTarget(d)
  BY <1>0, <1>4 DEF ValidateTarget, TypeOK
<1>5. CASE ValidatePart(d)
  BY <1>0, <1>5 DEF ValidatePart, TypeOK
<1>6. CASE ProbeFails(d)
  BY <1>0, <1>6 DEF ProbeFails, TypeOK
<1>7. CASE Collide(d)
  BY <1>0, <1>7 DEF Collide, TypeOK
<1>8. CASE Verify(d)
  BY <1>0, <1>8 DEF Verify, TypeOK, Changed, Exchanges
<1>9. CASE Identify(d)
  BY <1>0, <1>9 DEF Identify, TypeOK, Changed, Exchanges
<1>10. CASE Finish(d)
  BY <1>0, <1>10 DEF Finish, TypeOK
<1>11. CASE Crash(d)
  BY <1>0, <1>11 DEF Crash, TypeOK
<1>12. CASE Transfer(d)
  BY <1>0, <1>12 DEF Transfer, TypeOK
<1>13. CASE SyncPart(d)
  BY <1>0, <1>13 DEF SyncPart, TypeOK
<1>14. CASE CreatePart(d)
  BY <1>0, <1>14 DEF CreatePart, TypeOK
<1>15. CASE Capture(d)
  BY <1>0, <1>15 DEF Capture, TypeOK
<1>16. CASE Uncapture(d)
  BY <1>0, <1>16 DEF Uncapture, TypeOK
<1>17. CASE PublishAbsent(d)
  BY <1>0, <1>17 DEF PublishAbsent, TypeOK, Exchanges, PrivName, PartName, Working, Places
<1>18. CASE Exchange(d)
  BY <1>0, <1>18 DEF Exchange, TypeOK, Exchanges, PrivName, PartName, Working, Places
<1>19. CASE Dispose(d)
  BY <1>0, <1>19 DEF Dispose, TypeOK, Exchanges, PrivName, PartName, Working, Places
<1>20. CASE Rollback(d)
  BY <1>0, <1>20 DEF Rollback, TypeOK, Exchanges, PrivName, PartName, Working, Places
<1>21. CASE Restore(d)
  BY <1>0, <1>21 DEF Restore, TypeOK
<1>22. CASE Abort(d)
  BY <1>0, <1>22 DEF Abort, TypeOK
<1>23. CASE Unlink(d)
  BY <1>0, <1>23 DEF Unlink, TypeOK
<1>24. CASE Reinstate(d)
  BY <1>0, <1>24 DEF Reinstate, TypeOK
<1>25. QED
  BY <1>1, <1>2, <1>3, <1>4, <1>5, <1>6, <1>7, <1>8, <1>9, <1>10, <1>11, <1>12, <1>13, <1>14, <1>15, <1>16, <1>17, <1>18, <1>19, <1>20, <1>21, <1>22, <1>23, <1>24 DEF Step

(* Of the downloads that publish without --overwrite only one wins. *)
LEMMA WonStep ==
  ASSUME PublicationInv, NEW d \in Downloads, Step(d) \/ Crash(d), Frame(d)
  PROVE  Won'
<1>1. \A e \in Downloads : e # d => (Winner(e)' <=> Winner(e))
  BY DEF Winner, Frame
<1>2. other' = other /\ Won
  BY DEF Frame, PublicationInv, Shared
<1>3. QED
  BY <1>1, <1>2, WinnerStep DEF Won

(* No download removes a file that another one, or the user, has made. *)
LEMMA ForeignStep ==
  ASSUME PublicationInv, NEW d \in Downloads, Step(d) \/ Crash(d), Frame(d)
  PROVE  NoForeignFileRemoved'
<1> USE DEF NoForeignFileRemoved
<1>0. /\ TypeOK /\ PrivName(d) /\ QuarName(d) /\ Fresh(d) /\ NoForeignFileRemoved
      /\ removed \subseteq (Downloads \X FileIds)
  BY DEF PublicationInv, Local, TypeOK
<1>1. CASE Unsupported(d) \/ SyncFails(d) \/ ValidateTarget(d) \/ ValidatePart(d) \/ ProbeFails(d)
  <2>1. removed' = removed /\ target' = target /\ part' = part /\ over' = over
    BY <1>1 DEF Unsupported, SyncFails, ValidateTarget, ValidatePart, ProbeFails, Fixed
  <2>2. QED
    BY <1>0, <2>1
<1>2. CASE Collide(d) \/ Verify(d) \/ Identify(d) \/ Finish(d) \/ Crash(d)
  <2>1. removed' = removed /\ target' = target /\ part' = part /\ over' = over
    BY <1>2 DEF Collide, Verify, Identify, Finish, Crash, Fixed
  <2>2. QED
    BY <1>0, <2>1
<1>3. CASE Transfer(d) \/ SyncPart(d) \/ Capture(d) \/ Uncapture(d) \/ PublishAbsent(d)
  <2>1. removed' = removed /\ target' = target /\ part' = part /\ over' = over
    BY <1>3 DEF Transfer, SyncPart, Capture, Uncapture, PublishAbsent, Fixed
  <2>2. QED
    BY <1>0, <2>1
<1>4. CASE Exchange(d) \/ Rollback(d) \/ Restore(d) \/ Abort(d) \/ Reinstate(d)
  <2>1. removed' = removed /\ target' = target /\ part' = part /\ over' = over
    BY <1>4 DEF Exchange, Rollback, Restore, Abort, Reinstate, Fixed
  <2>2. QED
    BY <1>0, <2>1
<1>5. CASE Inspect(d) \/ CreatePart(d)
  <2>1. /\ removed' = removed /\ over' = over /\ \A r \in removed : r[1] # d
        /\ \A e \in Downloads : e # d => target'[e] = target[e] /\ part'[e] = part[e]
    BY <1>0, <1>5 DEF Inspect, CreatePart, Fixed, Fresh, TypeOK
  <2>2. QED
    BY <1>0, <2>1
<1>6. CASE Dispose(d)
  <2>1. /\ removed' \subseteq removed \cup {<<d, target[d]>>} /\ over[d]
        /\ target' = target /\ part' = part /\ over' = over
    BY <1>0, <1>6 DEF Dispose, PrivName, Exchanges, Fixed
  <2>2. QED
    BY <1>0, <2>1
<1>7. CASE Unlink(d)
  <2>1. /\ removed' \subseteq removed \cup {<<d, part[d]>>}
        /\ target' = target /\ part' = part /\ over' = over
    BY <1>0, <1>7 DEF Unlink, QuarName, Fixed
  <2>2. QED
    BY <1>0, <2>1
<1>8. QED
  BY <1>1, <1>2, <1>3, <1>4, <1>5, <1>6, <1>7 DEF Step

(* The other program replaces or removes a file under a name it can see: the final *)
(* one, or a part name that exists.                                                *)
OtherChange(n, f) ==
  /\ n \in Public /\ dir' = [dir EXCEPT ![n] = f]
  /\ f = NoFile \/ (f \notin Maybe /\ files'[f].owner = "user")
  /\ FileIds \subseteq FileIds' /\ \A g \in FileIds : files'[g] = files[g]
  /\ \A g \in FileIds' : g \in FileIds \/ files'[g].owner = "user"
  /\ other' # 0
  /\ UNCHANGED <<at, over, target, part, dirty, pub, outcome, removed>>

(* A step of the other program is such a change. *)
LEMMA OtherStep ==
  ASSUME PublicationInv, OtherWrites \/ OtherRemoves
  PROVE  TypeOK' /\ \E n \in Names, f \in Nat : OtherChange(n, f)
<1>0. /\ TypeOK /\ Public \subseteq Names /\ MaxOther \in Nat /\ other \in 0..MaxOther
  BY NamesApart, DestinationAssumption DEF PublicationInv, Public, TypeOK, DestinationAssumption
<1>a. other' # 0
  BY <1>0 DEF OtherWrites, OtherRemoves
<1>1. CASE OtherWrites
  <2>1. PICK n \in Public, k \in Kinds : /\ files' = Append(files, File("user", k))
                                         /\ dir' = [dir EXCEPT ![n] = Len(files) + 1]
    BY <1>1 DEF OtherWrites
  <2>2. /\ files' \in Seq(FileType) /\ Len(files) \in Nat /\ FileIds \subseteq FileIds'
        /\ Len(files) + 1 \in FileIds' /\ files'[Len(files) + 1] = File("user", k)
        /\ \A g \in FileIds : files'[g] = files[g]
        /\ \A g \in FileIds' : g \in FileIds \/ g = Len(files) + 1
    BY <1>0, <2>1, FileAdded
  <2>3. Maybe \subseteq Maybe' /\ Len(files) + 1 \in Maybe' /\ Len(files) + 1 \notin Maybe
    BY <2>2 DEF Maybe, FileIds, NoFile
  <2>4. TypeOK'
    BY <1>0, <1>1, <2>1, <2>2, <2>3 DEF OtherWrites, TypeOK, FileType
  <2>5. OtherChange(n, Len(files) + 1)
    <3>1. files'[Len(files) + 1].owner = "user"
      BY <2>2 DEF File
    <3>2. UNCHANGED <<at, over, target, part, dirty, pub, outcome, removed>>
      BY <1>1 DEF OtherWrites
    <3>3. QED
      BY <1>a, <2>1, <2>2, <2>3, <3>1, <3>2 DEF OtherChange
  <2>6. QED
    BY <1>0, <2>2, <2>4, <2>5
<1>2. CASE OtherRemoves
  <2>1. PICK n \in Public : dir' = [dir EXCEPT ![n] = NoFile]
    BY <1>2 DEF OtherRemoves
  <2>2. FileIds' = FileIds /\ Maybe' = Maybe
    BY <1>2 DEF OtherRemoves, FileIds, Maybe
  <2>3. TypeOK'
    BY <1>0, <1>2, <2>1, <2>2 DEF OtherRemoves, TypeOK, Maybe
  <2>4. OtherChange(n, NoFile)
    <3>1. UNCHANGED <<files, at, over, target, part, dirty, pub, outcome, removed>>
      BY <1>2 DEF OtherRemoves
    <3>2. QED
      BY <1>a, <2>1, <2>2, <3>1 DEF OtherChange
  <2>5. QED
    BY <1>0, <2>3, <2>4 DEF NoFile
<1>3. QED
  BY <1>1, <1>2

(* ... and such a change preserves the inductive invariant. *)
LEMMA OtherPreserves ==
  ASSUME PublicationInv, TypeOK', NEW n \in Names, NEW f \in Nat, OtherChange(n, f)
  PROVE  PublicationInv'
<1>0. /\ TypeOK /\ NoForeignFileRemoved /\ CleanEndLeavesNothing
      /\ \A d \in Downloads : Local(d)
      /\ Owned /\ OneName /\ Complete /\ Hidden /\ Won
  BY DEF PublicationInv, Shared
<1>1. /\ dir \in [Names -> Maybe] /\ \A m \in Maybe : m # NoFile => m \in FileIds
      /\ \A d \in Downloads : part[d] \in Maybe
  BY <1>0 DEF TypeOK, Maybe
<1>2. \A m \in Names : m # n => dir'[m] = dir[m]
  BY <1>1 DEF OtherChange
<1>3. dir'[n] = f
  BY <1>1 DEF OtherChange
<1>4. \A d \in Downloads : /\ dir'[Priv(d)] = dir[Priv(d)] /\ dir'[Quar(d)] = dir[Quar(d)]
                           /\ dir[Part(d)] = NoFile => dir'[Part(d)] = NoFile
                           /\ dir'[Part(d)] \in {dir[Part(d)], f}
  <2> SUFFICES ASSUME NEW d \in Downloads
               PROVE  /\ dir'[Priv(d)] = dir[Priv(d)] /\ dir'[Quar(d)] = dir[Quar(d)]
                      /\ dir[Part(d)] = NoFile => dir'[Part(d)] = NoFile
                      /\ dir'[Part(d)] \in {dir[Part(d)], f}
    OBVIOUS
  <2>1. n = Final \/ \E e \in Downloads : n = Part(e) /\ dir[Part(e)] # NoFile
    BY DEF OtherChange, Public
  <2>2. n # Priv(d) /\ n # Quar(d) /\ (n = Part(d) => dir[Part(d)] # NoFile)
    BY <2>1, NamesApart
  <2>3. QED
    BY <1>2, <1>3, <2>2, NamesApart
<1>5. UNCHANGED <<at, over, target, part, dirty, pub, outcome, removed>>
  BY DEF OtherChange
<1>6. NoForeignFileRemoved' /\ CleanEndLeavesNothing'
  <2>1. NoForeignFileRemoved'
    BY <1>0, <1>5 DEF NoForeignFileRemoved
  <2>2. ASSUME NEW d \in Downloads, at[d] = "end", ~dirty[d], NEW m \in NamesOf(d)
        PROVE  dir'[m] = NoFile
    <3>1. dir[m] = NoFile /\ dir[Part(d)] = NoFile
      BY <1>0, <2>2 DEF CleanEndLeavesNothing, NamesOf
    <3>2. QED
      BY <1>4, <2>2, <3>1 DEF NamesOf
  <2>3. ASSUME NEW d \in Downloads, at[d] = "end", ~dirty[d], ~pub[d], part[d] # NoFile,
               NEW m \in Names
        PROVE  dir'[m] # part[d]
    <3>1. dir[m] # part[d]
      BY <1>0, <2>3 DEF CleanEndLeavesNothing
    <3>2. f = NoFile \/ f \notin Maybe
      BY DEF OtherChange
    <3>3. QED
      BY <1>1, <1>2, <1>3, <2>3, <3>1, <3>2
  <2>4. QED
    BY <1>5, <2>1, <2>2, <2>3 DEF CleanEndLeavesNothing
<1>7. ASSUME NEW d \in Downloads PROVE Local(d)'
  <2>0. /\ Local(d) /\ (dir[Priv(d)] # NoFile => dir[Priv(d)] \in FileIds)
        /\ (dir[Part(d)] # NoFile => dir[Part(d)] \in FileIds)
        /\ (dir[Quar(d)] # NoFile => dir[Quar(d)] \in FileIds)
        /\ (part[d] # NoFile => part[d] \in FileIds)
        /\ \A g \in FileIds : files'[g] = files[g]
    BY <1>0, <1>1, NamesApart DEF OtherChange
  <2>1. Fresh(d)' /\ Ended(d)'
    BY <1>4, <1>5, <2>0 DEF Local, Fresh, Ended, NamesOf
  <2>2. PartName(d)' /\ QuarName(d)'
    BY <1>4, <1>5, <2>0 DEF Local, PartName, QuarName
  <2>3. PrivName(d)'
    BY <1>4, <1>5, <2>0 DEF Local, PrivName, Exchanges
  <2>4. PartOwned(d)'
    <3>1. /\ dir'[Part(d)] \in {NoFile, dir[Part(d)]} \/ files'[dir'[Part(d)]].owner = "user"
          /\ dir'[Quar(d)] = dir[Quar(d)]
      BY <1>4 DEF OtherChange
    <3>2. at[d] \in {"sync", "target", "validate", "capture"} => part[d] # NoFile
      BY <2>0 DEF Local, PartName, Working, Places
    <3>3. QED
      BY <1>5, <2>0, <3>1, <3>2 DEF Local, PartOwned
  <2>5. QED
    BY <2>1, <2>2, <2>3, <2>4 DEF Local
<1>8. Owned' /\ OneName'
  <2>1. Owned'
    BY <1>0, <1>5 DEF Owned, OtherChange
  <2>2. f = NoFile \/ f \notin Maybe
    BY DEF OtherChange
  <2>3. OneName'
    BY <1>0, <1>1, <1>2, <1>3, <2>2 DEF OneName
  <2>4. QED
    BY <2>1, <2>3
<1>9. Complete'
  <2>1. ASSUME NEW m \in {Final} \cup {Priv(d) : d \in Downloads}, dir'[m] # NoFile,
               files'[dir'[m]].owner # "user"
        PROVE  files'[dir'[m]].whole /\ files'[dir'[m]].synced
    <3>1. m \in Names /\ dir'[m] # f
      BY <1>3, <2>1, NamesApart DEF OtherChange
    <3>2. dir'[m] = dir[m] /\ dir[m] \in FileIds
      BY <1>1, <1>2, <1>3, <2>1, <3>1
    <3>3. files'[dir[m]] = files[dir[m]]
      BY <3>2 DEF OtherChange
    <3>4. QED
      BY <1>0, <2>1, <3>2, <3>3 DEF Complete
  <2>2. QED
    BY <2>1 DEF Complete
<1>10. Hidden'
  <2>1. \A d \in Downloads : Unpublished(d)' <=> Unpublished(d)
    BY <1>5 DEF Unpublished
  <2>2. \A d \in Downloads : part[d] # NoFile => part[d] # f
    BY <1>1 DEF OtherChange
  <2>3. QED
    BY <1>0, <1>2, <1>3, <1>5, <2>1, <2>2 DEF Hidden
<1>11. Won'
  BY DEF Won, OtherChange
<1>12. QED
  BY <1>6, <1>7, <1>8, <1>9, <1>10, <1>11 DEF PublicationInv, Shared

(* The inductive invariant holds at the start. *)
LEMMA PublicationInit == Init => PublicationInv
<1> SUFFICES ASSUME Init PROVE PublicationInv
  OBVIOUS
<1>1. PICK fs \in {<< >>, <<File("user", "regular")>>} :
        /\ files = fs
        /\ dir = [n \in Names |-> IF n = Final THEN Len(fs) ELSE NoFile]
  BY DEF Init
<1>2. File("user", "regular") \in FileType
  BY DEF File, FileType, Kinds
<1>3. /\ files \in Seq(FileType) /\ Len(files) \in {0, 1}
      /\ \A f \in FileIds : files[f].owner = "user"
  <2>1. CASE fs = << >>
    BY <1>1, <2>1 DEF FileIds
  <2>2. CASE fs = <<File("user", "regular")>>
    BY <1>1, <1>2, <2>2 DEF FileIds, File
  <2>3. QED
    BY <2>1, <2>2
<1>4. /\ dir \in [Names -> Maybe]
      /\ \A n \in Names : n # Final => dir[n] = NoFile
      /\ dir[Final] # NoFile => dir[Final] \in FileIds
  BY <1>1, <1>3, NamesApart DEF Maybe, FileIds, NoFile
<1>5. /\ at = [d \in Downloads |-> "start"] /\ over \in [Downloads -> BOOLEAN]
      /\ target = [d \in Downloads |-> NoFile] /\ part = [d \in Downloads |-> NoFile]
      /\ dirty = [d \in Downloads |-> FALSE] /\ met = [d \in Downloads |-> "none"]
      /\ pub = [d \in Downloads |-> FALSE] /\ ident = [d \in Downloads |-> NoFile]
      /\ outcome = [d \in Downloads |-> "none"] /\ removed = {} /\ other = 0
  BY DEF Init
<1>6. TypeOK
  <2>1. NoFile \in Maybe /\ other \in 0..MaxOther
    BY <1>5, DestinationAssumption DEF Maybe, DestinationAssumption
  <2>2. QED
    BY <1>3, <1>4, <1>5, <2>1 DEF TypeOK, FileType, Places, Outcomes
<1>7. ASSUME NEW d \in Downloads PROVE Local(d)
  <2>1. \A n \in {Part(d), Priv(d), Quar(d)} : dir[n] = NoFile
    BY <1>4, NamesApart
  <2>2. QED
    BY <1>5, <2>1 DEF Local, Fresh, PartName, PrivName, QuarName, Ended, PartOwned, NamesOf, Working, Places
<1>8. Shared
  <2>1. Owned /\ OneName /\ Hidden
    BY <1>3, <1>4, <1>5 DEF Owned, OneName, Hidden
  <2>2. Complete
    <3>1. \A n \in {Final} \cup {Priv(d) : d \in Downloads} : n \in Names
      BY NamesApart
    <3>2. QED
      BY <1>3, <1>4, <3>1 DEF Complete
  <2>3. Won
    BY <1>5 DEF Won, Winner
  <2>4. QED
    BY <2>1, <2>2, <2>3 DEF Shared
<1>9. QED
  BY <1>5, <1>6, <1>7, <1>8 DEF PublicationInv, NoForeignFileRemoved, CleanEndLeavesNothing

(* Every step preserves the inductive invariant. *)
LEMMA PublicationStep == PublicationInv /\ [Next]_vars => PublicationInv'
<1> SUFFICES ASSUME PublicationInv, [Next]_vars PROVE PublicationInv'
  OBVIOUS
<1>1. ASSUME NEW d \in Downloads, Step(d) \/ Crash(d) PROVE PublicationInv'
  <2>1. Frame(d) /\ TypeOK'
    BY <1>1, FrameStep, TypeStep
  <2>2. \A e \in Downloads : Local(e)'
    BY <1>1, <2>1, LocalStep, LocalKept
  <2>3. CleanEndLeavesNothing'
    <3>1. \A e \in Downloads : CleanEnd(e)'
      BY <1>1, <2>1, CleanEndStep, CleanEndKept
    <3>2. QED
      BY <3>1 DEF CleanEnd, CleanEndLeavesNothing
  <2>4. OneName'
    BY <1>1, RenameStep, RenamedNames, CreatedNames DEF PublicationInv, Shared
  <2>5. Shared'
    BY <1>1, <2>1, <2>4, OwnedStep, CompleteStep, HiddenStep, WonStep DEF Shared
  <2>6. QED
    BY <1>1, <2>1, <2>2, <2>3, <2>5, ForeignStep DEF PublicationInv
<1>2. CASE OtherWrites \/ OtherRemoves
  BY <1>2, OtherStep, OtherPreserves
<1>3. CASE UNCHANGED vars
  BY <1>3 DEF vars, PublicationInv, TypeOK, NoForeignFileRemoved, CleanEndLeavesNothing,
    Local, Fresh, PartName, PrivName, QuarName, Ended, PartOwned, Exchanges, FileIds, Maybe,
    Shared, Owned, OneName, Complete, Hidden, Unpublished, Won, Winner
<1>4. QED
  BY <1>1, <1>2, <1>3 DEF Next

(* The inductive invariant contains what the run checks. *)
LEMMA PublicationImplies == PublicationInv => PublicationSafe
<1> SUFFICES ASSUME PublicationInv PROVE PublicationSafe
  OBVIOUS
<1>1. FinalIsWhole
  BY DEF PublicationInv, Shared, Complete, FinalIsWhole
<1>2. OneWinner
  BY DEF PublicationInv, Shared, Won, Winner, OneWinner
<1>3. FailureNotPublished
  <2>1. ASSUME NEW d \in Downloads, outcome[d] = "failed", ~over[d], part[d] # NoFile
        PROVE  dir[Final] # part[d]
    <3>1. Unpublished(d)
      BY <2>1 DEF PublicationInv, Local, Ended, Unpublished
    <3>2. dir[Final] = part[d] => Final \in NamesOf(d)
      BY <2>1, <3>1, NamesApart DEF PublicationInv, Shared, Hidden
    <3>3. QED
      BY <3>2, NamesApart DEF NamesOf
  <2>2. QED
    BY <2>1 DEF FailureNotPublished
<1>4. QED
  BY <1>1, <1>2, <1>3 DEF PublicationInv, PublicationSafe

(* For any number of downloads of one name, with and without --overwrite, beside another *)
(* program that writes the name, and with a crash at any step: nobody's file is removed, *)
(* what is published is whole and synced, one download without --overwrite wins, and a   *)
(* clean end leaves no temporary file.                                                   *)
THEOREM PublicationIsSafe == Spec => []PublicationSafe
<1>1. QED
  BY PublicationInit, PublicationStep, PublicationImplies, PTL DEF Spec

--------------------------------------------------------------------------------
(* Export, manifest and verification *)

USE ArchiveAssumption DEF ArchiveAssumption

(* What the description of a medium says of the content it was made from. *)
ItemTrue(m) ==
  /\ items[m] # Unknown => items[m].path = records[m] /\ records[m] # NoMedia
  /\ items[m].hash = "due" => hashed /\ items[m].present /\ step \in {"describe", "dead"}
  /\ items[m].path # NoMedia /\ items[m].hash # "due" /\ items[m].present =>
       /\ built[m] \in Bytes
       /\ IF hashed THEN items[m].hash = built[m]
                    ELSE items[m].hash = Gone /\ items[m].size = Size(built[m])
(* ... and, while no file is touched, of the content it still has. *)
ItemSteady(m) ==
  steady /\ items[m].path # NoMedia =>
    /\ stored[items[m].path] = built[m]
    /\ items[m].present => built[m] \in Bytes /\ items[m].size = Size(built[m])
(* The export writes the rows it read, and describes them after that. *)
ExportRows ==
  /\ step \in {"start", "temp", "look", "rename"} => \A m \in Messages : items[m] = Unknown
  /\ step = "manifest" \/ man.kind = "manifest" =>
       \A m \in Messages : items[m].path = records[m]
  /\ out.kind = "export" => out.named = records /\ step \notin {"start"}
  /\ man.kind = "manifest" => man.items = items /\ step = "ok"
(* The verification holds the manifest, and has found right what it is done with. *)
CheckRight ==
  /\ check # "none" => held = items /\ step = "ok"
  /\ check = "items" => \A m \in left : held[m].path # NoMedia
  /\ check \in {"items", "clean"} /\ calm /\ wrong = {} =>
       \A m \in Messages \ left : held[m].path # NoMedia =>
         ~Missing(held[m]) /\ ~Differs(held[m])
  /\ check = "clean" => wrong = {} /\ left = {} /\ (calm => ~Extra)
  /\ check \in {"missing", "changed"} => wrong # {}
  /\ steady /\ check # "none" /\ wrong # {} =>
       \E m \in Messages : held[m].path # NoMedia /\ ~held[m].present
(* The inductive invariant. *)
ArchiveInv ==
  /\ ArchiveTypeOK
  /\ \A m \in Messages : ItemTrue(m) /\ ItemSteady(m)
  /\ ExportRows
  /\ CheckRight

(* The values of an item, and those that stand for no content, are told apart. *)
LEMMA ItemValues ==
  /\ Unknown \in Item /\ Unknown.path = NoMedia /\ Unknown.hash = Gone /\ Unknown.present = FALSE
  /\ \A i \in Item : /\ i.path \in Files \cup {NoMedia} /\ i.present \in BOOLEAN /\ i.size \in 0..2
                     /\ i.hash \in Bytes \cup {Gone, "due"}
  /\ "due" \notin Bytes /\ Gone \notin Bytes /\ Odd \notin Bytes /\ Gone # Odd /\ Gone # "due"
  /\ \A c \in Medias : Size(c) \in 0..2
  BY DEF Unknown, Item, Gone, Odd, Bytes, Size, Medias

(* What a first look at a file tells. *)
LEMMA FactsTrue ==
  ASSUME ArchiveTypeOK, NEW f \in Files
  PROVE  /\ Facts(f) \in Item /\ Facts(f) # Unknown /\ Facts(f).path = f
         /\ Facts(f).present <=> stored[f] \in Bytes
         /\ Facts(f).present => Facts(f).size = Size(stored[f])
         /\ Facts(f).present => Facts(f).hash = IF hashed THEN "due" ELSE Gone
         /\ ~Facts(f).present => Facts(f).hash = Gone
<1>1. f # NoMedia /\ stored[f] \in Medias /\ hashed \in BOOLEAN
  BY DEF ArchiveTypeOK
<1>2. CASE stored[f] \in Bytes
  <2>1. Facts(f) = [path |-> f, present |-> TRUE, size |-> Size(stored[f]),
                    hash |-> IF hashed THEN "due" ELSE Gone]
    BY <1>1, <1>2 DEF Facts
  <2>2. QED
    BY <1>1, <1>2, <2>1, ItemValues DEF Item, Unknown
<1>3. CASE stored[f] \notin Bytes
  <2>1. Facts(f) = [path |-> f, present |-> FALSE, size |-> 0, hash |-> Gone]
    BY <1>1, <1>3 DEF Facts
  <2>2. QED
    BY <1>1, <1>3, <2>1, ItemValues DEF Item, Unknown
<1>4. QED
  BY <1>2, <1>3

(* The inductive invariant holds at the start. *)
LEMMA ArchiveStart == ArchiveInit => ArchiveInv
<1> SUFFICES ASSUME ArchiveInit PROVE ArchiveInv
  OBVIOUS
<1>1. ArchiveTypeOK
  BY ItemValues DEF ArchiveInit, ArchiveTypeOK, NoRows, Medias
<1>2. /\ out.kind # "export" /\ man.kind # "manifest"
  BY DEF ArchiveInit, Empty, Others
<1>3. QED
  BY <1>1, <1>2, ItemValues DEF ArchiveInit, ArchiveInv, ItemTrue, ItemSteady, ExportRows, CheckRight

(* A second look, for the hash, replaces what the first one said of the content. *)
LEMMA HashedItem ==
  ASSUME ArchiveTypeOK, NEW m \in Messages, items[m].path \in Files, Hash(m),
         NEW c, c = stored[items[m].path]
  PROVE  /\ items' \in [Messages -> Item] /\ built' \in [Messages -> Medias]
         /\ \A n \in Messages \ {m} : items'[n] = items[n] /\ built'[n] = built[n]
         /\ items'[m].path = items[m].path /\ items'[m].size = items[m].size
         /\ items'[m].present <=> c \in Bytes
         /\ items'[m].hash = IF c \in Bytes THEN c ELSE Gone
         /\ built'[m] = c
<1> DEFINE p == c \in Bytes
           h == IF c \in Bytes THEN c ELSE Gone
           r == [items[m] EXCEPT !.present = p, !.hash = h]
<1>1. /\ items \in [Messages -> Item] /\ items[m] \in Item /\ c \in Medias
      /\ built \in [Messages -> Medias] /\ built' = [built EXCEPT ![m] = c]
      /\ items' = [items EXCEPT ![m] = r]
  BY DEF ArchiveTypeOK, Hash
<1>2. p \in BOOLEAN /\ h \in Bytes \cup {Gone} /\ (p <=> c \in Bytes)
  OBVIOUS
<1> HIDE DEF p, h
<1>3. r \in Item /\ r.path = items[m].path /\ r.present = p /\ r.size = items[m].size /\ r.hash = h
  BY <1>1, <1>2 DEF Item
<1> HIDE DEF r
<1>4. /\ items' \in [Messages -> Item] /\ items'[m] = r
      /\ \A n \in Messages \ {m} : items'[n] = items[n]
  BY <1>1, <1>3
<1>5. QED
  BY <1>1, <1>2, <1>3, <1>4 DEF h

(* Every step of the export, of the verification and of the others keeps the types. *)
LEMMA ArchiveTypes ==
  ASSUME ArchiveInv, [ArchiveNext]_archVars
  PROVE  ArchiveTypeOK'
<1> USE DEF ArchiveTypeOK
<1>0. ArchiveTypeOK
  BY DEF ArchiveInv
<1>1. CASE ReadRows
  BY <1>0, <1>1 DEF ReadRows, exporting
<1>2. CASE WriteTemp
  BY <1>0, <1>2 DEF WriteTemp, exporting, Stop
<1>3. CASE LookAgain
  BY <1>0, <1>3 DEF LookAgain, exporting, Stop
<1>4. CASE Rename
  BY <1>0, <1>4 DEF Rename, exporting, Stop
<1>5. CASE WriteManifest
  BY <1>0, <1>5 DEF WriteManifest, exporting, Stop
<1>6. CASE PublishManifest
  <2>1. Manifest(items).kind = "manifest" /\ Manifest(items).items = items
    BY DEF Manifest
  <2>2. QED
    BY <1>0, <1>6, <2>1 DEF PublishManifest, exporting, Stop
<1>7. CASE Die
  BY <1>0, <1>7 DEF Die, exporting
<1>8. ASSUME NEW m \in Messages, Describe(m) PROVE ArchiveTypeOK'
  <2>1. records[m] \in Files
    BY <1>0, <1>8 DEF Describe, Described
  <2>2. Facts(records[m]) \in Item /\ stored[records[m]] \in Medias
    BY <1>0, <2>1, FactsTrue
  <2>3. QED
    BY <1>0, <1>8, <2>2 DEF Describe, FirstFacts, exporting
<1>9. ASSUME NEW m \in Messages, Hash(m) PROVE ArchiveTypeOK'
  <2>1. items[m].path \in Files
    <3>1. items[m] # Unknown
      BY <1>9, ItemValues DEF Hash
    <3>2. QED
      BY <1>0, <3>1 DEF ArchiveInv, ItemTrue
  <2>3. items' \in [Messages -> Item] /\ built' \in [Messages -> Medias]
    BY <1>0, <1>9, <2>1, HashedItem
  <2>4. QED
    BY <1>0, <1>9, <2>3 DEF Hash, exporting
<1>10. CASE ReadManifest
  <2>1. man.items \in [Messages -> Item]
    BY <1>0, <1>10 DEF ReadManifest, Empty, Others
  <2>2. QED
    BY <1>0, <1>10, <2>1 DEF ReadManifest, verifying
<1>11. ASSUME NEW m \in Messages, CheckItem(m) PROVE ArchiveTypeOK'
  BY <1>0, <1>11 DEF CheckItem, verifying
<1>12. CASE EndCheck
  BY <1>0, <1>12 DEF EndCheck, verifying
<1>13. CASE Disturb
  <2>1. /\ UNCHANGED <<step, hashed, records, items, temps, check, held, left, wrong, built>>
        /\ touches' \in 0..MaxTouches
    BY <1>0, <1>13 DEF Disturb
  <2>2. /\ named' \in [Messages -> Files \cup {NoMedia}] /\ stored' \in [Files -> Medias]
        /\ steady' \in BOOLEAN /\ calm' \in BOOLEAN
        /\ out' \in {out, Others} /\ man' \in {man, Others}
    <3>1. CASE (\E m \in Messages, f \in Files \cup {NoMedia} : named' = [named EXCEPT ![m] = f])
               /\ UNCHANGED <<stored, out, man, steady, calm>>
      BY <1>0, <3>1
    <3>2. CASE (\E f \in Files, c \in Medias : stored' = [stored EXCEPT ![f] = c])
               /\ steady' = FALSE /\ calm' = FALSE /\ UNCHANGED <<named, out, man>>
      <4>1. PICK f \in Files, c \in Medias : stored' = [stored EXCEPT ![f] = c]
        BY <3>2
      <4>2. stored' \in [Files -> Medias]
        BY <1>0, <4>1
      <4>3. QED
        BY <1>0, <3>2, <4>2
    <3>3. CASE /\ out' \in {out, Others} /\ man' \in {man, Others}
               /\ UNCHANGED <<named, stored, steady, calm>>
      BY <1>0, <3>3
    <3>4. QED
      BY <1>13, <3>1, <3>2, <3>3 DEF Disturb
  <2>3. QED
    BY <1>0, <2>1, <2>2
<1>14. CASE UNCHANGED archVars
  BY <1>0, <1>14 DEF archVars
<1>15. QED
  BY <1>1, <1>2, <1>3, <1>4, <1>5, <1>6, <1>7, <1>8, <1>9, <1>10, <1>11, <1>12, <1>13, <1>14 DEF ArchiveNext

(* A step of the export that describes nothing. *)
LEMMA ExportKeeps ==
  ASSUME ArchiveInv, ReadRows \/ WriteTemp \/ LookAgain \/ Rename \/ WriteManifest
                       \/ PublishManifest \/ Die, ArchiveTypeOK'
  PROVE  ArchiveInv'
<1>0. /\ ArchiveTypeOK /\ ExportRows /\ CheckRight
      /\ \A m \in Messages : ItemTrue(m) /\ ItemSteady(m)
  BY DEF ArchiveInv
<1>1. check = "none" /\ check' = "none" /\ items' = items /\ built' = built /\ stored' = stored
      /\ hashed' = hashed
  BY <1>0 DEF CheckRight, ReadRows, WriteTemp, LookAgain, Rename, WriteManifest, PublishManifest,
    Die, exporting
<1>2. CheckRight'
  BY <1>1 DEF CheckRight
<1>3. CASE ReadRows
  <2>1. \A m \in Messages : items[m] = Unknown
    BY <1>0, <1>3 DEF ReadRows, ExportRows
  <2>2. QED
    BY <1>0, <1>1, <1>2, <1>3, <2>1, ItemValues DEF ArchiveInv, ReadRows, ExportRows, ItemTrue, ItemSteady
<1>4. CASE WriteTemp \/ LookAgain
  BY <1>0, <1>1, <1>2, <1>4, ItemValues
     DEF ArchiveInv, WriteTemp, LookAgain, Stop, ExportRows, ItemTrue, ItemSteady
<1>5. CASE Rename
  <2>1. \A m \in Messages : items[m] = Unknown
    BY <1>0, <1>5 DEF Rename, ExportRows
  <2>2. out' = Export(records) \/ out' = out
    BY <1>5 DEF Rename
  <2>3. QED
    BY <1>0, <1>1, <1>2, <1>5, <2>1, <2>2, ItemValues
       DEF ArchiveInv, Rename, ExportRows, ItemTrue, ItemSteady, Export
<1>6. CASE WriteManifest
  <2>1. \A m \in Messages : items[m].path = records[m] /\ items[m].hash # "due"
    BY <1>0, <1>6, ItemValues DEF WriteManifest, Described, ItemTrue
  <2>2. QED
    BY <1>0, <1>1, <1>2, <1>6, <2>1 DEF ArchiveInv, WriteManifest, Stop, ExportRows, ItemTrue, ItemSteady
<1>7. CASE PublishManifest
  <2>1. Manifest(items).kind = "manifest" /\ Manifest(items).items = items
    BY DEF Manifest
  <2>2. \A m \in Messages : items[m].hash # "due"
    BY <1>0, <1>7 DEF PublishManifest, ItemTrue
  <2>3. QED
    BY <1>0, <1>1, <1>2, <1>7, <2>1, <2>2
       DEF ArchiveInv, PublishManifest, Stop, ExportRows, ItemTrue, ItemSteady
<1>8. CASE Die
  BY <1>0, <1>1, <1>2, <1>8 DEF ArchiveInv, Die, ExportRows, ItemTrue, ItemSteady
<1>9. QED
  BY <1>3, <1>4, <1>5, <1>6, <1>7, <1>8

(* Describe and Hash say what is true of the file they looked at. *)
LEMMA DescribeKeeps ==
  ASSUME ArchiveInv, NEW m \in Messages, Describe(m) \/ Hash(m), ArchiveTypeOK'
  PROVE  ArchiveInv'
<1>0. /\ ArchiveTypeOK /\ ExportRows /\ CheckRight
      /\ \A n \in Messages : ItemTrue(n) /\ ItemSteady(n)
  BY DEF ArchiveInv
<1>1. /\ step = "describe" /\ check = "none" /\ man.kind # "manifest"
      /\ UNCHANGED <<named, stored, check, held, left, wrong, touches, calm, out, man, step, hashed,
                     records, temps, steady>>
  BY <1>0 DEF Describe, Hash, exporting, CheckRight, ExportRows
<1>2. CheckRight' /\ ExportRows'
  BY <1>0, <1>1 DEF CheckRight, ExportRows
<1>3. ASSUME NEW n \in Messages, items'[n] = items[n], built'[n] = built[n]
      PROVE  ItemTrue(n)' /\ ItemSteady(n)'
  BY <1>0, <1>1, <1>3 DEF ItemTrue, ItemSteady
<1>4. CASE Describe(m)
  <2>1. records[m] \in Files
    BY <1>0, <1>4 DEF Describe, Described, ArchiveTypeOK
  <2>2. /\ items'[m] = Facts(records[m]) /\ built'[m] = stored[records[m]]
        /\ \A n \in Messages \ {m} : items'[n] = items[n] /\ built'[n] = built[n]
    BY <1>0, <1>4 DEF Describe, FirstFacts, ArchiveTypeOK
  <2>3. ItemTrue(m)' /\ ItemSteady(m)'
    BY <1>1, <2>1, <2>2, FactsTrue, <1>0, ItemValues DEF ItemTrue, ItemSteady
  <2>4. QED
    BY <1>2, <1>3, <2>2, <2>3 DEF ArchiveInv
<1>5. CASE Hash(m)
  <2>1. /\ items[m] # Unknown /\ items[m].hash = "due" /\ hashed /\ items[m].present
        /\ items[m].path = records[m] /\ records[m] # NoMedia
    BY <1>0, <1>5, ItemValues DEF Hash, ItemTrue
  <2>2. items[m].path \in Files
    BY <1>0, <2>1 DEF ArchiveTypeOK
  <2>3. PICK c : c = stored[items[m].path]
    OBVIOUS
  <2>4. /\ \A n \in Messages \ {m} : items'[n] = items[n] /\ built'[n] = built[n]
        /\ items'[m].path = items[m].path /\ items'[m].size = items[m].size
        /\ items'[m].present <=> c \in Bytes
        /\ items'[m].hash = IF c \in Bytes THEN c ELSE Gone
        /\ built'[m] = c
    BY <1>0, <1>5, <2>2, <2>3, HashedItem
  <2>5. ItemTrue(m)'
    BY <1>1, <2>1, <2>4, ItemValues DEF ItemTrue
  <2>6. ItemSteady(m)'
    BY <1>0, <1>1, <2>1, <2>3, <2>4 DEF ItemSteady
  <2>7. QED
    BY <1>2, <1>3, <2>4, <2>5, <2>6 DEF ArchiveInv
<1>6. QED
  BY <1>4, <1>5

(* While no file was touched, a check finds wrong only what could not be described. *)
LEMMA CheckTrue ==
  ASSUME ArchiveInv, NEW m \in Messages, step = "ok", steady, items[m].path # NoMedia,
         items[m].present
  PROVE  ~Missing(items[m]) /\ ~Differs(items[m])
<1>1. /\ items[m].hash # "due" /\ stored[items[m].path] = built[m] /\ built[m] \in Bytes
      /\ items[m].size = Size(built[m])
      /\ IF hashed THEN items[m].hash = built[m] ELSE items[m].hash = Gone
  BY DEF ArchiveInv, ItemTrue, ItemSteady
<1>2. QED
  BY <1>1, ItemValues DEF Missing, Differs

(* The steps of the verification preserve the inductive invariant. *)
LEMMA CheckKeeps ==
  ASSUME ArchiveInv, ReadManifest \/ (\E m \in Messages : CheckItem(m)) \/ EndCheck, ArchiveTypeOK'
  PROVE  ArchiveInv'
<1>0. /\ ArchiveTypeOK /\ ExportRows /\ CheckRight
      /\ \A n \in Messages : ItemTrue(n) /\ ItemSteady(n)
  BY DEF ArchiveInv
<1>1. UNCHANGED verifying
  BY DEF ReadManifest, CheckItem, EndCheck
<1>2. ExportRows' /\ \A m \in Messages : ItemTrue(m)' /\ ItemSteady(m)'
  BY <1>0, <1>1 DEF verifying, ExportRows, ItemTrue, ItemSteady
<1>3. CASE ReadManifest
  BY <1>0, <1>1, <1>2, <1>3 DEF ArchiveInv, ReadManifest, verifying, CheckRight, ExportRows
<1>4. ASSUME NEW m \in Messages, CheckItem(m) PROVE ArchiveInv'
  <2>1. /\ check = "items" /\ check' = "items" /\ held' = held /\ held = items /\ step = "ok"
        /\ step' = step /\ stored' = stored /\ items' = items /\ calm' = calm /\ steady' = steady
        /\ m \in left /\ left' = left \ {m} /\ held[m].path # NoMedia
    BY <1>0, <1>1, <1>4 DEF CheckItem, verifying, CheckRight
  <2>2. /\ wrong \subseteq wrong'
        /\ wrong' = wrong \/ Missing(held[m]) \/ Differs(held[m])
        /\ wrong' = {} => ~Missing(held[m]) /\ ~Differs(held[m])
    BY <1>4 DEF CheckItem
  <2>3. \A i : (Missing(i)' <=> Missing(i)) /\ (Differs(i)' <=> Differs(i))
    BY <2>1 DEF Missing, Differs
  <2>4. ASSUME calm', wrong' = {}, NEW n \in Messages \ left', held'[n].path # NoMedia
        PROVE  (~Missing(held[n]) /\ ~Differs(held[n]))'
    <3>1. wrong = {} /\ (n = m \/ n \notin left)
      BY <2>1, <2>2, <2>4
    <3>2. ~Missing(held[n]) /\ ~Differs(held[n])
      BY <1>0, <2>1, <2>2, <2>4, <3>1 DEF CheckRight
    <3>3. QED
      BY <2>1, <2>3, <3>2
  <2>5. ASSUME steady', wrong' # {} PROVE \E n \in Messages : held'[n].path # NoMedia /\ ~held'[n].present
    <3>1. CASE wrong # {}
      BY <1>0, <2>1, <2>5, <3>1 DEF CheckRight
    <3>2. CASE wrong = {}
      BY <2>1, <2>2, <2>5, <3>2, CheckTrue
    <3>3. QED
      BY <3>1, <3>2
  <2>6. CheckRight'
    BY <2>1, <2>4, <2>5, <1>0 DEF CheckRight
  <2>7. QED
    BY <1>2, <2>6 DEF ArchiveInv
<1>5. CASE EndCheck
  <2>1. /\ check = "items" /\ left = {} /\ held' = held /\ left' = left /\ wrong' = wrong
        /\ calm' = calm /\ steady' = steady /\ stored' = stored /\ items' = items /\ step' = step
        /\ wrong \subseteq {"missing", "changed"}
    BY <1>0, <1>5 DEF EndCheck, verifying, ArchiveTypeOK
  <2>2. /\ check' \in {"missing", "changed"} => wrong # {}
        /\ check' = "clean" => wrong = {} /\ ~Extra
        /\ check' \in {"missing", "changed", "extra", "clean"}
    BY <1>5, <2>1 DEF EndCheck
  <2>3. /\ Extra' <=> Extra
        /\ \A i : (Missing(i)' <=> Missing(i)) /\ (Differs(i)' <=> Differs(i))
    BY <2>1 DEF Missing, Differs, Extra
  <2>4. CheckRight'
    BY <1>0, <2>1, <2>2, <2>3 DEF CheckRight
  <2>5. QED
    BY <1>2, <2>4 DEF ArchiveInv
<1>6. QED
  BY <1>3, <1>4, <1>5

(* What others do to the cache, the files and the paths preserves the inductive invariant. *)
LEMMA DisturbKeeps ==
  ASSUME ArchiveInv, Disturb \/ UNCHANGED archVars, ArchiveTypeOK'
  PROVE  ArchiveInv'
<1>0. /\ ArchiveTypeOK /\ ExportRows /\ CheckRight
      /\ \A n \in Messages : ItemTrue(n) /\ ItemSteady(n)
  BY DEF ArchiveInv
<1>1. /\ UNCHANGED <<step, hashed, records, items, temps, check, held, left, wrong, built>>
      /\ (stored' = stored /\ steady' = steady /\ calm' = calm) \/ (~steady' /\ ~calm')
      /\ out' \in {out, Others} /\ man' \in {man, Others}
  BY DEF Disturb, archVars
<1>2. ExportRows' /\ \A m \in Messages : ItemTrue(m)'
  BY <1>0, <1>1 DEF ExportRows, ItemTrue, Others
<1>3. CASE stored' = stored /\ steady' = steady /\ calm' = calm
  <2>1. /\ Extra' <=> Extra
        /\ \A i : (Missing(i)' <=> Missing(i)) /\ (Differs(i)' <=> Differs(i))
    BY <1>1, <1>3 DEF Missing, Differs, Extra
  <2>2. CheckRight' /\ \A m \in Messages : ItemSteady(m)'
    BY <1>0, <1>1, <1>3, <2>1 DEF CheckRight, ItemSteady
  <2>3. QED
    BY <1>2, <2>2 DEF ArchiveInv
<1>4. CASE ~steady' /\ ~calm'
  BY <1>0, <1>1, <1>2, <1>4 DEF ArchiveInv, CheckRight, ItemSteady
<1>5. QED
  BY <1>1, <1>3, <1>4

(* Every step preserves the inductive invariant. *)
LEMMA ArchiveStep == ArchiveInv /\ [ArchiveNext]_archVars => ArchiveInv'
  BY ArchiveTypes, ExportKeeps, DescribeKeeps, CheckKeeps, DisturbKeeps DEF ArchiveNext

(* The inductive invariant contains what the run checks. *)
LEMMA ArchiveImplies == ArchiveInv => ArchiveFaithful
<1> SUFFICES ASSUME ArchiveInv PROVE ArchiveFaithful
  OBVIOUS
<1>0. /\ ArchiveTypeOK /\ ExportRows /\ CheckRight
      /\ \A n \in Messages : ItemTrue(n) /\ ItemSteady(n)
  BY DEF ArchiveInv
<1>1. ManifestCoversOutput
  BY <1>0 DEF ExportRows, ManifestCoversOutput
<1>2. CleanMeansSame
  <2>1. ASSUME check = "clean", calm, NEW m \in Messages, held[m].path # NoMedia
        PROVE  /\ stored[held[m].path] \in Bytes /\ Size(stored[held[m].path]) = Size(built[m])
               /\ hashed => stored[held[m].path] = built[m]
    <3>1. /\ held = items /\ step = "ok" /\ ~Missing(held[m]) /\ ~Differs(held[m])
      BY <1>0, <2>1 DEF CheckRight
    <3>2. /\ items[m].hash # "due" /\ items[m].path \in Files /\ stored[items[m].path] \in Medias
      BY <1>0, <2>1, <3>1 DEF ItemTrue, ArchiveTypeOK, Item
    <3>3. /\ stored[items[m].path] \notin {Gone, Odd} /\ items[m].present
          /\ Size(stored[items[m].path]) = items[m].size
          /\ items[m].hash = Gone \/ stored[items[m].path] = items[m].hash
      BY <3>1 DEF Missing, Differs
    <3>4. stored[items[m].path] \in Bytes
      BY <3>2, <3>3 DEF Medias
    <3>5. /\ built[m] \in Bytes
          /\ IF hashed THEN items[m].hash = built[m]
                       ELSE items[m].hash = Gone /\ items[m].size = Size(built[m])
      BY <1>0, <2>1, <3>1, <3>2, <3>3 DEF ItemTrue
    <3>6. QED
      BY <3>1, <3>3, <3>4, <3>5, ItemValues
  <2>2. check = "clean" /\ calm => ~Extra
    BY <1>0 DEF CheckRight
  <2>3. QED
    BY <2>1, <2>2 DEF CleanMeansSame
<1>3. NoFalseAlarm
  BY <1>0 DEF CheckRight, NoFalseAlarm
<1>4. QED
  BY <1>0, <1>1, <1>2, <1>3 DEF ArchiveFaithful

(* The output and its manifest name the same media, a clean verification means that the  *)
(* media are those described, and nothing is reported that was not touched, although the *)
(* cache and the files change at any time.                                               *)
THEOREM ArchiveIsFaithful == ArchiveSpec => []ArchiveFaithful
<1>1. QED
  BY ArchiveStart, ArchiveStep, ArchiveImplies, PTL DEF ArchiveSpec
================================================================================
