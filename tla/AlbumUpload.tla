----------------------------- MODULE AlbumUpload -----------------------------
(***************************************************************************)
(* upload-album: the command of internal/commands/upload_album.go over     *)
(* GotdClient.UploadAlbum (internal/client/upload_album.go).  Files are    *)
(* fingerprinted before the write pipeline runs, uploaded one by one from  *)
(* private snapshots, and sent as one media group; the answer may be lost, *)
(* name only some of the messages, or come in another order.  Source files *)
(* change, and the context may end, at any moment.                         *)
(***************************************************************************)
EXTENDS Naturals, Sequences, FiniteSets

CONSTANTS AlbumSize,   \* items of the album (the code takes 2 to 10)
          Contents     \* what a source file may hold

ASSUME AlbumAssumption == AlbumSize \in Nat /\ AlbumSize >= 2

VARIABLES stage,     \* where the command stands
          pos,       \* the item it works on
          source,    \* what each source file holds now
          preflight, \* the digest each item was fingerprinted with
          snapshot,  \* the digest of the snapshot that was uploaded
          canceled,  \* the command's context ended
          flight,    \* the final send: none, sent, accepted, refused
          answer,    \* the updates Telegram returned
          ids,       \* extractAlbumResponse: the message of each item
          rows,      \* RecordUploadedAlbum: message -> item of its cached row
          hashes,    \* recordUploadHash: message -> digest
          result     \* what the command reports

uploadVars == <<stage, pos, source, preflight, snapshot, canceled, flight, answer,
                ids, rows, hashes, result>>

Items == 1..AlbumSize
None  == "none"

\* Telegram creates one message for every item; message i shows item i.
Orders == {f \in [Items -> Items] : \A i, j \in Items : f[i] = f[j] => i = j}

\* The answers of Telegram: which items UpdateMessageID maps, and the new
\* messages in the order the updates list them; without any mapping the order
\* is the one of the request.
InOrder == [i \in Items |-> i]
Answers ==
  {[mapped |-> m, listed |-> l] : m \in (SUBSET Items) \ {{}}, l \in Orders}
  \cup {[mapped |-> {}, listed |-> l] : l \in {InOrder, << >>}}
NoAnswer == [mapped |-> {}, listed |-> << >>]

UploadInit ==
  /\ stage = "preflight" /\ pos = 1
  /\ source \in [Items -> Contents]
  /\ preflight = [i \in Items |-> None]
  /\ snapshot = [i \in Items |-> None]
  /\ canceled = FALSE
  /\ flight = None /\ answer = NoAnswer
  /\ ids = << >>
  /\ rows = [i \in Items |-> 0]
  /\ hashes = [i \in Items |-> None]
  /\ result = None

Report(r) == stage' = "end" /\ result' = r
Advance(next) ==
  /\ UNCHANGED result
  /\ \/ pos < AlbumSize /\ pos' = pos + 1 /\ UNCHANGED stage
     \/ pos = AlbumSize /\ pos' = 1 /\ stage' = next

\* validateAlbumFiles: kind, size and the digest the request is keyed by; a
\* file that fails the checks ends the command.
Fingerprint ==
  /\ stage = "preflight"
  /\ \/ /\ preflight' = [preflight EXCEPT ![pos] = source[pos]]
        /\ Advance("snapshot")
     \/ Report("failed") /\ UNCHANGED <<pos, preflight>>
  /\ UNCHANGED <<source, snapshot, canceled, flight, answer, ids, rows, hashes>>

\* uploadSnapshot: a private copy, refused when it is not what was
\* fingerprinted, and its upload, which may fail.
Snapshot ==
  /\ stage = "snapshot"
  /\ \/ /\ ~canceled /\ source[pos] = preflight[pos]
        /\ snapshot' = [snapshot EXCEPT ![pos] = source[pos]]
        /\ stage' = "media"
        /\ UNCHANGED result
     \/ Report("failed") /\ UNCHANGED snapshot
  /\ UNCHANGED <<pos, source, preflight, canceled, flight, answer, ids, rows, hashes>>

\* MessagesUploadMedia and the conversion to reusable media; a refusal, a
\* media of another kind or an ended context fails the album.
UploadMedia ==
  /\ stage = "media"
  /\ \/ ~canceled /\ stage' = "snapshot" /\ pos < AlbumSize /\ pos' = pos + 1 /\ UNCHANGED result
     \/ ~canceled /\ stage' = "send" /\ pos = AlbumSize /\ pos' = 1 /\ UNCHANGED result
     \/ Report("failed") /\ UNCHANGED pos
  /\ UNCHANGED <<source, preflight, snapshot, canceled, flight, answer, ids, rows, hashes>>

\* MessagesSendMultiMedia leaves, unless the context has ended.
SendAlbum ==
  /\ stage = "send"
  /\ \/ ~canceled /\ stage' = "wait" /\ flight' = "sent" /\ UNCHANGED result
     \/ canceled /\ Report("failed") /\ UNCHANGED flight
  /\ UNCHANGED <<pos, source, preflight, snapshot, canceled, answer, ids, rows, hashes>>

\* Telegram decides, also when nobody waits any more.
Decide ==
  /\ flight = "sent"
  /\ flight' \in {"accepted", "refused"}
  /\ UNCHANGED <<stage, pos, source, preflight, snapshot, canceled, answer, ids, rows,
                 hashes, result>>

\* A typed RPC error: nothing was created, the failure is definitive.
Refused ==
  /\ stage = "wait" /\ flight = "refused"
  /\ Report("failed")
  /\ UNCHANGED <<pos, source, preflight, snapshot, canceled, flight, answer, ids, rows, hashes>>

\* A transport error or the end of the context: the outcome is unknown and
\* reported as committed (OutcomeUnknown).
Unanswered ==
  /\ stage = "wait"
  /\ Report("committed")
  /\ UNCHANGED <<pos, source, preflight, snapshot, canceled, flight, answer, ids, rows, hashes>>

Answered ==
  /\ stage = "wait" /\ flight = "accepted"
  /\ \E a \in Answers : answer' = a
  /\ stage' = "extract"
  /\ UNCHANGED <<pos, source, preflight, snapshot, canceled, flight, ids, rows, hashes, result>>

\* Mutant of Correlated: the order of the updates serves whenever it lists
\* every message, whatever the mapping says.
CorrelatedByOrder(a) == IF Len(a.listed) = AlbumSize THEN a.listed ELSE << >>

\* extractAlbumResponse: the mapping, when it names every item; the order of
\* the new messages, when there is no mapping and all of them are listed.
Correlated(a) ==
  IF a.mapped = Items THEN InOrder
  ELSE IF a.mapped = {} /\ Len(a.listed) = AlbumSize THEN a.listed
  ELSE << >>

Extract ==
  /\ stage = "extract"
  /\ \/ /\ ~canceled /\ Correlated(answer) # << >>
        /\ ids' = Correlated(answer)
        /\ stage' = "record"
        /\ UNCHANGED result
     \/ /\ canceled \/ Correlated(answer) = << >>
        /\ Report("committed")
        /\ UNCHANGED ids
  /\ UNCHANGED <<pos, source, preflight, snapshot, canceled, flight, answer, rows, hashes>>

\* RecordUploadedAlbum: one transaction for every item, or none.
Record ==
  /\ stage = "record"
  /\ \/ /\ rows' = [m \in Items |-> CHOOSE i \in Items : ids[i] = m]
        /\ stage' = "hash"
        /\ UNCHANGED result
     \/ Report("committed") /\ UNCHANGED rows
  /\ UNCHANGED <<pos, source, preflight, snapshot, canceled, flight, answer, ids, hashes>>

\* recordUploadHash of one item, from the digest of its snapshot; what cannot
\* be indexed is only a warning.
HashItem ==
  /\ stage = "hash"
  /\ \/ hashes' = [hashes EXCEPT ![ids[pos]] = snapshot[pos]]
     \/ UNCHANGED hashes
  /\ \/ pos < AlbumSize /\ pos' = pos + 1 /\ UNCHANGED <<stage, result>>
     \/ pos = AlbumSize /\ Report("done") /\ UNCHANGED pos
  /\ UNCHANGED <<source, preflight, snapshot, canceled, flight, answer, ids, rows>>

\* Another program writes a source file.
Rewrite ==
  /\ stage # "end"
  /\ \E i \in Items, c \in Contents : source[i] # c /\ source' = [source EXCEPT ![i] = c]
  /\ UNCHANGED <<stage, pos, preflight, snapshot, canceled, flight, answer, ids, rows,
                 hashes, result>>

\* The user or a deadline ends the context.
Cancel ==
  /\ stage # "end" /\ ~canceled
  /\ canceled' = TRUE
  /\ UNCHANGED <<stage, pos, source, preflight, snapshot, flight, answer, ids, rows, hashes,
                 result>>

UploadNext ==
  \/ Fingerprint \/ Snapshot \/ UploadMedia \/ SendAlbum \/ Decide \/ Refused
  \/ Unanswered \/ Answered \/ Extract \/ Record \/ HashItem \/ Rewrite \/ Cancel

UploadSpec == UploadInit /\ [][UploadNext]_uploadVars

-----------------------------------------------------------------------------
UploadTypeOK ==
  /\ stage \in {"preflight", "snapshot", "media", "send", "wait", "extract", "record",
                "hash", "end"}
  /\ pos \in Items
  /\ source \in [Items -> Contents]
  /\ preflight \in [Items -> Contents \cup {None}]
  /\ snapshot \in [Items -> Contents \cup {None}]
  /\ canceled \in BOOLEAN
  /\ flight \in {None, "sent", "accepted", "refused"}
  /\ answer \in Answers \cup {NoAnswer}
  /\ ids \in Orders \cup {<< >>}
  /\ rows \in [Items -> Items \cup {0}]
  /\ hashes \in [Items -> Contents \cup {None}]
  /\ result \in {None, "failed", "committed", "done"}

\* An album that fails in the ordinary, retryable way has no message on
\* Telegram and will get none: a send whose answer is missing, late or
\* unreadable is never reported that way (AlbumUploadError.OutcomeUnknown).
FailureMeansUnsent == result = "failed" => flight \in {None, "refused"}

\* The bytes Telegram shows are the bytes the request was keyed by, although
\* the files may change between the fingerprint and the upload.
SentAsFingerprinted == flight # None => snapshot = preflight

\* Every cached row of the album describes the item its message shows,
\* whichever of the answers identified the messages (extractAlbumResponse).
RowsMatchMessages == \A m \in Items : rows[m] \in {0, m}

\* A digest indexed for a message is the digest of what that message shows,
\* although the source file may have changed since (recordUploadHash).
HashesMatchMessages == \A m \in Items : hashes[m] \in {None, snapshot[m]}

\* What upload-album says and stores is true of the messages Telegram has: its
\* result, its rows and its hashes, whatever happened to the files and the answer.
AlbumHonest ==
  /\ UploadTypeOK
  /\ FailureMeansUnsent
  /\ SentAsFingerprinted
  /\ RowsMatchMessages
  /\ HashesMatchMessages

=============================================================================
