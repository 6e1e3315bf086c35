------------------------------- MODULE History -------------------------------
(***************************************************************************)
(* The history of one chat: sync [--follow] (internal/commands/sync.go),   *)
(* backfill (localdb.go), the pager both share (BackfillMessages in        *)
(* internal/client/gotd.go) and the durable checkpoint of sync             *)
(* (internal/store/sync_state.go), beside the update handler of the        *)
(* connected client, which caches new messages and queues them in the      *)
(* outbox.  Telegram numbers the messages of the chat 1, 2, ...; between   *)
(* two of its answers messages are posted and deleted.                     *)
(* A transaction of SQLite is one action; a crash may fall between any two *)
(* actions.  What a row holds is the subject of MessageCache, the outbox   *)
(* and the update checkpoint in detail that of UpdateStore.                *)
(***************************************************************************)
EXTENDS Naturals, FiniteSets, FiniteSetsExt

CONSTANTS Syncers,      \* processes that run sync
          Backfillers,  \* processes that run backfill
          Omitted,      \* service and expiring messages, which are not cached
          MaxId,        \* bound: messages ever posted
          MaxGone,      \* bound: messages deleted
          MaxRuns,      \* bound: commands started
          PageSize,     \* backfillPageSize
          MaxMessages,  \* --max-messages
          RecallsRead   \* may Telegram lose a message a running pager has read?

ASSUME HistoryAssumption ==
  /\ Syncers \cap Backfillers = {}
  /\ {MaxId, MaxGone, MaxRuns} \subseteq Nat
  /\ {PageSize, MaxMessages} \subseteq Nat \ {0}
  /\ Omitted \subseteq 1..MaxId
  /\ RecallsRead \in BOOLEAN

VARIABLES posted,      \* Telegram: the messages 1..posted were posted
          gone,        \* Telegram: those it has deleted
          adopted,     \* the account has connected once
          applied,     \* the update stream is applied up to this message
          rows,        \* tg_messages: the live rows of the chat
          tombs,       \* tg_messages: the rows marked deleted
          outbox,      \* tg_event_outbox: messages not yet acknowledged
          checkpoint,  \* tg_sync_state.last_message_id
          session,     \* the process that holds the session
          step,        \* what each command does next
          mem,         \* state.LastMessageID of a sync, in memory
          task,        \* the pager of each command
          event,       \* the event a following sync works on
          report,      \* how the last backfill of the process was reported
          runs,
          floor,       \* history: where the first successful sync began
          acked,       \* history: what sync acknowledged
          left         \* history: what the last backfill committed

histVars == <<posted, gone, adopted, applied, rows, tombs, outbox, checkpoint,
              session, step, mem, task, event, report, runs, floor, acked, left>>

Commands == Syncers \cup Backfillers
NoProcess   == "nobody"
Ids      == 1..MaxId
There    == (1..posted) \ gone
Larger(a, b) == IF a >= b THEN a ELSE b
Lesser(a, b) == IF a <= b THEN a ELSE b
Highest(S)   == IF S = {} THEN 0 ELSE Max(S)
\* The k members of S with the highest numbers: Telegram lists newest first.
Newest(S, k) == {m \in S : Cardinality({x \in S : x >= m}) <= k}

Steps   == {"idle", "loaded", "prepared", "paging", "fetched", "following",
            "save", "ack", "away", "insert"}
Ends    == {"none", "more", "whole", "truncated", "failed"}
Reports == {"none", "inserted", "failed", "committed"}
NoTask  == [after |-> 0, quota |-> 0, got |-> {}, seen |-> 0, offset |-> 0,
            start |-> 0, end |-> "none"]

HistoryInit ==
  /\ posted = 0 /\ gone = {} /\ adopted = FALSE /\ applied = 0
  /\ rows = {} /\ tombs = {} /\ outbox = {} /\ checkpoint = 0
  /\ session = NoProcess /\ runs = 0
  /\ step = [p \in Commands |-> "idle"]
  /\ mem = [p \in Commands |-> 0]
  /\ task = [p \in Commands |-> NoTask]
  /\ event = [p \in Commands |-> 0]
  /\ report = [p \in Commands |-> "none"]
  /\ floor = 0 /\ acked = {} /\ left = [p \in Commands |-> {}]

telegram == <<posted, gone>>
updates  == <<adopted, applied, tombs>>
Leaves   == session' = NoProcess

-----------------------------------------------------------------------------
(* Starting a command, and the session.                                     *)

\* sync reads its checkpoint before it asks for the session.
LoadState(p) ==
  /\ p \in Syncers /\ step[p] = "idle" /\ runs < MaxRuns
  /\ step' = [step EXCEPT ![p] = "loaded"]
  /\ mem' = [mem EXCEPT ![p] = checkpoint]
  /\ task' = [task EXCEPT ![p] = [NoTask EXCEPT !.after = checkpoint, !.quota = MaxMessages]]
  /\ runs' = runs + 1
  /\ UNCHANGED <<telegram, updates, rows, outbox, checkpoint, session, event,
                 report, floor, acked, left>>

\* backfill counts the cached messages before it asks for the session, and
\* leaves when the cap is reached already.
Prepare(p) ==
  /\ p \in Backfillers /\ step[p] = "idle" /\ runs < MaxRuns
  /\ Cardinality(rows) < MaxMessages
  /\ step' = [step EXCEPT ![p] = "prepared"]
  /\ task' = [task EXCEPT ![p] = [NoTask EXCEPT !.quota = MaxMessages - Cardinality(rows)]]
  /\ report' = [report EXCEPT ![p] = "none"] /\ left' = [left EXCEPT ![p] = {}]
  /\ runs' = runs + 1
  /\ UNCHANGED <<telegram, updates, rows, outbox, checkpoint, session, mem,
                 event, floor, acked>>

\* The client takes the session; the first one of an account adopts the
\* position of the update stream.  A following sync comes back here after a
\* failure with the position it has in memory.
Connect(p) ==
  /\ step[p] \in {"loaded", "prepared", "away"} /\ session = NoProcess
  /\ session' = p
  /\ adopted' = TRUE
  /\ applied' = IF adopted THEN applied ELSE posted
  /\ step' = [step EXCEPT ![p] = IF step[p] = "away" THEN "following" ELSE "paging"]
  /\ task' = [task EXCEPT ![p].start = posted, ![p].end = "more"]
  /\ UNCHANGED <<telegram, rows, tombs, outbox, checkpoint, mem, event, report,
                 runs, floor, acked, left>>

\* Death releases the session; what was committed stays.
Crash(p) ==
  /\ step[p] # "idle"
  /\ session' = IF session = p THEN NoProcess ELSE session
  /\ step' = [step EXCEPT ![p] = "idle"]
  /\ mem' = [mem EXCEPT ![p] = 0] /\ task' = [task EXCEPT ![p] = NoTask]
  /\ event' = [event EXCEPT ![p] = 0]
  /\ report' = [report EXCEPT ![p] = "none"] /\ left' = [left EXCEPT ![p] = {}]
  /\ UNCHANGED <<telegram, updates, rows, outbox, checkpoint, runs, floor, acked>>

-----------------------------------------------------------------------------
(* The pager.                                                               *)

\* One request of messages.getHistory.  Telegram answers with the newest
\* messages below the offset and above min_id, and with the number of messages
\* the chat has; the pager goes on while the page was full and it has not seen
\* that many.  With --download-media the files of a page are published here.
Page(t) == Newest({m \in There : m > t.after /\ (t.offset = 0 \/ m < t.offset)},
                  Lesser(t.quota - Cardinality(t.got), PageSize))

More(t, page) ==
  /\ page # {}
  /\ Cardinality(page) = Lesser(t.quota - Cardinality(t.got), PageSize)
  /\ t.seen + Cardinality(page) < Cardinality(There)

After(t, page) ==
  LET got == t.got \cup (page \ Omitted) IN
  [t EXCEPT !.got = got, !.seen = @ + Cardinality(page),
            !.offset = IF page = {} THEN @ ELSE Min(page),
            !.end = IF ~More(t, page) THEN "whole"
                    ELSE IF Cardinality(got) >= t.quota THEN "truncated" ELSE "more"]

FetchPage(p) ==
  /\ step[p] = "paging" /\ task[p].end = "more"
  /\ task' = [task EXCEPT ![p] = After(task[p], Page(task[p]))]
  /\ \/ UNCHANGED left
     \/ /\ p \in Backfillers /\ Page(task[p]) \ Omitted # {}
        /\ left' = [left EXCEPT ![p] = @ \cup {"media"}]
  /\ UNCHANGED <<telegram, updates, rows, outbox, checkpoint, session, step, mem,
                 event, report, runs, floor, acked>>

\* A request fails, or the command is interrupted: what was read is returned.
FetchFails(p) ==
  /\ step[p] = "paging" /\ task[p].end = "more"
  /\ task' = [task EXCEPT ![p].end = "failed"]
  /\ UNCHANGED <<telegram, updates, rows, outbox, checkpoint, session, step, mem,
                 event, report, runs, floor, acked, left>>

Paged(p) == step[p] = "paging" /\ task[p].end # "more"

-----------------------------------------------------------------------------
(* sync.                                                                    *)

\* Mistake in Partial: a truncated catch-up counts as complete.
PartialIfFailed(p) == task[p].end = "failed"

\* The catch-up is not complete: an error, or more messages than the limit
\* above a checkpoint that exists.
Partial(p) == \/ task[p].end = "failed"
              \/ task[p].end = "truncated" /\ mem[p] > 0

End(p) == /\ step' = [step EXCEPT ![p] = "idle"]
          /\ mem' = [mem EXCEPT ![p] = 0]
          /\ task' = [task EXCEPT ![p] = NoTask]
          /\ event' = [event EXCEPT ![p] = 0]
          /\ Leaves

\* One transaction caches the rows and, when the catch-up is complete, saves
\* the checkpoint.
Persist(p) ==
  /\ p \in Syncers /\ Paged(p)
  /\ rows' = rows \cup (task[p].got \ tombs)
  /\ IF Partial(p)
       THEN End(p) /\ UNCHANGED <<checkpoint, floor>>
       ELSE LET reached == Larger(mem[p], Highest(task[p].got)) IN
            /\ checkpoint' = reached
            /\ mem' = [mem EXCEPT ![p] = reached]
            /\ floor' = IF checkpoint > 0 THEN floor
                        ELSE IF task[p].end = "truncated" THEN Min(task[p].got) - 1 ELSE 0
            /\ step' = [step EXCEPT ![p] = "following"]
            /\ task' = [task EXCEPT ![p] = NoTask]
            /\ UNCHANGED <<session, event>>
  /\ UNCHANGED <<telegram, updates, outbox, report, runs, acked, left>>

\* The transaction fails, a sync without --follow or with --once is done, or
\* the listening ends with an error that reconnecting does not help.
StopTask(p) ==
  /\ p \in Syncers /\ (Paged(p) \/ step[p] \in {"following", "save", "ack"})
  /\ End(p)
  /\ UNCHANGED <<telegram, updates, rows, outbox, checkpoint, report, runs, floor,
                 acked, left>>

\* ListenOnce returns the oldest event of the outbox and sync applies it.
ApplyEvent(p) ==
  /\ step[p] = "following" /\ session = p /\ outbox # {}
  /\ event' = [event EXCEPT ![p] = Min(outbox)]
  /\ rows' = rows \cup ({Min(outbox)} \ tombs)
  /\ mem' = [mem EXCEPT ![p] = Larger(@, Min(outbox))]
  /\ step' = [step EXCEPT ![p] = "save"]
  /\ UNCHANGED <<telegram, updates, outbox, checkpoint, session, task, report,
                 runs, floor, acked, left>>

\* SaveSyncState replaces whatever the table holds.
SaveState(p) ==
  /\ step[p] = "save"
  /\ checkpoint' = mem[p]
  /\ step' = [step EXCEPT ![p] = "ack"]
  /\ UNCHANGED <<telegram, updates, rows, outbox, session, mem, task, event,
                 report, runs, floor, acked, left>>

Acknowledge(p) ==
  /\ step[p] = "ack"
  /\ outbox' = outbox \ {event[p]}
  /\ acked' = acked \cup {event[p]}
  /\ event' = [event EXCEPT ![p] = 0]
  /\ step' = [step EXCEPT ![p] = "following"]
  /\ UNCHANGED <<telegram, updates, rows, checkpoint, session, mem, task, report,
                 runs, floor, left>>

\* Listening fails: the client is closed and the session is free until the
\* factory succeeds again.
LoseConnection(p) ==
  /\ step[p] = "following" /\ session = p
  /\ Leaves
  /\ step' = [step EXCEPT ![p] = "away"]
  /\ UNCHANGED <<telegram, updates, rows, outbox, checkpoint, mem, task, event,
                 report, runs, floor, acked, left>>

-----------------------------------------------------------------------------
(* backfill.                                                                *)

\* The client is closed before a row is written.
CloseClient(p) ==
  /\ p \in Backfillers /\ Paged(p) /\ task[p].end # "failed"
  /\ Leaves
  /\ step' = [step EXCEPT ![p] = "insert"]
  /\ UNCHANGED <<telegram, updates, rows, outbox, checkpoint, mem, task, event,
                 report, runs, floor, acked, left>>

\* An error after files were published is a committed write.
FailureReport(p) == IF "media" \in left[p] THEN "committed" ELSE "failed"

\* The paging or the closing fails, the database does not open, or the
\* transaction fails before its COMMIT: nothing is inserted.
BackfillFails(p) ==
  /\ p \in Backfillers /\ (Paged(p) \/ step[p] = "insert")
  /\ report' = [report EXCEPT ![p] = FailureReport(p)]
  /\ step' = [step EXCEPT ![p] = "idle"] /\ task' = [task EXCEPT ![p] = NoTask]
  /\ session' = IF session = p THEN NoProcess ELSE session
  /\ UNCHANGED <<telegram, updates, rows, outbox, checkpoint, mem, event, runs,
                 floor, acked, left>>

\* The rows one transaction takes of those read, newest first: a row that is
\* cached already is refreshed, a new one is taken while the count of the
\* transaction is below the cap, and the byte cap may stop it at any row.  A
\* tombstone counts as taken and is not revived.
Taken(got, cut) ==
  Newest(Newest(got, cut) \ rows,
         IF Cardinality(rows) >= MaxMessages THEN 0 ELSE MaxMessages - Cardinality(rows))

\* After the COMMIT, restoring the connection or closing it may still fail.
Insert(p) ==
  /\ step[p] = "insert"
  /\ \E cut \in 0..Cardinality(task[p].got) :
       LET taken == Taken(task[p].got, cut) \ tombs IN
       /\ rows' = rows \cup taken
       /\ left' = [left EXCEPT ![p] = IF taken = {} THEN @ ELSE @ \cup {"rows"}]
       /\ \E r \in {"inserted", "committed"} : report' = [report EXCEPT ![p] = r]
  /\ step' = [step EXCEPT ![p] = "idle"] /\ task' = [task EXCEPT ![p] = NoTask]
  /\ UNCHANGED <<telegram, updates, outbox, checkpoint, session, mem, event, runs,
                 floor, acked>>

-----------------------------------------------------------------------------
(* Telegram, and the update handler of the client that holds the session.   *)

Post ==
  /\ posted < MaxId /\ posted' = posted + 1
  /\ UNCHANGED <<gone, updates, rows, outbox, checkpoint, session, step, mem, task,
                 event, report, runs, floor, acked, left>>

\* A running pager has read m.
Read(t, m) == t.offset # 0 /\ m >= t.offset /\ m > t.after

Recall(m) ==
  /\ m \in There /\ Cardinality(gone) < MaxGone
  /\ RecallsRead \/ \A p \in Commands : ~Read(task[p], m)
  /\ gone' = gone \cup {m}
  /\ UNCHANGED <<posted, updates, rows, outbox, checkpoint, session, step, mem, task,
                 event, report, runs, floor, acked, left>>

\* The next new message: cached and queued in one transaction.
HandleNew ==
  /\ session # NoProcess /\ applied < posted
  /\ LET m == applied + 1
         kept == m \notin Omitted /\ m \notin gone IN
     /\ rows' = IF kept THEN rows \cup {m} ELSE rows
     /\ outbox' = IF kept THEN outbox \cup {m} ELSE outbox
  /\ applied' = applied + 1
  /\ UNCHANGED <<telegram, adopted, tombs, checkpoint, session, step, mem, task,
                 event, report, runs, floor, acked, left>>

\* The deletion of m: a tombstone, which no later row revives.
HandleDeletion(m) ==
  /\ session # NoProcess /\ m \in gone \ tombs /\ m <= applied
  /\ tombs' = tombs \cup {m} /\ rows' = rows \ {m}
  /\ UNCHANGED <<telegram, adopted, applied, outbox, checkpoint, session, step, mem,
                 task, event, report, runs, floor, acked, left>>

-----------------------------------------------------------------------------
CommandStep(p) ==
  \/ LoadState(p) \/ Prepare(p) \/ Connect(p) \/ Crash(p)
  \/ FetchPage(p) \/ FetchFails(p)
  \/ Persist(p) \/ StopTask(p) \/ ApplyEvent(p) \/ SaveState(p) \/ Acknowledge(p)
  \/ LoseConnection(p) \/ CloseClient(p) \/ BackfillFails(p) \/ Insert(p)

HistoryNext ==
  \/ \E p \in Commands : CommandStep(p)
  \/ Post \/ HandleNew
  \/ \E m \in Ids : Recall(m) \/ HandleDeletion(m)

HistorySpec == HistoryInit /\ [][HistoryNext]_histVars

-----------------------------------------------------------------------------
(* Properties.                                                              *)

\* The variables hold values of their types; the number a sync has in memory
\* and the checkpoint are numbers of messages Telegram has posted.
HistoryTypeOK ==
  /\ posted \in 0..MaxId /\ gone \subseteq 1..posted /\ tombs \subseteq gone
  /\ adopted \in BOOLEAN /\ applied \in 0..posted
  /\ rows \subseteq (1..posted) \ (tombs \cup Omitted) /\ outbox \subseteq 1..applied
  /\ checkpoint \in 0..posted /\ floor \in 0..posted
  /\ session \in Commands \cup {NoProcess} /\ runs \in 0..MaxRuns
  /\ step \in [Commands -> Steps] /\ mem \in [Commands -> 0..posted]
  /\ \A p \in Commands :
       /\ task[p].got \subseteq 1..posted /\ task[p].end \in Ends
       /\ Cardinality(task[p].got) <= task[p].quota
       /\ event[p] \in 0..posted /\ report[p] \in Reports
       /\ left[p] \subseteq {"media", "rows"}
  /\ acked \subseteq 1..applied

Kept(m) == m \notin Omitted \cup gone

\* What the pager returns has no gap: complete, it holds every message above
\* its lower end that was there at the start; truncated, every one above the
\* oldest it holds.  historyPageFromResp keeps the total "so the pager can
\* distinguish an exact-full final page from a page with more history".
PagingLeavesNoGap ==
  \A p \in Commands :
    LET t == task[p] IN
    t.end \in {"whole", "truncated"} =>
      \A m \in 1..t.start :
        /\ m > (IF t.end = "whole" THEN t.after ELSE Min(t.got) - 1)
        /\ Kept(m)
        => m \in t.got

\* The checkpoint of sync never runs ahead of the cache: every message between
\* the place the first sync began and the checkpoint is cached, unless Telegram
\* deleted it.  "Callers should only save a cursor after its history page has
\* been persisted successfully."
CheckpointCovers ==
  \A m \in Ids : m > floor /\ m <= checkpoint /\ Kept(m) => m \in rows

\* An event that a following sync acknowledged is behind the saved checkpoint:
\* whatever crashes, an event is gone from the outbox only after the checkpoint
\* has passed it.
AckedIsBehindCheckpoint == \A m \in acked : m <= checkpoint

\* A backfill reported as failed, which may simply be repeated, left neither
\* rows nor files behind.
FailedLeavesNothing ==
  \A p \in Backfillers : report[p] = "failed" => left[p] = {}

\* The message cap holds against a count that changed while Telegram was
\* asked: no insertion takes the cache above --max-messages.
Inserted == \E p \in Backfillers : step[p] = "insert" /\ step'[p] = "idle"
CapHolds ==
  [][Inserted /\ rows' # rows => Cardinality(rows') <= MaxMessages]_histVars

\* The cached history has no hole that a report or a checkpoint denies: not after
\* paging, not behind the checkpoint of sync, not behind what sync acknowledged,
\* not after a backfill that is said to have failed.
HistoryCovered ==
  /\ HistoryTypeOK
  /\ PagingLeavesNoGap
  /\ CheckpointCovers
  /\ AckedIsBehindCheckpoint
  /\ FailedLeavesNothing

=============================================================================
