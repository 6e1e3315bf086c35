---------------------------- MODULE UpdateStore ----------------------------
(***************************************************************************)
(* How the updates of an account reach the database and the programs that  *)
(* read them: updateStorage, the handler and checkpoint store of gotd's    *)
(* update manager (src/internal/client/update_storage.go), the outbox a    *)
(* listener consumes (update_outbox.go, commands/live.go) and the receipts *)
(* of events-list and events-ack (store/events.go).  Telegram numbers the  *)
(* updates of the account in one stream and those of each channel in a     *)
(* stream of its own.  The session lock admits one client at a time.       *)
(***************************************************************************)
EXTENDS Integers, Sequences, FiniteSets

CONSTANTS
  Common,      \* the stream of the account: users, basic groups, their deletions
  Channels,    \* channels: each is a chat and a stream of its own
  Private,     \* chats of the common stream
  NoChat,      \* a deletion in the common stream names no chat (ChatID = 0)
  Ids,         \* message ids, and what a read marker may say
  Modes,       \* how a client listens: subset of AllModes
  Feeds,       \* bound: what Telegram may send, a sequence of updates for each stream
  MaxOpens     \* bound: clients opened one after another

Streams  == {Common} \cup Channels
Chats    == Private \cup Channels
AllModes == {"off", "all", "dms", "groups", "manual"}
None     == -1   \* no checkpoint

Update == [kind : {"content", "expired", "read", "deleted"},
           chat : Chats \cup {NoChat}, id : Ids]

UpdatesOf(s) ==
  {u \in Update : /\ u.chat = NoChat <=> s = Common /\ u.kind = "deleted"
                  /\ u.chat \in Private => s = Common
                  /\ u.chat \in Channels => s = u.chat}

ASSUME UpdateAssumption ==
  /\ Common \notin Channels
  /\ Private \cap Channels = {}
  /\ NoChat \notin Chats
  /\ Ids \subseteq Nat \ {0}
  /\ Modes \subseteq AllModes
  /\ Feeds \subseteq [Streams -> Seq(Update)]
  /\ \A f \in Feeds, s \in Streams : \A i \in 1..Len(f[s]) : f[s][i] \in UpdatesOf(s)
  /\ MaxOpens \in Nat

VARIABLES
  feed,    \* all that Telegram will send in each stream, in order
  sent,    \* how much of it Telegram has numbered so far
  db,      \* the account database: cache, tombstones, read markers and outbox
  stored,  \* the checkpoint of each stream (pts in tg_update_state, tg_channel_state)
  base,    \* history: the position at which a stream was first adopted
  opens,   \* clients opened so far
  open,    \* a client owns the session lock
  failed,  \* updateStorage.failure: the barrier is closed
  have,    \* gotd's position in each stream
  due,     \* the checkpoint gotd is about to write after the handler returned
  tx,      \* the updates Handle is applying in its transaction
  work,    \* the database as that transaction sees it
  cons,    \* the listener of the client
  shown,   \* history: outbox rows printed with a receipt
  handed   \* history: updates printed, listed, or passed over by a filter

managerVars == <<failed, have, due, tx, work>>
userVars    == <<shown, handed>>
vars == <<feed, sent, db, stored, base, opens, open, managerVars, cons, userVars>>

Message   == [chat : Chats, id : Ids]
Row       == [id : Nat, s : Streams, i : Nat]
NoRow     == [id |-> 0, s |-> Common, i |-> 0]
NoTx      == [s |-> Common, next |-> 0, upto |-> 0]
Listening == {"check", "select", "got", "emit", "ack"}

Sent     == UNION {{s} \X (1..sent[s]) : s \in Streams}
Upd(x)   == feed[x[1]][x[2]]
Of(row)  == <<row.s, row.i>>
Msg(u)   == [chat |-> u.chat, id |-> u.id]
InTx     == tx # NoTx

\* Carries the text of a message: not a read marker, a deletion or an expiry notice.
IsContent(u) == u.kind = "content"

----------------------------------------------------------------------------
(* Mutants: plausible bugs that the properties below must notice.          *)

MutantPersistExpired(d, u) ==
  [d EXCEPT !.rows = @ \cup {Msg(u)}, !.tomb = @ \cup {Msg(u)}]
MutantPersistCommonDeletion(d, u) ==
  [d EXCEPT !.common = @ \cup {u.id}, !.tomb = @ \cup {m \in d.rows : m.id = u.id}]
MutantPublish(d, x) ==   \* the next id is the largest one in use plus one
  LET used == {r.id : r \in d.outbox}
      next == CHOOSE n \in 1..(d.lastId + 1) : used \subseteq 1..(n - 1) /\ n - 1 \in used \cup {0}
  IN  IF IsContent(Upd(x)) /\ Msg(Upd(x)) \in d.tomb THEN d
      ELSE [d EXCEPT !.lastId = IF next > @ THEN next ELSE @,
                     !.outbox = @ \cup {[id |-> next, s |-> x[1], i |-> x[2]]}]
MutantSetCheckpoint(s) ==   \* exec ignores the barrier
  /\ open /\ ~InTx /\ due[s] # None
  /\ have' = [have EXCEPT ![s] = due[s]]
  /\ due' = [due EXCEPT ![s] = None]
  /\ stored' = [stored EXCEPT ![s] = due[s]]
  /\ UNCHANGED <<feed, sent, failed, db, base, opens, open, tx, work, cons, userVars>>
MutantCheckBarrier ==
  /\ cons.pc = "check" /\ ~InTx /\ have[Common] # None
  /\ cons' = [cons EXCEPT !.pc = "select"]
  /\ UNCHANGED <<feed, sent, db, stored, base, opens, open, managerVars, userVars>>
MutantSelectRow ==   \* no ORDER BY id
  /\ cons.pc = "select"
  /\ \/ db.outbox = {} /\ cons' = [cons EXCEPT !.pc = "check"]
     \/ \E r \in db.outbox : cons' = [cons EXCEPT !.pc = "got", !.row = r]
  /\ UNCHANGED <<feed, sent, db, stored, base, opens, open, managerVars, userVars>>
MutantConsider ==   \* an event the filter rejects is not acknowledged
  /\ cons.pc = "got"
  /\ cons' = [cons EXCEPT !.pc = IF Upd(Of(cons.row)).chat \notin Private THEN "emit" ELSE "check"]
  /\ UNCHANGED <<feed, sent, db, stored, base, opens, open, managerVars, userVars>>

----------------------------------------------------------------------------
(* persistUpdateEvent and the publication of one event, as functions of    *)
(* the database.                                                           *)

EmptyDb == [applied |-> {}, outbox |-> {}, lastId |-> 0, rows |-> {}, tomb |-> {},
            common |-> {}, read |-> [c \in Chats |-> 0]]

PersistRead(d, u) == [d EXCEPT !.read[u.chat] = IF u.id > @ THEN u.id ELSE @]

\* Outbox rows whose payload names the chat and the message of u.
Naming(d, u) ==
  {r \in d.outbox : Upd(Of(r)).kind # "read" /\ Msg(Upd(Of(r))) = Msg(u)}

Tombstone(d, u) == [d EXCEPT !.rows = @ \cup {Msg(u)}, !.tomb = @ \cup {Msg(u)}]

PersistExpired(d, u) == Tombstone([d EXCEPT !.outbox = @ \ Naming(d, u)], u)

\* Message ids are unique across the chats of the common stream only.
PersistCommonDeletion(d, u) ==
  [d EXCEPT !.common = @ \cup {u.id},
            !.tomb = @ \cup {m \in d.rows : m.id = u.id /\ m.chat \in Private}]

\* UpsertLiveMessage leaves a row that is there alone; the trigger
\* common_delete_tombstone marks a new row whose deletion came first.
PersistContent(d, u) ==
  [d EXCEPT !.rows = @ \cup {Msg(u)},
            !.tomb = @ \cup {m \in {Msg(u)} \ d.rows : m.id \in d.common /\ m.chat \in Private}]

Persist(d, u) ==
  IF u.kind = "read" THEN PersistRead(d, u)
  ELSE IF u.kind = "expired" THEN PersistExpired(d, u)
  ELSE IF u.kind = "deleted" /\ u.chat = NoChat THEN PersistCommonDeletion(d, u)
  ELSE IF u.kind = "deleted" THEN Tombstone(d, u)
  ELSE PersistContent(d, u)

\* The conditional INSERT into the outbox; ids are never used again (AUTOINCREMENT).
Publish(d, x) ==
  IF IsContent(Upd(x)) /\ Msg(Upd(x)) \in d.tomb THEN d
  ELSE [d EXCEPT !.lastId = @ + 1,
                 !.outbox = @ \cup {[id |-> d.lastId + 1, s |-> x[1], i |-> x[2]]}]

ApplyOne(d, x) ==
  [Publish(Persist(d, Upd(x)), x) EXCEPT !.applied = @ \cup {x}]

----------------------------------------------------------------------------
UpdateInit ==
  /\ feed \in Feeds
  /\ sent = [s \in Streams |-> 0]
  /\ db = EmptyDb
  /\ stored = [s \in Streams |-> None]
  /\ base = [s \in Streams |-> 0]
  /\ opens = 0
  /\ open = FALSE
  /\ failed = FALSE
  /\ have = [s \in Streams |-> None]
  /\ due = [s \in Streams |-> None]
  /\ tx = NoTx
  /\ work = EmptyDb
  /\ cons = [pc |-> "off", mode |-> "off", row |-> NoRow]
  /\ shown = {}
  /\ handed = {}

\* Telegram numbers the next update of a stream.
Produce(s) ==
  /\ sent[s] < Len(feed[s])
  /\ sent' = [sent EXCEPT ![s] = @ + 1]
  /\ UNCHANGED <<feed, db, stored, base, opens, open, managerVars, cons, userVars>>

(* The client.                                                             *)

\* newClient: a new updateStorage, and gotd resumes at the stored checkpoints.
OpenUpdates(m) ==
  /\ ~open
  /\ opens < MaxOpens
  /\ open' = TRUE
  /\ opens' = opens + 1
  /\ have' = stored
  /\ cons' = [pc |-> IF m = "off" THEN "off" ELSE "check", mode |-> m, row |-> NoRow]
  /\ UNCHANGED <<feed, sent, db, stored, base, failed, due, tx, work, userVars>>

\* Close, cancellation or death: the transaction is rolled back, memory is gone.
StopUpdates ==
  /\ open
  /\ open' = FALSE
  /\ failed' = FALSE
  /\ have' = [s \in Streams |-> None]
  /\ due' = [s \in Streams |-> None]
  /\ tx' = NoTx
  /\ work' = EmptyDb
  /\ cons' = [pc |-> "off", mode |-> "off", row |-> NoRow]
  /\ UNCHANGED <<feed, sent, db, stored, base, opens, userVars>>

----------------------------------------------------------------------------
(* gotd's update manager over updateStorage.  The mutex of updateStorage   *)
(* is held for the whole transaction.                                      *)

\* A stream without a checkpoint is adopted where Telegram stands: the account
\* at start, a channel just before the first update that names it.
Baseline(s) == IF s = Common THEN {sent[s]} ELSE 0..(sent[s] - 1)

Adopt(s) ==
  /\ open
  /\ ~InTx
  /\ have[s] = None
  /\ s = Common \/ have[Common] # None
  /\ \E p \in Baseline(s) :
       /\ have' = [have EXCEPT ![s] = p]
       /\ \/ /\ ~failed
             /\ stored' = [stored EXCEPT ![s] = p]
             /\ base' = [base EXCEPT ![s] = p]
             /\ UNCHANGED failed
          \/ /\ failed' = TRUE   \* refused by the barrier, or the statement fails
             /\ UNCHANGED <<stored, base>>
  /\ UNCHANGED <<feed, sent, db, opens, open, due, tx, work, cons, userVars>>

\* gotd may write the checkpoint whether or not the handler failed.
AfterHandler(s, k) == due' \in {due, [due EXCEPT ![s] = k]}

\* Handle begins: the updates from the next one up to some k, in one transaction.
Begin(s) ==
  /\ open
  /\ ~InTx
  /\ have[s] # None
  /\ due[s] = None
  /\ \E k \in 1..sent[s] :
       /\ k > have[s]
       /\ \/ /\ ~failed
             /\ tx' = [s |-> s, next |-> have[s] + 1, upto |-> k]
             /\ work' = db
             /\ UNCHANGED <<failed, due>>
          \/ /\ failed' = TRUE   \* the barrier is closed, or BEGIN fails
             /\ AfterHandler(s, k)
             /\ UNCHANGED <<tx, work>>
  /\ UNCHANGED <<feed, sent, db, stored, base, opens, open, have, cons, userVars>>

PersistOne ==
  /\ InTx
  /\ tx.next <= tx.upto
  /\ work' = ApplyOne(work, <<tx.s, tx.next>>)
  /\ tx' = [tx EXCEPT !.next = @ + 1]
  /\ UNCHANGED <<feed, sent, db, stored, base, opens, open, failed, have, due, cons, userVars>>

Commit ==
  /\ InTx
  /\ tx.next > tx.upto
  /\ db' = work
  /\ due' = [due EXCEPT ![tx.s] = tx.upto]
  /\ tx' = NoTx
  /\ work' = EmptyDb
  /\ UNCHANGED <<feed, sent, stored, base, opens, open, failed, have, cons, userVars>>

\* A statement of the transaction fails: rollback, and the barrier closes.
RollBack ==
  /\ InTx
  /\ failed' = TRUE
  /\ AfterHandler(tx.s, tx.upto)
  /\ tx' = NoTx
  /\ work' = EmptyDb
  /\ UNCHANGED <<feed, sent, db, stored, base, opens, open, have, cons, userVars>>

\* SetPts, SetState or SetChannelPts, through exec.
SetCheckpoint(s) ==
  /\ open
  /\ ~InTx
  /\ due[s] # None
  /\ have' = [have EXCEPT ![s] = due[s]]
  /\ due' = [due EXCEPT ![s] = None]
  /\ \/ /\ ~failed
        /\ stored' = [stored EXCEPT ![s] = due[s]]
        /\ UNCHANGED failed
     \/ /\ failed' = TRUE
        /\ UNCHANGED stored
  /\ UNCHANGED <<feed, sent, db, base, opens, open, tx, work, cons, userVars>>

\* recoveryAPI, OnChannelTooLong: Telegram cannot, or does not, supply a gap.
RecoveryFails(s) ==
  /\ open
  /\ ~InTx
  /\ have[s] # None
  /\ due[s] = None
  /\ have[s] < sent[s]
  /\ failed' = TRUE
  /\ UNCHANGED <<feed, sent, db, stored, base, opens, open, have, due, tx, work, cons, userVars>>

----------------------------------------------------------------------------
(* The listener: listenDurable, the loop of the listen command, and        *)
(* AcknowledgeEvent.  A client has one consumer, so the event it           *)
(* acknowledges is always the last one delivered.                          *)

Become(pc) == cons' = [cons EXCEPT !.pc = pc]

\* shouldEmitListenEvent: an event without a chat passes every filter.
Passes(m, u) ==
  \/ m \in {"all", "manual"}
  \/ u.chat = NoChat
  \/ m = "dms" /\ u.chat \in Private
  \/ m = "groups" /\ u.chat \notin Private

CheckBarrier ==
  /\ cons.pc = "check"
  /\ ~InTx
  /\ have[Common] # None   \* the client is ready
  /\ Become(IF failed THEN "done" ELSE "select")
  /\ UNCHANGED <<feed, sent, db, stored, base, opens, open, managerVars, userVars>>

\* ListenOnce returns the oldest row, or waits for the next tick.
SelectRow ==
  /\ cons.pc = "select"
  /\ \/ /\ db.outbox = {}
        /\ Become("check")
     \/ \E r \in db.outbox :
          /\ \A q \in db.outbox : r.id <= q.id
          /\ cons' = [cons EXCEPT !.pc = "got", !.row = r]
  /\ UNCHANGED <<feed, sent, db, stored, base, opens, open, managerVars, userVars>>

\* The filters pass an event over; --manual-ack needs its row for the receipt.
Consider ==
  /\ cons.pc = "got"
  /\ \/ /\ ~Passes(cons.mode, Upd(Of(cons.row)))
        /\ handed' = handed \cup {Of(cons.row)}
        /\ Become("ack")
     \/ /\ Passes(cons.mode, Upd(Of(cons.row)))
        /\ Become(IF cons.mode = "manual" /\ cons.row \notin db.outbox THEN "done" ELSE "emit")
        /\ UNCHANGED handed
  /\ UNCHANGED <<feed, sent, db, stored, base, opens, open, managerVars, shown>>

\* output.Emit prints the event; the manual mode keeps its row and ends.
Emit ==
  /\ cons.pc = "emit"
  /\ \/ /\ handed' = handed \cup {Of(cons.row)}
        /\ shown' = IF cons.mode = "manual" THEN shown \cup {cons.row} ELSE shown
        /\ Become(IF cons.mode = "manual" THEN "done" ELSE "ack")
     \/ /\ Become("done")   \* output failed
        /\ UNCHANGED userVars
  /\ UNCHANGED <<feed, sent, db, stored, base, opens, open, managerVars>>

\* --once ends after an event that passed, the loop goes on.
Acknowledge ==
  /\ cons.pc = "ack"
  /\ ~InTx
  /\ \/ /\ db' = [db EXCEPT !.outbox = {r \in @ : r.id # cons.row.id}]
        /\ \E pc \in {"check", "done"} : cons' = [cons EXCEPT !.pc = pc, !.row = NoRow]
     \/ /\ Become("done")   \* the statement failed
        /\ UNCHANGED db
  /\ UNCHANGED <<feed, sent, stored, base, opens, open, managerVars, userVars>>

(* events-list and events-ack: other processes, without the session lock.  *)

ListPending ==
  /\ \E last \in db.outbox :
       LET page == {r \in db.outbox : r.id <= last.id}
       IN  /\ shown' = shown \cup page
           /\ handed' = handed \cup {Of(r) : r \in page}
  /\ UNCHANGED <<feed, sent, db, stored, base, opens, open, managerVars, cons>>

\* AcknowledgePendingEvent deletes the row only if it is the one of the receipt.
AckReceipt ==
  /\ ~InTx
  /\ \E r \in shown :
       /\ r \in db.outbox
       /\ db' = [db EXCEPT !.outbox = @ \ {r}]
  /\ UNCHANGED <<feed, sent, stored, base, opens, open, managerVars, cons, userVars>>

----------------------------------------------------------------------------
Manage(s) == Adopt(s) \/ Begin(s) \/ SetCheckpoint(s)
InHandle  == PersistOne \/ Commit \/ RollBack
Listen    == CheckBarrier \/ SelectRow \/ Consider \/ Emit \/ Acknowledge

UpdateNext ==
  \/ \E s \in Streams : Produce(s) \/ Manage(s) \/ RecoveryFails(s)
  \/ \E m \in Modes : OpenUpdates(m)
  \/ StopUpdates
  \/ InHandle
  \/ Listen
  \/ ListPending
  \/ AckReceipt

UpdateSpec == UpdateInit /\ [][UpdateNext]_vars

\* gotd and the listener of an open client keep going; a statement that is
\* running ends.  Nothing is assumed of Telegram or of the processes that
\* list and acknowledge.
FairUpdateSpec ==
  /\ UpdateSpec
  /\ \A s \in Streams : WF_vars(Manage(s))
  /\ WF_vars(InHandle)
  /\ WF_vars(Listen)

----------------------------------------------------------------------------
DbType ==
  [applied : SUBSET Sent, outbox : SUBSET Row, lastId : Nat, rows : SUBSET Message,
   tomb : SUBSET Message, common : SUBSET Ids, read : [Chats -> Nat]]

TypeOK ==
  /\ feed \in Feeds
  /\ sent \in [Streams -> Nat] /\ \A s \in Streams : sent[s] <= Len(feed[s])
  /\ \A d \in {db, work} :
       /\ d \in DbType
       /\ d.tomb \subseteq d.rows
       /\ \A r \in d.outbox : Of(r) \in d.applied
  /\ stored \in [Streams -> Int]
  /\ base \in [Streams -> Nat]
  /\ opens \in 0..MaxOpens
  /\ open \in BOOLEAN
  /\ failed \in BOOLEAN
  /\ have \in [Streams -> Int]
  /\ due \in [Streams -> Int]
  /\ tx \in [s : Streams, next : Nat, upto : Nat]
  /\ cons \in [pc : Listening \cup {"off", "done"}, mode : AllModes, row : Row]
  /\ shown \subseteq Row
  /\ handed \subseteq Sent

CoveredTo(s, n, d) == \A i \in 1..n : i > base[s] => <<s, i>> \in d.applied

\* No checkpoint passes an update that is not in the database, whatever failed
\* in the handler, in another stream or in a client that died.
CheckpointCovered == \A s \in Streams : CoveredTo(s, stored[s], db)

PendingIn(d) == {Of(r) : r \in d.outbox}

\* The expiry notice of the message of u has been handed out or is pending.
Noticed(d, u) ==
  \E x \in handed \cup PendingIn(d) : Upd(x).kind = "expired" /\ Msg(Upd(x)) = Msg(u)

\* An update that a consumer need not see any more: it saw it, or its message
\* is gone and what replaces it is known.
SettledIn(d, x) ==
  \/ x \in handed
  \/ IsContent(Upd(x)) /\ Msg(Upd(x)) \in d.tomb
  \/ Upd(x).kind \in {"expired", "deleted"} /\ Noticed(d, Upd(x))

NothingLostIn(d) == \A x \in d.applied : x \in PendingIn(d) \/ SettledIn(d, x)

\* At-least-once delivery: whatever is in the database, and so everything the
\* checkpoint passed, has been handed out, waits in the outbox or is superseded.
NothingLost == NothingLostIn(db)

\* Consumers see a stream in order: what came before an update that was handed
\* out is not still waiting.
EarlierSettled(x) == \A i \in 1..(x[2] - 1) : i > base[x[1]] => SettledIn(db, <<x[1], i>>)
InOrder == \A x \in handed : EarlierSettled(x)

ExpiredNotPendingIn(d) ==
  \A r \in d.outbox, x \in d.applied :
    IsContent(Upd(Of(r))) /\ Upd(x).kind = "expired" => Msg(Upd(Of(r))) # Msg(Upd(x))

\* A payload of a message that expired is not kept for a consumer, and no
\* recovery of an older update brings it back.
ExpiredNotPending == ExpiredNotPendingIn(db)

Deletes(u, m) ==
  \/ u.kind \in {"deleted", "expired"} /\ Msg(u) = m
  \/ u.kind = "deleted" /\ u.chat = NoChat /\ u.id = m.id /\ m.chat \in Private

DeletionExactIn(d) ==
  \A m \in d.rows : m \in d.tomb <=> \E x \in d.applied : Deletes(Upd(x), m)

\* A cached message is hidden if and only if Telegram deleted it, in whatever
\* order the message and its deletion arrived, and never by the deletion of a
\* message of another peer that has the same number.
DeletionExact == DeletionExactIn(db)

ReadMarkersIn(d) ==
  \A x \in d.applied : Upd(x).kind = "read" => d.read[Upd(x).chat] >= Upd(x).id

\* A replay of older updates does not move a read marker back.
ReadMarkersKept == ReadMarkersIn(db)

\* While a client listens, every update of an adopted stream reaches a
\* consumer, unless the barrier closes or the client or its listener ends.
Waiting(x) ==
  /\ cons.pc \in Listening
  /\ x \in Sent
  /\ have[x[1]] # None /\ base[x[1]] < x[2]

Possible == UNION {{s} \X (1..Len(f[s])) : f \in Feeds, s \in Streams}

Delivery ==
  \A x \in Possible :
    Waiting(x) ~> \/ x \in Sent /\ SettledIn(db, x)
                  \/ failed
                  \/ cons.pc \notin Listening

\* A closed barrier is reported to the listener even when nothing arrives.
FailureReported == (failed /\ cons.pc \in Listening) ~> (cons.pc \notin Listening)
----------------------------------------------------------------------------
(* The inductive invariant behind the properties.                          *)

\* While the barrier is open, gotd's position and the checkpoint it is about to
\* write pass nothing that is not in the database.
Barrier ==
  /\ ~open => ~failed /\ ~InTx
  /\ \A s \in Streams :
       /\ {have[s], due[s], stored[s]} \subseteq Nat \cup {None}
       /\ ~open => have[s] = None
       /\ have[s] = None => due[s] = None
       /\ stored[s] = None => base[s] = 0
       /\ open /\ stored[s] # None => have[s] # None
       /\ ~failed => CoveredTo(s, have[s], db) /\ CoveredTo(s, due[s], db)

\* The transaction of Handle: where it stands, and what its database has of db.
Handling ==
  IF InTx
  THEN /\ open /\ ~failed
       /\ have[tx.s] # None
       /\ tx.next \in 1..(tx.upto + 1) /\ tx.upto <= sent[tx.s]
       /\ CoveredTo(tx.s, tx.next - 1, work)
       /\ db.applied \subseteq work.applied
       /\ db.tomb \subseteq work.tomb
       /\ db.lastId <= work.lastId
       /\ \A r \in work.outbox : r \in db.outbox \/ r.id > db.lastId
       /\ \A r \in db.outbox : Upd(Of(r)).kind = "expired" => Noticed(work, Upd(Of(r)))
  ELSE work = EmptyDb

CommonDeletion(u) == u.kind = "deleted" /\ u.chat = NoChat

\* What holds of the database before and after every update.
DbInv(d) ==
  /\ \A r \in d.outbox : Of(r) \in d.applied /\ r.id \in 1..d.lastId
  /\ \A q, r \in d.outbox : q.id = r.id => q = r
  /\ \A n \in d.common : \E x \in d.applied : CommonDeletion(Upd(x)) /\ Upd(x).id = n
  /\ \A x \in d.applied : CommonDeletion(Upd(x)) => Upd(x).id \in d.common
  /\ \A x \in d.applied :
       Upd(x).kind # "read" /\ ~CommonDeletion(Upd(x)) => Msg(Upd(x)) \in d.rows
  /\ NothingLostIn(d)
  /\ ExpiredNotPendingIn(d)
  /\ DeletionExactIn(d)
  /\ ReadMarkersIn(d)

\* Whatever came before a pending update is settled or pending before it.
OrderedIn(d) ==
  \A r \in d.outbox : \A i \in 1..(r.i - 1) :
    i > base[r.s] => \/ SettledIn(d, <<r.s, i>>)
                     \/ \E q \in d.outbox : Of(q) = <<r.s, i>> /\ q.id < r.id

\* The row in the hands of the listener, and the rows others have receipts of.
Consumers ==
  /\ cons.pc \in {"got", "emit", "ack"} =>
       /\ Of(cons.row) \in db.applied
       /\ EarlierSettled(Of(cons.row))
       /\ cons.row.id <= db.lastId
       /\ \A r \in db.outbox : r.id = cons.row.id => r = cons.row
  /\ cons.pc = "ack" => Of(cons.row) \in handed
  /\ \A r \in shown : Of(r) \in handed

UpdateInv ==
  /\ TypeOK
  /\ Barrier
  /\ Handling
  /\ CheckpointCovered
  /\ \A d \in {db, work} : DbInv(d) /\ OrderedIn(d)
  /\ Consumers
  /\ InOrder
====
