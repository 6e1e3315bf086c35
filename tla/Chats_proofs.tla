-------------------------- MODULE Chats_proofs --------------------------
(* What is true of the commands about chats, for every set of messages, numbers  *)
(* and rights: the history that backfill and sync fetch, the pages of a listing, *)
(* the mutations of moderation and the report of chat-permissions.               *)
EXTENDS MCChats, TLAPS, FiniteSetTheorems, WellFoundedInduction

-----------------------------------------------------------------------------
(* Sets of natural numbers.  Induction here is by the least counterexample.  *)

(* A set of natural numbers that is not empty has a least element ... *)
LEMMA LeastExists ==
  ASSUME NEW S, S \subseteq Nat, S # {}
  PROVE  \E m \in S : \A n \in S : m <= n
<1> DEFINE R == OpToRel(<, Nat)
<1>1. IsWellFoundedOn(R, Nat)
  BY NatLessThanWellFounded
<1>2. PICK m \in S : \A n \in S : ~ (<<n, m>> \in R)
  <2> HIDE DEF R
  <2> QED BY <1>1, WFMin
<1>3. \A n \in S : ~(n < m)
  BY <1>2 DEF OpToRel
<1>4. QED
  BY <1>3

-----------------------------------------------------------------------------
(* Backfill and sync.                                                        *)

(* ... which Min finds, and if it is bounded, a greatest one, which Max finds. *)
LEMMA LeastIsMin ==
  ASSUME NEW S, S \subseteq Nat, S # {}
  PROVE  Min(S) \in S /\ \A n \in S : Min(S) <= n
  BY LeastExists DEF Min

(* ... and one that is bounded has a greatest, which Max finds. *)
LEMMA GreatestIsMax ==
  ASSUME NEW S, S \subseteq Nat, S # {}, NEW b \in Nat, \A n \in S : n <= b
  PROVE  Max(S) \in S /\ \A n \in S : Max(S) >= n
<1> DEFINE T == {x \in Nat : b - x \in S}
<1>1. PICK s \in S : s \in Nat /\ s <= b
  OBVIOUS
<1>2. b - s \in T
  BY <1>1
<1>3. PICK t \in T : \A u \in T : t <= u
  <2>1. T \subseteq Nat /\ T # {}
    BY <1>2
  <2> HIDE DEF T
  <2>2. QED
    BY <2>1, LeastExists
<1>4. t \in Nat /\ b - t \in S
  OBVIOUS
<1>5. ASSUME NEW n \in S PROVE b - t >= n
  <2>1. n \in Nat /\ n <= b
    OBVIOUS
  <2>2. b - n \in Nat /\ b - (b - n) = n
    BY <2>1
  <2>3. t <= b - n
    BY <1>3, <2>2
  <2>4. QED
    BY <1>4, <2>1, <2>3
<1>6. \E m \in S : \A n \in S : m >= n
  BY <1>4, <1>5
<1>7. QED
  BY <1>6 DEF Max

(* The newest k messages of a set are at most k, all that are newer than one of them *)
(* are among them, and they are all there are if they are fewer than k.              *)
LEMMA NewestFacts ==
  ASSUME NEW b \in Nat, NEW S \in SUBSET (1..b), NEW k \in Nat
  PROVE  /\ Newest(S, k) \subseteq S /\ IsFiniteSet(Newest(S, k))
         /\ Cardinality(Newest(S, k)) \in Nat /\ Cardinality(Newest(S, k)) <= k
         /\ \A x \in Newest(S, k), y \in S : y >= x => y \in Newest(S, k)
         /\ Cardinality(Newest(S, k)) < k => Newest(S, k) = S
<1> DEFINE N == Newest(S, k)
           Up(x) == {y \in S : y >= x}
<1>1. IsFiniteSet(S) /\ S \subseteq Nat /\ \A y \in S : y <= b
  <2>1. 1 \in Int /\ b \in Int
    OBVIOUS
  <2>2. IsFiniteSet(1..b)
    BY <2>1, FS_Interval
  <2>3. IsFiniteSet(S)
    BY <2>2, FS_Subset
  <2>4. \A y \in 1..b : y \in Nat /\ y <= b
    OBVIOUS
  <2>5. QED
    BY <2>3, <2>4
<1>2. \A x : IsFiniteSet(Up(x)) /\ Cardinality(Up(x)) \in Nat
  BY <1>1, FS_Subset, FS_CardinalityType
<1>3. N = {x \in S : Cardinality(Up(x)) <= k}
  BY DEF Newest
<1>4. N \subseteq S /\ IsFiniteSet(N) /\ Cardinality(N) \in Nat
  BY <1>1, <1>3, FS_Subset, FS_CardinalityType
<1>5. ASSUME NEW x \in N, NEW y \in S, y >= x PROVE y \in N
  <2>1. Up(y) \subseteq Up(x)
    <3>1. x \in Nat /\ y \in Nat
      BY <1>1, <1>4
    <3>2. ASSUME NEW z \in S, z >= y PROVE z >= x
      <4>1. z \in Nat
        BY <1>1
      <4>2. QED
        BY <4>1, <3>1, <3>2, <1>5
    <3>3. QED
      BY <3>2
  <2>2. Cardinality(Up(y)) <= Cardinality(Up(x))
    <3> HIDE DEF Up
    <3> QED BY <1>2, <2>1, FS_Subset
  <2>3. Cardinality(Up(x)) <= k
    BY <1>3
  <2> HIDE DEF Up
  <2>4. Cardinality(Up(y)) <= k
    BY <1>2, <2>2, <2>3
  <2>5. QED
    BY <1>3, <2>4
<1>6. Cardinality(N) <= k
  <2>1. CASE N = {}
    BY <2>1, FS_EmptySet
  <2>2. CASE N # {}
    <3>1. PICK x \in N : \A y \in N : x <= y
      <4>1. N \subseteq Nat
        BY <1>1, <1>4
      <4> HIDE DEF N
      <4>2. QED
        BY <4>1, <2>2, LeastExists
    <3>2. N \subseteq Up(x)
      BY <1>1, <1>4, <3>1
    <3>3. Cardinality(N) <= Cardinality(Up(x)) /\ Cardinality(Up(x)) <= k
      <4>1. Cardinality(Up(x)) <= k
        BY <1>3
      <4> HIDE DEF N, Up
      <4>2. QED
        BY <1>2, <3>2, <4>1, FS_Subset
    <3>4. QED
      <4> HIDE DEF N, Up
      <4> QED BY <3>3, <1>2, <1>4
  <2>3. QED
    BY <2>1, <2>2
<1>7. ASSUME Cardinality(N) < k PROVE N = S
  <2>1. SUFFICES ASSUME S \ N # {} PROVE FALSE
    BY <1>4
  <2>2. /\ Max(S \ N) \in S \ N
        /\ \A y \in S \ N : Max(S \ N) >= y
    <3>1. S \ N \subseteq Nat /\ \A y \in S \ N : y <= b
      BY <1>1
    <3> HIDE DEF N
    <3>2. QED
      BY <2>1, <3>1, GreatestIsMax
  <2>3. PICK x \in S \ N : \A y \in S \ N : x >= y
    BY <2>2
  <2>4. Up(x) \subseteq N \cup {x}
    <3>1. ASSUME NEW y \in S, y >= x, y \notin N PROVE y = x
      <4>1. x >= y /\ x \in Nat /\ y \in Nat
        BY <1>1, <2>3, <3>1
      <4>2. QED
        BY <3>1, <4>1
    <3>2. QED
      BY <3>1
  <2>5. IsFiniteSet(N \cup {x}) /\ Cardinality(N \cup {x}) = Cardinality(N) + 1
    <3>1. x \notin N
      OBVIOUS
    <3> HIDE DEF N
    <3>2. QED
      BY <1>4, <3>1, FS_AddElement
  <2>6. Cardinality(Up(x)) <= Cardinality(N) + 1
    <3> HIDE DEF N, Up
    <3> QED BY <2>4, <2>5, FS_Subset
  <2>7. Cardinality(Up(x)) <= k
    <3> HIDE DEF N, Up
    <3> QED BY <1>2, <1>4, <1>7, <2>6
  <2>8. QED
    BY <1>3, <2>7
<1>8. QED
  BY <1>4, <1>5, <1>6, <1>7

(* What a pager is: what it has, and what it has read. *)
Tasks == [after : Nat, quota : Nat, got : SUBSET Nat, seen : Nat, offset : Nat, start : Nat, end : Ends]
ReadOf(t) == {m \in There : Read(t, m)}
Upto(t, m) == m <= t.start \/ \E g \in t.got : m <= g

(* The places where a sync may be, and those where a backfill may be. *)
SyncSteps == {"idle", "loaded", "paging", "following", "save", "ack", "away"}
BackfillSteps == {"idle", "prepared", "paging", "insert"}

(* The values of the variables of Telegram and of the database, ... *)
StoreTypes ==
  /\ posted \in Nat /\ posted <= MaxId /\ gone \subseteq 1..posted /\ tombs \subseteq gone
  /\ adopted \in BOOLEAN /\ applied \in Nat /\ applied <= posted
  /\ rows \subseteq (1..posted) \ (tombs \cup Omitted)
  /\ outbox \subseteq (1..applied) \ Omitted
  /\ checkpoint \in Nat /\ checkpoint <= posted /\ floor \in Nat /\ floor <= posted
  /\ session \in Commands \cup {NoProcess} /\ runs \in Nat /\ runs <= MaxRuns
  /\ acked \subseteq 1..applied

(* ... and of those of the commands. *)
CommandTypes ==
  /\ step \in [Commands -> Steps] /\ mem \in [Commands -> Nat]
  /\ task \in [Commands -> Tasks] /\ event \in [Commands -> Nat]
  /\ report \in [Commands -> Reports] /\ left \in [Commands -> SUBSET {"media", "rows"}]
  /\ \A p \in Syncers : step[p] \in SyncSteps
  /\ \A p \in Backfillers : step[p] \in BackfillSteps
  /\ \A p \in Commands : /\ mem[p] <= posted /\ event[p] <= applied
                         /\ step[p] \in {"save", "ack"} => event[p] > 0

(* A pager has every message above the position of the checkpoint it began with *)
(* and not below its offset that is not deleted, it has seen no more than there *)
(* are, and when it ends it is for the reason it gives.                         *)
Paging(t) ==
  /\ t.after <= posted /\ t.start <= posted /\ t.offset <= posted
  /\ t.got \subseteq (1..posted) \ Omitted
  /\ \A m \in t.got : m > t.after /\ t.offset # 0 /\ m >= t.offset
  /\ t.offset = 0 => t.seen = 0
  /\ t.offset # 0 => t.offset > t.after
  /\ Cardinality(t.got) <= t.quota
  /\ t.seen <= Cardinality(ReadOf(t))
  /\ \A m \in 1..posted :
       t.offset # 0 /\ Upto(t, m) /\ m > t.after /\ m >= t.offset /\ Kept(m) => m \in t.got
  /\ t.end = "whole" => \A m \in 1..posted : Upto(t, m) /\ m > t.after /\ Kept(m) => m \in t.got
  /\ t.end = "truncated" => t.got # {}

(* A command pages by what it prepared, and is done with the pages when it goes on. *)
TaskInv(p) ==
  /\ Paging(task[p])
  /\ step[p] \notin {"paging", "insert"} => task[p].offset = 0
  /\ step[p] \in {"loaded", "prepared"} => task[p].quota > 0
  /\ step[p] = "paging" /\ task[p].end = "more" => Cardinality(task[p].got) < task[p].quota
  /\ step[p] = "paging" => task[p].end # "none"

(* What the cache has, from where the first sync began to n. *)
CoversTo(n) == \A m \in 1..posted : m > floor /\ m <= n /\ Kept(m) => m \in rows

(* A sync that pages begins at the checkpoint, and what comes while it pages is *)
(* cached; from then on what the update stream has applied is covered, too.     *)
SyncInv(p) ==
  /\ step[p] \in {"loaded", "paging"} => mem[p] = checkpoint /\ task[p].after = checkpoint
  /\ step[p] = "paging" => \A m \in 1..posted : m > task[p].start /\ m <= applied /\ Kept(m) => m \in rows
  /\ step[p] \in {"following", "save", "ack", "away"} => mem[p] >= checkpoint /\ CoversTo(applied) /\ CoversTo(mem[p])
  /\ step[p] = "ack" => mem[p] = checkpoint
  /\ step[p] \in {"save", "ack"} => event[p] <= mem[p]
  /\ step[p] \notin {"idle", "loaded"} => adopted

(* A backfill under way has reported nothing and inserted nothing. *)
BackfillInv(p) ==
  /\ step[p] # "idle" => report[p] = "none" /\ left[p] \subseteq {"media"}
  /\ report[p] = "failed" => left[p] = {}

(* The inductive invariant.  The cache has every message from the first sync up to  *)
(* the checkpoint, what is acknowledged is behind the checkpoint, and a pager at    *)
(* work has read all there is above its offset: that is what a sync needs to know   *)
(* when it moves the checkpoint.                                                    *)
HistoryInv ==
  /\ StoreTypes
  /\ CommandTypes
  /\ \A p \in Commands : TaskInv(p)
  /\ \A p \in Syncers : SyncInv(p)
  /\ \A p \in Backfillers : BackfillInv(p)
  /\ CoversTo(checkpoint)
  /\ \A m \in acked : m <= checkpoint

(* Sets of messages are finite. *)
LEMMA MessagesFinite ==
  ASSUME NEW b \in Nat, NEW S \in SUBSET (1..b)
  PROVE  IsFiniteSet(S) /\ Cardinality(S) \in Nat /\ S \subseteq Nat /\ \A m \in S : m >= 1 /\ m <= b
<1>1. 1 \in Int /\ b \in Int
  OBVIOUS
<1>2. IsFiniteSet(1..b)
  BY <1>1, FS_Interval
<1>3. IsFiniteSet(S) /\ Cardinality(S) \in Nat
  BY <1>2, FS_Subset, FS_CardinalityType
<1>4. \A y \in 1..b : y \in Nat /\ y >= 1 /\ y <= b
  OBVIOUS
<1>5. QED
  BY <1>3, <1>4

(* The invariant holds at the start. *)
LEMMA HistoryStart == HistoryInit => HistoryInv
<1> SUFFICES ASSUME HistoryInit PROVE HistoryInv
  OBVIOUS
<1>0. MaxId \in Nat /\ MaxRuns \in Nat
  BY HistoryAssumption
<1>1. StoreTypes
  <2>1. posted = 0 /\ applied = 0 /\ checkpoint = 0 /\ floor = 0 /\ runs = 0
    BY DEF HistoryInit
  <2>7. adopted \in BOOLEAN
    BY DEF HistoryInit
  <2>2. gone = {} /\ tombs = {} /\ rows = {} /\ outbox = {} /\ acked = {} /\ session = NoProcess
    BY DEF HistoryInit
  <2>3. session \in Commands \cup {NoProcess}
    BY <2>2
  <2>4. posted \in Nat /\ posted <= MaxId /\ applied \in Nat /\ applied <= posted /\ checkpoint \in Nat /\ checkpoint <= posted
    BY <1>0, <2>1
  <2>5. floor \in Nat /\ floor <= posted /\ runs \in Nat /\ runs <= MaxRuns
    BY <1>0, <2>1
  <2>6. QED
    BY <2>2, <2>3, <2>4, <2>5, <2>7 DEF StoreTypes
<1>2. CommandTypes
  BY DEF HistoryInit, CommandTypes, NoTask, Tasks, Steps, Ends, Reports, Commands, SyncSteps, BackfillSteps
<1>3. ASSUME NEW p \in Commands PROVE TaskInv(p)
  <2>1. task[p] = NoTask /\ step[p] = "idle" /\ posted = 0
    BY DEF HistoryInit
  <2>2. Cardinality(NoTask.got) = 0
    BY FS_EmptySet DEF NoTask
  <2>3. Cardinality(ReadOf(NoTask)) \in Nat
    <3>1. ReadOf(NoTask) \in SUBSET (1..0)
      BY <2>1 DEF ReadOf, There
    <3>2. QED
      BY <3>1, MessagesFinite
  <2>4. QED
    BY <2>1, <2>2, <2>3 DEF TaskInv, Paging, NoTask
<1>4. ASSUME NEW p \in Syncers PROVE SyncInv(p)
  BY DEF HistoryInit, SyncInv, Commands
<1>5. ASSUME NEW p \in Backfillers PROVE BackfillInv(p)
  BY DEF HistoryInit, BackfillInv, Commands
<1>6. CoversTo(checkpoint)
  BY DEF HistoryInit, CoversTo
<1>7. QED
  BY <1>1, <1>2, <1>3, <1>4, <1>5, <1>6 DEF HistoryInit, HistoryInv

(* The highest message a pager has, and the least. *)
LEMMA HighestFacts ==
  ASSUME NEW b \in Nat, NEW S \in SUBSET (1..b)
  PROVE  /\ Highest(S) \in Nat /\ Highest(S) <= b
         /\ S # {} => Highest(S) \in S /\ Min(S) \in S
         /\ \A m \in S : Highest(S) >= m /\ Min(S) <= m
<1>1. S \subseteq Nat /\ \A m \in S : m <= b
  BY MessagesFinite
<1>2. CASE S = {}
  BY <1>2 DEF Highest
<1>3. CASE S # {}
  <2>1. /\ Max(S) \in S /\ \A n \in S : Max(S) >= n
    BY <1>1, <1>3, GreatestIsMax
  <2>2. Min(S) \in S /\ \A n \in S : Min(S) <= n
    BY <1>1, <1>3, LeastIsMin
  <2>3. Highest(S) = Max(S)
    BY <1>3 DEF Highest
  <2>4. QED
    BY <1>1, <2>1, <2>2, <2>3
<1>4. QED
  BY <1>2, <1>3

(* What a command leaves alone of the database and of Telegram. *)
LEMMA StoreFrame ==
  ASSUME StoreTypes,
         UNCHANGED <<posted, gone, tombs, adopted, applied, rows, outbox, checkpoint, floor, acked>>,
         session' \in Commands \cup {NoProcess}, runs' \in Nat, runs' <= MaxRuns
  PROVE  StoreTypes'
  BY DEF StoreTypes

(* The types are preserved: by the steps that change the database, ... *)
LEMMA PersistTypes ==
  ASSUME HistoryInv, NEW p \in Commands, Persist(p)
  PROVE  StoreTypes' /\ mem'[p] \in Nat /\ mem'[p] <= posted
<1>1. p \in Syncers /\ task[p] \in Tasks /\ Paging(task[p]) /\ mem[p] \in Nat /\ mem[p] <= posted /\ StoreTypes /\ mem \in [Commands -> Nat]
  BY DEF Persist, HistoryInv, CommandTypes, TaskInv
<1> DEFINE got == task[p].got
<1>2. got \in SUBSET (1..posted) /\ got \cap Omitted = {}
  BY <1>1 DEF Paging
<1>3. rows' = rows \cup (got \ tombs) /\ posted \in Nat
  BY <1>1 DEF Persist, StoreTypes
<1>4. rows' \subseteq (1..posted) \ (tombs \cup Omitted)
  BY <1>1, <1>2, <1>3 DEF StoreTypes
<1>5. UNCHANGED <<posted, gone, tombs, adopted, applied, outbox, acked, runs>>
  BY DEF Persist, telegram, updates
<1>6. CASE Partial(p)
  <2>1. UNCHANGED <<checkpoint, floor>> /\ session' = NoProcess /\ mem'[p] = 0
    BY <1>1, <1>6 DEF Persist, End, Leaves
  <2>2. QED
    BY <1>1, <1>3, <1>4, <1>5, <2>1 DEF StoreTypes
<1>7. CASE ~Partial(p)
  <2>1. Highest(got) \in Nat /\ Highest(got) <= posted /\ (got # {} => Min(got) \in got)
    BY <1>2, <1>3, HighestFacts
  <2> DEFINE reached == Larger(mem[p], Highest(got))
  <2>2. reached \in Nat /\ reached <= posted
    BY <1>1, <1>3, <2>1 DEF Larger
  <2>3. /\ checkpoint' = reached /\ mem'[p] = reached /\ session' = session
        /\ floor' = IF checkpoint > 0 THEN floor ELSE IF task[p].end = "truncated" THEN Min(got) - 1 ELSE 0
    BY <1>1, <1>7 DEF Persist
  <2>4. task[p].end = "truncated" => Min(got) - 1 \in Nat /\ Min(got) - 1 <= posted
    <3>1. ASSUME task[p].end = "truncated" PROVE Min(got) \in 1..posted
      BY <1>1, <1>2, <2>1, <3>1 DEF Paging
    <3>2. QED
      BY <1>3, <3>1
  <2>5. floor' \in Nat /\ floor' <= posted
    BY <1>1, <2>3, <2>4 DEF StoreTypes
  <2> HIDE DEF reached
  <2>6. QED
    BY <1>1, <1>3, <1>4, <1>5, <2>2, <2>3, <2>5 DEF StoreTypes
<1>8. QED
  BY <1>6, <1>7

(* The oldest event of the outbox is of a message that was applied. *)
LEMMA OutboxOldest ==
  ASSUME StoreTypes, outbox # {}
  PROVE  Min(outbox) \in outbox /\ Min(outbox) \in Nat /\ Min(outbox) > 0 /\ Min(outbox) <= applied /\ Min(outbox) <= posted
<1>1. outbox \in SUBSET (1..applied) /\ applied \in Nat /\ applied <= posted /\ posted \in Nat
  BY DEF StoreTypes
<1>2. Min(outbox) \in outbox
  BY <1>1, HighestFacts
<1>3. Min(outbox) \in 1..applied
  BY <1>1, <1>2
<1>4. QED
  BY <1>1, <1>2, <1>3

(* What a sync does with an event leaves the store well formed. *)
LEMMA ApplyTypes ==
  ASSUME HistoryInv, NEW p \in Commands, ApplyEvent(p)
  PROVE  StoreTypes' /\ mem'[p] \in Nat /\ mem'[p] <= posted /\ event'[p] \in Nat /\ event'[p] <= applied /\ event'[p] > 0
<1>1. StoreTypes /\ mem[p] \in Nat /\ mem[p] <= posted /\ mem \in [Commands -> Nat] /\ event \in [Commands -> Nat]
  BY DEF HistoryInv, CommandTypes
<1> DEFINE e == Min(outbox)
<1>2. e \in outbox /\ e \in Nat /\ e > 0 /\ e <= applied /\ e <= posted
  BY <1>1, OutboxOldest DEF ApplyEvent
<1>3. /\ UNCHANGED <<posted, gone, tombs, adopted, applied, outbox, checkpoint, floor, acked, session, runs>>
      /\ rows' = rows \cup ({e} \ tombs) /\ event'[p] = e /\ mem'[p] = Larger(mem[p], e)
  BY <1>1 DEF ApplyEvent, telegram, updates
<1> HIDE DEF e
<1>4. e \in (1..posted) \ Omitted
  BY <1>1, <1>2 DEF StoreTypes
<1>5. rows' \subseteq (1..posted) \ (tombs \cup Omitted)
  BY <1>1, <1>3, <1>4 DEF StoreTypes
<1>6. Larger(mem[p], e) \in Nat /\ Larger(mem[p], e) <= posted
  BY <1>1, <1>2 DEF Larger
<1>7. QED
  BY <1>1, <1>2, <1>3, <1>5, <1>6 DEF StoreTypes

(* So does the transaction of a backfill. *)
LEMMA InsertTypes ==
  ASSUME HistoryInv, NEW p \in Commands, Insert(p)
  PROVE  StoreTypes'
<1>1. StoreTypes /\ task[p].got \subseteq (1..posted) \ Omitted
  BY DEF HistoryInv, TaskInv, Paging
<1>2. UNCHANGED <<posted, gone, tombs, adopted, applied, outbox, checkpoint, floor, acked, session, runs>>
  BY DEF Insert, telegram, updates
<1>3. PICK cut \in 0..Cardinality(task[p].got) : rows' = rows \cup (Taken(task[p].got, cut) \ tombs)
  BY DEF Insert
<1>4. Taken(task[p].got, cut) \subseteq task[p].got
  BY DEF Taken, Newest
<1>5. rows' \subseteq (1..posted) \ (tombs \cup Omitted)
  BY <1>1, <1>3, <1>4 DEF StoreTypes
<1>6. QED
  BY <1>1, <1>2, <1>5 DEF StoreTypes

(* ... by those of Telegram and of the update handler, ... *)
LEMMA OutsideTypes ==
  ASSUME HistoryInv, Post \/ HandleNew \/ \E m \in Ids : Recall(m) \/ HandleDeletion(m)
  PROVE  StoreTypes' /\ posted <= posted' /\ applied <= applied' /\ gone \subseteq gone'
<1>0. StoreTypes /\ MaxId \in Nat
  BY HistoryAssumption DEF HistoryInv
<1>1. CASE Post
  <2>1. /\ posted' = posted + 1 /\ posted' <= MaxId
        /\ UNCHANGED <<gone, tombs, adopted, applied, rows, outbox, checkpoint, floor, acked, session, runs>>
    BY <1>0, <1>1 DEF Post, updates, StoreTypes
  <2>2. 1..posted \subseteq 1..posted'
    BY <1>0, <2>1 DEF StoreTypes
  <2>3. QED
    BY <1>0, <2>1, <2>2 DEF StoreTypes
<1>2. CASE HandleNew
  <2>1. /\ applied' = applied + 1 /\ applied + 1 <= posted
        /\ UNCHANGED <<posted, gone, tombs, adopted, checkpoint, floor, acked, session, runs>>
        /\ rows' = rows \/ (rows' = rows \cup {applied + 1} /\ applied + 1 \notin Omitted \cup gone)
        /\ outbox' = outbox \/ (outbox' = outbox \cup {applied + 1} /\ applied + 1 \notin Omitted)
    BY <1>0, <1>2 DEF HandleNew, telegram, StoreTypes
  <2>2. applied + 1 \in 1..posted /\ applied + 1 \in 1..applied' /\ 1..applied \subseteq 1..applied' /\ applied' \in Nat
    BY <1>0, <2>1 DEF StoreTypes
  <2>3. rows' \subseteq (1..posted) \ (tombs \cup Omitted) /\ outbox' \subseteq (1..applied') \ Omitted /\ acked \subseteq 1..applied'
    BY <1>0, <2>1, <2>2 DEF StoreTypes
  <2>4. applied' <= posted /\ applied <= applied'
    BY <1>0, <2>1 DEF StoreTypes
  <2>5. QED
    BY <1>0, <2>1, <2>2, <2>3, <2>4 DEF StoreTypes
<1>3. CASE \E m \in Ids : Recall(m) \/ HandleDeletion(m)
  <2>1. PICK m \in Ids : Recall(m) \/ HandleDeletion(m)
    BY <1>3
  <2>2. CASE Recall(m)
    BY <1>0, <2>2 DEF Recall, updates, StoreTypes, There
  <2>3. CASE HandleDeletion(m)
    BY <1>0, <2>3 DEF HandleDeletion, telegram, StoreTypes
  <2>4. QED
    BY <2>1, <2>2, <2>3
<1>4. QED
  BY <1>1, <1>2, <1>3

(* One page more: what the pager then has is still without a gap. *)
LEMMA Fetched ==
  ASSUME HistoryInv, NEW p \in Commands, step[p] = "paging", task[p].end = "more",
         NEW u, u = After(task[p], Page(task[p]))
  PROVE  /\ u \in Tasks /\ Paging(u) /\ u.after = task[p].after /\ u.start = task[p].start
         /\ u.end = "more" => Cardinality(u.got) < u.quota
         /\ u.end # "none"
<1> DEFINE t == task[p]
           k == Lesser(t.quota - Cardinality(t.got), PageSize)
           S == {m \in There : m > t.after /\ (t.offset = 0 \/ m < t.offset)}
           page == Newest(S, k)
           new == page \ Omitted
<1>1. t \in Tasks /\ Paging(t) /\ StoreTypes /\ Cardinality(t.got) < t.quota
  BY DEF HistoryInv, CommandTypes, TaskInv
<1>2. /\ t.after \in Nat /\ t.quota \in Nat /\ t.seen \in Nat /\ t.offset \in Nat /\ t.start \in Nat
      /\ posted \in Nat /\ gone \subseteq 1..posted
  BY <1>1 DEF Tasks, StoreTypes
<1>3. /\ t.got \in SUBSET (1..posted) /\ t.got \cap Omitted = {} /\ IsFiniteSet(t.got) /\ Cardinality(t.got) \in Nat
      /\ There \in SUBSET (1..posted) /\ IsFiniteSet(There) /\ Cardinality(There) \in Nat
      /\ S \in SUBSET (1..posted)
  <2>1. t.got \in SUBSET (1..posted) /\ t.got \cap Omitted = {}
    BY <1>1 DEF Paging
  <2>2. There \in SUBSET (1..posted) /\ S \in SUBSET (1..posted)
    BY DEF There
  <2>3. QED
    BY <1>2, <2>1, <2>2, MessagesFinite
<1>4. k \in Nat /\ k > 0 /\ k <= t.quota - Cardinality(t.got)
  <2>1. PageSize \in Nat /\ PageSize > 0
    BY HistoryAssumption
  <2>2. t.quota - Cardinality(t.got) \in Nat /\ t.quota - Cardinality(t.got) > 0
    BY <1>1, <1>2, <1>3
  <2>3. QED
    BY <2>1, <2>2 DEF Lesser
<1>5. /\ page \subseteq S /\ IsFiniteSet(page) /\ Cardinality(page) \in Nat /\ Cardinality(page) <= k
      /\ \A x \in page, y \in S : y >= x => y \in page
      /\ Cardinality(page) < k => page = S
  <2> HIDE DEF S, k
  <2> QED BY <1>2, <1>3, <1>4, NewestFacts
<1>6. page = {} => S = {} /\ Cardinality(page) = 0
  <2> HIDE DEF page, S, k
  <2> QED BY <1>4, <1>5, FS_EmptySet
<1>7. page # {} => Min(page) \in page /\ \A m \in page : Min(page) <= m
  <2>1. page \subseteq Nat
    BY <1>3, <1>5
  <2> HIDE DEF page
  <2>2. QED
    BY <2>1, LeastIsMin
<1>8. u = After(t, page)
  BY DEF Page
<1> HIDE DEF page
<1>9. /\ u.after = t.after /\ u.quota = t.quota /\ u.start = t.start
      /\ u.got = t.got \cup new /\ u.seen = t.seen + Cardinality(page)
      /\ u.offset = IF page = {} THEN t.offset ELSE Min(page)
      /\ u.end = IF ~More(t, page) THEN "whole"
                 ELSE IF Cardinality(u.got) >= u.quota THEN "truncated" ELSE "more"
      /\ u = [after |-> u.after, quota |-> u.quota, got |-> u.got, seen |-> u.seen,
              offset |-> u.offset, start |-> u.start, end |-> u.end]
  <2> HIDE DEF k, S
  <2> QED BY <1>1, <1>8 DEF After, Tasks
<1>10. /\ \A m \in S : m \in 1..posted /\ m \in There /\ m > t.after /\ (t.offset = 0 \/ m < t.offset)
       /\ page \subseteq S
  BY <1>3, <1>5
<1>11. \A m \in 1..posted : m \in There /\ m > t.after /\ ~Read(t, m) => m \in S
  BY <1>2 DEF Read
<1>12. More(t, page) <=> page # {} /\ Cardinality(page) = k /\ t.seen + Cardinality(page) < Cardinality(There)
  BY DEF More
<1> HIDE DEF S, k
<1>13. u.got \subseteq (1..posted) \ Omitted
  BY <1>3, <1>9, <1>10
<1>14. u.offset \in Nat /\ u.offset <= posted /\ (u.offset # 0 => u.offset > t.after)
       /\ (t.offset # 0 => u.offset # 0 /\ u.offset <= t.offset)
  <2>1. CASE page = {}
    BY <1>1, <1>2, <1>9, <2>1 DEF Paging
  <2>2. CASE page # {}
    <3>1. u.offset = Min(page) /\ u.offset \in S
      BY <1>7, <1>9, <1>10, <2>2
    <3>2. u.offset \in 1..posted /\ u.offset > t.after /\ (t.offset = 0 \/ u.offset < t.offset)
      BY <1>10, <3>1
    <3>3. QED
      BY <1>2, <3>2
  <2>3. QED
    BY <2>1, <2>2
<1>15. \A m \in u.got : m > t.after /\ u.offset # 0 /\ m >= u.offset
  <2>1. ASSUME NEW m \in t.got PROVE m > t.after /\ u.offset # 0 /\ m >= u.offset
    <3>1. m > t.after /\ t.offset # 0 /\ m >= t.offset /\ m \in Nat
      BY <1>1, <1>3 DEF Paging
    <3>2. QED
      BY <1>2, <1>14, <3>1
  <2>2. ASSUME NEW m \in page PROVE m > t.after /\ u.offset # 0 /\ m >= u.offset
    <3>1. u.offset = Min(page) /\ Min(page) \in page /\ Min(page) <= m
      BY <1>7, <1>9
    <3>2. m > t.after /\ m \in 1..posted /\ Min(page) \in 1..posted
      BY <1>10, <3>1
    <3>3. QED
      BY <3>1, <3>2
  <2>3. QED
    BY <1>9, <2>1, <2>2
<1>16. IsFiniteSet(u.got) /\ Cardinality(u.got) \in Nat /\ Cardinality(u.got) <= t.quota
  <2>1. new \subseteq page
    OBVIOUS
  <2>2. IsFiniteSet(new) /\ Cardinality(new) <= Cardinality(page) /\ Cardinality(new) \in Nat
    <3> HIDE DEF new
    <3> QED BY <1>5, <2>1, FS_Subset, FS_CardinalityType
  <2> HIDE DEF new
  <2>3. IsFiniteSet(t.got \cap new) /\ Cardinality(t.got \cap new) \in Nat
    BY <2>2, FS_Subset, FS_CardinalityType
  <2>4. /\ IsFiniteSet(t.got \cup new)
        /\ Cardinality(t.got \cup new) = Cardinality(t.got) + Cardinality(new) - Cardinality(t.got \cap new)
    BY <1>3, <2>2, FS_Union
  <2>5. Cardinality(u.got) \in Nat
    BY <1>9, <2>4, FS_CardinalityType
  <2>6. QED
    BY <1>2, <1>3, <1>4, <1>5, <1>9, <2>2, <2>3, <2>4, <2>5
<1>17. /\ IsFiniteSet(ReadOf(t) \cup page) /\ ReadOf(t) \cup page \subseteq There
       /\ Cardinality(ReadOf(t) \cup page) = Cardinality(ReadOf(t)) + Cardinality(page)
       /\ Cardinality(ReadOf(t)) \in Nat /\ t.seen <= Cardinality(ReadOf(t))
  <2>1. ReadOf(t) \subseteq There /\ t.seen <= Cardinality(ReadOf(t))
    BY <1>1 DEF ReadOf, Paging
  <2>2. IsFiniteSet(ReadOf(t)) /\ Cardinality(ReadOf(t)) \in Nat
    BY <1>3, <2>1, FS_Subset, FS_CardinalityType
  <2>3. ReadOf(t) \cap page = {}
    <3>1. ASSUME NEW m \in page, Read(t, m) PROVE FALSE
      <4>1. m \in Nat /\ (t.offset = 0 \/ m < t.offset)
        BY <1>3, <1>10
      <4>2. t.offset # 0 /\ m >= t.offset
        BY <3>1 DEF Read
      <4>3. QED
        BY <1>2, <4>1, <4>2
    <3>2. QED
      BY <3>1 DEF ReadOf
  <2>4. Cardinality(ReadOf(t) \cap page) = 0
    BY <2>3, FS_EmptySet
  <2>5. /\ IsFiniteSet(ReadOf(t) \cup page)
        /\ Cardinality(ReadOf(t) \cup page) = Cardinality(ReadOf(t)) + Cardinality(page) - Cardinality(ReadOf(t) \cap page)
    BY <1>5, <2>2, FS_Union
  <2>6. QED
    BY <1>5, <1>10, <2>1, <2>2, <2>4, <2>5
<1>18. u.seen \in Nat /\ u.seen <= Cardinality(ReadOf(u))
  <2>1. ReadOf(t) \cup page \subseteq ReadOf(u)
    <3>1. ASSUME NEW m \in There, Read(t, m) PROVE Read(u, m)
      <4>1. m \in Nat
        BY <1>3
      <4>2. QED
        BY <1>2, <1>9, <1>14, <3>1, <4>1 DEF Read
    <3>2. ASSUME NEW m \in page PROVE m \in There /\ Read(u, m)
      <4>1. u.offset = Min(page) /\ Min(page) <= m /\ Min(page) \in page
        BY <1>7, <1>9
      <4>2. Min(page) \in 1..posted /\ m \in There /\ m > t.after
        BY <1>10, <4>1
      <4>3. QED
        BY <1>9, <4>1, <4>2 DEF Read
    <3>3. QED
      BY <3>1, <3>2 DEF ReadOf
  <2>2. ReadOf(u) \subseteq There
    BY DEF ReadOf
  <2>3. IsFiniteSet(ReadOf(u)) /\ Cardinality(ReadOf(u)) \in Nat
    BY <1>3, <2>2, FS_Subset, FS_CardinalityType
  <2>4. Cardinality(ReadOf(t) \cup page) <= Cardinality(ReadOf(u))
    BY <2>1, <2>3, FS_Subset
  <2>5. QED
    BY <1>2, <1>5, <1>9, <1>17, <2>3, <2>4
<1>19. ASSUME NEW m \in 1..posted, Upto(u, m), m > t.after, Read(t, m), Kept(m) PROVE m \in u.got
  <2>1. t.offset # 0 /\ m >= t.offset
    BY <1>19 DEF Read
  <2>2. ~(\E g \in page : m <= g)
    <3>1. ASSUME NEW g \in page, m <= g PROVE FALSE
      <4>1. g \in Nat /\ g < t.offset
        BY <1>10, <2>1
      <4>2. QED
        BY <1>2, <2>1, <3>1, <4>1
    <3>2. QED
      BY <3>1
  <2>3. Upto(t, m)
    BY <1>9, <1>19, <2>2 DEF Upto
  <2>4. m \in t.got
    BY <1>1, <1>19, <2>1, <2>3 DEF Paging
  <2>5. QED
    BY <1>9, <2>4
<1>20. ASSUME NEW m \in 1..posted, Upto(u, m), m > t.after, u.offset # 0, m >= u.offset, Kept(m) PROVE m \in u.got
  <2>1. CASE Read(t, m)
    BY <2>1, <1>19, <1>20
  <2>2. CASE ~Read(t, m)
    <3>1. m \in There /\ m \notin Omitted
      BY <1>20 DEF There, Kept
    <3>2. m \in S
      BY <1>11, <1>20, <2>2, <3>1
    <3>3. page # {}
      BY <1>6, <3>2
    <3>4. Min(page) \in page /\ m >= Min(page)
      BY <1>7, <1>9, <1>20, <3>3
    <3>5. m \in page
      BY <1>5, <3>2, <3>4
    <3>6. QED
      BY <1>9, <3>1, <3>5
  <2>3. QED
    BY <2>1, <2>2
<1>21. ASSUME u.end = "whole", NEW m \in 1..posted, Upto(u, m), m > t.after, Kept(m) PROVE m \in u.got
  <2>1. ~More(t, page)
    BY <1>9, <1>21
  <2>2. m \in There /\ m \notin Omitted
    BY <1>21 DEF There, Kept
  <2>3. m \in page \/ Read(t, m)
    <3>1. CASE page = {}
      BY <3>1, <1>6, <1>11, <1>21, <2>2
    <3>2. CASE Cardinality(page) # k
      <4>1. page = S
        BY <1>4, <1>5, <3>2
      <4>2. QED
        BY <4>1, <1>11, <1>21, <2>2
    <3>3. CASE ~(t.seen + Cardinality(page) < Cardinality(There))
      <4>1. Cardinality(ReadOf(t) \cup page) <= Cardinality(There)
        BY <1>3, <1>17, FS_Subset
      <4>2. Cardinality(ReadOf(t) \cup page) = Cardinality(There)
        BY <1>2, <1>3, <1>5, <1>17, <3>3, <4>1
      <4>3. ReadOf(t) \cup page = There
        BY <1>3, <1>17, <4>2, FS_Subset
      <4>4. QED
        BY <2>2, <4>3 DEF ReadOf
    <3>4. QED
      BY <1>12, <2>1, <3>1, <3>2, <3>3
  <2>4. CASE m \in page
    BY <2>2, <2>4, <1>9
  <2>5. QED
    BY <2>3, <2>4, <1>19, <1>21
<1>22. u.end \in Ends /\ (u.end = "truncated" => u.got # {}) /\ (u.end = "more" => Cardinality(u.got) < u.quota)
  <2>1. u.end = "truncated" => Cardinality(u.got) >= t.quota
    BY <1>9
  <2>2. t.quota > 0
    BY <1>1, <1>2, <1>3
  <2>3. u.got = {} => Cardinality(u.got) = 0
    BY FS_EmptySet
  <2>4. u.end = "more" => ~(Cardinality(u.got) >= u.quota)
    BY <1>9
  <2>5. u.end \in Ends
    BY <1>9 DEF Ends
  <2>6. QED
    BY <1>2, <1>9, <1>16, <2>1, <2>2, <2>3, <2>4, <2>5
<1>23. u \in Tasks
  <2>1. u.got \in SUBSET Nat
    BY <1>13
  <2>2. QED
    BY <1>2, <1>9, <1>14, <1>18, <1>22, <2>1 DEF Tasks
<1>24. Paging(u)
  <2>1. u.after <= posted /\ u.start <= posted
    BY <1>1, <1>9 DEF Paging
  <2>2. u.offset = 0 => u.seen = 0
    <3>1. ASSUME u.offset = 0 PROVE u.seen = 0
      <4>1. t.offset = 0
        BY <1>14, <3>1
      <4>2. page = {}
        BY <1>7, <1>9, <1>10, <3>1
      <4>3. QED
        BY <1>1, <1>6, <1>9, <4>1, <4>2 DEF Paging
    <3>2. QED
      BY <3>1
  <2>3. QED
    BY <1>9, <1>13, <1>14, <1>15, <1>16, <1>18, <1>20, <1>21, <1>22, <2>1, <2>2 DEF Paging
<1>25. u.end # "none"
  BY <1>9
<1>26. QED
  BY <1>9, <1>22, <1>23, <1>24, <1>25

(* A step of a command changes only what is its own, ... *)
Only(p) ==
  /\ step' = [step EXCEPT ![p] = step'[p]] /\ mem' = [mem EXCEPT ![p] = mem'[p]]
  /\ task' = [task EXCEPT ![p] = task'[p]] /\ event' = [event EXCEPT ![p] = event'[p]]
  /\ report' = [report EXCEPT ![p] = report'[p]] /\ left' = [left EXCEPT ![p] = left'[p]]

(* A step of a command is about that command alone. *)
LEMMA OnlyOne ==
  ASSUME CommandTypes, NEW p \in Commands, CommandStep(p)
  PROVE  Only(p)
<1>0. /\ step \in [Commands -> Steps] /\ mem \in [Commands -> Nat] /\ task \in [Commands -> Tasks] /\ event \in [Commands -> Nat]
      /\ report \in [Commands -> Reports] /\ left \in [Commands -> SUBSET {"media", "rows"}]
  BY DEF CommandTypes
<1>1. CASE LoadState(p)
  BY <1>0, <1>1 DEF LoadState, Only
<1>2. CASE Prepare(p)
  BY <1>0, <1>2 DEF Prepare, Only
<1>3. CASE Connect(p)
  BY <1>0, <1>3 DEF Connect, Only
<1>4. CASE Crash(p)
  BY <1>0, <1>4 DEF Crash, Only
<1>5. CASE FetchPage(p)
  BY <1>0, <1>5 DEF FetchPage, Only
<1>6. CASE FetchFails(p)
  BY <1>0, <1>6 DEF FetchFails, Only
<1>7. CASE Persist(p)
  <2>1. CASE Partial(p)
    BY <1>0, <1>7, <2>1 DEF Persist, End, Only
  <2>2. CASE ~Partial(p)
    BY <1>0, <1>7, <2>2 DEF Persist, Only
  <2>3. QED
    BY <2>1, <2>2
<1>8. CASE StopTask(p)
  BY <1>0, <1>8 DEF StopTask, Only, End
<1>9. CASE ApplyEvent(p)
  BY <1>0, <1>9 DEF ApplyEvent, Only
<1>10. CASE SaveState(p)
  BY <1>0, <1>10 DEF SaveState, Only
<1>11. CASE Acknowledge(p)
  BY <1>0, <1>11 DEF Acknowledge, Only
<1>12. CASE LoseConnection(p)
  BY <1>0, <1>12 DEF LoseConnection, Only
<1>13. CASE CloseClient(p)
  BY <1>0, <1>13 DEF CloseClient, Only
<1>14. CASE BackfillFails(p)
  BY <1>0, <1>14 DEF BackfillFails, Only
<1>15. CASE Insert(p)
  BY <1>0, <1>15 DEF Insert, Only
<1>16. QED
  BY <1>1, <1>2, <1>3, <1>4, <1>5, <1>6, <1>7, <1>8, <1>9, <1>10, <1>11, <1>12, <1>13, <1>14, <1>15 DEF CommandStep

(* ... and gives it values of its types. *)
OwnTypes(p) ==
  /\ step'[p] \in Steps /\ mem'[p] \in Nat /\ mem'[p] <= posted /\ event'[p] \in Nat /\ event'[p] <= applied
  /\ task'[p] \in Tasks /\ report'[p] \in Reports /\ left'[p] \in SUBSET {"media", "rows"}
  /\ p \in Syncers => step'[p] \in SyncSteps
  /\ p \in Backfillers => step'[p] \in BackfillSteps
  /\ step'[p] \in {"save", "ack"} => event'[p] > 0

(* A step of a command leaves its own variables well formed. *)
LEMMA OwnTyped ==
  ASSUME HistoryInv, NEW p \in Commands, CommandStep(p)
  PROVE  OwnTypes(p)
<1>0. /\ step \in [Commands -> Steps] /\ mem \in [Commands -> Nat] /\ task \in [Commands -> Tasks] /\ event \in [Commands -> Nat]
      /\ report \in [Commands -> Reports] /\ left \in [Commands -> SUBSET {"media", "rows"}]
      /\ mem[p] <= posted /\ event[p] <= applied /\ StoreTypes /\ task[p] \in Tasks
      /\ p \in Syncers => step[p] \in SyncSteps
      /\ p \in Backfillers => step[p] \in BackfillSteps
      /\ step[p] \in {"save", "ack"} => event[p] > 0
      /\ checkpoint \in Nat /\ checkpoint <= posted /\ 0 <= posted /\ 0 <= applied /\ posted \in Nat
      /\ NoTask \in Tasks
  BY DEF HistoryInv, CommandTypes, StoreTypes, NoTask, Tasks, Ends
<1> USE <1>0 DEF OwnTypes, Steps, SyncSteps, BackfillSteps, Reports
<1>1. CASE LoadState(p)
  <2>1. [NoTask EXCEPT !.after = checkpoint, !.quota = MaxMessages] \in Tasks
    BY HistoryAssumption DEF NoTask, Tasks, Ends
  <2>2. QED
    BY <1>1, <2>1, HistoryAssumption DEF LoadState
<1>2. CASE Prepare(p)
  <2>1. MaxMessages - Cardinality(rows) \in Nat
    <3>1. Cardinality(rows) \in Nat /\ Cardinality(rows) < MaxMessages /\ MaxMessages \in Nat
      BY <1>2, MessagesFinite, HistoryAssumption DEF Prepare, StoreTypes
    <3>2. QED
      BY <3>1
  <2>2. [NoTask EXCEPT !.quota = MaxMessages - Cardinality(rows)] \in Tasks
    BY <2>1 DEF NoTask, Tasks, Ends
  <2>3. QED
    BY <1>2, <2>2, HistoryAssumption DEF Prepare
<1>3. CASE Connect(p)
  <2>1. [task[p] EXCEPT !.start = posted, !.end = "more"] \in Tasks
    BY DEF Tasks, Ends
  <2>2. task'[p] = [task[p] EXCEPT !.start = posted, !.end = "more"]
    BY <1>3 DEF Connect
  <2>3. step'[p] \in {"paging", "following"} /\ (p \in Backfillers => step'[p] = "paging")
    BY <1>3 DEF Connect
  <2> QED
    BY <1>3, <2>1, <2>2, <2>3 DEF Connect
<1>4. CASE Crash(p)
  BY <1>4, HistoryAssumption DEF Crash
<1>5. CASE FetchPage(p)
  <2>1. task'[p] = After(task[p], Page(task[p])) /\ step[p] = "paging" /\ task[p].end = "more"
    BY <1>5 DEF FetchPage
  <2>2. task'[p] \in Tasks
    BY <2>1, Fetched
  <2>3. left'[p] \in SUBSET {"media", "rows"}
    BY <1>5 DEF FetchPage
  <2> QED
    BY <1>5, <2>2, <2>3 DEF FetchPage
<1>6. CASE FetchFails(p)
  <2>1. [task[p] EXCEPT !.end = "failed"] \in Tasks /\ task'[p] = [task[p] EXCEPT !.end = "failed"]
    BY <1>6 DEF FetchFails, Tasks, Ends
  <2> QED
    BY <1>6, <2>1 DEF FetchFails
<1>7. CASE Persist(p)
  <2>1. mem'[p] \in Nat /\ mem'[p] <= posted
    BY <1>7, PersistTypes
  <2>2. CASE Partial(p)
    BY <1>7, <2>1, <2>2 DEF Persist, End
  <2>3. CASE ~Partial(p)
    BY <1>7, <2>1, <2>3, HistoryAssumption DEF Persist
  <2>4. QED
    BY <2>2, <2>3
<1>8. CASE StopTask(p)
  BY <1>8, HistoryAssumption DEF StopTask, End
<1>9. CASE ApplyEvent(p)
  <2>1. mem'[p] \in Nat /\ mem'[p] <= posted /\ event'[p] \in Nat /\ event'[p] <= applied /\ event'[p] > 0
    BY <1>9, ApplyTypes
  <2> QED
    BY <1>9, <2>1 DEF ApplyEvent
<1>10. CASE SaveState(p)
  BY <1>10, HistoryAssumption DEF SaveState
<1>11. CASE Acknowledge(p)
  BY <1>11, HistoryAssumption DEF Acknowledge
<1>12. CASE LoseConnection(p)
  BY <1>12, HistoryAssumption DEF LoseConnection
<1>13. CASE CloseClient(p)
  BY <1>13, HistoryAssumption DEF CloseClient
<1>14. CASE BackfillFails(p)
  BY <1>14, HistoryAssumption DEF BackfillFails, FailureReport
<1>15. CASE Insert(p)
  <2>1. left'[p] \in SUBSET {"media", "rows"} /\ report'[p] \in {"inserted", "committed"}
    BY <1>15 DEF Insert
  <2> QED
    BY <1>15, <2>1 DEF Insert
<1>16. QED
  BY <1>1, <1>2, <1>3, <1>4, <1>5, <1>6, <1>7, <1>8, <1>9, <1>10, <1>11, <1>12, <1>13, <1>14, <1>15 DEF CommandStep

(* A step of a command preserves the types of the store; what Telegram has and the *)
(* update stream has applied it leaves alone, except that the first to connect      *)
(* adopts the position.                                                             *)
LEMMA StoreTyped ==
  ASSUME HistoryInv, NEW p \in Commands, CommandStep(p)
  PROVE  /\ StoreTypes' /\ UNCHANGED <<posted, gone, tombs>>
         /\ applied' = applied \/ (~adopted /\ applied' = posted)
         /\ applied' >= applied
         /\ adopted => adopted'
<1> USE DEF telegram, updates
<1>0. /\ StoreTypes /\ posted \in Nat /\ applied \in Nat /\ applied <= posted /\ mem[p] \in Nat /\ mem[p] <= posted /\ event[p] <= applied
      /\ event[p] \in Nat /\ runs \in Nat /\ runs <= MaxRuns /\ MaxRuns \in Nat
      /\ session \in Commands \cup {NoProcess}
  BY HistoryAssumption DEF HistoryInv, CommandTypes, StoreTypes
<1>1. CASE LoadState(p)
  <2>1. UNCHANGED <<posted, gone, tombs, adopted, applied, rows, outbox, checkpoint, floor, acked>>
    BY <1>1 DEF LoadState
  <2>2. session' \in Commands \cup {NoProcess} /\ runs' \in Nat /\ runs' <= MaxRuns
    BY <1>0, <1>1 DEF LoadState
  <2>3. QED
    BY <1>0, <2>1, <2>2, StoreFrame
<1>2. CASE Prepare(p)
  <2>1. UNCHANGED <<posted, gone, tombs, adopted, applied, rows, outbox, checkpoint, floor, acked>>
    BY <1>2 DEF Prepare
  <2>2. session' \in Commands \cup {NoProcess} /\ runs' \in Nat /\ runs' <= MaxRuns
    BY <1>0, <1>2 DEF Prepare
  <2>3. QED
    BY <1>0, <2>1, <2>2, StoreFrame
<1>3. CASE Connect(p)
  <2>1. UNCHANGED <<posted, gone, tombs, rows, outbox, checkpoint, floor, acked, runs>> /\ session' = p /\ adopted' = TRUE
    BY <1>3 DEF Connect
  <2>2. applied' = IF adopted THEN applied ELSE posted
    BY <1>3 DEF Connect
  <2>3. applied' \in Nat /\ applied' <= posted /\ applied <= applied' /\ (applied' = applied \/ (~adopted /\ applied' = posted))
    BY <1>0, <2>2
  <2>4. 1..applied \subseteq 1..applied'
    BY <1>0, <2>3
  <2>5. QED
    BY <1>0, <2>1, <2>3, <2>4 DEF StoreTypes
<1>4. CASE Crash(p)
  <2>1. UNCHANGED <<posted, gone, tombs, adopted, applied, rows, outbox, checkpoint, floor, acked>>
    BY <1>4 DEF Crash
  <2>2. session' \in Commands \cup {NoProcess} /\ runs' \in Nat /\ runs' <= MaxRuns
    BY <1>0, <1>4 DEF Crash
  <2>3. QED
    BY <1>0, <2>1, <2>2, StoreFrame
<1>5. CASE FetchPage(p)
  <2>1. UNCHANGED <<posted, gone, tombs, adopted, applied, rows, outbox, checkpoint, floor, acked>>
    BY <1>5 DEF FetchPage
  <2>2. session' \in Commands \cup {NoProcess} /\ runs' \in Nat /\ runs' <= MaxRuns
    BY <1>0, <1>5 DEF FetchPage
  <2>3. QED
    BY <1>0, <2>1, <2>2, StoreFrame
<1>6. CASE FetchFails(p)
  <2>1. UNCHANGED <<posted, gone, tombs, adopted, applied, rows, outbox, checkpoint, floor, acked>>
    BY <1>6 DEF FetchFails
  <2>2. session' \in Commands \cup {NoProcess} /\ runs' \in Nat /\ runs' <= MaxRuns
    BY <1>0, <1>6 DEF FetchFails
  <2>3. QED
    BY <1>0, <2>1, <2>2, StoreFrame
<1>7. CASE Persist(p)
  BY <1>0, <1>7, PersistTypes DEF Persist
<1>8. CASE StopTask(p)
  <2>1. UNCHANGED <<posted, gone, tombs, adopted, applied, rows, outbox, checkpoint, floor, acked>>
    BY <1>8 DEF StopTask, End, Leaves
  <2>2. session' \in Commands \cup {NoProcess} /\ runs' \in Nat /\ runs' <= MaxRuns
    BY <1>0, <1>8 DEF StopTask, End, Leaves
  <2>3. QED
    BY <1>0, <2>1, <2>2, StoreFrame
<1>9. CASE ApplyEvent(p)
  <2>1. UNCHANGED <<posted, gone, tombs, adopted, applied>>
    BY <1>9 DEF ApplyEvent
  <2>2. StoreTypes'
    BY <1>9, ApplyTypes
  <2>3. QED
    BY <1>0, <2>1, <2>2
<1>10. CASE SaveState(p)
  BY <1>0, <1>10 DEF SaveState, StoreTypes
<1>11. CASE Acknowledge(p)
  <2>1. event[p] \in 1..applied
    BY <1>0, <1>11 DEF Acknowledge, HistoryInv, CommandTypes
  <2>2. QED
    <3>1. UNCHANGED <<posted, gone, tombs, adopted, applied, rows, checkpoint, floor, session, runs>>
      BY <1>11 DEF Acknowledge
    <3>2. outbox' = outbox \ {event[p]} /\ acked' = acked \cup {event[p]}
      BY <1>11 DEF Acknowledge
    <3>3. outbox' \subseteq (1..applied) \ Omitted /\ acked' \subseteq 1..applied
      BY <1>0, <2>1, <3>2 DEF StoreTypes
    <3>4. StoreTypes'
      BY <1>0, <3>1, <3>3 DEF StoreTypes
    <3>5. QED
      BY <1>0, <3>1, <3>4
<1>12. CASE LoseConnection(p)
  <2>1. UNCHANGED <<posted, gone, tombs, adopted, applied, rows, outbox, checkpoint, floor, acked>>
    BY <1>12 DEF LoseConnection, Leaves
  <2>2. session' \in Commands \cup {NoProcess} /\ runs' \in Nat /\ runs' <= MaxRuns
    BY <1>0, <1>12 DEF LoseConnection, Leaves
  <2>3. QED
    BY <1>0, <2>1, <2>2, StoreFrame
<1>13. CASE CloseClient(p)
  <2>1. UNCHANGED <<posted, gone, tombs, adopted, applied, rows, outbox, checkpoint, floor, acked>>
    BY <1>13 DEF CloseClient, Leaves
  <2>2. session' \in Commands \cup {NoProcess} /\ runs' \in Nat /\ runs' <= MaxRuns
    BY <1>0, <1>13 DEF CloseClient, Leaves
  <2>3. QED
    BY <1>0, <2>1, <2>2, StoreFrame
<1>14. CASE BackfillFails(p)
  <2>1. UNCHANGED <<posted, gone, tombs, adopted, applied, rows, outbox, checkpoint, floor, acked>>
    BY <1>14 DEF BackfillFails
  <2>2. session' \in Commands \cup {NoProcess} /\ runs' \in Nat /\ runs' <= MaxRuns
    BY <1>0, <1>14 DEF BackfillFails
  <2>3. QED
    BY <1>0, <2>1, <2>2, StoreFrame
<1>15. CASE Insert(p)
  <2>1. UNCHANGED <<posted, gone, tombs, adopted, applied>>
    BY <1>15 DEF Insert
  <2>2. StoreTypes'
    BY <1>15, InsertTypes
  <2>3. QED
    BY <1>0, <2>1, <2>2
<1>16. QED
  BY <1>1, <1>2, <1>3, <1>4, <1>5, <1>6, <1>7, <1>8, <1>9, <1>10, <1>11, <1>12, <1>13, <1>14, <1>15 DEF CommandStep

(* Every step preserves the types. *)
LEMMA HistoryTyped ==
  ASSUME HistoryInv, [HistoryNext]_histVars
  PROVE  /\ StoreTypes' /\ CommandTypes' /\ posted <= posted' /\ gone \subseteq gone' /\ applied <= applied'
         /\ adopted => adopted'
<1>0. StoreTypes /\ CommandTypes
  BY DEF HistoryInv
<1>1. ASSUME NEW p \in Commands, CommandStep(p)
      PROVE  /\ StoreTypes' /\ CommandTypes' /\ posted <= posted' /\ gone \subseteq gone' /\ applied <= applied'
             /\ adopted => adopted'
  <2>1. Only(p) /\ OwnTypes(p) /\ StoreTypes' /\ UNCHANGED <<posted, gone>> /\ applied <= applied' /\ (adopted => adopted')
    BY <1>0, <1>1, OnlyOne, OwnTyped, StoreTyped DEF StoreTypes
  <2>2. posted \in Nat /\ applied \in Nat /\ applied' \in Nat /\ posted' = posted
    BY <1>0, <2>1 DEF StoreTypes
  <2>3. /\ step' \in [Commands -> Steps] /\ mem' \in [Commands -> Nat] /\ task' \in [Commands -> Tasks] /\ event' \in [Commands -> Nat]
        /\ report' \in [Commands -> Reports] /\ left' \in [Commands -> SUBSET {"media", "rows"}]
    BY <1>0, <2>1 DEF CommandTypes, Only, OwnTypes
  <2>4. ASSUME NEW q \in Commands
        PROVE  /\ mem'[q] <= posted' /\ event'[q] <= applied'
               /\ step'[q] \in {"save", "ack"} => event'[q] > 0
               /\ q \in Syncers => step'[q] \in SyncSteps
               /\ q \in Backfillers => step'[q] \in BackfillSteps
    <3>1. CASE q = p
      <4>1. event'[p] \in Nat /\ event'[p] <= applied
        BY <2>1 DEF OwnTypes
      <4>2. event'[p] <= applied'
        BY <2>1, <2>2, <4>1
      <4>3. QED
        BY <2>1, <2>2, <3>1, <4>2 DEF OwnTypes
    <3>2. CASE q # p
      <4>1. step'[q] = step[q] /\ mem'[q] = mem[q] /\ event'[q] = event[q]
        BY <1>0, <2>1, <3>2 DEF CommandTypes, Only
      <4>2. event[q] \in Nat /\ event[q] <= applied
        BY <1>0 DEF CommandTypes
      <4>3. event[q] <= applied'
        BY <2>1, <2>2, <4>2
      <4>4. QED
        BY <1>0, <2>2, <4>1, <4>3 DEF CommandTypes
    <3>3. QED
      BY <3>1, <3>2
  <2>5. CommandTypes'
    BY <2>3, <2>4 DEF CommandTypes, Commands
  <2>6. QED
    BY <2>1, <2>2, <2>5
<1>2. ASSUME Post \/ HandleNew \/ \E m \in Ids : Recall(m) \/ HandleDeletion(m)
      PROVE  /\ StoreTypes' /\ CommandTypes' /\ posted <= posted' /\ gone \subseteq gone' /\ applied <= applied'
             /\ adopted => adopted'
  <2>1. StoreTypes' /\ posted <= posted' /\ applied <= applied' /\ gone \subseteq gone'
    BY <1>2, OutsideTypes
  <2>2. UNCHANGED <<step, mem, task, event, report, left, adopted>>
    BY <1>2 DEF Post, HandleNew, Recall, HandleDeletion, updates
  <2>3. posted \in Nat /\ posted' \in Nat /\ applied \in Nat /\ applied' \in Nat
    BY <1>0, <2>1 DEF StoreTypes
  <2>4. \A p \in Commands : mem[p] \in Nat /\ mem[p] <= posted' /\ event[p] \in Nat /\ event[p] <= applied'
    BY <1>0, <2>1, <2>3 DEF CommandTypes
  <2>5. CommandTypes'
    BY <1>0, <2>2, <2>4 DEF CommandTypes
  <2>6. QED
    BY <2>1, <2>2, <2>5
<1>3. CASE UNCHANGED histVars
  BY <1>0, <1>3 DEF histVars, StoreTypes, CommandTypes
<1>4. QED
  BY <1>1, <1>2, <1>3 DEF HistoryNext

(* While a pager rests, messages are posted, and those it has not read deleted: it *)
(* still has no gap.                                                               *)
LEMMA PagingStays ==
  ASSUME StoreTypes, StoreTypes', NEW p \in Commands, task[p] \in Tasks, task'[p] = task[p], Paging(task[p]),
         posted <= posted', gone \subseteq gone', \A m \in gone' \ gone : ~Read(task[p], m)
  PROVE  Paging(task[p])'
<1> DEFINE t == task[p]
<1>1. /\ posted \in Nat /\ posted' \in Nat /\ t.after \in Nat /\ t.start \in Nat /\ t.offset \in Nat /\ t.seen \in Nat
      /\ t.got \in SUBSET Nat
  BY DEF StoreTypes, Tasks
<1>2. /\ t.after <= posted' /\ t.start <= posted' /\ t.offset <= posted'
      /\ t.got \subseteq (1..posted') \ Omitted
  <2>1. t.after <= posted /\ t.start <= posted /\ t.offset <= posted /\ t.got \subseteq (1..posted) \ Omitted
    BY DEF Paging
  <2>2. 1..posted \subseteq 1..posted'
    BY <1>1
  <2>3. QED
    BY <1>1, <2>1, <2>2
<1>3. t.seen <= Cardinality(ReadOf(t)')
  <2>1. ReadOf(t) \subseteq ReadOf(t)'
    <3>1. ASSUME NEW m \in There, Read(t, m) PROVE m \in There'
      BY <1>1, <3>1 DEF There
    <3>2. \A m : Read(t, m)' <=> Read(t, m)
      BY DEF Read
    <3>3. QED
      BY <3>1, <3>2 DEF ReadOf
  <2>2. IsFiniteSet(ReadOf(t)') /\ Cardinality(ReadOf(t)') \in Nat
    <3>1. ReadOf(t)' \in SUBSET (1..posted')
      BY DEF ReadOf, There
    <3>2. QED
      BY <1>1, <3>1, MessagesFinite
  <2>3. Cardinality(ReadOf(t)) \in Nat
    <3>1. ReadOf(t) \in SUBSET (1..posted)
      BY DEF ReadOf, There
    <3>2. QED
      BY <1>1, <3>1, MessagesFinite
  <2>4. Cardinality(ReadOf(t)) <= Cardinality(ReadOf(t)')
    <3> HIDE DEF t
    <3> QED BY <2>1, <2>2, FS_Subset
  <2>5. t.seen <= Cardinality(ReadOf(t))
    BY DEF Paging
  <2>6. QED
    <3> HIDE DEF t
    <3> QED BY <1>1, <2>2, <2>3, <2>4, <2>5
<1>4. ASSUME NEW m \in 1..posted', Upto(t, m), Kept(m)' PROVE m \in 1..posted /\ Kept(m)
  <2>1. m \in Nat /\ m >= 1
    OBVIOUS
  <2>2. m <= posted
    <3>1. CASE m <= t.start
      <4>1. t.start <= posted
        BY DEF Paging
      <4>2. QED
        BY <1>1, <2>1, <3>1, <4>1
    <3>2. CASE \E g \in t.got : m <= g
      <4>1. PICK g \in t.got : m <= g
        BY <3>2
      <4>2. g \in 1..posted
        BY DEF Paging
      <4>3. QED
        BY <1>1, <2>1, <4>1, <4>2
    <3>3. QED
      BY <1>4, <3>1, <3>2 DEF Upto
  <2>3. QED
    BY <1>1, <1>4, <2>1, <2>2 DEF Kept
<1>5. /\ \A m \in t.got : m > t.after /\ t.offset # 0 /\ m >= t.offset
      /\ t.offset = 0 => t.seen = 0
      /\ t.offset # 0 => t.offset > t.after
      /\ Cardinality(t.got) <= t.quota
      /\ \A m \in 1..posted :
           t.offset # 0 /\ Upto(t, m) /\ m > t.after /\ m >= t.offset /\ Kept(m) => m \in t.got
      /\ t.end = "whole" => \A m \in 1..posted : Upto(t, m) /\ m > t.after /\ Kept(m) => m \in t.got
      /\ t.end = "truncated" => t.got # {}
  BY DEF Paging
<1>6. t' = t /\ \A m : Upto(t, m)' <=> Upto(t, m)
  BY DEF Upto
<1> HIDE DEF t
<1>8. Paging(t)'
  BY <1>2, <1>3, <1>4, <1>5, <1>6 DEF Paging
<1>9. QED
  BY <1>8 DEF t

(* A pager that has asked for nothing yet has missed nothing. *)
LEMMA PagingFresh ==
  ASSUME StoreTypes', NEW p \in Commands, task'[p] \in Tasks,
         task'[p].offset = 0, task'[p].got = {}, task'[p].seen = 0, task'[p].end \notin {"whole", "truncated"},
         task'[p].after <= posted', task'[p].start <= posted'
  PROVE  Paging(task[p])'
<1>1. posted' \in Nat /\ task'[p].quota \in Nat
  BY DEF StoreTypes, Tasks
<1>2. ReadOf(task[p])' = {}
  BY DEF ReadOf, Read
<1>3. Cardinality(ReadOf(task[p])') = 0 /\ Cardinality({}) = 0
  BY <1>2, FS_EmptySet
<1>4. QED
  BY <1>1, <1>3 DEF Paging

(* What a pager is for goes on. *)
LEMMA TaskStays ==
  ASSUME StoreTypes, StoreTypes', NEW p \in Commands, task[p] \in Tasks, task'[p] = task[p], TaskInv(p),
         posted <= posted', gone \subseteq gone', \A m \in gone' \ gone : ~Read(task[p], m),
         \/ step'[p] = step[p]
         \/ step'[p] \notin {"loaded", "prepared", "paging"} /\ (task[p].offset = 0 \/ step'[p] = "insert")
  PROVE  TaskInv(p)'
<1>1. Paging(task[p])'
  BY PagingStays DEF TaskInv
<1>2. QED
  BY <1>1 DEF TaskInv

(* A step of a command preserves what holds of its pager. *)
LEMMA OwnTaskKept ==
  ASSUME HistoryInv, NEW p \in Commands, CommandStep(p), StoreTypes', CommandTypes'
  PROVE  TaskInv(p)'
<1>0. /\ StoreTypes /\ task[p] \in Tasks /\ task'[p] \in Tasks /\ TaskInv(p) /\ Paging(task[p])
      /\ posted \in Nat /\ 0 <= posted
      /\ UNCHANGED <<posted, gone>> /\ checkpoint \in Nat /\ checkpoint <= posted
      /\ task \in [Commands -> Tasks] /\ step \in [Commands -> Steps]
  BY StoreTyped DEF HistoryInv, CommandTypes, TaskInv, StoreTypes
<1>a. Cardinality({}) = 0
  BY FS_EmptySet
<1>b. /\ NoTask.offset = 0 /\ NoTask.got = {} /\ NoTask.seen = 0 /\ NoTask.end = "none" /\ NoTask.after = 0 /\ NoTask.start = 0
  BY DEF NoTask
<1>c. ASSUME task'[p] = NoTask, step'[p] \in {"idle", "following"} PROVE TaskInv(p)'
  <2>1. Paging(task[p])'
    BY <1>0, <1>b, <1>c, PagingFresh
  <2>2. QED
    BY <1>b, <1>c, <2>1 DEF TaskInv
<1>1. CASE LoadState(p)
  <2>1. /\ task'[p] = [NoTask EXCEPT !.after = checkpoint, !.quota = MaxMessages] /\ step'[p] = "loaded"
    BY <1>0, <1>1 DEF LoadState
  <2>2. /\ task'[p].offset = 0 /\ task'[p].got = {} /\ task'[p].seen = 0 /\ task'[p].end = "none"
        /\ task'[p].after = checkpoint /\ task'[p].start = 0 /\ task'[p].quota = MaxMessages
    BY <2>1 DEF NoTask
  <2>3. Paging(task[p])'
    BY <1>0, <2>2, PagingFresh
  <2>4. QED
    BY <2>1, <2>2, <2>3, HistoryAssumption DEF TaskInv
<1>2. CASE Prepare(p)
  <2>1. /\ task'[p] = [NoTask EXCEPT !.quota = MaxMessages - Cardinality(rows)] /\ step'[p] = "prepared"
        /\ Cardinality(rows) < MaxMessages
    BY <1>0, <1>2 DEF Prepare
  <2>2. /\ task'[p].offset = 0 /\ task'[p].got = {} /\ task'[p].seen = 0 /\ task'[p].end = "none"
        /\ task'[p].after = 0 /\ task'[p].start = 0 /\ task'[p].quota = MaxMessages - Cardinality(rows)
    BY <2>1 DEF NoTask
  <2>3. Paging(task[p])'
    BY <1>0, <2>2, PagingFresh
  <2>4. Cardinality(rows) \in Nat /\ MaxMessages \in Nat
    BY <1>0, MessagesFinite, HistoryAssumption DEF StoreTypes
  <2>5. task'[p].quota > 0
    BY <2>1, <2>2, <2>4
  <2>6. QED
    BY <2>1, <2>2, <2>3, <2>5 DEF TaskInv
<1>3. CASE Connect(p)
  <2>1. /\ task'[p] = [task[p] EXCEPT !.start = posted, !.end = "more"]
        /\ step'[p] = IF step[p] = "away" THEN "following" ELSE "paging"
        /\ step[p] \in {"loaded", "prepared", "away"}
    BY <1>0, <1>3 DEF Connect
  <2>2. /\ task'[p].offset = task[p].offset /\ task'[p].got = task[p].got /\ task'[p].seen = task[p].seen
        /\ task'[p].end = "more" /\ task'[p].after = task[p].after /\ task'[p].start = posted /\ task'[p].quota = task[p].quota
    BY <1>0, <2>1 DEF Tasks
  <2>3. task[p].offset = 0 /\ task[p].got = {} /\ task[p].seen = 0 /\ task[p].after <= posted
    BY <1>0, <2>1 DEF TaskInv, Paging
  <2>4. Paging(task[p])'
    BY <1>0, <2>2, <2>3, PagingFresh
  <2>5. step[p] # "away" => task[p].quota > 0
    BY <1>0, <2>1 DEF TaskInv
  <2>6. task[p].quota \in Nat
    BY <1>0 DEF Tasks
  <2>7. step[p] # "away" => Cardinality(task'[p].got) < task'[p].quota
    BY <1>a, <2>2, <2>3, <2>5, <2>6
  <2>8. QED
    BY <2>1, <2>2, <2>3, <2>4, <2>7 DEF TaskInv
<1>4. CASE Crash(p)
  BY <1>0, <1>4, <1>c DEF Crash
<1>5. CASE FetchPage(p)
  <2>1. task'[p] = After(task[p], Page(task[p])) /\ step[p] = "paging" /\ task[p].end = "more" /\ step' = step
    BY <1>0, <1>5 DEF FetchPage
  <2>2. /\ Paging(task'[p])
        /\ task'[p].end = "more" => Cardinality(task'[p].got) < task'[p].quota
        /\ task'[p].end # "none"
    BY <2>1, Fetched
  <2>3. Paging(task[p])'
    BY <1>0, <2>2 DEF Paging, ReadOf, There, Read, Upto, Kept
  <2>4. QED
    BY <2>1, <2>2, <2>3 DEF TaskInv
<1>6. CASE FetchFails(p)
  <2>1. /\ task'[p] = [task[p] EXCEPT !.end = "failed"] /\ step[p] = "paging" /\ step' = step
    BY <1>0, <1>6 DEF FetchFails
  <2>2. /\ task'[p].offset = task[p].offset /\ task'[p].got = task[p].got /\ task'[p].seen = task[p].seen
        /\ task'[p].end = "failed" /\ task'[p].after = task[p].after /\ task'[p].start = task[p].start
        /\ task'[p].quota = task[p].quota
    BY <1>0, <2>1 DEF Tasks
  <2>3. Paging(task[p])'
    BY <1>0, <2>2 DEF Paging, ReadOf, There, Read, Upto, Kept
  <2>4. QED
    BY <2>1, <2>2, <2>3 DEF TaskInv
<1>7. CASE Persist(p)
  BY <1>0, <1>7, <1>c DEF Persist, End
<1>8. CASE StopTask(p)
  BY <1>0, <1>8, <1>c DEF StopTask, End
<1>9. CASE ApplyEvent(p) \/ SaveState(p) \/ Acknowledge(p) \/ LoseConnection(p)
  <2>1. step[p] \in {"following", "save", "ack"} /\ step'[p] \in {"save", "ack", "following", "away"} /\ task' = task
    BY <1>0, <1>9 DEF ApplyEvent, SaveState, Acknowledge, LoseConnection
  <2>2. task[p].offset = 0
    BY <1>0, <2>1 DEF TaskInv
  <2>3. QED
    BY <1>0, <2>1, <2>2, TaskStays
<1>10. CASE CloseClient(p)
  <2>1. step'[p] = "insert" /\ task' = task
    BY <1>0, <1>10 DEF CloseClient
  <2>2. QED
    BY <1>0, <2>1, TaskStays
<1>11. CASE BackfillFails(p)
  BY <1>0, <1>11, <1>c DEF BackfillFails
<1>12. CASE Insert(p)
  BY <1>0, <1>12, <1>c DEF Insert
<1>13. QED
  BY <1>1, <1>2, <1>3, <1>4, <1>5, <1>6, <1>7, <1>8, <1>9, <1>10, <1>11, <1>12 DEF CommandStep

(* Every step preserves what holds of the pagers, as long as Telegram loses nothing *)
(* that one of them has read.                                                       *)
LEMMA TasksKept ==
  ASSUME ~RecallsRead, HistoryInv, [HistoryNext]_histVars, NEW q \in Commands
  PROVE  TaskInv(q)'
<1>0. /\ StoreTypes /\ CommandTypes /\ StoreTypes' /\ CommandTypes' /\ posted <= posted' /\ gone \subseteq gone'
      /\ task[q] \in Tasks /\ TaskInv(q)
  BY HistoryTyped DEF HistoryInv, CommandTypes
<1>1. ASSUME NEW p \in Commands, CommandStep(p) PROVE TaskInv(q)'
  <2>1. CASE p = q
    BY <1>0, <1>1, <2>1, OwnTaskKept
  <2>2. CASE p # q
    <3>1. task'[q] = task[q] /\ step'[q] = step[q] /\ gone' = gone
      BY <1>0, <1>1, <2>2, OnlyOne, StoreTyped DEF Only, CommandTypes
    <3>2. QED
      BY <1>0, <3>1, TaskStays
  <2>3. QED
    BY <2>1, <2>2
<1>2. ASSUME Post \/ HandleNew \/ \E m \in Ids : Recall(m) \/ HandleDeletion(m) PROVE TaskInv(q)'
  <2>1. task' = task /\ step' = step /\ \A m \in gone' \ gone : ~Read(task[q], m)
    <3>1. CASE Post \/ HandleNew \/ \E m \in Ids : HandleDeletion(m)
      BY <3>1 DEF Post, HandleNew, HandleDeletion, telegram
    <3>2. CASE \E m \in Ids : Recall(m)
      BY <3>2 DEF Recall
    <3>3. QED
      BY <1>2, <3>1, <3>2
  <2>2. QED
    BY <1>0, <2>1, TaskStays
<1>3. CASE UNCHANGED histVars
  <2>1. task' = task /\ step' = step /\ gone' = gone
    BY <1>3 DEF histVars
  <2>2. QED
    BY <1>0, <2>1, TaskStays
<1>4. QED
  BY <1>1, <1>2, <1>3 DEF HistoryNext

(* A row goes only when its message is deleted. *)
LEMMA RowsStay ==
  ASSUME [HistoryNext]_histVars, StoreTypes, NEW m \in rows, Kept(m)'
  PROVE  m \in rows'
<1>1. CASE \E p \in Commands : CommandStep(p)
  BY <1>1 DEF CommandStep, LoadState, Prepare, Connect, Crash, FetchPage, FetchFails, Persist, StopTask, ApplyEvent,
              SaveState, Acknowledge, LoseConnection, CloseClient, BackfillFails, Insert
<1>2. CASE Post \/ HandleNew
  BY <1>2 DEF Post, HandleNew
<1>3. CASE \E x \in Ids : Recall(x) \/ HandleDeletion(x)
  BY <1>3 DEF Recall, HandleDeletion, telegram, Kept
<1>4. CASE UNCHANGED histVars
  BY <1>4 DEF histVars
<1>5. QED
  BY <1>1, <1>2, <1>3, <1>4 DEF HistoryNext

(* What is cached stays covered while the floor does. *)
LEMMA CoverStays ==
  ASSUME [HistoryNext]_histVars, StoreTypes, StoreTypes', floor' = floor,
         posted <= posted', gone \subseteq gone'
  PROVE  \A n \in Nat : n <= posted /\ CoversTo(n) =>
           \A m \in 1..posted' : m > floor' /\ m <= n /\ Kept(m)' => m \in rows'
<1>1. SUFFICES ASSUME NEW n \in Nat, n <= posted, CoversTo(n),
                      NEW m \in 1..posted', m > floor', m <= n, Kept(m)'
               PROVE  m \in rows'
  OBVIOUS
<1>2. m \in 1..posted
  BY <1>1 DEF StoreTypes
<1>3. Kept(m)
  BY <1>1 DEF Kept
<1>4. m \in rows
  BY <1>1, <1>2, <1>3 DEF CoversTo
<1>5. QED
  BY <1>1, <1>4, RowsStay

(* While others act, what holds of a sync goes on. *)
LEMMA SyncStays ==
  ASSUME HistoryInv, [HistoryNext]_histVars, NEW q \in Syncers,
         step'[q] = step[q], mem'[q] = mem[q], event'[q] = event[q], task'[q] = task[q],
         checkpoint' = checkpoint, floor' = floor,
         adopted => \A m \in 1..posted' : m > applied /\ m <= applied' /\ Kept(m)' => m \in rows'
  PROVE  SyncInv(q)'
<1>0. /\ StoreTypes /\ StoreTypes' /\ posted <= posted' /\ gone \subseteq gone' /\ (adopted => adopted')
      /\ SyncInv(q) /\ q \in Commands
      /\ applied <= applied' /\ applied \in Nat /\ applied' \in Nat /\ applied <= posted /\ posted \in Nat /\ posted' \in Nat
      /\ mem[q] \in Nat /\ mem[q] <= posted
  BY HistoryTyped DEF HistoryInv, StoreTypes, CommandTypes, Commands
<1>1. ASSUME step[q] = "paging" PROVE \A m \in 1..posted' : m > task[q].start /\ m <= applied' /\ Kept(m)' => m \in rows'
  <2>1. SUFFICES ASSUME NEW m \in 1..posted', m > task[q].start, m <= applied', Kept(m)' PROVE m \in rows'
    OBVIOUS
  <2>2. CASE m > applied
    BY <1>0, <1>1, <2>1, <2>2 DEF SyncInv
  <2>3. CASE m <= applied
    <3>1. m \in 1..posted /\ Kept(m)
      BY <1>0, <2>1, <2>3 DEF Kept
    <3>2. m \in rows
      BY <1>0, <1>1, <2>1, <2>3, <3>1 DEF SyncInv
    <3>3. QED
      BY <1>0, <2>1, <3>2, RowsStay
  <2>4. QED
    BY <1>0, <2>2, <2>3
<1>2. ASSUME step[q] \in {"following", "save", "ack", "away"} PROVE CoversTo(applied)' /\ CoversTo(mem[q])'
  <2>1. CoversTo(applied) /\ CoversTo(mem[q]) /\ adopted
    BY <1>0, <1>2 DEF SyncInv
  <2>2. /\ \A m \in 1..posted' : m > floor' /\ m <= applied /\ Kept(m)' => m \in rows'
        /\ \A m \in 1..posted' : m > floor' /\ m <= mem[q] /\ Kept(m)' => m \in rows'
    BY <1>0, <2>1, CoverStays
  <2>3. ASSUME NEW m \in 1..posted', m > floor', m <= applied', Kept(m)' PROVE m \in rows'
    <3>1. m \in Nat
      OBVIOUS
    <3>2. CASE m <= applied
      BY <2>2, <2>3, <3>2
    <3>3. CASE m > applied
      BY <2>1, <2>3, <3>3
    <3>4. QED
      BY <1>0, <3>1, <3>2, <3>3
  <2>4. QED
    BY <2>2, <2>3 DEF CoversTo
<1>3. QED
  BY <1>0, <1>1, <1>2 DEF SyncInv

(* A complete catch-up saves a checkpoint that the cache covers, and covers what the *)
(* update stream has applied, too.                                                   *)
LEMMA PersistCovers ==
  ASSUME HistoryInv, NEW q \in Syncers, Persist(q), ~Partial(q), StoreTypes'
  PROVE  CoversTo(checkpoint)' /\ CoversTo(applied)' /\ checkpoint' >= checkpoint
<1> DEFINE t == task[q]
<1>0. /\ StoreTypes /\ q \in Commands /\ SyncInv(q) /\ Paging(t) /\ TaskInv(q) /\ CoversTo(checkpoint)
      /\ posted \in Nat /\ checkpoint \in Nat /\ t \in Tasks /\ applied \in Nat /\ applied <= posted
  BY DEF HistoryInv, Commands, TaskInv, StoreTypes, CommandTypes
<1>1. /\ t.after \in Nat /\ t.offset \in Nat /\ t.start \in Nat /\ t.got \in SUBSET (1..posted) /\ t.end \in Ends
  BY <1>0 DEF Tasks, Paging
<1>2. step[q] = "paging" /\ mem[q] = checkpoint /\ t.after = checkpoint /\ t.end # "more" /\ t.end # "none"
  BY <1>0 DEF Persist, Paged, SyncInv, TaskInv
<1>3. t.end = "whole" \/ (t.end = "truncated" /\ checkpoint = 0)
  <2>1. t.end # "failed" /\ ~(t.end = "truncated" /\ checkpoint > 0)
    BY <1>2 DEF Partial
  <2>2. t.end \in {"whole", "truncated"}
    BY <1>1, <1>2, <2>1 DEF Ends
  <2>3. checkpoint > 0 \/ checkpoint = 0
    BY <1>0
  <2>4. QED
    BY <2>1, <2>2, <2>3
<1> DEFINE reached == Larger(checkpoint, Highest(t.got))
<1>4. /\ UNCHANGED <<posted, gone, applied>> /\ rows' = rows \cup (t.got \ tombs) /\ checkpoint' = reached
      /\ floor' = IF checkpoint > 0 THEN floor ELSE IF t.end = "truncated" THEN Min(t.got) - 1 ELSE 0
  BY <1>2 DEF Persist, telegram, updates
<1>5. /\ Highest(t.got) \in Nat
      /\ t.got # {} => Highest(t.got) \in t.got /\ Min(t.got) \in t.got
      /\ \A m \in t.got : Highest(t.got) >= m /\ Min(t.got) <= m
  BY <1>0, <1>1, HighestFacts
<1>6. reached \in Nat /\ reached >= checkpoint
      /\ (reached = checkpoint \/ (reached = Highest(t.got) /\ Highest(t.got) > 0))
  BY <1>0, <1>5 DEF Larger
<1> HIDE DEF reached, t
<1>7. ASSUME NEW m \in 1..posted, m > floor', m <= checkpoint \/ Upto(t, m), Kept(m) PROVE m \in rows'
  <2>1. m \in Nat /\ m >= 1
    OBVIOUS
  <2>2. CASE m <= checkpoint
    <3>1. floor' = floor
      BY <1>0, <1>4, <2>1, <2>2
    <3>2. m \in rows
      BY <1>0, <1>7, <2>2, <3>1 DEF CoversTo
    <3>3. QED
      BY <1>4, <3>2
  <2>3. CASE ~(m <= checkpoint)
    <3>1. Upto(t, m) /\ m > t.after
      BY <1>0, <1>2, <1>7, <2>1, <2>3
    <3>2. m \in t.got
      <4>1. CASE t.end = "whole"
        BY <1>0, <1>7, <3>1, <4>1 DEF Paging
      <4>2. CASE t.end = "truncated" /\ checkpoint = 0
        <5>1. t.got # {} /\ Min(t.got) \in t.got
          BY <1>0, <1>5, <4>2 DEF Paging
        <5>2. t.offset # 0 /\ Min(t.got) >= t.offset /\ Min(t.got) \in Nat
          BY <1>0, <1>1, <5>1 DEF Paging
        <5>3. floor' = Min(t.got) - 1
          BY <1>0, <1>4, <4>2
        <5>4. m >= Min(t.got)
          BY <1>7, <2>1, <5>2, <5>3
        <5>5. m >= t.offset
          BY <1>1, <2>1, <5>2, <5>4
        <5>6. QED
          BY <1>0, <1>7, <3>1, <5>2, <5>5 DEF Paging
      <4>3. QED
        BY <1>3, <4>1, <4>2
    <3>3. m \notin tombs
      BY <1>0, <1>7 DEF Kept, StoreTypes
    <3>4. QED
      BY <1>4, <3>2, <3>3
  <2>4. QED
    BY <2>2, <2>3
<1>8. ASSUME NEW m \in 1..posted, m <= reached PROVE m <= checkpoint \/ Upto(t, m)
  <2>1. CASE reached = checkpoint
    BY <1>8, <2>1
  <2>2. CASE reached = Highest(t.got) /\ Highest(t.got) > 0
    <3>1. t.got # {}
      <4>1. t.got = {} => Highest(t.got) = 0
        BY DEF Highest
      <4>2. QED
        BY <4>1, <2>2
    <3>2. QED
      BY <1>5, <1>8, <2>2, <3>1 DEF Upto
  <2>3. QED
    BY <1>6, <2>1, <2>2
<1>9. ASSUME NEW m \in 1..posted, m > floor', m <= applied, Kept(m) PROVE m \in rows'
  <2>1. CASE m <= t.start
    BY <1>7, <1>9, <2>1 DEF Upto
  <2>2. CASE ~(m <= t.start)
    <3>1. m > t.start
      BY <1>1, <2>2
    <3>2. m \in rows
      BY <1>0, <1>2, <1>9, <3>1 DEF SyncInv, t
    <3>3. QED
      BY <1>4, <3>2
  <2>3. QED
    BY <2>1, <2>2
<1>10. \A m : Kept(m)' <=> Kept(m)
  BY <1>4 DEF Kept
<1>11. CoversTo(checkpoint)'
  BY <1>4, <1>7, <1>8, <1>10 DEF CoversTo
<1>12. CoversTo(applied)'
  BY <1>4, <1>9, <1>10 DEF CoversTo
<1>13. QED
  BY <1>4, <1>6, <1>11, <1>12

(* A step of a sync preserves what holds of it, and of the checkpoint. *)
LEMMA OwnSyncKept ==
  ASSUME HistoryInv, NEW q \in Syncers, CommandStep(q), StoreTypes', CommandTypes'
  PROVE  /\ SyncInv(q)' /\ CoversTo(checkpoint)'
         /\ \A m \in acked' : m <= checkpoint'
<1>0. /\ StoreTypes /\ q \in Commands /\ SyncInv(q) /\ TaskInv(q) /\ CoversTo(checkpoint) /\ \A m \in acked : m <= checkpoint
      /\ step[q] \in SyncSteps /\ q \notin Backfillers /\ [HistoryNext]_histVars
      /\ UNCHANGED <<posted, gone>> /\ (adopted => adopted') /\ (applied' = applied \/ ~adopted)
      /\ posted \in Nat /\ checkpoint \in Nat /\ checkpoint <= posted /\ applied \in Nat /\ applied <= posted
      /\ mem[q] \in Nat /\ mem[q] <= posted
      /\ acked \subseteq Nat
  BY StoreTyped, HistoryAssumption DEF HistoryInv, Commands, CommandTypes, StoreTypes, HistoryNext
<1>1. /\ step \in [Commands -> Steps] /\ mem \in [Commands -> Nat] /\ task \in [Commands -> Tasks] /\ event \in [Commands -> Nat]
      /\ step'[q] \in Steps /\ applied' <= posted
  BY <1>0 DEF HistoryInv, CommandTypes, StoreTypes
<1>2. ASSUME floor' = floor, NEW n \in Nat, n <= posted, CoversTo(n)
      PROVE  \A m \in 1..posted' : m > floor' /\ m <= n /\ Kept(m)' => m \in rows'
  BY <1>0, <1>2, CoverStays
<1>3. ASSUME floor' = floor, checkpoint' = checkpoint PROVE CoversTo(checkpoint)'
  BY <1>0, <1>2, <1>3 DEF CoversTo
<1>4. ASSUME floor' = floor, applied' = applied, CoversTo(applied) PROVE CoversTo(applied)'
  BY <1>0, <1>2, <1>4 DEF CoversTo
<1>5. ASSUME floor' = floor, mem'[q] = mem[q], CoversTo(mem[q]) PROVE CoversTo(mem[q])'
  BY <1>0, <1>2, <1>5 DEF CoversTo
<1>6. ASSUME step'[q] = "idle" PROVE SyncInv(q)'
  BY <1>6 DEF SyncInv
<1>7. CASE LoadState(q)
  <2>1. step'[q] = "loaded" /\ mem'[q] = checkpoint /\ task'[q].after = checkpoint
        /\ UNCHANGED <<checkpoint, floor, acked>>
    BY <1>0, <1>1, <1>7 DEF LoadState, NoTask
  <2>2. QED
    BY <1>0, <1>3, <2>1 DEF SyncInv
<1>8. CASE Connect(q)
  <2>1. /\ UNCHANGED <<checkpoint, floor, acked, rows, mem, event>> /\ step[q] \in {"loaded", "prepared", "away"}
        /\ step'[q] = IF step[q] = "away" THEN "following" ELSE "paging"
        /\ adopted' = TRUE /\ task'[q].after = task[q].after /\ task'[q].start = posted
    BY <1>0, <1>1, <1>8 DEF Connect, Tasks
  <2>2. step[q] # "prepared"
    BY <1>0, <2>1 DEF SyncSteps
  <2>3. CASE step[q] = "loaded"
    <3>1. \A m \in 1..posted' : ~(m > task'[q].start /\ m <= applied')
      BY <1>0, <1>1, <2>1 DEF StoreTypes
    <3>2. step'[q] = "paging" /\ mem[q] = checkpoint /\ task[q].after = checkpoint
      BY <1>0, <2>1, <2>3 DEF SyncInv
    <3>3. SyncInv(q)'
      BY <2>1, <3>1, <3>2 DEF SyncInv
    <3>4. QED
      BY <1>0, <1>3, <2>1, <3>3
  <2>4. CASE step[q] = "away"
    <3>1. step'[q] = "following" /\ adopted /\ mem[q] >= checkpoint /\ CoversTo(applied) /\ CoversTo(mem[q])
      BY <1>0, <2>1, <2>4 DEF SyncInv
    <3>2. applied' = applied
      BY <1>0, <3>1
    <3>3. CoversTo(applied)' /\ CoversTo(mem[q])'
      BY <1>4, <1>5, <2>1, <3>1, <3>2
    <3>4. SyncInv(q)'
      BY <2>1, <3>1, <3>3 DEF SyncInv
    <3>5. QED
      BY <1>0, <1>3, <2>1, <3>4
  <2>5. QED
    BY <2>1, <2>2, <2>3, <2>4
<1>9. CASE Crash(q)
  BY <1>0, <1>1, <1>3, <1>6, <1>9 DEF Crash
<1>10. CASE FetchPage(q) \/ FetchFails(q)
  <2>1. UNCHANGED <<checkpoint, floor, acked, rows, mem, event, step, adopted, applied>> /\ step[q] = "paging"
    BY <1>10 DEF FetchPage, FetchFails, updates
  <2>2. task'[q].after = task[q].after /\ task'[q].start = task[q].start
    <3>1. CASE FetchPage(q)
      <4>1. task'[q] = After(task[q], Page(task[q])) /\ task[q].end = "more"
        BY <1>1, <1>0, <3>1 DEF FetchPage
      <4>2. QED
        BY <1>0, <2>1, <4>1, Fetched
    <3>2. CASE FetchFails(q)
      BY <1>0, <1>1, <3>2 DEF FetchFails, Tasks
    <3>3. QED
      BY <1>10, <3>1, <3>2
  <2>3. SyncInv(q)'
    BY <1>0, <2>1, <2>2 DEF SyncInv, Kept
  <2>4. QED
    BY <1>0, <1>3, <2>1, <2>3
<1>11. CASE Persist(q)
  <2>1. step[q] = "paging" /\ mem[q] = checkpoint /\ UNCHANGED <<acked, adopted, applied>> /\ adopted
    BY <1>0, <1>11 DEF Persist, Paged, SyncInv, updates
  <2>2. CASE Partial(q)
    <3>1. step'[q] = "idle" /\ UNCHANGED <<checkpoint, floor>>
      BY <1>0, <1>1, <1>11, <2>2 DEF Persist, End
    <3>2. QED
      BY <1>0, <1>3, <1>6, <2>1, <3>1
  <2>3. CASE ~Partial(q)
    <3>1. CoversTo(checkpoint)' /\ CoversTo(applied)' /\ checkpoint' >= checkpoint
      BY <1>11, <2>3, PersistCovers
    <3>2. step'[q] = "following" /\ mem'[q] = checkpoint' /\ checkpoint' \in Nat
      BY <1>0, <1>1, <1>11, <2>3 DEF Persist, StoreTypes
    <3>3. SyncInv(q)'
      BY <2>1, <3>1, <3>2 DEF SyncInv, CoversTo
    <3>4. \A m \in acked' : m <= checkpoint'
      BY <1>0, <2>1, <3>1, <3>2
    <3>5. QED
      BY <3>1, <3>3, <3>4
  <2>4. QED
    BY <2>2, <2>3
<1>12. CASE StopTask(q)
  BY <1>0, <1>1, <1>3, <1>6, <1>12 DEF StopTask, End
<1>13. CASE ApplyEvent(q)
  <2> DEFINE e == Min(outbox)
  <2>1. e \in Nat /\ e <= applied
    BY <1>0, <1>13, OutboxOldest DEF ApplyEvent
  <2>2. /\ UNCHANGED <<checkpoint, floor, acked, adopted, applied>> /\ step[q] = "following" /\ step'[q] = "save"
        /\ event'[q] = e /\ mem'[q] = Larger(mem[q], e)
    BY <1>0, <1>1, <1>13 DEF ApplyEvent, updates
  <2> HIDE DEF e
  <2>3. mem[q] >= checkpoint /\ CoversTo(applied) /\ CoversTo(mem[q]) /\ adopted
    BY <1>0, <2>2 DEF SyncInv
  <2>4. mem'[q] \in Nat /\ mem'[q] >= mem[q] /\ mem'[q] >= e /\ (mem'[q] = mem[q] \/ mem'[q] = e)
    BY <1>0, <2>1, <2>2 DEF Larger
  <2>5. CoversTo(applied)'
    BY <1>4, <2>2, <2>3
  <2>6. CoversTo(mem[q])'
    <3>1. SUFFICES ASSUME NEW m \in 1..posted', m > floor', m <= mem'[q], Kept(m)' PROVE m \in rows'
      BY DEF CoversTo
    <3>2. m \in Nat
      OBVIOUS
    <3>3. m <= mem[q] \/ m <= applied
      BY <1>0, <2>1, <2>4, <3>1, <3>2
    <3>4. /\ \A x \in 1..posted' : x > floor' /\ x <= mem[q] /\ Kept(x)' => x \in rows'
          /\ \A x \in 1..posted' : x > floor' /\ x <= applied /\ Kept(x)' => x \in rows'
      BY <1>0, <1>2, <2>2, <2>3
    <3>5. QED
      BY <3>1, <3>3, <3>4
  <2>7. mem'[q] >= checkpoint
    BY <1>0, <2>3, <2>4
  <2>8. SyncInv(q)'
    BY <2>1, <2>2, <2>3, <2>4, <2>5, <2>6, <2>7 DEF SyncInv
  <2>9. QED
    BY <1>0, <1>3, <2>2, <2>8
<1>14. CASE SaveState(q)
  <2>1. /\ UNCHANGED <<floor, acked, adopted, applied, mem, event>> /\ step[q] = "save" /\ step'[q] = "ack" /\ checkpoint' = mem[q]
    BY <1>0, <1>1, <1>14 DEF SaveState, updates
  <2>2. mem[q] >= checkpoint /\ CoversTo(applied) /\ CoversTo(mem[q]) /\ adopted /\ event[q] <= mem[q]
    BY <1>0, <2>1 DEF SyncInv
  <2>3. CoversTo(applied)' /\ CoversTo(mem[q])'
    BY <1>4, <1>5, <2>1, <2>2
  <2>4. CoversTo(checkpoint)'
    BY <2>1, <2>3 DEF CoversTo
  <2>5. \A m \in acked' : m <= checkpoint'
    <3>1. ASSUME NEW m \in acked PROVE m <= mem[q]
      <4>1. m \in Nat /\ m <= checkpoint
        BY <1>0
      <4>2. QED
        BY <1>0, <2>2, <4>1
    <3>2. QED
      BY <2>1, <3>1
  <2>6. SyncInv(q)'
    BY <1>0, <2>1, <2>2, <2>3 DEF SyncInv
  <2>7. QED
    BY <2>4, <2>5, <2>6
<1>15. CASE Acknowledge(q)
  <2>1. /\ UNCHANGED <<floor, adopted, applied, mem, checkpoint>> /\ step[q] = "ack" /\ step'[q] = "following"
        /\ acked' = acked \cup {event[q]}
    BY <1>0, <1>1, <1>15 DEF Acknowledge, updates
  <2>2. mem[q] >= checkpoint /\ CoversTo(applied) /\ CoversTo(mem[q]) /\ adopted /\ event[q] <= mem[q] /\ mem[q] = checkpoint
    BY <1>0, <2>1 DEF SyncInv
  <2>3. CoversTo(applied)' /\ CoversTo(mem[q])'
    BY <1>4, <1>5, <2>1, <2>2
  <2>4. SyncInv(q)'
    BY <2>1, <2>2, <2>3 DEF SyncInv
  <2>5. \A m \in acked' : m <= checkpoint'
    BY <1>0, <2>1, <2>2
  <2>6. QED
    BY <1>3, <2>1, <2>4, <2>5
<1>16. CASE LoseConnection(q)
  <2>1. UNCHANGED <<floor, adopted, applied, mem, checkpoint, acked>> /\ step[q] = "following" /\ step'[q] = "away"
    BY <1>0, <1>1, <1>16 DEF LoseConnection, updates
  <2>2. mem[q] >= checkpoint /\ CoversTo(applied) /\ CoversTo(mem[q]) /\ adopted
    BY <1>0, <2>1 DEF SyncInv
  <2>3. CoversTo(applied)' /\ CoversTo(mem[q])'
    BY <1>4, <1>5, <2>1, <2>2
  <2>4. SyncInv(q)'
    BY <2>1, <2>2, <2>3 DEF SyncInv
  <2>5. QED
    BY <1>0, <1>3, <2>1, <2>4
<1>17. ~(Prepare(q) \/ CloseClient(q) \/ BackfillFails(q) \/ Insert(q))
  BY <1>0 DEF Prepare, CloseClient, BackfillFails, Insert, SyncSteps
<1>18. QED
  BY <1>7, <1>8, <1>9, <1>10, <1>11, <1>12, <1>13, <1>14, <1>15, <1>16, <1>17 DEF CommandStep

(* A step of another than the one sync leaves its checkpoint alone, and what the *)
(* update stream applies by it is cached.                                        *)
LEMMA OthersLeave ==
  ASSUME HistoryInv, StoreTypes',
         \/ \E p \in Backfillers : CommandStep(p)
         \/ Post \/ HandleNew \/ \E m \in Ids : Recall(m) \/ HandleDeletion(m)
         \/ UNCHANGED histVars
  PROVE  /\ UNCHANGED <<checkpoint, floor, acked>>
         /\ adopted => \A m \in 1..posted' : m > applied /\ m <= applied' /\ Kept(m)' => m \in rows'
<1>0. /\ applied \in Nat /\ StoreTypes
  BY DEF HistoryInv, StoreTypes
<1>1. ASSUME NEW p \in Backfillers, CommandStep(p)
      PROVE  UNCHANGED <<checkpoint, floor, acked>> /\ (adopted => applied' = applied)
  <2>1. p \in Commands /\ p \notin Syncers /\ step[p] \in BackfillSteps
    BY HistoryAssumption DEF HistoryInv, CommandTypes, Commands
  <2>2. adopted => applied' = applied
    BY <1>1, <2>1, StoreTyped
  <2>3. UNCHANGED <<checkpoint, floor, acked>>
    BY <1>1, <2>1 DEF CommandStep, LoadState, Prepare, Connect, Crash, FetchPage, FetchFails, Persist, StopTask, ApplyEvent,
              SaveState, Acknowledge, LoseConnection, CloseClient, BackfillFails, Insert, BackfillSteps
  <2>4. QED
    BY <2>2, <2>3
<1>2. CASE HandleNew
  <2>1. UNCHANGED <<checkpoint, floor, acked, posted, gone>> /\ applied' = applied + 1
        /\ (applied + 1 \notin Omitted \cup gone => rows' = rows \cup {applied + 1})
    BY <1>2 DEF HandleNew, telegram
  <2>2. ASSUME NEW m \in 1..posted', m > applied, m <= applied', Kept(m)' PROVE m \in rows'
    <3>1. m = applied + 1
      BY <1>0, <2>1, <2>2
    <3>2. QED
      BY <2>1, <2>2, <3>1 DEF Kept
  <2>3. QED
    BY <2>1, <2>2
<1>3. CASE Post \/ \E m \in Ids : Recall(m) \/ HandleDeletion(m)
  BY <1>0, <1>3 DEF Post, Recall, HandleDeletion, updates
<1>4. CASE UNCHANGED histVars
  BY <1>0, <1>4 DEF histVars
<1>5. \A m \in 1..posted' : applied' = applied => ~(m > applied /\ m <= applied')
  BY <1>0
<1>6. CASE \E p \in Backfillers : CommandStep(p)
  BY <1>1, <1>5, <1>6
<1>7. QED
  BY <1>2, <1>3, <1>4, <1>6

(* Every step preserves what holds of the one sync and its checkpoint. *)
LEMMA SyncsKept ==
  ASSUME HistoryInv, [HistoryNext]_histVars, \A p, q \in Syncers : p = q
  PROVE  /\ \A q \in Syncers : SyncInv(q)'
         /\ CoversTo(checkpoint)'
         /\ \A m \in acked' : m <= checkpoint'
<1>0. /\ StoreTypes /\ StoreTypes' /\ CommandTypes /\ CommandTypes' /\ posted <= posted' /\ gone \subseteq gone'
      /\ checkpoint \in Nat /\ checkpoint <= posted
  BY HistoryTyped DEF HistoryInv, StoreTypes
<1>1. CASE \E q \in Syncers : CommandStep(q)
  BY <1>0, <1>1, OwnSyncKept
<1>2. ASSUME \/ \E p \in Backfillers : CommandStep(p)
             \/ Post \/ HandleNew \/ \E m \in Ids : Recall(m) \/ HandleDeletion(m)
             \/ UNCHANGED histVars
      PROVE  /\ \A q \in Syncers : SyncInv(q)'
             /\ CoversTo(checkpoint)'
             /\ \A m \in acked' : m <= checkpoint'
  <2>1. /\ UNCHANGED <<checkpoint, floor, acked>>
        /\ adopted => \A m \in 1..posted' : m > applied /\ m <= applied' /\ Kept(m)' => m \in rows'
    BY <1>0, <1>2, OthersLeave
  <2>2. ASSUME NEW q \in Syncers PROVE step'[q] = step[q] /\ mem'[q] = mem[q] /\ event'[q] = event[q] /\ task'[q] = task[q]
    <3>1. CASE \E p \in Backfillers : CommandStep(p)
      <4>1. PICK p \in Backfillers : CommandStep(p)
        BY <3>1
      <4>2. p \in Commands /\ q \in Commands /\ p # q
        BY HistoryAssumption DEF Commands
      <4>3. Only(p)
        BY <1>0, <4>1, <4>2, OnlyOne
      <4>4. QED
        BY <1>0, <4>2, <4>3 DEF Only, CommandTypes
    <3>2. CASE Post \/ HandleNew \/ \E m \in Ids : Recall(m) \/ HandleDeletion(m)
      BY <3>2 DEF Post, HandleNew, Recall, HandleDeletion
    <3>3. CASE UNCHANGED histVars
      BY <3>3 DEF histVars
    <3>4. QED
      BY <1>2, <3>1, <3>2, <3>3
  <2>3. \A q \in Syncers : SyncInv(q)'
    BY <2>1, <2>2, SyncStays
  <2>4. CoversTo(checkpoint)'
    <3>1. CoversTo(checkpoint)
      BY DEF HistoryInv
    <3>2. \A m \in 1..posted' : m > floor' /\ m <= checkpoint /\ Kept(m)' => m \in rows'
      BY <1>0, <2>1, <3>1, CoverStays
    <3>3. QED
      BY <2>1, <3>2 DEF CoversTo
  <2>5. QED
    BY <2>1, <2>3, <2>4 DEF HistoryInv
<1>3. QED
  BY <1>1, <1>2 DEF HistoryNext, Commands

(* Every step preserves what holds of the backfills. *)
LEMMA BackfillsKept ==
  ASSUME HistoryInv, [HistoryNext]_histVars, NEW q \in Backfillers
  PROVE  BackfillInv(q)'
<1>0. /\ CommandTypes /\ BackfillInv(q) /\ q \in Commands /\ step[q] \in BackfillSteps /\ q \notin Syncers
      /\ step \in [Commands -> Steps] /\ report \in [Commands -> Reports] /\ left \in [Commands -> SUBSET {"media", "rows"}]
  BY HistoryAssumption DEF HistoryInv, CommandTypes, Commands
<1>1. ASSUME NEW p \in Commands, CommandStep(p), p # q PROVE BackfillInv(q)'
  <2>1. Only(p)
    BY <1>0, <1>1, OnlyOne
  <2>2. step'[q] = step[q] /\ report'[q] = report[q] /\ left'[q] = left[q]
    BY <1>0, <1>1, <2>1 DEF Only
  <2>3. QED
    BY <1>0, <2>2 DEF BackfillInv
<1>2. ASSUME CommandStep(q) PROVE BackfillInv(q)'
  <2>1. CASE Prepare(q) \/ Crash(q)
    BY <1>0, <2>1 DEF Prepare, Crash, BackfillInv
  <2>2. CASE Connect(q) \/ FetchFails(q) \/ CloseClient(q)
    BY <1>0, <2>2 DEF Connect, FetchFails, CloseClient, Paged, BackfillInv
  <2>3. CASE FetchPage(q)
    BY <1>0, <2>3 DEF FetchPage, BackfillInv
  <2>4. CASE BackfillFails(q)
    <3>1. step'[q] = "idle" /\ report'[q] = FailureReport(q) /\ left' = left /\ step[q] # "idle"
      BY <1>0, <2>4 DEF BackfillFails, Paged
    <3>2. left[q] \subseteq {"media"}
      BY <1>0, <3>1 DEF BackfillInv
    <3>3. QED
      BY <3>1, <3>2 DEF BackfillInv, FailureReport
  <2>5. CASE Insert(q)
    <3>1. step'[q] = "idle" /\ report'[q] \in {"inserted", "committed"}
      BY <1>0, <2>5 DEF Insert
    <3>2. QED
      BY <3>1 DEF BackfillInv
  <2>6. ~(LoadState(q) \/ Persist(q) \/ StopTask(q) \/ ApplyEvent(q) \/ SaveState(q) \/ Acknowledge(q) \/ LoseConnection(q))
    BY <1>0 DEF LoadState, Persist, StopTask, ApplyEvent, SaveState, Acknowledge, LoseConnection, BackfillSteps
  <2>7. QED
    BY <1>2, <2>1, <2>2, <2>3, <2>4, <2>5, <2>6 DEF CommandStep
<1>3. CASE Post \/ HandleNew \/ \E m \in Ids : Recall(m) \/ HandleDeletion(m)
  <2>1. UNCHANGED <<step, report, left>>
    BY <1>3 DEF Post, HandleNew, Recall, HandleDeletion
  <2>2. QED
    BY <1>0, <2>1 DEF BackfillInv
<1>4. CASE UNCHANGED histVars
  BY <1>0, <1>4 DEF histVars, BackfillInv
<1>5. QED
  BY <1>1, <1>2, <1>3, <1>4 DEF HistoryNext

(* The inductive invariant contains what the run checks. *)
LEMMA HistoryImplies == HistoryInv => HistoryCovered
<1> SUFFICES ASSUME HistoryInv PROVE HistoryCovered
  OBVIOUS
<1>0. StoreTypes /\ CommandTypes /\ posted \in Nat /\ applied \in Nat /\ MaxId \in Nat /\ MaxRuns \in Nat
  BY HistoryAssumption DEF HistoryInv, StoreTypes
<1>1. HistoryTypeOK
  <2>1. /\ posted \in 0..MaxId /\ gone \subseteq 1..posted /\ tombs \subseteq gone
        /\ adopted \in BOOLEAN /\ applied \in 0..posted
        /\ rows \subseteq (1..posted) \ (tombs \cup Omitted) /\ outbox \subseteq 1..applied
        /\ checkpoint \in 0..posted /\ floor \in 0..posted
        /\ session \in Commands \cup {NoProcess} /\ runs \in 0..MaxRuns
        /\ acked \subseteq 1..applied
    BY <1>0 DEF StoreTypes
  <2>2. mem \in [Commands -> 0..posted]
    BY <1>0 DEF CommandTypes
  <2>3. ASSUME NEW p \in Commands
        PROVE  /\ task[p].got \subseteq 1..posted /\ task[p].end \in Ends
               /\ Cardinality(task[p].got) <= task[p].quota
               /\ event[p] \in 0..posted /\ report[p] \in Reports
               /\ left[p] \subseteq {"media", "rows"}
    <3>1. Paging(task[p]) /\ task[p] \in Tasks
      BY <1>0 DEF HistoryInv, TaskInv, CommandTypes
    <3>2. event[p] \in Nat /\ event[p] <= applied /\ applied <= posted
      BY <1>0 DEF CommandTypes, StoreTypes
    <3>3. event[p] \in 0..posted
      BY <1>0, <3>2
    <3>4. QED
      BY <1>0, <3>1, <3>3 DEF Paging, Tasks, CommandTypes
  <2>4. QED
    BY <1>0, <2>1, <2>2, <2>3 DEF HistoryTypeOK, CommandTypes
<1>2. PagingLeavesNoGap
  <2>1. SUFFICES ASSUME NEW p \in Commands, task[p].end \in {"whole", "truncated"}, NEW m \in 1..task[p].start,
                        m > (IF task[p].end = "whole" THEN task[p].after ELSE Min(task[p].got) - 1), Kept(m)
                 PROVE  m \in task[p].got
    BY DEF PagingLeavesNoGap
  <2> DEFINE t == task[p]
  <2>2. Paging(t) /\ t \in Tasks
    BY <1>0 DEF HistoryInv, TaskInv, CommandTypes
  <2>3. t.start \in Nat /\ t.after \in Nat /\ t.offset \in Nat /\ t.start <= posted /\ t.got \in SUBSET (1..posted)
    BY <2>2 DEF Paging, Tasks
  <2>4. m \in 1..posted /\ m \in Nat /\ Upto(t, m)
    BY <1>0, <2>1, <2>3 DEF Upto
  <2> HIDE DEF t
  <2>5. CASE t.end = "whole"
    BY <2>1, <2>2, <2>4, <2>5 DEF Paging, t
  <2>6. CASE t.end = "truncated"
    <3>1. t.got # {} /\ Min(t.got) \in t.got
      BY <1>0, <2>2, <2>3, <2>6, HighestFacts DEF Paging
    <3>2. t.offset # 0 /\ Min(t.got) >= t.offset /\ Min(t.got) > t.after /\ Min(t.got) \in Nat
      BY <2>2, <2>3, <3>1 DEF Paging
    <3>3. m > Min(t.got) - 1
      BY <2>1, <2>6 DEF t
    <3>4. m >= Min(t.got)
      BY <2>4, <3>2, <3>3
    <3>5. m > t.after /\ m >= t.offset
      BY <2>3, <2>4, <3>2, <3>4
    <3>6. Kept(m)
      BY <2>1
    <3>7. m \in t.got
      BY <2>2, <2>4, <3>2, <3>5, <3>6 DEF Paging
    <3>8. QED
      BY <3>7 DEF t
  <2>7. QED
    BY <2>1, <2>5, <2>6 DEF t
<1>3. CheckpointCovers
  <2>1. ASSUME NEW m \in Ids, m > floor, m <= checkpoint, Kept(m) PROVE m \in rows
    <3>1. m \in 1..posted
      BY <1>0, <2>1 DEF Ids, StoreTypes
    <3>2. QED
      BY <2>1, <3>1 DEF HistoryInv, CoversTo
  <2>2. QED
    BY <2>1 DEF CheckpointCovers
<1>4. AckedIsBehindCheckpoint
  BY DEF HistoryInv, AckedIsBehindCheckpoint
<1>5. FailedLeavesNothing
  BY DEF HistoryInv, BackfillInv, FailedLeavesNothing
<1>6. QED
  BY <1>1, <1>2, <1>3, <1>4, <1>5 DEF HistoryCovered

(* With one sync of the chat, and as long as Telegram loses nothing that a running *)
(* pager has read, the cached history has no hole that a report or a checkpoint    *)
(* denies.                                                                         *)
THEOREM HistoryIsCovered ==
  ASSUME ~RecallsRead, \A p, q \in Syncers : p = q
  PROVE  HistorySpec => []HistoryCovered
<1>1. HistoryInv /\ [HistoryNext]_histVars => HistoryInv'
  BY HistoryTyped, TasksKept, SyncsKept, BackfillsKept DEF HistoryInv
<1>2. QED
  BY <1>1, HistoryStart, HistoryImplies, PTL DEF HistorySpec

(* However many syncs there are: cached and fetched messages were posted. *)
CapInv ==
  /\ posted \in Nat /\ applied \in Nat /\ applied <= posted
  /\ rows \subseteq 1..posted /\ outbox \subseteq 1..posted
  /\ step \in [Commands -> Steps]
  /\ task = [q \in Commands |-> task[q]]
  /\ \A p \in Commands : "got" \in DOMAIN task[p] /\ task[p].got \subseteq 1..posted

(* They are at the start, ... *)
LEMMA CapStart == HistoryInit => CapInv
  BY DEF HistoryInit, CapInv, NoTask, Steps

(* ... and stay so. *)
LEMMA CapKept ==
  ASSUME CapInv, [HistoryNext]_histVars
  PROVE  CapInv'
<1> USE DEF telegram, updates
<1>0. /\ posted \in Nat /\ applied \in Nat /\ applied <= posted /\ step \in [Commands -> Steps]
      /\ "got" \in DOMAIN NoTask /\ NoTask.got = {}
  BY DEF CapInv, NoTask
<1>1. ASSUME NEW p \in Commands, UNCHANGED <<posted, outbox, rows>>, applied' \in {applied, posted},
             step' = [step EXCEPT ![p] = step'[p]], step'[p] \in Steps,
             task' = [task EXCEPT ![p] = task'[p]], "got" \in DOMAIN task'[p], task'[p].got \subseteq 1..posted
      PROVE  CapInv'
  <2>1. \A q \in Commands : "got" \in DOMAIN task'[q] /\ task'[q].got \subseteq 1..posted
    BY <1>1 DEF CapInv
  <2>2. applied' \in Nat /\ applied' <= posted
    BY <1>0, <1>1
  <2>3. step' \in [Commands -> Steps] /\ task' = [q \in Commands |-> task'[q]]
    BY <1>0, <1>1 DEF CapInv
  <2>4. QED
    BY <1>1, <2>1, <2>2, <2>3 DEF CapInv
<1>2. ASSUME NEW p \in Commands, rows' \subseteq 1..posted, UNCHANGED <<posted, outbox, applied>>,
             step' = [step EXCEPT ![p] = step'[p]], step'[p] \in Steps,
             task' = [task EXCEPT ![p] = task'[p]], "got" \in DOMAIN task'[p], task'[p].got \subseteq 1..posted
      PROVE  CapInv'
  <2>1. \A q \in Commands : "got" \in DOMAIN task'[q] /\ task'[q].got \subseteq 1..posted
    BY <1>2 DEF CapInv
  <2>2. step' \in [Commands -> Steps] /\ task' = [q \in Commands |-> task'[q]]
    BY <1>0, <1>2 DEF CapInv
  <2>3. QED
    BY <1>0, <1>2, <2>1, <2>2 DEF CapInv
<1>3. ASSUME NEW p \in Commands, CommandStep(p) PROVE CapInv'
  <2>0. /\ "got" \in DOMAIN task[p] /\ task[p].got \subseteq 1..posted /\ step[p] \in Steps
        /\ DOMAIN task = Commands /\ task = [task EXCEPT ![p] = task[p]]
    BY DEF CapInv
  <2>1. CASE LoadState(p) \/ Prepare(p) \/ Crash(p) \/ BackfillFails(p) \/ StopTask(p)
    <3>1. /\ UNCHANGED <<posted, outbox, rows, applied>> /\ step' = [step EXCEPT ![p] = step'[p]] /\ step'[p] \in Steps
      BY <1>0, <2>0, <2>1 DEF LoadState, Prepare, Crash, BackfillFails, StopTask, End, Steps
    <3>2. task' = [task EXCEPT ![p] = task'[p]] /\ "got" \in DOMAIN task'[p] /\ task'[p].got = {}
      BY <1>0, <2>0, <2>1 DEF LoadState, Prepare, Crash, BackfillFails, StopTask, End, NoTask
    <3>3. QED
      BY <1>1, <3>1, <3>2
  <2>2. CASE Connect(p) \/ FetchFails(p) \/ SaveState(p) \/ LoseConnection(p) \/ CloseClient(p)
    <3>1. /\ UNCHANGED <<posted, outbox, rows>> /\ step' = [step EXCEPT ![p] = step'[p]] /\ step'[p] \in Steps
          /\ applied' \in {applied, posted}
      BY <1>0, <2>0, <2>2 DEF Connect, FetchFails, SaveState, LoseConnection, CloseClient, Steps
    <3>2. task' = [task EXCEPT ![p] = task'[p]] /\ "got" \in DOMAIN task'[p] /\ task'[p].got = task[p].got
      <4>1. CASE Connect(p)
        BY <2>0, <4>1 DEF Connect
      <4>2. CASE FetchFails(p)
        BY <2>0, <4>2 DEF FetchFails
      <4>3. CASE SaveState(p) \/ LoseConnection(p) \/ CloseClient(p)
        <5>1. task' = task
          BY <4>3 DEF SaveState, LoseConnection, CloseClient
        <5>2. QED
          BY <2>0, <5>1
      <4>4. QED
        BY <2>2, <4>1, <4>2, <4>3
    <3>3. QED
      BY <1>1, <2>0, <3>1, <3>2
  <2>3. CASE FetchPage(p)
    <3>1. /\ UNCHANGED <<posted, outbox, rows, applied>> /\ step' = [step EXCEPT ![p] = step'[p]] /\ step'[p] \in Steps
          /\ task' = [task EXCEPT ![p] = After(task[p], Page(task[p]))]
      BY <1>0, <2>0, <2>3 DEF FetchPage
    <3>2. task' = [task EXCEPT ![p] = task'[p]] /\ task'[p] = After(task[p], Page(task[p]))
      BY <2>0, <3>1
    <3>3. "got" \in DOMAIN task'[p] /\ task'[p].got = task[p].got \cup (Page(task[p]) \ Omitted)
      BY <2>0, <3>2 DEF After
    <3>4. Page(task[p]) \subseteq 1..posted
      BY DEF Page, Newest, There
    <3>5. QED
      BY <1>1, <2>0, <3>1, <3>2, <3>3, <3>4
  <2>4. CASE Persist(p)
    <3>1. /\ UNCHANGED <<posted, outbox, applied>> /\ rows' = rows \cup (task[p].got \ tombs)
      BY <2>4 DEF Persist
    <3>2. step' = [step EXCEPT ![p] = step'[p]] /\ step'[p] \in Steps /\ task' = [task EXCEPT ![p] = NoTask]
      <4>1. CASE Partial(p)
        BY <1>0, <2>4, <4>1 DEF Persist, End, Steps
      <4>2. CASE ~Partial(p)
        BY <1>0, <2>4, <4>2 DEF Persist, Steps
      <4>3. QED
        BY <4>1, <4>2
    <3>3. task' = [task EXCEPT ![p] = task'[p]] /\ "got" \in DOMAIN task'[p] /\ task'[p].got = {}
      BY <1>0, <2>0, <3>2
    <3>4. rows' \subseteq 1..posted
      BY <2>0, <3>1 DEF CapInv
    <3>5. QED
      BY <1>2, <3>1, <3>2, <3>3, <3>4
  <2>5. CASE ApplyEvent(p)
    <3>1. Min(outbox) \in outbox
      BY <1>0, <2>5, HighestFacts DEF ApplyEvent, CapInv
    <3>2. rows' \subseteq 1..posted
      BY <2>5, <3>1 DEF ApplyEvent, CapInv
    <3>3. /\ UNCHANGED <<posted, outbox, applied>> /\ step' = [step EXCEPT ![p] = step'[p]] /\ step'[p] \in Steps
          /\ task' = task
      BY <1>0, <2>5 DEF ApplyEvent, Steps
    <3>4. task' = [task EXCEPT ![p] = task'[p]]
      BY <2>0, <3>3
    <3>5. QED
      BY <1>2, <2>0, <3>2, <3>3, <3>4
  <2>6. CASE Acknowledge(p)
    <3>1. UNCHANGED <<posted, applied, rows, task>> /\ outbox' \subseteq outbox /\ step' = [step EXCEPT ![p] = "following"]
      BY <2>6 DEF Acknowledge
    <3>2. step' \in [Commands -> Steps]
      BY <1>0, <3>1 DEF Steps
    <3>3. QED
      BY <3>1, <3>2 DEF CapInv
  <2>7. CASE Insert(p)
    <3>1. PICK cut \in 0..Cardinality(task[p].got) : rows' = rows \cup (Taken(task[p].got, cut) \ tombs)
      BY <2>7 DEF Insert
    <3>2. Taken(task[p].got, cut) \subseteq task[p].got
      BY DEF Taken, Newest
    <3>3. rows' \subseteq 1..posted
      BY <2>0, <3>1, <3>2 DEF CapInv
    <3>4. /\ UNCHANGED <<posted, outbox, applied>> /\ step' = [step EXCEPT ![p] = step'[p]] /\ step'[p] \in Steps
          /\ task' = [task EXCEPT ![p] = NoTask]
      BY <1>0, <2>7 DEF Insert, Steps
    <3>5. task' = [task EXCEPT ![p] = task'[p]] /\ "got" \in DOMAIN task'[p] /\ task'[p].got = {}
      BY <1>0, <2>0, <3>4
    <3>6. QED
      BY <1>2, <3>3, <3>4, <3>5
  <2>8. QED
    BY <1>3, <2>1, <2>2, <2>3, <2>4, <2>5, <2>6, <2>7 DEF CommandStep
<1>4. CASE Post
  <2>1. posted' = posted + 1 /\ UNCHANGED <<applied, rows, outbox, step, task>>
    BY <1>4 DEF Post
  <2>2. 1..posted \subseteq 1..posted' /\ posted' \in Nat /\ applied <= posted'
    BY <1>0, <2>1
  <2>3. QED
    BY <2>1, <2>2 DEF CapInv
<1>5. CASE HandleNew
  <2>1. /\ applied' = applied + 1 /\ applied < posted /\ UNCHANGED <<posted, step, task>>
        /\ rows' \subseteq rows \cup {applied + 1} /\ outbox' \subseteq outbox \cup {applied + 1}
    BY <1>5 DEF HandleNew
  <2>2. applied + 1 \in 1..posted /\ applied' \in Nat /\ applied' <= posted
    BY <1>0, <2>1
  <2>3. QED
    BY <2>1, <2>2 DEF CapInv
<1>6. CASE \E m \in Ids : Recall(m) \/ HandleDeletion(m)
  BY <1>6 DEF Recall, HandleDeletion, CapInv
<1>7. CASE UNCHANGED histVars
  BY <1>7 DEF histVars, CapInv
<1>8. QED
  BY <1>3, <1>4, <1>5, <1>6, <1>7 DEF HistoryNext

(* What one transaction takes fits under the cap. *)
LEMMA TakenFits ==
  ASSUME CapInv, NEW p \in Commands, NEW cut \in Nat,
         NEW new, new = rows \cup (Taken(task[p].got, cut) \ tombs), new # rows
  PROVE  Cardinality(new) <= MaxMessages
<1> DEFINE rest == Newest(task[p].got, cut) \ rows
           room == IF Cardinality(rows) >= MaxMessages THEN 0 ELSE MaxMessages - Cardinality(rows)
           taken == Newest(rest, room)
<1>1. posted \in Nat /\ rows \in SUBSET (1..posted) /\ rest \in SUBSET (1..posted) /\ MaxMessages \in Nat
  BY HistoryAssumption DEF CapInv, Newest
<1>2. IsFiniteSet(rows) /\ Cardinality(rows) \in Nat
  BY <1>1, MessagesFinite
<1>3. room \in Nat
  BY <1>1, <1>2
<1>4. taken = Taken(task[p].got, cut)
  BY DEF Taken
<1> HIDE DEF rest, taken
<1>5. IsFiniteSet(taken) /\ Cardinality(taken) \in Nat /\ Cardinality(taken) <= room
  <2> HIDE DEF room
  <2> QED BY <1>1, <1>3, NewestFacts DEF taken
<1>6. taken \ tombs \subseteq taken /\ new = rows \cup (taken \ tombs)
  BY <1>4
<1>7. IsFiniteSet(taken \ tombs) /\ Cardinality(taken \ tombs) \in Nat /\ Cardinality(taken \ tombs) <= Cardinality(taken)
  BY <1>5, <1>6, FS_Subset, FS_CardinalityType
<1>8. /\ Cardinality(rows \cup (taken \ tombs))
           = Cardinality(rows) + Cardinality(taken \ tombs) - Cardinality(rows \cap (taken \ tombs))
      /\ IsFiniteSet(rows \cap (taken \ tombs)) /\ Cardinality(rows \cap (taken \ tombs)) \in Nat
  BY <1>2, <1>7, FS_Union, FS_Subset, FS_CardinalityType
<1>9. Cardinality(rows) < MaxMessages
  <2>1. ASSUME room = 0 PROVE FALSE
    <3>1. Cardinality(taken) = 0
      BY <1>5, <2>1
    <3>2. taken = {}
      BY <1>5, <3>1, FS_EmptySet
    <3>3. QED
      BY <1>6, <3>2
  <2>2. QED
    BY <1>1, <1>2, <2>1
<1>10. room = MaxMessages - Cardinality(rows)
  BY <1>1, <1>2, <1>9
<1> HIDE DEF room
<1>11. Cardinality(taken \ tombs) <= room
  BY <1>3, <1>5, <1>7
<1>12. QED
  <2>1. Cardinality(new) = Cardinality(rows \cup (taken \ tombs))
    BY <1>6
  <2>2. ASSUME NEW a \in Nat, NEW b \in Nat, NEW c \in Nat, b <= room, NEW n, n = a + b - c, a = Cardinality(rows)
        PROVE  n <= MaxMessages
    BY <1>1, <1>3, <1>10, <2>2
  <2>3. QED
    BY <1>2, <1>7, <1>8, <1>11, <2>1, <2>2

(* The message cap holds against a count that changed while Telegram was asked: no *)
(* insertion takes the cache above --max-messages, however many commands run.      *)
THEOREM CapIsHeld == HistorySpec => CapHolds
<1>1. CapInv /\ [HistoryNext]_histVars => [Inserted /\ rows' # rows => Cardinality(rows') <= MaxMessages]_histVars
  <2>1. SUFFICES ASSUME CapInv, HistoryNext, Inserted, rows' # rows PROVE Cardinality(rows') <= MaxMessages
    BY DEF histVars
  <2>2. PICK q \in Backfillers : step[q] = "insert" /\ step'[q] = "idle"
    BY <2>1 DEF Inserted
  <2>3. q \in Commands /\ step \in [Commands -> Steps]
    BY <2>1 DEF Commands, CapInv
  <2>4. PICK p \in Commands : CommandStep(p)
    <3>1. ~(Post \/ HandleNew \/ \E m \in Ids : Recall(m) \/ HandleDeletion(m))
      BY <2>2 DEF Post, HandleNew, Recall, HandleDeletion
    <3>2. QED
      BY <2>1, <3>1 DEF HistoryNext
  <2>5. p = q
    <3>1. step' = [step EXCEPT ![p] = step'[p]] \/ step' = step
      <4>1. CASE LoadState(p) \/ Prepare(p) \/ Connect(p) \/ Crash(p) \/ FetchPage(p) \/ FetchFails(p)
        BY <2>3, <4>1 DEF LoadState, Prepare, Connect, Crash, FetchPage, FetchFails
      <4>2. CASE Persist(p)
        <5>1. CASE Partial(p)
          BY <2>3, <4>2, <5>1 DEF Persist, End
        <5>2. CASE ~Partial(p)
          BY <2>3, <4>2, <5>2 DEF Persist
        <5>3. QED
          BY <5>1, <5>2
      <4>3. CASE StopTask(p) \/ ApplyEvent(p) \/ SaveState(p) \/ Acknowledge(p) \/ LoseConnection(p)
        BY <2>3, <4>3 DEF StopTask, End, ApplyEvent, SaveState, Acknowledge, LoseConnection
      <4>4. CASE CloseClient(p) \/ BackfillFails(p) \/ Insert(p)
        BY <2>3, <4>4 DEF CloseClient, BackfillFails, Insert
      <4>5. QED
        BY <2>4, <4>1, <4>2, <4>3, <4>4 DEF CommandStep
    <3>2. QED
      BY <2>2, <2>3, <3>1
  <2>6. Insert(q)
    <3>1. ~(LoadState(q) \/ Prepare(q) \/ Connect(q) \/ FetchPage(q) \/ FetchFails(q) \/ Persist(q) \/ StopTask(q)
            \/ ApplyEvent(q) \/ SaveState(q) \/ Acknowledge(q) \/ LoseConnection(q) \/ CloseClient(q))
      BY <2>2 DEF LoadState, Prepare, Connect, FetchPage, FetchFails, Persist, Paged, StopTask, ApplyEvent, SaveState,
                  Acknowledge, LoseConnection, CloseClient
    <3>2. ~(Crash(q) \/ BackfillFails(q))
      BY <2>1 DEF Crash, BackfillFails
    <3>3. QED
      BY <2>4, <2>5, <3>1, <3>2 DEF CommandStep
  <2>7. PICK cut \in 0..Cardinality(task[q].got) : rows' = rows \cup (Taken(task[q].got, cut) \ tombs)
    BY <2>6 DEF Insert
  <2>8. cut \in Nat
    <3>1. Cardinality(task[q].got) \in Nat
      BY <2>1, <2>3, MessagesFinite DEF CapInv
    <3>2. QED
      BY <3>1
  <2>9. QED
    BY <2>1, <2>3, <2>7, <2>8, TakenFits
<1>2. CapInv /\ [HistoryNext]_histVars => CapInv'
  BY CapKept
<1>3. QED
  BY CapStart, <1>1, <1>2, PTL DEF HistorySpec, CapHolds

-----------------------------------------------------------------------------
(* Pages.                                                                    *)

(* Dates with message ids, a list of them in the order asked for, and what is last in it. *)
Keys == Nat \X Nat
Orderly(s, r) == \A i, j \in DOMAIN s : i < j => Precedes(s[i], s[j], r)
LastIn(m, S, r) == \A k \in S : k = m \/ Precedes(k, m, r)

(* The order of a list is a total order. *)
LEMMA PrecedesIsTotal ==
  ASSUME NEW r \in BOOLEAN, NEW k \in Keys, NEW l \in Keys, NEW m \in Keys
  PROVE  /\ ~Precedes(k, k, r)
         /\ Precedes(k, l, r) /\ Precedes(l, m, r) => Precedes(k, m, r)
         /\ k = l \/ Precedes(k, l, r) \/ Precedes(l, k, r)
<1>1. /\ k[1] \in Nat /\ k[2] \in Nat /\ l[1] \in Nat /\ l[2] \in Nat /\ m[1] \in Nat /\ m[2] \in Nat
      /\ k[1] = l[1] /\ k[2] = l[2] => k = l
  BY DEF Keys
<1>2. QED
  BY <1>1 DEF Precedes, Less

(* The sets of n keys. *)
Sized(n) == {T \in SUBSET Keys : IsFiniteSet(T) /\ Cardinality(T) = n}

(* A set of n + 1 keys is one of n and another key. *)
LEMMA OneLess ==
  ASSUME NEW n \in Nat, NEW T \in Sized(n), NEW x \in T
  PROVE  n > 0 /\ n - 1 \in Nat /\ T \ {x} \in Sized(n - 1)
<1>1. Cardinality(T) = n /\ IsFiniteSet(T) /\ T # {}
  BY DEF Sized
<1>2. n # 0
  BY <1>1, FS_EmptySet
<1>3. IsFiniteSet(T \ {x}) /\ Cardinality(T \ {x}) = n - 1
  BY <1>1, FS_RemoveElement
<1>4. QED
  BY <1>2, <1>3 DEF Sized

(* A finite set of keys that is not empty has a last one. *)
LEMMA LastExists ==
  ASSUME NEW r \in BOOLEAN, NEW S \in SUBSET Keys, IsFiniteSet(S), S # {}
  PROVE  \E m \in S : LastIn(m, S, r)
<1> DEFINE Bad == {n \in Nat : \E T \in Sized(n) : T # {} /\ \A m \in T : ~LastIn(m, T, r)}
<1>1. ASSUME Bad # {} PROVE FALSE
  <2>1. PICK n \in Bad : \A o \in Bad : n <= o
    <3>1. Bad \subseteq Nat
      OBVIOUS
    <3>2. QED
      <4> HIDE DEF Bad
      <4> QED BY <1>1, <3>1, LeastExists
  <2>2. n \in Nat
    OBVIOUS
  <2>3. PICK T \in Sized(n) : T # {} /\ \A m \in T : ~LastIn(m, T, r)
    BY <2>1
  <2>4. PICK x \in T : TRUE
    BY <2>3
  <2>5. n - 1 \in Nat /\ T \ {x} \in Sized(n - 1)
    BY <2>2, OneLess
  <2>6. n - 1 \notin Bad
    BY <2>1, <2>2
  <2>7. T \in SUBSET Keys /\ x \in Keys
    BY DEF Sized
  <2>8. T # {x}
    BY <2>3 DEF LastIn
  <2>9. PICK m \in T \ {x} : LastIn(m, T \ {x}, r)
    BY <2>5, <2>6, <2>8
  <2>10. m \in Keys
    BY <2>7
  <2>11. CASE Precedes(x, m, r)
    BY <2>9, <2>11, <2>3 DEF LastIn
  <2>12. CASE Precedes(m, x, r)
    <3>1. ASSUME NEW k \in T \ {x} PROVE Precedes(k, x, r)
      BY <2>7, <2>9, <2>10, <2>12, PrecedesIsTotal DEF LastIn
    <3>2. QED
      BY <3>1, <2>3 DEF LastIn
  <2>13. QED
    BY <2>7, <2>9, <2>10, <2>11, <2>12, PrecedesIsTotal
<1>2. S \in Sized(Cardinality(S)) /\ Cardinality(S) \in Nat
  BY FS_CardinalityType DEF Sized
<1>3. Cardinality(S) \notin Bad
  BY <1>1
<1>4. QED
  BY <1>2, <1>3

(* A finite set of keys has a list in order. *)
LEMMA OrderExists ==
  ASSUME NEW r \in BOOLEAN, NEW S \in SUBSET Keys, IsFiniteSet(S)
  PROVE  \E s \in [1..Cardinality(S) -> S] : ToSet(s) = S /\ Orderly(s, r)
<1> DEFINE Bad == {n \in Nat : \E T \in Sized(n) : \A s \in [1..n -> T] : ~(ToSet(s) = T /\ Orderly(s, r))}
<1>1. ASSUME Bad # {} PROVE FALSE
  <2>1. PICK n \in Bad : \A o \in Bad : n <= o
    <3>1. Bad \subseteq Nat
      OBVIOUS
    <3>2. QED
      <4> HIDE DEF Bad
      <4> QED BY <1>1, <3>1, LeastExists
  <2>2. n \in Nat
    OBVIOUS
  <2>3. PICK T \in Sized(n) : \A s \in [1..n -> T] : ~(ToSet(s) = T /\ Orderly(s, r))
    BY <2>1
  <2>4. T \in SUBSET Keys /\ IsFiniteSet(T) /\ Cardinality(T) = n
    BY DEF Sized
  <2>5. CASE T = {}
    <3>1. n = 0
      BY <2>4, <2>5, FS_EmptySet
    <3>2. [i \in 1..n |-> 0] \in [1..n -> T]
      BY <3>1
    <3>3. ToSet([i \in 1..n |-> 0]) = T /\ Orderly([i \in 1..n |-> 0], r)
      BY <3>1, <2>5 DEF ToSet, Orderly
    <3>4. QED
      BY <2>3, <3>2, <3>3
  <2>6. CASE T # {}
    <3>1. PICK m \in T : LastIn(m, T, r)
      BY <2>4, <2>6, LastExists
    <3>2. n > 0 /\ n - 1 \in Nat /\ T \ {m} \in Sized(n - 1)
      BY <2>2, OneLess
    <3>3. n - 1 \notin Bad
      BY <2>1, <2>2
    <3>4. PICK s \in [1..(n - 1) -> T \ {m}] : ToSet(s) = T \ {m} /\ Orderly(s, r)
      BY <3>2, <3>3
    <3> DEFINE u == [i \in 1..n |-> IF i = n THEN m ELSE s[i]]
    <3>5. /\ \A i \in 1..n : i # n => i \in 1..(n - 1) /\ u[i] = s[i] /\ s[i] \in T \ {m}
          /\ n \in 1..n /\ u[n] = m /\ DOMAIN u = 1..n
          /\ \A i \in 1..(n - 1) : i \in 1..n /\ i # n /\ u[i] = s[i]
      BY <2>2, <3>2, <3>4
    <3>6. u \in [1..n -> T]
      BY <3>5
    <3>7. ToSet(u) = T
      <4> HIDE DEF u
      <4>1. ASSUME NEW k \in T PROVE \E i \in 1..n : u[i] = k
        <5>1. CASE k = m
          BY <5>1, <3>5
        <5>2. CASE k # m
          <6>1. PICK i \in 1..(n - 1) : s[i] = k
            BY <5>2, <3>4 DEF ToSet
          <6>2. QED
            BY <6>1, <3>5
        <5>3. QED
          BY <5>1, <5>2
      <4>2. QED
        BY <4>1, <3>5, <3>6 DEF ToSet
    <3>8. Orderly(u, r)
      <4> HIDE DEF u
      <4>1. SUFFICES ASSUME NEW i \in 1..n, NEW j \in 1..n, i < j PROVE Precedes(u[i], u[j], r)
        BY <3>5 DEF Orderly
      <4>2. i # n
        BY <4>1, <2>2
      <4>3. CASE j = n
        BY <4>2, <4>3, <3>1, <3>5 DEF LastIn
      <4>4. CASE j # n
        BY <4>1, <4>2, <4>4, <3>4, <3>5 DEF Orderly
      <4>5. QED
        BY <4>3, <4>4
    <3>9. QED
      BY <2>3, <3>6, <3>7, <3>8
  <2>7. QED
    BY <2>5, <2>6
<1>2. S \in Sized(Cardinality(S)) /\ Cardinality(S) \in Nat
  BY FS_CardinalityType DEF Sized
<1>3. Cardinality(S) \notin Bad
  BY <1>1
<1>4. QED
  BY <1>2, <1>3

(* A page is a list in order. *)
LEMMA PageInOrder ==
  ASSUME NEW r \in BOOLEAN, NEW S \in SUBSET Keys, IsFiniteSet(S)
  PROVE  /\ InOrderOf(S, r) \in Seq(S)
         /\ ToSet(InOrderOf(S, r)) = S
         /\ Orderly(InOrderOf(S, r), r)
<1>1. \E s \in [1..Cardinality(S) -> S] : ToSet(s) = S /\ Orderly(s, r)
  BY OrderExists
<1>2. /\ InOrderOf(S, r) \in [1..Cardinality(S) -> S]
      /\ ToSet(InOrderOf(S, r)) = S
      /\ Orderly(InOrderOf(S, r), r)
  BY <1>1 DEF InOrderOf, Orderly
<1>3. QED
  BY <1>2, FS_CardinalityType

(* The first keys of a list, at most limit of them. *)
FirstOf(S, r, limit) ==
  LET all == InOrderOf(S, r)
  IN  SubSeq(all, 1, IF Len(all) < limit THEN Len(all) ELSE limit)

(* A page has what is first in the list: all of it when it is shorter than the *)
(* limit, and otherwise everything up to its last key.                         *)
LEMMA PageFacts ==
  ASSUME NEW r \in BOOLEAN, NEW S \in SUBSET Keys, IsFiniteSet(S), NEW limit \in Nat, limit > 0,
         NEW page, page = FirstOf(S, r, limit)
  PROVE  /\ page \in Seq(S) /\ Orderly(page, r) /\ ToSet(page) \subseteq S
         /\ Len(page) = 0 \/ Len(page) < limit => ToSet(page) = S
         /\ ~(Len(page) = 0 \/ Len(page) < limit) =>
              /\ Last(page) \in S
              /\ \A k \in S : k \in ToSet(page) \/ Precedes(Last(page), k, r)
              /\ \A k \in ToSet(page) : k = Last(page) \/ Precedes(k, Last(page), r)
<1> DEFINE all == InOrderOf(S, r)
<1>1. all \in Seq(S) /\ ToSet(all) = S /\ Orderly(all, r)
  BY PageInOrder
<1>2. PICK n \in Nat : n = IF Len(all) < limit THEN Len(all) ELSE limit
  BY <1>1
<1>9. page = SubSeq(all, 1, n)
  BY <1>2 DEF FirstOf
<1> HIDE DEF all
<1>3. limit \in Nat /\ limit > 0 /\ Len(all) \in Nat /\ n \in Nat /\ n <= Len(all) /\ DOMAIN all = 1..Len(all)
  BY <1>1, <1>2
<1>10. Len(all) < limit => n = Len(all)
  BY <1>1, <1>2
<1>11. ~(Len(all) < limit) => n = limit
  BY <1>1, <1>2
<1>4. page \in Seq(S) /\ Len(page) = n /\ DOMAIN page = 1..n /\ \A i \in 1..n : page[i] = all[i]
  BY <1>1, <1>9, <1>3
<1>5. Orderly(page, r) /\ ToSet(page) \subseteq S
  <2>1. ASSUME NEW i \in 1..n PROVE i \in 1..Len(all)
    BY <1>3
  <2>2. QED
    BY <1>1, <1>3, <1>4, <2>1 DEF Orderly, ToSet
<1>6. ASSUME Len(page) = 0 \/ Len(page) < limit PROVE ToSet(page) = S
  <2>1. n = Len(all)
    <3>1. Len(page) = n
      BY <1>4
    <3>2. n = 0 \/ n < limit
      BY <3>1, <1>6
    <3>3. n < limit
      BY <3>2, <1>3
    <3>4. ~(n = limit)
      BY <3>3, <1>3
    <3>5. QED
      BY <3>4, <1>10, <1>11
  <2>2. QED
    BY <1>1, <1>3, <1>4, <2>1 DEF ToSet
<1>7. ASSUME ~(Len(page) = 0 \/ Len(page) < limit)
      PROVE  /\ Last(page) \in S
             /\ \A k \in S : k \in ToSet(page) \/ Precedes(Last(page), k, r)
             /\ \A k \in ToSet(page) : k = Last(page) \/ Precedes(k, Last(page), r)
  <2>0. Len(page) = n
    BY <1>4
  <2>5. n > 0 /\ n \in 1..n /\ n \in 1..Len(all)
    BY <2>0, <1>3, <1>7
  <2>6. Last(page) = page[n]
    BY <2>0 DEF Last
  <2>1. n > 0 /\ n \in 1..n /\ n \in 1..Len(all) /\ Last(page) = all[n]
    BY <2>5, <2>6, <1>4
  <2>2. ASSUME NEW k \in S PROVE k \in ToSet(page) \/ Precedes(Last(page), k, r)
    <3>1. PICK i \in 1..Len(all) : k = all[i]
      BY <1>1, <1>3 DEF ToSet
    <3>2. CASE i <= n
      <4>1. i \in 1..n
        BY <1>3, <3>2
      <4>2. QED
        BY <4>1, <3>1, <1>4 DEF ToSet
    <3>3. CASE ~(i <= n)
      <4>1. n < i
        BY <1>3, <3>3
      <4>2. QED
        BY <4>1, <3>1, <2>1, <1>1, <1>3 DEF Orderly
    <3>4. QED
      BY <3>2, <3>3
  <2>3. ASSUME NEW k \in ToSet(page) PROVE k = Last(page) \/ Precedes(k, Last(page), r)
    <3>1. PICK i \in 1..n : k = all[i]
      BY <1>4 DEF ToSet
    <3>2. i \in Nat /\ i >= 1 /\ i <= n
      BY <1>3
    <3>3. i \in 1..Len(all) /\ (i = n \/ i < n)
      BY <1>3, <3>2
    <3>4. QED
      BY <3>1, <3>3, <2>1, <1>1, <1>3 DEF Orderly
  <2>4. QED
    BY <2>1, <2>2, <2>3, <1>1
<1>8. QED
  BY <1>4, <1>5, <1>6, <1>7

(* Two lists in order, the second after the first, are one list in order. *)
LEMMA OrderlyJoin ==
  ASSUME NEW r \in BOOLEAN, NEW s \in Seq(Keys), NEW t \in Seq(Keys), Orderly(s, r), Orderly(t, r),
         \A k \in ToSet(s), l \in ToSet(t) : Precedes(k, l, r)
  PROVE  s \o t \in Seq(Keys) /\ Orderly(s \o t, r) /\ ToSet(s \o t) = ToSet(s) \cup ToSet(t)
<1> DEFINE u == s \o t
<1>1. /\ Len(s) \in Nat /\ Len(t) \in Nat /\ u \in Seq(Keys) /\ Len(u) = Len(s) + Len(t)
      /\ DOMAIN s = 1..Len(s) /\ DOMAIN t = 1..Len(t) /\ DOMAIN u = 1..(Len(s) + Len(t))
  OBVIOUS
<1>2. /\ \A i \in 1..Len(s) : u[i] = s[i]
      /\ \A i \in 1..Len(u) : i > Len(s) => u[i] = t[i - Len(s)] /\ i - Len(s) \in 1..Len(t)
      /\ \A i \in 1..Len(t) : u[i + Len(s)] = t[i] /\ i + Len(s) \in 1..Len(u)
  BY <1>1
<1> HIDE DEF u
<1>3. ToSet(u) = ToSet(s) \cup ToSet(t)
  <2>1. ASSUME NEW i \in 1..Len(u) PROVE u[i] \in ToSet(s) \cup ToSet(t)
    <3>1. CASE i > Len(s)
      BY <3>1, <1>1, <1>2 DEF ToSet
    <3>2. CASE ~(i > Len(s))
      <4>1. i \in 1..Len(s)
        BY <1>1, <3>2
      <4>2. QED
        BY <4>1, <1>1, <1>2 DEF ToSet
    <3>3. QED
      BY <3>1, <3>2
  <2>2. ASSUME NEW i \in 1..Len(s) PROVE s[i] \in ToSet(u)
    <3>1. i \in 1..Len(u)
      BY <1>1
    <3>2. QED
      BY <3>1, <1>1, <1>2 DEF ToSet
  <2>3. ASSUME NEW i \in 1..Len(t) PROVE t[i] \in ToSet(u)
    BY <1>1, <1>2 DEF ToSet
  <2>4. QED
    BY <2>1, <2>2, <2>3, <1>1 DEF ToSet
<1>4. Orderly(u, r)
  <2>1. SUFFICES ASSUME NEW i \in 1..Len(u), NEW j \in 1..Len(u), i < j PROVE Precedes(u[i], u[j], r)
    BY <1>1 DEF Orderly
  <2>2. CASE j <= Len(s)
    <3>1. i \in 1..Len(s) /\ j \in 1..Len(s)
      BY <1>1, <2>1, <2>2
    <3>2. QED
      BY <3>1, <2>1, <1>1, <1>2 DEF Orderly
  <2>3. CASE i > Len(s)
    <3>1. j > Len(s) /\ i - Len(s) < j - Len(s)
      BY <1>1, <2>1, <2>3
    <3>2. QED
      BY <3>1, <2>3, <1>1, <1>2 DEF Orderly
  <2>4. CASE i <= Len(s) /\ j > Len(s)
    <3>1. i \in 1..Len(s)
      BY <1>1, <2>4
    <3>2. u[i] \in ToSet(s) /\ u[j] \in ToSet(t)
      BY <3>1, <2>4, <1>1, <1>2 DEF ToSet
    <3>3. QED
      BY <3>2
  <2>5. QED
    BY <1>1, <2>2, <2>3, <2>4
<1>5. QED
  BY <1>1, <1>3, <1>4 DEF u

(* Where a cursor points: everything listed is at its place or before it, and it is *)
(* of the query that is read.                                                       *)
CursorInv ==
  /\ cursor = Start => listed = <<>>
  /\ cursor \notin {Start, Over} =>
       /\ cursor.where = query.where /\ cursor.reverse = query.reverse
       /\ source = "telegram" => cursor.since = query.since
       /\ LastIn(cursor.key, ToSet(listed), query.reverse)

(* The inductive invariant: the list is in order, the cursor is its end, and nothing *)
(* that stayed in place is before the cursor and not in the list.                    *)
PagesInv ==
  /\ PagesTypeOK
  /\ Orderly(listed, query.reverse)
  /\ kept \subseteq Selected(query)
  /\ CursorInv
  /\ NothingSkipped

(* Positions are keys, and an order is one of two. *)
LEMMA PageTypes ==
  /\ Positions \subseteq Keys
  /\ \A s, q : s \in {"cache", "telegram"} /\ q \in Listings(s) => q.reverse \in BOOLEAN /\ q.since \in Nat
  /\ \A s, q : s \in {"cache", "telegram"} /\ q \in Listings(s) => q.since \in {0} \cup Dates
  /\ Start # Over
  /\ \A k, q : At(k, q) \notin {Start, Over} /\ At(k, q).key = k
<1>6. {0} \cup Dates \subseteq Nat /\ Numbers \subseteq Nat
  BY PagesAssumption
<1>1. Positions \subseteq Keys
  BY <1>6 DEF Positions, Keys
<1>2. \A s, q : s \in {"cache", "telegram"} /\ q \in Listings(s) => q.reverse \in BOOLEAN /\ q.since \in {0} \cup Dates
  BY DEF Listings
<1>3. Start # Over
  BY DEF Start, Over
<1>4. \A k, q : At(k, q) \notin {Start, Over} /\ At(k, q).key = k
  <2>1. \A k, q : At(k, q).at = "key" /\ At(k, q).key = k
    BY DEF At
  <2>2. Start.at = "start" /\ Over.at = "end"
    BY DEF Start, Over
  <2>3. QED
    BY <2>1, <2>2
<1>5. \A s, q : s \in {"cache", "telegram"} /\ q \in Listings(s) => q.since \in Nat
  BY <1>2, <1>6
<1>7. QED
  BY <1>1, <1>2, <1>3, <1>4, <1>5

(* A function on a finite set has finitely many values. *)
LEMMA FiniteImage ==
  ASSUME NEW S, IsFiniteSet(S), NEW f, f = [n \in S |-> f[n]]
  PROVE  IsFiniteSet({f[n] : n \in S})
<1> DEFINE T == {f[n] : n \in S}
<1>1. f \in [S -> T]
  OBVIOUS
<1>2. f \in Surjection(S, T)
  BY <1>1 DEF Surjection
<1>3. QED
  BY <1>2, FS_Surjection

(* What a query selects is finite, and has positions of the list only. *)
LEMMA SelectedTypes ==
  ASSUME table \in [Numbers -> Rows], posts \in [Wheres -> SUBSET Numbers], NEW q, source = "cache" \/ q.where \in Wheres
  PROVE  Selected(q) \subseteq Positions /\ IsFiniteSet(Selected(q))
<1>1. CASE source = "cache"
  <2> DEFINE f == [n \in Numbers |-> <<table[n].date, n>>]
  <2>1. Selected(q) \subseteq {f[n] : n \in Numbers}
    BY <1>1 DEF Selected
  <2>2. \A n \in Numbers : f[n] \in Positions
    BY DEF Positions, Rows, Absent
  <2>3. IsFiniteSet({f[n] : n \in Numbers})
    <3>1. f = [n \in Numbers |-> f[n]]
      OBVIOUS
    <3> HIDE DEF f
    <3> QED BY <3>1, FiniteImage, PagesAssumption
  <2>4. QED
    BY <2>1, <2>2, <2>3, FS_Subset
<1>2. CASE source # "cache"
  <2> DEFINE f == [n \in Numbers |-> <<0, n>>]
  <2>1. Selected(q) \subseteq {f[n] : n \in Numbers}
    BY <1>2 DEF Selected
  <2>2. \A n \in Numbers : f[n] \in Positions
    BY DEF Positions
  <2>3. IsFiniteSet({f[n] : n \in Numbers})
    <3>1. f = [n \in Numbers |-> f[n]]
      OBVIOUS
    <3> HIDE DEF f
    <3> QED BY <3>1, FiniteImage, PagesAssumption
  <2>4. QED
    BY <2>1, <2>2, <2>3, FS_Subset
<1>3. QED
  BY <1>1, <1>2

(* The invariant holds when the list is asked for. *)
LEMMA PagesStart == PagesInit => PagesInv
<1> SUFFICES ASSUME PagesInit PROVE PagesInv
  OBVIOUS
<1>1. source = "cache" \/ query.where \in Wheres
  BY DEF PagesInit, Listings
<1>2. kept \subseteq Positions
  BY <1>1, SelectedTypes DEF PagesInit
<1>3. PagesTypeOK
  BY <1>2, PagesAssumption DEF PagesInit, PagesTypeOK
<1>4. Orderly(listed, query.reverse)
  BY DEF PagesInit, Orderly
<1>5. QED
  BY <1>3, <1>4 DEF PagesInit, PagesInv, CursorInv, NothingSkipped

(* A page that has what comes next in the list advances the cursor over it. *)
LEMMA Advances ==
  ASSUME PagesInv, NEW q, q.where = query.where, q.reverse = query.reverse,
         source = "telegram" => q.since = query.since,
         q \in Listings(source),
         NEW S \in SUBSET Positions, IsFiniteSet(S), NEW limit \in Nat, limit > 0,
         cursor # Over,
         cursor # Start => \A k \in S : Precedes(cursor.key, k, query.reverse),
         NEW page, page = FirstOf(S, query.reverse, limit),
         NEW part \in Seq(Positions), Orderly(part, query.reverse), ToSet(part) \subseteq ToSet(page),
         listed' = listed \o part,
         cursor' = IF Len(page) = 0 \/ Len(page) < limit THEN Over ELSE At(Last(page), q),
         kept' \subseteq kept,
         \A k \in kept' : k \in S \/ k \in ToSet(listed),
         \A k \in kept' \cap ToSet(page) : k \in ToSet(part),
         kept' \subseteq Selected(query),
         UNCHANGED <<table, posts, source, query, edits>>
  PROVE  PagesInv'
<1> DEFINE r == query.reverse
           ends == Len(page) = 0 \/ Len(page) < limit
<1>1. /\ r \in BOOLEAN /\ Positions \subseteq Keys /\ S \in SUBSET Keys /\ kept \subseteq Positions
      /\ listed \in Seq(Positions) /\ Orderly(listed, r) /\ listed \in Seq(Keys) /\ part \in Seq(Keys)
  <2>1. r \in BOOLEAN /\ Positions \subseteq Keys
    BY PageTypes DEF PagesInv, PagesTypeOK
  <2>2. listed \in Seq(Positions) /\ Orderly(listed, r) /\ kept \subseteq Positions
    BY DEF PagesInv, PagesTypeOK
  <2>3. listed \in Seq(Keys) /\ part \in Seq(Keys)
    BY <2>1, <2>2
  <2>4. QED
    BY <2>1, <2>2, <2>3
<1>2. /\ page \in Seq(S) /\ Orderly(page, r) /\ ToSet(page) \subseteq S
      /\ ends => ToSet(page) = S
      /\ ~ends => /\ Last(page) \in S
                  /\ \A k \in S : k \in ToSet(page) \/ Precedes(Last(page), k, r)
                  /\ \A k \in ToSet(page) : k = Last(page) \/ Precedes(k, Last(page), r)
  BY <1>1, PageFacts
<1>3. cursor # Start => /\ cursor.where = query.where /\ cursor.reverse = query.reverse
                        /\ cursor.key \in Keys /\ LastIn(cursor.key, ToSet(listed), r)
  BY <1>1 DEF PagesInv, CursorInv, PagesTypeOK
<1>4. ToSet(listed) \subseteq Keys
  BY <1>1 DEF ToSet
<1>5. ASSUME NEW k \in ToSet(listed), NEW l \in S PROVE Precedes(k, l, r)
  <2>1. cursor # Start
    BY DEF PagesInv, CursorInv, ToSet
  <2>2. k \in Keys /\ l \in Keys /\ Precedes(cursor.key, l, r) /\ cursor.key \in Keys
    BY <1>1, <1>3, <1>4, <2>1
  <2>3. k = cursor.key \/ Precedes(k, cursor.key, r)
    BY <1>3, <2>1 DEF LastIn
  <2>4. QED
    BY <1>1, <2>2, <2>3, PrecedesIsTotal
<1>6. /\ listed' \in Seq(Keys) /\ Orderly(listed', r) /\ ToSet(listed') = ToSet(listed) \cup ToSet(part)
      /\ listed' \in Seq(Positions)
  <2>1. \A k \in ToSet(listed), l \in ToSet(part) : Precedes(k, l, r)
    BY <1>2, <1>5
  <2>2. listed' \in Seq(Positions)
    BY <1>1
  <2>3. QED
    BY <1>1, <2>1, <2>2, OrderlyJoin
<1>7. /\ cursor' # Start
      /\ cursor' = Over <=> ends
      /\ ~ends => /\ cursor' = At(Last(page), q) /\ cursor'.key = Last(page)
                  /\ cursor'.where = query.where /\ cursor'.reverse = r
                  /\ source = "telegram" => cursor'.since = query.since
  <2>1. cursor' # Start /\ (cursor' = Over <=> ends) /\ (~ends => cursor' = At(Last(page), q) /\ cursor'.key = Last(page))
    BY PageTypes
  <2>2. At(Last(page), q).where = q.where /\ At(Last(page), q).reverse = q.reverse
        /\ (source = "telegram" => At(Last(page), q).since = q.since)
    BY DEF At
  <2>3. QED
    BY <2>1, <2>2
<1> HIDE DEF ends
<1>8. CursorInv'
  <2>1. ASSUME ~ends PROVE LastIn(Last(page), ToSet(listed'), r)
    <3>1. SUFFICES ASSUME NEW k \in ToSet(listed) \cup ToSet(page) PROVE k = Last(page) \/ Precedes(k, Last(page), r)
      BY <1>6 DEF LastIn
    <3>2. QED
      BY <1>2, <1>5, <2>1
  <2>2. QED
    BY <1>7, <2>1 DEF CursorInv
<1>9. NothingSkipped'
  <2>1. SUFFICES ASSUME NEW k \in kept' PROVE \/ cursor' # Over /\ Precedes(cursor'.key, k, r)
                                              \/ k \in ToSet(listed')
    BY DEF NothingSkipped
  <2>2. CASE k \in ToSet(listed)
    BY <2>2, <1>6
  <2>3. CASE k \in ToSet(page)
    BY <2>3, <1>6
  <2>4. CASE k \in S /\ k \notin ToSet(page)
    BY <2>4, <1>2, <1>7
  <2>5. QED
    BY <2>2, <2>3, <2>4
<1>10. PagesTypeOK'
  <2>1. cursor' \in {Start, Over} \cup [at : {"key"}, key : Positions, where : Wheres, reverse : BOOLEAN, since : {0} \cup Dates]
    <3>1. CASE ends
      BY <3>1, <1>7
    <3>2. CASE ~ends
      <4>1. Last(page) \in Positions
        BY <1>2, <3>2
      <4>2. q.where \in Wheres /\ q.reverse \in BOOLEAN /\ q.since \in {0} \cup Dates
        <5>1. source \in {"cache", "telegram"} /\ q.where \in (IF source = "cache" THEN {CHOOSE w \in Wheres : TRUE} ELSE Wheres)
          BY DEF Listings, PagesInv, PagesTypeOK
        <5>2. (CHOOSE w \in Wheres : TRUE) \in Wheres
          BY PagesAssumption
        <5>3. q.where \in Wheres
          BY <5>1, <5>2
        <5>4. QED
          BY <5>1, <5>3, PageTypes
      <4>3. At(Last(page), q) \in [at : {"key"}, key : Positions, where : Wheres, reverse : BOOLEAN, since : {0} \cup Dates]
        BY <4>1, <4>2 DEF At
      <4>4. QED
        BY <3>2, <1>7, <4>3
    <3>3. QED
      BY <3>1, <3>2
  <2>2. QED
    BY <2>1, <1>1, <1>6 DEF PagesInv, PagesTypeOK
<1>11. QED
  BY <1>6, <1>8, <1>9, <1>10 DEF PagesInv, Selected

(* A page continues the query of its cursor. *)
LEMMA SameQuery ==
  ASSUME PagesInv, cursor # Over, NEW q \in (IF cursor = Start THEN {query} ELSE Listings(source)), Matches(q)
  PROVE  /\ q \in Listings(source) /\ q.where = query.where /\ q.reverse = query.reverse
         /\ source = "telegram" => q.since = query.since
  BY DEF PagesInv, PagesTypeOK, CursorInv, Matches

(* What lies beyond a cursor. *)
LEMMA BeyondCursor ==
  ASSUME PagesInv, cursor # Over, NEW K \in SUBSET Positions, IsFiniteSet(K)
  PROVE  /\ Beyond(K, query.reverse) \in SUBSET Positions /\ IsFiniteSet(Beyond(K, query.reverse))
         /\ cursor # Start => \A k \in Beyond(K, query.reverse) : Precedes(cursor.key, k, query.reverse)
         /\ \A k \in kept \cap K : k \in Beyond(K, query.reverse) \/ k \in ToSet(listed)
<1>1. Beyond(K, query.reverse) \subseteq K
  BY DEF Beyond
<1>2. IsFiniteSet(Beyond(K, query.reverse))
  BY <1>1, FS_Subset
<1>3. QED
  BY <1>1, <1>2 DEF Beyond, PagesInv, NothingSkipped

(* A page from the cache preserves the inductive invariant, ... *)
LEMMA ReadCacheKeeps ==
  ASSUME PagesInv, source = "cache", cursor # Over, NEW limit \in Limits,
         NEW q \in (IF cursor = Start THEN {query} ELSE Listings(source)), Matches(q),
         ReadCache(q, limit), kept' = kept \cap Selected(q),
         UNCHANGED <<table, posts, source, query, edits>>
  PROVE  PagesInv'
<1> DEFINE K == Selected(q)
           S == Beyond(K, query.reverse)
           page == FirstOf(S, query.reverse, limit)
<1>1. /\ q \in Listings(source) /\ q.where = query.where /\ q.reverse = query.reverse
      /\ source = "telegram" => q.since = query.since
  BY SameQuery
<1>2. K \in SUBSET Positions /\ IsFiniteSet(K)
  <2>1. table \in [Numbers -> Rows] /\ posts \in [Wheres -> SUBSET Numbers]
    BY DEF PagesInv, PagesTypeOK
  <2>2. QED
    BY <2>1, SelectedTypes
<1>3. limit \in Nat /\ limit > 0
  BY PagesAssumption
<1>4. query.reverse \in BOOLEAN
  BY PageTypes DEF PagesInv, PagesTypeOK
<1>5. /\ listed' = listed \o page
      /\ cursor' = IF Len(page) = 0 \/ Len(page) < limit THEN Over ELSE At(Last(page), q)
  BY <1>1 DEF ReadCache, FirstOf, CacheNext
<1> HIDE DEF K
<1>6. /\ S \in SUBSET Positions /\ IsFiniteSet(S)
      /\ cursor # Start => \A k \in S : Precedes(cursor.key, k, query.reverse)
      /\ \A k \in kept \cap K : k \in S \/ k \in ToSet(listed)
  BY <1>2, BeyondCursor
<1> HIDE DEF S
<1>7. page \in Seq(S) /\ Orderly(page, query.reverse)
  <2>1. S \in SUBSET Keys
    BY <1>6, PageTypes
  <2>2. QED
    BY <2>1, <1>3, <1>4, <1>6, PageFacts
<1>8. page \in Seq(Positions)
  BY <1>6, <1>7
<1>9. kept' \subseteq kept /\ kept' \subseteq K /\ kept' \subseteq Selected(query)
  BY DEF K, PagesInv
<1>10. \A k \in kept' : k \in S \/ k \in ToSet(listed)
  BY <1>6, <1>9
<1>11. page = FirstOf(S, query.reverse, limit)
  OBVIOUS
<1> HIDE DEF page
<1>12. QED
  BY <1>1, <1>3, <1>5, <1>6, <1>7, <1>8, <1>9, <1>10, <1>11, Advances

(* ... and so does one from Telegram, of which the rows before the bound are left out. *)
LEMMA ReadRemoteKeeps ==
  ASSUME PagesInv, source = "telegram", cursor # Over, NEW limit \in Limits,
         NEW q \in (IF cursor = Start THEN {query} ELSE Listings(source)), Matches(q),
         ReadRemote(q, limit), kept' = kept \cap Selected(query),
         UNCHANGED <<table, posts, source, query, edits>>
  PROVE  PagesInv'
<1> DEFINE K == {<<0, n>> : n \in posts[q.where]}
           S == Beyond(K, query.reverse)
           page == FirstOf(S, query.reverse, limit)
           N == {k \in ToSet(page) : k[2] >= q.since}
           part == InOrderOf(N, query.reverse)
<1>1. q \in Listings(source) /\ q.where = query.where /\ q.reverse = query.reverse /\ q.since = query.since
  BY SameQuery
<1>2. query.reverse = FALSE /\ q.where \in Wheres
  BY <1>1 DEF Listings, PagesInv, PagesTypeOK
<1>3. K \in SUBSET Positions /\ IsFiniteSet(K)
  <2>1. posts[q.where] \in SUBSET Numbers /\ IsFiniteSet(posts[q.where])
    BY <1>2, FS_Subset, PagesAssumption DEF PagesInv, PagesTypeOK
  <2> DEFINE f == [n \in posts[q.where] |-> <<0, n>>]
  <2>2. K = {f[n] : n \in posts[q.where]} /\ f = [n \in posts[q.where] |-> f[n]]
    OBVIOUS
  <2>3. K \subseteq Positions
    BY <2>1 DEF Positions
  <2> HIDE DEF f, K
  <2>4. QED
    BY <2>1, <2>2, <2>3, FiniteImage
<1>4. limit \in Nat /\ limit > 0
  BY PagesAssumption
<1>5. /\ listed' = listed \o part
      /\ cursor' = IF Len(page) = 0 \/ Len(page) < limit THEN Over ELSE At(Last(page), q)
  <2>1. Answer(q, limit) = page
    BY <1>2 DEF Answer, FirstOf
  <2> HIDE DEF page
  <2>2. QED
    BY <1>2, <2>1 DEF ReadRemote, RemoteNext
<1>6. /\ S \in SUBSET Positions /\ IsFiniteSet(S)
      /\ cursor # Start => \A k \in S : Precedes(cursor.key, k, query.reverse)
      /\ \A k \in kept \cap K : k \in S \/ k \in ToSet(listed)
  <2> HIDE DEF K
  <2> QED BY <1>3, BeyondCursor
<1>7. ASSUME NEW k \in kept' PROVE k \in kept \cap K /\ k[2] >= q.since
  BY <1>1 DEF Selected, PagesInv
<1> HIDE DEF K, S
<1>8. ToSet(page) \subseteq S
  <2>1. S \in SUBSET Keys /\ query.reverse \in BOOLEAN
    BY <1>2, <1>6, PageTypes
  <2>2. QED
    BY <2>1, <1>4, <1>6, PageFacts
<1> HIDE DEF page
<1>9. N \in SUBSET Keys /\ IsFiniteSet(N) /\ N \subseteq Positions
  <2>1. N \subseteq S
    BY <1>8
  <2>2. QED
    BY <2>1, <1>6, FS_Subset, PageTypes
<1>10. part \in Seq(N) /\ ToSet(part) = N /\ Orderly(part, query.reverse)
  <2>1. query.reverse \in BOOLEAN
    BY <1>2
  <2> HIDE DEF N
  <2>2. QED
    BY <2>1, <1>9, PageInOrder
<1>11. part \in Seq(Positions)
  <2> HIDE DEF part, N
  <2> QED BY <1>9, <1>10
<1>12. ToSet(part) \subseteq ToSet(page) /\ \A k \in kept' \cap ToSet(page) : k \in ToSet(part)
  BY <1>7, <1>10
<1>13. kept' \subseteq kept /\ kept' \subseteq Selected(query) /\ \A k \in kept' : k \in S \/ k \in ToSet(listed)
  BY <1>6, <1>7
<1>14. page = FirstOf(S, query.reverse, limit)
  BY DEF page
<1> HIDE DEF part, N
<1>15. QED
  BY <1>1, <1>4, <1>5, <1>6, <1>10, <1>11, <1>12, <1>13, <1>14, Advances

(* What changes between two pages preserves the inductive invariant: it moves messages, *)
(* and those it moves no longer count as kept.                                          *)
LEMMA ChangeKeeps == ASSUME PagesInv, ChangeRow \/ ChangePosts PROVE PagesInv'
<1>1. kept' \subseteq kept /\ UNCHANGED <<source, query, cursor, listed>> /\ edits' \in 0..MaxEdits
  BY PagesAssumption DEF ChangeRow, ChangePosts, PagesInv, PagesTypeOK
<1>2. CASE ChangeRow
  <2>1. table' \in [Numbers -> Rows] /\ posts' = posts /\ source = "cache"
    <3>1. PICK n \in Numbers :
             \/ \E d \in Dates : table' = [table EXCEPT ![n] = [date |-> d, dead |-> table[n].dead]]
             \/ table[n] # Absent /\ table' = [table EXCEPT ![n].dead = TRUE]
      BY <1>2 DEF ChangeRow
    <3>2. table \in [Numbers -> Rows] /\ table[n] \in Rows
      BY DEF PagesInv, PagesTypeOK
    <3>3. table[n].dead \in BOOLEAN
      <4>1. CASE table[n] = Absent
        BY <4>1 DEF Absent
      <4>2. CASE table[n] \in [date : Dates, dead : BOOLEAN]
        BY <4>2
      <4>3. QED
        BY <3>2, <4>1, <4>2 DEF Rows
    <3>4. CASE \E d \in Dates : table' = [table EXCEPT ![n] = [date |-> d, dead |-> table[n].dead]]
      <4>1. PICK d \in Dates : table' = [table EXCEPT ![n] = [date |-> d, dead |-> table[n].dead]]
        BY <3>4
      <4>2. [date |-> d, dead |-> table[n].dead] \in Rows
        BY <3>3 DEF Rows
      <4>3. table' \in [Numbers -> Rows]
        BY <3>2, <4>1, <4>2
      <4>4. QED
        BY <1>2, <4>3 DEF ChangeRow
    <3>5. CASE table[n] # Absent /\ table' = [table EXCEPT ![n].dead = TRUE]
      <4>1. table[n] \in [date : Dates, dead : BOOLEAN]
        BY <3>2, <3>5 DEF Rows
      <4>2. [table[n] EXCEPT !.dead = TRUE] \in Rows
        BY <4>1 DEF Rows
      <4>3. table' = [table EXCEPT ![n] = [table[n] EXCEPT !.dead = TRUE]]
        BY <3>5
      <4>4. table' \in [Numbers -> Rows]
        BY <3>2, <4>2, <4>3
      <4>5. QED
        BY <1>2, <4>4 DEF ChangeRow
    <3>6. QED
      BY <1>2, <3>1, <3>4, <3>5 DEF ChangeRow
  <2>2. kept' \subseteq Selected(query)'
    <3>1. SUFFICES ASSUME NEW k \in kept' PROVE k \in Selected(query)'
      OBVIOUS
    <3>2. k \in Selected(query) /\ table'[k[2]] = table[k[2]]
      BY <1>2 DEF ChangeRow, PagesInv
    <3>3. PICK n \in Numbers : /\ k = <<table[n].date, n>> /\ table[n] # Absent /\ table[n].date >= query.since
                               /\ query.dead \/ ~table[n].dead
      BY <2>1, <3>2 DEF Selected
    <3>4. table'[n] = table[n]
      BY <3>2, <3>3
    <3>5. QED
      BY <1>1, <2>1, <3>3, <3>4 DEF Selected
  <2>3. QED
    BY <1>1, <2>1, <2>2 DEF PagesInv, PagesTypeOK, CursorInv, NothingSkipped
<1>3. CASE ChangePosts
  <2>1. posts' \in [Wheres -> SUBSET Numbers] /\ table' = table /\ source = "telegram"
    BY <1>3 DEF ChangePosts, PagesInv, PagesTypeOK
  <2>2. kept' \subseteq Selected(query)'
    BY <1>1, <1>3, <2>1 DEF ChangePosts, PagesInv, Selected
  <2>3. QED
    BY <1>1, <2>1, <2>2 DEF PagesInv, PagesTypeOK, CursorInv, NothingSkipped
<1>4. QED
  BY <1>2, <1>3

(* Every step preserves the inductive invariant. *)
LEMMA PagesKept == PagesInv /\ [PagesNext]_pageVars => PagesInv'
<1> SUFFICES ASSUME PagesInv, [PagesNext]_pageVars PROVE PagesInv'
  OBVIOUS
<1>1. CASE ReadPage
  <2>1. PICK q \in (IF cursor = Start THEN {query} ELSE Listings(source)), limit \in Limits :
          /\ Matches(q)
          /\ IF source = "cache" THEN ReadCache(q, limit) ELSE ReadRemote(q, limit)
          /\ kept' = kept \cap (IF source = "cache" THEN Selected(q) ELSE Selected(query))
    BY <1>1 DEF ReadPage
  <2>2. cursor # Over /\ UNCHANGED <<table, posts, source, query, edits>> /\ source \in {"cache", "telegram"}
    BY <1>1 DEF ReadPage, PagesInv, PagesTypeOK
  <2>3. CASE source = "cache"
    BY <2>1, <2>2, <2>3, ReadCacheKeeps
  <2>4. CASE source = "telegram"
    BY <2>1, <2>2, <2>4, ReadRemoteKeeps
  <2>5. QED
    BY <2>2, <2>3, <2>4
<1>2. CASE ChangeRow \/ ChangePosts
  BY <1>2, ChangeKeeps
<1>3. CASE UNCHANGED pageVars
  BY <1>3 DEF pageVars, PagesInv, PagesTypeOK, CursorInv, NothingSkipped, Selected
<1>4. QED
  BY <1>1, <1>2, <1>3 DEF PagesNext

(* The pages of a list, one command each, are one list: in the order asked for, *)
(* without a message twice, and complete for the messages that did not move.    *)
THEOREM PagesAreComplete == PagesSpec => []PagesComplete
<1>1. PagesInv => PagesComplete
  <2>1. SUFFICES ASSUME PagesInv PROVE ListedInOrder
    BY DEF PagesInv, PagesComplete
  <2>2. listed \in Seq(Positions)
    BY <2>1 DEF PagesInv, PagesTypeOK
  <2>3. ASSUME NEW i \in 1..Len(listed) - 1 PROVE i \in DOMAIN listed /\ i + 1 \in DOMAIN listed /\ i < i + 1
    BY <2>2
  <2>4. QED
    BY <2>1, <2>3 DEF ListedInOrder, Orderly, PagesInv
<1>2. QED
  BY PagesStart, PagesKept, <1>1, PTL DEF PagesSpec

-----------------------------------------------------------------------------
(* Moderation.                                                               *)

(* How far a command is tells how many mutations it has made, and what it read   *)
(* still holds unless the other administrator has acted since.                   *)
ModerationInv ==
  /\ ModerationHonest
  /\ line \in {"start", "read", "write", "again", "end"}
  /\ line # "start" => job \in Jobs
  /\ line \in {"start", "read", "write"} => made = 0
  /\ line = "again" => job.op = "kick" /\ made = 1
  /\ made \in Nat
  /\ job.op \in {"restrict", "allow"} /\ line = "write" /\ ~meddled => rights = default
  /\ job.op = "kick" /\ line = "write" /\ ~meddled => ~Restricted
  /\ job.op = "delete" /\ line = "write" => \A i \in job.ids : message[i] \in {Here, Deleted}

(* The jobs a command may be given. *)
LEMMA JobValues ==
  /\ \A j \in Jobs : /\ j.op \in {"restrict", "allow", "ban", "kick", "unban", "promote", "demote", "delete"}
                     /\ j.ids \subseteq MessageIds
  /\ NoJob.op = "none"
  BY DEF Jobs, NoJob

(* What Telegram makes of a mutation keeps the types, and counts once. *)
LEMMA AppliedTypes ==
  ASSUME ModerationInv, Applied
  PROVE  /\ default' \subseteq ChatLimits /\ member' \in Statuses /\ made' = made + 1
         /\ \A i \in MessageIds : message'[i] \in {Here, Other, Deleted}
<1>1. default' \subseteq ChatLimits
  BY DEF Applied, ModerationInv, ModerationHonest, ModerationTypeOK, Patch, Patched, ChatLimits
<1>2. member' \in Statuses
  BY DEF Applied, ModerationInv, ModerationHonest, ModerationTypeOK, Statuses, Banned, Unbanned
<1>3. \A i \in MessageIds : message'[i] \in {Here, Other, Deleted}
  BY DEF Applied, ModerationInv, ModerationHonest, ModerationTypeOK
<1>4. QED
  BY <1>1, <1>2, <1>3 DEF Applied

(* The inductive invariant holds at the start. *)
LEMMA ModerationStart == ModerationInit => ModerationInv
<1> SUFFICES ASSUME ModerationInit PROVE ModerationInv
  OBVIOUS
<1>1. ModerationTypeOK
  <2>1. /\ default \subseteq ChatLimits /\ member \in Statuses /\ rights \subseteq ChatLimits
        /\ \A i \in MessageIds : message[i] \in {Here, Other, Deleted}
    BY DEF ModerationInit
  <2>2. /\ job \in Jobs \cup {NoJob} /\ meddled \in BOOLEAN
        /\ (ending # "none" <=> line = "end")
        /\ made <= IF job.op = "kick" THEN 2 ELSE 1
    <3>1. job \in Jobs \cup {NoJob} /\ (ending # "none" <=> line = "end")
      BY DEF ModerationInit
    <3>2. meddled \in BOOLEAN
      BY DEF ModerationInit
    <3>3. made <= IF job.op = "kick" THEN 2 ELSE 1
      BY JobValues DEF ModerationInit
    <3>4. QED
      BY <3>1, <3>2, <3>3
  <2>3. QED
    BY <2>1, <2>2 DEF ModerationTypeOK
<1>2. QED
  BY <1>1, JobValues DEF ModerationInit, ModerationInv, ModerationHonest, VerdictHonest

(* Every step preserves the inductive invariant. *)
LEMMA ModerationKept == ModerationInv /\ [ModerationNext]_modVars => ModerationInv'
<1> SUFFICES ASSUME ModerationInv, [ModerationNext]_modVars PROVE ModerationInv'
  OBVIOUS
<1> USE JobValues DEF ModerationInv, ModerationHonest, ModerationTypeOK, VerdictHonest
<1>1. CASE Begin
  <2>1. PICK j \in Jobs : /\ job' = j
                          /\ line' = IF j.op \in {"restrict", "allow", "kick", "delete"} THEN "read" ELSE "write"
    BY <1>1 DEF Begin
  <2>2. /\ rights' = {} /\ ending' = "none" /\ meddled' = FALSE /\ made' = 0
        /\ UNCHANGED <<default, member, message, acts>>
    BY <1>1 DEF Begin
  <2>3. /\ job'.op # "none" /\ line' \in {"read", "write"} /\ job' \in Jobs
        /\ job'.op \in {"restrict", "allow", "kick", "delete"} => line' = "read"
    BY <2>1
  <2>4. ModerationTypeOK'
    <3>1. meddled' \in BOOLEAN
      BY <2>2
    <3>2. made' <= (IF job'.op = "kick" THEN 2 ELSE 1)
      BY <2>2
    <3>3. /\ default' \subseteq ChatLimits /\ member' \in Statuses /\ rights' \subseteq ChatLimits
          /\ \A i \in MessageIds : message'[i] \in {Here, Other, Deleted}
      BY <2>2
    <3>4. job' \in Jobs \cup {NoJob} /\ (ending' # "none" <=> line' = "end")
      BY <2>2, <2>3
    <3>5. QED
      BY <3>1, <3>2, <3>3, <3>4 DEF ModerationTypeOK
  <2>5. QED
    BY <2>2, <2>3, <2>4
<1>2. CASE ReadRights
  BY <1>2 DEF ReadRights
<1>3. CASE ReadMember
  BY <1>3 DEF ReadMember, Conclude, Restricted
<1>4. CASE ReadMessages
  BY <1>4 DEF ReadMessages, Conclude, Verified
<1>5. CASE NotRead
  BY <1>5 DEF NotRead, Conclude, Restricted
<1>6. CASE Answered
  <2>1. /\ default' \subseteq ChatLimits /\ member' \in Statuses /\ made' = made + 1
        /\ \A i \in MessageIds : message'[i] \in {Here, Other, Deleted}
    BY <1>6, AppliedTypes DEF Answered
  <2>2. QED
    BY <1>6, <2>1 DEF Answered, Conclude
<1>7. CASE Refused
  BY <1>7 DEF Refused, Untouched, Conclude, Failure
<1>8. CASE Lost
  <2>1. /\ default' \subseteq ChatLimits /\ member' \in Statuses /\ made' \in {made, made + 1}
        /\ \A i \in MessageIds : message'[i] \in {Here, Other, Deleted}
    BY <1>8, AppliedTypes DEF Lost, Untouched
  <2>2. QED
    BY <1>8, <2>1 DEF Lost, Conclude, Failure
<1>9. CASE OtherAdministrator
  <2>1. /\ default' \subseteq ChatLimits /\ member' \in Statuses
        /\ \A i \in MessageIds : message'[i] \in {message[i], Deleted}
    <3>1. CASE default' \in SUBSET ChatLimits /\ UNCHANGED <<member, message>>
      BY <3>1
    <3>2. CASE member' \in Statuses /\ UNCHANGED <<default, message>>
      BY <3>2
    <3>3. ASSUME NEW j \in MessageIds, message' = [message EXCEPT ![j] = Deleted],
                 UNCHANGED <<default, member>>
          PROVE  \A i \in MessageIds : message'[i] \in {message[i], Deleted}
      BY <3>3
    <3>4. QED
      BY <1>9, <3>1, <3>2, <3>3 DEF OtherAdministrator
  <2>2. /\ meddled' = TRUE /\ UNCHANGED <<job, line, rights, ending, made>>
    BY <1>9 DEF OtherAdministrator
  <2>3. QED
    BY <2>1, <2>2
<1>10. CASE UNCHANGED modVars
  BY <1>10 DEF modVars, Restricted
<1>11. QED
  BY <1>1, <1>2, <1>3, <1>4, <1>5, <1>6, <1>7, <1>8, <1>9, <1>10 DEF ModerationNext, ModerationStep

(* Whatever a moderation command reports is true of what it did to the chat. *)
THEOREM ModerationIsHonest == ModerationSpec => []ModerationHonest
<1>1. ModerationInv => ModerationHonest
  BY DEF ModerationInv
<1>2. QED
  BY <1>1, ModerationStart, ModerationKept, PTL DEF ModerationSpec

(* A mutation is one that Telegram applies, for a command at work. *)
LEMMA MutationStep ==
  ASSUME ModerationInv, [ModerationNext]_modVars, made' > made
  PROVE  Applied /\ UNCHANGED job /\ (line = "write" \/ (line = "again" /\ job.op = "kick"))
<1> USE DEF ModerationInv
<1>1. ~Begin /\ ~ReadRights /\ ~ReadMember /\ ~ReadMessages /\ ~NotRead /\ ~Refused
      /\ ~OtherAdministrator /\ ~UNCHANGED modVars
  BY DEF Begin, ReadRights, ReadMember, ReadMessages, NotRead, Refused, Untouched,
    OtherAdministrator, modVars
<1>2. Answered \/ Lost
  BY <1>1 DEF ModerationNext, ModerationStep
<1>3. ~Untouched
  BY DEF Untouched
<1>4. Applied /\ line \in {"write", "again"} /\ UNCHANGED job
  BY <1>2, <1>3 DEF Answered, Lost
<1>5. QED
  BY <1>4

(* set-permissions replaces the restrictions it names and no other, unless somebody  *)
(* changed one between its read and its write.                                       *)
THEOREM UnrelatedAreKept == ModerationSpec => UnrelatedKept
<1>1. ModerationInv /\ [ModerationNext]_modVars =>
        (job.op \in {"restrict", "allow"} /\ made' > made /\ ~meddled
          => default' \ Patched = default \ Patched)
  <2> SUFFICES ASSUME ModerationInv, [ModerationNext]_modVars,
                      job.op \in {"restrict", "allow"}, made' > made, ~meddled
               PROVE  default' \ Patched = default \ Patched
    OBVIOUS
  <2>1. Applied /\ line = "write"
    BY MutationStep
  <2>2. default' = Patch /\ rights = default
    BY <2>1 DEF Applied, ModerationInv
  <2>3. QED
    BY <2>2 DEF Patch
<1>2. ModerationInv /\ UNCHANGED modVars => made' = made
  BY DEF modVars
<1>3. QED
  BY <1>1, ModerationStart, ModerationKept, PTL DEF ModerationSpec, UnrelatedKept

(* kick removes nobody who had restrictions when it looked, unless somebody acted   *)
(* after that.                                                                      *)
THEOREM KickKeeps == ModerationSpec => KickKeepsRestrictions
<1>1. ModerationInv /\ [ModerationNext]_modVars =>
        (job.op = "kick" /\ made' > made /\ line = "write" /\ ~meddled
          => member \notin {"restricted", "banned"})
  BY DEF ModerationInv, Restricted
<1>2. QED
  BY <1>1, ModerationStart, ModerationKept, PTL DEF ModerationSpec, KickKeepsRestrictions

(* No command removes a message of another chat, whatever happened to the messages  *)
(* since they were verified.                                                        *)
THEOREM OtherChatIsIntact == ModerationSpec => OtherChatIntact
<1>1. ASSUME ModerationInv, [ModerationNext]_modVars, NEW i \in MessageIds,
             made' > made, message[i] = Other
      PROVE  message'[i] = Other
  <2>1. Applied /\ (line = "write" \/ job.op = "kick")
    BY <1>1, MutationStep
  <2>2. message'[i] = IF job.op = "delete" /\ i \in job.ids THEN Deleted ELSE message[i]
    BY <2>1 DEF Applied
  <2>3. job.op = "delete" /\ i \in job.ids => message[i] \in {Here, Deleted}
    BY <1>1, <2>1 DEF ModerationInv
  <2>4. QED
    BY <1>1, <2>2, <2>3, ModerationAssumption DEF ModerationAssumption
<1>2. ModerationInv /\ [ModerationNext]_modVars =>
        \A i \in MessageIds : made' > made /\ message[i] = Other => message'[i] = Other
  BY <1>1
<1>3. QED
  BY <1>2, ModerationStart, ModerationKept, PTL DEF ModerationSpec, OtherChatIntact

-----------------------------------------------------------------------------
(* chat-permissions.                                                         *)

(* The parts of the rights that chat-permissions derives: those of an administrator,  *)
(* whether the member may send at all, what keeps him from sending, what everyone may  *)
(* do, and the rights that the report is about.                                        *)
Held(role, admin) == IF role = "creator" THEN AdminKeys ELSE IF admin = Unnamed THEN {} ELSE admin
Sends(type, role, admin) ==
  /\ role # "banned"
  /\ type = "gigagroup" => role \in {"creator", "admin"}
  /\ type = "channel" => "post_messages" \in Held(role, admin)
KeptFrom(type, defaults, role, personal) ==
  IF type = "channel" \/ role \in {"banned", "creator", "admin"} THEN {} ELSE defaults \cup personal
FreeTo(type, defaults, role, personal, k) ==
  /\ type # "channel" /\ role # "banned" /\ k \in Shared \ defaults
  /\ role \in {"creator", "admin"} \/ k \notin personal
Listed(type, k) ==
  /\ k \in Sending \cup AdminKeys
  /\ k = "post_messages" => type = "channel"
  /\ k = "manage_topics" => type = "forum"
SendsKey(barred, k) == k \in Sending /\ \A n \in Needs(k) : n \notin barred
GrantsKey(type, defaults, role, admin, personal, k) ==
  \/ Sends(type, role, admin) /\ SendsKey(KeptFrom(type, defaults, role, personal), k)
  \/ role # "banned" /\ k \in Held(role, admin)
  \/ FreeTo(type, defaults, role, personal, k)
Stated(role, admin) == admin # Unnamed \/ role = "creator" \/ role # "admin"

(* The rights to send that remain are those that depend on no missing one. *)
LEMMA SendsLeft ==
  ASSUME NEW barred, NEW k
  PROVE  k \in WithoutPlain(WithoutMedia(WithoutMessages(Sending \ barred))) <=> SendsKey(barred, k)
<1>1. k \in WithoutMessages(Sending \ barred) <=> k \in Sending /\ k \notin barred /\ "send_messages" \notin barred
  BY DEF WithoutMessages, Sending
<1>2. k \in WithoutMedia(WithoutMessages(Sending \ barred))
        <=> /\ k \in Sending /\ k \notin barred /\ "send_messages" \notin barred
            /\ k = "send_photos" => "send_media" \notin barred
  BY <1>1 DEF WithoutMessages, WithoutMedia, Media, Sending
<1>3. k \in WithoutPlain(WithoutMedia(WithoutMessages(Sending \ barred)))
        <=> /\ k \in Sending /\ k \notin barred /\ "send_messages" \notin barred
            /\ k = "send_photos" => "send_media" \notin barred
            /\ k = "embed_links" => "send_plain" \notin barred
  BY <1>2 DEF WithoutPlain, WithoutMessages, WithoutMedia, Media, Sending
<1>4. QED
  BY <1>3 DEF SendsKey, Needs, Media

(* Which rights the derivation grants, and which it denies. *)
LEMMA EffectiveRights ==
  ASSUME NEW type, NEW defaults, NEW role, NEW admin, NEW personal, NEW k,
         role \notin {"unknown", "left"}
  PROVE  LET e == Effective(type, defaults, role, admin, personal)
         IN  /\ k \in e.granted <=> Listed(type, k) /\ GrantsKey(type, defaults, role, admin, personal, k)
             /\ k \in e.denied <=> /\ Listed(type, k) /\ ~GrantsKey(type, defaults, role, admin, personal, k)
                                   /\ k \in Sending \/ Stated(role, admin)
<1> DEFINE sends == IF Sends(type, role, admin)
                    THEN WithoutPlain(WithoutMedia(WithoutMessages(Sending \ KeptFrom(type, defaults, role, personal)))) ELSE {}
           free == IF type = "channel" \/ role = "banned" THEN {}
                   ELSE {x \in Shared \ defaults : role \in {"creator", "admin"} \/ x \notin personal}
           granted == sends \cup (IF role = "banned" THEN {} ELSE Held(role, admin)) \cup free
           shown == (Sending \cup AdminKeys) \ ((IF type = "channel" THEN {} ELSE {"post_messages"})
                                     \cup (IF type = "forum" THEN {} ELSE {"manage_topics"}))
           stated == IF Stated(role, admin) THEN AdminKeys ELSE {}
<1>1. Effective(type, defaults, role, admin, personal) =
        [granted |-> granted \cap shown, denied |-> ((Sending \cup stated) \ granted) \cap shown]
  BY DEF Effective, Sends, Held, KeptFrom, Barred, Stated
<1>2. k \in sends <=> Sends(type, role, admin) /\ SendsKey(KeptFrom(type, defaults, role, personal), k)
  BY SendsLeft
<1>3. k \in free <=> FreeTo(type, defaults, role, personal, k)
  BY DEF FreeTo
<1>4. k \in shown <=> Listed(type, k)
  BY DEF Listed
<1> HIDE DEF sends, free, shown
<1>5. k \in granted <=> GrantsKey(type, defaults, role, admin, personal, k)
  BY <1>2, <1>3 DEF GrantsKey
<1> HIDE DEF granted
<1>6. Listed(type, k) => (k \in Sending \cup stated <=> k \in Sending \/ Stated(role, admin))
  BY DEF Listed
<1> HIDE DEF stated
<1>7. QED
  BY <1>1, <1>4, <1>5, <1>6

(* What the participant's kind says of him, and what restricts him. *)
LEMMA RoleOf ==
  ASSUME NEW p \in Persons
  PROVE  /\ p.kind \in {"creator", "admin", "member", "left", "unknown", "banned"}
         /\ p.rights \subseteq AdminKeys
         /\ p.outside \in BOOLEAN /\ p.gone \in BOOLEAN /\ p.lapsed \in BOOLEAN
         /\ p.kind # "banned" => Role(p) = p.kind /\ ~p.outside /\ ~p.gone /\ InForce(p) = {}
         /\ p.kind \in {"creator", "admin"} => p.rights \in Rights
         /\ p.kind = "banned" /\ p.lapsed =>
              /\ InForce(p) = {}
              /\ Role(p) = (IF p.gone \/ p.outside THEN "left" ELSE "member")
         /\ p.kind = "banned" /\ ~p.lapsed =>
              /\ Role(p) = (IF p.outside THEN "banned" ELSE IF p.gone THEN "left" ELSE "restricted")
              /\ ~p.outside => InForce(p) = p.denied
<1>1. /\ p.kind \in {"creator", "admin", "member", "left", "unknown", "banned"}
      /\ p.rights \subseteq AdminKeys
      /\ p.outside \in BOOLEAN /\ p.gone \in BOOLEAN /\ p.lapsed \in BOOLEAN
      /\ p.kind # "banned" => ~p.outside /\ ~p.gone /\ ~p.lapsed
      /\ p.kind \in {"creator", "admin"} => p.rights \in Rights
  BY PermissionsAssumption DEF Persons, PermissionsAssumption
<1>2. ASSUME p.kind # "banned"
      PROVE  Role(p) = p.kind /\ InForce(p) = {}
  <2>1. InForce(p) = {}
    BY <1>2 DEF InForce
  <2>2. Role(p) = p.kind
    BY <1>2, <1>1 DEF Role
  <2>3. QED
    BY <2>1, <2>2
<1>3. p.kind = "banned" /\ p.lapsed =>
        InForce(p) = {} /\ Role(p) = (IF p.gone \/ p.outside THEN "left" ELSE "member")
  BY <1>1 DEF Role, InForce
<1>4. p.kind = "banned" /\ ~p.lapsed =>
        /\ Role(p) = (IF p.outside THEN "banned" ELSE IF p.gone THEN "left" ELSE "restricted")
        /\ ~p.outside => InForce(p) = p.denied
  BY <1>1 DEF Role, InForce
<1>5. QED
  BY <1>1, <1>2, <1>3, <1>4

(* The rights an answer stands for: of an administrator those it names, which in a     *)
(* basic group may be none, of others none.                                            *)
AnswerOf(c, p, admin, named) ==
  /\ p.kind \notin {"creator", "admin"} => admin = Unnamed
  /\ p.kind = "admin" => /\ named \in Rights
                         /\ admin = named \/ (admin \in {Unnamed, {}} /\ c.type = "group")
  /\ admin = Unnamed \/ admin \subseteq AdminKeys

(* An administrator's right that the answers do not show although they name his rights. *)
NotShown(c, p, admin, k) == c.type = "group" /\ p.kind = "admin" /\ admin = {} /\ k \in AdminKeys

(* What is derived for a member whose boosts do, or do not, lift the restrictions of   *)
(* the chat is what Telegram's rules have.                                             *)
LEMMA DerivedIsTrue ==
  ASSUME NEW c, NEW p \in Persons, NEW admin, NEW named, NEW lifted \in BOOLEAN, NEW k,
         AnswerOf(c, p, admin, named), Role(p) \notin {"unknown", "left"},
         c.type \in Types,
         NEW defaults, p.kind \in {"creator", "admin"} => defaults = c.defaults,
         p.kind \notin {"creator", "admin"} => defaults = IF lifted THEN {} ELSE c.defaults
  PROVE  LET e == Effective(c.type, defaults, Role(p), admin, InForce(p))
         IN  /\ k \in e.granted => May(k, c, p, named, lifted)
             /\ k \in e.denied => ~May(k, c, p, named, lifted) \/ NotShown(c, p, admin, k)
<1> DEFINE e == Effective(c.type, defaults, Role(p), admin, InForce(p))
           G == GrantsKey(c.type, defaults, Role(p), admin, InForce(p), k)
           M == May(k, c, p, named, lifted)
<1>1. /\ k \in e.granted <=> Listed(c.type, k) /\ G
      /\ k \in e.denied <=> /\ Listed(c.type, k) /\ ~G
                            /\ k \in Sending \/ Stated(Role(p), admin)
  BY EffectiveRights
<1>2. Listed(c.type, k) => k \in Sending \cup AdminKeys
  BY DEF Listed
<1>3. CASE p.kind = "creator"
  <2>1. Role(p) = "creator" /\ Present(p)
    BY <1>3, RoleOf DEF Present
  <2>2. M
    BY <1>3, <2>1 DEF May
  <2>3. k \in AdminKeys => G
    BY <2>1 DEF GrantsKey, Held
  <2>4. k \in Sending => G
    BY <2>1 DEF GrantsKey, Sends, Held, AdminKeys, KeptFrom, SendsKey
  <2>5. QED
    BY <1>1, <1>2, <2>2, <2>3, <2>4
<1>4. CASE p.kind = "admin"
  <2>1. Role(p) = "admin" /\ Present(p)
    BY <1>4, RoleOf DEF Present
  <2>2. Held("admin", admin) = (IF admin = Unnamed THEN {} ELSE admin) /\ (admin = named \/ (admin \in {Unnamed, {}} /\ c.type = "group"))
    BY <1>4 DEF Held, AnswerOf
  <2>3. M <=> \/ k \in named
              \/ k \in Shared /\ c.type # "channel" /\ k \notin c.defaults
              \/ k \in Sending /\ c.type = "channel" /\ "post_messages" \in named
              \/ k \in Sending /\ c.type # "channel"
    BY <1>4, <2>1 DEF May
  <2>4. G <=> \/ k \in Sending /\ (c.type = "channel" => "post_messages" \in Held("admin", admin))
              \/ k \in Held("admin", admin)
              \/ c.type # "channel" /\ k \in Shared /\ k \notin c.defaults
    BY <1>4, <2>1 DEF GrantsKey, Sends, KeptFrom, SendsKey, FreeTo
  <2>5. Stated("admin", admin) => admin = named \/ (admin = {} /\ c.type = "group")
    BY <2>2 DEF Stated
  <2>6. G => M
    BY <2>2, <2>3, <2>4
  <2>7. ~G /\ (k \in Sending \/ admin = named) => ~M
    BY <1>4, <2>2, <2>3, <2>4, PermissionsAssumption DEF PermissionsAssumption, AnswerOf
  <2>8. k \in e.denied => ~M \/ NotShown(c, p, admin, k)
    BY <1>1, <1>2, <1>4, <2>1, <2>5, <2>7 DEF NotShown
  <2>9. QED
    BY <1>1, <2>1, <2>6, <2>8
<1>5. CASE p.kind \notin {"creator", "admin"}
  <2> DEFINE D == defaults \cup InForce(p)
  <2>1. /\ admin = Unnamed /\ Stated(Role(p), admin) /\ defaults = (IF lifted THEN {} ELSE c.defaults)
        /\ Role(p) \in {"member", "restricted", "banned"}
        /\ Role(p) = "banned" <=> ~Present(p)
        /\ \A r : Present(p) => (r \in InForce(p) <=> p.kind = "banned" /\ ~p.lapsed /\ r \in p.denied)
    BY <1>5, RoleOf DEF AnswerOf, Stated, Present
  <2>2. G <=> /\ Present(p) /\ c.type # "channel"
              /\ \/ c.type # "gigagroup" /\ SendsKey(D, k)
                 \/ k \in Shared /\ k \notin D
    BY <2>1 DEF GrantsKey, Sends, Held, KeptFrom, FreeTo
  <2>3. M <=> /\ Present(p)
              /\ \/ k \in Shared /\ c.type # "channel" /\ k \notin D
                 \/ k \in Sending /\ c.type \notin {"channel", "gigagroup"} /\ \A r \in Needs(k) : r \notin D
    BY <1>5, <2>1 DEF May
  <2>4. G <=> M
    BY <2>2, <2>3 DEF SendsKey
  <2>5. QED
    BY <1>1, <2>4
<1>6. QED
  BY <1>3, <1>4, <1>5, RoleOf

(* Of someone whose part in the chat is not known, or who is not in it, nothing is derived. *)
LEMMA NothingOfAbsent ==
  ASSUME NEW type, NEW defaults, NEW role \in {"unknown", "left"}, NEW admin, NEW personal, NEW known
  PROVE  Snapshot(type, defaults, role, admin, personal, known) = Nothing
<1>1. \A d : Effective(type, d, role, admin, personal) = Nothing
  BY DEF Effective
<1>2. role \notin {"creator", "admin"}
  OBVIOUS
<1> DEFINE s == Snapshot(type, defaults, role, admin, personal, known)
<1>3. CASE known \in {"none", "short"}
  BY <1>1, <1>2, <1>3 DEF Snapshot
<1>4. CASE known = "reached"
  BY <1>1, <1>2, <1>4 DEF Snapshot
<1>5. CASE known \notin {"none", "short", "reached"}
  <2>1. s = [granted |-> Nothing.granted \cap Nothing.granted, denied |-> Nothing.denied \cap Nothing.denied]
    BY <1>1, <1>2, <1>5 DEF Snapshot
  <2>2. QED
    BY <2>1 DEF Nothing
<1>6. QED
  BY <1>3, <1>4, <1>5

(* What is reported with known, and with unknown boosts. *)
LEMMA SnapshotRights ==
  ASSUME NEW type, NEW defaults, NEW role, NEW admin, NEW personal, NEW known, NEW k
  PROVE  LET s == Snapshot(type, defaults, role, admin, personal, known)
             regular == Effective(type, defaults, role, admin, personal)
             exempt == Effective(type, {}, role, admin, personal)
         IN  /\ role \in {"creator", "admin"} \/ known \in {"none", "short"} => s = regular
             /\ role \notin {"creator", "admin"} /\ known = "reached" => s = exempt
             /\ role \notin {"creator", "admin"} /\ known \notin {"none", "short", "reached"} =>
                  /\ k \in s.granted <=> k \in regular.granted /\ k \in exempt.granted
                  /\ k \in s.denied <=> k \in regular.denied /\ k \in exempt.denied
<1> DEFINE s == Snapshot(type, defaults, role, admin, personal, known)
           regular == Effective(type, defaults, role, admin, personal)
           exempt == Effective(type, {}, role, admin, personal)
<1>1. role \in {"creator", "admin"} \/ known \in {"none", "short"} => s = regular
  BY DEF Snapshot
<1>2. role \notin {"creator", "admin"} /\ known = "reached" => s = exempt
  BY DEF Snapshot
<1>3. role \notin {"creator", "admin"} /\ known \notin {"none", "short", "reached"} =>
        s = [granted |-> regular.granted \cap exempt.granted, denied |-> regular.denied \cap exempt.denied]
  BY DEF Snapshot
<1>4. QED
  BY <1>1, <1>2, <1>3

(* Every right reported is one there is, and none is both granted and denied. *)
LEMMA SnapshotTypes ==
  ASSUME NEW type, NEW defaults, NEW role, NEW admin, NEW personal, NEW known
  PROVE  LET s == Snapshot(type, defaults, role, admin, personal, known)
         IN  /\ s.granted \subseteq Sending \cup AdminKeys /\ s.denied \subseteq Sending \cup AdminKeys
             /\ s.granted \cap s.denied = {}
<1> DEFINE s == Snapshot(type, defaults, role, admin, personal, known)
<1>1. CASE role \in {"unknown", "left"}
  BY <1>1, NothingOfAbsent DEF Nothing
<1>2. CASE role \notin {"unknown", "left"}
  <2> SUFFICES ASSUME NEW k
               PROVE  /\ k \in s.granted \/ k \in s.denied => k \in Sending \cup AdminKeys
                      /\ ~(k \in s.granted /\ k \in s.denied)
    OBVIOUS
  <2>1. \A d : LET e == Effective(type, d, role, admin, personal)
               IN  /\ k \in e.granted \/ k \in e.denied => k \in Sending \cup AdminKeys
                   /\ ~(k \in e.granted /\ k \in e.denied)
    BY <1>2, EffectiveRights DEF Listed
  <2>2. QED
    BY <2>1, SnapshotRights
<1>3. QED
  BY <1>1, <1>2

(* What is reported of a participant is what Telegram's rules have, whether or not *)
(* boosts lift the restrictions, when that is not known.                          *)
LEMMA ReportedIsTrue ==
  ASSUME NEW c, NEW p \in Persons, NEW admin, NEW named, NEW known, NEW k,
         NEW lifted \in (IF known = "unknown" THEN BOOLEAN ELSE {known = "reached"}),
         known \in {"none", "short", "reached", "unknown"},
         AnswerOf(c, p, admin, named), c.type \in Types
  PROVE  LET s == Snapshot(c.type, c.defaults, Role(p), admin, InForce(p), known)
         IN  /\ k \in s.granted => May(k, c, p, named, lifted)
             /\ k \in s.denied => ~May(k, c, p, named, lifted) \/ NotShown(c, p, admin, k)
<1> DEFINE s == Snapshot(c.type, c.defaults, Role(p), admin, InForce(p), known)
           regular == Effective(c.type, c.defaults, Role(p), admin, InForce(p))
           exempt == Effective(c.type, {}, Role(p), admin, InForce(p))
           True(e) == /\ k \in e.granted => May(k, c, p, named, lifted)
                      /\ k \in e.denied => ~May(k, c, p, named, lifted) \/ NotShown(c, p, admin, k)
<1>0. lifted \in BOOLEAN
  OBVIOUS
<1>1. CASE Role(p) \in {"unknown", "left"}
  BY <1>1, NothingOfAbsent DEF Nothing
<1>2. CASE Role(p) \in {"creator", "admin"}
  <2>1. p.kind \in {"creator", "admin"} /\ Role(p) \notin {"unknown", "left"}
    BY <1>2, RoleOf
  <2>2. True(regular)
    BY <1>0, <2>1, DerivedIsTrue
  <2>3. QED
    BY <1>2, <2>2, SnapshotRights
<1>3. CASE Role(p) \notin {"unknown", "left", "creator", "admin"}
  <2>1. p.kind \notin {"creator", "admin"}
    BY <1>3, RoleOf
  <2>2. Role(p) \notin {"unknown", "left"}
    BY <1>3
  <2>3. ASSUME NEW d, d = IF lifted THEN {} ELSE c.defaults
        PROVE  True(Effective(c.type, d, Role(p), admin, InForce(p)))
    BY <1>0, <2>1, <2>2, <2>3, DerivedIsTrue
  <2>4. ~lifted => True(regular)
    BY <2>3
  <2>5. lifted => True(exempt)
    BY <2>3
  <2>6. CASE known \in {"none", "short"}
    BY <2>4, <2>6, SnapshotRights
  <2>7. CASE known = "reached"
    BY <1>3, <2>5, <2>7, SnapshotRights
  <2>8. CASE known = "unknown"
    <3>1. /\ k \in s.granted <=> k \in regular.granted /\ k \in exempt.granted
          /\ k \in s.denied <=> k \in regular.denied /\ k \in exempt.denied
      BY <1>3, <2>8, SnapshotRights
    <3>2. QED
      BY <1>0, <2>4, <2>5, <3>1
  <2>9. QED
    BY <2>6, <2>7, <2>8
<1>4. QED
  BY <1>1, <1>2, <1>3

(* More restrictions, of the chat or of the member, grant nothing more. *)
LEMMA EffectiveShrinks ==
  ASSUME NEW type, NEW defaults, NEW role, NEW admin, NEW personal, NEW k,
         NEW more, NEW personally, defaults \subseteq more, personal \subseteq personally,
         k \in Effective(type, more, role, admin, personally).granted
  PROVE  k \in Effective(type, defaults, role, admin, personal).granted
<1>1. CASE role \in {"unknown", "left"}
  BY <1>1 DEF Effective, Nothing
<1>2. CASE role \notin {"unknown", "left"}
  <2>1. Listed(type, k) /\ GrantsKey(type, more, role, admin, personally, k)
    BY <1>2, EffectiveRights
  <2>2. KeptFrom(type, defaults, role, personal) \subseteq KeptFrom(type, more, role, personally)
    BY DEF KeptFrom
  <2>3. SendsKey(KeptFrom(type, more, role, personally), k) => SendsKey(KeptFrom(type, defaults, role, personal), k)
    BY <2>2 DEF SendsKey
  <2>4. FreeTo(type, more, role, personally, k) => FreeTo(type, defaults, role, personal, k)
    BY DEF FreeTo
  <2>5. GrantsKey(type, defaults, role, admin, personal, k)
    BY <2>1, <2>3, <2>4 DEF GrantsKey
  <2>6. QED
    BY <1>2, <2>1, <2>5, EffectiveRights
<1>3. QED
  BY <1>1, <1>2

(* ... whether or not boosts are known. *)
LEMMA SnapshotShrinks ==
  ASSUME NEW type, NEW defaults, NEW role, NEW admin, NEW personal, NEW known,
         NEW more, NEW personally, defaults \subseteq more, personal \subseteq personally
  PROVE  Snapshot(type, more, role, admin, personally, known).granted
           \subseteq Snapshot(type, defaults, role, admin, personal, known).granted
<1> SUFFICES ASSUME NEW k \in Snapshot(type, more, role, admin, personally, known).granted
             PROVE  k \in Snapshot(type, defaults, role, admin, personal, known).granted
  OBVIOUS
<1>1. k \in Effective(type, more, role, admin, personally).granted
        => k \in Effective(type, defaults, role, admin, personal).granted
  BY EffectiveShrinks
<1>2. k \in Effective(type, {}, role, admin, personally).granted
        => k \in Effective(type, {}, role, admin, personal).granted
  BY EffectiveShrinks
<1>3. CASE role \in {"creator", "admin"} \/ known \in {"none", "short"}
  BY <1>1, <1>3, SnapshotRights
<1>4. CASE role \notin {"creator", "admin"} /\ known = "reached"
  BY <1>2, <1>4, SnapshotRights
<1>5. CASE role \notin {"creator", "admin"} /\ known \notin {"none", "short", "reached"}
  BY <1>1, <1>2, <1>5, SnapshotRights
<1>6. QED
  BY <1>3, <1>4, <1>5

(* The inductive invariant: the answers are about one chat, a basic group has neither   *)
(* boosts nor members with restrictions, and what is reported was derived from them.    *)
PermissionsInv ==
  /\ PermissionsTypeOK
  /\ metadata.type = chat.type
  /\ metadata.type = "group" => boosts = "none"
  /\ awaiting = "participant" => metadata.type # "group"
  /\ awaiting = "end" =>
       /\ metadata.type = "group" => participant.kind # "banned"
       /\ snapshot = Snapshot(metadata.type, metadata.defaults, Role(participant), AdminAnswered,
                              InForce(participant), boosts)

(* What the first answer carries is a set of an administrator's rights, or none. *)
LEMMA CarriedRights ==
  ASSUME NEW p \in Persons
  PROVE  Carried(p) \in Rights \cup {{}}
BY RoleOf DEF Carried

(* The inductive invariant holds at the start. *)
LEMMA PermissionsStart == PermissionsInit => PermissionsInv
<1> SUFFICES ASSUME PermissionsInit PROVE PermissionsInv
  OBVIOUS
<1>1. metadata = [type |-> chat.type, defaults |-> chat.defaults, own |-> {}]
  BY DEF PermissionsInit, Shown
<1>2. chat.type \in Types /\ chat.defaults \in Restrictions
  BY DEF PermissionsInit, ChatStates
<1>3. snapshot.granted = {} /\ snapshot.denied = {}
  BY DEF PermissionsInit, Nothing
<1>4. changes \in 0..MaxChanges
  BY PermissionsAssumption DEF PermissionsInit, PermissionsAssumption
<1>5. PermissionsTypeOK
  BY <1>1, <1>2, <1>3, <1>4 DEF PermissionsTypeOK, PermissionsInit
<1>6. QED
  BY <1>1, <1>5 DEF PermissionsInv, PermissionsInit

(* Every step preserves the inductive invariant. *)
LEMMA PermissionsKept == PermissionsInv /\ [PermissionsNext]_permVars => PermissionsInv'
<1> SUFFICES ASSUME PermissionsInv, [PermissionsNext]_permVars PROVE PermissionsInv'
  OBVIOUS
<1>0. /\ PermissionsTypeOK /\ chat \in ChatStates /\ person \in Persons /\ Fitting(chat, person)
      /\ metadata.type = chat.type /\ chat.type \in Types /\ chat.defaults \in Restrictions
      /\ chat.boosts \in {"none", "short", "reached"}
  BY DEF PermissionsInv, PermissionsTypeOK, ChatStates
<1>1. CASE ReadChat
  <2>1. PICK own \in Rights \cup {{}} : metadata' = [type |-> chat.type, defaults |-> chat.defaults, own |-> own]
    BY <1>0, <1>1, CarriedRights DEF ReadChat, Shown
  <2>2. PermissionsTypeOK'
    BY <1>0, <1>1, <2>1 DEF ReadChat, PermissionsTypeOK
  <2>3. QED
    BY <1>0, <1>1, <2>1, <2>2 DEF ReadChat, PermissionsInv
<1>2. CASE ReadFull
  <2>1. boosts' \in {"none", "short", "reached", "unknown"}
    BY <1>0, <1>2 DEF ReadFull, Known
  <2>2. PermissionsTypeOK'
    BY <1>0, <1>2, <2>1 DEF ReadFull, PermissionsTypeOK
  <2>3. QED
    BY <1>0, <1>2, <2>2 DEF ReadFull, PermissionsInv
<1>3. CASE ReadParticipant
  <2>1. /\ metadata.type # "group"
        /\ snapshot' = Snapshot(metadata.type, metadata.defaults, Role(person), Named(person), InForce(person), boosts)
    BY <1>3 DEF ReadParticipant, PermissionsInv
  <2>2. /\ snapshot'.granted \subseteq Sending \cup AdminKeys /\ snapshot'.denied \subseteq Sending \cup AdminKeys
        /\ snapshot'.granted \cap snapshot'.denied = {}
    BY <2>1, SnapshotTypes
  <2>3. PermissionsTypeOK'
    BY <1>0, <1>3, <2>2 DEF ReadParticipant, PermissionsTypeOK
  <2>4. QED
    BY <1>0, <1>3, <2>1, <2>3 DEF ReadParticipant, PermissionsInv, AdminAnswered
<1>4. CASE ReadGroup
  <2>1. /\ metadata.type = "group" /\ boosts = "none" /\ person.kind # "banned"
        /\ snapshot' = Snapshot("group", metadata.defaults, Role(person),
                                IF subject = "self" /\ person.kind = "admin" THEN metadata.own
                                ELSE Unnamed, {}, "none")
    BY <1>0, <1>4 DEF ReadGroup, PermissionsInv, Fitting
  <2>2. InForce(person) = {}
    BY <1>0, <2>1, RoleOf
  <2>3. /\ snapshot'.granted \subseteq Sending \cup AdminKeys /\ snapshot'.denied \subseteq Sending \cup AdminKeys
        /\ snapshot'.granted \cap snapshot'.denied = {}
    BY <2>1, SnapshotTypes
  <2>4. PermissionsTypeOK'
    BY <1>0, <1>4, <2>3 DEF ReadGroup, PermissionsTypeOK
  <2>5. QED
    BY <1>0, <1>4, <2>1, <2>2, <2>4 DEF ReadGroup, PermissionsInv, AdminAnswered
<1>5. CASE ReadFails
  BY <1>5 DEF ReadFails, PermissionsInv, PermissionsTypeOK
<1>6. CASE Change
  <2>1. chat' \in ChatStates /\ chat'.type = chat.type /\ person' \in Persons
    <3>1. ASSUME NEW r \in Restrictions, NEW b \in {"none", "short", "reached"},
                 chat' = [chat EXCEPT !.defaults = r, !.boosts = b]
          PROVE  chat' \in ChatStates /\ chat'.type = chat.type
      BY <1>0, <3>1 DEF ChatStates
    <3>2. QED
      BY <1>0, <1>6, <3>1 DEF Change
  <2>2. changes' \in 0..MaxChanges
    <3>1. MaxChanges \in Nat
      BY PermissionsAssumption DEF PermissionsAssumption
    <3>2. changes \in 0..MaxChanges /\ changes < MaxChanges /\ changes' = changes + 1
      BY <1>0, <1>6 DEF PermissionsTypeOK, Change
    <3>3. QED
      BY <3>1, <3>2
  <2>3. PermissionsTypeOK'
    BY <1>0, <1>6, <2>1, <2>2 DEF Change, PermissionsTypeOK
  <2>4. QED
    BY <1>6, <2>1, <2>3 DEF Change, PermissionsInv
<1>7. CASE UNCHANGED permVars
  BY <1>7 DEF permVars, PermissionsInv, PermissionsTypeOK, AdminAnswered
<1>8. QED
  BY <1>1, <1>2, <1>3, <1>4, <1>5, <1>6, <1>7 DEF PermissionsNext

(* The inductive invariant contains what the run checks. *)
LEMMA PermissionsImplies == PermissionsInv => ReportSound
<1> SUFFICES ASSUME PermissionsInv PROVE ReportSound
  OBVIOUS
<1>0. /\ PermissionsTypeOK /\ participant \in Persons /\ metadata.type \in Types
      /\ boosts \in {"none", "short", "reached", "unknown"} /\ metadata.own \in Rights \cup {{}}
  BY DEF PermissionsInv, PermissionsTypeOK
<1>1. awaiting = "end" => snapshot = Snapshot(metadata.type, metadata.defaults, Role(participant),
                                              AdminAnswered, InForce(participant), boosts)
  BY DEF PermissionsInv
<1>2. ReportFounded
  <2> SUFFICES ASSUME awaiting = "end"
               PROVE  /\ \A lifted \in Lifts, named \in OwnRights :
                           /\ \A k \in snapshot.granted : May(k, metadata, participant, named, lifted)
                           /\ \A k \in snapshot.denied :
                                \/ ~May(k, metadata, participant, named, lifted)
                                \/ PromotedMeanwhile /\ k \in AdminKeys
                      /\ participant.kind = "unknown" => snapshot = Nothing
    BY DEF ReportFounded
  <2>1. ASSUME NEW lifted \in Lifts, NEW named \in OwnRights, NEW k
        PROVE  /\ k \in snapshot.granted => May(k, metadata, participant, named, lifted)
               /\ k \in snapshot.denied => \/ ~May(k, metadata, participant, named, lifted)
                                           \/ PromotedMeanwhile /\ k \in AdminKeys
    <3>1. lifted \in (IF boosts = "unknown" THEN BOOLEAN ELSE {boosts = "reached"})
      BY DEF Lifts
    <3>2. AnswerOf(metadata, participant, AdminAnswered, named)
      <4>1. CASE metadata.type # "group"
        BY <1>0, <4>1, RoleOf, PermissionsAssumption
           DEF OwnRights, AnswerOf, AdminAnswered, Named, PermissionsAssumption
      <4>2. CASE metadata.type = "group"
        <5>1. CASE subject = "self" /\ participant.kind = "admin"
          BY <1>0, <4>2, <5>1, PermissionsAssumption
             DEF OwnRights, AnswerOf, AdminAnswered, PermissionsAssumption
        <5>2. CASE ~(subject = "self" /\ participant.kind = "admin")
          <6>1. AdminAnswered = Unnamed
            BY <4>2, <5>2 DEF AdminAnswered
          <6>2. participant.kind = "admin" => named \in Rights
            BY <4>2, <5>2 DEF OwnRights
          <6>3. QED
            BY <4>2, <6>1, <6>2 DEF AnswerOf
        <5>3. QED
          BY <5>1, <5>2
      <4>3. QED
        BY <4>1, <4>2
    <3>3. NotShown(metadata, participant, AdminAnswered, k) => PromotedMeanwhile /\ k \in AdminKeys
      BY PermissionsAssumption DEF NotShown, AdminAnswered, PromotedMeanwhile, PermissionsAssumption
    <3>4. QED
      BY <1>0, <1>1, <3>1, <3>2, <3>3, ReportedIsTrue
  <2>2. participant.kind = "unknown" => snapshot = Nothing
    BY <1>0, <1>1, RoleOf, NothingOfAbsent
  <2>3. QED
    BY <2>1, <2>2
<1>3. RestrictionsTakeAway
  <2> SUFFICES ASSUME NEW more \in Restrictions
               PROVE  LET S(d, p) == Snapshot(metadata.type, metadata.defaults \cup d, Role(participant),
                                              AdminAnswered, InForce(participant) \cup p, boosts).granted
                      IN  S(more, {}) \subseteq S({}, {}) /\ S({}, more) \subseteq S({}, {})
    BY Zenon DEF RestrictionsTakeAway
  <2>1. /\ metadata.defaults \cup {} \subseteq metadata.defaults \cup more
        /\ InForce(participant) \cup {} \subseteq InForce(participant) \cup more
    OBVIOUS
  <2>2. QED
    BY <2>1, SnapshotShrinks
<1>4. QED
  BY <1>0, <1>2, <1>3 DEF ReportSound

(* Whatever restrictions a chat and a member may have and whatever rights an           *)
(* administrator, and however they change between the answers: chat-permissions grants  *)
(* no right that the answers leave open and denies none, but for an administrator's in  *)
(* a basic group whose account was promoted between the answers; and more restrictions  *)
(* never grant a right.                                                                 *)
THEOREM ReportIsSound == PermissionsSpec => []ReportSound
  BY PermissionsStart, PermissionsKept, PermissionsImplies, PTL DEF PermissionsSpec

-----------------------------------------------------------------------------
(* Together.                                                                 *)

(* No step of a command does more to a chat or its cache than it was asked: the    *)
(* cap of a backfill, the restrictions that were not named, the messages of other  *)
(* chats.                                                                          *)
THEOREM NothingElseIsChanged == HistorySpec /\ ModerationSpec => NothingElseChanged
  BY CapIsHeld, UnrelatedAreKept, KickKeeps, OtherChatIsIntact DEF NothingElseChanged

=============================================================================
