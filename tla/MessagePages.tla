----------------------------- MODULE MessagePages -----------------------------
(***************************************************************************)
(* Lists of messages read page by page: show, search and list-msgs from    *)
(* the cache (internal/store/messages.go, cursor.go) or from Telegram, and *)
(* replies and topic-history (commands/messages_read.go, threads.go).      *)
(* Every page is a command of its own; next_cursor carries the position    *)
(* from one to the next, while a listener, a backfill or other people      *)
(* change what is listed.                                                  *)
(***************************************************************************)
EXTENDS Naturals, Sequences, SequencesExt

CONSTANTS Numbers,  \* message ids
          Dates,    \* dates of messages, numbers
          Limits,   \* values of --limit
          Wheres,   \* account, operation, chat and filters of a query to Telegram
          MaxEdits  \* bound: changes while the pages are read

ASSUME PagesAssumption ==
  /\ Numbers \subseteq Nat \ {0} /\ IsFiniteSet(Numbers) /\ Dates \subseteq Nat \ {0}
  /\ Limits \subseteq Nat \ {0} /\ Wheres # {} /\ MaxEdits \in Nat

VARIABLES table,    \* cache: date and tombstone of each message of a chat, or Absent
          posts,   \* Telegram: the messages each query finds
          source,
          query,   \* what the first page was asked for
          cursor,  \* next_cursor of the last page
          listed,  \* the keys listed so far
          kept,    \* history: messages that stayed in the list at their place
          edits

pageVars == <<table, posts, source, query, cursor, listed, kept, edits>>

Absent == [date |-> 0, dead |-> FALSE]
Rows   == [date : Dates, dead : BOOLEAN] \cup {Absent}
Positions   == (Dates \cup {0}) \X Numbers \* the date is 0 in lists of Telegram
Start == [at |-> "start"]
Over  == [at |-> "end"]
At(key, q) == [at |-> "key", key |-> key, where |-> q.where, reverse |-> q.reverse,
               since |-> IF source = "cache" THEN 0 ELSE q.since]

\* since stands for both bounds of the dates; the cache alone has an order and
\* tombstones, and --reverse with Telegram is refused.
Listings(s) == [where : IF s = "cache" THEN {CHOOSE w \in Wheres : TRUE} ELSE Wheres,
               since : {0} \cup Dates,
               reverse : IF s = "cache" THEN BOOLEAN ELSE {FALSE},
               dead : IF s = "cache" THEN BOOLEAN ELSE {FALSE}]

Less(k, l) == k[1] < l[1] \/ (k[1] = l[1] /\ k[2] < l[2])
Precedes(k, l, reverse) == IF reverse THEN Less(k, l) ELSE Less(l, k)

\* The messages a query selects, with their keys.  At Telegram dates grow with
\* message ids, and the bound is applied to each page by the program.
Selected(q) ==
  IF source = "cache"
  THEN {<<table[n].date, n>> :
          n \in {m \in Numbers : /\ table[m] # Absent
                                 /\ table[m].date >= q.since
                                 /\ q.dead \/ ~table[m].dead}}
  ELSE {<<0, n>> : n \in {m \in posts[q.where] : m >= q.since}}

PagesInit ==
  /\ table \in [Numbers -> Rows]
  /\ posts \in [Wheres -> SUBSET Numbers]
  /\ source \in {"cache", "telegram"}
  /\ IF source = "cache" THEN posts = [w \in Wheres |-> {}] ELSE table = [n \in Numbers |-> Absent]
  /\ query \in Listings(source)
  /\ cursor = Start
  /\ listed = <<>>
  /\ kept = Selected(query)
  /\ edits = 0

\* ORDER BY message_date, message_id.
InOrderOf(keys, reverse) ==
  CHOOSE s \in [1..Cardinality(keys) -> keys] :
    /\ ToSet(s) = keys
    /\ \A i, j \in DOMAIN s : i < j => Precedes(s[i], s[j], reverse)

\* Mistake: rows with the date of the last row count as listed.
BeyondByDate(keys, reverse) ==
  IF cursor = Start THEN keys
  ELSE {k \in keys : IF reverse THEN k[1] > cursor.key[1] ELSE k[1] < cursor.key[1]}

\* cursorClause: the rows after the row of the cursor, by date and message id.
Beyond(keys, reverse) ==
  IF cursor = Start THEN keys ELSE {k \in keys : Precedes(cursor.key, k, reverse)}

\* DecodeRemoteCursor and cursorClause: a cursor of another query is refused, of
\* the cache only when the chat or the order is another.
Matches(q) ==
  cursor # Start => /\ cursor.where = q.where /\ cursor.reverse = q.reverse
                    /\ source = "telegram" => cursor.since = q.since

\* MessageCursor: a page shorter than the limit is the last one.
CacheNext(page, limit, q) ==
  IF Len(page) = 0 \/ Len(page) < limit THEN Over ELSE At(Last(page), q)

ReadCache(q, limit) ==
  LET all  == InOrderOf(Beyond(Selected(q), q.reverse), q.reverse)
      page == SubSeq(all, 1, IF Len(all) < limit THEN Len(all) ELSE limit)
  IN  /\ listed' = listed \o page
      /\ cursor' = CacheNext(page, limit, q)

\* What Telegram answers: the newest messages below the offset, at most limit.
Answer(q, limit) ==
  LET all == InOrderOf(Beyond({<<0, n>> : n \in posts[q.where]}, FALSE), FALSE)
  IN  SubSeq(all, 1, IF Len(all) < limit THEN Len(all) ELSE limit)

\* remoteRows: the next offset is the oldest message of the page.
RemoteNext(page, limit, q) ==
  IF Len(page) = 0 \/ Len(page) < limit THEN Over ELSE At(Last(page), q)

ReadRemote(q, limit) ==
  /\ listed' = listed \o InOrderOf({k \in ToSet(Answer(q, limit)) : k[2] >= q.since}, FALSE)
  /\ cursor' = RemoteNext(Answer(q, limit), limit, q)

\* The user asks for a page: the first of his query, or the one after, for which
\* he may change the flags.  A refused cursor stays with him.
ReadPage ==
  /\ cursor # Over
  /\ \E q \in (IF cursor = Start THEN {query} ELSE Listings(source)), limit \in Limits :
       /\ Matches(q)
       /\ IF source = "cache" THEN ReadCache(q, limit) ELSE ReadRemote(q, limit)
       /\ kept' = kept \cap (IF source = "cache" THEN Selected(q) ELSE Selected(query))
  /\ UNCHANGED <<table, posts, source, query, edits>>

\* A listener, a backfill or an upload changes the cache: a row comes, is
\* overwritten with the date Telegram gives it, or gets a tombstone.
ChangeRow ==
  /\ source = "cache" /\ edits < MaxEdits /\ cursor \notin {Start, Over}
  /\ \E n \in Numbers :
       \/ \E d \in Dates : table' = [table EXCEPT ![n] = [date |-> d, dead |-> table[n].dead]]
       \/ table[n] # Absent /\ table' = [table EXCEPT ![n].dead = TRUE]
  /\ kept' = {k \in kept : table'[k[2]] = table[k[2]]}
  /\ edits' = edits + 1
  /\ UNCHANGED <<posts, source, query, cursor, listed>>

\* At Telegram a message is posted, with a number above all others, or deleted.
ChangePosts ==
  /\ source = "telegram" /\ edits < MaxEdits /\ cursor \notin {Start, Over}
  /\ \E w \in Wheres, n \in Numbers :
       \/ n \in posts[w] /\ posts' = [posts EXCEPT ![w] = @ \ {n}]
       \/ (\A m \in posts[w] : n > m) /\ posts' = [posts EXCEPT ![w] = @ \cup {n}]
  /\ kept' = {k \in kept : k[2] \in posts'[query.where]}
  /\ edits' = edits + 1
  /\ UNCHANGED <<table, source, query, cursor, listed>>

PagesNext == ReadPage \/ ChangeRow \/ ChangePosts
PagesSpec == PagesInit /\ [][PagesNext]_pageVars
--------------------------------------------------------------------------------
PagesTypeOK ==
  /\ table \in [Numbers -> Rows] /\ posts \in [Wheres -> SUBSET Numbers]
  /\ source \in {"cache", "telegram"} /\ query \in Listings(source)
  /\ \/ cursor \in {Start, Over}
     \/ cursor \in [at : {"key"}, key : Positions, where : Wheres, reverse : BOOLEAN, since : {0} \cup Dates]
  /\ listed \in Seq(Positions) /\ kept \subseteq Positions /\ edits \in 0..MaxEdits

\* Pages put after one another are in the order asked for, and so list no message
\* twice that keeps its date, whatever is changed between them.
ListedInOrder ==
  \A i \in 1..Len(listed) - 1 : Precedes(listed[i], listed[i + 1], query.reverse)

\* Behind the cursor nothing is missing: a message that was in the list from the
\* first page on, and kept its date, is listed by the time its place is passed;
\* when the last cursor is empty, all of them are.
NothingSkipped ==
  cursor # Start =>
    \A k \in kept : \/ cursor # Over /\ Precedes(cursor.key, k, query.reverse)
                    \/ k \in ToSet(listed)

\* The pages of a list, one command each, are one list: in order, and complete for
\* the messages that did not move.
PagesComplete ==
  /\ PagesTypeOK
  /\ ListedInOrder
  /\ NothingSkipped

================================================================================
