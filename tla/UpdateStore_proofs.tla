------------------------- MODULE UpdateStore_proofs -------------------------
(***************************************************************************)
(* Proofs about the updates of an account: its checkpoints and its outbox. *)
(***************************************************************************)
EXTENDS UpdateStore, TLAPS

\* One field of the record of the database is changed.
LEMMA OneField ==
  ASSUME NEW a, NEW o, NEW l, NEW r, NEW t, NEW c, NEW m, NEW b, NEW q,
         q = [applied |-> a, outbox |-> o, lastId |-> l, rows |-> r, tomb |-> t, common |-> c, read |-> m]
  PROVE  [q EXCEPT !.applied = @ \cup b] =
           [applied |-> a \cup b, outbox |-> o, lastId |-> l, rows |-> r, tomb |-> t, common |-> c, read |-> m]
<1>1. q.applied = a
  OBVIOUS
<1>2. [q EXCEPT !.applied = a \cup b] =
        [applied |-> a \cup b, outbox |-> o, lastId |-> l, rows |-> r, tomb |-> t, common |-> c, read |-> m]
  OBVIOUS
<1> QED BY <1>1, <1>2

----------------------------------------------------------------------------
(* What applying one update does to the database.                          *)

\* An update that Telegram numbered is one of its stream.
LEMMA SentTyped ==
  ASSUME TypeOK, NEW x \in Sent
  PROVE  /\ x = <<x[1], x[2]>> /\ x[1] \in Streams /\ x[2] \in Nat \ {0}
         /\ x[2] <= sent[x[1]]
         /\ Upd(x) \in UpdatesOf(x[1])
<1>1. PICK s \in Streams : x \in {s} \X (1..sent[s])
  BY DEF Sent
<1>2. x[1] = s /\ x[2] \in 1..sent[s] /\ x = <<x[1], x[2]>>
  BY <1>1
<1>3. x[2] \in 1..Len(feed[s])
  <2>1. sent[s] \in Nat /\ sent[s] <= Len(feed[s]) /\ feed \in [Streams -> Seq(Update)]
    BY UpdateAssumption, <1>1 DEF TypeOK, UpdateAssumption
  <2>2. Len(feed[s]) \in Nat
    BY <2>1
  <2> QED BY <1>2, <2>1, <2>2
<1>4. feed[s][x[2]] \in UpdatesOf(s)
  BY UpdateAssumption, <1>1, <1>3 DEF TypeOK, UpdateAssumption
<1>5. x[2] \in Nat \ {0} /\ x[2] <= sent[s]
  <2>1. sent[s] \in Nat
    BY <1>1 DEF TypeOK
  <2> QED BY <1>2, <2>1
<1> QED BY <1>2, <1>4, <1>5 DEF Upd

\* The kinds of updates, apart.
LEMMA Kinds ==
  ASSUME NEW u \in Update, NEW s \in Streams, u \in UpdatesOf(s)
  PROVE  /\ u.kind \in {"content", "expired", "read", "deleted"}
         /\ u.id \in Ids /\ u.id \in Nat \ {0}
         /\ ~CommonDeletion(u) => u.chat \in Chats /\ Msg(u) \in Message
         /\ CommonDeletion(u) => \A m \in Message : Msg(u) # m
         /\ u.chat = NoChat <=> CommonDeletion(u)
<1>1. u.kind \in {"content", "expired", "read", "deleted"} /\ u.chat \in Chats \cup {NoChat} /\ u.id \in Ids
  BY DEF Update
<1>2. u.chat = NoChat <=> CommonDeletion(u)
  BY UpdateAssumption DEF UpdateAssumption, UpdatesOf, CommonDeletion
<1>3. u.chat \in Chats => Msg(u) \in Message
  BY <1>1 DEF Msg, Message
<1>4. CommonDeletion(u) => \A m \in Message : Msg(u) # m
  BY UpdateAssumption, <1>2 DEF UpdateAssumption, Msg, Message
<1>5. u.id \in Nat \ {0}
  BY UpdateAssumption, <1>1 DEF UpdateAssumption
<1>6. u.chat # NoChat <=> u.chat \in Chats
  BY UpdateAssumption, <1>1 DEF UpdateAssumption
<1> QED BY <1>5, <1>6, <1>1, <1>2, <1>3, <1>4

\* The fields of the database after an update.
LEMMA ApplyFields ==
  ASSUME TypeOK, NEW d \in DbType, NEW x \in Sent
  PROVE  LET u == Upd(x)
             e == ApplyOne(d, x)
             new == [id |-> d.lastId + 1, s |-> x[1], i |-> x[2]]
             kept == IF u.kind = "expired" THEN d.outbox \ Naming(d, u) ELSE d.outbox
         IN  /\ e.applied = d.applied \cup {x}
             /\ e.rows = IF u.kind = "read" \/ CommonDeletion(u) THEN d.rows ELSE d.rows \cup {Msg(u)}
             /\ e.common = IF CommonDeletion(u) THEN d.common \cup {u.id} ELSE d.common
             /\ u.kind = "read" => e.tomb = d.tomb
             /\ u.kind = "expired" \/ (u.kind = "deleted" /\ ~CommonDeletion(u)) =>
                  e.tomb = d.tomb \cup {Msg(u)}
             /\ CommonDeletion(u) =>
                  e.tomb = d.tomb \cup {m \in d.rows : m.id = u.id /\ m.chat \in Private}
             /\ u.kind = "content" =>
                  e.tomb = d.tomb \cup {m \in {Msg(u)} \ d.rows : m.id \in d.common /\ m.chat \in Private}
             /\ e.read = IF u.kind = "read"
                         THEN [d.read EXCEPT ![u.chat] = IF u.id > @ THEN u.id ELSE @] ELSE d.read
             /\ IF u.kind = "content" /\ Msg(u) \in e.tomb
                THEN e.lastId = d.lastId /\ e.outbox = d.outbox
                ELSE e.lastId = d.lastId + 1 /\ e.outbox = kept \cup {new}
             /\ e = [applied |-> e.applied, outbox |-> e.outbox, lastId |-> e.lastId, rows |-> e.rows,
                     tomb |-> e.tomb, common |-> e.common, read |-> e.read]
<1> DEFINE u == Upd(x)
           p == Persist(d, u)
<1>1. u \in Update /\ u \in UpdatesOf(x[1]) /\ x[1] \in Streams
  BY SentTyped DEF UpdatesOf
<1>2. /\ u.kind \in {"content", "expired", "read", "deleted"}
      /\ u.chat = NoChat <=> CommonDeletion(u)
  BY <1>1, Kinds
<1> HIDE DEF u
<1>3. d = [applied |-> d.applied, outbox |-> d.outbox, lastId |-> d.lastId, rows |-> d.rows,
           tomb |-> d.tomb, common |-> d.common, read |-> d.read]
  BY DEF DbType
<1>4. /\ p.applied = d.applied /\ p.lastId = d.lastId
      /\ p.rows = IF u.kind = "read" \/ CommonDeletion(u) THEN d.rows ELSE d.rows \cup {Msg(u)}
      /\ p.common = IF CommonDeletion(u) THEN d.common \cup {u.id} ELSE d.common
      /\ u.kind = "read" => p.tomb = d.tomb
      /\ u.kind = "expired" \/ (u.kind = "deleted" /\ ~CommonDeletion(u)) => p.tomb = d.tomb \cup {Msg(u)}
      /\ CommonDeletion(u) => p.tomb = d.tomb \cup {m \in d.rows : m.id = u.id /\ m.chat \in Private}
      /\ u.kind = "content" =>
           p.tomb = d.tomb \cup {m \in {Msg(u)} \ d.rows : m.id \in d.common /\ m.chat \in Private}
      /\ p.read = IF u.kind = "read"
                  THEN [d.read EXCEPT ![u.chat] = IF u.id > @ THEN u.id ELSE @] ELSE d.read
      /\ p.outbox = IF u.kind = "expired" THEN d.outbox \ Naming(d, u) ELSE d.outbox
      /\ p = [applied |-> p.applied, outbox |-> p.outbox, lastId |-> p.lastId, rows |-> p.rows,
           tomb |-> p.tomb, common |-> p.common, read |-> p.read]
  <2>1. CASE u.kind = "read"
    BY <2>1, <1>3 DEF Persist, PersistRead, CommonDeletion
  <2>2. CASE u.kind = "expired"
    BY <2>2, <1>3 DEF Persist, PersistExpired, Tombstone, CommonDeletion
  <2>3. CASE CommonDeletion(u)
    BY <2>3, <1>3 DEF Persist, PersistCommonDeletion, CommonDeletion
  <2>4. CASE u.kind = "deleted" /\ ~CommonDeletion(u)
    BY <2>4, <1>3 DEF Persist, Tombstone, CommonDeletion
  <2>5. CASE u.kind = "content"
    BY <2>5, <1>3 DEF Persist, PersistContent, CommonDeletion
  <2> QED BY <1>2, <2>1, <2>2, <2>3, <2>4, <2>5 DEF CommonDeletion
<1> HIDE DEF p
<1>5. ApplyOne(d, x) = [Publish(p, x) EXCEPT !.applied = @ \cup {x}]
  BY DEF ApplyOne, u, p
<1>6. CASE u.kind = "content" /\ Msg(u) \in p.tomb
  <2>1. Publish(p, x) = p
    BY <1>6 DEF Publish, u, IsContent
  <2>2. ApplyOne(d, x) = [p EXCEPT !.applied = @ \cup {x}]
    BY <1>5, <2>1
  <2>3. ApplyOne(d, x) = [applied |-> d.applied \cup {x}, outbox |-> d.outbox, lastId |-> d.lastId,
          rows |-> p.rows, tomb |-> p.tomb, common |-> p.common, read |-> p.read]
    BY <1>4, <1>6, <2>2
  <2> QED BY <1>4, <1>6, <2>3 DEF u
<1>7. CASE ~(u.kind = "content" /\ Msg(u) \in p.tomb)
  <2> DEFINE new == [id |-> d.lastId + 1, s |-> x[1], i |-> x[2]]
  <2>1. Publish(p, x) = [p EXCEPT !.lastId = @ + 1, !.outbox = @ \cup {new}]
    BY <1>4, <1>7 DEF Publish, u, IsContent
  <2> HIDE DEF new
  <2>2. ApplyOne(d, x) = [applied |-> d.applied \cup {x}, outbox |-> p.outbox \cup {new}, lastId |-> d.lastId + 1,
          rows |-> p.rows, tomb |-> p.tomb, common |-> p.common, read |-> p.read]
    <3>1. Publish(p, x) = [applied |-> p.applied, outbox |-> p.outbox \cup {new}, lastId |-> p.lastId + 1,
            rows |-> p.rows, tomb |-> p.tomb, common |-> p.common, read |-> p.read]
      BY <1>4, <2>1
    <3>2. [Publish(p, x) EXCEPT !.applied = @ \cup {x}] =
            [applied |-> p.applied \cup {x}, outbox |-> p.outbox \cup {new}, lastId |-> p.lastId + 1,
             rows |-> p.rows, tomb |-> p.tomb, common |-> p.common, read |-> p.read]
      BY <3>1, OneField, SMTT(40)
    <3> QED BY <1>4, <1>5, <3>2
  <2> QED BY <1>4, <1>7, <2>2 DEF u, new
<1> QED BY <1>6, <1>7

\* The database only gains updates, rows, tombstones and identifiers.
LEMMA ApplyGrows ==
  ASSUME TypeOK, NEW d \in DbType, d.tomb \subseteq d.rows, NEW x \in Sent
  PROVE  LET u == Upd(x)
             e == ApplyOne(d, x)
         IN  /\ e \in DbType
             /\ e.applied = d.applied \cup {x}
             /\ d.rows \subseteq e.rows /\ d.tomb \subseteq e.tomb /\ e.tomb \subseteq e.rows
             /\ d.lastId <= e.lastId
             /\ \A r \in e.outbox : r \in d.outbox \/ (Of(r) = x /\ r.id = d.lastId + 1 /\ r.id = e.lastId)
             /\ \A r \in d.outbox : r \in e.outbox \/ (u.kind = "expired" /\ r \in Naming(d, u))
             /\ \/ \E r \in e.outbox : Of(r) = x /\ r.id = d.lastId + 1 /\ r.id = e.lastId
                \/ u.kind = "content" /\ Msg(u) \in e.tomb
<1> DEFINE u == Upd(x)
           e == ApplyOne(d, x)
           new == [id |-> d.lastId + 1, s |-> x[1], i |-> x[2]]
<1>1. u \in UpdatesOf(x[1]) /\ u \in Update /\ x[1] \in Streams /\ x[2] \in Nat \ {0} /\ x = <<x[1], x[2]>>
  BY SentTyped DEF UpdatesOf
<1>2. /\ u.kind \in {"content", "expired", "read", "deleted"}
      /\ u.id \in Ids /\ u.id \in Nat \ {0}
      /\ ~CommonDeletion(u) => u.chat \in Chats /\ Msg(u) \in Message
      /\ u.chat = NoChat <=> CommonDeletion(u)
  BY <1>1, Kinds
<1>3. /\ d.applied \subseteq Sent /\ d.outbox \subseteq Row /\ d.lastId \in Nat /\ d.rows \subseteq Message
      /\ d.tomb \subseteq Message /\ d.common \subseteq Ids /\ d.read \in [Chats -> Nat]
  BY DEF DbType
<1>4. new \in Row /\ Of(new) = x /\ new.id = d.lastId + 1
  BY <1>1, <1>3 DEF Row, Of
<1>5. /\ e.applied = d.applied \cup {x}
      /\ e.rows = IF u.kind = "read" \/ CommonDeletion(u) THEN d.rows ELSE d.rows \cup {Msg(u)}
      /\ e.common = IF CommonDeletion(u) THEN d.common \cup {u.id} ELSE d.common
      /\ u.kind = "read" => e.tomb = d.tomb
      /\ u.kind = "expired" \/ (u.kind = "deleted" /\ ~CommonDeletion(u)) =>
           e.tomb = d.tomb \cup {Msg(u)}
      /\ CommonDeletion(u) =>
           e.tomb = d.tomb \cup {m \in d.rows : m.id = u.id /\ m.chat \in Private}
      /\ u.kind = "content" =>
           e.tomb = d.tomb \cup {m \in {Msg(u)} \ d.rows : m.id \in d.common /\ m.chat \in Private}
      /\ e.read = IF u.kind = "read"
                  THEN [d.read EXCEPT ![u.chat] = IF u.id > @ THEN u.id ELSE @] ELSE d.read
      /\ IF u.kind = "content" /\ Msg(u) \in e.tomb
         THEN e.lastId = d.lastId /\ e.outbox = d.outbox
         ELSE /\ e.lastId = d.lastId + 1
              /\ e.outbox = (IF u.kind = "expired" THEN d.outbox \ Naming(d, u) ELSE d.outbox) \cup {new}
      /\ e = [applied |-> e.applied, outbox |-> e.outbox, lastId |-> e.lastId, rows |-> e.rows,
              tomb |-> e.tomb, common |-> e.common, read |-> e.read]
  BY ApplyFields
<1> HIDE DEF u, e, new
<1>6. e.rows \subseteq Message /\ d.rows \subseteq e.rows
  BY <1>2, <1>3, <1>5 DEF CommonDeletion
<1>7. d.tomb \subseteq e.tomb /\ e.tomb \subseteq e.rows
  BY <1>2, <1>3, <1>5 DEF CommonDeletion
<1>8. e.read \in [Chats -> Nat]
  <2>1. CASE u.kind = "read"
    BY <2>1, <1>2, <1>3, <1>5 DEF CommonDeletion
  <2> QED BY <2>1, <1>3, <1>5
<1>9. e.outbox \subseteq Row /\ e.lastId \in Nat /\ d.lastId <= e.lastId
  BY <1>3, <1>4, <1>5
<1>10. e.applied \subseteq Sent /\ e.common \subseteq Ids
  BY <1>2, <1>3, <1>5
<1>11. e \in DbType
  BY <1>5, <1>6, <1>7, <1>8, <1>9, <1>10 DEF DbType
<1>12. \A r \in e.outbox : r \in d.outbox \/ (Of(r) = x /\ r.id = d.lastId + 1 /\ r.id = e.lastId)
  BY <1>4, <1>5
<1>13. \A r \in d.outbox : r \in e.outbox \/ (u.kind = "expired" /\ r \in Naming(d, u))
  BY <1>5
<1>14. \/ \E r \in e.outbox : Of(r) = x /\ r.id = d.lastId + 1 /\ r.id = e.lastId
       \/ u.kind = "content" /\ Msg(u) \in e.tomb
  BY <1>4, <1>5
<1> QED BY <1>5, <1>6, <1>7, <1>9, <1>11, <1>12, <1>13, <1>14 DEF u, e

\* What was settled stays settled, and a row that leaves the outbox is settled.
LEMMA ApplySettles ==
  ASSUME TypeOK, NEW d \in DbType, d.tomb \subseteq d.rows, DbInv(d), NEW x \in Sent
  PROVE  LET e == ApplyOne(d, x)
         IN  /\ \A v : Noticed(d, v) => Noticed(e, v)
             /\ \A y : SettledIn(d, y) => SettledIn(e, y)
             /\ \A r \in d.outbox : r \in e.outbox \/ SettledIn(e, Of(r))
             /\ x \in PendingIn(e) \/ SettledIn(e, x)
<1> DEFINE u == Upd(x)
           e == ApplyOne(d, x)
<1>1. /\ d.tomb \subseteq e.tomb
      /\ \A r \in d.outbox : r \in e.outbox \/ (u.kind = "expired" /\ r \in Naming(d, u))
      /\ \/ \E r \in e.outbox : Of(r) = x
         \/ u.kind = "content" /\ Msg(u) \in e.tomb
  BY ApplyGrows
<1>2. u.kind = "expired" => Msg(u) \in e.tomb
  <2>1. u.kind = "expired" \/ (u.kind = "deleted" /\ ~CommonDeletion(u)) => e.tomb = d.tomb \cup {Msg(u)}
    BY ApplyFields, ZenonT(60)
  <2> HIDE DEF u, e
  <2> QED BY <2>1 DEF CommonDeletion
<1>3. \A r \in d.outbox : Upd(Of(r)).kind \in {"content", "expired", "read", "deleted"}
  <2> TAKE r \in d.outbox
  <2>1. Of(r) \in Sent
    BY DEF DbInv, DbType
  <2> QED BY <2>1, SentTyped DEF UpdatesOf, Update
<1> HIDE DEF u, e
<1>4. u.kind = "expired" => \A v : Msg(v) = Msg(u) => Noticed(e, v)
  BY <1>1 DEF Noticed, PendingIn, u
<1>5. \A v : Noticed(d, v) => Noticed(e, v)
  <2> SUFFICES ASSUME NEW v, Noticed(d, v) PROVE Noticed(e, v)
    OBVIOUS
  <2>1. PICK y \in handed \cup PendingIn(d) : Upd(y).kind = "expired" /\ Msg(Upd(y)) = Msg(v)
    BY DEF Noticed
  <2>2. CASE y \in handed
    BY <2>1, <2>2 DEF Noticed
  <2>3. CASE y \in PendingIn(d)
    <3>1. PICK r \in d.outbox : y = Of(r)
      BY <2>3 DEF PendingIn
    <3>2. CASE r \in e.outbox
      BY <2>1, <3>1, <3>2 DEF Noticed, PendingIn
    <3>3. CASE u.kind = "expired" /\ r \in Naming(d, u)
      BY <1>4, <2>1, <3>1, <3>3 DEF Naming
    <3> QED BY <1>1, <3>2, <3>3
  <2> QED BY <2>1, <2>2, <2>3
<1>6. \A y : SettledIn(d, y) => SettledIn(e, y)
  BY <1>1, <1>5 DEF SettledIn
<1>7. ASSUME NEW r \in d.outbox PROVE r \in e.outbox \/ SettledIn(e, Of(r))
  <2>1. CASE u.kind = "expired" /\ r \in Naming(d, u)
    <3>1. Upd(Of(r)).kind \in {"content", "expired", "deleted"} /\ Msg(Upd(Of(r))) = Msg(u)
      BY <2>1, <1>3 DEF Naming
    <3> QED BY <2>1, <3>1, <1>2, <1>4 DEF SettledIn, IsContent
  <2> QED BY <1>1, <2>1
<1>8. x \in PendingIn(e) \/ SettledIn(e, x)
  BY <1>1 DEF PendingIn, SettledIn, IsContent, u
<1> QED BY <1>5, <1>6, <1>7, <1>8 DEF e

\* An update leaves the invariant of the database.
LEMMA ApplyKeeps ==
  ASSUME TypeOK, NEW d \in DbType, d.tomb \subseteq d.rows, DbInv(d), NEW x \in Sent
  PROVE  DbInv(ApplyOne(d, x))
<1> DEFINE u == Upd(x)
           e == ApplyOne(d, x)
<1>1. /\ e \in DbType
      /\ e.applied = d.applied \cup {x}
      /\ d.rows \subseteq e.rows /\ d.tomb \subseteq e.tomb /\ e.tomb \subseteq e.rows
      /\ d.lastId <= e.lastId
      /\ \A r \in e.outbox : r \in d.outbox \/ (Of(r) = x /\ r.id = d.lastId + 1 /\ r.id = e.lastId)
  BY ApplyGrows
<1>2. /\ e.rows = IF u.kind = "read" \/ CommonDeletion(u) THEN d.rows ELSE d.rows \cup {Msg(u)}
      /\ e.common = IF CommonDeletion(u) THEN d.common \cup {u.id} ELSE d.common
      /\ u.kind = "read" => e.tomb = d.tomb
      /\ u.kind = "expired" \/ (u.kind = "deleted" /\ ~CommonDeletion(u)) =>
           e.tomb = d.tomb \cup {Msg(u)}
      /\ CommonDeletion(u) =>
           e.tomb = d.tomb \cup {m \in d.rows : m.id = u.id /\ m.chat \in Private}
      /\ u.kind = "content" =>
           e.tomb = d.tomb \cup {m \in {Msg(u)} \ d.rows : m.id \in d.common /\ m.chat \in Private}
      /\ e.read = IF u.kind = "read"
                  THEN [d.read EXCEPT ![u.chat] = IF u.id > @ THEN u.id ELSE @] ELSE d.read
      /\ u.kind = "content" /\ Msg(u) \in e.tomb => e.outbox = d.outbox
      /\ u.kind = "expired" =>
           e.outbox = (d.outbox \ Naming(d, u)) \cup {[id |-> d.lastId + 1, s |-> x[1], i |-> x[2]]}
  BY ApplyFields, ZenonT(60)
<1>3. x[1] \in Streams /\ x = <<x[1], x[2]>> /\ u \in UpdatesOf(x[1]) /\ u \in Update
  BY SentTyped DEF UpdatesOf
<1>4. /\ u.kind \in {"content", "expired", "read", "deleted"}
      /\ u.id \in Ids /\ u.id \in Nat \ {0}
      /\ ~CommonDeletion(u) => u.chat \in Chats /\ Msg(u) \in Message
      /\ CommonDeletion(u) => \A m \in Message : Msg(u) # m
  BY <1>3, Kinds
<1>5. /\ d.applied \subseteq Sent /\ d.outbox \subseteq Row /\ d.lastId \in Nat /\ d.rows \subseteq Message
      /\ d.read \in [Chats -> Nat]
      /\ e.outbox \subseteq Row /\ e.lastId \in Nat /\ e.rows \subseteq Message
  BY <1>1 DEF DbType
<1>6. \A y \in d.applied :
        /\ Upd(y).kind \in {"content", "expired", "read", "deleted"}
        /\ Upd(y).id \in Nat
        /\ ~CommonDeletion(Upd(y)) => Upd(y).chat \in Chats
        /\ CommonDeletion(Upd(y)) => \A m \in Message : Msg(Upd(y)) # m
  <2> TAKE y \in d.applied
  <2>1. y[1] \in Streams /\ Upd(y) \in UpdatesOf(y[1]) /\ Upd(y) \in Update
    BY <1>5, SentTyped DEF UpdatesOf
  <2> QED BY <2>1, Kinds
<1>7. /\ \A y : SettledIn(d, y) => SettledIn(e, y)
      /\ \A r \in d.outbox : r \in e.outbox \/ SettledIn(e, Of(r))
      /\ x \in PendingIn(e) \/ SettledIn(e, x)
  BY ApplySettles
<1> HIDE DEF u, e
<1>8. \A r \in e.outbox : Of(r) \in e.applied /\ r.id \in 1..e.lastId
  <2> TAKE r \in e.outbox
  <2>1. CASE r \in d.outbox
    BY <2>1, <1>1, <1>5 DEF DbInv
  <2>2. CASE Of(r) = x /\ r.id = d.lastId + 1 /\ r.id = e.lastId
    BY <2>2, <1>1, <1>5
  <2> QED BY <1>1, <2>1, <2>2
<1>9. \A q, r \in e.outbox : q.id = r.id => q = r
  <2> SUFFICES ASSUME NEW q \in e.outbox, NEW r \in e.outbox, q.id = r.id PROVE q = r
    OBVIOUS
  <2>1. \A p \in d.outbox : p.id \in 1..d.lastId
    BY DEF DbInv
  <2>2. CASE q \in d.outbox /\ r \in d.outbox
    BY <2>2 DEF DbInv
  <2>3. CASE q \notin d.outbox /\ r \notin d.outbox
    BY <2>3, <1>1, <1>5 DEF Row, Of
  <2> QED BY <2>1, <2>2, <2>3, <1>1, <1>5
<1>10. \A n \in e.common : \E y \in e.applied : CommonDeletion(Upd(y)) /\ Upd(y).id = n
  BY <1>1, <1>2 DEF DbInv, u
<1>11. \A y \in e.applied : CommonDeletion(Upd(y)) => Upd(y).id \in e.common
  BY <1>1, <1>2 DEF DbInv, u
<1>12. \A y \in e.applied :
         Upd(y).kind # "read" /\ ~CommonDeletion(Upd(y)) => Msg(Upd(y)) \in e.rows
  BY <1>1, <1>2 DEF DbInv, u
<1>13. NothingLostIn(e)
  <2> SUFFICES ASSUME NEW y \in e.applied PROVE y \in PendingIn(e) \/ SettledIn(e, y)
    BY DEF NothingLostIn
  <2>1. CASE y \in d.applied
    BY <2>1, <1>7 DEF DbInv, NothingLostIn, PendingIn
  <2> QED BY <2>1, <1>1, <1>7
<1>14. ExpiredNotPendingIn(e)
  <2> SUFFICES ASSUME NEW r \in e.outbox, NEW y \in e.applied,
                      Upd(Of(r)).kind = "content", Upd(y).kind = "expired",
                      Msg(Upd(Of(r))) = Msg(Upd(y))
               PROVE  FALSE
    BY DEF ExpiredNotPendingIn, IsContent
  <2>1. CASE r \in d.outbox /\ y \in d.applied
    BY <2>1 DEF DbInv, ExpiredNotPendingIn, IsContent
  <2>2. CASE r \in d.outbox /\ y = x
    <3>1. r \in Naming(d, u)
      BY <2>2 DEF Naming, u
    <3>2. r.id = d.lastId + 1
      BY <1>2, <2>2, <3>1 DEF u
    <3> QED BY <2>2, <3>2, <1>5 DEF DbInv
  <2>3. CASE r \notin d.outbox /\ y \in d.applied
    <3>1. Of(r) = x
      BY <1>1, <2>3
    <3>2. Msg(Upd(y)) \in d.rows
      BY <2>3 DEF DbInv, CommonDeletion
    <3>3. Msg(Upd(y)) \in d.tomb
      BY <3>2, <2>3 DEF DbInv, DeletionExactIn, Deletes
    <3> QED BY <1>1, <1>2, <2>3, <3>1, <3>3 DEF u
  <2> QED BY <1>1, <2>1, <2>2, <2>3
<1>15. DeletionExactIn(e)
  <2> SUFFICES ASSUME NEW m \in e.rows
               PROVE  m \in e.tomb <=> \E y \in e.applied : Deletes(Upd(y), m)
    BY DEF DeletionExactIn
  <2>1. m \in e.tomb <=> (m \in d.tomb \/ Deletes(u, m) \/ (m \notin d.rows /\ m.id \in d.common /\ m.chat \in Private))
    <3>1. m \in Message
      BY <1>5
    <3>2. d.tomb \subseteq d.rows /\ (CommonDeletion(u) => Msg(u) # m)
      BY <1>4, <3>1
    <3>3. CASE u.kind = "read"
      BY <3>1, <3>2, <3>3, <1>2, <1>4 DEF Deletes, CommonDeletion
    <3>4. CASE u.kind = "expired"
      BY <3>1, <3>2, <3>4, <1>2, <1>4 DEF Deletes, CommonDeletion
    <3>5. CASE CommonDeletion(u)
      BY <3>1, <3>2, <3>5, <1>2, <1>4 DEF Deletes, CommonDeletion
    <3>6. CASE u.kind = "deleted" /\ ~CommonDeletion(u)
      BY <3>1, <3>2, <3>6, <1>2, <1>4 DEF Deletes, CommonDeletion
    <3>7. CASE u.kind = "content"
      BY <3>1, <3>2, <3>7, <1>2, <1>4 DEF Deletes, CommonDeletion
    <3> QED BY <1>4, <3>3, <3>4, <3>5, <3>6, <3>7 DEF CommonDeletion
  <2>2. CASE m \in d.rows
    BY <2>1, <2>2, <1>1 DEF DbInv, DeletionExactIn, u
  <2>3. CASE m \notin d.rows
    <3>1. \A y \in d.applied : Upd(y).kind # "read" /\ Msg(Upd(y)) = m => CommonDeletion(Upd(y))
      BY <2>3 DEF DbInv
    <3>2. \A y \in d.applied : Deletes(Upd(y), m) => CommonDeletion(Upd(y)) /\ Upd(y).id = m.id /\ m.chat \in Private
      BY <3>1, <1>5, <1>6 DEF Deletes, CommonDeletion
    <3>3. (m.id \in d.common /\ m.chat \in Private) <=> \E y \in d.applied : Deletes(Upd(y), m)
      BY <3>2 DEF DbInv, Deletes, CommonDeletion
    <3> QED BY <2>1, <2>3, <3>3, <1>1 DEF u
  <2> QED BY <2>2, <2>3
<1>16. ReadMarkersIn(e)
  <2> SUFFICES ASSUME NEW y \in e.applied, Upd(y).kind = "read"
               PROVE  e.read[Upd(y).chat] >= Upd(y).id
    BY DEF ReadMarkersIn
  <2>1. \A c \in Chats : e.read[c] \in Nat /\ e.read[c] >= d.read[c] /\ d.read[c] \in Nat
    <3>1. CASE u.kind = "read"
      BY <3>1, <1>2, <1>4, <1>5 DEF CommonDeletion
    <3> QED BY <3>1, <1>2, <1>5
  <2>2. CASE y \in d.applied
    BY <2>1, <2>2, <1>6 DEF DbInv, ReadMarkersIn, CommonDeletion
  <2>3. CASE y = x
    BY <2>3, <1>2, <1>4, <1>5 DEF u, CommonDeletion
  <2> QED BY <1>1, <2>2, <2>3
<1> QED BY <1>8, <1>9, <1>10, <1>11, <1>12, <1>13, <1>14, <1>15, <1>16 DEF DbInv, e

\* The row of an update stands behind those of the earlier ones.
LEMMA ApplyOrders ==
  ASSUME TypeOK, NEW d \in DbType, d.tomb \subseteq d.rows, DbInv(d), OrderedIn(d), NEW x \in Sent,
         \A i \in 1..(x[2] - 1) : i > base[x[1]] => <<x[1], i>> \in d.applied
  PROVE  OrderedIn(ApplyOne(d, x))
<1> DEFINE e == ApplyOne(d, x)
<1>1. /\ \A r \in e.outbox : r \in d.outbox \/ (Of(r) = x /\ r.id = d.lastId + 1 /\ r.id = e.lastId)
      /\ e \in DbType /\ d.lastId <= e.lastId
  BY ApplyGrows
<1>2. /\ \A y : SettledIn(d, y) => SettledIn(e, y)
      /\ \A r \in d.outbox : r \in e.outbox \/ SettledIn(e, Of(r))
  BY ApplySettles
<1>3. d.outbox \subseteq Row /\ e.outbox \subseteq Row /\ d.lastId \in Nat
  BY <1>1 DEF DbType
<1> HIDE DEF e
<1>4. SUFFICES ASSUME NEW r \in e.outbox, NEW i \in 1..(r.i - 1), i > base[r.s]
               PROVE  \/ SettledIn(e, <<r.s, i>>)
                      \/ \E q \in e.outbox : Of(q) = <<r.s, i>> /\ q.id < r.id
  BY DEF OrderedIn, e
<1>5. CASE r \in d.outbox
  <2>1. \/ SettledIn(d, <<r.s, i>>)
        \/ \E q \in d.outbox : Of(q) = <<r.s, i>> /\ q.id < r.id
    BY <1>4, <1>5 DEF OrderedIn
  <2> QED BY <2>1, <1>2
<1>6. CASE r \notin d.outbox
  <2>1. r.s = x[1] /\ r.i = x[2] /\ r.id = d.lastId + 1
    BY <1>1, <1>6 DEF Of
  <2>2. <<r.s, i>> \in d.applied
    BY <1>4, <2>1
  <2>3. CASE SettledIn(d, <<r.s, i>>)
    BY <2>3, <1>2
  <2>4. CASE <<r.s, i>> \in PendingIn(d)
    <3>1. PICK q \in d.outbox : Of(q) = <<r.s, i>>
      BY <2>4 DEF PendingIn
    <3>2. q.id < r.id
      BY <2>1, <1>3 DEF DbInv
    <3> QED BY <3>1, <3>2, <1>2
  <2> QED BY <2>2, <2>3, <2>4 DEF DbInv, NothingLostIn
<1> QED BY <1>5, <1>6

\* Rows that were handed out may be acknowledged.
LEMMA AckKeeps ==
  ASSUME NEW d \in DbType, DbInv(d), OrderedIn(d), NEW left, left \subseteq d.outbox,
         \A r \in d.outbox : r \in left \/ Of(r) \in handed
  PROVE  LET e == [d EXCEPT !.outbox = left]
         IN  /\ e \in DbType
             /\ e.outbox = left /\ e.applied = d.applied /\ e.tomb = d.tomb /\ e.rows = d.rows
             /\ e.lastId = d.lastId
             /\ DbInv(e) /\ OrderedIn(e)
             /\ \A y : SettledIn(d, y) => SettledIn(e, y)
<1> DEFINE e == [d EXCEPT !.outbox = left]
<1>1. /\ e \in DbType
      /\ e.outbox = left /\ e.applied = d.applied /\ e.tomb = d.tomb /\ e.rows = d.rows
      /\ e.lastId = d.lastId /\ e.common = d.common /\ e.read = d.read
  BY DEF DbType
<1> HIDE DEF e
<1>2. \A v : Noticed(d, v) => Noticed(e, v)
  BY <1>1 DEF Noticed, PendingIn
<1>3. \A y : SettledIn(d, y) => SettledIn(e, y)
  BY <1>1, <1>2 DEF SettledIn
<1>4. \A r \in d.outbox : r \in e.outbox \/ SettledIn(e, Of(r))
  BY <1>1 DEF SettledIn
<1>5. NothingLostIn(e)
  BY <1>1, <1>3, <1>4 DEF DbInv, NothingLostIn, PendingIn
<1>6. OrderedIn(e)
  <2> SUFFICES ASSUME NEW r \in e.outbox, NEW i \in 1..(r.i - 1), i > base[r.s]
               PROVE  \/ SettledIn(e, <<r.s, i>>)
                      \/ \E q \in e.outbox : Of(q) = <<r.s, i>> /\ q.id < r.id
    BY DEF OrderedIn
  <2>1. \/ SettledIn(d, <<r.s, i>>)
        \/ \E q \in d.outbox : Of(q) = <<r.s, i>> /\ q.id < r.id
    BY <1>1 DEF OrderedIn
  <2> QED BY <2>1, <1>3, <1>4
<1>7. ExpiredNotPendingIn(e) /\ DeletionExactIn(e) /\ ReadMarkersIn(e)
  BY <1>1 DEF DbInv, ExpiredNotPendingIn, DeletionExactIn, ReadMarkersIn
<1>8. DbInv(e)
  BY <1>1, <1>5, <1>7 DEF DbInv
<1> QED BY <1>1, <1>3, <1>6, <1>8 DEF e

\* The database of a new account.
LEMMA EmptyKeeps == EmptyDb \in DbType /\ EmptyDb.tomb \subseteq EmptyDb.rows /\ DbInv(EmptyDb) /\ OrderedIn(EmptyDb)
<1>1. EmptyDb \in DbType /\ EmptyDb.tomb \subseteq EmptyDb.rows
  BY DEF EmptyDb, DbType
<1>2. EmptyDb.applied = {} /\ EmptyDb.outbox = {} /\ EmptyDb.rows = {} /\ EmptyDb.common = {}
  BY DEF EmptyDb
<1>3. DbInv(EmptyDb) /\ OrderedIn(EmptyDb)
  BY <1>2 DEF DbInv, OrderedIn, NothingLostIn, ExpiredNotPendingIn, DeletionExactIn, ReadMarkersIn
<1> QED BY <1>1, <1>3

\* What holds of a database goes on to hold while consumers see more of it.
LEMMA FrameDb ==
  ASSUME NEW w \in DbType, DbInv(w), OrderedIn(w), feed' = feed, handed \subseteq handed',
         base \in [Streams -> Nat], base' \in [Streams -> Nat],
         \A s \in Streams : base[s] <= base'[s]
  PROVE  /\ db' = w => (DbInv(db) /\ OrderedIn(db))' /\ \A y : SettledIn(w, y) => SettledIn(db, y)'
         /\ work' = w => (DbInv(work) /\ OrderedIn(work))' /\ \A v : Noticed(w, v) => Noticed(work, v)'
<1>1. \A r \in w.outbox : r.s \in Streams /\ r.i \in Nat
  BY DEF DbType, Row
<1>2. \A i \in Nat, s \in Streams : i > base'[s] => i > base[s]
  OBVIOUS
<1>3. ASSUME db' = w
      PROVE  (DbInv(db) /\ OrderedIn(db))' /\ \A y : SettledIn(w, y) => SettledIn(db, y)'
  <2>1. \A v : Noticed(w, v) => Noticed(db, v)'
    BY <1>3 DEF Noticed, PendingIn, Upd, Msg, Of
  <2>2. \A y : SettledIn(w, y) => SettledIn(db, y)'
    BY <1>3, <2>1 DEF SettledIn, Upd, Msg, IsContent
  <2>3. NothingLostIn(db)'
    BY <1>3, <2>2 DEF DbInv, NothingLostIn, PendingIn, Of
  <2>4. OrderedIn(db)'
    BY <1>1, <1>2, <1>3, <2>2 DEF OrderedIn, Of
  <2>5. (ExpiredNotPendingIn(db) /\ DeletionExactIn(db) /\ ReadMarkersIn(db))'
    <3>1. ExpiredNotPendingIn(db)'
      BY <1>3 DEF DbInv, ExpiredNotPendingIn, Upd, Msg, Of, IsContent
    <3>2. DeletionExactIn(db)'
      BY <1>3 DEF DbInv, DeletionExactIn, Upd, Msg, Deletes
    <3>3. ReadMarkersIn(db)'
      BY <1>3 DEF DbInv, ReadMarkersIn, Upd
    <3> QED BY <3>1, <3>2, <3>3
  <2>6. DbInv(db)'
    BY <1>3, <2>3, <2>5 DEF DbInv, Upd, Msg, Of, CommonDeletion
  <2> QED BY <2>2, <2>4, <2>6
<1>4. ASSUME work' = w
      PROVE  (DbInv(work) /\ OrderedIn(work))' /\ \A v : Noticed(w, v) => Noticed(work, v)'
  <2>1. \A v : Noticed(w, v) => Noticed(work, v)'
    BY <1>4 DEF Noticed, PendingIn, Upd, Msg, Of
  <2>2. \A y : SettledIn(w, y) => SettledIn(work, y)'
    BY <1>4, <2>1 DEF SettledIn, Upd, Msg, IsContent
  <2>3. NothingLostIn(work)'
    BY <1>4, <2>2 DEF DbInv, NothingLostIn, PendingIn, Of
  <2>4. OrderedIn(work)'
    BY <1>1, <1>2, <1>4, <2>2 DEF OrderedIn, Of
  <2>5. (ExpiredNotPendingIn(work) /\ DeletionExactIn(work) /\ ReadMarkersIn(work))'
    <3>1. ExpiredNotPendingIn(work)'
      BY <1>4 DEF DbInv, ExpiredNotPendingIn, Upd, Msg, Of, IsContent
    <3>2. DeletionExactIn(work)'
      BY <1>4 DEF DbInv, DeletionExactIn, Upd, Msg, Deletes
    <3>3. ReadMarkersIn(work)'
      BY <1>4 DEF DbInv, ReadMarkersIn, Upd
    <3> QED BY <3>1, <3>2, <3>3
  <2>6. DbInv(work)'
    BY <1>4, <2>3, <2>5 DEF DbInv, Upd, Msg, Of, CommonDeletion
  <2> QED BY <2>1, <2>4, <2>6
<1> QED BY <1>3, <1>4

----------------------------------------------------------------------------
(* The steps.                                                              *)

\* What no step changes, and what only grows.
LEMMA StepFrame ==
  ASSUME TypeOK, Barrier, UpdateNext
  PROVE  /\ feed' = feed /\ handed \subseteq handed' /\ shown \subseteq shown'
         /\ base' \in [Streams -> Nat] /\ \A s \in Streams : base[s] <= base'[s]
         /\ sent' \in [Streams -> Nat] /\ \A s \in Streams : sent[s] <= sent'[s] /\ sent'[s] <= Len(feed[s])
<1>1. base \in [Streams -> Nat] /\ sent \in [Streams -> Nat] /\ \A s \in Streams : sent[s] <= Len(feed[s])
  BY DEF TypeOK
<1>2. ASSUME NEW s \in Streams, Produce(s) PROVE sent' \in [Streams -> Nat] /\ \A t \in Streams : sent[t] <= sent'[t] /\ sent'[t] <= Len(feed[t])
  <2>1. \A t \in Streams : Len(feed[t]) \in Nat
    BY UpdateAssumption DEF UpdateAssumption, TypeOK
  <2>2. ASSUME NEW t \in Streams PROVE sent[t] <= sent'[t] /\ sent'[t] <= Len(feed[t])
    BY <1>1, <1>2, <2>1 DEF Produce
  <2> QED BY <1>1, <1>2, <2>2 DEF Produce
<1>3. ASSUME NEW s \in Streams, Adopt(s) PROVE base' \in [Streams -> Nat] /\ \A t \in Streams : base[t] <= base'[t]
  <2>1. base[s] = 0
    BY <1>3 DEF Adopt, Barrier
  <2>2. PICK p \in Baseline(s) : base' = base \/ base' = [base EXCEPT ![s] = p]
    BY <1>3 DEF Adopt
  <2>3. p \in Nat
    BY <1>1, <2>2 DEF Baseline
  <2>4. base' \in [Streams -> Nat]
    BY <1>1, <2>2, <2>3
  <2>5. ASSUME NEW t \in Streams PROVE base[t] <= base'[t]
    BY <1>1, <2>1, <2>2, <2>3
  <2> QED BY <2>4, <2>5
<1>4. \A t \in Streams : base[t] <= base[t] /\ sent[t] <= sent[t]
  BY <1>1
<1>5. CASE \E s \in Streams : Produce(s)
  BY <1>1, <1>2, <1>4, <1>5 DEF Produce, userVars
<1>6. CASE \E s \in Streams : Adopt(s)
  BY <1>1, <1>3, <1>4, <1>6 DEF Adopt, userVars
<1>7. CASE \E s \in Streams : Begin(s) \/ SetCheckpoint(s) \/ RecoveryFails(s)
  BY <1>1, <1>4, <1>7 DEF Begin, SetCheckpoint, RecoveryFails, userVars
<1>8. CASE StopUpdates \/ InHandle \/ \E m \in Modes : OpenUpdates(m)
  BY <1>1, <1>4, <1>8 DEF StopUpdates, InHandle, PersistOne, Commit, RollBack, OpenUpdates, userVars
<1>9. CASE Listen \/ ListPending \/ AckReceipt
  BY <1>1, <1>4, <1>9 DEF Listen, CheckBarrier, SelectRow, Consider, Emit, Acknowledge, ListPending, AckReceipt, userVars
<1> QED BY <1>5, <1>6, <1>7, <1>8, <1>9 DEF UpdateNext, Manage

\* What a step writes: the database, and the copy of a transaction.
Acked(left) ==
  /\ ~InTx
  /\ left \subseteq db.outbox
  /\ \A r \in db.outbox : r \in left \/ Of(r) \in handed
  /\ db' = [db EXCEPT !.outbox = left]

LEMMA Writes ==
  ASSUME UpdateInv, UpdateNext
  PROVE  /\ \/ db' = db
            \/ InTx /\ Commit
            \/ \E left : Acked(left) /\ work' = work
         /\ \/ work' = work
            \/ work' = EmptyDb
            \/ ~InTx /\ work' = db /\ db' = db
            \/ PersistOne
<1>1. CASE \E s \in Streams : Produce(s) \/ Adopt(s) \/ SetCheckpoint(s) \/ RecoveryFails(s)
  BY <1>1 DEF Produce, Adopt, SetCheckpoint, RecoveryFails, managerVars
<1>2. CASE \E s \in Streams : Begin(s)
  BY <1>2 DEF Begin
<1>3. CASE StopUpdates \/ InHandle \/ \E m \in Modes : OpenUpdates(m)
  BY <1>3 DEF StopUpdates, InHandle, PersistOne, Commit, RollBack, OpenUpdates
<1>4. CASE CheckBarrier \/ SelectRow \/ Consider \/ Emit \/ ListPending
  BY <1>4 DEF CheckBarrier, SelectRow, Consider, Emit, ListPending, managerVars
<1>5. CASE Acknowledge
  <2>1. CASE db' = db
    BY <1>5, <2>1 DEF Acknowledge, managerVars
  <2>2. CASE db' # db
    <3> DEFINE left == {r \in db.outbox : r.id # cons.row.id}
    <3>1. db' = [db EXCEPT !.outbox = left] /\ ~InTx /\ cons.pc = "ack" /\ work' = work
      BY <1>5, <2>2 DEF Acknowledge, managerVars
    <3>2. \A r \in db.outbox : r \in left \/ Of(r) \in handed
      BY <3>1 DEF UpdateInv, Consumers
    <3> QED BY <3>1, <3>2 DEF Acked
  <2> QED BY <2>1, <2>2
<1>6. CASE AckReceipt
  <2>1. PICK r \in shown : ~InTx /\ r \in db.outbox /\ db' = [db EXCEPT !.outbox = @ \ {r}] /\ work' = work
    BY <1>6 DEF AckReceipt, managerVars
  <2>2. Of(r) \in handed
    BY DEF UpdateInv, Consumers
  <2>3. Acked(db.outbox \ {r})
    BY <2>1, <2>2 DEF Acked
  <2> QED BY <2>1, <2>3
<1> QED BY <1>1, <1>2, <1>3, <1>4, <1>5, <1>6 DEF UpdateNext, Manage, Listen

\* The update that a transaction applies next was numbered, and those before it
\* are in its database.
LEMMA NextUpdate ==
  ASSUME TypeOK, Handling, InTx, tx.next <= tx.upto
  PROVE  /\ <<tx.s, tx.next>> \in Sent
         /\ \A i \in 1..(tx.next - 1) : i > base[tx.s] => <<tx.s, i>> \in work.applied
<1>1. tx.s \in Streams /\ tx.next \in Nat /\ tx.upto \in Nat /\ sent[tx.s] \in Nat
  BY DEF TypeOK
<1>2. tx.next \in 1..sent[tx.s]
  BY <1>1 DEF Handling
<1> QED BY <1>1, <1>2 DEF Sent, Handling, CoveredTo

\* The databases stay well-formed.
DbGood(d) == d \in DbType /\ d.tomb \subseteq d.rows

LEMMA DbStep ==
  ASSUME UpdateInv, UpdateNext
  PROVE  /\ (DbGood(db) /\ DbGood(work))'
         /\ (DbInv(db) /\ OrderedIn(db) /\ DbInv(work) /\ OrderedIn(work))'
         /\ \A y : SettledIn(db, y) => SettledIn(db, y)'
<1>1. /\ feed' = feed /\ handed \subseteq handed'
      /\ base \in [Streams -> Nat] /\ base' \in [Streams -> Nat]
      /\ \A s \in Streams : base[s] <= base'[s]
      /\ sent \in [Streams -> Nat] /\ sent' \in [Streams -> Nat]
      /\ \A s \in Streams : sent[s] <= sent'[s]
  BY StepFrame DEF UpdateInv, TypeOK
<1>2. Sent \subseteq Sent'
  BY <1>1 DEF Sent
<1>3. \A w : w \in DbType => w \in DbType'
  <2> SUFFICES ASSUME NEW w, w \in DbType PROVE w \in DbType'
    OBVIOUS
  <2>1. w.applied \subseteq Sent'
    BY <1>2 DEF DbType
  <2> QED BY <2>1 DEF DbType
<1>4. /\ DbGood(db) /\ DbInv(db) /\ OrderedIn(db)
      /\ DbGood(work) /\ DbInv(work) /\ OrderedIn(work)
  BY DEF UpdateInv, TypeOK, DbGood
<1>5. PICK d : /\ db' = d /\ DbGood(d) /\ DbInv(d) /\ OrderedIn(d)
               /\ \A y : SettledIn(db, y) => SettledIn(d, y)
  <2>1. CASE db' = db
    BY <1>4, <2>1
  <2>2. CASE InTx /\ Commit
    <3>1. db' = work
      BY <2>2 DEF Commit
    <3>2. db.tomb \subseteq work.tomb
      BY <2>2 DEF UpdateInv, Handling
    <3>3. \A v : Noticed(db, v) => Noticed(work, v)
      <4> SUFFICES ASSUME NEW v, Noticed(db, v) PROVE Noticed(work, v)
        OBVIOUS
      <4>1. PICK y \in handed \cup PendingIn(db) : Upd(y).kind = "expired" /\ Msg(Upd(y)) = Msg(v)
        BY DEF Noticed
      <4>2. CASE y \in handed
        BY <4>1, <4>2 DEF Noticed
      <4>3. CASE y \in PendingIn(db)
        <5>1. Noticed(work, Upd(y))
          BY <2>2, <4>1, <4>3 DEF UpdateInv, Handling, PendingIn
        <5> QED BY <4>1, <5>1 DEF Noticed
      <4> QED BY <4>2, <4>3
    <3>4. \A y : SettledIn(db, y) => SettledIn(work, y)
      BY <3>2, <3>3 DEF SettledIn
    <3> QED BY <1>4, <3>1, <3>4
  <2>3. CASE \E left : Acked(left)
    <3>1. PICK left : Acked(left)
      BY <2>3
    <3>2. /\ db \in DbType /\ db.tomb \subseteq db.rows /\ left \subseteq db.outbox
          /\ \A r \in db.outbox : r \in left \/ Of(r) \in handed
          /\ db' = [db EXCEPT !.outbox = left]
      BY <1>4, <3>1 DEF Acked, DbGood
    <3> DEFINE e == [db EXCEPT !.outbox = left]
    <3>3. /\ e \in DbType /\ e.tomb = db.tomb /\ e.rows = db.rows
          /\ DbInv(e) /\ OrderedIn(e)
          /\ \A y : SettledIn(db, y) => SettledIn(e, y)
      BY <1>4, <3>2, AckKeeps
    <3>4. DbGood(e)
      BY <3>2, <3>3 DEF DbGood
    <3> QED BY <3>2, <3>3, <3>4
  <2> QED BY <2>1, <2>2, <2>3, Writes
<1>6. PICK w : work' = w /\ DbGood(w) /\ DbInv(w) /\ OrderedIn(w)
  <2>1. CASE work' = work \/ work' = db
    BY <1>4, <2>1
  <2>2. CASE work' = EmptyDb
    BY <2>2, EmptyKeeps DEF DbGood
  <2>3. CASE PersistOne
    <3>1. /\ work' = ApplyOne(work, <<tx.s, tx.next>>)
          /\ TypeOK /\ Handling /\ InTx /\ tx.next <= tx.upto
      BY <2>3 DEF PersistOne, UpdateInv
    <3> DEFINE x == <<tx.s, tx.next>>
    <3>2. /\ x \in Sent
          /\ \A i \in 1..(x[2] - 1) : i > base[x[1]] => <<x[1], i>> \in work.applied
      BY <3>1, NextUpdate
    <3>3. work \in DbType /\ work.tomb \subseteq work.rows
      BY <1>4 DEF DbGood
    <3> HIDE DEF x
    <3>4. DbInv(ApplyOne(work, x)) /\ DbGood(ApplyOne(work, x))
      BY <1>4, <3>1, <3>2, <3>3, ApplyKeeps, ApplyGrows DEF DbGood
    <3>5. OrderedIn(ApplyOne(work, x))
      BY <1>4, <3>1, <3>2, <3>3, ApplyOrders
    <3> QED BY <3>1, <3>4, <3>5 DEF x
  <2> QED BY <2>1, <2>2, <2>3, Writes
<1>7. d \in DbType /\ w \in DbType
  BY <1>5, <1>6 DEF DbGood
<1>8. (DbInv(db) /\ OrderedIn(db))' /\ \A y : SettledIn(d, y) => SettledIn(db, y)'
  BY <1>1, <1>5, <1>7, FrameDb
<1>9. (DbInv(work) /\ OrderedIn(work))'
  BY <1>1, <1>6, <1>7, FrameDb
<1>10. (DbGood(db) /\ DbGood(work))'
  BY <1>3, <1>5, <1>6, <1>7 DEF DbGood
<1> QED BY <1>5, <1>8, <1>9, <1>10

LEMMA TypeStep ==
  ASSUME UpdateInv, UpdateNext
  PROVE  TypeOK'
<1> DEFINE Plain == /\ stored \in [Streams -> Int] /\ opens \in 0..MaxOpens /\ open \in BOOLEAN
                    /\ failed \in BOOLEAN /\ have \in [Streams -> Int] /\ due \in [Streams -> Int]
                    /\ tx \in [s : Streams, next : Nat, upto : Nat]
                    /\ cons \in [pc : Listening \cup {"off", "done"}, mode : AllModes, row : Row]
                    /\ shown \subseteq Row
                    /\ handed \subseteq Sent
<1>1. /\ Plain /\ feed \in Feeds
      /\ base \in [Streams -> Nat] /\ sent \in [Streams -> Nat]
      /\ db.outbox \subseteq Row /\ db.applied \subseteq Sent
  BY DEF UpdateInv, TypeOK, DbType
<1>2. /\ feed' = feed /\ base' \in [Streams -> Nat]
      /\ sent' \in [Streams -> Nat] /\ \A s \in Streams : sent[s] <= sent'[s] /\ sent'[s] <= Len(feed[s])
  BY StepFrame DEF UpdateInv
<1>3. Sent \subseteq Sent'
  BY <1>1, <1>2, SMTT(40) DEF Sent
<1>4. \A r \in db.outbox : Of(r) \in Sent
  BY <1>1 DEF UpdateInv, DbInv
<1>5. cons.pc \in {"got", "emit", "ack"} => Of(cons.row) \in Sent
  BY <1>1 DEF UpdateInv, Consumers
<1>6. Plain'
  <2>1. CASE \E s \in Streams : Produce(s)
    BY <2>1, <1>1, <1>3 DEF Produce, managerVars, userVars
  <2>2. CASE \E s \in Streams : Adopt(s)
    <3>1. PICK s \in Streams : \E p \in Baseline(s) :
            /\ have' = [have EXCEPT ![s] = p]
            /\ \/ stored' = [stored EXCEPT ![s] = p] /\ UNCHANGED failed
               \/ failed' = TRUE /\ UNCHANGED stored
      BY <2>2 DEF Adopt
    <3>2. Baseline(s) \subseteq Int
      BY <1>1 DEF Baseline
    <3>3. /\ stored' \in [Streams -> Int] /\ failed' \in BOOLEAN /\ have' \in [Streams -> Int]
      BY <1>1, <3>1, <3>2
    <3> QED BY <2>2, <3>3, <1>1, <1>3 DEF Adopt, userVars
  <2>3. CASE \E s \in Streams : Begin(s)
    <3>1. PICK s \in Streams : \E k \in 1..sent[s] :
            /\ have[s] # None /\ k > have[s]
            /\ \/ tx' = [s |-> s, next |-> have[s] + 1, upto |-> k] /\ UNCHANGED <<failed, due>>
               \/ failed' = TRUE /\ AfterHandler(s, k) /\ UNCHANGED tx
      BY <2>3 DEF Begin
    <3>2. 1..sent[s] \subseteq Nat /\ have[s] \in Nat
      BY <1>1, <3>1 DEF UpdateInv, Barrier, None
    <3>3. tx' \in [s : Streams, next : Nat, upto : Nat] /\ failed' \in BOOLEAN /\ due' \in [Streams -> Int]
      <4>1. PICK k \in 1..sent[s] :
              \/ tx' = [s |-> s, next |-> have[s] + 1, upto |-> k] /\ UNCHANGED <<failed, due>>
              \/ failed' = TRUE /\ AfterHandler(s, k) /\ UNCHANGED tx
        BY <3>1
      <4>2. CASE tx' = [s |-> s, next |-> have[s] + 1, upto |-> k] /\ UNCHANGED <<failed, due>>
        BY <1>1, <3>2, <4>2
      <4>3. CASE failed' = TRUE /\ AfterHandler(s, k) /\ UNCHANGED tx
        BY <1>1, <3>2, <4>3 DEF AfterHandler
      <4> QED BY <4>1, <4>2, <4>3
    <3> QED BY <2>3, <3>3, <1>1, <1>3 DEF Begin, userVars
  <2>4. CASE \E s \in Streams : SetCheckpoint(s)
    <3>1. PICK s \in Streams : SetCheckpoint(s)
      BY <2>4
    <3>2. /\ stored' \in [Streams -> Int] /\ failed' \in BOOLEAN
          /\ have' \in [Streams -> Int] /\ due' \in [Streams -> Int]
      <4>1. due[s] \in Int /\ None \in Int
        BY <1>1 DEF None
      <4>2. /\ have' = [have EXCEPT ![s] = due[s]] /\ due' = [due EXCEPT ![s] = None]
            /\ stored' = stored \/ stored' = [stored EXCEPT ![s] = due[s]]
            /\ failed' = failed \/ failed' = TRUE
        BY <3>1 DEF SetCheckpoint
      <4> QED BY <1>1, <4>1, <4>2
    <3> QED BY <3>1, <3>2, <1>1, <1>3 DEF SetCheckpoint, userVars
  <2>5. CASE \E s \in Streams : RecoveryFails(s)
    BY <2>5, <1>1, <1>3 DEF RecoveryFails, userVars
  <2>6. CASE \E m \in Modes : OpenUpdates(m)
    <3>1. PICK m \in Modes : OpenUpdates(m)
      BY <2>6
    <3>2. opens' \in 0..MaxOpens
      BY UpdateAssumption, <1>1, <3>1 DEF OpenUpdates, UpdateAssumption
    <3>3. cons' \in [pc : Listening \cup {"off", "done"}, mode : AllModes, row : Row]
      BY UpdateAssumption, <3>1 DEF OpenUpdates, UpdateAssumption, Row, NoRow, Listening, Streams
    <3> QED BY <3>1, <3>2, <3>3, <1>1, <1>3 DEF OpenUpdates, userVars
  <2>7. CASE StopUpdates
    <3>1. cons' \in [pc : Listening \cup {"off", "done"}, mode : AllModes, row : Row]
      BY <2>7 DEF StopUpdates, Row, NoRow, AllModes, Streams
    <3>2. tx' \in [s : Streams, next : Nat, upto : Nat]
      BY <2>7 DEF StopUpdates, NoTx, Streams
    <3>3. have' \in [Streams -> Int] /\ due' \in [Streams -> Int]
      BY <2>7 DEF StopUpdates, None
    <3> QED BY <2>7, <3>1, <3>2, <3>3, <1>1, <1>3 DEF StopUpdates, userVars
  <2>8. CASE PersistOne
    <3>1. tx' \in [s : Streams, next : Nat, upto : Nat]
      BY <2>8, <1>1 DEF PersistOne
    <3> QED BY <2>8, <3>1, <1>1, <1>3 DEF PersistOne, userVars
  <2>9. CASE Commit \/ RollBack
    <3>1. tx' \in [s : Streams, next : Nat, upto : Nat]
      BY <2>9 DEF Commit, RollBack, NoTx, Streams
    <3>2. due' \in [Streams -> Int]
      BY <2>9, <1>1 DEF Commit, RollBack, AfterHandler
    <3> QED BY <2>9, <3>1, <3>2, <1>1, <1>3 DEF Commit, RollBack, userVars
  <2>10. CASE CheckBarrier
    BY <2>10, <1>1, <1>3 DEF CheckBarrier, Become, managerVars, userVars, Listening
  <2>11. CASE SelectRow
    <3>1. cons' \in [pc : Listening \cup {"off", "done"}, mode : AllModes, row : Row]
      BY <2>11, <1>1 DEF SelectRow, Become, Listening
    <3> QED BY <2>11, <3>1, <1>1, <1>3 DEF SelectRow, managerVars, userVars
  <2>12. CASE Consider
    <3>1. cons' \in [pc : Listening \cup {"off", "done"}, mode : AllModes, row : Row]
      BY <2>12, <1>1 DEF Consider, Become, Listening
    <3>2. handed' \subseteq Sent
      BY <2>12, <1>1, <1>5 DEF Consider
    <3> QED BY <2>12, <3>1, <3>2, <1>1, <1>3 DEF Consider, managerVars
  <2>13. CASE Emit
    <3>1. cons' \in [pc : Listening \cup {"off", "done"}, mode : AllModes, row : Row]
      BY <2>13, <1>1 DEF Emit, Become, Listening
    <3>2. handed' \subseteq Sent
      BY <2>13, <1>1, <1>5 DEF Emit, userVars
    <3>3. shown' \subseteq Row
      BY <2>13, <1>1 DEF Emit, userVars
    <3> QED BY <2>13, <3>1, <3>2, <3>3, <1>1, <1>3 DEF Emit, managerVars
  <2>14. CASE Acknowledge
    <3>1. cons' \in [pc : Listening \cup {"off", "done"}, mode : AllModes, row : Row]
      <4>1. NoRow \in Row
        BY DEF NoRow, Row, Streams
      <4> QED BY <2>14, <1>1, <4>1 DEF Acknowledge, Become, Listening
    <3> QED BY <2>14, <3>1, <1>1, <1>3 DEF Acknowledge, managerVars, userVars
  <2>15. CASE ListPending
    <3>1. handed' \subseteq Sent /\ shown' \subseteq Row
      BY <2>15, <1>1, <1>4 DEF ListPending
    <3> QED BY <2>15, <3>1, <1>1, <1>3 DEF ListPending, managerVars
  <2>16. CASE AckReceipt
    BY <2>16, <1>1, <1>3 DEF AckReceipt, managerVars, userVars
  <2> QED BY <2>1, <2>2, <2>3, <2>4, <2>5, <2>6, <2>7, <2>8, <2>9, <2>10, <2>11, <2>12, <2>13,
             <2>14, <2>15, <2>16 DEF UpdateNext, Manage, InHandle, Listen
<1>7. (DbGood(db) /\ DbGood(work) /\ DbInv(db) /\ DbInv(work))'
  BY DbStep
<1> QED BY <1>1, <1>2, <1>6, <1>7 DEF TypeOK, DbGood, DbInv


\* CoveredTo, with the positions of adoption and the updates applied.
Covers(b, a, s, n) == \A i \in 1..n : i > b[s] => <<s, i>> \in a

\* What is covered stays covered: the database only gains updates, and a stream
\* is adopted once.
LEMMA CoverFrame ==
  ASSUME UpdateInv, UpdateNext
  PROVE  \A s \in Streams, n \in Int :
           Covers(base, db.applied, s, n) => Covers(base', db'.applied, s, n)
<1>1. db.applied \subseteq db'.applied
  <2>1. CASE InTx /\ Commit
    BY <2>1 DEF Commit, UpdateInv, Handling
  <2>2. CASE \E left : Acked(left)
    BY <2>2 DEF Acked, UpdateInv, TypeOK, DbType
  <2> QED BY <2>1, <2>2, Writes
<1>2. /\ base \in [Streams -> Nat] /\ base' \in [Streams -> Nat]
      /\ \A s \in Streams : base[s] <= base'[s]
  BY StepFrame DEF UpdateInv, TypeOK
<1>3. \A s \in Streams, i \in Int : i > base'[s] => i > base[s]
  BY <1>2
<1> QED BY <1>1, <1>3 DEF Covers

\* The barrier for one stream.
BarrierOf(s) ==
  /\ have[s] \in Nat \cup {None} /\ due[s] \in Nat \cup {None} /\ stored[s] \in Nat \cup {None}
  /\ ~open => have[s] = None
  /\ have[s] = None => due[s] = None
  /\ stored[s] = None => base[s] = 0
  /\ open /\ stored[s] # None => have[s] # None
  /\ ~failed => Covers(base, db.applied, s, have[s]) /\ Covers(base, db.applied, s, due[s])
  /\ Covers(base, db.applied, s, stored[s])

LEMMA BarrierSplit ==
  Barrier /\ CheckpointCovered <=> (~open => ~failed /\ ~InTx) /\ \A s \in Streams : BarrierOf(s)
BY DEF Barrier, CheckpointCovered, BarrierOf, CoveredTo, Covers

LEMMA BarrierStep ==
  ASSUME UpdateInv, UpdateNext
  PROVE  (~open => ~failed /\ ~InTx)' /\ \A s \in Streams : BarrierOf(s)'
<1>1. /\ stored \in [Streams -> Int] /\ base \in [Streams -> Nat] /\ sent \in [Streams -> Nat]
      /\ have \in [Streams -> Int] /\ due \in [Streams -> Int] /\ open \in BOOLEAN /\ failed \in BOOLEAN
      /\ tx \in [s : Streams, next : Nat, upto : Nat]
  BY DEF UpdateInv, TypeOK
<1>2. (~open => ~failed /\ ~InTx) /\ \A t \in Streams : BarrierOf(t)
  BY BarrierSplit DEF UpdateInv
<1>3. /\ \A t \in Streams : /\ have[t] \in Nat \cup {None} /\ due[t] \in Nat \cup {None}
                            /\ stored[t] \in Nat \cup {None}
      /\ None \in Int /\ None \notin Nat
  BY <1>2 DEF BarrierOf, None
<1>4. \A t \in Streams, n \in Int :
        Covers(base, db.applied, t, n) => Covers(base', db'.applied, t, n)
  BY CoverFrame
<1>5. \A t \in Streams : Covers(base', db'.applied, t, None)
  BY DEF Covers, None
\* A stream that a step leaves alone.
<1>6. ASSUME NEW t \in Streams, stored'[t] = stored[t], base'[t] = base[t],
             have'[t] = have[t], due'[t] = due[t], open' = open, failed' = failed \/ failed'
      PROVE  BarrierOf(t)'
  <2>1. Covers(base', db'.applied, t, stored'[t])
    BY <1>1, <1>2, <1>4, <1>6 DEF BarrierOf
  <2>2. ~failed' => Covers(base', db'.applied, t, have'[t]) /\ Covers(base', db'.applied, t, due'[t])
    BY <1>1, <1>2, <1>4, <1>6 DEF BarrierOf
  <2> QED BY <2>1, <2>2, <1>2, <1>3, <1>6 DEF BarrierOf
<1>7. CASE UNCHANGED <<stored, base, have, due, open, failed, tx>>
  BY <1>1, <1>2, <1>6, <1>7 DEF InTx
<1>8. CASE \E s \in Streams : Produce(s) \/ RecoveryFails(s)
  <2>1. UNCHANGED <<stored, base, have, due, open, tx>> /\ (failed' = failed \/ (failed' /\ open))
    BY <1>8 DEF Produce, RecoveryFails, managerVars
  <2> QED BY <1>1, <1>2, <1>6, <2>1 DEF InTx
<1>9. ASSUME NEW s \in Streams, Adopt(s) PROVE (~open => ~failed /\ ~InTx)' /\ \A t \in Streams : BarrierOf(t)'
  <2>1. open /\ open' /\ have[s] = None /\ db' = db /\ due' = due
    BY <1>9 DEF Adopt
  <2>2. PICK p \in Baseline(s) :
          /\ have' = [have EXCEPT ![s] = p]
          /\ \/ /\ ~failed /\ failed' = failed
                /\ stored' = [stored EXCEPT ![s] = p] /\ base' = [base EXCEPT ![s] = p]
             \/ failed' /\ stored' = stored /\ base' = base
    BY <1>9 DEF Adopt
  <2>3. p \in Nat
    BY <1>1, <2>2 DEF Baseline
  <2>4. ASSUME NEW t \in Streams, t # s PROVE BarrierOf(t)'
    BY <1>1, <1>6, <2>1, <2>2, <2>4
  <2>5. stored[s] = None /\ base[s] = 0 /\ due[s] = None
    BY <1>2, <2>1 DEF BarrierOf
  <2>6. base'[s] = p => Covers(base', db'.applied, s, p)
    BY <2>3 DEF Covers
  <2>7. BarrierOf(s)'
    <3>1. have'[s] = p /\ due'[s] = None
      BY <1>1, <2>1, <2>2, <2>5
    <3>2. CASE ~failed'
      <4>1. stored'[s] = p /\ base'[s] = p
        BY <1>1, <2>2, <3>2
      <4> QED BY <1>3, <1>5, <2>1, <2>3, <2>6, <3>1, <4>1 DEF BarrierOf
    <3>3. CASE failed'
      <4>1. (stored'[s] = None /\ base'[s] = 0) \/ (stored'[s] = p /\ base'[s] = p)
        BY <1>1, <2>2, <2>5
      <4> QED BY <1>3, <1>5, <2>1, <2>3, <2>6, <3>1, <3>3, <4>1 DEF BarrierOf
    <3> QED BY <3>2, <3>3
  <2> QED BY <2>1, <2>4, <2>7
<1>10. ASSUME NEW s \in Streams, Begin(s) PROVE (~open => ~failed /\ ~InTx)' /\ \A t \in Streams : BarrierOf(t)'
  <2>1. open /\ open' /\ have[s] # None /\ db' = db /\ UNCHANGED <<stored, base, have>>
    BY <1>10 DEF Begin
  <2>2. (due' = due /\ failed' = failed) \/ (failed' /\ \E k \in 1..sent[s] : AfterHandler(s, k))
    BY <1>10 DEF Begin
  <2>3. ASSUME NEW t \in Streams, t # s \/ due' = due PROVE BarrierOf(t)'
    <3>1. due'[t] = due[t]
      BY <1>1, <2>2, <2>3 DEF AfterHandler
    <3> QED BY <1>6, <2>1, <2>2, <3>1
  <2>4. CASE due' # due
    <3>1. failed' /\ due'[s] \in Nat
      BY <1>1, <2>2, <2>4 DEF AfterHandler
    <3>2. BarrierOf(s)'
      BY <1>2, <2>1, <3>1 DEF BarrierOf
    <3> QED BY <2>1, <2>3, <3>2
  <2> QED BY <2>1, <2>3, <2>4
<1>11. ASSUME NEW s \in Streams, SetCheckpoint(s) PROVE (~open => ~failed /\ ~InTx)' /\ \A t \in Streams : BarrierOf(t)'
  <2>1. /\ open /\ open' /\ due[s] # None /\ db' = db /\ base' = base
        /\ have' = [have EXCEPT ![s] = due[s]] /\ due' = [due EXCEPT ![s] = None]
        /\ \/ ~failed /\ failed' = failed /\ stored' = [stored EXCEPT ![s] = due[s]]
           \/ failed' /\ stored' = stored
    BY <1>1, <1>11 DEF SetCheckpoint
  <2>2. ASSUME NEW t \in Streams, t # s PROVE BarrierOf(t)'
    BY <1>1, <1>6, <2>1, <2>2
  <2>3. have'[s] = due[s] /\ due'[s] = None /\ (stored'[s] = stored[s] \/ (~failed /\ stored'[s] = due[s]))
    BY <1>1, <2>1
  <2>4. BarrierOf(s)'
    BY <1>2, <1>3, <1>5, <2>1, <2>3 DEF BarrierOf
  <2> QED BY <2>1, <2>2, <2>4
<1>12. ASSUME NEW m \in Modes, OpenUpdates(m) PROVE (~open => ~failed /\ ~InTx)' /\ \A t \in Streams : BarrierOf(t)'
  BY <1>2, <1>12 DEF OpenUpdates, BarrierOf
<1>13. CASE StopUpdates
  <2>1. /\ ~open' /\ ~failed' /\ ~InTx' /\ UNCHANGED <<db, stored, base>>
        /\ \A t \in Streams : have'[t] = None /\ due'[t] = None
    BY <1>13 DEF StopUpdates, InTx
  <2> QED BY <1>2, <1>5, <2>1 DEF BarrierOf
<1>14. CASE PersistOne
  BY <1>1, <1>2, <1>6, <1>14 DEF PersistOne
<1>15. CASE Commit
  <2> PICK s : s = tx.s
    OBVIOUS
  <2>1. /\ open /\ ~failed /\ have[s] # None /\ tx.next <= tx.upto + 1
        /\ CoveredTo(s, tx.next - 1, work)
    BY <1>15 DEF Commit, UpdateInv, Handling
  <2>2. /\ s \in Streams /\ tx.upto \in Nat /\ tx.next > tx.upto /\ db' = work /\ due' = [due EXCEPT ![s] = tx.upto]
        /\ UNCHANGED <<stored, base, open, failed, have>>
    BY <1>1, <1>15 DEF Commit
  <2>3. Covers(base', db'.applied, s, tx.upto)
    <3>1. tx.next - 1 = tx.upto
      BY <1>1, <2>1, <2>2
    <3> QED BY <2>1, <2>2, <3>1 DEF CoveredTo, Covers
  <2>4. ASSUME NEW t \in Streams, t # s PROVE BarrierOf(t)'
    BY <1>1, <1>6, <2>2, <2>4
  <2>5. BarrierOf(s)'
    <3>1. due'[s] = tx.upto
      BY <1>1, <2>2
    <3>2. Covers(base', db'.applied, s, have[s]) /\ Covers(base', db'.applied, s, stored[s])
      BY <1>1, <1>2, <1>4, <2>1, <2>2 DEF BarrierOf
    <3> QED BY <1>2, <2>1, <2>2, <2>3, <3>1, <3>2 DEF BarrierOf
  <2> QED BY <2>1, <2>2, <2>4, <2>5
<1>16. CASE RollBack
  <2> PICK s : s = tx.s
    OBVIOUS
  <2>1. open /\ have[s] # None
    BY <1>16 DEF RollBack, UpdateInv, Handling
  <2>2. s \in Streams /\ tx.upto \in Nat /\ failed' /\ AfterHandler(s, tx.upto) /\ UNCHANGED <<db, stored, base, open, have>>
    BY <1>1, <1>16 DEF RollBack
  <2>3. ASSUME NEW t \in Streams, t # s \/ due' = due PROVE BarrierOf(t)'
    <3>1. due'[t] = due[t]
      BY <1>1, <2>2, <2>3 DEF AfterHandler
    <3> QED BY <1>6, <2>2, <3>1
  <2>4. CASE due' # due
    <3>1. due'[s] \in Nat
      BY <1>1, <2>2, <2>4 DEF AfterHandler
    <3>2. BarrierOf(s)'
      BY <1>2, <2>1, <2>2, <3>1 DEF BarrierOf
    <3> QED BY <2>1, <2>2, <2>3, <3>2
  <2> QED BY <2>1, <2>2, <2>3, <2>4
<1>17. CASE Listen \/ ListPending \/ AckReceipt
  <2>1. UNCHANGED <<stored, base, have, due, open, failed, tx>>
    BY <1>17 DEF Listen, CheckBarrier, SelectRow, Consider, Emit, Acknowledge, ListPending, AckReceipt, managerVars
  <2> QED BY <1>7, <2>1
<1> QED BY <1>8, <1>9, <1>10, <1>11, <1>12, <1>13, <1>14, <1>15, <1>16, <1>17
     DEF UpdateNext, Manage, InHandle

LEMMA NoticedFrame ==
  ASSUME NEW w, work' = w, feed' = feed, handed \subseteq handed'
  PROVE  \A v : Noticed(w, v) => Noticed(work, v)'
BY DEF Noticed, PendingIn, Upd, Msg, Of

LEMMA HandlingStep ==
  ASSUME UpdateInv, UpdateNext
  PROVE  Handling'
<1>1. /\ have \in [Streams -> Int] /\ sent \in [Streams -> Nat] /\ tx \in [s : Streams, next : Nat, upto : Nat]
      /\ db.lastId \in Nat /\ work.lastId \in Nat
  BY DEF UpdateInv, TypeOK, DbType
<1>2. /\ feed' = feed /\ handed \subseteq handed'
      /\ \A s \in Streams : sent[s] <= sent'[s] /\ sent'[s] \in Nat
  BY StepFrame DEF UpdateInv
<1>3. \A s \in Streams : BarrierOf(s)
  BY BarrierSplit DEF UpdateInv
<1>4. /\ TypeOK /\ Handling
      /\ DbInv(work) /\ work \in DbType /\ work.tomb \subseteq work.rows
  BY DEF UpdateInv, TypeOK
\* No transaction, or none any more.
<1>5. ASSUME tx' = NoTx, work' = EmptyDb PROVE Handling'
  BY <1>5 DEF Handling, InTx
<1>6. ASSUME ~InTx, UNCHANGED <<tx, work>> PROVE Handling'
  BY <1>4, <1>6 DEF Handling, InTx
\* A transaction that the step does not concern.
<1>7. ASSUME UNCHANGED <<tx, work, db, open, failed, have, base>> PROVE Handling'
  <2>1. CASE InTx
    <3>1. \A v : Noticed(work, v) => Noticed(work, v)'
      BY <1>2, <1>7, NoticedFrame
    <3>2. \A r \in db'.outbox : (Upd(Of(r)).kind = "expired" => Noticed(work, Upd(Of(r))))'
      <4> TAKE r \in db'.outbox
      <4>1. Upd(Of(r))' = Upd(Of(r))
        BY <1>2 DEF Upd, Of
      <4>2. Upd(Of(r)).kind = "expired" => Noticed(work, Upd(Of(r)))
        BY <1>4, <1>7, <2>1 DEF Handling
      <4> QED BY <1>2, <1>7, <4>2 DEF Noticed, PendingIn, Upd, Msg, Of
    <3>3. tx.upto <= sent'[tx.s]
      <4>1. tx.s \in Streams /\ tx.upto <= sent[tx.s] /\ tx.upto \in Nat
        BY <1>1, <1>4, <2>1 DEF Handling
      <4> QED BY <1>1, <1>2, <4>1
    <3> QED BY <1>4, <1>7, <2>1, <3>2, <3>3 DEF Handling, InTx, CoveredTo
  <2> QED BY <1>6, <1>7, <2>1
<1>8. ASSUME NEW s \in Streams, Begin(s) PROVE Handling'
  <2>1. open /\ open' /\ ~InTx /\ have[s] # None /\ UNCHANGED <<db, base, have>>
    BY <1>8 DEF Begin
  <2>2. PICK k \in 1..sent[s] :
          /\ k > have[s]
          /\ \/ /\ ~failed /\ failed' = failed
                /\ tx' = [s |-> s, next |-> have[s] + 1, upto |-> k] /\ work' = db
             \/ UNCHANGED <<tx, work>>
    BY <1>8 DEF Begin
  <2>3. CASE UNCHANGED <<tx, work>>
    BY <1>6, <2>1, <2>3
  <2>4. CASE ~failed /\ failed' = failed /\ tx' = [s |-> s, next |-> have[s] + 1, upto |-> k] /\ work' = db
    <3>1. have[s] \in Nat /\ k <= sent'[s] /\ have[s] + 1 \in 1..(k + 1)
      BY <1>1, <1>2, <1>3, <2>1, <2>2 DEF BarrierOf
    <3>2. tx'.s = s /\ tx'.next = have[s] + 1 /\ tx'.upto = k /\ tx'.next - 1 = have[s]
      BY <2>4, <3>1
    <3>3. Covers(base, db.applied, s, have[s])
      BY <1>3, <2>4 DEF BarrierOf
    <3>4. CoveredTo(tx.s, tx.next - 1, work)'
      BY <2>1, <2>4, <3>2, <3>3 DEF CoveredTo, Covers
    <3>5. \A r \in db'.outbox : (Upd(Of(r)).kind = "expired" => Noticed(work, Upd(Of(r))))'
      BY <2>1, <2>4 DEF Noticed, PendingIn, Of
    <3>6. db'.lastId <= work'.lastId
      BY <1>1, <2>1, <2>4
    <3> QED BY <2>1, <2>4, <3>1, <3>2, <3>4, <3>5, <3>6 DEF Handling, InTx, NoTx
  <2> QED BY <2>2, <2>3, <2>4
<1>9. CASE PersistOne
  <2> DEFINE x == <<tx.s, tx.next>>
             e == ApplyOne(work, x)
  <2>1. /\ InTx /\ tx.next <= tx.upto
        /\ tx' = [tx EXCEPT !.next = @ + 1] /\ work' = e
        /\ UNCHANGED <<db, open, failed, have, base, sent, handed>>
    BY <1>9 DEF PersistOne, userVars
  <2>2. x \in Sent
    BY <1>4, <2>1, NextUpdate
  <2>3. /\ e.applied = work.applied \cup {x} /\ work.tomb \subseteq e.tomb /\ work.lastId <= e.lastId /\ e \in DbType
        /\ \A r \in e.outbox : r \in work.outbox \/ (Of(r) = x /\ r.id = work.lastId + 1 /\ r.id = e.lastId)
    BY <1>4, <2>2, ApplyGrows
  <2>4. \A v : Noticed(work, v) => Noticed(e, v)
    BY <1>4, <2>2, ApplySettles
  <2>5. e.lastId \in Nat
    BY <2>3 DEF DbType
  <2> HIDE DEF e
  <2>6. \A v : Noticed(e, v) => Noticed(work, v)'
    BY <1>2, <2>1, NoticedFrame
  <2>7. /\ tx'.s = tx.s /\ tx'.upto = tx.upto /\ tx'.next = tx.next + 1 /\ tx'.next - 1 = tx.next
        /\ tx'.next \in 1..(tx.upto + 1)
    BY <1>1, <2>1
  <2>8. /\ open /\ ~failed /\ have[tx.s] # None /\ tx.upto <= sent[tx.s]
        /\ CoveredTo(tx.s, tx.next - 1, work)
        /\ db.applied \subseteq work.applied /\ db.tomb \subseteq work.tomb /\ db.lastId <= work.lastId
        /\ \A r \in work.outbox : r \in db.outbox \/ r.id > db.lastId
        /\ \A r \in db.outbox : Upd(Of(r)).kind = "expired" => Noticed(work, Upd(Of(r)))
    BY <1>4, <2>1 DEF Handling
  <2>9. \A i \in 1..tx.next : i > base[tx.s] => <<tx.s, i>> \in e.applied
    <3>1. \A i \in 1..tx.next : i \in 1..(tx.next - 1) \/ i = tx.next
      BY <1>1
    <3> QED BY <2>3, <2>8, <3>1 DEF CoveredTo
  <2>10. CoveredTo(tx.s, tx.next - 1, work)'
    BY <2>1, <2>7, <2>9 DEF CoveredTo
  <2>11. \A r \in work'.outbox : r \in db'.outbox \/ r.id > db'.lastId
    BY <1>1, <2>1, <2>3, <2>8
  <2>12. \A r \in db'.outbox : (Upd(Of(r)).kind = "expired" => Noticed(work, Upd(Of(r))))'
    <3> SUFFICES ASSUME NEW r \in db.outbox, (Upd(Of(r)).kind = "expired")'
                 PROVE  Noticed(work, Upd(Of(r)))'
      BY <2>1
    <3>1. Upd(Of(r))' = Upd(Of(r))
      BY <1>2 DEF Upd, Of
    <3>2. Noticed(e, Upd(Of(r)))
      BY <2>4, <2>8, <3>1
    <3> QED BY <1>2, <2>1, <3>1, <3>2 DEF Noticed, PendingIn, Upd, Msg, Of
  <2>13. InTx'
    BY <1>1, <2>1, <2>7 DEF InTx, NoTx
  <2>14. db'.lastId <= work'.lastId
    BY <1>1, <2>1, <2>3, <2>5, <2>8
  <2> QED BY <2>1, <2>3, <2>7, <2>8, <2>10, <2>11, <2>12, <2>13, <2>14 DEF Handling
<1>10. CASE \E s \in Streams : Produce(s)
  BY <1>7, <1>10 DEF Produce, managerVars
<1>11. CASE \E s \in Streams : Adopt(s) \/ SetCheckpoint(s) \/ RecoveryFails(s)
  BY <1>6, <1>11 DEF Adopt, SetCheckpoint, RecoveryFails
<1>12. CASE \E m \in Modes : OpenUpdates(m)
  BY <1>6, <1>12 DEF OpenUpdates, UpdateInv, Barrier
<1>13. CASE StopUpdates \/ Commit \/ RollBack
  BY <1>5, <1>13 DEF StopUpdates, Commit, RollBack
<1>14. CASE CheckBarrier \/ Acknowledge \/ AckReceipt
  BY <1>6, <1>14 DEF CheckBarrier, Acknowledge, AckReceipt, managerVars
<1>15. CASE SelectRow \/ Consider \/ Emit \/ ListPending
  BY <1>7, <1>15 DEF SelectRow, Consider, Emit, ListPending, managerVars
<1> QED BY <1>8, <1>9, <1>10, <1>11, <1>12, <1>13, <1>14, <1>15
     DEF UpdateNext, Manage, InHandle, Listen

LEMMA EarlierFrame ==
  ASSUME UpdateInv, UpdateNext, NEW s \in Streams, NEW n, EarlierSettled(<<s, n>>)
  PROVE  EarlierSettled(<<s, n>>)'
<1>1. /\ base \in [Streams -> Nat] /\ base' \in [Streams -> Nat]
      /\ \A t \in Streams : base[t] <= base'[t]
  BY StepFrame DEF UpdateInv, TypeOK
<1>2. \A i \in Int : i > base'[s] => i > base[s]
  BY <1>1
<1>3. \A y : SettledIn(db, y) => SettledIn(db, y)'
  BY DbStep
<1>4. \A i \in 1..(n - 1) : i > base[s] => SettledIn(db, <<s, i>>)
  BY DEF EarlierSettled
<1>5. \A i \in 1..(n - 1) : i > base'[s] => SettledIn(db, <<s, i>>)'
  BY <1>2, <1>3, <1>4
<1> QED BY <1>5 DEF EarlierSettled

\* A row that was read from the outbox.
Held(q) ==
  /\ Of(q) \in db.applied
  /\ EarlierSettled(Of(q))
  /\ q.id <= db.lastId
  /\ \A r \in db.outbox : r.id = q.id => r = q

LEMMA HeldFrame ==
  ASSUME UpdateInv, UpdateNext, NEW q \in Row, Held(q)
  PROVE  Held(q)'
<1>1. EarlierSettled(Of(q))'
  BY EarlierFrame DEF Held, Of, Row
<1>2. db \in DbType /\ work \in DbType
  BY DEF UpdateInv, TypeOK
<1>3. CASE db' = db
  BY <1>1, <1>3 DEF Held
<1>4. CASE InTx /\ Commit
  <2>1. db' = work
    BY <1>4 DEF Commit
  <2>2. /\ db.applied \subseteq work.applied /\ db.lastId <= work.lastId
        /\ \A r \in work.outbox : r \in db.outbox \/ r.id > db.lastId
    BY <1>4 DEF UpdateInv, Handling
  <2>3. q.id \in Nat /\ db.lastId \in Nat /\ work.lastId \in Nat /\ \A r \in work.outbox : r.id \in Nat
    BY <1>2 DEF DbType, Row
  <2> QED BY <1>1, <2>1, <2>2, <2>3 DEF Held
<1>5. CASE \E left : Acked(left)
  <2>1. db'.applied = db.applied /\ db'.lastId = db.lastId /\ db'.outbox \subseteq db.outbox
    BY <1>2, <1>5 DEF Acked, DbType
  <2> QED BY <1>1, <2>1 DEF Held
<1> QED BY <1>3, <1>4, <1>5, Writes

\* The oldest row waits for nothing.
LEMMA OldestHeld ==
  ASSUME UpdateInv, NEW r \in db.outbox, \A q \in db.outbox : r.id <= q.id
  PROVE  Held(r)
<1>1. \A q \in db.outbox : q.id \in Nat
  BY DEF UpdateInv, TypeOK, DbType, Row
<1>2. DbInv(db) /\ OrderedIn(db)
  BY DEF UpdateInv
<1>3. EarlierSettled(Of(r))
  BY <1>1, <1>2 DEF OrderedIn, EarlierSettled, Of
<1> QED BY <1>2, <1>3 DEF Held, DbInv

LEMMA HeldRow ==
  ASSUME NEW q, Held(q)', cons'.row = q
  PROVE  Held(cons.row)'
<1>1. Of(cons.row)' = Of(q) /\ Of(q)' = Of(q) /\ Of(q) = <<q.s, q.i>>
  BY DEF Of
<1>2. \A i : SettledIn(db, <<q.s, i>>)' => SettledIn(db, <<cons.row.s, i>>)'
  BY DEF SettledIn, Noticed, IsContent, Upd, Msg, PendingIn
<1>3. EarlierSettled(Of(q))'
  BY DEF Held
<1>4. \A i \in 1..(q.i - 1) : i > base'[q.s] => SettledIn(db, <<q.s, i>>)'
  BY <1>3 DEF EarlierSettled, Of
<1>5. \A i \in 1..(cons'.row.i - 1) : i > base'[cons'.row.s] => SettledIn(db, <<cons.row.s, i>>)'
  BY <1>2, <1>4
<1>6. EarlierSettled(Of(cons.row))'
  BY <1>5 DEF EarlierSettled, Of
<1> QED BY <1>1, <1>6 DEF Held

LEMMA ConsumersStep ==
  ASSUME UpdateInv, UpdateNext
  PROVE  Consumers'
<1>1. /\ cons \in [pc : Listening \cup {"off", "done"}, mode : AllModes, row : Row]
      /\ db.outbox \subseteq Row
  BY DEF UpdateInv, TypeOK, DbType
<1>2. /\ cons.pc \in {"got", "emit", "ack"} => Held(cons.row)
      /\ cons.pc = "ack" => Of(cons.row) \in handed
      /\ \A r \in shown : Of(r) \in handed
  BY DEF UpdateInv, Consumers, Held
<1>3. handed \subseteq handed'
  BY StepFrame DEF UpdateInv
<1>4. \A q \in Row : Held(q) => Held(q)'
  BY HeldFrame
\* It is enough to find the row in hand among those read before.
<1>5. ASSUME cons'.pc \in {"got", "emit", "ack"} => cons'.row \in Row /\ Held(cons.row)',
             cons'.pc = "ack" => Of(cons'.row) \in handed',
             \A r \in shown' : Of(r) \in handed'
      PROVE  Consumers'
  <2>1. Of(cons.row)' = Of(cons'.row)
    BY DEF Of
  <2>2. \A r : Of(r)' = Of(r)
    BY DEF Of
  <2> QED BY <1>5, <2>1, <2>2 DEF Consumers, Held
<1>6. ASSUME cons'.row = cons.row, cons.pc \in {"got", "emit", "ack"} PROVE cons'.row \in Row /\ Held(cons.row)'
  <2> PICK q : q = cons.row
    OBVIOUS
  <2>1. q \in Row /\ Held(q)'
    BY <1>1, <1>2, <1>4, <1>6
  <2>2. cons'.row = q
    BY <1>6
  <2>3. Held(cons.row)'
    BY <2>1, <2>2, HeldRow
  <2> QED BY <2>1, <2>2, <2>3
<1>7. ASSUME UNCHANGED <<cons, shown>> PROVE Consumers'
  BY <1>2, <1>3, <1>5, <1>6, <1>7 DEF Of
<1>8. ASSUME cons'.pc \notin {"got", "emit", "ack"}, UNCHANGED shown PROVE Consumers'
  BY <1>2, <1>3, <1>5, <1>8
<1>9. CASE \E s \in Streams : Produce(s) \/ Adopt(s) \/ Begin(s) \/ SetCheckpoint(s) \/ RecoveryFails(s)
  BY <1>7, <1>9 DEF Produce, Adopt, Begin, SetCheckpoint, RecoveryFails, userVars
<1>10. CASE InHandle
  BY <1>7, <1>10 DEF InHandle, PersistOne, Commit, RollBack, userVars
<1>11. CASE StopUpdates \/ \E m \in Modes : OpenUpdates(m)
  BY <1>8, <1>11 DEF StopUpdates, OpenUpdates, userVars
<1>12. CASE CheckBarrier
  BY <1>1, <1>8, <1>12 DEF CheckBarrier, Become, userVars
<1>13. CASE SelectRow
  <2>1. CASE Become("check")
    BY <1>1, <1>8, <1>13, <2>1 DEF SelectRow, Become, userVars
  <2>2. CASE ~Become("check")
    <3>1. PICK r \in db.outbox : /\ \A q \in db.outbox : r.id <= q.id
                                 /\ cons' = [cons EXCEPT !.pc = "got", !.row = r]
      BY <1>13, <2>2 DEF SelectRow
    <3>2. r \in Row /\ Held(r)'
      BY <1>1, <1>4, <3>1, OldestHeld
    <3>3. cons'.row = r /\ cons'.pc = "got"
      BY <1>1, <3>1
    <3>4. Held(cons.row)'
      BY <3>2, <3>3, HeldRow
    <3>5. UNCHANGED shown
      BY <1>13 DEF SelectRow, userVars
    <3> QED BY <1>2, <1>3, <1>5, <3>2, <3>3, <3>4, <3>5
  <2> QED BY <2>1, <2>2
<1>14. CASE Consider
  <2>1. /\ cons.pc = "got" /\ cons'.row = cons.row /\ UNCHANGED shown
        /\ cons'.pc = "ack" => Of(cons.row) \in handed'
    BY <1>1, <1>14 DEF Consider, Become
  <2> QED BY <1>2, <1>3, <1>5, <1>6, <2>1
<1>15. CASE Emit
  <2>1. /\ cons.pc = "emit" /\ cons'.row = cons.row
        /\ cons'.pc = "ack" => Of(cons.row) \in handed'
        /\ \A r \in shown' : r \in shown \/ Of(r) \in handed'
    BY <1>1, <1>15 DEF Emit, Become, userVars
  <2> QED BY <1>2, <1>3, <1>5, <1>6, <2>1
<1>16. CASE Acknowledge
  <2>1. cons'.pc \in {"check", "done"} /\ UNCHANGED shown
    BY <1>1, <1>16 DEF Acknowledge, Become, userVars
  <2> QED BY <1>8, <2>1
<1>17. CASE ListPending
  <2>1. cons' = cons /\ \A r \in shown' : r \in shown \/ Of(r) \in handed'
    BY <1>17 DEF ListPending
  <2> QED BY <1>2, <1>3, <1>5, <1>6, <2>1
<1>18. CASE AckReceipt
  BY <1>7, <1>18 DEF AckReceipt, userVars
<1> QED BY <1>9, <1>10, <1>11, <1>12, <1>13, <1>14, <1>15, <1>16, <1>17, <1>18
     DEF UpdateNext, Manage, Listen

LEMMA InOrderStep ==
  ASSUME UpdateInv, UpdateNext
  PROVE  InOrder'
<1>1. /\ handed \subseteq Sent /\ db.outbox \subseteq Row
      /\ cons \in [pc : Listening \cup {"off", "done"}, mode : AllModes, row : Row]
  BY DEF UpdateInv, TypeOK, DbType
<1>2. \A x \in handed : EarlierSettled(x)
  BY DEF UpdateInv, InOrder
<1>3. cons.pc \in {"got", "emit", "ack"} => EarlierSettled(Of(cons.row))
  BY DEF UpdateInv, Consumers
<1>4. ASSUME NEW x \in handed PROVE EarlierSettled(x)'
  <2>1. x = <<x[1], x[2]>> /\ x[1] \in Streams
    BY <1>1, SentTyped DEF UpdateInv
  <2> QED BY <1>2, <2>1, EarlierFrame
<1>5. CASE handed' = handed
  BY <1>4, <1>5 DEF InOrder
<1>6. CASE cons.pc \in {"got", "emit", "ack"} /\ handed' = handed \cup {Of(cons.row)}
  <2> PICK x : x = Of(cons.row)
    OBVIOUS
  <2>1. x[1] \in Streams /\ x = <<x[1], x[2]>> /\ EarlierSettled(x)
    BY <1>1, <1>3, <1>6 DEF Of, Row
  <2>2. EarlierSettled(x)'
    BY <2>1, EarlierFrame
  <2> QED BY <1>4, <1>6, <2>2 DEF InOrder
<1>7. CASE ListPending
  <2>1. PICK last \in db.outbox :
          handed' = handed \cup {Of(r) : r \in {q \in db.outbox : q.id <= last.id}}
    BY <1>7 DEF ListPending
  <2>2. UNCHANGED <<base, db>>
    BY <1>7 DEF ListPending
  <2>3. \A y : SettledIn(db, y) => SettledIn(db, y)'
    BY DbStep
  <2>4. ASSUME NEW r \in db.outbox, r.id <= last.id PROVE EarlierSettled(Of(r))'
    <3> SUFFICES ASSUME NEW i \in 1..(r.i - 1), i > base[r.s] PROVE SettledIn(db, <<r.s, i>>)'
      BY <2>2 DEF EarlierSettled, Of
    <3>1. \/ SettledIn(db, <<r.s, i>>)
          \/ \E q \in db.outbox : Of(q) = <<r.s, i>> /\ q.id < r.id
      BY DEF UpdateInv, OrderedIn
    <3>2. ASSUME NEW q \in db.outbox, Of(q) = <<r.s, i>>, q.id < r.id PROVE SettledIn(db, <<r.s, i>>)'
      <4>1. q.id \in Nat /\ r.id \in Nat /\ last.id \in Nat
        BY <1>1 DEF Row
      <4>2. Of(q) \in handed'
        BY <2>1, <2>4, <3>2, <4>1
      <4> QED BY <3>2, <4>2 DEF SettledIn
    <3> QED BY <2>3, <3>1, <3>2
  <2> QED BY <1>4, <2>1, <2>4 DEF InOrder
<1>8. CASE \E s \in Streams : Produce(s) \/ Adopt(s) \/ Begin(s) \/ SetCheckpoint(s) \/ RecoveryFails(s)
  BY <1>5, <1>8 DEF Produce, Adopt, Begin, SetCheckpoint, RecoveryFails, userVars
<1>9. CASE InHandle \/ StopUpdates \/ AckReceipt \/ \E m \in Modes : OpenUpdates(m)
  BY <1>5, <1>9 DEF InHandle, PersistOne, Commit, RollBack, StopUpdates, AckReceipt, OpenUpdates, userVars
<1>10. CASE CheckBarrier \/ SelectRow \/ Acknowledge
  BY <1>5, <1>10 DEF CheckBarrier, SelectRow, Acknowledge, userVars
<1>11. CASE Consider \/ Emit
  BY <1>5, <1>6, <1>11 DEF Consider, Emit, userVars
<1> QED BY <1>7, <1>8, <1>9, <1>10, <1>11 DEF UpdateNext, Manage, Listen

----------------------------------------------------------------------------
(* The invariant and the theorems.                                         *)

LEMMA InitInv ==
  ASSUME UpdateInit
  PROVE  UpdateInv
<1>1. EmptyDb \in DbType /\ EmptyDb.tomb \subseteq EmptyDb.rows /\ DbInv(EmptyDb) /\ OrderedIn(EmptyDb)
  BY EmptyKeeps
<1>2. db = EmptyDb /\ work = EmptyDb /\ handed = {} /\ shown = {} /\ tx = NoTx
  BY DEF UpdateInit
<1>3. TypeOK
  <2>1. \A s \in Streams : Len(feed[s]) \in Nat
    BY UpdateAssumption DEF UpdateAssumption, UpdateInit
  <2>2. sent \in [Streams -> Nat] /\ \A s \in Streams : sent[s] <= Len(feed[s])
    BY <2>1 DEF UpdateInit
  <2>3. NoRow \in Row /\ NoTx \in [s : Streams, next : Nat, upto : Nat]
    BY DEF NoRow, Row, NoTx, Streams
  <2>4. cons \in [pc : Listening \cup {"off", "done"}, mode : AllModes, row : Row]
    BY <2>3 DEF UpdateInit, AllModes
  <2>5. opens \in 0..MaxOpens /\ None \in Int
    BY UpdateAssumption DEF UpdateAssumption, UpdateInit, None
  <2>6. /\ stored \in [Streams -> Int] /\ have \in [Streams -> Int] /\ due \in [Streams -> Int]
        /\ base \in [Streams -> Nat] /\ open \in BOOLEAN /\ failed \in BOOLEAN /\ feed \in Feeds
    BY <2>5 DEF UpdateInit
  <2>7. \A r \in EmptyDb.outbox : Of(r) \in EmptyDb.applied
    BY DEF EmptyDb
  <2> QED BY <1>1, <1>2, <2>2, <2>3, <2>4, <2>5, <2>6, <2>7 DEF TypeOK
<1>4. \A s \in Streams : have[s] = None /\ due[s] = None /\ stored[s] = None /\ base[s] = 0
  BY DEF UpdateInit
<1>5. Barrier /\ CheckpointCovered
  <2>1. ~open /\ ~failed /\ ~InTx
    BY DEF UpdateInit, InTx
  <2> QED BY <1>4, <2>1 DEF Barrier, CheckpointCovered, CoveredTo, None
<1>6. Handling
  BY <1>2 DEF Handling, InTx
<1>7. Consumers /\ InOrder
  BY <1>2 DEF UpdateInit, Consumers, InOrder
<1> QED BY <1>1, <1>2, <1>3, <1>5, <1>6, <1>7 DEF UpdateInv

LEMMA StutterInv ==
  ASSUME UpdateInv, UNCHANGED vars
  PROVE  UpdateInv'
<1> USE DEF vars, managerVars, userVars
<1>1. TypeOK' /\ Barrier' /\ CheckpointCovered'
  <2>1. Sent' = Sent
    BY DEF Sent
  <2>2. DbType' = DbType
    BY <2>1 DEF DbType
  <2>3. TypeOK'
    BY <2>1, <2>2 DEF UpdateInv, TypeOK, Of
  <2>4. Barrier'
    BY DEF UpdateInv, Barrier, CoveredTo, InTx
  <2>5. CheckpointCovered'
    BY DEF UpdateInv, CheckpointCovered, CoveredTo
  <2> QED BY <2>3, <2>4, <2>5
<1>2. \A y : SettledIn(db, y) => SettledIn(db, y)'
  BY DEF SettledIn, Noticed, PendingIn, Upd, Msg, Of, IsContent
<1>3. Handling'
  BY DEF UpdateInv, Handling, InTx, CoveredTo, Noticed, PendingIn, Upd, Msg, Of
<1>4. Consumers' /\ InOrder'
  BY <1>2 DEF UpdateInv, Consumers, InOrder, EarlierSettled, Of
<1>5. (DbInv(db) /\ OrderedIn(db) /\ DbInv(work) /\ OrderedIn(work))'
  <2>1. /\ db \in DbType /\ work \in DbType /\ base \in [Streams -> Nat] /\ \A s \in Streams : base[s] <= base[s]
        /\ DbInv(db) /\ OrderedIn(db) /\ DbInv(work) /\ OrderedIn(work)
    BY DEF UpdateInv, TypeOK
  <2> QED BY <2>1, FrameDb
<1> QED BY <1>1, <1>3, <1>4, <1>5 DEF UpdateInv

LEMMA StepInv ==
  ASSUME UpdateInv, UpdateNext
  PROVE  UpdateInv'
<1>1. Barrier' /\ CheckpointCovered'
  BY BarrierStep DEF Barrier, CheckpointCovered, BarrierOf, CoveredTo, Covers
<1> QED BY <1>1, TypeStep, HandlingStep, DbStep, ConsumersStep, InOrderStep DEF UpdateInv

LEMMA Invariance == UpdateSpec => []UpdateInv
<1>1. UpdateInit => UpdateInv
  BY InitInv
<1>2. UpdateInv /\ [UpdateNext]_vars => UpdateInv'
  BY StepInv, StutterInv
<1> QED BY <1>1, <1>2, PTL DEF UpdateSpec

\* Type correctness, with every tombstone on a cached row and every pending
\* event applied.
THEOREM UpdateTyping == UpdateSpec => []TypeOK
<1>1. UpdateInv => TypeOK
  BY DEF UpdateInv
<1> QED BY <1>1, Invariance, PTL

\* However updates, failures and restarts interleave, no stored checkpoint
\* passes an update that was not applied: recovery asks again for all that is
\* missing.
THEOREM NothingSkipped == UpdateSpec => []CheckpointCovered
<1>1. UpdateInv => CheckpointCovered
  BY DEF UpdateInv
<1> QED BY <1>1, Invariance, PTL

\* Every applied update has been handed out, is pending, or is superseded.
THEOREM AtLeastOnce == UpdateSpec => []NothingLost
<1>1. UpdateInv => NothingLost
  BY DEF UpdateInv, DbInv, NothingLost
<1> QED BY <1>1, Invariance, PTL

\* Consumers, of whatever kind and number, see each stream in order.
THEOREM StreamOrder == UpdateSpec => []InOrder
<1>1. UpdateInv => InOrder
  BY DEF UpdateInv
<1> QED BY <1>1, Invariance, PTL

\* The payload of a message that expired is in no row of the outbox.
THEOREM ExpiryPurges == UpdateSpec => []ExpiredNotPending
<1>1. UpdateInv => ExpiredNotPending
  BY DEF UpdateInv, DbInv, ExpiredNotPending
<1> QED BY <1>1, Invariance, PTL

\* A cached message is hidden exactly when Telegram deleted it.
THEOREM ExactDeletions == UpdateSpec => []DeletionExact
<1>1. UpdateInv => DeletionExact
  BY DEF UpdateInv, DbInv, DeletionExact
<1> QED BY <1>1, Invariance, PTL

\* Replayed read markers do not go back.
THEOREM MarkersGrow == UpdateSpec => []ReadMarkersKept
<1>1. UpdateInv => ReadMarkersKept
  BY DEF UpdateInv, DbInv, ReadMarkersKept
<1> QED BY <1>1, Invariance, PTL
====
