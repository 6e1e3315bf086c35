------------------------------- MODULE Reader -------------------------------
(***************************************************************************)
(* The local reader: internal/reader/server.go over the backend of         *)
(* internal/commands/reader.go.  One process serves one chat on loopback.  *)
(* Requests of the browser run in parallel and take turns by the one place *)
(* of Server.gate; each page, file and callback opens a client of its own, *)
(* and between two of them the account and the meaning of the selector may *)
(* change.  A callback is a run of the write pipeline under a key made of  *)
(* the advertisement, so the keys outlive the process.                     *)
(***************************************************************************)
EXTENDS Naturals, FiniteSets

CONSTANTS Handlers,    \* requests the browser has under way
          RandomIds,   \* advertisements, by Telegram's name for them
          EventIds,    \* interactions, by the browser's name for them
          Interactions, \* what the browser tells Telegram: view, click, report
          Users, ReaderPeers,
          ReaderOffsets, \* message numbers a page may continue from
          MaxIssued,   \* len(s.offsets) < 21
          MaxAds,      \* bound: advertisements fetched
          MaxStarts,   \* bound: processes, one after the other
          MaxSwitches  \* bound: changes of the account or of the selector

ASSUME ReaderAssumption ==
  /\ Interactions \subseteq {"view", "click", "report"}
  /\ 0 \notin ReaderOffsets /\ ReaderOffsets \subseteq Nat
  /\ {MaxIssued, MaxAds, MaxStarts, MaxSwitches} \subseteq Nat /\ MaxIssued > 0
  /\ "no turn" \notin Handlers /\ "nobody" \notin Users \cup ReaderPeers

VARIABLES server,    \* "up", "stopping" (its context is done), "down" (Serve has cleared it)
          turn,      \* Server.gate: who has the place
          asked,     \* what the request that has the place asks
          stage,     \* what each request does next
          ad,        \* Server.ad
          stale,     \* cacheUntil has passed
          fresh,     \* of the page under way: it fetches advertisements
          issued,    \* Server.offsets
          events,    \* Server.events
          bound,     \* readerBackend: the user and the peer it was bound to
          outside,   \* the user of the session and the peer of the selector
          pending,   \* tg_idempotency: keys reserved
          done,      \*                 keys finalized
          tokens, starts, switches,
          counted,   \* history: how often Telegram counted the callback of a key
          served     \* history: the users and peers this process worked for

telegramVars == <<outside, pending, done, counted, switches, starts>>
readerVars == <<server, turn, asked, stage, ad, stale, fresh, issued, events, bound,
                outside, pending, done, tokens, starts, switches, counted, served>>

NoTurn    == "no turn"
NoAd      == [token |-> 0]
Nobody    == "nobody"
Unbound   == [user |-> Nobody, peer |-> Nobody]
NoQuery   == [kind |-> "none"]
AnyEvent  == "any event"
Ads       == [token : 1..MaxAds, rid : RandomIds, parts : SUBSET {"media"},
              files : SUBSET {"media"}, viewed : BOOLEAN]
Queries   == [kind : {"page"}, offset : ReaderOffsets \cup {0}]
             \cup [kind : {"asset"}, ad : 1..MaxAds]
             \cup [kind : {"event"}, ad : 1..MaxAds, event : EventIds,
                   action : Interactions]
\* The key of a view leaves out the event.
CallbackKey(q, rid) ==
  [action |-> q.action, rid |-> rid, event |-> IF q.action = "view" THEN AnyEvent ELSE q.event]
CallbackKeys == [action : Interactions \cap {"view"}, rid : RandomIds, event : {AnyEvent}]
                \cup [action : Interactions \ {"view"}, rid : RandomIds, event : EventIds]

ReaderInit ==
  /\ server = "up" /\ turn = NoTurn
  /\ asked = NoQuery /\ stage = [h \in Handlers |-> "idle"]
  /\ ad = NoAd /\ stale = TRUE /\ fresh = FALSE
  /\ issued = {0} /\ events = {} /\ bound = Unbound /\ served = {}
  /\ outside \in [user : Users, peer : ReaderPeers]
  /\ pending = {} /\ done = {}
  /\ tokens = 0 /\ starts = 1 /\ switches = 0
  /\ counted = [k \in CallbackKeys |-> 0]

GoOn(h, s) == stage' = [stage EXCEPT ![h] = s]

Respond(h) == /\ GoOn(h, "idle")
              /\ asked' = NoQuery
              /\ turn' = NoTurn

ValidAd(token) == ad # NoAd /\ ad.token = token /\ ~stale

-----------------------------------------------------------------------------
(* A request takes its turn.                                                *)

Arrive(h) ==
  /\ server = "up" /\ stage[h] = "idle"
  /\ GoOn(h, "wait")
  /\ UNCHANGED <<server, turn, asked, ad, stale, fresh, issued, events, bound, tokens, served>>
  /\ UNCHANGED telegramVars

\* Mistake in Admitted: the context is not looked at again
AdmittedLate == TRUE

\* A request that waited past the end of the context takes the place, looks
\* again and leaves.
Admitted == server = "up"

\* The request has its turn and asks q.
Turn(h, q, s) == turn' = h /\ asked' = q /\ GoOn(h, s)

Late(h) ==
  /\ stage[h] = "wait" /\ turn = NoTurn /\ ~Admitted
  /\ Respond(h)
  /\ UNCHANGED <<server, ad, stale, fresh, issued, events, bound, tokens, served>>
  /\ UNCHANGED telegramVars

\* The request is canceled, or 45 seconds pass, before its turn.
LeaveQueue(h) ==
  /\ stage[h] = "wait"
  /\ GoOn(h, "idle")
  /\ UNCHANGED <<server, turn, asked, ad, stale, fresh, issued, events, bound, tokens, served>>
  /\ UNCHANGED telegramVars

-----------------------------------------------------------------------------
(* A page.                                                                  *)

BeginPage(h) ==
  /\ stage[h] = "wait" /\ turn = NoTurn /\ Admitted
  /\ \E q \in Queries :
       /\ q.kind = "page"
       /\ IF q.offset \in issued
            THEN fresh' = stale /\ Turn(h, q, "page")
            ELSE Respond(h) /\ UNCHANGED fresh
  /\ UNCHANGED <<server, ad, stale, issued, events, bound, tokens, served>>
  /\ UNCHANGED telegramVars

\* checkIdentity binds the first user, the selector the first peer.
SameUser == bound.user \in {Nobody, outside.user}

SamePeer == bound.peer \in {Nobody, outside.peer}

\* The backend fails: before, between or after the two checks.
PageFails(h) ==
  /\ stage[h] = "page"
  /\ \/ UNCHANGED bound
     \/ SameUser /\ bound' = [bound EXCEPT !.user = outside.user]
     \/ SameUser /\ SamePeer /\ bound' = outside
  /\ Respond(h)
  /\ UNCHANGED <<server, ad, stale, fresh, issued, events, tokens, served>>
  /\ UNCHANGED telegramVars

\* What a page brings along: the first advertisement, none, or one that the
\* reader cannot show, which fails the page and is asked for again.
AdArrives ==
  IF ~fresh THEN UNCHANGED <<ad, stale, tokens>>
  ELSE \/ ad' = NoAd /\ stale' \in {TRUE, FALSE} /\ UNCHANGED tokens
       \/ /\ tokens < MaxAds
          /\ tokens' = tokens + 1
          /\ \E r \in RandomIds, p \in SUBSET {"media"} :
               ad' = [token |-> tokens + 1, rid |-> r, parts |-> p, files |-> {},
                      viewed |-> FALSE]
          /\ stale' = FALSE

PageArrives(h) ==
  /\ stage[h] = "page"
  /\ SameUser /\ SamePeer
  /\ bound' = outside
  /\ served' = served \cup {outside}
  /\ AdArrives
  /\ \E n \in ReaderOffsets \cup {0} :
       issued' = IF n # 0 /\ Cardinality(issued) < MaxIssued
                   THEN issued \cup {n} ELSE issued
  /\ Respond(h)
  /\ UNCHANGED <<server, fresh, events>>
  /\ UNCHANGED telegramVars

-----------------------------------------------------------------------------
(* The picture or video of the advertisement.                               *)

BeginAsset(h) ==
  /\ stage[h] = "wait" /\ turn = NoTurn /\ Admitted
  /\ \E q \in Queries :
       /\ q.kind = "asset" /\ q.ad <= tokens
       /\ IF ValidAd(q.ad) /\ "media" \in ad.parts \ ad.files
            THEN Turn(h, q, "asset") ELSE Respond(h)
  /\ UNCHANGED <<server, ad, stale, fresh, issued, events, bound, tokens, served>>
  /\ UNCHANGED telegramVars

AssetArrives(h) ==
  /\ stage[h] = "asset"
  /\ \/ UNCHANGED ad
     \/ bound.user = outside.user /\ ad' = [ad EXCEPT !.files = @ \cup {"media"}]
  /\ Respond(h)
  /\ UNCHANGED <<server, stale, fresh, issued, events, bound, tokens, served>>
  /\ UNCHANGED telegramVars

-----------------------------------------------------------------------------
(* A view, a click or a report.                                             *)

Acceptable(q) ==
  /\ ValidAd(q.ad)
  /\ ad.parts \subseteq ad.files
  /\ q.action = "view" => ~ad.viewed
  /\ q.event \notin events

BeginEvent(h) ==
  /\ stage[h] = "wait" /\ turn = NoTurn /\ Admitted
  /\ \E q \in Queries :
       /\ q.kind = "event" /\ q.ad <= tokens
       /\ IF Acceptable(q)
            THEN /\ events' = events \cup {q.event}
                 /\ ad' = [ad EXCEPT !.viewed = @ \/ q.action = "view"]
                 /\ Turn(h, q, "claim")
            ELSE Respond(h) /\ UNCHANGED <<events, ad>>
  /\ UNCHANGED <<server, stale, fresh, issued, bound, tokens, served>>
  /\ UNCHANGED telegramVars

\* Mistake in ReserveKey: a key that is reserved and not finalized is free
ReserveOverPending(h) ==
  /\ stage[h] = "claim"
  /\ LET k == CallbackKey(asked, ad.rid) IN
     IF k \in done
       THEN Respond(h) /\ UNCHANGED pending
       ELSE pending' = pending \cup {k} /\ GoOn(h, "send") /\ UNCHANGED <<turn, asked>>
  /\ UNCHANGED <<server, ad, stale, fresh, issued, events, bound, outside, done, tokens,
                 starts, switches, counted, served>>

\* writes.Run reserves the key; a key that is taken is refused or replayed.
ReserveKey(h) ==
  /\ stage[h] = "claim"
  /\ LET k == CallbackKey(asked, ad.rid) IN
     IF k \in pending \cup done
       THEN Respond(h) /\ UNCHANGED pending
       ELSE pending' = pending \cup {k} /\ GoOn(h, "send") /\ UNCHANGED <<turn, asked>>
  /\ UNCHANGED <<server, ad, stale, fresh, issued, events, bound, outside, done, tokens,
                 starts, switches, counted, served>>

\* The client does not open, or belongs to another user: nothing was sent, but the
\* error is no rejection by Telegram, and the key stays reserved.
SendFails(h) ==
  /\ stage[h] = "send"
  /\ Respond(h)
  /\ UNCHANGED <<server, ad, stale, fresh, issued, events, bound, outside, pending, done, tokens,
                 starts, switches, counted, served>>

\* Telegram answers: yes, and the key is finalized unless that fails; a refusal,
\* and the key is released; or nothing that settles it.  A report that is
\* accepted or hides advertisements removes this one.
Send(h) ==
  /\ stage[h] = "send" /\ bound.user = outside.user
  /\ LET k == CallbackKey(asked, ad.rid)
         count == counted' = [counted EXCEPT ![k] = @ + 1] IN
     \/ /\ count
        /\ \/ pending' = pending \ {k} /\ done' = done \cup {k}
              /\ ad' \in (IF k.action = "report" THEN {ad, NoAd} ELSE {ad})
           \/ UNCHANGED <<pending, done, ad>>
     \/ pending' = pending \ {k} /\ UNCHANGED <<counted, done, ad>>
     \/ UNCHANGED <<counted, pending, done, ad>>
  /\ served' = served \cup {[user |-> outside.user, peer |-> bound.peer]}
  /\ Respond(h)
  /\ UNCHANGED <<server, stale, fresh, issued, events, bound, outside, tokens, starts, switches>>

-----------------------------------------------------------------------------
(* The life of the process.                                                 *)

\* /api/close, Ctrl-C or the lifetime cancels the context of every request.
Shutdown ==
  /\ server = "up" /\ server' = "stopping"
  /\ UNCHANGED <<turn, asked, stage, ad, stale, fresh, issued, events, bound, tokens, served>>
  /\ UNCHANGED telegramVars

\* Serve waits for the turn and clears the advertisement and the events.
Clear ==
  /\ server = "stopping" /\ turn = NoTurn
  /\ server' = "down"
  /\ ad' = NoAd /\ events' = {}
  /\ UNCHANGED <<turn, asked, stage, stale, fresh, issued, bound, tokens, served>>
  /\ UNCHANGED telegramVars

\* The process ends, at any moment, and the reader is started again.
Restart ==
  /\ starts < MaxStarts /\ starts' = starts + 1
  /\ server' = "up" /\ turn' = NoTurn
  /\ asked' = NoQuery /\ stage' = [h \in Handlers |-> "idle"]
  /\ ad' = NoAd /\ stale' = TRUE /\ fresh' = FALSE
  /\ issued' = {0} /\ events' = {} /\ bound' = Unbound /\ served' = {}
  /\ UNCHANGED <<outside, pending, done, tokens, switches, counted>>

\* Five minutes pass.
Expire ==
  /\ ~stale /\ stale' = TRUE
  /\ UNCHANGED <<server, turn, asked, stage, ad, fresh, issued, events, bound, tokens, served>>
  /\ UNCHANGED telegramVars

\* Another process logs in as another user, or the name goes to another peer.
Switch ==
  /\ switches < MaxSwitches /\ switches' = switches + 1
  /\ \/ \E u \in Users : outside' = [outside EXCEPT !.user = u]
     \/ \E p \in ReaderPeers : outside' = [outside EXCEPT !.peer = p]
  /\ UNCHANGED <<server, turn, asked, stage, ad, stale, fresh, issued, events, bound,
                 pending, done, tokens, starts, counted, served>>

ReaderStep(h) ==
  \/ Arrive(h) \/ Late(h) \/ LeaveQueue(h) \/ BeginPage(h) \/ PageFails(h) \/ PageArrives(h)
  \/ BeginAsset(h) \/ AssetArrives(h) \/ BeginEvent(h) \/ ReserveKey(h) \/ SendFails(h) \/ Send(h)

ReaderNext == (\E h \in Handlers : ReaderStep(h)) \/ Shutdown \/ Clear \/ Restart \/ Expire \/ Switch
ReaderSpec == ReaderInit /\ [][ReaderNext]_readerVars

-----------------------------------------------------------------------------
(* Properties.                                                              *)

\* The variables hold values of their types; at most one request is past the
\* gate, and it has the place; no more offsets are issued than documented.
ReaderTypeOK ==
  /\ server \in {"up", "stopping", "down"}
  /\ ad \in Ads \cup {NoAd}
  /\ {h \in Handlers : stage[h] \notin {"idle", "wait"}} = {turn} \ {NoTurn}
  /\ Cardinality(issued) <= MaxIssued /\ events \subseteq EventIds
  /\ pending \cap done = {} /\ pending \cup done \subseteq CallbackKeys

\* "The account's durable key also suppresses a repeated view of the same
\* Telegram ad ID", and "uncertain clicks/reports are never retried": whatever
\* answers were lost, caches expired and processes restarted, no view of an
\* advertisement and no interaction reaches Telegram twice.
CallbackOnce == \A k \in CallbackKeys : counted[k] <= 1

\* "The reader binds its first successful request to the authenticated user and
\* resolved peer": one process shows one chat to one user.
OneSubject ==
  \A s, t \in served : s = t

\* A callback is sent for the advertisement the browser was given, complete and
\* still the one the server holds, while other pages wait to replace it.
SentAsShown ==
  [][\A h \in Handlers : stage[h] = "send" /\ counted' # counted =>
       /\ ad # NoAd /\ asked.ad = ad.token /\ ad.parts \subseteq ad.files
       /\ asked.event \in events]_readerVars

\* Once Serve has cleared the server no late request brings an advertisement or
\* an event back, nor reaches Telegram.
ClosedForGood ==
  [][server = "down" /\ starts' = starts =>
       ad' = NoAd /\ events' = {} /\ counted' = counted]_readerVars

\* The reader tells Telegram nothing twice and speaks for one user about one chat,
\* over lost answers, expiry, restarts and switches of the account.
ReaderSafe ==
  /\ ReaderTypeOK
  /\ CallbackOnce
  /\ OneSubject

\* A callback goes out only for an advertisement that is shown, by a reader that is
\* open.
CallbacksAdmitted ==
  /\ SentAsShown
  /\ ClosedForGood

=============================================================================
