------------------------ MODULE WriteLedger_proofs ------------------------
(***************************************************************************)
(* Proofs about WriteLedger for every set of clients and peers and every   *)
(* value of the limit, the window and the bounds.                          *)
(***************************************************************************)
EXTENDS WriteLedger, TLAPS, FiniteSetTheorems, SequenceTheorems

USE LedgerAssumption DEF LedgerAssumption

(* Any step of the ledger, split into its actions. *)
LEMMA LedgerSteps ==
  ASSUME LedgerNext
  PROVE  \/ \E c \in Client : Open(c)
         \/ \E c \in Client : Close(c)
         \/ \E c \in Client : Crash(c)
         \/ \E c \in Client, s \in Scope : Invoke(c, s)
         \/ \E c \in Client : CheckCooldown(c)
         \/ \E c \in Client : ReserveWindow(c)
         \/ \E c \in Client : Prepare(c)
         \/ \E c \in Client : Transmit(c)
         \/ \E c \in Client : Receive(c)
         \/ \E c \in Client : Lose(c)
         \/ \E c \in Client : Settle(c)
         \/ \E c \in Client : Record(c)
         \/ \E c \in Client, s \in Scope : StartRead(c, s)
         \/ \E c \in Client : EndRead(c)
         \/ \E x \in transit : Apply(x)
         \/ \E x \in transit, r \in Refusals : Refuse(x, r)
         \/ Tick
  BY DEF LedgerNext, InvokeStep, Background

(* What the operators of the model return. *)
LEMMA UpsertType ==
  ASSUME cooldown \in [Scope -> [until : Nat, by : Client \cup {NoClient}]],
         NEW s, NEW until \in Nat, NEW c \in Client
  PROVE  /\ Upsert(s, until, c) \in [Scope -> [until : Nat, by : Client \cup {NoClient}]]
         /\ \A t \in Scope : \/ Upsert(s, until, c)[t] = cooldown[t]
                             \/ /\ Upsert(s, until, c)[t].until > cooldown[t].until
                                /\ Upsert(s, until, c)[t].by = c
  BY DEF Upsert

LEMMA ReplyTypes ==
  /\ NoReply \in Reply
  /\ NoReply.kind = "none"
  /\ NoReply \notin Refusals
  /\ [kind |-> "lost", wait |-> 0] \in Reply \ Refusals
  /\ [kind |-> "ok", wait |-> 0] \in Reply \ Refusals
  /\ Refusals \subseteq Reply
  /\ \A r \in Refusals : r.kind \in {"flood", "slow", "refused"} /\ r.wait \in Nat
  /\ \A r \in Reply : r.wait \in Nat /\ r.kind \in {"flood", "slow", "refused", "none", "ok", "lost"}
  /\ \A r \in Reply : r.kind \in {"flood", "slow", "refused"} => r \in Refusals
  /\ \A r \in Reply : r.kind = "none" => r = NoReply
<1>1. \A r \in Refusals : r.kind \in {"flood", "slow", "refused"} /\ r.wait \in Nat
  <2>1. \A r \in [kind : {"flood", "slow"}, wait : Waits] :
          r.kind \in {"flood", "slow", "refused"} /\ r.wait \in Nat
    OBVIOUS
  <2>2. [kind |-> "refused", wait |-> 0].kind = "refused" /\ [kind |-> "refused", wait |-> 0].wait = 0
    OBVIOUS
  <2>3. QED
    BY <2>1, <2>2 DEF Refusals
<1>2. \A r \in [kind : {"none", "ok", "lost"}, wait : {0}] :
        /\ r.kind \in {"none", "ok", "lost"} /\ r.wait = 0
        /\ r = [kind |-> r.kind, wait |-> r.wait]
  OBVIOUS
<1>3. \A k \in {"none", "ok", "lost"} :
        [kind |-> k, wait |-> 0] \in [kind : {"none", "ok", "lost"}, wait : {0}]
  OBVIOUS
<1>4. \A k \in {"none", "ok", "lost"} : [kind |-> k, wait |-> 0] \in Reply \ Refusals
  BY <1>1, <1>3 DEF Reply
<1>5. Refusals \subseteq Reply
  BY DEF Reply
<1>6. \A r \in Reply : r \in Refusals \/ r \in [kind : {"none", "ok", "lost"}, wait : {0}]
  BY DEF Reply
<1>7. \A r \in Reply : r.kind = "none" => r = NoReply
  BY <1>1, <1>2, <1>6 DEF NoReply
<1>8. QED
  BY <1>1, <1>2, <1>4, <1>5, <1>6, <1>7 DEF NoReply

LEMMA OutcomeTypes ==
  ASSUME NEW r \in Reply, NEW c \in Client
  PROVE  /\ Outcome(r) \in State
         /\ OutcomeTags(c, r) \in SUBSET Tags
<1>1. Outcome(r) \in {"accepted", "unknown", "rejected"}
  BY DEF Outcome
<1>2. Cause(r) \in SUBSET Tags /\ {"definitive"} \in SUBSET Tags /\ {"unknown"} \in SUBSET Tags
  BY DEF Cause, Tags
<1>3. QED
  BY <1>1, <1>2 DEF OutcomeTags, State

(* What a return of Invoke does to the client's state. *)
LEMMA ReturnType ==
  ASSUME LedgerTypeOK, NEW c \in Client, NEW tags \in SUBSET Tags, Return(c, tags)
  PROVE  /\ phase' \in [Client -> Phase]
         /\ phase' = [phase EXCEPT ![c] = "ready"]
         /\ verdict' \in [Client -> SUBSET Tags]
         /\ verdict' = [verdict EXCEPT ![c] = tags]
         /\ reply' \in [Client -> Reply]
         /\ reply' = [reply EXCEPT ![c] = NoReply]
  BY ReplyTypes DEF LedgerTypeOK, Return, Goto, Phase

(* The error chains that Invoke returns. *)
LEMMA TagTypes ==
  /\ {} \in SUBSET Tags
  /\ {"flood"} \in SUBSET Tags
  /\ {"other"} \in SUBSET Tags
  /\ {"unknown"} \in SUBSET Tags
  /\ {"committed"} \in SUBSET Tags
  /\ {"definitive", "other"} \in SUBSET Tags
  /\ {"unknown", "flood"} \in SUBSET Tags
  BY DEF Tags

LEMMA TagFacts ==
  /\ {"flood"} # {} /\ {"other"} # {} /\ {"unknown"} # {} /\ {"committed"} # {}
  /\ {"definitive", "other"} # {} /\ {"unknown", "flood"} # {}
  /\ "definitive" \notin {"flood"} /\ "definitive" \notin {"other"} /\ "definitive" \notin {"unknown"}
  /\ "definitive" \notin {"committed"} /\ "definitive" \notin {"unknown", "flood"}
  OBVIOUS

(* A mutation is named by its client and its number. *)
LEMMA CallShape ==
  /\ \A x \in Call : x[1] \in Client /\ x[2] \in 1..MaxCalls /\ x = <<x[1], x[2]>>
  /\ \A c \in Client, n \in 1..MaxCalls : <<c, n>> \in Call /\ <<c, n>>[1] = c /\ <<c, n>>[2] = n
  BY DEF Call

(* Nothing that a client sends is in transit or applied. *)
Silent(c) == \A n \in 1..MaxCalls : <<c, n>> \notin Started

LEMMA SilentClient ==
  ASSUME NEW c
  PROVE  CallsOf(c) \cap Started = {} <=> Silent(c)
<1>1. \A n \in 1..MaxCalls : <<c, n>> \in CallsOf(c)
  BY DEF CallsOf
<1>2. \A x \in CallsOf(c) : x[2] \in 1..MaxCalls /\ x = <<c, x[2]>>
  BY DEF CallsOf
<1>3. QED
  BY <1>1, <1>2 DEF Silent

LEMMA LedgerTypingInit == LedgerInit => LedgerTypeOK
<1> SUFFICES ASSUME LedgerInit PROVE LedgerTypeOK
  OBVIOUS
<1>1. rows \in Seq(Nat) /\ live \subseteq DOMAIN rows
  BY DEF LedgerInit
<1>2. cooldown \in [Scope -> [until : Nat, by : Client \cup {NoClient}]]
  BY DEF LedgerInit
<1>3. Account \in Scope
  BY DEF Scope
<1> QED
  BY <1>1, <1>2, <1>3, ReplyTypes DEF LedgerInit, LedgerTypeOK, State, Phase, Asking, InFlight

LEMMA LedgerTypingStep == LedgerTypeOK /\ [LedgerNext]_ledgerVars => LedgerTypeOK'
<1> SUFFICES ASSUME LedgerTypeOK, [LedgerNext]_ledgerVars PROVE LedgerTypeOK'
  OBVIOUS
<1> USE DEF LedgerTypeOK, ledgerVars, dbVars, clientVars, netVars
<1>1. ASSUME NEW c \in Client, Open(c) PROVE LedgerTypeOK'
  BY <1>1 DEF Open, Goto, Phase, Asking, InFlight
<1>2. ASSUME NEW c \in Client, Stop(c) PROVE LedgerTypeOK'
  BY <1>2, ReplyTypes DEF Stop, Goto, Phase, Asking, InFlight
<1>3. ASSUME NEW c \in Client, NEW s \in Scope, Invoke(c, s) PROVE LedgerTypeOK'
  BY <1>3 DEF Invoke, Goto, Phase, Asking, InFlight
<1>4. ASSUME NEW c \in Client, CheckCooldown(c) PROVE LedgerTypeOK'
  <2>1. CASE Goto(c, "window") /\ UNCHANGED <<reply, verdict>>
    BY <1>4, <2>1 DEF CheckCooldown, Goto, Phase, Asking, InFlight
  <2>2. CASE \E tags \in SUBSET Tags : Return(c, tags)
    BY SMTT(60), <1>4, <2>2, ReturnType DEF CheckCooldown, Asking, InFlight
  <2> QED
    BY <1>4, <2>1, <2>2, TagTypes DEF CheckCooldown
<1>5. ASSUME NEW c \in Client, ReserveWindow(c) PROVE LedgerTypeOK'
  <2>1. CASE /\ rows' = Append(rows, now) /\ live' = Kept \cup {Len(rows) + 1}
             /\ Goto(c, "prepare") /\ UNCHANGED <<reply, verdict>>
    <3>1. rows' \in Seq(Nat) /\ live' \subseteq DOMAIN rows'
      BY <2>1 DEF Kept
    <3>2. phase' \in [Client -> Phase]
      BY <2>1 DEF Goto, Phase, Asking
    <3>3. QED
      BY <1>5, <2>1, <3>1, <3>2 DEF ReserveWindow, Goto, Asking, InFlight
  <2>2. CASE Return(c, {"definitive", "other"}) /\ UNCHANGED <<rows, live>>
    <3>1. \E tags \in SUBSET Tags : Return(c, tags)
      BY <2>2, TagTypes
    <3>2. /\ phase[c] = "window"
          /\ UNCHANGED <<now, holder, cooldown, rows, live, ledger, seq, accepted, scope,
                         reading, transit, effect>>
      BY <1>5, <2>2 DEF ReserveWindow
    <3>3. QED
      BY SMTT(60), <3>1, <3>2, ReturnType DEF Asking, InFlight
  <2> QED
    BY <1>5, <2>1, <2>2 DEF ReserveWindow
<1>6. ASSUME NEW c \in Client, Prepare(c) PROVE LedgerTypeOK'
  <2>1. /\ seq' = [seq EXCEPT ![c] = @ + 1]
        /\ seq' \in [Client -> 0..MaxCalls]
        /\ <<c, seq'[c]>> \in Call
    BY <1>6 DEF Prepare, Asking, Call
  <2>2. CASE /\ ledger' = [ledger EXCEPT ![<<c, seq'[c]>>] = "prepared"]
             /\ Goto(c, "send") /\ UNCHANGED <<reply, verdict>>
    BY <1>6, <2>1, <2>2 DEF Prepare, Goto, Phase, Asking, InFlight, State
  <2>3. CASE Return(c, {"other"}) /\ UNCHANGED ledger
    BY <1>6, <2>1, <2>3, ReturnType, TagTypes DEF Prepare, Asking, InFlight
  <2> QED
    BY <1>6, <2>2, <2>3 DEF Prepare
<1>7. ASSUME NEW c \in Client, Transmit(c) PROVE LedgerTypeOK'
  BY <1>7 DEF Transmit, Goto, Phase, Asking, InFlight, Current, Call
<1>8. ASSUME NEW c \in Client, Receive(c) PROVE LedgerTypeOK'
  BY <1>8 DEF Receive, Goto, Phase, Asking, InFlight
<1>9. ASSUME NEW c \in Client, Lose(c) PROVE LedgerTypeOK'
  BY <1>9, ReplyTypes DEF Lose, Goto, Phase, Asking, InFlight
<1>10. ASSUME NEW c \in Client, Settle(c) PROVE LedgerTypeOK'
  <2>1. cooldown' \in [Scope -> [until : Nat, by : Client \cup {NoClient}]]
    <3>1. now + reply[c].wait \in Nat
      BY ReplyTypes
    <3>2. CASE UNCHANGED cooldown
      BY <3>2
    <3>3. CASE cooldown' = Upsert(CooledScope(reply[c], scope[c]), now + reply[c].wait, c)
      BY <3>1, <3>3, UpsertType
    <3> QED
      BY <1>10, <3>2, <3>3 DEF Settle
  <2>2. CASE Goto(c, "record") /\ UNCHANGED <<reply, verdict>>
    BY <1>10, <2>1, <2>2 DEF Settle, Goto, Phase, Asking, InFlight
  <2>3. CASE \E tags \in SUBSET Tags : Return(c, tags)
    BY <1>10, <2>1, <2>3, ReturnType DEF Settle, Asking, InFlight
  <2> QED
    BY <1>10, <2>2, <2>3, TagTypes DEF Settle
<1>11. ASSUME NEW c \in Client, Record(c) PROVE LedgerTypeOK'
  <2>1. ledger' \in [Call -> State] /\ accepted' \in [Client -> BOOLEAN]
    <3>1. reply[c] \in Reply /\ Outcome(reply[c]) \in State
      BY OutcomeTypes
    <3>2. CASE UNCHANGED <<ledger, accepted>>
      BY <3>2
    <3>3. CASE /\ ledger' = [ledger EXCEPT ![Current(c)] = Outcome(reply[c])]
               /\ accepted' = [accepted EXCEPT ![c] = @ \/ Outcome(reply[c]) = "accepted"]
      <4>1. ledger' \in [Call -> State]
        BY <3>1, <3>3
      <4>2. (accepted[c] \/ Outcome(reply[c]) = "accepted") \in BOOLEAN
        OBVIOUS
      <4> QED
        BY <3>3, <4>1, <4>2
    <3> QED
      BY <1>11, <3>2, <3>3 DEF Record
  <2>2. \E tags \in SUBSET Tags : Return(c, tags)
    BY <1>11, OutcomeTypes, TagTypes DEF Record
  <2> QED
    BY <1>11, <2>1, <2>2, ReturnType DEF Record, Asking, InFlight
<1>12. ASSUME NEW c \in Client, NEW s \in Scope, StartRead(c, s) PROVE LedgerTypeOK'
  BY <1>12 DEF StartRead
<1>13. ASSUME NEW c \in Client, EndRead(c) PROVE LedgerTypeOK'
  <2>1. cooldown' \in [Scope -> [until : Nat, by : Client \cup {NoClient}]]
    <3>1. CASE UNCHANGED cooldown
      BY <3>1
    <3>2. ASSUME NEW s, NEW w \in Waits, cooldown' = Upsert(s, now + w, c)
          PROVE  cooldown' \in [Scope -> [until : Nat, by : Client \cup {NoClient}]]
      <4>1. now + w \in Nat
        OBVIOUS
      <4> QED
        BY <3>2, <4>1, UpsertType
    <3> QED
      BY <1>13, <3>1, <3>2 DEF EndRead
  <2> QED
    BY <1>13, <2>1 DEF EndRead
<1>14. ASSUME NEW x \in transit, NEW r \in Reply, Answer(x, r) PROVE reply' \in [Client -> Reply]
  BY <1>14 DEF Answer
<1>15. ASSUME NEW x \in transit, Apply(x) PROVE LedgerTypeOK'
  BY <1>14, <1>15, ReplyTypes DEF Apply
<1>16. ASSUME NEW x \in transit, NEW r \in Refusals, Refuse(x, r) PROVE LedgerTypeOK'
  BY <1>14, <1>16, ReplyTypes DEF Refuse
<1>17. CASE Tick
  BY <1>17 DEF Tick
<1>18. CASE UNCHANGED ledgerVars
  BY <1>18
<1> QED
  BY LedgerSteps, <1>1, <1>2, <1>3, <1>4, <1>5, <1>6, <1>7, <1>8, <1>9, <1>10,
     <1>11, <1>12, <1>13, <1>15, <1>16, <1>17, <1>18
     DEF Close, Crash

(* The state has its types in every reachable state. *)
THEOREM LedgerTyping == LedgerSpec => []LedgerTypeOK
<1>1. QED
  BY LedgerTypingInit, LedgerTypingStep, PTL DEF LedgerSpec

(* The session lock makes clients exclusive. *)
LEMMA ExclusiveStep ==
  ASSUME LedgerTypeOK, Exclusive, [LedgerNext]_ledgerVars
  PROVE  Exclusive'
<1> USE DEF LedgerTypeOK, Exclusive, ledgerVars, dbVars, clientVars, netVars
<1>1. ASSUME NEW c \in Client, Open(c) PROVE Exclusive'
  BY <1>1 DEF Open, Goto
<1>2. ASSUME NEW c \in Client, Stop(c) PROVE Exclusive'
  BY <1>2 DEF Stop, Goto
<1>3. ASSUME NEW c \in Client, NEW s \in Scope, StartRead(c, s) PROVE Exclusive'
  BY <1>3 DEF StartRead
<1>4. ASSUME NEW c \in Client, EndRead(c) PROVE Exclusive'
  BY <1>4 DEF EndRead
<1>5. ASSUME NEW c \in Client, UNCHANGED <<holder, reading>>, phase[c] \notin {"closed", "gone"},
             \E ph : phase' = [phase EXCEPT ![c] = ph]
      PROVE  Exclusive'
  BY <1>5
<1>6. ASSUME UNCHANGED <<holder, reading, phase>> PROVE Exclusive'
  BY <1>6
<1>7. ASSUME NEW c \in Client, InvokeStep(c) PROVE Exclusive'
  <2>1. UNCHANGED <<holder, reading>> /\ phase[c] \notin {"closed", "gone"}
    BY <1>7 DEF InvokeStep, CheckCooldown, ReserveWindow, Prepare, Transmit, Receive, Lose,
                Settle, Record
  <2>2. \E ph : phase' = [phase EXCEPT ![c] = ph]
    BY <1>7 DEF InvokeStep, CheckCooldown, ReserveWindow, Prepare, Transmit, Receive, Lose,
                Settle, Record, Return, Goto
  <2>3. QED
    BY <1>5, <2>1, <2>2
<1>8. ASSUME NEW c \in Client, NEW s \in Scope, Invoke(c, s) PROVE Exclusive'
  BY <1>8, <1>5 DEF Invoke, Goto
<1>9. ASSUME NEW x \in transit, Apply(x) \/ \E r \in Refusals : Refuse(x, r) PROVE Exclusive'
  BY <1>9, <1>6 DEF Apply, Refuse
<1>10. CASE Tick
  BY <1>10, <1>6 DEF Tick
<1>11. CASE UNCHANGED ledgerVars
  BY <1>11, <1>6
<1> QED
  BY <1>1, <1>2, <1>3, <1>4, <1>7, <1>8, <1>9, <1>10, <1>11
  DEF LedgerNext, Background, Close, Crash

(* Only the clock moves time, forward. *)
LEMMA ClockStep ==
  ASSUME [LedgerNext]_ledgerVars
  PROVE  now' = now \/ now' = now + 1
<1>1. ASSUME NEW c \in Client,
             \/ Open(c) \/ Stop(c) \/ InvokeStep(c) \/ EndRead(c)
             \/ \E s \in Scope : Invoke(c, s) \/ StartRead(c, s)
      PROVE  now' = now
  <2>1. InvokeStep(c) => now' = now
    BY DEF InvokeStep, CheckCooldown, ReserveWindow, Prepare, Transmit, Receive, Lose, Settle, Record
  <2>2. QED
    BY <1>1, <2>1 DEF Open, Stop, EndRead, Invoke, StartRead
<1>2. CASE \E x \in transit : Apply(x) \/ \E r \in Refusals : Refuse(x, r)
  BY <1>2 DEF Apply, Refuse
<1>3. CASE Tick \/ UNCHANGED ledgerVars
  BY <1>3 DEF Tick, ledgerVars
<1>4. QED
  BY <1>1, <1>2, <1>3 DEF LedgerNext, Background, Close, Crash

(* Waits only grow; a wait recorded in a step is recorded by the client that *)
(* takes the step.                                                           *)
LEMMA CooldownStep ==
  ASSUME LedgerTypeOK, [LedgerNext]_ledgerVars
  PROVE  \A s \in Scope :
           \/ cooldown'[s] = cooldown[s]
           \/ /\ cooldown'[s].until > cooldown[s].until
              /\ \E c \in Client : /\ cooldown'[s].by = c
                                   /\ phase[c] = "settle" \/ reading[c] # {}
<1> USE DEF LedgerTypeOK
<1>1. ASSUME NEW c \in Client, Settle(c), NEW s \in Scope
      PROVE  \/ cooldown'[s] = cooldown[s]
             \/ cooldown'[s].until > cooldown[s].until /\ cooldown'[s].by = c
  <2>1. now + reply[c].wait \in Nat
    BY ReplyTypes
  <2>2. \/ UNCHANGED cooldown
        \/ cooldown' = Upsert(CooledScope(reply[c], scope[c]), now + reply[c].wait, c)
    BY <1>1 DEF Settle
  <2>3. CASE cooldown' = Upsert(CooledScope(reply[c], scope[c]), now + reply[c].wait, c)
    <3>1. PICK t \in Scope \cup {Account}, u \in Nat : cooldown' = Upsert(t, u, c)
      BY <2>1, <2>3 DEF CooledScope
    <3>2. QED
      BY <3>1, UpsertType
  <2>4. QED
    BY <2>2, <2>3
<1>2. ASSUME NEW c \in Client, EndRead(c), NEW s \in Scope
      PROVE  \/ cooldown'[s] = cooldown[s]
             \/ cooldown'[s].until > cooldown[s].until /\ cooldown'[s].by = c
  <2>1. ASSUME NEW t, NEW w \in Waits, cooldown' = Upsert(t, now + w, c)
        PROVE  \/ cooldown'[s] = cooldown[s]
               \/ cooldown'[s].until > cooldown[s].until /\ cooldown'[s].by = c
    <3>1. now + w \in Nat
      OBVIOUS
    <3>2. QED
      BY <2>1, <3>1, UpsertType
  <2>2. QED
    BY <1>2, <2>1 DEF EndRead
<1>3. CASE UNCHANGED cooldown
  BY <1>3
<1>4. CASE \E c \in Client : Settle(c)
  BY <1>1, <1>4 DEF Settle
<1>5. CASE \E c \in Client : EndRead(c)
  BY <1>2, <1>5 DEF EndRead
<1>6. UNCHANGED cooldown \/ (\E c \in Client : Settle(c)) \/ (\E c \in Client : EndRead(c))
  BY LedgerSteps
  DEF ledgerVars, dbVars, Open, Close, Crash, Stop, Invoke, CheckCooldown, ReserveWindow, Prepare,
      Transmit, Receive, Lose, Record, StartRead, Apply, Refuse, Tick
<1>7. QED
  BY <1>3, <1>4, <1>5, <1>6

(* CooldownNeverShortened: overlapping answers never shorten a wait. *)
THEOREM WaitsGrow == LedgerSpec => CooldownNeverShortened
<1>1. LedgerTypeOK /\ [LedgerNext]_ledgerVars
        => [\A s \in Scope : cooldown'[s].until >= cooldown[s].until]_ledgerVars
  <2> SUFFICES ASSUME LedgerTypeOK, LedgerTypeOK', [LedgerNext]_ledgerVars, NEW s \in Scope
               PROVE  cooldown'[s].until >= cooldown[s].until
    BY LedgerTypingStep
  <2>1. cooldown[s].until \in Nat /\ cooldown'[s].until \in Nat
    BY DEF LedgerTypeOK
  <2>2. QED
    BY <2>1, CooldownStep
<1>2. QED
  BY <1>1, LedgerTyping, PTL DEF LedgerSpec, CooldownNeverShortened

(* CooldownHonoured: the session lock leaves nobody who could record a wait *)
(* between a mutation's check and its transmission but its own client.     *)
THEOREM HonouredWaits == LedgerSpec => [](Exclusive /\ CooldownHonoured)
<1>1. LedgerInit => Exclusive /\ CooldownHonoured
  BY DEF LedgerInit, Exclusive, CooldownHonoured
<1>2. LedgerTypeOK /\ Exclusive /\ CooldownHonoured /\ [LedgerNext]_ledgerVars
        => Exclusive' /\ CooldownHonoured'
  <2> SUFFICES ASSUME LedgerTypeOK, Exclusive, CooldownHonoured, [LedgerNext]_ledgerVars
               PROVE  CooldownHonoured'
    BY ExclusiveStep
  <2> SUFFICES ASSUME NEW c \in Client, phase'[c] \in {"window", "prepare", "send"},
                      NEW s \in {Account, scope'[c]}, cooldown'[s].until > now'
               PROVE  cooldown'[s].by = c
    BY DEF CooldownHonoured
  <2>1. LedgerTypeOK'
    BY LedgerTypingStep
  <2>2. s \in Scope /\ cooldown[s].until \in Nat /\ now \in Nat /\ now' \in Nat
    BY <2>1 DEF LedgerTypeOK, Scope
  <2>3. now <= now'
    BY <2>2, ClockStep
  <2>4. scope'[c] = scope[c]
        /\ \/ phase[c] \in {"window", "prepare", "send"}
           \/ phase[c] = "check" /\ ~Blocked(scope[c]) /\ UNCHANGED cooldown
    <3> USE DEF LedgerTypeOK, ledgerVars, dbVars, clientVars, netVars, Goto, Return
    <3>1. ASSUME NEW d \in Client, CheckCooldown(d)
          PROVE  scope'[c] = scope[c] /\ \/ phase[c] \in {"window", "prepare", "send"}
                                         \/ phase[c] = "check" /\ ~Blocked(scope[c]) /\ UNCHANGED cooldown
      BY <3>1 DEF CheckCooldown
    <3>2. ASSUME NEW d \in Client, NEW t \in Scope, Invoke(d, t)
          PROVE  scope'[c] = scope[c] /\ phase[c] \in {"window", "prepare", "send"}
      BY <3>2 DEF Invoke
    <3>3. ASSUME NEW d \in Client,
                 \/ Open(d) \/ Stop(d) \/ ReserveWindow(d) \/ Prepare(d) \/ Transmit(d)
                 \/ Receive(d) \/ Lose(d) \/ Settle(d) \/ Record(d) \/ EndRead(d)
                 \/ \E t \in Scope : StartRead(d, t)
          PROVE  scope'[c] = scope[c] /\ phase[c] \in {"window", "prepare", "send"}
      BY <3>3 DEF Open, Stop, ReserveWindow, Prepare, Transmit, Receive, Lose, Settle, Record,
                  StartRead, EndRead
    <3>4. CASE (\E x \in transit : Apply(x) \/ \E r \in Refusals : Refuse(x, r)) \/ Tick
               \/ UNCHANGED ledgerVars
      BY <3>4 DEF Apply, Refuse, Tick
    <3> QED
      BY LedgerSteps, <3>1, <3>2, <3>3, <3>4 DEF Close, Crash
  <2>5. cooldown[s].until <= now \/ cooldown[s].by = c
    BY <2>2, <2>4 DEF CooldownHonoured, Blocked
  <2>6. CASE cooldown'[s] = cooldown[s]
    BY <2>2, <2>3, <2>5, <2>6
  <2>7. CASE \E d \in Client : /\ cooldown'[s].by = d
                               /\ phase[d] = "settle" \/ reading[d] # {}
    <3>1. PICK d \in Client : cooldown'[s].by = d /\ (phase[d] = "settle" \/ reading[d] # {})
      BY <2>7
    <3>2. holder = d /\ holder = c
      BY <3>1, <2>4 DEF Exclusive
    <3>3. QED
      BY <3>1, <3>2
  <2>8. QED
    BY <2>2, <2>6, <2>7, CooldownStep
<1>3. QED
  BY <1>1, <1>2, LedgerTyping, PTL DEF LedgerSpec


(* What the client, the ledger and Telegram know of each mutation. *)
Protocol == SentKnown /\ DecidedOnce /\ ReplyTrue /\ LedgerHonest /\ Sequential /\ RejectionIsSafe

LEMMA NextNumber ==
  ASSUME NEW n \in Nat, n < MaxCalls
  PROVE  /\ n + 1 \in 1..MaxCalls
         /\ n + 1 > 0
         /\ n + 1 > 1 => n > 0
         /\ n + 1 = 1 => ~(n > 0)
OBVIOUS

LEMMA NoneBetween ==
  ASSUME NEW m \in Nat, NEW n \in Nat, n > m
  PROVE  n = m + 1 \/ n > m + 1
OBVIOUS

LEMMA SentRow ==
  ASSUME SentKnown, NEW d \in Client, NEW n \in 1..MaxCalls, <<d, n>> \in Started
  PROVE  ledger[<<d, n>>] # "absent" /\ n <= seq[d]
BY DEF SentKnown

LEMMA CallNumber ==
  ASSUME NEW n \in 1..MaxCalls
  PROVE  n \in Nat
OBVIOUS

LEMMA StillAtMost ==
  ASSUME NEW k \in Nat, NEW m \in Nat, NEW n \in Nat, k <= m, m <= n
  PROVE  k <= n
OBVIOUS

(* Numbers only grow. *)
LEMMA SeqGrows ==
  ASSUME LedgerTypeOK, LedgerTypeOK', NEW c \in Client,
         seq' = seq \/ seq' = [seq EXCEPT ![c] = @ + 1]
  PROVE  \A d \in Client : /\ seq[d] \in Nat /\ seq'[d] \in Nat /\ seq[d] <= seq'[d]
                           /\ d # c => seq'[d] = seq[d]
<1>1. /\ seq \in [Client -> 0..MaxCalls] /\ seq' \in [Client -> 0..MaxCalls]
      /\ \A d \in Client : seq[d] \in Nat /\ seq'[d] \in Nat
  <2>1. seq \in [Client -> 0..MaxCalls] /\ seq' \in [Client -> 0..MaxCalls]
    BY DEF LedgerTypeOK
  <2>2. \A n \in 0..MaxCalls : n \in Nat
    OBVIOUS
  <2>3. QED
    BY <2>1, <2>2
<1>2. CASE seq' = seq
  BY <1>1, <1>2
<1>3. CASE seq' = [seq EXCEPT ![c] = @ + 1]
  BY <1>1, <1>3
<1>4. QED
  BY <1>2, <1>3

(* Invoke returns an error without having changed what is known of Telegram. *)
LEMMA ReturnsError ==
  ASSUME LedgerTypeOK, LedgerTypeOK', Protocol, NEW c \in Client, phase[c] \in Asking \cup InFlight,
         NEW tags \in SUBSET Tags, tags # {}, Return(c, tags),
         UNCHANGED <<ledger, accepted, netVars>>,
         seq' = seq \/ seq' = [seq EXCEPT ![c] = @ + 1],
         "definitive" \in tags /\ ~accepted[c] => CallsOf(c) \cap Started = {}
  PROVE  Protocol'
<1> USE DEF LedgerTypeOK, netVars, Current, Started
<1>1. /\ phase' = [phase EXCEPT ![c] = "ready"]
      /\ verdict' = [verdict EXCEPT ![c] = tags]
      /\ reply' = [reply EXCEPT ![c] = NoReply]
  BY DEF Return, Goto
<1>2. SentKnown'
  <2>1. \A d \in Client : seq[d] \in Nat /\ seq'[d] \in Nat /\ seq[d] <= seq'[d]
    BY SeqGrows
  <2>2. SUFFICES ASSUME NEW d \in Client, NEW n \in 1..MaxCalls, <<d, n>> \in Started
                 PROVE  ledger[<<d, n>>] # "absent" /\ n <= seq'[d]
    BY DEF SentKnown
  <2> HIDE DEF LedgerTypeOK, Started
  <2>3. ledger[<<d, n>>] # "absent" /\ n <= seq[d]
    BY <2>2, SentRow DEF Protocol
  <2>4. n \in Nat
    BY CallNumber
  <2>5. QED
    BY <2>1, <2>3, <2>4, StillAtMost
<1>3. ReplyTrue'
  BY SMTT(60), <1>1, ReplyTypes DEF Protocol, ReplyTrue, Asking, InFlight
<1>4. LedgerHonest'
  BY DEF Protocol, LedgerHonest
<1>5. Sequential'
  <2>1. seq[c] \in Nat /\ seq'[c] \in Nat /\ seq'[c] >= seq[c]
        /\ \A d \in Client : d # c => seq'[d] = seq[d]
    BY SeqGrows
  <2>2. QED
    BY SMTT(60), <1>1, <2>1 DEF Protocol, Sequential, Asking, InFlight
<1>6. RejectionIsSafe'
  <2> SUFFICES ASSUME NEW d \in Client, "definitive" \in verdict'[d], ~accepted'[d]
               PROVE  CallsOf(d) \cap Started = {}
    BY DEF RejectionIsSafe, CallsOf
  <2>1. CASE d = c
    BY <1>1, <2>1
  <2>2. CASE d # c
    BY <1>1, <2>2 DEF Protocol, RejectionIsSafe
  <2>3. QED
    BY <2>1, <2>2
<1>7. QED
  BY <1>2, <1>3, <1>4, <1>5, <1>6 DEF Protocol, DecidedOnce

(* Before its ledger row, Invoke only moves on. *)
LEMMA AskingMovesOn ==
  ASSUME LedgerTypeOK, LedgerTypeOK', Protocol, NEW c \in Client, phase[c] \in Asking,
         NEW ph \in Asking, Goto(c, ph),
         UNCHANGED <<ledger, seq, accepted, reply, verdict, netVars>>
  PROVE  Protocol'
<1> USE DEF LedgerTypeOK, netVars, Current, Started, Goto
<1>1. SentKnown' /\ LedgerHonest'
  BY DEF Protocol, SentKnown, LedgerHonest
<1>2. ReplyTrue'
  BY DEF Protocol, ReplyTrue, Asking, InFlight
<1>3. Sequential'
  BY DEF Protocol, Sequential, Asking, InFlight
<1>4. RejectionIsSafe'
  BY DEF Protocol, RejectionIsSafe, CallsOf
<1>5. QED
  BY <1>1, <1>2, <1>3, <1>4 DEF Protocol, DecidedOnce

(* Nothing was sent by a client that has nothing accepted and nothing in flight. *)
LEMMA NothingSent ==
  ASSUME LedgerTypeOK, Protocol, NEW c \in Client, phase[c] \in Asking, ~accepted[c]
  PROVE  CallsOf(c) \cap Started = {}
<1>1. verdict[c] = {} /\ seq[c] = 0
  <2>1. seq[c] \in Nat
    BY DEF LedgerTypeOK
  <2>2. QED
    BY <2>1 DEF Protocol, Sequential
<1>2. QED
  BY <1>1, SilentClient DEF Protocol, SentKnown, Silent

LEMMA ProtocolStep ==
  ASSUME LedgerTypeOK, LedgerTypeOK', Protocol, [LedgerNext]_ledgerVars
  PROVE  Protocol'
<1> USE DEF LedgerTypeOK, Protocol, ledgerVars, dbVars, clientVars, netVars, Current, Started
<1>1. ASSUME NEW c \in Client, Open(c) PROVE Protocol'
  <2>1. SentKnown'
    BY <1>1, ReplyTypes DEF Open, Goto, SentKnown
  <2>2. ReplyTrue'
    BY <1>1, ReplyTypes DEF Open, Goto, ReplyTrue, SentKnown, Phase, Asking, InFlight
  <2>3. LedgerHonest'
    BY <1>1, ReplyTypes DEF Open, Goto, LedgerHonest, SentKnown
  <2>4. Sequential'
    BY <1>1, ReplyTypes DEF Open, Goto, Sequential, Phase, Asking, InFlight
  <2>5. RejectionIsSafe'
    BY <1>1, ReplyTypes DEF Open, Goto, RejectionIsSafe, Sequential, Phase, Asking, InFlight, CallsOf
  <2>6. DecidedOnce'
    BY <1>1 DEF Open, DecidedOnce
  <2>7. QED
    BY <2>1, <2>2, <2>3, <2>4, <2>5, <2>6
<1>2. ASSUME NEW c \in Client, Stop(c) PROVE Protocol'
  <2>1. SentKnown'
    BY <1>2, ReplyTypes DEF Stop, Goto, SentKnown
  <2>2. ReplyTrue'
    BY <1>2, ReplyTypes DEF Stop, Goto, ReplyTrue, SentKnown, Phase, Asking, InFlight
  <2>3. LedgerHonest'
    BY <1>2, ReplyTypes DEF Stop, Goto, LedgerHonest, SentKnown
  <2>4. Sequential'
    BY <1>2, ReplyTypes DEF Stop, Goto, Sequential, Phase, Asking, InFlight
  <2>5. RejectionIsSafe'
    BY <1>2, ReplyTypes DEF Stop, Goto, RejectionIsSafe, Sequential, Phase, Asking, InFlight, CallsOf
  <2>6. DecidedOnce'
    BY <1>2 DEF Stop, DecidedOnce
  <2>7. QED
    BY <2>1, <2>2, <2>3, <2>4, <2>5, <2>6
<1>3. ASSUME NEW c \in Client, NEW s \in Scope, Invoke(c, s) PROVE Protocol'
  <2>1. SentKnown'
    BY <1>3, ReplyTypes DEF Invoke, Goto, SentKnown
  <2>2. ReplyTrue'
    BY <1>3, ReplyTypes DEF Invoke, Goto, ReplyTrue, SentKnown, Phase, Asking, InFlight
  <2>3. LedgerHonest'
    BY <1>3, ReplyTypes DEF Invoke, Goto, LedgerHonest, SentKnown
  <2>4. Sequential'
    BY <1>3, ReplyTypes DEF Invoke, Goto, Sequential, Phase, Asking, InFlight
  <2>5. RejectionIsSafe'
    BY <1>3, ReplyTypes DEF Invoke, Goto, RejectionIsSafe, Sequential, Phase, Asking, InFlight, CallsOf
  <2>6. DecidedOnce'
    BY <1>3 DEF Invoke, DecidedOnce
  <2>7. QED
    BY <2>1, <2>2, <2>3, <2>4, <2>5, <2>6
<1>4. ASSUME NEW c \in Client, CheckCooldown(c) PROVE Protocol'
  <2>1. phase[c] \in Asking /\ UNCHANGED <<ledger, seq, accepted, netVars>>
    BY <1>4 DEF CheckCooldown, Asking
  <2>2. CASE Return(c, {"flood"}) \/ Return(c, {"other"})
    BY <2>1, <2>2, ReturnsError, TagTypes, TagFacts
  <2>3. CASE Goto(c, "window") /\ UNCHANGED <<reply, verdict>>
    BY <2>1, <2>3, AskingMovesOn DEF Asking
  <2>4. QED
    BY <1>4, <2>2, <2>3 DEF CheckCooldown
<1>5. ASSUME NEW c \in Client, ReserveWindow(c) PROVE Protocol'
  <2>1. phase[c] \in Asking /\ UNCHANGED <<ledger, seq, accepted, netVars>>
    BY <1>5 DEF ReserveWindow, Asking
  <2>2. CASE Return(c, {"definitive", "other"})
    BY <2>1, <2>2, ReturnsError, NothingSent, TagTypes, TagFacts
  <2>3. CASE Goto(c, "prepare") /\ UNCHANGED <<reply, verdict>>
    BY <2>1, <2>3, AskingMovesOn DEF Asking
  <2>4. QED
    BY <1>5, <2>2, <2>3 DEF ReserveWindow
<1>6. ASSUME NEW c \in Client, Prepare(c) PROVE Protocol'
  <2>1. /\ phase[c] = "prepare" /\ UNCHANGED <<accepted, netVars>>
        /\ seq' = [seq EXCEPT ![c] = @ + 1]
        /\ phase[c] \in Asking
    BY <1>6 DEF Prepare, Asking
  <2>2. CASE Return(c, {"other"}) /\ UNCHANGED ledger
    BY <2>1, <2>2, ReturnsError, TagTypes, TagFacts
  <2>3. CASE /\ ledger' = [ledger EXCEPT ![<<c, seq'[c]>>] = "prepared"]
             /\ Goto(c, "send") /\ UNCHANGED <<reply, verdict>>
    <3>1. /\ seq'[c] = seq[c] + 1
          /\ seq[c] + 1 \in 1..MaxCalls
          /\ <<c, seq[c] + 1>> \in Call
          /\ ledger' = [ledger EXCEPT ![<<c, seq[c] + 1>>] = "prepared"]
          /\ phase' = [phase EXCEPT ![c] = "send"]
          /\ reply[c] = NoReply
      <4>1. seq[c] \in Nat /\ seq[c] < MaxCalls
        BY <2>1
      <4>2. seq'[c] = seq[c] + 1
        BY <2>1, <4>1
      <4>3. seq[c] + 1 \in 1..MaxCalls
        BY <4>1, NextNumber
      <4>4. reply[c] = NoReply
        BY <2>1 DEF ReplyTrue
      <4>5. QED
        BY <2>3, <4>2, <4>3, <4>4, CallShape DEF Goto
    <3>2. <<c, seq[c] + 1>> \notin Started
      <4>1. seq[c] \in Nat /\ ~(seq[c] + 1 <= seq[c])
        OBVIOUS
      <4>2. ASSUME NEW n \in 1..MaxCalls, ~(n <= seq[c]) PROVE <<c, n>> \notin Started
        BY <4>2 DEF SentKnown
      <4>3. QED
        BY <3>1, <4>1, <4>2
    <3>3. SentKnown'
      <4>1. \A d \in Client : seq[d] \in Nat /\ seq'[d] \in Nat /\ seq[d] <= seq'[d]
        BY <2>1, SeqGrows
      <4>2. \A d \in Client, n \in 1..MaxCalls :
              ledger[<<d, n>>] # "absent" => ledger'[<<d, n>>] # "absent"
        BY <3>1, CallShape
      <4>3. SUFFICES ASSUME NEW d \in Client, NEW n \in 1..MaxCalls, <<d, n>> \in Started
                     PROVE  ledger'[<<d, n>>] # "absent" /\ n <= seq'[d]
        BY <2>1 DEF SentKnown
      <4> HIDE DEF Started
      <4>4. ledger[<<d, n>>] # "absent" /\ n <= seq[d]
        BY <4>3, SentRow
      <4>5. n \in Nat
        BY CallNumber
      <4>6. QED
        BY <4>1, <4>2, <4>4, <4>5, StillAtMost
    <3>4. ReplyTrue'
      <4> SUFFICES ASSUME NEW d \in Client
                   PROVE  /\ phase'[d] \notin {"wait", "settle", "record"} => reply'[d] = NoReply
                          /\ phase'[d] \in {"settle", "record"} => reply'[d] # NoReply
                          /\ phase'[d] \in InFlight => ledger'[<<d, seq'[d]>>] = "prepared"
                          /\ phase'[d] = "send" => <<d, seq'[d]>> \notin Started'
                          /\ reply'[d].kind = "ok" => <<d, seq'[d]>> \in effect'
                          /\ reply'[d] \in Refusals => <<d, seq'[d]>> \notin Started'
        BY DEF ReplyTrue
      <4>1. CASE d = c
        BY <2>1, <2>3, <3>1, <3>2, <4>1, ReplyTypes
      <4>2. CASE d # c
        <5>1. seq'[d] = seq[d] /\ phase'[d] = phase[d] /\ reply'[d] = reply[d]
              /\ <<d, seq[d]>> # <<c, seq[c] + 1>>
          BY <2>1, <2>3, <3>1, <4>2
        <5>2. ledger[<<d, seq[d]>>] = "prepared" => ledger'[<<d, seq[d]>>] = "prepared"
          BY <3>1, <5>1
        <5>3. QED
          BY <2>1, <5>1, <5>2 DEF ReplyTrue
      <4>3. QED
        BY <4>1, <4>2
    <3>5. LedgerHonest'
      BY <2>1, <3>1, <3>2 DEF LedgerHonest
    <3>6. Sequential'
      <4>1. /\ seq[c] \in Nat /\ seq'[c] = seq[c] + 1
            /\ \A d \in Client : d # c => seq'[d] = seq[d] /\ phase'[d] = phase[d]
        BY <2>1, <3>1
      <4>2. verdict[c] = {} /\ (seq[c] > 0 => accepted[c]) /\ (accepted[c] => seq[c] > 0)
        BY <2>1 DEF Sequential, Asking
      <4>3. phase'[c] = "send"
        BY <3>1
      <4>4. ASSUME NEW d \in Client, d # c
            PROVE  /\ seq'[d] = seq[d] /\ phase'[d] = phase[d]
                   /\ verdict'[d] = verdict[d] /\ accepted'[d] = accepted[d]
        BY <2>1, <2>3, <4>1, <4>4
      <4>5. ASSUME NEW d \in Client, d = c
            PROVE  /\ seq'[d] = seq[c] + 1 /\ phase'[d] = "send"
                   /\ verdict'[d] = {} /\ accepted'[d] = accepted[c]
        BY <2>1, <2>3, <4>1, <4>2, <4>3, <4>5
      <4> SUFFICES ASSUME NEW d \in Client
                   PROVE  /\ phase'[d] = "closed" => verdict'[d] = {} /\ seq'[d] = 0
                          /\ phase'[d] \in Asking \cup InFlight => verdict'[d] = {}
                          /\ accepted'[d] => seq'[d] > 0
                          /\ phase'[d] \in {"ready"} \cup Asking /\ verdict'[d] = {} /\ seq'[d] > 0
                               => accepted'[d]
                          /\ phase'[d] \in InFlight /\ seq'[d] > 1 => accepted'[d]
                          /\ phase'[d] \in InFlight /\ seq'[d] = 1 => ~accepted'[d]
        BY DEF Sequential
      <4>6. CASE d = c
        <5>1. seq[c] + 1 > 0 /\ (seq[c] + 1 > 1 => seq[c] > 0) /\ (seq[c] + 1 = 1 => ~(seq[c] > 0))
          BY <2>1, <4>1, NextNumber
        <5>2. phase'[d] \notin {"closed", "ready"} \cup Asking
          BY <4>5, <4>6 DEF Asking
        <5>3. QED
          BY <4>2, <4>5, <4>6, <5>1, <5>2
      <4>7. CASE d # c
        BY <4>4, <4>7 DEF Sequential
      <4>8. QED
        BY <4>6, <4>7
    <3>7. RejectionIsSafe'
      BY <2>1, <2>3 DEF RejectionIsSafe, CallsOf
    <3>8. DecidedOnce'
      BY <2>1 DEF DecidedOnce
    <3>9. QED
      BY <3>3, <3>4, <3>5, <3>6, <3>7, <3>8
  <2>4. QED
    BY <1>6, <2>2, <2>3 DEF Prepare
<1>7. ASSUME NEW c \in Client, Transmit(c) PROVE Protocol'
  <2>1. /\ phase[c] = "send" /\ phase' = [phase EXCEPT ![c] = "wait"]
        /\ transit' = transit \cup {<<c, seq[c]>>}
        /\ UNCHANGED <<ledger, seq, accepted, reply, verdict, effect>>
    BY <1>7 DEF Transmit, Goto
  <2>2. <<c, seq[c]>> \in Call /\ ledger[<<c, seq[c]>>] = "prepared" /\ <<c, seq[c]>> \notin Started
    BY <2>1, CallShape DEF ReplyTrue, InFlight
  <2>3. SentKnown'
    <3> SUFFICES ASSUME NEW d \in Client, NEW n \in 1..MaxCalls, <<d, n>> \in Started'
                 PROVE  ledger[<<d, n>>] # "absent" /\ n <= seq[d]
      BY <2>1 DEF SentKnown
    <3>1. CASE <<d, n>> \in Started
      BY <3>1 DEF SentKnown
    <3>2. CASE <<d, n>> = <<c, seq[c]>>
      BY <2>2, <3>2
    <3>3. QED
      BY <2>1, <3>1, <3>2
  <2>4. ReplyTrue'
    <3>1. reply[c] = NoReply
      BY <2>1 DEF ReplyTrue
    <3>2. \A d \in Client : d # c => <<d, seq[d]>> # <<c, seq[c]>>
      OBVIOUS
    <3>3. QED
      BY SMTT(60), <2>1, <3>1, <3>2, ReplyTypes DEF ReplyTrue, InFlight
  <2>5. LedgerHonest'
    BY <2>1, <2>2 DEF LedgerHonest
  <2>6. Sequential'
    BY <2>1 DEF Sequential, Asking, InFlight
  <2>7. RejectionIsSafe'
    <3>1. verdict[c] = {}
      BY <2>1 DEF Sequential, InFlight
    <3>2. \A d \in Client : d # c => <<c, seq[c]>> \notin CallsOf(d)
      BY <2>2, CallShape DEF CallsOf
    <3>3. QED
      BY <2>1, <3>1, <3>2 DEF RejectionIsSafe, CallsOf
  <2>8. DecidedOnce'
    BY <2>1, <2>2 DEF DecidedOnce
  <2>9. QED
    BY <2>3, <2>4, <2>5, <2>6, <2>7, <2>8
<1>8. ASSUME NEW c \in Client, Receive(c) PROVE Protocol'
  <2>1. SentKnown'
    BY <1>8, ReplyTypes DEF Receive, Goto, SentKnown
  <2>2. ReplyTrue'
    BY <1>8, ReplyTypes DEF Receive, Goto, ReplyTrue, SentKnown, Phase, Asking, InFlight
  <2>3. LedgerHonest'
    BY <1>8, ReplyTypes DEF Receive, Goto, LedgerHonest, SentKnown
  <2>4. Sequential'
    <3>1. phase[c] = "wait" /\ phase' = [phase EXCEPT ![c] = "settle"]
          /\ UNCHANGED <<verdict, seq, accepted>>
      BY <1>8 DEF Receive, Goto
    <3>2. QED
      BY <3>1 DEF Sequential, Asking, InFlight
  <2>5. RejectionIsSafe'
    BY <1>8, ReplyTypes DEF Receive, Goto, RejectionIsSafe, Sequential, Phase, Asking, InFlight, CallsOf
  <2>6. DecidedOnce'
    BY <1>8 DEF Receive, DecidedOnce
  <2>7. QED
    BY <2>1, <2>2, <2>3, <2>4, <2>5, <2>6
<1>9. ASSUME NEW c \in Client, Lose(c) PROVE Protocol'
  <2>1. SentKnown'
    BY <1>9, ReplyTypes DEF Lose, Goto, SentKnown
  <2>2. ReplyTrue'
    BY <1>9, ReplyTypes DEF Lose, Goto, ReplyTrue, SentKnown, Phase, Asking, InFlight
  <2>3. LedgerHonest'
    BY <1>9, ReplyTypes DEF Lose, Goto, LedgerHonest, SentKnown
  <2>4. Sequential'
    <3>1. phase[c] = "wait" /\ phase' = [phase EXCEPT ![c] = "settle"]
          /\ UNCHANGED <<verdict, seq, accepted>>
      BY <1>9 DEF Lose, Goto
    <3>2. QED
      BY <3>1 DEF Sequential, Asking, InFlight
  <2>5. RejectionIsSafe'
    BY <1>9, ReplyTypes DEF Lose, Goto, RejectionIsSafe, Sequential, Phase, Asking, InFlight, CallsOf
  <2>6. DecidedOnce'
    BY <1>9 DEF Lose, DecidedOnce
  <2>7. QED
    BY <2>1, <2>2, <2>3, <2>4, <2>5, <2>6
<1>10. ASSUME NEW c \in Client, Settle(c) PROVE Protocol'
  <2>1. /\ phase[c] = "settle" /\ phase[c] \in InFlight
        /\ UNCHANGED <<ledger, seq, accepted, netVars>>
    BY <1>10 DEF Settle, InFlight
  <2>2. CASE Return(c, {"unknown", "flood"}) \/ Return(c, {"committed"})
    BY <2>1, <2>2, ReturnsError, TagTypes, TagFacts
  <2>3. CASE Goto(c, "record") /\ UNCHANGED <<reply, verdict>>
    <3>1. SentKnown' /\ LedgerHonest'
      BY <2>1 DEF SentKnown, LedgerHonest
    <3>2. ReplyTrue'
      BY <2>1, <2>3 DEF Goto, ReplyTrue, Asking, InFlight
    <3>3. Sequential'
      BY <2>1, <2>3 DEF Goto, Sequential, Asking, InFlight
    <3>4. RejectionIsSafe'
      BY <2>1, <2>3 DEF RejectionIsSafe, CallsOf
    <3>5. DecidedOnce'
      BY <2>1 DEF DecidedOnce
    <3>6. QED
      BY <3>1, <3>2, <3>3, <3>4, <3>5
  <2>4. QED
    BY <1>10, <2>2, <2>3 DEF Settle
<1>11. ASSUME NEW c \in Client, Record(c) PROVE Protocol'
  <2>1. /\ phase[c] = "record" /\ phase[c] \in InFlight
        /\ UNCHANGED <<seq, netVars>>
    BY <1>11 DEF Record, InFlight
  <2>2. CASE /\ UNCHANGED <<ledger, accepted>>
             /\ Return(c, {"committed"}) \/ Return(c, {"unknown"})
    BY <2>1, <2>2, ReturnsError, TagTypes, TagFacts
  <2>3. CASE /\ ledger' = [ledger EXCEPT ![Current(c)] = Outcome(reply[c])]
             /\ accepted' = [accepted EXCEPT ![c] = @ \/ Outcome(reply[c]) = "accepted"]
             /\ Return(c, OutcomeTags(c, reply[c]))
    <3> DEFINE o == Outcome(reply[c])
    <3>1. /\ phase' = [phase EXCEPT ![c] = "ready"]
          /\ verdict' = [verdict EXCEPT ![c] = OutcomeTags(c, reply[c])]
          /\ reply' = [reply EXCEPT ![c] = NoReply]
      BY <2>3 DEF Return, Goto
    <3>2. /\ <<c, seq[c]>> \in Call /\ ledger[<<c, seq[c]>>] = "prepared"
          /\ verdict[c] = {}
          /\ seq[c] > 1 => accepted[c]
          /\ seq[c] = 1 => ~accepted[c]
      <4>1. seq[c] \in 1..MaxCalls
        BY <2>1
      <4>2. <<c, seq[c]>> \in Call
        BY <4>1, CallShape
      <4>3. ledger[<<c, seq[c]>>] = "prepared"
        BY <2>1 DEF ReplyTrue
      <4>4. QED
        BY <2>1, <4>2, <4>3 DEF Sequential
    <3>3. /\ o \in {"accepted", "unknown", "rejected"}
          /\ o = "accepted" => <<c, seq[c]>> \in effect
          /\ o = "rejected" => <<c, seq[c]>> \notin Started
      BY <2>1, ReplyTypes DEF ReplyTrue, Outcome
    <3>4. /\ o = "accepted" => OutcomeTags(c, reply[c]) = {}
          /\ o # "accepted" => OutcomeTags(c, reply[c]) # {}
          /\ "definitive" \in OutcomeTags(c, reply[c]) => o = "rejected" /\ ~accepted[c]
      BY <3>3 DEF OutcomeTags, Cause
    <3>5. accepted'[c] <=> accepted[c] \/ o = "accepted"
      BY <2>3
    <3>6. \A d \in Client : d # c => accepted'[d] = accepted[d]
      BY <2>3
    <3>7. SentKnown'
      BY <2>1, <2>3, <3>2, <3>3 DEF SentKnown
    <3>8. ReplyTrue'
      <4>1. \A d \in Client : d # c => /\ phase'[d] = phase[d] /\ reply'[d] = reply[d]
                                      /\ ledger'[<<d, seq[d]>>] = ledger[<<d, seq[d]>>]
        BY <2>3, <3>1
      <4>2. phase'[c] = "ready" /\ reply'[c] = NoReply
        BY <3>1
      <4>3. ASSUME NEW d \in Client
            PROVE  seq'[d] = seq[d]
        BY <2>1
      <4>4. UNCHANGED <<transit, effect>>
        BY <2>1
      <4> SUFFICES ASSUME NEW d \in Client
                   PROVE  /\ phase'[d] \notin {"wait", "settle", "record"} => reply'[d] = NoReply
                          /\ phase'[d] \in {"settle", "record"} => reply'[d] # NoReply
                          /\ phase'[d] \in InFlight => ledger'[<<d, seq'[d]>>] = "prepared"
                          /\ phase'[d] = "send" => <<d, seq'[d]>> \notin Started'
                          /\ reply'[d].kind = "ok" => <<d, seq'[d]>> \in effect'
                          /\ reply'[d] \in Refusals => <<d, seq'[d]>> \notin Started'
        BY DEF ReplyTrue
      <4>5. CASE d = c
        BY <4>2, <4>5, ReplyTypes DEF InFlight
      <4>6. CASE d # c
        <5>1. /\ phase[d] \notin {"wait", "settle", "record"} => reply[d] = NoReply
              /\ phase[d] \in {"settle", "record"} => reply[d] # NoReply
              /\ phase[d] \in InFlight => ledger[<<d, seq[d]>>] = "prepared"
              /\ phase[d] = "send" => <<d, seq[d]>> \notin Started
              /\ reply[d].kind = "ok" => <<d, seq[d]>> \in effect
              /\ reply[d] \in Refusals => <<d, seq[d]>> \notin Started
          BY DEF ReplyTrue
        <5>2. phase'[d] = phase[d] /\ reply'[d] = reply[d] /\ seq'[d] = seq[d]
              /\ ledger'[<<d, seq[d]>>] = ledger[<<d, seq[d]>>]
          BY <4>1, <4>3, <4>6
        <5>3. QED
          BY <4>4, <5>1, <5>2
      <4>7. QED
        BY <4>5, <4>6
    <3>9. LedgerHonest'
      BY <2>1, <2>3, <3>2, <3>3 DEF LedgerHonest
    <3> HIDE DEF o
    <3>10. Sequential'
      <4>1. verdict'[c] = {} => o = "accepted"
        BY <3>1, <3>4
      <4>2. seq[c] > 0 /\ phase'[c] = "ready"
        BY <2>1, <3>1
      <4>3. \A d \in Client : d # c => phase'[d] = phase[d] /\ verdict'[d] = verdict[d]
        BY <3>1
      <4>4. seq' = seq /\ accepted \in [Client -> BOOLEAN] /\ accepted' \in [Client -> BOOLEAN]
        BY <2>1
      <4> HIDE DEF LedgerTypeOK
      <4>5. SUFFICES ASSUME NEW d \in Client
                     PROVE  /\ phase'[d] = "closed" => verdict'[d] = {} /\ seq[d] = 0
                            /\ phase'[d] \in Asking \cup InFlight => verdict'[d] = {}
                            /\ accepted'[d] => seq[d] > 0
                            /\ phase'[d] \in {"ready"} \cup Asking /\ verdict'[d] = {} /\ seq[d] > 0
                                 => accepted'[d]
                            /\ phase'[d] \in InFlight /\ seq[d] > 1 => accepted'[d]
                            /\ phase'[d] \in InFlight /\ seq[d] = 1 => ~accepted'[d]
        BY <4>4 DEF Sequential
      <4>6. CASE d = c
        BY <3>5, <4>1, <4>2, <4>6 DEF Asking, InFlight
      <4>7. CASE d # c
        BY <3>6, <4>3, <4>7 DEF Sequential
      <4>8. QED
        BY <4>6, <4>7
    <3>11. RejectionIsSafe'
      <4> SUFFICES ASSUME NEW d \in Client, "definitive" \in verdict'[d], ~accepted'[d]
                   PROVE  CallsOf(d) \cap Started' = {}
        BY DEF RejectionIsSafe, CallsOf
      <4>1. CASE d = c
        <5>1. o = "rejected" /\ seq[c] = 1
          BY <2>1, <3>1, <3>2, <3>4, <3>5, <4>1
        <5>2. \A n \in 1..MaxCalls : <<c, n>> \in Started => n = 1
          BY SMTT(60), <5>1 DEF SentKnown
        <5>3. Silent(c)
          BY <3>3, <5>1, <5>2 DEF Silent
        <5>4. QED
          BY <2>1, <4>1, <5>3, SilentClient
      <4>2. CASE d # c
        BY <2>1, <3>1, <3>6, <4>2 DEF RejectionIsSafe
      <4>3. QED
        BY <4>1, <4>2
    <3>12. DecidedOnce'
      BY <2>1 DEF DecidedOnce
    <3>13. QED
      BY <3>7, <3>8, <3>9, <3>10, <3>11, <3>12
  <2>4. QED
    BY <1>11, <2>2, <2>3 DEF Record
<1>12. ASSUME UNCHANGED <<ledger, seq, accepted, phase, reply, verdict, netVars>> PROVE Protocol'
  BY <1>12 DEF SentKnown, DecidedOnce, ReplyTrue, LedgerHonest, Sequential, RejectionIsSafe, CallsOf
<1>13. ASSUME NEW x \in transit, Apply(x) PROVE Protocol'
  <2>1. SentKnown'
    BY <1>13, ReplyTypes DEF Apply, Answer, SentKnown
  <2>2. ReplyTrue'
    BY <1>13, ReplyTypes DEF Apply, Answer, ReplyTrue
  <2>3. LedgerHonest'
    BY <1>13, ReplyTypes DEF Apply, Answer, LedgerHonest
  <2>4. Sequential'
    BY <1>13, ReplyTypes DEF Apply, Answer, Sequential
  <2>5. RejectionIsSafe'
    BY <1>13, ReplyTypes DEF Apply, Answer, RejectionIsSafe, CallsOf
  <2>6. DecidedOnce'
    BY <1>13 DEF Apply, DecidedOnce
  <2>7. QED
    BY <2>1, <2>2, <2>3, <2>4, <2>5, <2>6
<1>14. ASSUME NEW x \in transit, NEW r \in Refusals, Refuse(x, r) PROVE Protocol'
  <2>1. SentKnown'
    BY <1>14, ReplyTypes DEF Refuse, Answer, SentKnown
  <2>2. ReplyTrue'
    <3>1. x \in Call /\ x[1] \in Client /\ transit' = transit \ {x} /\ UNCHANGED effect
          /\ UNCHANGED <<ledger, seq, phase>>
      BY <1>14, CallShape DEF Refuse
    <3>2. \A d \in Client : \/ reply'[d] = reply[d]
                            \/ phase[d] = "wait" /\ <<d, seq[d]>> = x /\ reply'[d] = r
      BY <1>14, <3>1 DEF Refuse, Answer
    <3>3. r.kind # "ok" /\ r # NoReply
      BY ReplyTypes
    <3>4. x \notin effect
      BY DEF DecidedOnce
    <3>5. QED
      BY <3>1, <3>2, <3>3, <3>4 DEF ReplyTrue
  <2>3. LedgerHonest'
    BY <1>14, ReplyTypes DEF Refuse, Answer, LedgerHonest
  <2>4. Sequential'
    BY <1>14, ReplyTypes DEF Refuse, Answer, Sequential
  <2>5. RejectionIsSafe'
    BY <1>14, ReplyTypes DEF Refuse, Answer, RejectionIsSafe, CallsOf
  <2>6. DecidedOnce'
    BY <1>14 DEF Refuse, DecidedOnce
  <2>7. QED
    BY <2>1, <2>2, <2>3, <2>4, <2>5, <2>6
<1> QED
  BY LedgerSteps, <1>1, <1>2, <1>3, <1>4, <1>5, <1>6, <1>7, <1>8, <1>9, <1>10, <1>11, <1>12, <1>13,
     <1>14 DEF Close, Crash, StartRead, EndRead, Tick

LEMMA ProtocolInit == LedgerInit => Protocol
<1> SUFFICES ASSUME LedgerInit PROVE Protocol
  OBVIOUS
<1>1. SentKnown /\ DecidedOnce /\ LedgerHonest
  BY DEF LedgerInit, SentKnown, DecidedOnce, LedgerHonest, Started
<1>2. ReplyTrue
  BY ReplyTypes DEF LedgerInit, ReplyTrue, InFlight
<1>3. Sequential /\ RejectionIsSafe
  BY DEF LedgerInit, Sequential, RejectionIsSafe, InFlight, Asking
<1>4. QED
  BY <1>1, <1>2, <1>3 DEF Protocol

LEMMA LedgerProtocol == LedgerSpec => [](LedgerTypeOK /\ Protocol)
<1>1. LedgerTypeOK /\ Protocol /\ [LedgerNext]_ledgerVars => LedgerTypeOK' /\ Protocol'
  BY LedgerTypingStep, ProtocolStep
<1>2. QED
  BY <1>1, LedgerTypingInit, ProtocolInit, PTL DEF LedgerSpec

(* LedgerHonest: whatever fails or dies between two statements, the ledger *)
(* never contradicts what Telegram did or may still do.                    *)
THEOREM HonestLedger == LedgerSpec => []LedgerHonest
<1>1. Protocol => LedgerHonest
  BY DEF Protocol
<1>2. QED
  BY <1>1, LedgerProtocol, PTL

(* RejectionIsSafe: a definitive rejection of a client without an accepted *)
(* mutation means that nothing it sent has or will have an effect.         *)
THEOREM SafeRejection == LedgerSpec => []RejectionIsSafe
<1>1. Protocol => RejectionIsSafe
  BY DEF Protocol
<1>2. QED
  BY <1>1, LedgerProtocol, PTL

(* A reservation keeps the limit. *)
LEMMA RowsStep ==
  ASSUME LedgerTypeOK, WindowRows, NEW c \in Client, ReserveWindow(c),
         Cardinality(Kept) < Limit, rows' = Append(rows, now), live' = Kept \cup {Len(rows) + 1}
  PROVE  WindowRows'
<1> DEFINE n == Len(rows) + 1
<1>1. /\ rows \in Seq(Nat) /\ now \in Nat /\ now' = now /\ n \in Nat /\ n > 0
      /\ live \subseteq DOMAIN rows /\ DOMAIN rows = 1..(n - 1) /\ DOMAIN rows' = 1..n
      /\ rows'[n] = now /\ \A i \in 1..(n - 1) : rows'[i] = rows[i] /\ rows[i] \in Nat
  BY SMTT(60) DEF LedgerTypeOK, ReserveWindow
<1>2. \A i \in DOMAIN rows' : rows'[i] <= now'
  BY <1>1 DEF WindowRows
<1>3. \A i, j \in DOMAIN rows' : i <= j => rows'[i] <= rows'[j]
  BY <1>1 DEF WindowRows
<1>4. \A i \in (DOMAIN rows') \ live' : rows'[i] + Window <= now'
  <2> SUFFICES ASSUME NEW i \in 1..n, i \notin live' PROVE rows'[i] + Window <= now
    BY <1>1
  <2>1. i \in 1..(n - 1) /\ i \notin Kept
    BY <1>1
  <2>2. CASE i \in live
    BY <1>1, <2>1, <2>2 DEF Kept
  <2>3. CASE i \notin live
    BY <1>1, <2>1, <2>3 DEF WindowRows
  <2>4. QED
    BY <2>2, <2>3
<1>5. ASSUME NEW i \in 1..(n - 1), i + Limit = n PROVE rows[i] + Window <= now
  <2> SUFFICES ASSUME rows[i] > now - Window PROVE FALSE
    BY <1>1
  <2>1. i..(n - 1) \subseteq Kept
    <3> SUFFICES ASSUME NEW j \in i..(n - 1) PROVE j \in Kept
      OBVIOUS
    <3>1. j \in DOMAIN rows /\ rows[i] <= rows[j]
      <4>1. i <= j /\ j \in 1..(n - 1)
        <5>1. n \in Nat
          BY <1>1
        <5> HIDE DEF n
        <5>2. QED
          BY <5>1
      <4>2. QED
        BY <1>1, <4>1 DEF WindowRows
    <3>2. rows[j] > now - Window
      BY <1>1, <3>1
    <3>3. j \in live
      <4>1. rows[j] \in Nat /\ now \in Nat /\ ~(rows[j] + Window <= now)
        BY <1>1, <3>1, <3>2
      <4>2. QED
        BY <3>1, <4>1 DEF WindowRows
    <3>4. QED
      BY <3>2, <3>3 DEF Kept
  <2>2. IsFiniteSet(Kept)
    <3>1. Kept \subseteq 1..(n - 1) /\ IsFiniteSet(1..(n - 1))
      BY <1>1, FS_Interval DEF Kept
    <3>2. QED
      BY <3>1, FS_Subset
  <2>3. Cardinality(i..(n - 1)) = Limit
    BY <1>1, <1>5, FS_Interval
  <2>4. Cardinality(i..(n - 1)) <= Cardinality(Kept) /\ Cardinality(Kept) \in Nat
    BY <2>1, <2>2, FS_Subset, FS_CardinalityType
  <2>5. QED
    BY <2>3, <2>4
<1>6. \A i \in DOMAIN rows' : i + Limit \in DOMAIN rows' => rows'[i] + Window <= rows'[i + Limit]
  <2> SUFFICES ASSUME NEW i \in 1..n, i + Limit \in 1..n
               PROVE  rows'[i] + Window <= rows'[i + Limit]
    BY <1>1
  <2>1. i \in 1..(n - 1)
    BY <1>1
  <2>2. CASE i + Limit = n
    BY <1>1, <1>5, <2>1, <2>2
  <2>3. CASE i + Limit # n
    <3>1. i + Limit \in 1..(n - 1)
      <4>1. n \in Nat /\ Limit \in Nat
        BY <1>1
      <4> HIDE DEF n
      <4>2. QED
        BY <2>3, <4>1
    <3>2. QED
      BY <1>1, <2>1, <3>1 DEF WindowRows
  <2>4. QED
    BY <2>2, <2>3
<1>7. QED
  BY <1>2, <1>3, <1>4, <1>6 DEF WindowRows

LEMMA WindowRowsStep ==
  ASSUME LedgerTypeOK, LedgerTypeOK', WindowRows, [LedgerNext]_ledgerVars
  PROVE  WindowRows'
<1>1. CASE \E c \in Client : /\ ReserveWindow(c) /\ Cardinality(Kept) < Limit
                             /\ rows' = Append(rows, now) /\ live' = Kept \cup {Len(rows) + 1}
  BY <1>1, RowsStep
<1>2. CASE UNCHANGED <<rows, live>>
  <2>1. now \in Nat /\ now' \in Nat /\ now <= now'
    BY ClockStep DEF LedgerTypeOK
  <2>2. \A i \in DOMAIN rows : rows[i] \in Nat
    <3>1. rows \in Seq(Nat)
      BY DEF LedgerTypeOK
    <3>2. DOMAIN rows = 1..Len(rows)
      BY <3>1
    <3>3. QED
      BY <3>1, <3>2, ElementOfSeq
  <2>3. QED
    BY <1>2, <2>1, <2>2 DEF WindowRows
<1>3. QED
  BY LedgerSteps, <1>1, <1>2
  DEF ledgerVars, dbVars, Open, Close, Crash, Stop, Invoke, CheckCooldown, ReserveWindow, Prepare,
      Transmit, Receive, Lose, Settle, Record, StartRead, EndRead, Apply, Refuse, Tick

LEMMA PaidStep ==
  ASSUME LedgerTypeOK, LedgerTypeOK', Exclusive, Protocol, Paid, [LedgerNext]_ledgerVars
  PROVE  Paid'
<1>1. /\ IsFiniteSet(Ledgered) /\ Cardinality(Ledgered) \in Nat /\ Len(rows) \in Nat
      /\ Cardinality(Ledgered) <= Len(rows)
      /\ Preparing => Cardinality(Ledgered) + 1 <= Len(rows)
  <2>1. IsFiniteSet(Ledgered) /\ Cardinality(Ledgered) \in Nat /\ Len(rows) \in Nat
    BY FS_CardinalityType DEF Paid, LedgerTypeOK
  <2>2. CASE Preparing
    BY <2>1, <2>2 DEF Paid
  <2>3. CASE ~Preparing
    BY <2>1, <2>3 DEF Paid
  <2>4. QED
    BY <2>1, <2>2, <2>3
<1>2. ASSUME Ledgered' = Ledgered, Len(rows') = Len(rows) \/ Len(rows') = Len(rows) + 1,
             Preparing' => Preparing \/ Len(rows') = Len(rows) + 1
      PROVE  Paid'
  <2>1. CASE Preparing'
    BY <1>1, <1>2, <2>1 DEF Paid
  <2>2. CASE ~Preparing'
    BY <1>1, <1>2, <2>2 DEF Paid
  <2>3. QED
    BY <2>1, <2>2
<1>3. ASSUME NEW c \in Client, ReserveWindow(c) PROVE Paid'
  <2>1. Ledgered' = Ledgered
    BY <1>3 DEF ReserveWindow, Ledgered
  <2>2. CASE rows' = Append(rows, now) /\ Goto(c, "prepare")
    <3>1. Len(rows') = Len(rows) + 1
      BY <2>2 DEF LedgerTypeOK
    <3>2. QED
      BY <1>2, <2>1, <3>1
  <2>3. CASE UNCHANGED rows /\ Goto(c, "ready")
    BY <1>2, <2>1, <2>3 DEF Goto, Preparing, LedgerTypeOK
  <2>4. QED
    BY <1>3, <2>2, <2>3 DEF ReserveWindow, Return
<1>4. ASSUME NEW c \in Client, Prepare(c) PROVE Paid'
  <2>1. UNCHANGED rows /\ Preparing /\ ~Preparing'
    <3>1. phase[c] = "prepare" /\ UNCHANGED rows
      BY <1>4 DEF Prepare
    <3>2. phase' = [phase EXCEPT ![c] = "send"] \/ phase' = [phase EXCEPT ![c] = "ready"]
      BY <1>4 DEF Prepare, Goto, Return
    <3>3. \A d \in Client : phase[d] = "prepare" => d = c
      BY <3>1 DEF Exclusive
    <3>4. QED
      BY <3>1, <3>2, <3>3 DEF Preparing, LedgerTypeOK
  <2>2. CASE UNCHANGED ledger
    <3>1. Ledgered' = Ledgered
      BY <2>2 DEF Ledgered
    <3>2. QED
      BY <1>2, <2>1, <3>1
  <2>3. CASE ledger' = [ledger EXCEPT ![<<c, seq'[c]>>] = "prepared"]
    <3>1. Ledgered' \subseteq Ledgered \cup {<<c, seq'[c]>>}
      BY <2>3 DEF Ledgered, LedgerTypeOK
    <3>2. /\ IsFiniteSet(Ledgered \cup {<<c, seq'[c]>>})
          /\ Cardinality(Ledgered \cup {<<c, seq'[c]>>}) <= Cardinality(Ledgered) + 1
          /\ Cardinality(Ledgered \cup {<<c, seq'[c]>>}) \in Nat
      <4>1. IsFiniteSet(Ledgered)
        BY <1>1
      <4>2. IsFiniteSet(Ledgered \cup {<<c, seq'[c]>>})
        BY <4>1, FS_AddElement
      <4>3. Cardinality(Ledgered \cup {<<c, seq'[c]>>})
              = IF <<c, seq'[c]>> \in Ledgered THEN Cardinality(Ledgered) ELSE Cardinality(Ledgered) + 1
        BY <4>1, FS_AddElement
      <4>4. QED
        BY <1>1, <4>2, <4>3
    <3>3. /\ IsFiniteSet(Ledgered') /\ Cardinality(Ledgered') \in Nat
          /\ Cardinality(Ledgered') <= Cardinality(Ledgered \cup {<<c, seq'[c]>>})
      BY <3>1, <3>2, FS_Subset, FS_CardinalityType
    <3>4. Cardinality(Ledgered') <= Len(rows')
      BY <1>1, <2>1, <3>2, <3>3
    <3>5. QED
      BY <2>1, <3>3, <3>4 DEF Paid
  <2>4. QED
    BY <1>4, <2>2, <2>3 DEF Prepare
<1>5. ASSUME NEW c \in Client, Record(c) PROVE Paid'
  <2>1. UNCHANGED rows /\ phase[c] = "record" /\ phase' = [phase EXCEPT ![c] = "ready"]
    BY <1>5 DEF Record, Return, Goto
  <2>2. Preparing' => Preparing
    BY <2>1 DEF Preparing, LedgerTypeOK
  <2>3. Ledgered' = Ledgered
    <3>1. CASE UNCHANGED ledger
      BY <3>1 DEF Ledgered
    <3>2. CASE ledger' = [ledger EXCEPT ![Current(c)] = Outcome(reply[c])]
      <4>1. Outcome(reply[c]) # "absent" /\ ledger[Current(c)] = "prepared"
        BY <2>1 DEF Outcome, Protocol, ReplyTrue, InFlight
      <4>2. QED
        BY <3>2, <4>1 DEF Ledgered, LedgerTypeOK
    <3>3. QED
      BY <1>5, <3>1, <3>2 DEF Record
  <2>4. QED
    BY <1>2, <2>1, <2>2, <2>3
<1>6. ASSUME UNCHANGED <<rows, ledger>>, Preparing' => Preparing PROVE Paid'
  <2>1. Ledgered' = Ledgered
    BY <1>6 DEF Ledgered
  <2>2. QED
    BY <1>2, <1>6, <2>1
<1>7. ASSUME NEW c \in Client, UNCHANGED <<rows, ledger>>, NEW ph, ph # "prepare", Goto(c, ph)
      PROVE  Paid'
  BY <1>6, <1>7 DEF Goto, Preparing, LedgerTypeOK
<1>8. ASSUME UNCHANGED <<rows, ledger, phase>> PROVE Paid'
  BY <1>6, <1>8 DEF Preparing
<1>9. ASSUME NEW c \in Client, Open(c) \/ Stop(c) \/ CheckCooldown(c) \/ Transmit(c)
               \/ Receive(c) \/ Lose(c) \/ Settle(c) \/ \E s \in Scope : Invoke(c, s)
      PROVE  Paid'
  <2>1. UNCHANGED <<rows, ledger>>
    BY <1>9 DEF dbVars, Open, Stop, CheckCooldown, Transmit, Receive, Lose, Settle, Invoke
  <2>2. \E ph : ph # "prepare" /\ Goto(c, ph)
    BY <1>9 DEF Open, Stop, CheckCooldown, Transmit, Receive, Lose, Settle, Invoke, Return
  <2>3. QED
    BY <1>7, <2>1, <2>2
<1>10. CASE \/ \E c \in Client : EndRead(c) \/ \E s \in Scope : StartRead(c, s)
            \/ \E x \in transit : Apply(x) \/ \E r \in Refusals : Refuse(x, r)
            \/ Tick
            \/ UNCHANGED ledgerVars
  BY <1>8, <1>10 DEF ledgerVars, dbVars, clientVars, StartRead, EndRead, Apply, Refuse, Tick
<1>11. QED
  BY LedgerSteps, <1>3, <1>4, <1>5, <1>9, <1>10 DEF Close, Crash

(* WriteLimit: across clients, crashes and purges, no Limit + 1 reservations *)
(* fall within Window seconds, and no mutation is sent without one.          *)
THEOREM LimitedWrites == LedgerSpec => []WriteLimit
<1>1. LedgerInit => Exclusive /\ WindowRows /\ Paid
  <2> SUFFICES ASSUME LedgerInit PROVE Exclusive /\ WindowRows /\ Paid
    OBVIOUS
  <2>1. Exclusive /\ WindowRows
    BY DEF LedgerInit, Exclusive, WindowRows
  <2>2. Ledgered = {} /\ ~Preparing /\ Len(rows) = 0
    BY CallShape DEF LedgerInit, Ledgered, Preparing
  <2>3. QED
    BY <2>1, <2>2, FS_EmptySet DEF Paid
<1>2. /\ LedgerTypeOK /\ Protocol /\ Exclusive /\ WindowRows /\ Paid
      /\ LedgerTypeOK' /\ [LedgerNext]_ledgerVars
      => Exclusive' /\ WindowRows' /\ Paid'
  BY ExclusiveStep, WindowRowsStep, PaidStep
<1>3. LedgerTypeOK /\ WindowRows /\ Paid => WriteLimit
  <2> SUFFICES ASSUME LedgerTypeOK, WindowRows, Paid PROVE WriteLimit
    OBVIOUS
  <2>1. ASSUME NEW i \in DOMAIN rows, i + Limit \in DOMAIN rows
        PROVE  rows[i + Limit] - rows[i] >= Window
    <3>1. rows \in Seq(Nat) /\ DOMAIN rows = 1..Len(rows)
      BY DEF LedgerTypeOK
    <3>2. rows[i] \in Nat /\ rows[i + Limit] \in Nat
      BY <2>1, <3>1, ElementOfSeq
    <3>3. QED
      BY <2>1, <3>2 DEF WindowRows
  <2>2. Cardinality(Ledgered) <= Len(rows)
    <3>1. Cardinality(Ledgered) \in Nat /\ Len(rows) \in Nat
      BY FS_CardinalityType DEF Paid, LedgerTypeOK
    <3>2. QED
      BY <3>1 DEF Paid
  <2>3. QED
    BY <2>1, <2>2 DEF WriteLimit, Ledgered
<1>4. QED
  BY <1>1, <1>2, <1>3, LedgerProtocol, PTL DEF LedgerSpec

LEMMA AllAppliedStep ==
  ASSUME LedgerTypeOK, LedgerTypeOK', Protocol, AllApplied, [LedgerNext]_ledgerVars
  PROVE  AllApplied'
<1> DEFINE Fine(d, n) ==
      \/ n > seq[d]
      \/ <<d, n>> \in effect
      \/ verdict[d] # {} /\ phase[d] \in {"ready", "gone"}
      \/ phase[d] \in InFlight \cup {"gone"} /\ n = seq[d]
<1> SUFFICES ASSUME NEW d \in Client, NEW n \in 1..MaxCalls PROVE Fine(d, n)'
  BY DEF AllApplied
<1>1. Fine(d, n) /\ seq[d] \in Nat /\ n \in Nat
  BY DEF AllApplied, LedgerTypeOK
<1>2. ASSUME seq'[d] = seq[d], effect \subseteq effect', verdict'[d] = verdict[d],
             phase'[d] = phase[d] PROVE Fine(d, n)'
  BY <1>1, <1>2
<1> USE DEF LedgerTypeOK
<1>3. ASSUME NEW c \in Client, Open(c) PROVE Fine(d, n)'
  <2>1. UNCHANGED <<seq, effect, verdict>> /\ phase[c] = "closed" /\ phase' = [phase EXCEPT ![c] = "ready"]
    BY <1>3 DEF Open, Goto, netVars
  <2>2. CASE d = c
    BY <1>1, <2>1, <2>2 DEF InFlight
  <2>3. CASE d # c
    BY <1>2, <2>1, <2>3
  <2>4. QED
    BY <2>2, <2>3
<1>4. ASSUME NEW c \in Client, Stop(c) PROVE Fine(d, n)'
  <2>1. UNCHANGED <<seq, effect, verdict>> /\ phase' = [phase EXCEPT ![c] = "gone"]
    BY <1>4 DEF Stop, Goto, netVars
  <2>2. CASE d = c
    BY <1>1, <2>1, <2>2
  <2>3. CASE d # c
    BY <1>2, <2>1, <2>3
  <2>4. QED
    BY <2>2, <2>3
<1>5. ASSUME NEW c \in Client, NEW s \in Scope, Invoke(c, s) PROVE Fine(d, n)'
  <2>1. /\ UNCHANGED <<seq, effect, verdict>> /\ phase[c] = "ready" /\ verdict[c] = {}
        /\ phase' = [phase EXCEPT ![c] = "check"]
    BY <1>5 DEF Invoke, Goto, netVars
  <2>2. CASE d = c
    BY <1>1, <2>1, <2>2 DEF InFlight
  <2>3. CASE d # c
    BY <1>2, <2>1, <2>3
  <2>4. QED
    BY <2>2, <2>3
<1>6. ASSUME NEW c \in Client, UNCHANGED <<effect, accepted>>, NEW tags \in SUBSET Tags, tags # {},
             Return(c, tags), seq' = seq \/ seq' = [seq EXCEPT ![c] = @ + 1]
      PROVE  Fine(d, n)'
  <2>1. phase' = [phase EXCEPT ![c] = "ready"] /\ verdict' = [verdict EXCEPT ![c] = tags]
        /\ (d # c => seq'[d] = seq[d])
    BY <1>6, SeqGrows DEF Return, Goto
  <2>2. CASE d = c
    BY <1>6, <2>1, <2>2
  <2>3. CASE d # c
    BY <1>2, <1>6, <2>1, <2>3
  <2>4. QED
    BY <2>2, <2>3
<1>7. ASSUME NEW c \in Client, UNCHANGED <<seq, effect, verdict>>, NEW ph,
             \/ phase[c] \in Asking
             \/ phase[c] \in InFlight /\ ph \in InFlight,
             Goto(c, ph)
      PROVE  Fine(d, n)'
  <2>1. phase' = [phase EXCEPT ![c] = ph] /\ verdict[c] = {}
    BY <1>7 DEF Goto, Protocol, Sequential
  <2>2. CASE d = c
    BY <1>1, <1>7, <2>1, <2>2 DEF Asking, InFlight
  <2>3. CASE d # c
    BY <1>2, <1>7, <2>1, <2>3
  <2>4. QED
    BY <2>2, <2>3
<1>8. ASSUME NEW c \in Client, CheckCooldown(c) \/ ReserveWindow(c) PROVE Fine(d, n)'
  <2>1. UNCHANGED <<seq, effect, accepted>> /\ phase[c] \in Asking
    BY <1>8 DEF CheckCooldown, ReserveWindow, Asking, netVars
  <2>2. CASE \E tags \in SUBSET Tags : tags # {} /\ Return(c, tags)
    BY <1>6, <2>1, <2>2
  <2>3. CASE UNCHANGED verdict /\ \E ph : Goto(c, ph)
    BY <1>7, <2>1, <2>3
  <2>4. QED
    BY <1>8, <2>2, <2>3, TagTypes, TagFacts DEF CheckCooldown, ReserveWindow
<1>9. ASSUME NEW c \in Client, Prepare(c) PROVE Fine(d, n)'
  <2>1. UNCHANGED <<effect, accepted>> /\ phase[c] \in Asking
        /\ seq' = [seq EXCEPT ![c] = @ + 1]
    BY <1>9 DEF Prepare, Asking, netVars
  <2>2. CASE Return(c, {"other"})
    BY <1>6, <2>1, <2>2, TagTypes, TagFacts
  <2>3. CASE Goto(c, "send") /\ UNCHANGED verdict
    <3>1. phase' = [phase EXCEPT ![c] = "send"] /\ verdict[c] = {}
      BY <2>1, <2>3 DEF Goto, Protocol, Sequential
    <3>2. CASE d = c
      <4>1. phase'[d] \in InFlight /\ seq'[d] = seq[d] + 1
        BY <2>1, <3>1, <3>2 DEF InFlight
      <4>2. n > seq[d] \/ <<d, n>> \in effect
        BY <1>1, <2>1, <3>1, <3>2 DEF Asking, InFlight
      <4>3. n > seq[d] => n = seq[d] + 1 \/ n > seq[d] + 1
        BY <1>1, NoneBetween
      <4>4. QED
        BY <2>1, <4>1, <4>2, <4>3
    <3>3. CASE d # c
      BY <1>2, <2>1, <2>3, <3>1, <3>3
    <3>4. QED
      BY <3>2, <3>3
  <2>4. QED
    BY <1>9, <2>2, <2>3 DEF Prepare
<1>10. ASSUME NEW c \in Client, Transmit(c) \/ Receive(c) \/ Lose(c) PROVE Fine(d, n)'
  <2>1. UNCHANGED <<seq, effect, verdict>> /\ phase[c] \in InFlight
        /\ \E ph \in InFlight : Goto(c, ph)
    BY <1>10 DEF Transmit, Receive, Lose, InFlight, netVars
  <2>2. QED
    BY <1>7, <2>1
<1>11. ASSUME NEW c \in Client, Settle(c) PROVE Fine(d, n)'
  <2>1. UNCHANGED <<seq, effect, accepted>> /\ phase[c] \in InFlight
    BY <1>11 DEF Settle, InFlight, netVars
  <2>2. CASE \E tags \in SUBSET Tags : tags # {} /\ Return(c, tags)
    BY <1>6, <2>1, <2>2
  <2>3. CASE UNCHANGED verdict /\ \E ph \in InFlight : Goto(c, ph)
    BY <1>7, <2>1, <2>3
  <2>4. QED
    BY <1>11, <2>2, <2>3, TagTypes, TagFacts DEF Settle, InFlight
<1>12. ASSUME NEW c \in Client, Record(c) PROVE Fine(d, n)'
  <2>1. /\ UNCHANGED <<seq, effect>> /\ phase[c] = "record" /\ phase[c] \in InFlight
        /\ \E tags : Return(c, tags)
    BY <1>12 DEF Record, InFlight, netVars
  <2>2. PICK tags : Return(c, tags)
    BY <2>1
  <2>3. phase' = [phase EXCEPT ![c] = "ready"] /\ verdict' = [verdict EXCEPT ![c] = tags]
    BY <2>2 DEF Return, Goto
  <2>4. CASE d = c
    <3>1. verdict'[c] = {} => Outcome(reply[c]) = "accepted"
      <4>1. CASE Return(c, OutcomeTags(c, reply[c]))
        <5>1. verdict'[c] = OutcomeTags(c, reply[c])
          BY <4>1 DEF Return
        <5>2. QED
          BY <5>1 DEF OutcomeTags, Cause
      <4>2. CASE Return(c, {"committed"}) \/ Return(c, {"unknown"})
        BY <4>2, TagFacts DEF Return
      <4>3. QED
        BY <1>12, <4>1, <4>2 DEF Record
    <3>2. Outcome(reply[c]) = "accepted" => <<c, seq[c]>> \in effect
      BY DEF Outcome, Protocol, ReplyTrue, Current
    <3>3. phase'[c] = "ready" /\ seq'[c] = seq[c]
      BY <2>1, <2>3
    <3>4. n > seq[c] \/ <<c, n>> \in effect \/ n = seq[c]
      BY <1>1, <2>1, <2>4
    <3>5. QED
      BY <2>1, <2>4, <3>1, <3>2, <3>3, <3>4
  <2>5. CASE d # c
    BY <1>2, <2>1, <2>3, <2>5
  <2>6. QED
    BY <2>4, <2>5
<1>13. ASSUME \/ \E c \in Client : EndRead(c) \/ \E s \in Scope : StartRead(c, s)
              \/ \E x \in transit : Apply(x) \/ \E r \in Refusals : Refuse(x, r)
              \/ Tick
              \/ UNCHANGED ledgerVars
       PROVE  Fine(d, n)'
  <2>1. UNCHANGED <<seq, verdict, phase>> /\ effect \subseteq effect'
    BY <1>13 DEF ledgerVars, clientVars, netVars, StartRead, EndRead, Apply, Refuse, Tick
  <2>2. QED
    BY <1>2, <2>1
<1>14. QED
  BY LedgerSteps, <1>3, <1>4, <1>5, <1>8, <1>9, <1>10, <1>11, <1>12, <1>13 DEF Close, Crash

============================================================================
