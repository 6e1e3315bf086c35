---------------------------- MODULE WriteLedger ----------------------------
(***************************************************************************)
(* The invoker every Telegram call of a writable client goes through       *)
(* (src/internal/client/write_ledger.go and cooldown.go), over the state   *)
(* that the clients of one account share in the account database: the      *)
(* write ledger, the write window and the cooldowns.  A client is one      *)
(* process that owns the session lock while it is open.  Telegram is       *)
(* external: it applies or refuses each call that is in transit, possibly  *)
(* long after the client that sent it gave up or died.                     *)
(***************************************************************************)
EXTENDS Integers, Sequences, FiniteSets

CONSTANTS
  Client,    \* client processes, named by the request id of their invocation
  NoClient,  \* the session lock is free, or a cooldown was never recorded
  Peers,     \* cooldown scopes "peer:<id>"
  Account,   \* the cooldown scope "account"
  MaxCalls,  \* bound: mutations one client sends
  Limit,     \* writes per window (20)
  Window,    \* seconds in the window (60)
  Waits,     \* seconds a FLOOD_WAIT or SLOWMODE_WAIT may ask for
  MaxTime    \* bound: the last second of the clock

ASSUME LedgerAssumption ==
  /\ NoClient \notin Client
  /\ Account \notin Peers
  /\ MaxCalls \in Nat \ {0}
  /\ Limit \in Nat \ {0}
  /\ Window \in Nat \ {0}
  /\ Waits \subseteq Nat \ {0}
  /\ MaxTime \in Nat

VARIABLES
  now,       \* wall clock, in seconds
  holder,    \* owner of the session lock
  cooldown,  \* tg_rpc_cooldowns: until when, and (history) who recorded it
  rows,      \* every row ever inserted in tg_write_window: its at_unix
  live,      \* the rows of tg_write_window that are not deleted
  ledger,    \* tg_write_calls.state by call_id
  seq,       \* writeLedgerInvoker.sequence
  accepted,  \* writeLedgerInvoker.accepted
  phase,     \* where Invoke stands in each client
  scope,     \* peer scope of the mutation in hand
  reply,     \* what next.Invoke learns of the mutation in hand
  verdict,   \* error chain Invoke returned last; {} is success
  reading,   \* scope of a non-mutation call in flight beside it
  transit,   \* mutations sent that Telegram has not decided
  effect     \* mutations Telegram has applied

dbVars     == <<cooldown, rows, live, ledger>>
clientVars == <<seq, accepted, phase, scope, reply, verdict, reading>>
netVars    == <<transit, effect>>
ledgerVars == <<now, holder, dbVars, clientVars, netVars>>

Scope    == Peers \cup {Account}
Call     == Client \X (1..MaxCalls)
Asking   == {"check", "window", "prepare"}         \* in Invoke, before the ledger row
InFlight == {"send", "wait", "settle", "record"}   \* in Invoke, after it
Phase    == {"closed", "ready", "gone"} \cup Asking \cup InFlight
State    == {"absent", "prepared", "accepted", "rejected", "unknown"}
Tags     == {"definitive", "committed", "unknown", "flood", "other"}

NoReply  == [kind |-> "none", wait |-> 0]
Refusals == [kind : {"flood", "slow"}, wait : Waits] \cup {[kind |-> "refused", wait |-> 0]}
Reply    == Refusals \cup [kind : {"none", "ok", "lost"}, wait : {0}]

Current(c)  == <<c, seq[c]>>
CallsOf(c)  == {c} \X (1..MaxCalls)
Started     == transit \cup effect   \* mutations that reached or may yet reach Telegram

----------------------------------------------------------------------------
(* Mutants: plausible bugs that the properties below must notice.          *)

MutantBlocked(s) == cooldown[s].until > now
MutantKept == {i \in live : rows[i] > now - Window + 1}
MutantOutcome(r) == IF r.kind = "ok" THEN "accepted" ELSE "rejected"
MutantOutcomeTags(c, r) ==
  (IF r.kind \in {"lost", "refused"} THEN {"definitive", "other"} ELSE {"definitive", "flood"})
    \ (IF r.kind = "ok" THEN Tags ELSE {})

----------------------------------------------------------------------------
(* Cooldowns and the write window.                                         *)

\* checkCooldown takes the later of the account's and the peer's cooldown.
Blocked(s) == \E x \in {Account, s} : cooldown[x].until > now

\* recordCooldown's upsert keeps the later deadline.
Upsert(s, until, c) ==
  [cooldown EXCEPT ![s] = IF until > @.until THEN [until |-> until, by |-> c] ELSE @]

\* A FLOOD_WAIT cools the whole account, a SLOWMODE_WAIT the peer it names.
CooledScope(r, s) == IF r.kind = "flood" THEN Account ELSE s

\* The rows that reserveWriteWindow's DELETE spares.
Kept == {i \in live : rows[i] > now - Window}

(* Outcomes of a mutation.                                                 *)

\* The state the ledger records: only a 4xx answer is a rejection.
Outcome(r) ==
  IF r.kind = "ok" THEN "accepted" ELSE IF r.kind = "lost" THEN "unknown" ELSE "rejected"

Cause(r) == IF r.kind \in {"flood", "slow"} THEN {"flood"} ELSE {"other"}

\* The error chain Invoke returns once the outcome is recorded.
OutcomeTags(c, r) ==
  IF Outcome(r) = "accepted" THEN {}
  ELSE IF Outcome(r) = "unknown" THEN {"unknown"}
  ELSE Cause(r) \cup (IF accepted[c] THEN {} ELSE {"definitive"})

----------------------------------------------------------------------------
LedgerInit ==
  /\ now = 0
  /\ holder = NoClient
  /\ cooldown = [s \in Scope |-> [until |-> 0, by |-> NoClient]]
  /\ rows = <<>>
  /\ live = {}
  /\ ledger = [x \in Call |-> "absent"]
  /\ seq = [c \in Client |-> 0]
  /\ accepted = [c \in Client |-> FALSE]
  /\ phase = [c \in Client |-> "closed"]
  /\ scope = [c \in Client |-> Account]
  /\ reply = [c \in Client |-> NoReply]
  /\ verdict = [c \in Client |-> {}]
  /\ reading = [c \in Client |-> {}]
  /\ transit = {}
  /\ effect = {}

Goto(c, ph) == phase' = [phase EXCEPT ![c] = ph]

\* Invoke returns the error chain tags to its caller.
Return(c, tags) ==
  /\ Goto(c, "ready")
  /\ verdict' = [verdict EXCEPT ![c] = tags]
  /\ reply' = [reply EXCEPT ![c] = NoReply]

(* A client's life.                                                        *)

\* New acquires the session lock before it starts the client.
Open(c) ==
  /\ phase[c] = "closed"
  /\ holder = NoClient
  /\ holder' = c
  /\ Goto(c, "ready")
  /\ UNCHANGED <<now, dbVars, seq, accepted, scope, reply, verdict, reading, netVars>>

\* The client stops, its reads are cancelled and the lock is released; the
\* operating system releases the lock of a process that dies.
Stop(c) ==
  /\ Goto(c, "gone")
  /\ holder' = IF holder = c THEN NoClient ELSE holder
  /\ reading' = [reading EXCEPT ![c] = {}]
  /\ reply' = [reply EXCEPT ![c] = NoReply]
  /\ UNCHANGED <<now, dbVars, seq, accepted, scope, verdict, netVars>>

Close(c) == phase[c] = "ready" /\ Stop(c)
Crash(c) == phase[c] # "gone" /\ Stop(c)

(* Invoke, for a mutation.                                                 *)

\* No operation sends another mutation after one that returned an error.
Invoke(c, s) ==
  /\ phase[c] = "ready"
  /\ verdict[c] = {}
  /\ seq[c] < MaxCalls
  /\ Goto(c, "check")
  /\ scope' = [scope EXCEPT ![c] = s]
  /\ UNCHANGED <<now, holder, dbVars, seq, accepted, reply, verdict, reading, netVars>>

\* A cooldown in force, a failed query or a cancelled context ends the call.
CheckCooldown(c) ==
  /\ phase[c] = "check"
  /\ \/ Blocked(scope[c]) /\ Return(c, {"flood"})
     \/ ~Blocked(scope[c]) /\ Goto(c, "window") /\ UNCHANGED <<reply, verdict>>
     \/ Return(c, {"other"})
  /\ UNCHANGED <<now, holder, dbVars, seq, accepted, scope, reading, netVars>>

\* One transaction: purge, count, insert.  A refusal rolls the purge back, and
\* a refusal or a failed statement is returned as a definitive rejection.
ReserveWindow(c) ==
  /\ phase[c] = "window"
  /\ \/ /\ Cardinality(Kept) < Limit
        /\ rows' = Append(rows, now)
        /\ live' = Kept \cup {Len(rows) + 1}
        /\ Goto(c, "prepare")
        /\ UNCHANGED <<reply, verdict>>
     \/ Return(c, {"definitive", "other"}) /\ UNCHANGED <<rows, live>>
  /\ UNCHANGED <<now, holder, cooldown, ledger, seq, accepted, scope, reading, netVars>>

\* The exact request is stored before Telegram is called.
Prepare(c) ==
  /\ phase[c] = "prepare"
  /\ seq' = [seq EXCEPT ![c] = @ + 1]
  /\ \/ /\ ledger' = [ledger EXCEPT ![<<c, seq'[c]>>] = "prepared"]
        /\ Goto(c, "send")
        /\ UNCHANGED <<reply, verdict>>
     \/ Return(c, {"other"}) /\ UNCHANGED ledger
  /\ UNCHANGED <<now, holder, cooldown, rows, live, accepted, scope, reading, netVars>>

Transmit(c) ==
  /\ phase[c] = "send"
  /\ Goto(c, "wait")
  /\ transit' = transit \cup {Current(c)}
  /\ UNCHANGED <<now, holder, dbVars, seq, accepted, scope, reply, verdict, reading, effect>>

\* A typed answer arrives.
Receive(c) ==
  /\ phase[c] = "wait"
  /\ reply[c] # NoReply
  /\ Goto(c, "settle")
  /\ UNCHANGED <<now, holder, dbVars, seq, accepted, scope, reply, verdict, reading, netVars>>

\* The transport fails, the context is cancelled or Telegram answers 5xx: the
\* client learns nothing, whatever Telegram did or will do.
Lose(c) ==
  /\ phase[c] = "wait"
  /\ reply' = [reply EXCEPT ![c] = [kind |-> "lost", wait |-> 0]]
  /\ Goto(c, "settle")
  /\ UNCHANGED <<now, holder, dbVars, seq, accepted, scope, verdict, reading, netVars>>

\* A wait is stored as a cooldown, an accepted call's updates are persisted and
\* its response encoded; when one of these fails the ledger row stays prepared.
Settle(c) ==
  /\ phase[c] = "settle"
  /\ \/ /\ Goto(c, "record")
        /\ cooldown' = IF reply[c].kind \in {"flood", "slow"}
                         THEN Upsert(CooledScope(reply[c], scope[c]), now + reply[c].wait, c)
                         ELSE cooldown
        /\ UNCHANGED <<reply, verdict>>
     \/ /\ reply[c].kind \in {"flood", "slow"}
        /\ Return(c, {"unknown", "flood"})
        /\ UNCHANGED cooldown
     \/ /\ reply[c].kind = "ok"
        /\ Return(c, {"committed"})
        /\ UNCHANGED cooldown
  /\ UNCHANGED <<now, holder, rows, live, ledger, seq, accepted, scope, reading, netVars>>

\* The outcome replaces "prepared"; if the UPDATE fails the row stays and the
\* caller is told that the outcome is committed or unknown.
Record(c) ==
  /\ phase[c] = "record"
  /\ \/ /\ ledger' = [ledger EXCEPT ![Current(c)] = Outcome(reply[c])]
        /\ accepted' = [accepted EXCEPT ![c] = @ \/ Outcome(reply[c]) = "accepted"]
        /\ Return(c, OutcomeTags(c, reply[c]))
     \/ /\ Return(c, IF Outcome(reply[c]) = "accepted" THEN {"committed"} ELSE {"unknown"})
        /\ UNCHANGED <<ledger, accepted>>
  /\ UNCHANGED <<now, holder, cooldown, rows, live, seq, scope, reading, netVars>>

(* Invoke, for a call that is not a mutation: the update manager's recovery *)
(* and the reads of a command run beside the mutation in hand.              *)

StartRead(c, s) ==
  /\ phase[c] \notin {"closed", "gone"}
  /\ reading[c] = {}
  /\ ~Blocked(s)
  /\ reading' = [reading EXCEPT ![c] = {s}]
  /\ UNCHANGED <<now, holder, dbVars, seq, accepted, phase, scope, reply, verdict, netVars>>

\* An answer that carries a wait is recorded, unless the upsert fails.
EndRead(c) ==
  /\ reading[c] # {}
  /\ reading' = [reading EXCEPT ![c] = {}]
  /\ \/ UNCHANGED cooldown
     \/ \E s \in reading[c], w \in Waits : \E k \in {"flood", "slow"} :
          cooldown' = Upsert(CooledScope([kind |-> k], s), now + w, c)
  /\ UNCHANGED <<now, holder, rows, live, ledger, seq, accepted, phase, scope, reply, verdict, netVars>>

(* Telegram and time.                                                      *)

\* The answer reaches the client only while it waits for this very call.
Answer(x, r) ==
  reply' = IF phase[x[1]] = "wait" /\ Current(x[1]) = x THEN [reply EXCEPT ![x[1]] = r] ELSE reply

Apply(x) ==
  /\ x \in transit
  /\ transit' = transit \ {x}
  /\ effect' = effect \cup {x}
  /\ Answer(x, [kind |-> "ok", wait |-> 0])
  /\ UNCHANGED <<now, holder, dbVars, seq, accepted, phase, scope, verdict, reading>>

Refuse(x, r) ==
  /\ x \in transit
  /\ transit' = transit \ {x}
  /\ Answer(x, r)
  /\ UNCHANGED <<now, holder, dbVars, seq, accepted, phase, scope, verdict, reading, effect>>

Tick ==
  /\ now < MaxTime
  /\ now' = now + 1
  /\ UNCHANGED <<holder, dbVars, clientVars, netVars>>

----------------------------------------------------------------------------
\* What happens inside Invoke once it is called.
InvokeStep(c) ==
  \/ CheckCooldown(c) \/ ReserveWindow(c) \/ Prepare(c) \/ Transmit(c)
  \/ Receive(c) \/ Lose(c) \/ Settle(c) \/ Record(c)

\* What happens whatever the command that opened the client does.
Background ==
  \/ \E c \in Client : (\E s \in Scope : StartRead(c, s)) \/ EndRead(c)
  \/ \E x \in transit : Apply(x) \/ \E r \in Refusals : Refuse(x, r)
  \/ Tick

LedgerNext ==
  \/ \E c \in Client : Open(c) \/ Close(c) \/ Crash(c) \/ InvokeStep(c)
  \/ \E c \in Client, s \in Scope : Invoke(c, s)
  \/ Background

LedgerSpec == LedgerInit /\ [][LedgerNext]_ledgerVars

----------------------------------------------------------------------------
(* Type invariant. *)
LedgerTypeOK ==
  /\ now \in Nat
  /\ holder \in Client \cup {NoClient}
  /\ cooldown \in [Scope -> [until : Nat, by : Client \cup {NoClient}]]
  /\ rows \in Seq(Nat)
  /\ live \subseteq DOMAIN rows
  /\ ledger \in [Call -> State]
  /\ seq \in [Client -> 0..MaxCalls]
  /\ accepted \in [Client -> BOOLEAN]
  /\ phase \in [Client -> Phase]
  /\ scope \in [Client -> Scope]
  /\ reply \in [Client -> Reply]
  /\ verdict \in [Client -> SUBSET Tags]
  /\ reading \in [Client -> SUBSET Scope]
  /\ transit \subseteq Call
  /\ effect \subseteq Call
  /\ \A c \in Client : /\ phase[c] \in Asking => seq[c] < MaxCalls
                       /\ phase[c] \in InFlight => seq[c] > 0

(* The ledger never lies about Telegram, whatever fails or dies between two *)
(* statements: a mutation it does not know was never sent, one it calls     *)
(* accepted was applied, one it calls rejected was not and never will be.   *)
LedgerHonest ==
  \A x \in Call :
    /\ ledger[x] = "absent"   => x \notin Started
    /\ ledger[x] = "accepted" => x \in effect
    /\ ledger[x] = "rejected" => x \notin Started

(* What releasing an idempotency key relies on: when Invoke returns a       *)
(* definitive rejection and the client has no accepted mutation, no         *)
(* mutation of that client took effect, is in transit, or ever will be.     *)
RejectionIsSafe ==
  \A c \in Client :
    "definitive" \in verdict[c] /\ ~accepted[c] => CallsOf(c) \cap Started = {}

(* A mutation past its cooldown check runs under no cooldown that another   *)
(* client of the account recorded, in its own scope or the account's: only  *)
(* a read of the same client can have been told to wait since the check.    *)
CooldownHonoured ==
  \A c \in Client : phase[c] \in {"window", "prepare", "send"} =>
    \A s \in {Account, scope[c]} : cooldown[s].until > now => cooldown[s].by = c

(* Overlapping answers never shorten a wait that Telegram asked for.        *)
CooldownNeverShortened ==
  [][\A s \in Scope : cooldown'[s].until >= cooldown[s].until]_ledgerVars

(* The write limit holds over the whole account, across clients, crashes    *)
(* and purges: of any Limit + 1 reservations in a row the last is at least  *)
(* Window seconds after the first, and every mutation in the ledger has     *)
(* paid for one reservation.                                                *)
WriteLimit ==
  /\ \A i \in DOMAIN rows : i + Limit \in DOMAIN rows => rows[i + Limit] - rows[i] >= Window
  /\ Cardinality({x \in Call : ledger[x] # "absent"}) <= Len(rows)
----------------------------------------------------------------------------
(* The inductive invariant behind these properties.                        *)

(* The session lock makes the mutations of an account sequential. *)
Exclusive ==
  \A c \in Client :
    /\ phase[c] \notin {"closed", "gone"} => holder = c
    /\ reading[c] # {} => holder = c

(* What is sent was numbered and recorded first. *)
SentKnown ==
  \A c \in Client, n \in 1..MaxCalls :
    <<c, n>> \in Started => ledger[<<c, n>>] # "absent" /\ n <= seq[c]

(* A mutation that Telegram applied is not in transit any more. *)
DecidedOnce == transit \cap effect = {}

(* What the client knows of the mutation in hand is true. *)
ReplyTrue ==
  \A c \in Client :
    /\ phase[c] \notin {"wait", "settle", "record"} => reply[c] = NoReply
    /\ phase[c] \in {"settle", "record"} => reply[c] # NoReply
    /\ phase[c] \in InFlight => ledger[Current(c)] = "prepared"
    /\ phase[c] = "send" => Current(c) \notin Started
    /\ reply[c].kind = "ok" => Current(c) \in effect
    /\ reply[c] \in Refusals => Current(c) \notin Started

(* A client sends one mutation after another, each after the last one was  *)
(* accepted.                                                               *)
Sequential ==
  \A c \in Client :
    /\ phase[c] = "closed" => verdict[c] = {} /\ seq[c] = 0
    /\ phase[c] \in Asking \cup InFlight => verdict[c] = {}
    /\ accepted[c] => seq[c] > 0
    /\ phase[c] \in {"ready"} \cup Asking /\ verdict[c] = {} /\ seq[c] > 0 => accepted[c]
    /\ phase[c] \in InFlight /\ seq[c] > 1 => accepted[c]
    /\ phase[c] \in InFlight /\ seq[c] = 1 => ~accepted[c]

(* All of them but the one in hand took effect, as long as none failed. *)
AllApplied ==
  \A c \in Client, n \in 1..MaxCalls :
    \/ n > seq[c]
    \/ <<c, n>> \in effect
    \/ verdict[c] # {} /\ phase[c] \in {"ready", "gone"}
    \/ phase[c] \in InFlight \cup {"gone"} /\ n = seq[c]

(* The window forgets a reservation only when it is Window seconds old. *)
WindowRows ==
  /\ \A i, j \in DOMAIN rows : i <= j => rows[i] <= rows[j]
  /\ \A i \in DOMAIN rows : rows[i] <= now
  /\ \A i \in (DOMAIN rows) \ live : rows[i] + Window <= now
  /\ \A i \in DOMAIN rows : i + Limit \in DOMAIN rows => rows[i] + Window <= rows[i + Limit]

(* Every mutation in the ledger, and the one being prepared, has a row. *)
Ledgered  == {x \in Call : ledger[x] # "absent"}
Preparing == \E c \in Client : phase[c] = "prepare"
Paid ==
  /\ IsFiniteSet(Ledgered)
  /\ Cardinality(Ledgered) + (IF Preparing THEN 1 ELSE 0) <= Len(rows)

LedgerInv ==
  /\ LedgerTypeOK /\ Exclusive
  /\ SentKnown /\ DecidedOnce /\ ReplyTrue /\ LedgerHonest /\ Sequential /\ AllApplied
  /\ RejectionIsSafe
  /\ CooldownHonoured
  /\ WindowRows /\ Paid /\ WriteLimit
============================================================================
