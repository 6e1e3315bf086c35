------------------------ MODULE WritePipeline_proofs ------------------------
(***************************************************************************)
(* Proofs about WritePipeline for every set of invocations, keys and       *)
(* commands.  What WriteLedger_proofs shows of the ledger carries over,    *)
(* because every step of the pipeline is a step of the ledger or leaves it *)
(* alone.                                                                  *)
(***************************************************************************)
EXTENDS WritePipeline, WriteLedger_proofs

USE LedgerAssumption, PipelineAssumption DEF LedgerAssumption, PipelineAssumption

\* A step that one invocation takes.
Act(c) == PipelineStep(c) \/ Die(c) \/ \E r \in Requests : Start(c, r)

(* Any step of the pipeline, split into its actions. *)
LEMMA ActCases ==
  ASSUME NEW c \in Client, Act(c)
  PROVE  \/ \E r \in Requests : Start(c, r)
         \/ Reserve(c) \/ Lookup(c) \/ Resolve(c) \/ Preflight(c)
         \/ OpenClient(c) \/ FailEarly(c) \/ (\E s \in Scope : Issue(c, s))
         \/ InCall(c) \/ TakeVerdict(c) \/ CloseClient(c)
         \/ Finalize(c) \/ Release(c) \/ Die(c)
  BY DEF Act, PipelineStep

LEMMA PipelineSteps ==
  ASSUME [Next]_vars
  PROVE  \/ \E c \in Client : Act(c)
         \/ [Background]_ledgerVars /\ UNCHANGED pipeVars
  BY DEF Next, Act, vars

(* Every step of the pipeline is a step of the ledger, or leaves it alone. *)
LEMMA LedgerStep ==
  ASSUME [Next]_vars
  PROVE  [LedgerNext]_ledgerVars
<1>1. ASSUME NEW c \in Client, Act(c) PROVE [LedgerNext]_ledgerVars
  <2>1. CASE InCall(c)
    BY <2>1 DEF InCall, LedgerNext
  <2>2. CASE OpenClient(c) \/ CloseClient(c) \/ Die(c)
    BY <2>2 DEF OpenClient, CloseClient, Die, LedgerNext
  <2>3. CASE \E s \in Scope : Issue(c, s)
    BY <2>3 DEF Issue, LedgerNext
  <2>4. CASE \/ \E r \in Requests : Start(c, r)
             \/ Reserve(c) \/ Lookup(c) \/ Resolve(c) \/ Preflight(c)
             \/ FailEarly(c) \/ TakeVerdict(c) \/ Finalize(c) \/ Release(c)
    BY <2>4 DEF Start, Reserve, Lookup, Resolve, Preflight, FailEarly, TakeVerdict, Finalize, Release
  <2>5. QED
    BY <1>1, <2>1, <2>2, <2>3, <2>4, ActCases
<1>2. CASE [Background]_ledgerVars
  BY <1>2 DEF LedgerNext
<1>3. QED
  BY <1>1, <1>2, PipelineSteps

(* The pipeline drives the ledger as WriteLedger describes it, so that what *)
(* is proved of the ledger holds of the pipeline.                           *)
THEOREM PipelineUsesLedger == Spec => LedgerSpec
<1>1. PipelineInit => LedgerInit
  BY DEF PipelineInit
<1>2. QED
  BY <1>1, LedgerStep, PTL DEF Spec, LedgerSpec

LEMMA RowTypes ==
  /\ NoRow.state = "free" /\ NoRow.owner = NoClient
  /\ \A r \in Rows : /\ r.state \in {"pending", "done"} /\ r.owner \in Client
                     /\ r.cmd \in Commands /\ r.print \in Prints
                     /\ r # NoRow
  /\ NoRequest.dry = TRUE /\ NoRequest.key = NoKey
  /\ \A r \in Requests : /\ r.key \in Keys \cup {NoKey} /\ r.cmd \in Commands
                         /\ r.print \in Prints /\ r.dry \in BOOLEAN
<1>1. NoRow.state = "free" /\ NoRow.owner = NoClient
  BY DEF NoRow
<1>2. \A r \in Rows : /\ r.state \in {"pending", "done"} /\ r.owner \in Client
                      /\ r.cmd \in Commands /\ r.print \in Prints
  BY DEF Rows
<1>3. QED
  BY <1>1, <1>2 DEF NoRequest, Requests

LEMMA PipelineTypingStep ==
  ASSUME TypeOK, Aligned, [Next]_vars
  PROVE  TypeOK'
<1>1. LedgerTypeOK'
  BY LedgerStep, LedgerTypingStep DEF TypeOK
<1> USE DEF pipeVars, At, To, Report, Finish, Succeed
<1>2. ASSUME NEW c \in Client, Act(c) PROVE TypeOK'
  <2>1. req' \in [Client -> Requests \cup {NoRequest}]
    <3>1. CASE \E r \in Requests : Start(c, r)
      BY <3>1 DEF TypeOK, Start
    <3>2. CASE UNCHANGED req
      BY <3>2 DEF TypeOK
    <3>3. QED
      BY <1>2, <3>1, <3>2, ActCases
      DEF Reserve, Lookup, Resolve, Preflight, OpenClient, FailEarly, Issue, InCall, TakeVerdict,
          CloseClient, Finalize, Release, Die
  <2>2. pc' \in [Client -> PC]
    <3>1. pc' = pc \/ \E p \in PC : pc' = [pc EXCEPT ![c] = p]
      BY <1>2, ActCases
      DEF PC, Start, Reserve, Lookup, Resolve, Preflight, OpenClient, FailEarly, Issue, InCall,
          TakeVerdict, CloseClient, Finalize, Release, Die
    <3>2. QED
      BY <3>1 DEF TypeOK
  <2>3. outcome' \in [Client -> Outcomes]
    <3>1. \A tags : Classify(tags) \in Outcomes
      BY DEF Classify, Outcomes
    <3>2. outcome' = outcome \/ \E o \in Outcomes : outcome' = [outcome EXCEPT ![c] = o]
      BY <1>2, <3>1, ActCases
      DEF Outcomes, Start, Reserve, Lookup, Resolve, Preflight, OpenClient, FailEarly, Issue, InCall,
          TakeVerdict, CloseClient, Finalize, Release, Die
    <3>3. QED
      BY <3>2 DEF TypeOK
  <2>4. idem' \in [Keys -> Rows \cup {NoRow}]
    <3>1. CASE UNCHANGED idem
      BY <3>1 DEF TypeOK
    <3>2. CASE Reserve(c)
      <4>1. CASE req[c] \in Requests
        <5>1. [state |-> "pending", owner |-> c, cmd |-> req[c].cmd, print |-> req[c].print] \in Rows
          BY <4>1, RowTypes DEF Rows
        <5>2. QED
          BY <3>2, <5>1 DEF Reserve, TypeOK
      <4>2. CASE req[c] = NoRequest
        BY <3>2, <4>2, RowTypes DEF Reserve, Aligned, AlignedAt, Keyed
      <4>3. QED
        BY <4>1, <4>2 DEF TypeOK
    <3>3. CASE Finalize(c)
      <4>1. CASE UNCHANGED idem
        BY <4>1 DEF TypeOK
      <4>2. CASE Owns(c) /\ idem' = [idem EXCEPT ![req[c].key].state = "done"]
        <5>1. req[c].key \in Keys => Row(c) \in Rows
          BY <4>2, RowTypes DEF Owns, Row, TypeOK
        <5>2. ASSUME req[c].key \in Keys PROVE [Row(c) EXCEPT !.state = "done"] \in Rows
          BY <5>1, <5>2 DEF Rows
        <5>3. QED
          BY <4>2, <5>2 DEF Row, TypeOK
      <4>3. QED
        BY <3>3, <4>1, <4>2 DEF Finalize
    <3>4. CASE Release(c)
      BY <3>4 DEF Release, TypeOK
    <3>5. QED
      BY <1>2, <3>1, <3>2, <3>3, <3>4, ActCases
      DEF Start, Lookup, Resolve, Preflight, OpenClient, FailEarly, Issue, InCall,
          TakeVerdict, CloseClient, Die
  <2>5. step' \in [Client -> 0..MaxCalls]
    <3>1. CASE \E s \in Scope : Issue(c, s)
      <4>1. seq[c] = step[c] /\ seq[c] < MaxCalls /\ step' = [step EXCEPT ![c] = @ + 1]
        BY <3>1 DEF Issue, Invoke, At, Aligned, AlignedAt
      <4>2. step[c] \in Nat /\ step[c] + 1 \in 0..MaxCalls
        BY <4>1 DEF TypeOK
      <4>3. QED
        BY <4>1, <4>2 DEF TypeOK
    <3>2. CASE UNCHANGED step
      BY <3>2 DEF TypeOK
    <3>3. QED
      BY <1>2, <3>1, <3>2, ActCases
      DEF Start, Reserve, Lookup, Resolve, Preflight, OpenClient, FailEarly, InCall, TakeVerdict,
          CloseClient, Finalize, Release, Die
  <2>6. err' \in [Client -> SUBSET Tags]
    <3>1. \A tags \in SUBSET Tags : \A n : RunError(n, tags) \in SUBSET Tags
      BY DEF RunError, MapRPCErr, Tags
    <3>2. err' = err \/ \E e \in SUBSET Tags : err' = [err EXCEPT ![c] = e]
      <4>1. CASE TakeVerdict(c)
        <5>1. verdict[c] \in SUBSET Tags
          BY DEF TypeOK, LedgerTypeOK
        <5>2. RunError(step[c], verdict[c]) \in SUBSET Tags
          BY <3>1, <5>1
        <5>3. QED
          BY <4>1, <5>2, TagTypes DEF TakeVerdict
      <4>2. CASE FailEarly(c)
        BY <4>2, TagTypes DEF FailEarly, Tags
      <4>3. CASE UNCHANGED err
        BY <4>3
      <4>4. QED
        BY <1>2, <4>1, <4>2, <4>3, ActCases
        DEF Start, Reserve, Lookup, Resolve, Preflight, OpenClient, Issue, InCall, CloseClient,
            Finalize, Release, Die
    <3>3. QED
      BY <3>2 DEF TypeOK
  <2>7. QED
    BY <1>1, <2>1, <2>2, <2>3, <2>4, <2>5, <2>6 DEF TypeOK
<1>3. CASE UNCHANGED pipeVars
  BY <1>1, <1>3 DEF TypeOK
<1>4. QED
  BY <1>2, <1>3, PipelineSteps

(* One step inside Invoke. *)
LEMMA InvokeMoves ==
  ASSUME LedgerTypeOK, NEW c \in Client, InvokeStep(c)
  PROVE  \/ /\ phase[c] \in Asking /\ phase'[c] \in Asking
            /\ seq'[c] = seq[c] /\ verdict'[c] = verdict[c]
         \/ /\ phase[c] \in Asking /\ phase'[c] \in InFlight
            /\ seq'[c] = seq[c] + 1 /\ verdict'[c] = verdict[c]
         \/ /\ phase[c] \in Asking /\ phase'[c] = "ready"
            /\ seq'[c] \in {seq[c], seq[c] + 1} /\ verdict'[c] # {}
         \/ /\ phase[c] \in InFlight /\ phase'[c] \in InFlight
            /\ seq'[c] = seq[c] /\ verdict'[c] = verdict[c]
         \/ /\ phase[c] \in InFlight /\ phase'[c] = "ready"
            /\ seq'[c] = seq[c]
<1> USE DEF LedgerTypeOK, Goto, Return
<1>1. CASE CheckCooldown(c)
  BY <1>1, TagFacts DEF CheckCooldown, Asking
<1>2. CASE ReserveWindow(c)
  BY <1>2, TagFacts DEF ReserveWindow, Asking
<1>3. CASE Prepare(c)
  <2>1. phase[c] \in Asking /\ seq'[c] = seq[c] + 1
    BY <1>3 DEF Prepare, Asking
  <2>2. CASE Goto(c, "send") /\ UNCHANGED verdict
    BY <2>1, <2>2 DEF InFlight
  <2>3. CASE Return(c, {"other"})
    BY <2>1, <2>3, TagFacts
  <2>4. QED
    BY <1>3, <2>2, <2>3 DEF Prepare
<1>4. CASE Transmit(c) \/ Receive(c) \/ Lose(c)
  BY <1>4 DEF Transmit, Receive, Lose, InFlight
<1>5. CASE Settle(c)
  BY <1>5 DEF Settle, InFlight
<1>6. CASE Record(c)
  BY <1>6 DEF Record, InFlight
<1>7. QED
  BY <1>1, <1>2, <1>3, <1>4, <1>5, <1>6 DEF InvokeStep

(* A ledger step of one client leaves the others where they are. *)
LEMMA LedgerOthers ==
  ASSUME LedgerTypeOK, NEW c \in Client, NEW d \in Client, d # c,
         \/ Open(c) \/ Stop(c) \/ InvokeStep(c) \/ UNCHANGED ledgerVars
         \/ \E s \in Scope : Invoke(c, s)
  PROVE  /\ phase'[d] = phase[d] /\ seq'[d] = seq[d] /\ verdict'[d] = verdict[d]
         /\ \A n \in 1..MaxCalls : <<d, n>> \in Started' => <<d, n>> \in Started
         /\ effect' = effect
<1> USE DEF LedgerTypeOK, Goto, Return, Started, netVars
<1>1. CASE Open(c) \/ Stop(c) \/ \E s \in Scope : Invoke(c, s)
  BY <1>1 DEF Open, Stop, Invoke
<1>2. CASE InvokeStep(c)
  <2>1. phase'[d] = phase[d] /\ seq'[d] = seq[d] /\ verdict'[d] = verdict[d]
    BY <1>2 DEF InvokeStep, CheckCooldown, ReserveWindow, Prepare, Transmit, Receive, Lose,
                Settle, Record
  <2>2. effect' = effect /\ (transit' = transit \/ transit' = transit \cup {<<c, seq[c]>>})
    BY <1>2 DEF InvokeStep, CheckCooldown, ReserveWindow, Prepare, Transmit, Receive, Lose,
                Settle, Record, Current
  <2>3. QED
    BY <2>1, <2>2
<1>3. CASE UNCHANGED ledgerVars
  BY <1>3 DEF ledgerVars, clientVars
<1>4. QED
  BY <1>1, <1>2, <1>3

(* Nor does a client send anything but by Transmit. *)
LEMMA LedgerSelf ==
  ASSUME LedgerTypeOK, NEW c \in Client, phase[c] # "send",
         \/ Open(c) \/ Stop(c) \/ InvokeStep(c) \/ UNCHANGED ledgerVars
         \/ \E s \in Scope : Invoke(c, s)
  PROVE  transit' = transit /\ effect' = effect
<1>1. CASE InvokeStep(c)
  BY <1>1 DEF InvokeStep, CheckCooldown, ReserveWindow, Prepare, Transmit, Receive, Lose, Settle,
              Record, netVars
<1>2. QED
  BY <1>1 DEF Open, Stop, Invoke, netVars, ledgerVars

(* Telegram and time leave the clients where they are. *)
LEMMA BackgroundKeeps ==
  ASSUME LedgerTypeOK, [Background]_ledgerVars
  PROVE  /\ UNCHANGED <<phase, seq, verdict>>
         /\ Started' \subseteq Started
         /\ effect \subseteq effect'
  BY DEF Background, StartRead, EndRead, Apply, Refuse, Tick, ledgerVars, clientVars, netVars, Started

(* The ledger's part of a step of an invocation. *)
LEMMA ActLedger ==
  ASSUME NEW c \in Client, Act(c)
  PROVE  \/ Open(c) \/ Stop(c) \/ InvokeStep(c) \/ UNCHANGED ledgerVars
         \/ \E s \in Scope : Invoke(c, s)
  BY ActCases DEF Close, Crash, Start, Reserve, Lookup, Resolve, Preflight, OpenClient, FailEarly,
                  Issue, InCall, TakeVerdict, CloseClient, Finalize, Release, Die

(* A step of one invocation leaves the others where they are. *)
LEMMA ActOthers ==
  ASSUME TypeOK, NEW c \in Client, Act(c), NEW d \in Client, d # c
  PROVE  /\ pc'[d] = pc[d] /\ req'[d] = req[d] /\ step'[d] = step[d]
         /\ err'[d] = err[d] /\ outcome'[d] = outcome[d]
<1>1. pc' = pc \/ \E x : pc' = [pc EXCEPT ![c] = x]
  BY ActCases
  DEF pipeVars, To, Report, Finish, Succeed, Start, Reserve, Lookup, Resolve, Preflight, OpenClient, FailEarly,
      Issue, InCall, TakeVerdict, CloseClient, Finalize, Release, Die
<1>2. outcome' = outcome \/ \E x : outcome' = [outcome EXCEPT ![c] = x]
  BY ActCases
  DEF pipeVars, To, Report, Finish, Succeed, Start, Reserve, Lookup, Resolve, Preflight, OpenClient, FailEarly,
      Issue, InCall, TakeVerdict, CloseClient, Finalize, Release, Die
<1>3. req' = req \/ \E x : req' = [req EXCEPT ![c] = x]
  BY ActCases
  DEF pipeVars, To, Report, Finish, Succeed, Start, Reserve, Lookup, Resolve, Preflight, OpenClient, FailEarly,
      Issue, InCall, TakeVerdict, CloseClient, Finalize, Release, Die
<1>4. step' = step \/ \E x : step' = [step EXCEPT ![c] = x]
  BY ActCases
  DEF pipeVars, To, Report, Finish, Succeed, Start, Reserve, Lookup, Resolve, Preflight, OpenClient, FailEarly,
      Issue, InCall, TakeVerdict, CloseClient, Finalize, Release, Die
<1>5. err' = err \/ \E x : err' = [err EXCEPT ![c] = x]
  BY ActCases
  DEF pipeVars, To, Report, Finish, Succeed, Start, Reserve, Lookup, Resolve, Preflight, OpenClient, FailEarly,
      Issue, InCall, TakeVerdict, CloseClient, Finalize, Release, Die
<1>6. QED
  BY <1>1, <1>2, <1>3, <1>4, <1>5 DEF TypeOK

(* Where the pipeline stands tells where its client stands. *)
LEMMA AlignedStep ==
  ASSUME TypeOK, TypeOK', Aligned, Protocol, [Next]_vars
  PROVE  Aligned'
<1> SUFFICES ASSUME NEW d \in Client PROVE AlignedAt(d)'
  BY DEF Aligned
<1>1. /\ AlignedAt(d) /\ LedgerTypeOK
      /\ phase[d] \in {"ready", "closed", "gone"} \cup Asking \cup InFlight
      /\ seq[d] \in Nat /\ step[d] \in Nat
      /\ phase[d] = "closed" => verdict[d] = {} /\ seq[d] = 0
  <2>1. AlignedAt(d) /\ LedgerTypeOK /\ step[d] \in Nat
    BY DEF Aligned, TypeOK
  <2>2. phase[d] \in Phase /\ seq[d] \in Nat
    BY <2>1 DEF LedgerTypeOK
  <2>3. phase[d] = "closed" => verdict[d] = {} /\ seq[d] = 0
    BY DEF Protocol, Sequential
  <2>4. QED
    BY <2>1, <2>2, <2>3 DEF Phase
<1>2. ASSUME pc'[d] = pc[d], req'[d] = req[d], step'[d] = step[d], outcome'[d] = outcome[d],
             phase'[d] = phase[d], seq'[d] = seq[d], verdict'[d] = verdict[d]
      PROVE  AlignedAt(d)'
  BY <1>1, <1>2 DEF AlignedAt, Keyed
<1>3. CASE [Background]_ledgerVars /\ UNCHANGED pipeVars
  BY <1>1, <1>2, <1>3, BackgroundKeeps DEF pipeVars
<1>4. ASSUME NEW c \in Client, c # d, Act(c) PROVE AlignedAt(d)'
  <2>1. phase'[d] = phase[d] /\ seq'[d] = seq[d] /\ verdict'[d] = verdict[d]
    BY <1>1, <1>4, ActLedger, LedgerOthers
  <2>2. QED
    BY <1>2, <1>4, <2>1, ActOthers
<1> USE DEF At, To, Report, Finish, Succeed
<1>5. ASSUME UNCHANGED <<phase, seq, verdict, step, req>>,
             pc[d] # "idle" /\ pc'[d] # "idle",
             outcome'[d] # "none" => pc'[d] \in {"release", "done"},
             \/ /\ pc[d] \in {"reserve", "lookup", "resolve", "preflight", "open"}
                /\ pc'[d] \in {"resolve", "preflight", "open", "release", "done"}
             \/ pc[d] = "reserve" /\ pc'[d] = "lookup"
             \/ pc[d] = "run" /\ pc'[d] = "close"
             \/ pc[d] \in {"finalize", "release"} /\ pc'[d] = "done"
      PROVE  AlignedAt(d)'
  BY <1>1, <1>5 DEF AlignedAt, Keyed
<1>6. ASSUME Act(d) PROVE AlignedAt(d)'
  <2> USE DEF TypeOK
  <2>1. CASE \E r \in Requests : Start(d, r)
    <3>1. PICK r \in Requests : Start(d, r)
      BY <2>1
    <3>2. /\ pc[d] = "idle" /\ req'[d] = r /\ step'[d] = step[d]
          /\ phase'[d] = phase[d] /\ seq'[d] = seq[d] /\ verdict'[d] = verdict[d]
          /\ \/ pc'[d] \in {"resolve", "reserve"} /\ outcome'[d] = outcome[d]
             \/ pc'[d] = "done"
          /\ pc'[d] = "reserve" => ~r.dry /\ r.key # NoKey
      BY <3>1 DEF Start, ledgerVars, clientVars
    <3>3. QED
      BY <1>1, <3>2 DEF AlignedAt, Keyed
  <2>2. CASE Reserve(d) \/ Lookup(d) \/ Resolve(d) \/ Preflight(d)
    BY <1>1, <1>5, <2>2 DEF AlignedAt, Reserve, Lookup, Resolve, Preflight, ledgerVars, clientVars
  <2>3. CASE OpenClient(d)
    <3>1. pc[d] = "open" /\ req'[d] = req[d] /\ step'[d] = step[d]
      BY <2>3 DEF OpenClient
    <3>2. CASE Open(d) /\ pc'[d] = "run" /\ UNCHANGED outcome
      BY <1>1, <3>1, <3>2 DEF AlignedAt, Open, Goto, LedgerTypeOK, Keyed
    <3>3. CASE UNCHANGED ledgerVars /\ pc'[d] = "done"
      BY <1>1, <3>1, <3>3 DEF AlignedAt, Keyed, ledgerVars, clientVars
    <3>4. QED
      BY <2>3, <3>2, <3>3 DEF OpenClient
  <2>4. CASE FailEarly(d) \/ Release(d) \/ Finalize(d)
    BY <1>1, <1>5, <2>4 DEF AlignedAt, FailEarly, Release, Finalize, ledgerVars, clientVars
  <2>5. CASE \E s \in Scope : Issue(d, s)
    <3>1. PICK s \in Scope : Issue(d, s)
      BY <2>5
    <3>2. /\ pc[d] = "run" /\ pc'[d] = "call" /\ req'[d] = req[d] /\ outcome'[d] = outcome[d]
          /\ step'[d] = step[d] + 1 /\ phase'[d] = "check" /\ seq'[d] = seq[d]
          /\ verdict'[d] = verdict[d]
      BY <3>1 DEF Issue, Invoke, Goto, LedgerTypeOK
    <3>3. QED
      BY <1>1, <3>2 DEF AlignedAt, Keyed, Asking, InFlight
  <2>6. CASE InCall(d)
    <3>1. /\ pc[d] = "call" /\ pc'[d] = "call" /\ req'[d] = req[d] /\ outcome'[d] = outcome[d]
          /\ step'[d] = step[d]
      BY <2>6 DEF InCall, pipeVars
    <3>2. InvokeStep(d)
      BY <2>6 DEF InCall
    <3>3. QED
      BY <1>1, <3>1, <3>2, InvokeMoves DEF AlignedAt, Keyed, Asking, InFlight
  <2>7. CASE TakeVerdict(d)
    <3>1. /\ pc[d] = "call" /\ phase[d] = "ready" /\ req'[d] = req[d] /\ outcome'[d] = outcome[d]
          /\ step'[d] = step[d] /\ phase'[d] = phase[d] /\ seq'[d] = seq[d]
          /\ verdict'[d] = verdict[d]
          /\ pc'[d] = "close" \/ (pc'[d] = "run" /\ verdict[d] = {})
      BY <2>7 DEF TakeVerdict, ledgerVars, clientVars
    <3>2. QED
      BY <1>1, <3>1 DEF AlignedAt, Keyed, Asking, InFlight
  <2>8. CASE CloseClient(d)
    <3>1. /\ pc[d] = "close" /\ req'[d] = req[d] /\ step'[d] = step[d]
          /\ phase'[d] = "gone" /\ seq'[d] = seq[d]
          /\ \/ pc'[d] = "finalize" /\ outcome'[d] = outcome[d]
             \/ pc'[d] \in {"release", "done"}
      BY <2>8 DEF CloseClient, Close, Stop, Goto, LedgerTypeOK
    <3>2. QED
      BY <1>1, <3>1 DEF AlignedAt, Keyed
  <2>9. CASE Die(d)
    <3>1. /\ pc[d] \notin {"idle"} /\ pc'[d] = "dead" /\ req'[d] = req[d] /\ step'[d] = step[d]
          /\ phase'[d] = "gone" /\ seq'[d] = seq[d]
      BY <2>9 DEF Die, Crash, Stop, Goto, LedgerTypeOK, ledgerVars, clientVars
    <3>2. QED
      BY <1>1, <3>1 DEF AlignedAt, Keyed
  <2>10. QED
    BY <1>6, <2>1, <2>2, <2>3, <2>4, <2>5, <2>6, <2>7, <2>8, <2>9, ActCases
<1>7. QED
  BY <1>3, <1>4, <1>6, PipelineSteps

LEMMA AlignedInit == PipelineInit => TypeOK /\ Aligned
<1> SUFFICES ASSUME PipelineInit PROVE TypeOK /\ Aligned
  OBVIOUS
<1>1. LedgerInit /\ LedgerTypeOK
  BY LedgerTypingInit DEF PipelineInit
<1>2. TypeOK
  BY <1>1 DEF PipelineInit, TypeOK, PC, Outcomes
<1>3. Aligned
  BY <1>1, RowTypes DEF PipelineInit, LedgerInit, Aligned, AlignedAt
<1>4. QED
  BY <1>2, <1>3

(* What is known of the ledger and of where the pipeline stands. *)
Base == TypeOK /\ Aligned /\ Protocol /\ AllApplied

LEMMA BaseStep == Base /\ [Next]_vars => Base'
<1> SUFFICES ASSUME Base, [Next]_vars PROVE Base'
  OBVIOUS
<1>1. TypeOK /\ LedgerTypeOK /\ [LedgerNext]_ledgerVars
  BY LedgerStep DEF Base, TypeOK
<1>2. TypeOK' /\ LedgerTypeOK'
  BY <1>1, PipelineTypingStep, LedgerTypingStep DEF Base
<1>3. Protocol' /\ AllApplied'
  BY <1>1, <1>2, ProtocolStep, AllAppliedStep DEF Base
<1>4. Aligned'
  BY <1>1, <1>2, AlignedStep DEF Base
<1>5. QED
  BY <1>2, <1>3, <1>4 DEF Base

LEMMA BaseInit == PipelineInit => Base
<1>1. LedgerInit => AllApplied
  BY DEF LedgerInit, AllApplied
<1>2. QED
  BY <1>1, AlignedInit, ProtocolInit DEF Base, PipelineInit

LEMMA PipelineBase == Spec => []Base
<1>1. QED
  BY BaseInit, BaseStep, PTL DEF Spec

(* The state has its types in every reachable state. *)
THEOREM PipelineTyping == Spec => []TypeOK
<1>1. Base => TypeOK
  BY DEF Base
<1>2. QED
  BY <1>1, PipelineBase, PTL

(* A client that has sent nothing stays so unless it transmits. *)
LEMMA SilentStays ==
  ASSUME Base, [Next]_vars, NEW d \in Client, Silent(d), phase[d] # "send"
  PROVE  Silent(d)'
<1>1. LedgerTypeOK
  BY DEF Base, TypeOK
<1>2. CASE [Background]_ledgerVars
  BY <1>1, <1>2, BackgroundKeeps DEF Silent
<1>3. ASSUME NEW c \in Client, Act(c), c # d PROVE Silent(d)'
  BY <1>1, <1>3, ActLedger, LedgerOthers DEF Silent
<1>4. CASE Act(d)
  BY <1>1, <1>4, ActLedger, LedgerSelf DEF Silent, Started
<1>5. QED
  BY <1>2, <1>3, <1>4, PipelineSteps

(* What is applied stays applied. *)
LEMMA EffectStays ==
  ASSUME Base, [Next]_vars
  PROVE  effect \subseteq effect'
<1>1. LedgerTypeOK
  BY DEF Base, TypeOK
<1>2. CASE [Background]_ledgerVars
  BY <1>1, <1>2, BackgroundKeeps
<1>3. ASSUME NEW c \in Client, Act(c) PROVE effect' = effect
  BY <1>1, <1>3, ActLedger DEF Open, Stop, Invoke, InvokeStep, CheckCooldown, ReserveWindow, Prepare,
    Transmit, Receive, Lose, Settle, Record, netVars, ledgerVars
<1>4. QED
  BY <1>2, <1>3, PipelineSteps

(* A client that has not been opened has sent nothing, and one whose first *)
(* mutation is not sent yet neither.                                       *)
LEMMA NotYet ==
  ASSUME Base, NEW c \in Client, phase[c] = "closed" \/ seq[c] = 0
  PROVE  Silent(c)
<1>1. seq[c] = 0
  BY DEF Base, Protocol, Sequential
<1>2. QED
  BY <1>1 DEF Base, Protocol, SentKnown, Silent

(* When the first mutation of a client fails without being unknown or     *)
(* committed, or with a definitive rejection, nothing was sent.           *)
LEMMA FirstFails ==
  ASSUME Base, NEW c \in Client, InvokeStep(c), phase'[c] = "ready",
         phase[c] \in Asking => seq[c] = 0,
         phase[c] \in InFlight => seq[c] = 1,
         NothingDone(MapRPCErr(verdict'[c]))
  PROVE  Silent(c)'
<1>1. LedgerTypeOK /\ phase[c] \in Asking \cup InFlight
  BY InvokeMoves DEF Base, TypeOK
<1>2. phase[c] # "send"
  BY <1>1 DEF InvokeStep, CheckCooldown, ReserveWindow, Prepare, Transmit, Receive, Lose, Settle,
              Record, Goto, LedgerTypeOK
<1>3. UNCHANGED <<transit, effect>>
  BY <1>1, <1>2, LedgerSelf
<1>4. CASE phase[c] \in Asking
  BY <1>3, <1>4, NotYet DEF Silent, Started
<1>5. CASE phase[c] \in InFlight
  <2>1. \A n \in 1..MaxCalls : <<c, n>> \in Started => n = 1
    BY <1>5 DEF Base, Protocol, SentKnown
  <2>2. reply[c] \in Refusals => <<c, 1>> \notin Started
    BY <1>5 DEF Base, Protocol, ReplyTrue, Current
  <2>3. reply[c] \in Reply
    BY <1>1 DEF LedgerTypeOK
  <2>4. reply[c] \in Refusals
    <3>1. ~NothingDone(MapRPCErr({"committed"})) /\ ~NothingDone(MapRPCErr({"unknown"}))
          /\ ~NothingDone(MapRPCErr({}))
      BY DEF NothingDone, MapRPCErr
    <3>2. ASSUME NEW tags \in SUBSET Tags, Return(c, tags) PROVE verdict'[c] = tags
      BY <1>1, <3>2, ReturnType DEF LedgerTypeOK
    <3>3. CASE Settle(c)
      <4>1. Return(c, {"unknown", "flood"}) \/ Return(c, {"committed"})
        BY <1>1, <3>3 DEF Settle, Goto, LedgerTypeOK
      <4>2. CASE Return(c, {"committed"})
        BY <3>1, <3>2, <4>2, TagTypes
      <4>3. reply[c].kind \in {"flood", "slow"} \/ Return(c, {"committed"})
        BY <1>1, <3>3 DEF Settle, Goto, LedgerTypeOK
      <4>4. QED
        BY <2>3, <4>2, <4>3, ReplyTypes
    <3>4. CASE Record(c)
      <4>1. CASE Return(c, {"committed"}) \/ Return(c, {"unknown"})
        BY <3>1, <3>2, <4>1, TagTypes
      <4>2. CASE Return(c, OutcomeTags(c, reply[c]))
        <5>1. verdict'[c] = OutcomeTags(c, reply[c])
          BY <2>3, <3>2, <4>2, OutcomeTypes
        <5>2. Outcome(reply[c]) # "accepted" /\ Outcome(reply[c]) # "unknown"
          BY <3>1, <5>1 DEF OutcomeTags
        <5>3. reply[c] # NoReply
          BY <3>4 DEF Record, Base, Protocol, ReplyTrue
        <5>4. reply[c].kind \notin {"ok", "lost"}
          BY <5>2 DEF Outcome
        <5>5. QED
          BY <2>3, <5>3, <5>4, ReplyTypes
      <4>3. QED
        BY <3>4, <4>1, <4>2 DEF Record
    <3>5. Settle(c) \/ Record(c)
      BY <1>1, <1>5 DEF InvokeStep, CheckCooldown, ReserveWindow, Prepare, Transmit, Receive, Lose,
                        Goto, LedgerTypeOK, InFlight
    <3>6. QED
      BY <3>3, <3>4, <3>5
  <2>5. QED
    BY <1>3, <2>1, <2>2, <2>4 DEF Silent, Started
<1>6. QED
  BY <1>1, <1>4, <1>5

LEMMA SilentNext ==
  ASSUME NEW c
  PROVE  (CallsOf(c) \cap Started)' = {} <=> Silent(c)'
<1>1. \A n \in 1..MaxCalls : <<c, n>> \in CallsOf(c)'
  BY DEF CallsOf
<1>2. \A x \in CallsOf(c)' : x[2] \in 1..MaxCalls /\ x = <<c, x[2]>>
  BY DEF CallsOf
<1>3. QED
  BY <1>1, <1>2 DEF Silent

(* The operation's error tells what its mutations did. *)
LEMMA ErrorTrueStep ==
  ASSUME Base, Base', ErrorTrue, [Next]_vars
  PROVE  ErrorTrue'
<1> DEFINE
      Failed(d) == pc[d] = "call" /\ phase[d] = "ready" /\ step[d] = 1
                     /\ NothingDone(MapRPCErr(verdict[d]))
      Closing(d) == pc[d] = "close" /\ NothingDone(err[d])
      Worked(d) == (pc[d] = "close" /\ err[d] = {}) \/ pc[d] = "finalize"
      Whole(d) == \A n \in 1..Plan[req[d].cmd] : <<d, n>> \in effect
<1> SUFFICES ASSUME NEW d \in Client
             PROVE  /\ Failed(d)' \/ Closing(d)' \/ (pc'[d] = "release") => Silent(d)'
                    /\ Worked(d)' => Whole(d)'
  BY SilentNext DEF ErrorTrue, ErrorTrueAt
<1>1. /\ Failed(d) \/ Closing(d) \/ pc[d] = "release" => Silent(d)
      /\ Worked(d) => Whole(d)
  BY SilentClient DEF ErrorTrue, ErrorTrueAt
<1>2. TypeOK /\ LedgerTypeOK /\ AlignedAt(d)
  BY DEF Base, TypeOK, Aligned
<1>3. Silent(d) /\ phase[d] # "send" => Silent(d)'
  BY SilentStays
<1>4. req'[d] = req[d] /\ Whole(d) => Whole(d)'
  BY EffectStays
<1>5. ASSUME pc'[d] = pc[d], req'[d] = req[d], step'[d] = step[d], err'[d] = err[d],
             phase'[d] = phase[d], verdict'[d] = verdict[d]
      PROVE  /\ Failed(d)' \/ Closing(d)' \/ (pc'[d] = "release") => Silent(d)'
             /\ Worked(d)' => Whole(d)'
  <2>1. Failed(d) \/ Closing(d) \/ pc[d] = "release" => phase[d] # "send"
    BY <1>2 DEF AlignedAt
  <2>2. Failed(d)' = Failed(d) /\ Closing(d)' = Closing(d) /\ Worked(d)' = Worked(d)
    BY <1>5
  <2>3. QED
    BY <1>1, <1>3, <1>4, <1>5, <2>1, <2>2
<1>6. CASE [Background]_ledgerVars /\ UNCHANGED pipeVars
  BY <1>2, <1>5, <1>6, BackgroundKeeps DEF pipeVars
<1>7. ASSUME NEW c \in Client, c # d, Act(c)
      PROVE  /\ Failed(d)' \/ Closing(d)' \/ (pc'[d] = "release") => Silent(d)'
             /\ Worked(d)' => Whole(d)'
  <2>1. phase'[d] = phase[d] /\ seq'[d] = seq[d] /\ verdict'[d] = verdict[d]
    BY <1>2, <1>7, ActLedger, LedgerOthers
  <2>2. QED
    BY <1>2, <1>5, <1>7, <2>1, ActOthers
<1> USE DEF At, To, Report, Finish, Succeed
<1>8. CASE Act(d)
  <2> USE DEF TypeOK
  <2>1. ASSUME pc'[d] \notin {"call", "close", "finalize", "release"}
        PROVE  /\ Failed(d)' \/ Closing(d)' \/ (pc'[d] = "release") => Silent(d)'
               /\ Worked(d)' => Whole(d)'
    BY <2>1
  <2>2. ASSUME pc'[d] = "release", Silent(d), phase[d] # "send"
        PROVE  /\ Failed(d)' \/ Closing(d)' \/ (pc'[d] = "release") => Silent(d)'
               /\ Worked(d)' => Whole(d)'
    BY <1>3, <2>2
  <2>3. CASE (\E r \in Requests : Start(d, r)) \/ Reserve(d) \/ Lookup(d) \/ OpenClient(d) \/ Release(d)
              \/ Finalize(d) \/ Die(d)
    BY <1>2, <2>1, <2>3 DEF Start, Reserve, Lookup, OpenClient, Release, Finalize, Die
  <2>4. CASE Resolve(d) \/ Preflight(d)
    <3>1. pc'[d] \in {"preflight", "open", "done", "release"} /\ phase[d] = "closed"
      BY <1>2, <2>4 DEF Resolve, Preflight, AlignedAt
    <3>2. QED
      BY <2>1, <2>2, <3>1, NotYet
  <2>5. CASE FailEarly(d)
    <3>1. pc'[d] = "close" /\ phase[d] = "ready" /\ seq[d] = 0 /\ err'[d] # {}
      <4>1. pc[d] = "run" /\ step[d] = 0 /\ pc'[d] = "close"
        BY <1>2, <2>5 DEF FailEarly
      <4>2. err'[d] # {}
        BY <1>2, <2>5, TagFacts DEF FailEarly
      <4>3. QED
        BY <1>2, <4>1, <4>2 DEF AlignedAt
    <3>2. QED
      BY <1>3, <3>1, NotYet
  <2>6. CASE \E s \in Scope : Issue(d, s)
    <3>1. pc'[d] = "call" /\ phase'[d] = "check"
      BY <1>2, <2>6 DEF Issue, Invoke, Goto, LedgerTypeOK
    <3>2. QED
      BY <3>1
  <2>7. CASE InCall(d)
    <3>1. /\ pc[d] = "call" /\ pc'[d] = "call" /\ step'[d] = step[d] /\ InvokeStep(d)
      BY <2>7 DEF InCall, pipeVars
    <3>2. ASSUME Failed(d)' PROVE Silent(d)'
      <4>1. step[d] = 1 /\ seq[d] \in Nat
        BY <1>2, <3>1, <3>2 DEF LedgerTypeOK
      <4>2. /\ phase[d] \in Asking => seq[d] = 0
            /\ phase[d] \in InFlight => seq[d] = 1
        BY <1>2, <3>1, <4>1 DEF AlignedAt
      <4>3. QED
        BY <3>1, <3>2, <4>2, FirstFails
    <3>3. QED
      BY <3>1, <3>2
  <2>8. CASE TakeVerdict(d)
    <3>1. /\ pc[d] = "call" /\ phase[d] = "ready" /\ req'[d] = req[d] /\ effect' = effect
          /\ pc'[d] \in {"run", "close"}
      BY <1>2, <2>8 DEF TakeVerdict, ledgerVars, netVars
    <3>2. ASSUME Closing(d)' PROVE Silent(d)'
      <4>1. CASE verdict[d] # {} /\ err'[d] = RunError(step[d], verdict[d])
        <5>1. step[d] = 1
          <6>1. step[d] \in Nat /\ step[d] > 0
            BY <1>2, <3>1 DEF AlignedAt
          <6>2. ~(step[d] > 1)
            BY <3>2, <4>1 DEF RunError, NothingDone
          <6>3. QED
            BY <6>1, <6>2
        <5>2. RunError(step[d], verdict[d]) = MapRPCErr(verdict[d])
          BY <5>1 DEF RunError
        <5>3. Failed(d)
          BY <3>1, <3>2, <4>1, <5>1, <5>2
        <5>4. QED
          BY <1>1, <1>3, <3>1, <5>3
      <4>2. CASE err'[d] \in {{}, {"committed"}}
        BY <3>2, <4>2 DEF NothingDone
      <4>3. QED
        BY <1>2, <2>8, <3>2, <4>1, <4>2 DEF TakeVerdict
    <3>3. ASSUME Worked(d)' PROVE Whole(d)'
      <4>1. verdict[d] = {} /\ step[d] >= Plan[req[d].cmd]
        <5>1. err'[d] = {}
          BY <3>1, <3>3
        <5>2. verdict[d] # {} => RunError(step[d], verdict[d]) # {}
          BY DEF RunError, MapRPCErr
        <5>3. QED
          BY <1>2, <2>8, <3>3, <5>1, <5>2 DEF TakeVerdict
      <4>2. seq[d] = step[d] /\ seq[d] \in Nat /\ req[d].cmd \in Commands
            /\ Plan[req[d].cmd] \in 1..MaxCalls
        BY <1>2, <3>1, <4>1, RowTypes DEF AlignedAt, LedgerTypeOK
      <4>3. \A n \in 1..MaxCalls : n <= seq[d] => <<d, n>> \in effect
        <5>1. \A n \in 1..MaxCalls : n > seq[d] \/ <<d, n>> \in effect
          BY <3>1, <4>1 DEF Base, AllApplied, InFlight
        <5>2. QED
          BY <4>2, <5>1
      <4>4. \A n \in 1..Plan[req[d].cmd] : n \in 1..MaxCalls /\ n <= seq[d]
        BY <4>1, <4>2
      <4>5. QED
        BY <3>1, <4>3, <4>4
    <3>4. QED
      BY <3>1, <3>2, <3>3
  <2>9. CASE CloseClient(d)
    <3>1. /\ pc[d] = "close" /\ phase[d] = "ready" /\ req'[d] = req[d]
          /\ \/ pc'[d] = "finalize" /\ err[d] = {}
             \/ pc'[d] = "done"
             \/ pc'[d] = "release" /\ Releasable(err[d])
      BY <1>2, <2>9 DEF CloseClient, Close
    <3>2. Releasable(err[d]) => NothingDone(err[d])
      BY DEF Releasable, NothingDone
    <3>3. QED
      BY <1>1, <1>3, <1>4, <2>1, <3>1, <3>2
  <2>10. QED
    BY <1>8, <2>3, <2>4, <2>5, <2>6, <2>7, <2>8, <2>9, ActCases
<1>9. QED
  BY <1>6, <1>7, <1>8, PipelineSteps

LEMMA KeyedKey ==
  ASSUME TypeOK, NEW c \in Client, Keyed(c)
  PROVE  /\ req[c] \in Requests /\ req[c].key \in Keys /\ req[c].cmd \in Commands
         /\ Row(c) \in Rows \cup {NoRow}
<1>1. req[c] \in Requests
  BY RowTypes DEF Keyed, TypeOK
<1>2. QED
  BY <1>1, RowTypes DEF Keyed, TypeOK, Row

(* Only the invocation's own row changes, and only where the code says. *)
LEMMA IdemChanges ==
  ASSUME NEW c \in Client, Act(c)
  PROVE  \/ UNCHANGED idem
         \/ /\ pc[c] = "reserve" /\ Row(c) = NoRow /\ req' = req
            /\ idem' = [idem EXCEPT ![req[c].key] =
                 [state |-> "pending", owner |-> c, cmd |-> req[c].cmd, print |-> req[c].print]]
         \/ /\ pc[c] = "finalize" /\ Owns(c) /\ req' = req
            /\ pc' = [pc EXCEPT ![c] = "done"] /\ effect' = effect
            /\ idem' = [idem EXCEPT ![req[c].key].state = "done"]
         \/ /\ pc[c] = "release" /\ Owns(c) /\ Row(c).state = "pending" /\ req' = req
            /\ pc' = [pc EXCEPT ![c] = "done"] /\ effect' = effect
            /\ idem' = [idem EXCEPT ![req[c].key] = NoRow]
<1> USE DEF At, To, Report, Finish, Succeed
<1>1. CASE Reserve(c)
  BY <1>1 DEF Reserve
<1>2. CASE Finalize(c)
  BY <1>2 DEF Finalize, ledgerVars, netVars
<1>3. CASE Release(c)
  BY <1>3 DEF Release, ledgerVars, netVars
<1>4. QED
  BY <1>1, <1>2, <1>3, ActCases DEF pipeVars, Start, Lookup, Resolve, Preflight, OpenClient,
     FailEarly, Issue, InCall, TakeVerdict, CloseClient, Die

(* An invocation that owns the row of its key keeps it until it releases it. *)
LEMMA OwnerStays ==
  ASSUME TypeOK, TypeOK', Aligned, NEW c \in Client, Act(c), NEW d \in Client, Keyed(d),
         Row(d).owner = d, d # c \/ pc[c] # "release"
  PROVE  /\ req'[d] = req[d] /\ Keyed(d)' /\ Row(d)'.owner = d
         /\ d # c => Row(d)' = Row(d)
<1>1. /\ req[d].key \in Keys /\ Row(d) # NoRow /\ Row(d).owner = d
      /\ idem \in [Keys -> Rows \cup {NoRow}]
  BY KeyedKey, RowTypes DEF TypeOK
<1>2. req'[d] = req[d]
  <2>1. CASE d # c
    BY <2>1, ActOthers
  <2>2. CASE d = c
    <3>1. pc[c] # "idle"
      BY <2>2, RowTypes DEF Aligned, AlignedAt, Keyed
    <3>2. QED
      BY <2>2, <3>1, ActCases
      DEF At, pipeVars, Start, Reserve, Lookup, Resolve, Preflight, OpenClient, FailEarly, Issue,
          InCall, TakeVerdict, CloseClient, Finalize, Release, Die
  <2>3. QED
    BY <2>1, <2>2
<1>3. Keyed(d)'
  BY <1>2 DEF Keyed
<1>4. CASE UNCHANGED idem
  BY <1>1, <1>2, <1>3, <1>4 DEF Row
<1>5. CASE pc[c] = "reserve" /\ Row(c) = NoRow
            /\ idem' = [idem EXCEPT ![req[c].key] =
                 [state |-> "pending", owner |-> c, cmd |-> req[c].cmd, print |-> req[c].print]]
  BY <1>1, <1>2, <1>3, <1>5 DEF Row
<1>6. CASE /\ pc[c] = "finalize" /\ Owns(c)
           /\ idem' = [idem EXCEPT ![req[c].key].state = "done"]
  <2>1. Row(d)'.owner = d
    BY <1>1, <1>2, <1>6 DEF Row
  <2>2. d # c => req[c].key # req[d].key
    BY <1>1, <1>6 DEF Owns, Row
  <2>3. QED
    BY <1>1, <1>2, <1>3, <1>6, <2>1, <2>2 DEF Row
<1>7. CASE /\ pc[c] = "release" /\ Owns(c)
           /\ idem' = [idem EXCEPT ![req[c].key] = NoRow]
  BY <1>1, <1>2, <1>3, <1>7 DEF Owns, Row
<1>8. QED
  BY <1>4, <1>5, <1>6, <1>7, IdemChanges

LEMMA ClaimHeldStep ==
  ASSUME Base, Base', ErrorTrue, ClaimHeld, [Next]_vars
  PROVE  ClaimHeld'
<1>1. TypeOK /\ TypeOK' /\ Aligned /\ effect \subseteq effect'
  BY EffectStays DEF Base
<1>2. CASE UNCHANGED pipeVars
  BY <1>1, <1>2 DEF ClaimHeld, ClaimedAt, RowTrue, Keyed, Row, pipeVars
<1>3. ASSUME NEW c \in Client, Act(c), NEW d \in Client PROVE ClaimedAt(d)'
  <2> SUFFICES ASSUME pc'[d] \in Claimed, Keyed(d)'
               PROVE  Row(d)'.owner = d /\ Row(d)'.state = "pending"
    BY DEF ClaimedAt
  <2>1. CASE d # c
    <3>1. pc[d] \in Claimed /\ Keyed(d)
      BY <1>1, <1>3, <2>1, ActOthers DEF Keyed
    <3>2. Row(d).owner = d /\ Row(d).state = "pending"
      BY <3>1 DEF ClaimHeld, ClaimedAt
    <3>3. QED
      BY <1>1, <1>3, <2>1, <3>1, <3>2, OwnerStays
  <2>2. CASE d = c /\ Reserve(c)
    <3>1. CASE To(c, "lookup")
      BY <1>1, <2>2, <3>1 DEF To, TypeOK, Claimed
    <3>2. CASE idem' = [idem EXCEPT ![req[c].key] =
             [state |-> "pending", owner |-> c, cmd |-> req[c].cmd, print |-> req[c].print]]
      <4>1. req' = req /\ req[c].key \in Keys
        BY <1>1, <2>2, KeyedKey DEF Reserve, At, Aligned, AlignedAt
      <4>2. QED
        BY <1>1, <2>2, <3>2, <4>1 DEF Row, TypeOK
    <3>3. QED
      BY <2>2, <3>1, <3>2 DEF Reserve
  <2>3. CASE d = c /\ \E r \in Requests : Start(c, r)
    BY <1>1, <2>3 DEF Start, To, Finish, Succeed, At, TypeOK, Claimed, Keyed
  <2>4. CASE d = c /\ ~Reserve(c) /\ ~(\E r \in Requests : Start(c, r))
    <3>1. req' = req /\ pc[c] \in Claimed /\ idem' = idem
      <4> USE DEF At, To, Report, Finish, Succeed, TypeOK, Claimed
      <4>1. CASE Lookup(c) \/ Finalize(c) \/ Release(c) \/ Die(c)
        BY <1>1, <2>4, <4>1 DEF Lookup, Finalize, Release, Die
      <4>2. CASE Resolve(c) \/ Preflight(c) \/ OpenClient(c) \/ FailEarly(c) \/ InCall(c)
                 \/ (\E s \in Scope : Issue(c, s)) \/ TakeVerdict(c) \/ CloseClient(c)
        BY <4>2 DEF Resolve, Preflight, OpenClient, FailEarly, Issue, InCall, TakeVerdict,
                    CloseClient, pipeVars
      <4>3. QED
        BY <1>3, <2>4, <4>1, <4>2, ActCases
    <3>2. QED
      BY <2>4, <3>1 DEF ClaimHeld, ClaimedAt, Row, Keyed
  <2>5. QED
    BY <2>1, <2>2, <2>3, <2>4
<1>4. ASSUME NEW c \in Client, Act(c), NEW k \in Keys PROVE RowTrue(k)'
  <2> DEFINE o == idem[k].owner
  <2>1. ASSUME idem'[k] = idem[k], idem[k] # NoRow PROVE RowTrue(k)'
    <3>1. /\ o \in Client /\ Keyed(o) /\ req[o].key = k /\ Matches(idem[k], req[o])
          /\ idem[k].state = "done" =>
               pc[o] = "done" /\ \A n \in 1..Plan[req[o].cmd] : <<o, n>> \in effect
      <4>1. idem[k] \in Rows
        BY <1>1, <2>1 DEF TypeOK
      <4>2. QED
        BY <2>1, <4>1, RowTypes DEF ClaimHeld, RowTrue
    <3>2. CASE o # c
      <4>1. req'[o] = req[o] /\ pc'[o] = pc[o]
        BY <1>1, <1>4, <3>1, <3>2, ActOthers
      <4>2. QED
        BY <1>1, <2>1, <3>1, <4>1 DEF RowTrue, Keyed
    <3>3. CASE o = c
      <4>1. pc[c] # "idle"
        BY <1>1, <3>1, <3>3, RowTypes DEF Aligned, AlignedAt, Keyed
      <4>2. req' = req /\ pc[c] # "done"
        BY <1>4, <4>1, ActCases
        DEF At, pipeVars, Start, Reserve, Lookup, Resolve, Preflight, OpenClient, FailEarly, Issue,
            InCall, TakeVerdict, CloseClient, Finalize, Release, Die
      <4>3. QED
        BY <1>1, <2>1, <3>1, <3>3, <4>2 DEF RowTrue, Keyed
    <3>4. QED
      BY <3>2, <3>3
  <2>2. ASSUME idem'[k] = NoRow PROVE RowTrue(k)'
    BY <2>2 DEF RowTrue
  <2>3. CASE UNCHANGED idem
    BY <2>1, <2>2, <2>3
  <2>4. CASE /\ pc[c] = "reserve" /\ Row(c) = NoRow /\ req' = req
             /\ idem' = [idem EXCEPT ![req[c].key] =
                  [state |-> "pending", owner |-> c, cmd |-> req[c].cmd, print |-> req[c].print]]
    <3>1. CASE k = req[c].key
      <4>1. Keyed(c)'
        BY <1>1, <2>4 DEF Aligned, AlignedAt, Keyed
      <4>2. idem'[k] = [state |-> "pending", owner |-> c, cmd |-> req[c].cmd, print |-> req[c].print]
        BY <1>1, <2>4, <3>1 DEF TypeOK
      <4>3. QED
        BY <2>4, <3>1, <4>1, <4>2 DEF RowTrue, Matches
    <3>2. CASE k # req[c].key
      <4>1. idem'[k] = idem[k]
        BY <1>1, <2>4, <3>2 DEF TypeOK
      <4>2. QED
        BY <2>1, <2>2, <4>1
    <3>3. QED
      BY <3>1, <3>2
  <2>5. CASE /\ pc[c] = "finalize" /\ Owns(c) /\ req' = req
             /\ pc' = [pc EXCEPT ![c] = "done"] /\ effect' = effect
             /\ idem' = [idem EXCEPT ![req[c].key].state = "done"]
    <3>1. CASE k = req[c].key
      <4>1. /\ idem[k] \in Rows /\ idem[k].owner = c
            /\ Keyed(c) /\ Matches(idem[k], req[c])
        BY <1>1, <2>5, <3>1, RowTypes DEF Owns, Row, TypeOK, ClaimHeld, RowTrue
      <4>2. /\ idem'[k] = [idem[k] EXCEPT !.state = "done"]
            /\ idem'[k].owner = c /\ idem'[k].cmd = idem[k].cmd /\ idem'[k].print = idem[k].print
        BY <1>1, <2>5, <3>1, <4>1 DEF TypeOK, Rows
      <4>3. pc'[c] = "done" /\ Keyed(c)'
        BY <1>1, <2>5, <4>1 DEF TypeOK, Keyed
      <4>4. \A n \in 1..Plan[req[c].cmd] : <<c, n>> \in effect'
        BY <2>5 DEF ErrorTrue, ErrorTrueAt
      <4>5. QED
        BY <2>5, <3>1, <4>1, <4>2, <4>3, <4>4 DEF RowTrue, Matches
    <3>2. CASE k # req[c].key
      <4>1. idem'[k] = idem[k]
        BY <1>1, <2>5, <3>2 DEF TypeOK
      <4>2. QED
        BY <2>1, <2>2, <4>1
    <3>3. QED
      BY <3>1, <3>2
  <2>6. CASE /\ pc[c] = "release" /\ idem' = [idem EXCEPT ![req[c].key] = NoRow]
    <3>1. idem'[k] = idem[k] \/ idem'[k] = NoRow
      BY <1>1, <2>6 DEF TypeOK
    <3>2. QED
      BY <2>1, <2>2, <3>1
  <2>7. QED
    BY <1>4, <2>3, <2>4, <2>5, <2>6, IdemChanges
<1>5. QED
  BY <1>2, <1>3, <1>4, PipelineSteps DEF ClaimHeld

LEMMA StartedKeepsKeyStep ==
  ASSUME Base, Base', ErrorTrue, ClaimHeld, StartedKeepsKey, [Next]_vars
  PROVE  StartedKeepsKey'
<1>1. TypeOK /\ TypeOK' /\ Aligned /\ LedgerTypeOK
  BY DEF Base, TypeOK
<1> SUFFICES ASSUME NEW x \in Started', Keyed(x[1])' PROVE Row(x[1])'.owner = x[1]
  BY DEF StartedKeepsKey
<1>2. PICK d \in Client, n \in 1..MaxCalls : x = <<d, n>> /\ x[1] = d
  <2>1. x \in Call
    BY <1>1 DEF Started, TypeOK, LedgerTypeOK
  <2>2. QED
    BY <2>1, CallShape
<1>3. ~Silent(d)'
  BY <1>2 DEF Silent
<1>4. ~Silent(d) => \E m \in 1..MaxCalls : <<d, m>> \in Started /\ <<d, m>>[1] = d
  BY DEF Silent
<1>5. Keyed(d) /\ ~Silent(d) => Row(d).owner = d
  BY <1>4 DEF StartedKeepsKey
<1>6. CASE [Background]_ledgerVars /\ UNCHANGED pipeVars
  <2>1. ~Silent(d)
    BY <1>1, <1>3, <1>6, BackgroundKeeps DEF Silent
  <2>2. QED
    BY <1>2, <1>5, <1>6, <2>1 DEF pipeVars, Keyed, Row
<1>7. ASSUME NEW c \in Client, c # d, Act(c) PROVE Row(d)'.owner = d
  <2>1. ~Silent(d)
    BY <1>1, <1>3, <1>7, ActLedger, LedgerOthers DEF Silent
  <2>2. Keyed(d)
    BY <1>1, <1>2, <1>7, ActOthers DEF Keyed
  <2>3. QED
    BY <1>1, <1>5, <1>7, <2>1, <2>2, OwnerStays
<1>8. CASE Act(d)
  <2>1. CASE phase[d] = "send"
    <3>1. pc[d] = "call"
      BY <1>1, <2>1 DEF Aligned, AlignedAt, Asking, InFlight, TypeOK, PC
    <3>2. req' = req
      BY <1>8, <3>1, ActCases
      DEF At, pipeVars, Start, Reserve, Lookup, Resolve, Preflight, OpenClient, FailEarly, Issue,
          InCall, TakeVerdict, CloseClient, Finalize, Release, Die
    <3>3. Keyed(d)
      BY <1>2, <3>2 DEF Keyed
    <3>4. Row(d).owner = d
      BY <3>1, <3>3 DEF ClaimHeld, ClaimedAt, Claimed
    <3>5. QED
      BY <1>1, <1>2, <1>8, <3>1, <3>3, <3>4, OwnerStays
  <2>2. CASE phase[d] # "send"
    <3>1. ~Silent(d)
      BY <1>3, <2>2, SilentStays
    <3>2. pc[d] # "idle" /\ pc[d] # "release"
      BY <1>1, <3>1, NotYet, SilentClient DEF Aligned, AlignedAt, ErrorTrue, ErrorTrueAt
    <3>3. req' = req
      BY <1>8, <3>2, ActCases
      DEF At, pipeVars, Start, Reserve, Lookup, Resolve, Preflight, OpenClient, FailEarly, Issue,
          InCall, TakeVerdict, CloseClient, Finalize, Release, Die
    <3>4. Keyed(d)
      BY <1>2, <3>3 DEF Keyed
    <3>5. QED
      BY <1>1, <1>2, <1>5, <1>8, <3>1, <3>2, <3>4, OwnerStays
  <2>3. QED
    BY <2>1, <2>2
<1>9. QED
  BY <1>2, <1>6, <1>7, <1>8, PipelineSteps

Claims == Base /\ ErrorTrue /\ ClaimHeld /\ StartedKeepsKey

LEMMA ClaimsStep == Claims /\ [Next]_vars => Claims'
<1>1. Base /\ [Next]_vars => Base'
  BY BaseStep
<1>2. QED
  BY <1>1, ErrorTrueStep, ClaimHeldStep, StartedKeepsKeyStep DEF Claims

LEMMA ClaimsInit == PipelineInit => Claims
<1> SUFFICES ASSUME PipelineInit PROVE Claims
  OBVIOUS
<1>1. ErrorTrue
  BY DEF PipelineInit, ErrorTrue, ErrorTrueAt
<1>2. ClaimHeld
  BY DEF PipelineInit, ClaimHeld, ClaimedAt, RowTrue, Claimed
<1>3. StartedKeepsKey
  BY DEF PipelineInit, LedgerInit, StartedKeepsKey, Started
<1>4. QED
  BY <1>1, <1>2, <1>3, BaseInit DEF Claims

LEMMA PipelineClaims == Spec => []Claims
<1>1. QED
  BY ClaimsInit, ClaimsStep, PTL DEF Spec

(* StartedKeepsKey: over retries, crashes and failures of any statement,   *)
(* giving a key up proves that nothing was sent under it.                  *)
THEOREM KeptKeys == Spec => []StartedKeepsKey
<1>1. Claims => StartedKeepsKey
  BY DEF Claims
<1>2. QED
  BY <1>1, PipelineClaims, PTL

(* OneWriterPerKey: at most one invocation ever sends a mutation under a key. *)
THEOREM OneWriter == Spec => []OneWriterPerKey
<1>1. Claims => OneWriterPerKey
  BY DEF Claims, StartedKeepsKey, OneWriterPerKey, Row
<1>2. QED
  BY <1>1, PipelineClaims, PTL

(* The outcomes that deny any effect. *)
Denials == Outcomes \ {"none", "ok", "unknown", "committed"}

LEMMA ReportHonestStep ==
  ASSUME Base, Base', ErrorTrue, ReportHonest, [Next]_vars
  PROVE  ReportHonest'
<1> DEFINE Whole(d) == \A n \in 1..Plan[req[d].cmd] : <<d, n>> \in effect
<1>1. TypeOK /\ Aligned /\ LedgerTypeOK /\ effect \subseteq effect'
  BY EffectStays DEF Base, TypeOK
<1> SUFFICES ASSUME NEW d \in Client
             PROVE  /\ outcome'[d] \in Denials => Silent(d)'
                    /\ outcome'[d] = "ok" => Whole(d)'
  BY SilentNext DEF ReportHonest, Denials
<1>2. /\ outcome[d] \in Denials => Silent(d)
      /\ outcome[d] = "ok" => Whole(d)
  BY SilentClient DEF ReportHonest, Denials
<1>3. "none" \notin Denials /\ "ok" \notin Denials /\ "unknown" \notin Denials
      /\ "committed" \notin Denials
  BY DEF Denials
<1>4. ASSUME outcome'[d] = outcome[d], outcome[d] # "none", req'[d] = req[d]
      PROVE  /\ outcome'[d] \in Denials => Silent(d)'
             /\ outcome'[d] = "ok" => Whole(d)'
  <2>1. phase[d] # "send"
    BY <1>1, <1>4 DEF Aligned, AlignedAt
  <2>2. QED
    BY <1>1, <1>2, <1>4, <2>1, SilentStays
<1>5. ASSUME outcome'[d] = "none"
      PROVE  /\ outcome'[d] \in Denials => Silent(d)'
             /\ outcome'[d] = "ok" => Whole(d)'
  BY <1>3, <1>5
<1>6. CASE UNCHANGED pipeVars
  BY <1>4, <1>5, <1>6 DEF pipeVars
<1>7. ASSUME NEW c \in Client, c # d, Act(c)
      PROVE  /\ outcome'[d] \in Denials => Silent(d)'
             /\ outcome'[d] = "ok" => Whole(d)'
  BY <1>1, <1>4, <1>5, <1>7, ActOthers
<1> USE DEF At, To, Report, Finish, Succeed
<1>8. CASE Act(d)
  <2> USE DEF TypeOK
  <2>1. CASE outcome'[d] = outcome[d]
    <3>1. outcome[d] # "none" => pc[d] # "idle"
      BY <1>1 DEF Aligned, AlignedAt
    <3>2. pc[d] # "idle" => req' = req
      BY <1>8, ActCases
      DEF pipeVars, Start, Reserve, Lookup, Resolve, Preflight, OpenClient, FailEarly, Issue,
          InCall, TakeVerdict, CloseClient, Finalize, Release, Die
    <3>3. QED
      BY <1>4, <1>5, <2>1, <3>1, <3>2
  <2>2. ASSUME phase[d] = "closed", outcome'[d] # "ok"
        PROVE  /\ outcome'[d] \in Denials => Silent(d)'
               /\ outcome'[d] = "ok" => Whole(d)'
    BY <2>2, NotYet, SilentStays
  <2>3. CASE (\E r \in Requests : Start(d, r)) \/ Lookup(d) \/ Resolve(d) \/ Preflight(d)
    <3>1. phase[d] = "closed"
      BY <1>1, <2>3 DEF Aligned, AlignedAt, Start, Lookup, Resolve, Preflight
    <3>2. outcome'[d] = outcome[d] \/ outcome'[d] # "ok"
      BY <1>1, <2>3 DEF Start, Lookup, Resolve, Preflight
    <3>3. QED
      BY <2>1, <2>2, <3>1, <3>2
  <2>4. CASE OpenClient(d)
    <3>1. phase[d] = "closed"
      BY <1>1, <2>4 DEF Aligned, AlignedAt, OpenClient
    <3>2. outcome'[d] = outcome[d] \/ outcome'[d] # "ok"
      BY <1>1, <2>4 DEF OpenClient
    <3>3. QED
      BY <2>1, <2>2, <3>1, <3>2
  <2>5. CASE CloseClient(d)
    <3>1. /\ pc[d] = "close" /\ phase[d] = "ready"
          /\ \/ outcome'[d] \in {outcome[d], "committed"}
             \/ err[d] # {} /\ outcome'[d] = Classify(err[d])
      BY <1>1, <2>5 DEF CloseClient, Close
    <3>2. CASE err[d] # {} /\ outcome'[d] = Classify(err[d])
      <4>1. outcome'[d] # "ok"
        BY <3>2 DEF Classify
      <4>2. outcome'[d] \in Denials => NothingDone(err[d])
        BY <1>3, <3>2 DEF Classify, NothingDone
      <4>3. NothingDone(err[d]) => Silent(d)'
        BY <3>1, SilentClient, SilentStays DEF ErrorTrue, ErrorTrueAt
      <4>4. QED
        BY <4>1, <4>2, <4>3
    <3>3. QED
      BY <1>3, <2>1, <3>1, <3>2
  <2>6. CASE Finalize(d)
    <3>1. pc[d] = "finalize" /\ req' = req /\ outcome'[d] \in {"ok", "committed"}
      BY <1>1, <2>6 DEF Finalize
    <3>2. Whole(d)
      BY <3>1 DEF ErrorTrue, ErrorTrueAt
    <3>3. QED
      BY <1>1, <1>3, <3>1, <3>2
  <2>7. CASE Reserve(d) \/ FailEarly(d) \/ (\E s \in Scope : Issue(d, s)) \/ InCall(d)
             \/ TakeVerdict(d) \/ Release(d) \/ Die(d)
    BY <2>1, <2>7 DEF Reserve, FailEarly, Issue, InCall, TakeVerdict, Release, Die, pipeVars
  <2>8. QED
    BY <1>8, <2>3, <2>4, <2>5, <2>6, <2>7, ActCases
<1>9. QED
  BY <1>6, <1>7, <1>8, PipelineSteps

(* ReportHonest: what an invocation reports about Telegram is true. *)
THEOREM HonestReports == Spec => []ReportHonest
<1>1. PipelineInit => ReportHonest
  BY DEF PipelineInit, ReportHonest
<1>2. Claims /\ Claims' /\ ReportHonest /\ [Next]_vars => ReportHonest'
  BY ReportHonestStep DEF Claims
<1>3. QED
  BY <1>1, <1>2, PipelineClaims, PTL DEF Spec

(* A finished row is never touched again. *)
LEMMA DoneStays ==
  ASSUME Base, ClaimHeld, [Next]_vars, NEW k \in Keys, idem[k].state = "done"
  PROVE  idem'[k] = idem[k]
<1>1. ASSUME NEW c \in Client, Act(c) PROVE idem'[k] = idem[k]
  <2>1. idem \in [Keys -> Rows \cup {NoRow}]
    BY DEF Base, TypeOK
  <2>2. CASE UNCHANGED idem
    BY <2>2
  <2>3. CASE Row(c) = NoRow /\ idem' = [idem EXCEPT ![req[c].key] =
               [state |-> "pending", owner |-> c, cmd |-> req[c].cmd, print |-> req[c].print]]
    BY <2>1, <2>3, RowTypes DEF Row
  <2>4. CASE pc[c] = "finalize" /\ Owns(c) /\ idem' = [idem EXCEPT ![req[c].key].state = "done"]
    <3>1. Row(c).state = "pending"
      BY <2>4 DEF ClaimHeld, ClaimedAt, Claimed, Owns
    <3>2. QED
      BY <2>1, <2>4, <3>1 DEF Row
  <2>5. CASE Row(c).state = "pending" /\ idem' = [idem EXCEPT ![req[c].key] = NoRow]
    BY <2>1, <2>5 DEF Row
  <2>6. QED
    BY <1>1, <2>2, <2>3, <2>4, <2>5, IdemChanges
<1>2. QED
  BY <1>1, PipelineSteps DEF pipeVars

(* An invocation that replays found a finished row of the same request. *)
ReplayRow ==
  \A c \in Client : outcome[c] = "replay" =>
    Keyed(c) /\ Row(c).state = "done" /\ Matches(Row(c), req[c])

LEMMA ReplayRowStep ==
  ASSUME Claims, Claims', ReplayRow, [Next]_vars
  PROVE  ReplayRow'
<1> SUFFICES ASSUME NEW d \in Client, outcome'[d] = "replay"
             PROVE  Keyed(d)' /\ Row(d)'.state = "done" /\ Matches(Row(d), req[d])'
  BY DEF ReplayRow
<1>1. TypeOK /\ Aligned /\ Base /\ ClaimHeld
  BY DEF Claims, Base
<1>2. ASSUME outcome[d] = "replay", req'[d] = req[d]
      PROVE  Keyed(d)' /\ Row(d)'.state = "done" /\ Matches(Row(d), req[d])'
  <2>1. Keyed(d) /\ Row(d).state = "done" /\ Matches(Row(d), req[d])
    BY <1>2 DEF ReplayRow
  <2>2. Row(d)' = Row(d)
    BY <1>1, <1>2, <2>1, KeyedKey, DoneStays DEF Row
  <2>3. QED
    BY <1>2, <2>1, <2>2 DEF Keyed, Matches
<1>3. CASE UNCHANGED pipeVars
  BY <1>2, <1>3 DEF pipeVars
<1>4. ASSUME NEW c \in Client, c # d, Act(c)
      PROVE  Keyed(d)' /\ Row(d)'.state = "done" /\ Matches(Row(d), req[d])'
  BY <1>1, <1>2, <1>4, ActOthers
<1> USE DEF At, To, Report, Finish, Succeed
<1>5. CASE Act(d)
  <2>1. CASE Lookup(d)
    <3>1. outcome'[d] = "replay" => Replayable(Row(d), req[d])
      BY <1>1, <2>1 DEF Lookup, TypeOK
    <3>2. Keyed(d) /\ UNCHANGED <<req, idem>>
      BY <1>1, <2>1 DEF Lookup, Aligned, AlignedAt
    <3>3. QED
      BY <3>1, <3>2 DEF Replayable, Keyed, Row, Matches
  <2>2. CASE outcome'[d] = outcome[d]
    <3>1. pc[d] # "idle"
      BY <1>1, <2>2 DEF Aligned, AlignedAt
    <3>2. req' = req
      BY <1>5, <3>1, ActCases
      DEF pipeVars, Start, Reserve, Lookup, Resolve, Preflight, OpenClient, FailEarly, Issue,
          InCall, TakeVerdict, CloseClient, Finalize, Release, Die
    <3>3. QED
      BY <1>2, <2>2, <3>2
  <2>3. ~Lookup(d) => outcome'[d] \in {outcome[d], "refused", "plan", "error", "committed", "ok", "flood", "unknown"}
    <3> USE DEF TypeOK
    <3>1. CASE CloseClient(d)
      BY <1>1, <3>1 DEF CloseClient, Classify
    <3>2. QED
      BY <1>1, <1>5, <3>1, ActCases
      DEF pipeVars, Start, Reserve, Resolve, Preflight, OpenClient, FailEarly, Issue,
          InCall, TakeVerdict, Finalize, Release, Die
  <2>4. QED
    BY <2>1, <2>2, <2>3
<1>6. QED
  BY <1>3, <1>4, <1>5, PipelineSteps

(* ReplayFaithful: a replayed result is that of the same request, finished, *)
(* with its whole plan in effect.                                           *)
THEOREM FaithfulReplays == Spec => []ReplayFaithful
<1>1. PipelineInit => ReplayRow
  BY DEF PipelineInit, ReplayRow
<1>2. Claims /\ ReplayRow => ReplayFaithful
  <2> SUFFICES ASSUME Claims, ReplayRow, NEW c \in Client, outcome[c] = "replay"
               PROVE  LET o == Row(c).owner IN
                      /\ Row(c).state = "done"
                      /\ req[o].cmd = req[c].cmd /\ req[o].print = req[c].print
                      /\ \A n \in 1..Plan[req[o].cmd] : <<o, n>> \in effect
    BY DEF ReplayFaithful
  <2>1. Keyed(c) /\ Row(c).state = "done" /\ Matches(Row(c), req[c]) /\ req[c].key \in Keys
    BY KeyedKey DEF ReplayRow, Claims, Base
  <2>2. Row(c) # NoRow
    BY <2>1, RowTypes
  <2>3. RowTrue(req[c].key)
    BY <2>1 DEF Claims, ClaimHeld
  <2>4. QED
    BY <2>1, <2>2, <2>3 DEF RowTrue, Row, Matches
<1>3. Claims /\ Claims' /\ ReplayRow /\ [Next]_vars => ReplayRow'
  BY ReplayRowStep
<1>4. QED
  BY <1>1, <1>2, <1>3, PipelineClaims, PTL DEF Spec

(* The values that the promise sees. *)
PKey       == [c \in Client |-> IF Keyed(c) THEN req[c].key ELSE NoKey]
PClaim     == [k \in Keys |-> idem[k].owner]
PSettled   == {k \in Keys : idem[k].state = "done"}
PPerformed == {x[1] : x \in effect}

LEMMA PromiseInit == PipelineInit => Promise!Init
<1> SUFFICES ASSUME PipelineInit PROVE Promise!Init
  OBVIOUS
<1>1. \A c \in Client : ~Keyed(c)
  BY RowTypes DEF PipelineInit, Keyed
<1>2. \A k \in Keys : idem[k].owner = NoClient /\ idem[k].state # "done"
  BY RowTypes DEF PipelineInit
<1>3. effect = {}
  BY DEF PipelineInit, LedgerInit
<1>4. QED
  BY <1>1, <1>2, <1>3 DEF Promise!Init

LEMMA PromiseStep ==
  ASSUME Claims, Claims', [Next]_vars
  PROVE  [Promise!Next]_Promise!keyedVars
<1>1. /\ TypeOK /\ Aligned /\ LedgerTypeOK /\ effect \subseteq Call
  BY DEF Claims, Base, TypeOK, LedgerTypeOK
<1>2. ASSUME UNCHANGED <<PKey, PClaim, PSettled, PPerformed>>
      PROVE  [Promise!Next]_Promise!keyedVars
  BY <1>2 DEF Promise!keyedVars, PKey, PClaim, PSettled, PPerformed
<1>3. CASE [Background]_ledgerVars /\ UNCHANGED pipeVars
  <2>1. UNCHANGED <<PKey, PClaim, PSettled>>
    BY <1>3 DEF pipeVars, PKey, PClaim, PSettled, Keyed
  <2>2. CASE \E x \in transit : Apply(x)
    <3>1. PICK x \in transit : Apply(x)
      BY <2>2
    <3>2. x[1] \in Client /\ PPerformed' = PPerformed \cup {x[1]}
      BY <1>1, <3>1, CallShape DEF Apply, PPerformed, LedgerTypeOK
    <3>3. Keyed(x[1]) => req[x[1]].key \in Keys /\ Row(x[1]).owner = x[1]
      BY <1>1, <3>1, <3>2, KeyedKey DEF Claims, StartedKeepsKey, Started
    <3>4. Promise!Perform(x[1])
      BY <2>1, <3>2, <3>3 DEF Promise!Perform, PKey, PClaim, PSettled, PPerformed, Row
    <3>5. QED
      BY <3>2, <3>4 DEF Promise!Next
  <2>3. CASE UNCHANGED effect
    BY <1>2, <2>1, <2>3 DEF PPerformed
  <2>4. (\E x \in transit : Apply(x)) \/ UNCHANGED effect
    BY <1>3 DEF Background, StartRead, EndRead, Refuse, Tick, netVars, ledgerVars
  <2>5. QED
    BY <2>2, <2>3, <2>4
<1>4. ASSUME NEW c \in Client, Act(c) PROVE [Promise!Next]_Promise!keyedVars
  <2>1. effect' = effect /\ UNCHANGED PPerformed
    BY <1>1, <1>4, ActLedger DEF PPerformed, Open, Stop, Invoke, InvokeStep, CheckCooldown,
       ReserveWindow, Prepare, Transmit, Receive, Lose, Settle, Record, netVars, ledgerVars
  <2>2. CASE \E r \in Requests : Start(c, r)
    <3>1. PICK r \in Requests : Start(c, r)
      BY <2>2
    <3>2. /\ req[c] = NoRequest /\ pc[c] = "idle" /\ phase[c] = "closed" /\ UNCHANGED idem
          /\ req' = [req EXCEPT ![c] = r] /\ req'[c] = r
      BY <1>1, <3>1 DEF Aligned, AlignedAt, Start, At, TypeOK
    <3>3. ~Keyed(c) /\ PKey[c] = NoKey
      BY <3>2, RowTypes DEF Keyed, PKey
    <3>4. c \notin PPerformed
      <4>1. Silent(c)
        BY <3>2, NotYet DEF Claims
      <4>2. QED
        BY <1>1, <4>1, CallShape DEF Silent, Started, PPerformed
    <3>5. UNCHANGED <<PClaim, PSettled>>
      BY <3>2 DEF PClaim, PSettled
    <3>6. PKey' = [PKey EXCEPT ![c] = IF Keyed(c)' THEN r.key ELSE NoKey]
      BY <1>1, <3>2 DEF PKey, Keyed, TypeOK
    <3>7. CASE Keyed(c)'
      <4>1. r.key \in Keys
        BY <3>2, <3>7, RowTypes DEF Keyed
      <4>2. Promise!Ask(c, r.key)
        BY <2>1, <3>3, <3>4, <3>5, <3>6, <3>7 DEF Promise!Ask, PKey, PClaim, PSettled, PPerformed
      <4>3. QED
        BY <4>1, <4>2 DEF Promise!Next
    <3>8. CASE ~Keyed(c)'
      <4>1. UNCHANGED PKey
        BY <3>3, <3>6, <3>8 DEF PKey
      <4>2. QED
        BY <1>2, <2>1, <3>5, <4>1
    <3>9. QED
      BY <3>7, <3>8
  <2>3. CASE ~\E r \in Requests : Start(c, r)
    <3>1. UNCHANGED <<req, PKey>>
      <4>1. req' = req
        BY <1>4, <2>3, ActCases
        DEF pipeVars, Reserve, Lookup, Resolve, Preflight, OpenClient, FailEarly, Issue,
            InCall, TakeVerdict, CloseClient, Finalize, Release, Die
      <4>2. QED
        BY <4>1 DEF PKey, Keyed
    <3>2. CASE UNCHANGED idem
      BY <1>2, <2>1, <3>1, <3>2 DEF PClaim, PSettled
    <3>3. CASE /\ pc[c] = "reserve" /\ Row(c) = NoRow
               /\ idem' = [idem EXCEPT ![req[c].key] =
                    [state |-> "pending", owner |-> c, cmd |-> req[c].cmd, print |-> req[c].print]]
      <4>1. Keyed(c) /\ req[c].key \in Keys
        BY <1>1, <3>3, KeyedKey DEF Aligned, AlignedAt
      <4>2. PKey[c] = req[c].key /\ PKey[c] # NoKey /\ PClaim[PKey[c]] = NoClient
        BY <3>3, <4>1, RowTypes DEF PKey, PClaim, Row
      <4>3. PClaim' = [PClaim EXCEPT ![PKey[c]] = c] /\ PSettled' = PSettled
        BY <1>1, <3>3, <4>1, <4>2, RowTypes DEF PClaim, PSettled, Row, TypeOK
      <4>4. Promise!Claim(c)
        BY <2>1, <3>1, <4>2, <4>3 DEF Promise!Claim, PKey, PClaim, PSettled, PPerformed
      <4>5. QED
        BY <4>4 DEF Promise!Next
    <3>4. CASE /\ pc[c] = "finalize" /\ Owns(c) /\ idem' = [idem EXCEPT ![req[c].key].state = "done"]
      <4>1. Keyed(c) /\ req[c].key \in Keys /\ idem[req[c].key].owner = c /\ Row(c) \in Rows
        BY <1>1, <3>4, KeyedKey, RowTypes DEF Owns, Row
      <4>2. PKey[c] = req[c].key /\ PKey[c] # NoKey /\ PClaim[PKey[c]] = c
        BY <4>1 DEF PKey, PClaim
      <4>3. PClaim' = PClaim /\ PSettled' = PSettled \cup {PKey[c]}
        BY <1>1, <3>4, <4>1, <4>2 DEF PClaim, PSettled, Row, TypeOK
      <4>4. c \in PPerformed
        <5>1. <<c, 1>> \in effect
          <6>1. 1 \in 1..Plan[req[c].cmd]
            BY <1>1, <4>1, KeyedKey
          <6>2. QED
            BY <3>4, <6>1 DEF Claims, ErrorTrue, ErrorTrueAt
        <5>2. QED
          BY <5>1 DEF PPerformed
      <4>5. Promise!SettleKey(c)
        BY <2>1, <3>1, <4>2, <4>3, <4>4 DEF Promise!SettleKey, PKey, PClaim, PSettled, PPerformed
      <4>6. QED
        BY <4>5 DEF Promise!Next
    <3>5. CASE /\ pc[c] = "release" /\ Owns(c) /\ Row(c).state = "pending"
               /\ idem' = [idem EXCEPT ![req[c].key] = NoRow]
      <4>1. Keyed(c) /\ req[c].key \in Keys /\ idem[req[c].key].owner = c
        BY <1>1, <3>5, KeyedKey DEF Owns, Row
      <4>2. PKey[c] = req[c].key /\ PKey[c] # NoKey /\ PClaim[PKey[c]] = c /\ PKey[c] \notin PSettled
        BY <3>5, <4>1 DEF PKey, PClaim, PSettled, Row
      <4>3. PClaim' = [PClaim EXCEPT ![PKey[c]] = NoClient] /\ PSettled' = PSettled
        BY <1>1, <3>5, <4>1, <4>2, RowTypes DEF PClaim, PSettled, Row, TypeOK
      <4>4. c \notin PPerformed
        <5>1. Silent(c)
          BY <3>5, SilentClient DEF Claims, ErrorTrue, ErrorTrueAt
        <5>2. QED
          BY <1>1, <5>1, CallShape DEF Silent, Started, PPerformed
      <4>5. Promise!Abandon(c)
        BY <2>1, <3>1, <4>2, <4>3, <4>4 DEF Promise!Abandon, PKey, PClaim, PSettled, PPerformed
      <4>6. QED
        BY <4>5 DEF Promise!Next
    <3>6. QED
      BY <1>4, <3>2, <3>3, <3>4, <3>5, IdemChanges
  <2>4. QED
    BY <2>2, <2>3
<1>5. QED
  BY <1>3, <1>4, PipelineSteps

(* KeepsPromise: the pipeline implements KeyedWrites. *)
THEOREM PromiseKept == Spec => KeepsPromise
<1>1. QED
  BY PromiseInit, PromiseStep, PipelineClaims, PTL DEF Spec, KeepsPromise, Promise!Spec

============================================================================
