--------------------------- MODULE WritePipeline ---------------------------
(***************************************************************************)
(* writes.Run (src/internal/writes/pipeline.go), the pipeline every write  *)
(* command runs through, from the claim of its idempotency key to the      *)
(* release, the finalization or the retention of that claim, around the    *)
(* client it opens (commands/messages_write.go) and the mutations it sends *)
(* through WriteLedger.  Each Client is one invocation of a write command  *)
(* with its own request id; a retry is another invocation.  A crash may    *)
(* come between any two steps.                                             *)
(***************************************************************************)
EXTENDS WriteLedger

CONSTANTS
  Keys,       \* idempotency keys
  NoKey,      \* --idempotency-key not given
  Commands,   \* write commands
  Plan,       \* how many mutations a command sends (kick: 2)
  Prints      \* request fingerprints

ASSUME PipelineAssumption ==
  /\ NoKey \notin Keys
  /\ Plan \in [Commands -> 1..MaxCalls]

VARIABLES
  req,      \* what each invocation was asked to do
  pc,       \* where writes.Run stands in each invocation
  idem,     \* tg_idempotency: the row of each key
  step,     \* mutations the operation has issued
  err,      \* error chain the operation returned; {} is success
  outcome   \* what the invocation reported, by dispatch.Classify's order

pipeVars == <<req, pc, idem, step, err, outcome>>
vars     == <<ledgerVars, pipeVars>>

Requests  == [key : Keys \cup {NoKey}, cmd : Commands, print : Prints, dry : BOOLEAN]
NoRequest == [key |-> NoKey, dry |-> TRUE]
NoRow     == [state |-> "free", owner |-> NoClient]
Rows      == [state : {"pending", "done"}, owner : Client, cmd : Commands, print : Prints]
PC        == {"idle", "reserve", "lookup", "resolve", "preflight", "open", "run",
              "call", "close", "finalize", "release", "done", "dead"}
Outcomes  == {"none", "ok", "plan", "replay", "refused", "unresolved", "error",
              "flood", "unknown", "committed"}

\* A dry run neither reads nor writes the idempotency table.
Keyed(c) == ~req[c].dry /\ req[c].key # NoKey
Row(c)   == idem[req[c].key]
Owns(c)  == Keyed(c) /\ Row(c).owner = c

----------------------------------------------------------------------------
(* Mutants: plausible bugs that the properties below must notice.          *)

MutantReleasable(tags) == "committed" \notin tags
MutantMatches(row, r) == row.cmd = r.cmd
MutantRunError(n, tags) == tags

----------------------------------------------------------------------------
(* Decisions.                                                              *)

\* dispatch.Classify: a committed write wins over an unknown one, an unknown
\* one over the FLOOD_WAIT it may wrap.
Classify(tags) ==
  IF "committed" \in tags THEN "committed"
  ELSE IF "unknown" \in tags THEN "unknown"
  ELSE IF "flood" \in tags THEN "flood" ELSE "error"

\* mapRPCErr keeps a definitive rejection and otherwise reports a FLOOD_WAIT it
\* finds anywhere in the chain as nothing but that.
MapRPCErr(tags) == IF "definitive" \notin tags /\ "flood" \in tags THEN {"flood"} ELSE tags

\* What the operation returns when its n-th mutation failed: kick reports a
\* failed second mutation as a committed write that wraps the failure.
RunError(n, tags) == MapRPCErr(tags) \cup (IF n > 1 THEN {"committed"} ELSE {})

\* The key is given up only on a definitive rejection of an uncommitted write.
Releasable(tags) == "definitive" \in tags /\ "committed" \notin tags

\* Lookup checks the command and Reserve the fingerprint of the row they find.
Matches(row, r) == row.cmd = r.cmd /\ row.print = r.print

Replayable(row, r) == Matches(row, r) /\ row.state = "done"

----------------------------------------------------------------------------
PipelineInit ==
  /\ LedgerInit
  /\ req = [c \in Client |-> NoRequest]
  /\ pc = [c \in Client |-> "idle"]
  /\ idem = [k \in Keys |-> NoRow]
  /\ step = [c \in Client |-> 0]
  /\ err = [c \in Client |-> {}]
  /\ outcome = [c \in Client |-> "none"]

At(c, p)     == pc[c] = p
To(c, p)     == pc' = [pc EXCEPT ![c] = p]
Report(c, o) == outcome' = [outcome EXCEPT ![c] = o]
Finish(c, o) == To(c, "done") /\ Report(c, o)

\* dispatch.Run appends the audit line last; when that (or closing the database)
\* fails, a durable command reports a committed write in place of its success.
Succeed(c, o) == \E p \in {o, "committed"} : Finish(c, p)

(* Before the operation runs.                                              *)

\* The write gate, the file digests and the fingerprint come first.
Start(c, r) ==
  /\ At(c, "idle")
  /\ req' = [req EXCEPT ![c] = r]
  /\ \/ /\ To(c, IF r.dry \/ r.key = NoKey THEN "resolve" ELSE "reserve")
        /\ UNCHANGED outcome
     \/ Finish(c, "refused")
  /\ UNCHANGED <<ledgerVars, idem, step, err>>

\* Reserve inserts a pending row; any failure of the INSERT leads to a lookup.
Reserve(c) ==
  /\ At(c, "reserve")
  /\ \/ /\ Row(c) = NoRow
        /\ idem' = [idem EXCEPT ![req[c].key] =
             [state |-> "pending", owner |-> c, cmd |-> req[c].cmd, print |-> req[c].print]]
        /\ To(c, "resolve")
     \/ To(c, "lookup") /\ UNCHANGED idem
  /\ UNCHANGED <<ledgerVars, req, step, err, outcome>>

\* The row that was in the way may be gone by now, or be finalized.
Lookup(c) ==
  /\ At(c, "lookup")
  /\ \/ Finish(c, "error")
     \/ Row(c) # NoRow /\ ~Matches(Row(c), req[c]) /\ Finish(c, "refused")
     \/ Row(c) # NoRow /\ Replayable(Row(c), req[c]) /\ Succeed(c, "replay")
     \/ /\ Row(c) # NoRow /\ Matches(Row(c), req[c]) /\ ~Replayable(Row(c), req[c])
        /\ Finish(c, "unresolved")
  /\ UNCHANGED <<ledgerVars, req, idem, step, err>>

\* Selector gate and resolver; a dry run ends here with its plan.
Resolve(c) ==
  /\ At(c, "resolve")
  /\ \/ req[c].dry /\ Finish(c, "plan")
     \/ ~req[c].dry /\ To(c, "preflight") /\ UNCHANGED outcome
     \/ To(c, "release") /\ Report(c, "error")
  /\ UNCHANGED <<ledgerVars, req, idem, step, err>>

\* The in-process limiter and the audit line that must precede the call.
Preflight(c) ==
  /\ At(c, "preflight")
  /\ \/ To(c, "open") /\ UNCHANGED outcome
     \/ To(c, "release") /\ Report(c, "error")
  /\ UNCHANGED <<ledgerVars, req, idem, step, err>>

(* The operation.                                                          *)

\* The client factory takes the session lock, or gives up after --lock-wait.
\* Its failure is an arbitrary error: the reservation stays.
OpenClient(c) ==
  /\ At(c, "open")
  /\ \/ Open(c) /\ To(c, "run") /\ UNCHANGED outcome
     \/ Finish(c, "error") /\ UNCHANGED ledgerVars
  /\ UNCHANGED <<req, idem, step, err>>

\* A mutant: an early return leaves the client open.
MutantFailEarly(c) ==
  /\ At(c, "run")
  /\ step[c] = 0
  /\ err' = [err EXCEPT ![c] = {"other"}]
  /\ Finish(c, "error")
  /\ UNCHANGED <<ledgerVars, req, idem, step>>

\* The operation fails before its first mutation: a bad argument or a lost
\* connection, a wait imposed on a read, or a file that cannot be uploaded.
FailEarly(c) ==
  /\ At(c, "run")
  /\ step[c] = 0
  /\ \E e \in {{"other"}, {"flood"}, {"definitive", "other"}} : err' = [err EXCEPT ![c] = e]
  /\ To(c, "close")
  /\ UNCHANGED <<ledgerVars, req, idem, step, outcome>>

Issue(c, s) ==
  /\ At(c, "run")
  /\ Invoke(c, s)
  /\ step' = [step EXCEPT ![c] = @ + 1]
  /\ To(c, "call")
  /\ UNCHANGED <<req, idem, err, outcome>>

\* Invoke has returned: the next mutation, the end of the plan (whose response
\* may not identify what was sent) or the failure of the operation.
TakeVerdict(c) ==
  /\ At(c, "call")
  /\ phase[c] = "ready"
  /\ \/ /\ verdict[c] = {} /\ step[c] < Plan[req[c].cmd]
        /\ To(c, "run") /\ UNCHANGED err
     \/ /\ verdict[c] = {} /\ step[c] >= Plan[req[c].cmd]
        /\ To(c, "close")
        /\ \E e \in {{}, {"committed"}} : err' = [err EXCEPT ![c] = e]
     \/ /\ verdict[c] # {}
        /\ To(c, "close")
        /\ err' = [err EXCEPT ![c] = RunError(step[c], verdict[c])]
  /\ UNCHANGED <<ledgerVars, req, idem, step, outcome>>

\* The client is closed on success and failure alike; a durable command turns
\* a failed close into a committed write.
CloseClient(c) ==
  /\ At(c, "close")
  /\ Close(c)
  /\ \/ err[c] = {} /\ To(c, "finalize") /\ UNCHANGED outcome
     \/ err[c] = {} /\ Finish(c, "committed")
     \/ /\ err[c] # {}
        /\ To(c, IF Releasable(err[c]) THEN "release" ELSE "done")
        /\ Report(c, Classify(err[c]))
  /\ UNCHANGED <<req, idem, step, err>>

(* After the operation.                                                    *)

\* The pending row becomes the result; an UPDATE that fails, or finds no row of
\* this invocation, is reported as a committed write.
Finalize(c) ==
  /\ At(c, "finalize")
  /\ \/ /\ Keyed(c) /\ Owns(c) /\ Succeed(c, "ok")
        /\ idem' = [idem EXCEPT ![req[c].key].state = "done"]
     \/ Keyed(c) /\ Finish(c, "committed") /\ UNCHANGED idem
     \/ ~Keyed(c) /\ Succeed(c, "ok") /\ UNCHANGED idem
  /\ UNCHANGED <<ledgerVars, req, step, err>>

\* Only the invocation's own pending row is deleted; a failure is ignored.
Release(c) ==
  /\ At(c, "release")
  /\ To(c, "done")
  /\ \/ Owns(c) /\ Row(c).state = "pending" /\ idem' = [idem EXCEPT ![req[c].key] = NoRow]
     \/ UNCHANGED idem
  /\ UNCHANGED <<ledgerVars, req, step, err, outcome>>

\* The process dies.
Die(c) ==
  /\ pc[c] \notin {"idle", "done", "dead"}
  /\ To(c, "dead")
  /\ Crash(c) \/ (phase[c] = "gone" /\ UNCHANGED ledgerVars)
  /\ UNCHANGED <<req, idem, step, err, outcome>>

----------------------------------------------------------------------------
InCall(c) == At(c, "call") /\ InvokeStep(c) /\ UNCHANGED pipeVars

PipelineStep(c) ==
  \/ Reserve(c) \/ Lookup(c) \/ Resolve(c) \/ Preflight(c)
  \/ OpenClient(c) \/ FailEarly(c) \/ (\E s \in Scope : Issue(c, s))
  \/ InCall(c) \/ TakeVerdict(c) \/ CloseClient(c)
  \/ Finalize(c) \/ Release(c)

Next ==
  \/ \E c \in Client : PipelineStep(c) \/ Die(c)
  \/ \E c \in Client, r \in Requests : Start(c, r)
  \/ Background /\ UNCHANGED pipeVars

Spec == PipelineInit /\ [][Next]_vars

\* A process that does not die takes its next step: a call to Telegram ends
\* with an answer or a transport error, waiting for the lock ends with
\* --lock-wait, and no step waits for another invocation otherwise.
FairSpec == Spec /\ \A c \in Client : WF_vars(PipelineStep(c))

----------------------------------------------------------------------------
(* Type invariant. *)
TypeOK ==
  /\ LedgerTypeOK
  /\ req \in [Client -> Requests \cup {NoRequest}]
  /\ pc \in [Client -> PC]
  /\ idem \in [Keys -> Rows \cup {NoRow}]
  /\ step \in [Client -> 0..MaxCalls]
  /\ err \in [Client -> SUBSET Tags]
  /\ outcome \in [Client -> Outcomes]

(* At most one invocation ever sends a mutation under a key, over retries,  *)
(* concurrent invocations, crashes and every failure of a statement.        *)
OneWriterPerKey ==
  \A x, y \in Started :
    Keyed(x[1]) /\ Keyed(y[1]) /\ req[x[1]].key = req[y[1]].key => x[1] = y[1]

(* A mutation that took effect, or still may, keeps its key claimed by the  *)
(* invocation that sent it: giving the key up proves nothing was sent.      *)
StartedKeepsKey == \A x \in Started : Keyed(x[1]) => Row(x[1]).owner = x[1]

(* What an invocation reports about Telegram is true: every report but ok,  *)
(* unknown and committed means that nothing it sent took or will take       *)
(* effect, and ok means that its whole plan did.                            *)
ReportHonest ==
  \A c \in Client :
    /\ outcome[c] \in Outcomes \ {"none", "ok", "unknown", "committed"}
         => CallsOf(c) \cap Started = {}
    /\ outcome[c] = "ok" => \A n \in 1..Plan[req[c].cmd] : <<c, n>> \in effect

(* A replayed result is the one of a finished operation that was the same   *)
(* request, and whose every mutation took effect.                           *)
ReplayFaithful ==
  \A c \in Client : outcome[c] = "replay" =>
    LET o == Row(c).owner IN
    /\ Row(c).state = "done"
    /\ req[o].cmd = req[c].cmd /\ req[o].print = req[c].print
    /\ \A n \in 1..Plan[req[o].cmd] : <<o, n>> \in effect

(* The pipeline keeps the promise of KeyedWrites. *)
Promise == INSTANCE KeyedWrites WITH
  Requests  <- Client,
  NoRequest <- NoClient,
  key       <- [c \in Client |-> IF Keyed(c) THEN req[c].key ELSE NoKey],
  claim     <- [k \in Keys |-> idem[k].owner],
  settled   <- {k \in Keys : idem[k].state = "done"},
  performed <- {x[1] : x \in effect}

KeepsPromise == Promise!Spec

(* Every session that is acquired is released, by the close that ends every *)
(* path through the operation or by the death of the process.               *)
SessionReleased == (holder # NoClient) ~> (holder = NoClient)

(* docs/safety.md tells a caller that gets FLOOD_WAIT to wait and to retry  *)
(* with the same key; that retry can only work if the key is not left       *)
(* claimed by the invocation that was told to wait.                         *)
FloodWaitLeavesKeyFree ==
  \A c \in Client : At(c, "done") /\ outcome[c] = "flood" => ~Owns(c)
----------------------------------------------------------------------------
(* The inductive invariant behind these properties.                        *)

Claimed == {"resolve", "preflight", "open", "run", "call", "close", "finalize", "release"}

(* Where the pipeline stands tells where its client and its mutations do.  *)
AlignedAt(c) ==
  /\ pc[c] = "idle" => req[c] = NoRequest
  /\ pc[c] # "idle" => req[c] \in Requests
  /\ outcome[c] # "none" => pc[c] \in {"release", "done", "dead"}
  /\ pc[c] \in {"reserve", "lookup"} => Keyed(c)
  /\ pc[c] \in {"idle", "reserve", "lookup", "resolve", "preflight", "open"} =>
       phase[c] = "closed" /\ step[c] = 0
  /\ pc[c] = "run" => phase[c] = "ready" /\ verdict[c] = {} /\ seq[c] = step[c]
  /\ pc[c] = "call" => /\ phase[c] \in {"ready"} \cup Asking \cup InFlight
                       /\ step[c] > 0
                       /\ phase[c] \in Asking => seq[c] + 1 = step[c]
                       /\ phase[c] \in InFlight => seq[c] = step[c]
                       /\ phase[c] = "ready" /\ verdict[c] = {} => seq[c] = step[c]
  /\ pc[c] = "close" => phase[c] = "ready"
  /\ pc[c] \in {"finalize", "release", "done", "dead"} => phase[c] \in {"closed", "gone"}
  /\ seq[c] <= step[c]

Aligned == \A c \in Client : AlignedAt(c)

(* The operation's error tells what its mutations did. *)
NothingDone(tags) ==
  tags # {} /\ "committed" \notin tags /\ ("definitive" \in tags \/ "unknown" \notin tags)
ErrorTrueAt(c) ==
  /\ pc[c] = "call" /\ phase[c] = "ready" /\ step[c] = 1 /\ NothingDone(MapRPCErr(verdict[c]))
       => CallsOf(c) \cap Started = {}
  /\ pc[c] = "close" /\ NothingDone(err[c]) => CallsOf(c) \cap Started = {}
  /\ pc[c] = "release" => CallsOf(c) \cap Started = {}
  /\ (pc[c] = "close" /\ err[c] = {}) \/ pc[c] = "finalize" =>
       \A n \in 1..Plan[req[c].cmd] : <<c, n>> \in effect

ErrorTrue == \A c \in Client : ErrorTrueAt(c)

(* An invocation owns the row of its key while it runs; a row belongs to   *)
(* an invocation that asked for that key, and once done to one that        *)
(* finished with its whole plan in effect.                                 *)
ClaimedAt(c) ==
  pc[c] \in Claimed /\ Keyed(c) => Row(c).owner = c /\ Row(c).state = "pending"
RowTrue(k) ==
  idem[k] # NoRow =>
    LET o == idem[k].owner IN
    /\ Keyed(o) /\ req[o].key = k /\ Matches(idem[k], req[o])
    /\ idem[k].state = "done" =>
         pc[o] = "done" /\ \A n \in 1..Plan[req[o].cmd] : <<o, n>> \in effect

ClaimHeld == (\A c \in Client : ClaimedAt(c)) /\ (\A k \in Keys : RowTrue(k))

PipelineInv ==
  /\ TypeOK /\ Aligned /\ ErrorTrue /\ ClaimHeld
  /\ StartedKeepsKey /\ ReportHonest /\ ReplayFaithful
============================================================================
