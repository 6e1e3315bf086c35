---------------------------- MODULE KeyedWrites ----------------------------
(***************************************************************************)
(* What --idempotency-key promises: a key is held by one request at a      *)
(* time, only its holder may act on Telegram, it is given up only if the   *)
(* holder never did, and it is settled only by a holder that did.          *)
(* Specified from writes/pipeline.go and idempotency/idempotency.go, which *)
(* WritePipeline models in detail and is shown to implement this.          *)
(***************************************************************************)
CONSTANTS Requests, NoRequest, Keys, NoKey

VARIABLES
  key,        \* the key each request writes under
  claim,      \* the request that holds each key
  settled,    \* the keys whose result is on record
  performed   \* the requests that acted on Telegram

keyedVars == <<key, claim, settled, performed>>

Init ==
  /\ key = [r \in Requests |-> NoKey]
  /\ claim = [k \in Keys |-> NoRequest]
  /\ settled = {}
  /\ performed = {}

----------------------------------------------------------------------------
\* A request names its key before it does anything.
Ask(r, k) ==
  /\ key[r] = NoKey
  /\ r \notin performed
  /\ key' = [key EXCEPT ![r] = k]
  /\ UNCHANGED <<claim, settled, performed>>

Claim(r) ==
  /\ key[r] # NoKey
  /\ claim[key[r]] = NoRequest
  /\ claim' = [claim EXCEPT ![key[r]] = r]
  /\ UNCHANGED <<key, settled, performed>>

Perform(r) ==
  /\ key[r] # NoKey => claim[key[r]] = r
  /\ performed' = performed \cup {r}
  /\ UNCHANGED <<key, claim, settled>>

Abandon(r) ==
  /\ key[r] # NoKey
  /\ claim[key[r]] = r
  /\ key[r] \notin settled
  /\ r \notin performed
  /\ claim' = [claim EXCEPT ![key[r]] = NoRequest]
  /\ UNCHANGED <<key, settled, performed>>

SettleKey(r) ==
  /\ key[r] # NoKey
  /\ claim[key[r]] = r
  /\ r \in performed
  /\ settled' = settled \cup {key[r]}
  /\ UNCHANGED <<key, claim, performed>>

Next ==
  \E r \in Requests :
    \/ \E k \in Keys : Ask(r, k)
    \/ Claim(r) \/ Perform(r) \/ Abandon(r) \/ SettleKey(r)

Spec == Init /\ [][Next]_keyedVars

----------------------------------------------------------------------------
TypeOK ==
  /\ key \in [Requests -> Keys \cup {NoKey}]
  /\ claim \in [Keys -> Requests \cup {NoRequest}]
  /\ settled \subseteq Keys
  /\ performed \subseteq Requests

(* Whoever acted under a key still holds it, so no other acts under it. *)
HolderPerformed == \A r \in performed : key[r] # NoKey => claim[key[r]] = r

(* A settled key has a holder that acted. *)
SettledPerformed == \A k \in settled : claim[k] \in performed
============================================================================
