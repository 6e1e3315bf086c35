------------------------- MODULE Accounts_proofs -------------------------
(* What is true of the processes of one account, for any number of them and *)
(* of users and keys, and of the account's directory, for any number of      *)
(* processes that use and remove it.                                         *)
EXTENDS MCAccounts, TLAPS, FiniteSetTheorems

-----------------------------------------------------------------------------
(* Session, lock and cache.                                                  *)

(* A transport between the start of Run and the release that follows its end. *)
Alive(p) == runner[p] \notin {"none", "over"}

(* What the stages of a process, caller and runner, say of what it holds ... *)
StagesOf(p) ==
  /\ lock = p <=> (Alive(p) \/ caller[p] = "copying")
  /\ runner[p] = "none" <=> caller[p] \in {"idle", "locking", "copying"}
  /\ caller[p] = "copying" => mode[p] \in Copying
  /\ caller[p] \in {"ended", "caching"} => runner[p] = "over"
  /\ caller[p] \in {"serving", "revoking", "revoked"} =>
       runner[p] \in {"serving", "unwinding", "over"} /\ key[p] # None
  /\ caller[p] \in {"revoking", "revoked"} => logoutMu[p] /\ mode[p] = "logout"
  /\ caller[p] = "revoked" => Alive(p)
(* ... of the key and of the session file ... *)
KeyOf(p) ==
  /\ caller[p] = "revoked" => remote[key[p]] = "revoked"
  /\ runner[p] \in {"checking", "authorized", "serving"} \/ flushing[p] => key[p] # None
  /\ flushing[p] => Alive(p) /\ ~cleared[p]
  /\ Alive(p) /\ key[p] # None => sessionFile \in {None, key[p]}
  /\ Alive(p) /\ key[p] \in removed => cleared[p]
(* ... and of the cache. *)
CacheOf(p) ==
  /\ runner[p] = "authorized" => who[p] # None
  /\ mode[p] \in {"command", "logout"} /\ caller[p] \notin {"idle", "locking"} => cache.exists
  /\ mode[p] = "command" /\ caller[p] = "serving" => who[p] # None /\ cache.owner = who[p]

(* A database is bound before it has rows, and exists before it is bound. *)
Bound(c) == c.rows \subseteq {c.owner} /\ (c.owner # None => c.exists)

(* The inductive invariant of the session. *)
SessionInv ==
  /\ TypeOK /\ LogoutSticks /\ Bound(cache) /\ Bound(snapshot)
  /\ \A k \in removed : remote[k] # "unused"
  /\ \A p \in Clients : StagesOf(p) /\ KeyOf(p) /\ CacheOf(p)

(* What one process does. *)
ProcessStep(p) ==
  \/ \E m \in Modes : Begin(p, m)
  \/ RunnerStep(p) \/ CallerStep(p) \/ StoreBegins(p) \/ Crash(p)

(* The states of a process. *)
Callers == {"idle", "locking", "starting", "serving", "copying", "revoking", "revoked",
            "logged out", "closing", "leaving", "caching", "ended", "failed"}
Runners == {"none", "connecting", "checking", "authorized", "serving", "unwinding", "over"}
Database == [exists : BOOLEAN, owner : Users \cup {None}, rows : SUBSET Users,
             me : Users \cup {None}]

(* A database is opened, bound, written or copied as one. *)
LEMMA DatabaseOf ==
  ASSUME NEW c \in Database
  PROVE  /\ c.exists \in BOOLEAN /\ c.owner \in Users \cup {None} /\ c.rows \subseteq Users
         /\ Opened(c) \in Database /\ Opened(c).exists /\ Opened(c).owner = c.owner /\ Opened(c).rows = c.rows
         /\ \A u \in Users \cup {None} :
              /\ [c EXCEPT !.owner = u] \in Database /\ [c EXCEPT !.owner = u].owner = u
              /\ [c EXCEPT !.owner = u].rows = c.rows /\ [c EXCEPT !.owner = u].exists = c.exists
              /\ [Opened(c) EXCEPT !.me = u] \in Database /\ [Opened(c) EXCEPT !.me = u].owner = c.owner
              /\ [Opened(c) EXCEPT !.me = u].rows = c.rows /\ [Opened(c) EXCEPT !.me = u].exists
         /\ \A u \in Users :
              /\ [c EXCEPT !.rows = @ \cup {u}] \in Database /\ [c EXCEPT !.rows = @ \cup {u}].owner = c.owner
              /\ [c EXCEPT !.rows = @ \cup {u}].rows = c.rows \cup {u}
              /\ [c EXCEPT !.rows = @ \cup {u}].exists = c.exists
  BY DEF Database, Opened

(* The profile that login and me write binds the cache to nobody. *)
LEMMA MeWritten ==
  ASSUME cache \in Database, NEW p \in Clients, who[p] \in Users \cup {None}, WriteMe(p)
  PROVE  /\ cache' \in Database /\ cache'.owner = cache.owner /\ cache'.rows = cache.rows
         /\ (cache.exists => cache'.exists)
<1>1. LET c == [Opened(cache) EXCEPT !.me = who[p]]
      IN  c \in Database /\ c.owner = cache.owner /\ c.rows = cache.rows /\ c.exists
  BY DEF Database, Opened
<1>2. cache' \in {cache, [Opened(cache) EXCEPT !.me = who[p]]}
  BY DEF WriteMe
<1>3. QED
  BY <1>1, <1>2

(* The key that Connect makes was never used. *)
LEMMA UnusedKey ==
  ASSUME UnusedKeys # {}
  PROVE  NewKey \in Keys /\ remote[NewKey] = "unused"
<1>1. NewKey \in UnusedKeys
  BY DEF NewKey
<1>2. QED
  BY <1>1 DEF UnusedKeys

(* The types, of the processes and of what they share. *)
ProcessTypes ==
  /\ lock \in Clients \cup {None} /\ mode \in [Clients -> Modes]
  /\ caller \in [Clients -> Callers] /\ runner \in [Clients -> Runners]
  /\ key \in [Clients -> Keys \cup {None}] /\ who \in [Clients -> Users \cup {None}]
  /\ flushing \in [Clients -> BOOLEAN] /\ logoutMu \in [Clients -> BOOLEAN]
  /\ cleared \in [Clients -> BOOLEAN]
FileTypes ==
  /\ sidecar \in BOOLEAN /\ sessionFile \in Keys \cup {None}
  /\ cache \in Database /\ snapshot \in Database
  /\ remote \in [Keys -> Users \cup {"unused", "fresh", "revoked"}]
  /\ removed \subseteq Keys /\ runs \in 0..MaxRuns

(* The type invariant is about the processes and about the files. *)
LEMMA TypeParts == TypeOK <=> ProcessTypes /\ FileTypes
  BY DEF TypeOK, ProcessTypes, FileTypes, Callers, Runners, Database

(* A process that is over holds nothing, and leaves the others what they hold. *)
LEMMA Forgotten ==
  ASSUME ProcessTypes, NEW p \in Clients, Forget(p)
  PROVE  /\ ProcessTypes'
         /\ caller'[p] = "idle" /\ runner'[p] = "none" /\ flushing'[p] = FALSE /\ lock' # p
         /\ \A q \in Clients \ {p} :
              /\ mode'[q] = mode[q] /\ caller'[q] = caller[q] /\ runner'[q] = runner[q]
              /\ key'[q] = key[q] /\ who'[q] = who[q] /\ flushing'[q] = flushing[q]
              /\ logoutMu'[q] = logoutMu[q] /\ cleared'[q] = cleared[q]
              /\ (lock' = q <=> lock = q)
<1>1. ProcessTypes'
  <2>1. lock' \in Clients \cup {None}
    BY DEF Forget, ProcessTypes
  <2>2. mode' \in [Clients -> Modes] /\ caller' \in [Clients -> Callers] /\ runner' \in [Clients -> Runners]
    BY DEF Forget, ProcessTypes, Caller, Runner, Modes, Callers, Runners
  <2>3. QED
    BY <2>1, <2>2 DEF Forget, ProcessTypes
<1>2. caller'[p] = "idle" /\ runner'[p] = "none" /\ flushing'[p] = FALSE /\ lock' # p
  BY SessionAssumption DEF Forget, ProcessTypes, Caller, Runner, SessionAssumption
<1>3. ASSUME NEW q \in Clients \ {p}
      PROVE  /\ mode'[q] = mode[q] /\ caller'[q] = caller[q] /\ runner'[q] = runner[q]
             /\ key'[q] = key[q] /\ who'[q] = who[q] /\ flushing'[q] = flushing[q]
             /\ logoutMu'[q] = logoutMu[q] /\ cleared'[q] = cleared[q]
             /\ (lock' = q <=> lock = q)
  BY SessionAssumption DEF Forget, ProcessTypes, Caller, Runner, SessionAssumption
<1>4. QED
  BY <1>1, <1>2, <1>3

(* The check of the key may find a user or not. *)
LEMMA Checked ==
  ASSUME NEW p \in Clients, Status(p)
  PROVE  /\ UNCHANGED <<lock, sidecar, sessionFile, cache, snapshot, remote, removed, runs, mode, key, flushing,
                        logoutMu, cleared>>
         /\ runner[p] = "checking" /\ mode[p] # "login"
         /\ \/ /\ remote[key[p]] \in Users /\ who' = [who EXCEPT ![p] = remote[key[p]]]
               /\ runner' = [runner EXCEPT ![p] = "authorized"] /\ caller' = caller
            \/ /\ runner' = [runner EXCEPT ![p] = "unwinding"] /\ who' = who
               /\ caller' = [caller EXCEPT ![p] = "failed"]
  BY DEF Status, Caller, Runner, files

(* A client without a cache is served, or closed because it is another user's. *)
LEMMA Served ==
  ASSUME NEW p \in Clients, Ready(p)
  PROVE  /\ UNCHANGED <<lock, sidecar, sessionFile, cache, snapshot, remote, removed, runs, mode, key, who,
                        flushing, logoutMu, cleared>>
         /\ runner[p] = "authorized" /\ mode[p] \in {"me", "readonly"}
         /\ \E c \in {"closing", "serving"} :
              /\ runner' = [runner EXCEPT ![p] = IF c = "closing" THEN "unwinding" ELSE "serving"]
              /\ caller' = [caller EXCEPT ![p] = c]
  BY DEF Ready, Caller, Runner, files

(* Run has a key: the one it had, the stored one, or a new one. *)
LEMMA Connected ==
  ASSUME ProcessTypes, FileTypes, NEW p \in Clients, Connect(p)
  PROVE  /\ UNCHANGED <<lock, sidecar, sessionFile, cache, snapshot, removed, runs, mode, caller, who,
                        flushing, logoutMu, cleared>>
         /\ runner[p] = "connecting" /\ runner' = [runner EXCEPT ![p] = "checking"]
         /\ remote' \in [Keys -> Users \cup {"unused", "fresh", "revoked"}]
         /\ \A k \in Keys : remote'[k] = remote[k] \/ (remote[k] = "unused" /\ remote'[k] # "unused")
         /\ \E k \in Keys : /\ key' = [key EXCEPT ![p] = k]
                          /\ \/ k = key[p] \/ (key[p] = None /\ k = sessionFile)
                             \/ key[p] = None /\ sessionFile = None /\ remote[k] = "unused"
<1>1. CASE key[p] # None /\ UNCHANGED <<key, remote>>
  BY <1>1 DEF Connect, Runner, files, ProcessTypes, FileTypes
<1>2. CASE key[p] = None /\ sessionFile # None /\ key' = [key EXCEPT ![p] = sessionFile] /\ UNCHANGED remote
  BY <1>2 DEF Connect, Runner, files, ProcessTypes, FileTypes
<1>3. CASE /\ key[p] = None /\ sessionFile = None /\ UnusedKeys # {}
           /\ remote' = [remote EXCEPT ![NewKey] = "fresh"] /\ key' = [key EXCEPT ![p] = NewKey]
  BY <1>3, UnusedKey DEF Connect, Runner, files, ProcessTypes, FileTypes
<1>4. QED
  BY <1>1, <1>2, <1>3 DEF Connect

(* Every step keeps the types. *)
LEMMA SessionTypes ==
  ASSUME SessionInv, NEW p \in Clients, ProcessStep(p)
  PROVE  ProcessTypes' /\ FileTypes'
<1> USE SessionAssumption DEF SessionAssumption, Caller, Runner, files, process
<1>0. ProcessTypes /\ FileTypes /\ StagesOf(p) /\ KeyOf(p) /\ CacheOf(p)
  BY TypeParts DEF SessionInv
<1>1. ASSUME NEW m \in Modes, Begin(p, m) PROVE ProcessTypes' /\ FileTypes'
  <2>1. ProcessTypes'
    BY <1>0, <1>1 DEF Begin, ProcessTypes, Modes, Callers, Runners, Copying
  <2>2. FileTypes'
    BY <1>0, <1>1 DEF Begin, FileTypes
  <2>3. QED
    BY <2>1, <2>2
<1>2. ASSUME NEW u \in Users, Authorize(p, u) PROVE ProcessTypes' /\ FileTypes'
  <2>1. ProcessTypes'
    BY <1>0, <1>2 DEF Authorize, ProcessTypes, Modes, Callers, Runners, Copying
  <2>2. FileTypes'
    BY <1>0, <1>2 DEF Authorize, FileTypes, ProcessTypes, KeyOf
  <2>3. QED
    BY <2>1, <2>2
<1>3. CASE Acquire(p)
  <2>1. ProcessTypes'
    <3>1. /\ lock' = p /\ UNCHANGED <<mode, who, flushing, logoutMu, cleared>>
          /\ \E k \in Keys \cup {None} : key' = [key EXCEPT ![p] = k]
          /\ caller' \in {[caller EXCEPT ![p] = "copying"], [caller EXCEPT ![p] = "starting"]}
          /\ runner' \in {runner, [runner EXCEPT ![p] = "connecting"]}
      BY <1>0, <1>3 DEF Acquire, FileTypes
    <3>2. caller' \in [Clients -> Callers] /\ runner' \in [Clients -> Runners]
      BY <1>0, <3>1 DEF ProcessTypes, Callers, Runners
    <3>3. key' \in [Clients -> Keys \cup {None}]
      BY <1>0, <3>1 DEF ProcessTypes
    <3>4. QED
      BY <1>0, <3>1, <3>2, <3>3 DEF ProcessTypes
  <2>2. FileTypes'
    <3>1. cache' \in Database
      BY <1>0, <1>3, DatabaseOf DEF Acquire, ProcessTypes, FileTypes
    <3>2. QED
      BY <1>0, <1>3, <3>1 DEF Acquire, FileTypes
  <2>3. QED
    BY <2>1, <2>2
<1>4. CASE GiveUp(p)
  <2>1. ProcessTypes'
    BY Forgotten, <1>0, <1>4 DEF GiveUp
  <2>2. FileTypes'
    BY Forgotten, <1>0, <1>4 DEF GiveUp, FileTypes
  <2>3. QED
    BY <2>1, <2>2
<1>5. CASE Connect(p)
  <2>1. ProcessTypes'
    <3>1. PICK k \in Keys : key' = [key EXCEPT ![p] = k]
      BY Connected, <1>0, <1>5
    <3>2. QED
      BY Connected, <1>0, <1>5, <3>1 DEF ProcessTypes, Runners
  <2>2. FileTypes'
    BY Connected, <1>0, <1>5 DEF FileTypes
  <2>3. QED
    BY <2>1, <2>2
<1>6. CASE StoreBegins(p)
  <2>1. ProcessTypes'
    BY <1>0, <1>6 DEF StoreBegins, Writable, ProcessTypes, Modes, Callers, Runners, Copying
  <2>2. FileTypes'
    BY <1>0, <1>6 DEF StoreBegins, Writable, FileTypes
  <2>3. QED
    BY <2>1, <2>2
<1>7. CASE StoreEnds(p)
  <2>1. ProcessTypes'
    BY <1>0, <1>7 DEF StoreEnds, ProcessTypes, Modes, Callers, Runners, Copying
  <2>2. FileTypes'
    BY <1>0, <1>7 DEF StoreEnds, FileTypes, ProcessTypes
  <2>3. QED
    BY <2>1, <2>2
<1>8. CASE LoggedIn(p)
  <2>1. ProcessTypes'
    BY <1>0, <1>8 DEF LoggedIn, ProcessTypes, Modes, Callers, Runners, Copying
  <2>2. FileTypes'
    BY <1>0, <1>8 DEF LoggedIn, FileTypes
  <2>3. QED
    BY <2>1, <2>2
<1>9. CASE Status(p)
  <2>1. ProcessTypes'
    <3>1. /\ UNCHANGED <<lock, mode, key, flushing, logoutMu, cleared>>
          /\ who' = who \/ \E u \in Users : who' = [who EXCEPT ![p] = u]
          /\ runner' \in {[runner EXCEPT ![p] = "authorized"], [runner EXCEPT ![p] = "unwinding"]}
          /\ caller' \in {caller, [caller EXCEPT ![p] = "failed"]}
      BY Checked, <1>9
    <3>2. caller' \in [Clients -> Callers] /\ runner' \in [Clients -> Runners]
      BY <1>0, <3>1 DEF ProcessTypes, Callers, Runners
    <3>3. who' \in [Clients -> Users \cup {None}]
      BY <1>0, <3>1 DEF ProcessTypes
    <3>4. QED
      BY <1>0, <3>1, <3>2, <3>3 DEF ProcessTypes
  <2>2. FileTypes'
    BY Checked, <1>0, <1>9 DEF FileTypes
  <2>3. QED
    BY <2>1, <2>2
<1>10. CASE Bind(p)
  <2>1. ProcessTypes'
    BY <1>0, <1>10 DEF Bind, ProcessTypes, Modes, Callers, Runners, Copying
  <2>2. FileTypes'
    <3>1. cache' \in Database
      <4>1. who[p] \in Users \cup {None} /\ cache \in Database /\ cache' = [cache EXCEPT !.owner = who[p]]
        BY <1>0, <1>10 DEF Bind, ProcessTypes, FileTypes
      <4>2. QED
        BY <4>1, DatabaseOf
    <3>2. QED
      BY <1>0, <1>10, <3>1 DEF Bind, FileTypes
  <2>3. QED
    BY <2>1, <2>2
<1>11. CASE Ready(p)
  <2>1. ProcessTypes'
    <3>1. /\ UNCHANGED <<lock, mode, key, who, flushing, logoutMu, cleared>>
          /\ runner' \in {[runner EXCEPT ![p] = "serving"], [runner EXCEPT ![p] = "unwinding"]}
          /\ caller' \in {[caller EXCEPT ![p] = "serving"], [caller EXCEPT ![p] = "closing"]}
      BY Served, <1>11
    <3>2. QED
      BY <1>0, <3>1 DEF ProcessTypes, Callers, Runners
  <2>2. FileTypes'
    BY Served, <1>0, <1>11 DEF FileTypes
  <2>3. QED
    BY <2>1, <2>2
<1>12. CASE Unwind(p)
  <2>1. ProcessTypes'
    BY <1>0, <1>12 DEF Unwind, ProcessTypes, Modes, Callers, Runners, Copying
  <2>2. FileTypes'
    BY <1>0, <1>12 DEF Unwind, FileTypes
  <2>3. QED
    BY <2>1, <2>2
<1>13. CASE Release(p)
  <2>1. ProcessTypes'
    BY <1>0, <1>13 DEF Release, ProcessTypes, Modes, Callers, Runners, Copying
  <2>2. FileTypes'
    BY <1>0, <1>13 DEF Release, FileTypes
  <2>3. QED
    BY <2>1, <2>2
<1>14. CASE CacheWrite(p)
  <2>1. ProcessTypes'
    BY <1>0, <1>14 DEF CacheWrite, ProcessTypes, Modes, Callers, Runners, Copying
  <2>2. FileTypes'
    <3>1. cache' \in Database
      BY <1>0, <1>14, DatabaseOf DEF CacheWrite, ProcessTypes, FileTypes, CacheOf
    <3>2. QED
      BY <1>0, <1>14, <3>1 DEF CacheWrite, FileTypes
  <2>3. QED
    BY <2>1, <2>2
<1>15. CASE Close(p)
  <2>1. ProcessTypes'
    BY <1>0, <1>15 DEF Close, ProcessTypes, Modes, Callers, Runners, Copying
  <2>2. FileTypes'
    BY <1>0, <1>15 DEF Close, FileTypes
  <2>3. QED
    BY <2>1, <2>2
<1>16. CASE Abandon(p)
  <2>1. ProcessTypes'
    BY <1>0, <1>16 DEF Abandon, ProcessTypes, Modes, Callers, Runners, Copying
  <2>2. FileTypes'
    BY <1>0, <1>16 DEF Abandon, FileTypes
  <2>3. QED
    BY <2>1, <2>2
<1>17. CASE Stopped(p)
  <2>1. ProcessTypes'
    BY <1>0, <1>17 DEF Stopped, ProcessTypes, Modes, Callers, Runners, Copying
  <2>2. FileTypes'
    BY <1>0, <1>17 DEF Stopped, FileTypes
  <2>3. QED
    BY <2>1, <2>2
<1>18. CASE WriteMe(p)
  <2>1. ProcessTypes'
    BY Forgotten, <1>0, <1>18 DEF WriteMe, Opened
  <2>2. FileTypes'
    <3>1. cache' \in Database
      BY <1>0, <1>18, MeWritten DEF ProcessTypes, FileTypes
    <3>2. QED
      BY Forgotten, <1>0, <1>18, <3>1 DEF WriteMe, FileTypes
  <2>3. QED
    BY <2>1, <2>2
<1>19. CASE Logout(p)
  <2>1. ProcessTypes'
    BY <1>0, <1>19 DEF Logout, ProcessTypes, Modes, Callers, Runners, Copying
  <2>2. FileTypes'
    BY <1>0, <1>19 DEF Logout, FileTypes
  <2>3. QED
    BY <2>1, <2>2
<1>20. CASE Revoked(p)
  <2>1. ProcessTypes'
    BY <1>0, <1>20 DEF Revoked, ProcessTypes, Modes, Callers, Runners, Copying
  <2>2. FileTypes'
    BY <1>0, <1>20 DEF Revoked, FileTypes, ProcessTypes, KeyOf
  <2>3. QED
    BY <2>1, <2>2
<1>21. CASE LogoutFails(p)
  <2>1. ProcessTypes'
    BY <1>0, <1>21 DEF LogoutFails, ProcessTypes, Modes, Callers, Runners, Copying
  <2>2. FileTypes'
    BY <1>0, <1>21 DEF LogoutFails, FileTypes
  <2>3. QED
    BY <2>1, <2>2
<1>22. CASE Clear(p)
  <2>1. ProcessTypes'
    BY <1>0, <1>22 DEF Clear, ProcessTypes, Modes, Callers, Runners, Copying
  <2>2. FileTypes'
    BY <1>0, <1>22 DEF Clear, FileTypes, ProcessTypes, KeyOf, StagesOf
  <2>3. QED
    BY <2>1, <2>2
<1>23. CASE CopyDatabase(p)
  <2>1. ProcessTypes'
    BY Forgotten, <1>0, <1>23 DEF CopyDatabase, Publish, Source, Target
  <2>2. FileTypes'
    BY Forgotten, <1>0, <1>23 DEF CopyDatabase, Publish, Source, Target, FileTypes
  <2>3. QED
    BY <2>1, <2>2
<1>24. CASE CopyFails(p)
  <2>1. ProcessTypes'
    BY Forgotten, <1>0, <1>24 DEF CopyFails
  <2>2. FileTypes'
    BY Forgotten, <1>0, <1>24 DEF CopyFails, FileTypes
  <2>3. QED
    BY <2>1, <2>2
<1>25. CASE Exit(p)
  <2>1. ProcessTypes'
    BY Forgotten, <1>0, <1>25 DEF Exit
  <2>2. FileTypes'
    BY Forgotten, <1>0, <1>25 DEF Exit, FileTypes
  <2>3. QED
    BY <2>1, <2>2
<1>26. CASE Crash(p)
  <2>1. ProcessTypes'
    BY Forgotten, <1>0, <1>26 DEF Crash
  <2>2. FileTypes'
    BY Forgotten, <1>0, <1>26 DEF Crash, FileTypes
  <2>3. QED
    BY <2>1, <2>2
<1>27. QED
  BY <1>1, <1>2, <1>3, <1>4, <1>5, <1>6, <1>7, <1>8, <1>9, <1>10, <1>11, <1>12, <1>13,
     <1>14, <1>15, <1>16, <1>17, <1>18, <1>19, <1>20, <1>21, <1>22, <1>23, <1>24, <1>25, <1>26
     DEF ProcessStep, RunnerStep, CallerStep

(* What a step of one process leaves of the others. *)
Others(p) ==
  /\ \A q \in Clients \ {p} :
       /\ mode'[q] = mode[q] /\ caller'[q] = caller[q] /\ runner'[q] = runner[q]
       /\ key'[q] = key[q] /\ who'[q] = who[q] /\ (flushing'[q] <=> flushing[q])
       /\ (logoutMu'[q] <=> logoutMu[q]) /\ (cleared'[q] <=> cleared[q])
       /\ (lock' = q <=> lock = q)
  /\ (cache.exists => cache'.exists) /\ (cache.owner # None => cache'.owner = cache.owner)
  /\ lock = p \/ (sessionFile' = sessionFile /\ removed' = removed /\ remote' = remote)

(* Only the process that has the session touches its file and its key. *)
LEMMA SessionFrame ==
  ASSUME SessionInv, NEW p \in Clients, ProcessStep(p)
  PROVE  Others(p)
<1> USE SessionAssumption DEF SessionAssumption, Caller, Runner, files, process, Others
<1>0. /\ ProcessTypes /\ FileTypes /\ cache \in Database /\ snapshot \in Database
      /\ StagesOf(p) /\ KeyOf(p) /\ Bound(cache)
  BY TypeParts DEF SessionInv, FileTypes
<1>1. ASSUME NEW m \in Modes, Begin(p, m) PROVE Others(p)
  BY <1>0, <1>1 DEF Begin, ProcessTypes, FileTypes, StagesOf, KeyOf, Alive
<1>2. ASSUME NEW u \in Users, Authorize(p, u) PROVE Others(p)
  BY <1>0, <1>2 DEF Authorize, ProcessTypes, FileTypes, StagesOf, KeyOf, Alive
<1>3. CASE Acquire(p)
  <2>1. cache'.exists = TRUE \/ cache' = cache
    BY <1>0, <1>3, DatabaseOf DEF Acquire
  <2>2. cache'.owner = cache.owner
    BY <1>0, <1>3, DatabaseOf DEF Acquire
  <2>3. QED
    BY <1>0, <1>3, <2>1, <2>2 DEF Acquire, ProcessTypes, StagesOf
<1>4. CASE GiveUp(p)
  BY Forgotten, <1>0, <1>4 DEF GiveUp, ProcessTypes, FileTypes, StagesOf, KeyOf, Alive
<1>5. CASE Connect(p)
  BY Connected, <1>0, <1>5 DEF ProcessTypes, FileTypes, StagesOf, KeyOf, Alive
<1>6. CASE StoreBegins(p)
  BY <1>0, <1>6 DEF StoreBegins, Writable, ProcessTypes, FileTypes, StagesOf, KeyOf, Alive
<1>7. CASE StoreEnds(p)
  BY <1>0, <1>7 DEF StoreEnds, ProcessTypes, FileTypes, StagesOf, KeyOf, Alive
<1>8. CASE LoggedIn(p)
  BY <1>0, <1>8 DEF LoggedIn, ProcessTypes, FileTypes, StagesOf, KeyOf, Alive
<1>9. CASE Status(p)
  BY Checked, <1>0, <1>9 DEF ProcessTypes, FileTypes, StagesOf, KeyOf, Alive
<1>10. CASE Bind(p)
  <2>1. /\ cache.exists => cache'.exists
        /\ cache.owner # None => cache'.owner = cache.owner
    BY <1>0, <1>10, DatabaseOf DEF Bind, ProcessTypes, FileTypes
  <2>2. QED
    BY <1>0, <1>10, <2>1 DEF Bind, ProcessTypes, FileTypes
<1>11. CASE Ready(p)
  BY Served, <1>0, <1>11 DEF ProcessTypes, FileTypes, StagesOf, KeyOf, Alive
<1>12. CASE Unwind(p)
  BY <1>0, <1>12 DEF Unwind, ProcessTypes, FileTypes, StagesOf, KeyOf, Alive
<1>13. CASE Release(p)
  BY <1>0, <1>13 DEF Release, ProcessTypes, FileTypes, StagesOf, KeyOf, Alive
<1>14. CASE CacheWrite(p)
  <2>1. /\ cache.exists => cache'.exists
        /\ cache.owner # None => cache'.owner = cache.owner
    BY <1>0, <1>14, DatabaseOf DEF CacheWrite, Database
  <2>2. QED
    BY <1>0, <1>14, <2>1 DEF CacheWrite, ProcessTypes, FileTypes
<1>15. CASE Close(p)
  BY <1>0, <1>15 DEF Close, ProcessTypes, FileTypes, StagesOf, KeyOf, Alive
<1>16. CASE Abandon(p)
  BY <1>0, <1>16 DEF Abandon, ProcessTypes, FileTypes, StagesOf, KeyOf, Alive
<1>17. CASE Stopped(p)
  BY <1>0, <1>17 DEF Stopped, ProcessTypes, FileTypes, StagesOf, KeyOf, Alive
<1>18. CASE WriteMe(p)
  <2>1. /\ cache.exists => cache'.exists
        /\ cache.owner # None => cache'.owner = cache.owner
    BY <1>0, <1>18, MeWritten DEF ProcessTypes, FileTypes
  <2>2. QED
    BY Forgotten, <1>0, <1>18, <2>1 DEF WriteMe, ProcessTypes, FileTypes
<1>19. CASE Logout(p)
  BY <1>0, <1>19 DEF Logout, ProcessTypes, FileTypes, StagesOf, KeyOf, Alive
<1>20. CASE Revoked(p)
  BY <1>0, <1>20 DEF Revoked, ProcessTypes, FileTypes, StagesOf, KeyOf, Alive
<1>21. CASE LogoutFails(p)
  BY <1>0, <1>21 DEF LogoutFails, ProcessTypes, FileTypes, StagesOf, KeyOf, Alive
<1>22. CASE Clear(p)
  BY <1>0, <1>22 DEF Clear, ProcessTypes, FileTypes, StagesOf, KeyOf, Alive
<1>23. CASE CopyDatabase(p)
  <2>1. /\ cache.exists => cache'.exists
        /\ cache.owner # None => cache'.owner = cache.owner
    BY Forgotten, <1>0, <1>23 DEF CopyDatabase, Publish, Source, Target, Bound
  <2>2. QED
    BY Forgotten, <1>0, <1>23, <2>1 DEF CopyDatabase, Publish, ProcessTypes, FileTypes
<1>24. CASE CopyFails(p)
  BY Forgotten, <1>0, <1>24 DEF CopyFails, ProcessTypes, FileTypes, StagesOf, KeyOf, Alive
<1>25. CASE Exit(p)
  BY Forgotten, <1>0, <1>25 DEF Exit, ProcessTypes, FileTypes, StagesOf, KeyOf, Alive
<1>26. CASE Crash(p)
  BY Forgotten, <1>0, <1>26 DEF Crash, ProcessTypes, FileTypes, StagesOf, KeyOf, Alive
<1>27. QED
  BY <1>1, <1>2, <1>3, <1>4, <1>5, <1>6, <1>7, <1>8, <1>9, <1>10, <1>11, <1>12, <1>13,
     <1>14, <1>15, <1>16, <1>17, <1>18, <1>19, <1>20, <1>21, <1>22, <1>23, <1>24, <1>25, <1>26
     DEF ProcessStep, RunnerStep, CallerStep

(* ... so what is true of another process stays true. *)
LEMMA OthersKept ==
  ASSUME SessionInv, NEW p \in Clients, Others(p), NEW q \in Clients \ {p}
  PROVE  StagesOf(q)' /\ KeyOf(q)' /\ CacheOf(q)'
<1>0. StagesOf(q) /\ KeyOf(q) /\ CacheOf(q)
  BY DEF SessionInv
<1>1. /\ mode'[q] = mode[q] /\ caller'[q] = caller[q] /\ runner'[q] = runner[q]
      /\ key'[q] = key[q] /\ who'[q] = who[q] /\ (flushing'[q] <=> flushing[q])
      /\ (logoutMu'[q] <=> logoutMu[q]) /\ (cleared'[q] <=> cleared[q])
      /\ (lock' = q <=> lock = q)
  BY DEF Others
<1>2. Alive(q)' <=> Alive(q)
  BY <1>1 DEF Alive
<1>3. StagesOf(q)'
  BY <1>0, <1>1, <1>2 DEF StagesOf
<1>4. CacheOf(q)'
  BY <1>0, <1>1 DEF CacheOf, Others
<1>5. CASE sessionFile' = sessionFile /\ removed' = removed /\ remote' = remote
  BY <1>0, <1>1, <1>2, <1>3, <1>4, <1>5 DEF KeyOf
<1>6. CASE lock = p
  BY <1>0, <1>1, <1>2, <1>3, <1>4, <1>6 DEF KeyOf, StagesOf
<1>7. QED
  BY <1>3, <1>4, <1>5, <1>6 DEF Others

(* What the step is to the process itself: its stages ... *)
LEMMA StagesStep ==
  ASSUME SessionInv, NEW p \in Clients, ProcessStep(p)
  PROVE  StagesOf(p)'
<1> USE SessionAssumption DEF SessionAssumption, Caller, Runner, files, process, Alive, StagesOf
<1>0. ProcessTypes /\ FileTypes /\ StagesOf(p) /\ KeyOf(p)
  BY TypeParts DEF SessionInv
<1>1. ASSUME NEW m \in Modes, Begin(p, m) PROVE StagesOf(p)'
  BY <1>0, <1>1 DEF Begin, ProcessTypes, FileTypes
<1>2. ASSUME NEW u \in Users, Authorize(p, u) PROVE StagesOf(p)'
  BY <1>0, <1>2 DEF Authorize, ProcessTypes, FileTypes
<1>3. CASE Acquire(p)
  BY <1>0, <1>3 DEF Acquire, Opened, Writable, Copying, ProcessTypes, FileTypes
<1>4. CASE GiveUp(p)
  BY Forgotten, <1>0, <1>4 DEF GiveUp, ProcessTypes, FileTypes
<1>5. CASE Connect(p)
  <2>1. key' \in [Clients -> Keys \cup {None}] /\ key'[p] # None
    BY Connected, <1>0, <1>5 DEF ProcessTypes, FileTypes
  <2>2. QED
    BY Connected, <1>0, <1>5, <2>1 DEF ProcessTypes, FileTypes
<1>6. CASE StoreBegins(p)
  BY <1>0, <1>6 DEF StoreBegins, Writable, ProcessTypes, FileTypes
<1>7. CASE StoreEnds(p)
  BY <1>0, <1>7 DEF StoreEnds, ProcessTypes, FileTypes
<1>8. CASE LoggedIn(p)
  BY <1>0, <1>8 DEF LoggedIn, ProcessTypes, FileTypes
<1>9. CASE Status(p)
  BY Checked, <1>0, <1>9 DEF ProcessTypes, FileTypes
<1>10. CASE Bind(p)
  BY <1>0, <1>10 DEF Bind, ProcessTypes, FileTypes, KeyOf
<1>11. CASE Ready(p)
  BY Served, <1>0, <1>11 DEF ProcessTypes, FileTypes, KeyOf
<1>12. CASE Unwind(p)
  BY <1>0, <1>12 DEF Unwind, ProcessTypes, FileTypes
<1>13. CASE Release(p)
  BY <1>0, <1>13 DEF Release, ProcessTypes, FileTypes
<1>14. CASE CacheWrite(p)
  BY <1>0, <1>14 DEF CacheWrite, ProcessTypes, FileTypes
<1>15. CASE Close(p)
  BY <1>0, <1>15 DEF Close, ProcessTypes, FileTypes
<1>16. CASE Abandon(p)
  BY <1>0, <1>16 DEF Abandon, ProcessTypes, FileTypes
<1>17. CASE Stopped(p)
  BY <1>0, <1>17 DEF Stopped, ProcessTypes, FileTypes
<1>18. CASE WriteMe(p)
  BY Forgotten, <1>0, <1>18 DEF WriteMe, Opened, ProcessTypes, FileTypes
<1>19. CASE Logout(p)
  BY <1>0, <1>19 DEF Logout, ProcessTypes, FileTypes
<1>20. CASE Revoked(p)
  BY <1>0, <1>20 DEF Revoked, ProcessTypes, FileTypes
<1>21. CASE LogoutFails(p)
  BY <1>0, <1>21 DEF LogoutFails, ProcessTypes, FileTypes
<1>22. CASE Clear(p)
  BY <1>0, <1>22 DEF Clear, ProcessTypes, FileTypes
<1>23. CASE CopyDatabase(p)
  BY Forgotten, <1>0, <1>23 DEF CopyDatabase, Publish, Source, Target, ProcessTypes, FileTypes
<1>24. CASE CopyFails(p)
  BY Forgotten, <1>0, <1>24 DEF CopyFails, ProcessTypes, FileTypes
<1>25. CASE Exit(p)
  BY Forgotten, <1>0, <1>25 DEF Exit, ProcessTypes, FileTypes
<1>26. CASE Crash(p)
  BY Forgotten, <1>0, <1>26 DEF Crash, ProcessTypes, FileTypes
<1>27. QED
  BY <1>1, <1>2, <1>3, <1>4, <1>5, <1>6, <1>7, <1>8, <1>9, <1>10, <1>11, <1>12, <1>13,
     <1>14, <1>15, <1>16, <1>17, <1>18, <1>19, <1>20, <1>21, <1>22, <1>23, <1>24, <1>25, <1>26
     DEF ProcessStep, RunnerStep, CallerStep

(* ... its key ... *)
LEMMA KeyStep ==
  ASSUME SessionInv, NEW p \in Clients, ProcessStep(p)
  PROVE  KeyOf(p)'
<1> USE SessionAssumption DEF SessionAssumption, Caller, Runner, files, process, Alive, KeyOf
<1>0. ProcessTypes /\ FileTypes /\ StagesOf(p) /\ KeyOf(p) /\ LogoutSticks /\ \A k \in removed : remote[k] # "unused"
  BY TypeParts DEF SessionInv
<1>1. ASSUME NEW m \in Modes, Begin(p, m) PROVE KeyOf(p)'
  BY <1>0, <1>1 DEF Begin, ProcessTypes, FileTypes, StagesOf
<1>2. ASSUME NEW u \in Users, Authorize(p, u) PROVE KeyOf(p)'
  BY <1>0, <1>2 DEF Authorize, ProcessTypes, FileTypes, StagesOf
<1>3. CASE Acquire(p)
  <2>1. /\ caller' \in {[caller EXCEPT ![p] = "copying"], [caller EXCEPT ![p] = "starting"]}
        /\ runner' \in {runner, [runner EXCEPT ![p] = "connecting"]}
        /\ key' \in {[key EXCEPT ![p] = None], [key EXCEPT ![p] = sessionFile]}
        /\ UNCHANGED <<flushing, sessionFile, remote, removed>>
        /\ runner[p] = "none" /\ ~flushing[p]
    BY <1>0, <1>3 DEF Acquire, StagesOf
  <2>2. /\ caller'[p] # "revoked" /\ runner'[p] \in {"none", "connecting"}
        /\ key'[p] \in {None, sessionFile} /\ ~flushing'[p]
    BY <1>0, <2>1 DEF ProcessTypes
  <2>3. key'[p] \notin removed
    BY <1>0, <2>2 DEF FileTypes, LogoutSticks
  <2>4. QED
    BY <2>1, <2>2, <2>3
<1>4. CASE GiveUp(p)
  BY Forgotten, <1>0, <1>4 DEF GiveUp, ProcessTypes, FileTypes, StagesOf
<1>5. CASE Connect(p)
  <2>1. /\ key'[p] # None
        /\ key'[p] = key[p] \/ key'[p] = sessionFile \/ sessionFile = None
        /\ key'[p] = key[p] \/ key'[p] \notin removed
    BY Connected, <1>0, <1>5 DEF ProcessTypes, FileTypes, LogoutSticks
  <2>2. QED
    BY Connected, <1>0, <1>5, <2>1 DEF ProcessTypes, FileTypes, StagesOf
<1>6. CASE StoreBegins(p)
  BY <1>0, <1>6 DEF StoreBegins, Writable, ProcessTypes, FileTypes, StagesOf
<1>7. CASE StoreEnds(p)
  BY <1>0, <1>7 DEF StoreEnds, ProcessTypes, FileTypes, StagesOf
<1>8. CASE LoggedIn(p)
  BY <1>0, <1>8 DEF LoggedIn, ProcessTypes, FileTypes, StagesOf
<1>9. CASE Status(p)
  BY Checked, <1>0, <1>9 DEF ProcessTypes, FileTypes, StagesOf
<1>10. CASE Bind(p)
  BY <1>0, <1>10 DEF Bind, ProcessTypes, FileTypes, StagesOf
<1>11. CASE Ready(p)
  BY Served, <1>0, <1>11 DEF ProcessTypes, FileTypes, StagesOf
<1>12. CASE Unwind(p)
  BY <1>0, <1>12 DEF Unwind, ProcessTypes, FileTypes, StagesOf
<1>13. CASE Release(p)
  BY <1>0, <1>13 DEF Release, ProcessTypes, FileTypes, StagesOf
<1>14. CASE CacheWrite(p)
  BY <1>0, <1>14 DEF CacheWrite, ProcessTypes, FileTypes, StagesOf
<1>15. CASE Close(p)
  BY <1>0, <1>15 DEF Close, ProcessTypes, FileTypes, StagesOf
<1>16. CASE Abandon(p)
  BY <1>0, <1>16 DEF Abandon, ProcessTypes, FileTypes, StagesOf
<1>17. CASE Stopped(p)
  BY <1>0, <1>17 DEF Stopped, ProcessTypes, FileTypes, StagesOf
<1>18. CASE WriteMe(p)
  BY Forgotten, <1>0, <1>18 DEF WriteMe, Opened, ProcessTypes, FileTypes, StagesOf
<1>19. CASE Logout(p)
  BY <1>0, <1>19 DEF Logout, ProcessTypes, FileTypes, StagesOf
<1>20. CASE Revoked(p)
  BY <1>0, <1>20 DEF Revoked, ProcessTypes, FileTypes, StagesOf
<1>21. CASE LogoutFails(p)
  BY <1>0, <1>21 DEF LogoutFails, ProcessTypes, FileTypes, StagesOf
<1>22. CASE Clear(p)
  BY <1>0, <1>22 DEF Clear, ProcessTypes, FileTypes, StagesOf
<1>23. CASE CopyDatabase(p)
  BY Forgotten, <1>0, <1>23 DEF CopyDatabase, Publish, Source, Target, ProcessTypes, FileTypes, StagesOf
<1>24. CASE CopyFails(p)
  BY Forgotten, <1>0, <1>24 DEF CopyFails, ProcessTypes, FileTypes, StagesOf
<1>25. CASE Exit(p)
  BY Forgotten, <1>0, <1>25 DEF Exit, ProcessTypes, FileTypes, StagesOf
<1>26. CASE Crash(p)
  BY Forgotten, <1>0, <1>26 DEF Crash, ProcessTypes, FileTypes, StagesOf
<1>27. QED
  BY <1>1, <1>2, <1>3, <1>4, <1>5, <1>6, <1>7, <1>8, <1>9, <1>10, <1>11, <1>12, <1>13,
     <1>14, <1>15, <1>16, <1>17, <1>18, <1>19, <1>20, <1>21, <1>22, <1>23, <1>24, <1>25, <1>26
     DEF ProcessStep, RunnerStep, CallerStep

(* ... and the cache it writes. *)
LEMMA CacheStep ==
  ASSUME SessionInv, NEW p \in Clients, ProcessStep(p)
  PROVE  CacheOf(p)'
<1> USE SessionAssumption DEF SessionAssumption, Caller, Runner, files, process, CacheOf
<1>0. /\ ProcessTypes /\ FileTypes /\ StagesOf(p) /\ CacheOf(p) /\ cache \in Database
  BY TypeParts DEF SessionInv, FileTypes
<1>1. ASSUME NEW m \in Modes, Begin(p, m) PROVE CacheOf(p)'
  BY <1>0, <1>1 DEF Begin, ProcessTypes, FileTypes, StagesOf, Alive
<1>2. ASSUME NEW u \in Users, Authorize(p, u) PROVE CacheOf(p)'
  BY <1>0, <1>2 DEF Authorize, ProcessTypes, FileTypes, StagesOf, Alive
<1>3. CASE Acquire(p)
  <2>1. mode[p] \in {"command", "logout"} => cache'.exists
    BY <1>0, <1>3, DatabaseOf DEF Acquire
  <2>2. QED
    BY <1>0, <1>3, <2>1 DEF Acquire, ProcessTypes, StagesOf
<1>4. CASE GiveUp(p)
  BY Forgotten, <1>0, <1>4 DEF GiveUp, ProcessTypes, FileTypes, StagesOf, Alive
<1>5. CASE Connect(p)
  BY Connected, <1>0, <1>5 DEF ProcessTypes, FileTypes, StagesOf, Alive
<1>6. CASE StoreBegins(p)
  BY <1>0, <1>6 DEF StoreBegins, Writable, ProcessTypes, FileTypes, StagesOf, Alive
<1>7. CASE StoreEnds(p)
  BY <1>0, <1>7 DEF StoreEnds, ProcessTypes, FileTypes, StagesOf, Alive
<1>8. CASE LoggedIn(p)
  BY <1>0, <1>8 DEF LoggedIn, ProcessTypes, FileTypes, StagesOf, Alive
<1>9. CASE Status(p)
  BY Checked, <1>0, <1>9 DEF ProcessTypes, FileTypes, StagesOf, Alive
<1>10. CASE Bind(p)
  <2>1. cache'.owner = who[p] /\ cache'.exists = cache.exists
    BY <1>0, <1>10, DatabaseOf DEF Bind, ProcessTypes, FileTypes
  <2>2. QED
    BY <1>0, <1>10, <2>1 DEF Bind, ProcessTypes, FileTypes, StagesOf
<1>11. CASE Ready(p)
  BY Served, <1>0, <1>11 DEF ProcessTypes, FileTypes, StagesOf, Alive
<1>12. CASE Unwind(p)
  BY <1>0, <1>12 DEF Unwind, ProcessTypes, FileTypes, StagesOf, Alive
<1>13. CASE Release(p)
  BY <1>0, <1>13 DEF Release, ProcessTypes, FileTypes, StagesOf, Alive
<1>14. CASE CacheWrite(p)
  <2>1. cache'.owner = cache.owner /\ cache'.exists = cache.exists
    BY <1>0, <1>14, DatabaseOf DEF CacheWrite, ProcessTypes, FileTypes
  <2>2. QED
    BY <1>0, <1>14, <2>1 DEF CacheWrite
<1>15. CASE Close(p)
  BY <1>0, <1>15 DEF Close, ProcessTypes, FileTypes, StagesOf, Alive
<1>16. CASE Abandon(p)
  BY <1>0, <1>16 DEF Abandon, ProcessTypes, FileTypes, StagesOf, Alive
<1>17. CASE Stopped(p)
  BY <1>0, <1>17 DEF Stopped, ProcessTypes, FileTypes, StagesOf, Alive
<1>18. CASE WriteMe(p)
  BY Forgotten, <1>0, <1>18 DEF WriteMe, Opened, ProcessTypes, FileTypes, StagesOf, Alive
<1>19. CASE Logout(p)
  BY <1>0, <1>19 DEF Logout, ProcessTypes, FileTypes, StagesOf, Alive
<1>20. CASE Revoked(p)
  BY <1>0, <1>20 DEF Revoked, ProcessTypes, FileTypes, StagesOf, Alive
<1>21. CASE LogoutFails(p)
  BY <1>0, <1>21 DEF LogoutFails, ProcessTypes, FileTypes, StagesOf, Alive
<1>22. CASE Clear(p)
  BY <1>0, <1>22 DEF Clear, ProcessTypes, FileTypes, StagesOf, Alive
<1>23. CASE CopyDatabase(p)
  BY Forgotten, <1>0, <1>23 DEF CopyDatabase, Publish, Source, Target, ProcessTypes, FileTypes, StagesOf, Alive
<1>24. CASE CopyFails(p)
  BY Forgotten, <1>0, <1>24 DEF CopyFails, ProcessTypes, FileTypes, StagesOf, Alive
<1>25. CASE Exit(p)
  BY Forgotten, <1>0, <1>25 DEF Exit, ProcessTypes, FileTypes, StagesOf, Alive
<1>26. CASE Crash(p)
  BY Forgotten, <1>0, <1>26 DEF Crash, ProcessTypes, FileTypes, StagesOf, Alive
<1>27. QED
  BY <1>1, <1>2, <1>3, <1>4, <1>5, <1>6, <1>7, <1>8, <1>9, <1>10, <1>11, <1>12, <1>13,
     <1>14, <1>15, <1>16, <1>17, <1>18, <1>19, <1>20, <1>21, <1>22, <1>23, <1>24, <1>25, <1>26
     DEF ProcessStep, RunnerStep, CallerStep

(* What is true of the files and of Telegram stays true. *)
SharedInv == LogoutSticks /\ Bound(cache) /\ Bound(snapshot) /\ \A k \in removed : remote[k] # "unused"

(* The steps of a process keep it. *)
LEMMA SharedStep ==
  ASSUME SessionInv, NEW p \in Clients, ProcessStep(p)
  PROVE  SharedInv'
<1> USE SessionAssumption DEF SessionAssumption, Caller, Runner, files, process, SharedInv, LogoutSticks
<1>0. /\ ProcessTypes /\ FileTypes /\ StagesOf(p) /\ KeyOf(p) /\ CacheOf(p) /\ SharedInv
      /\ cache \in Database /\ snapshot \in Database
  BY TypeParts DEF SessionInv, FileTypes
<1>1. ASSUME NEW m \in Modes, Begin(p, m) PROVE SharedInv'
  BY <1>0, <1>1 DEF Begin, ProcessTypes, FileTypes, Bound
<1>2. ASSUME NEW u \in Users, Authorize(p, u) PROVE SharedInv'
  BY <1>0, <1>2 DEF Authorize, ProcessTypes, FileTypes, Bound
<1>3. CASE Acquire(p)
  <2>1. cache'.owner = cache.owner /\ cache'.rows = cache.rows /\ (cache.exists => cache'.exists)
    BY <1>0, <1>3, DatabaseOf DEF Acquire
  <2>2. QED
    BY <1>0, <1>3, <2>1 DEF Acquire, Bound
<1>4. CASE GiveUp(p)
  BY Forgotten, <1>0, <1>4 DEF GiveUp, ProcessTypes, FileTypes, Bound
<1>5. CASE Connect(p)
  <2>1. \A k \in Keys : remote[k] # "unused" => remote'[k] # "unused"
    BY Connected, <1>0, <1>5 DEF ProcessTypes, FileTypes
  <2>2. QED
    BY Connected, <1>0, <1>5, <2>1 DEF ProcessTypes, FileTypes, Bound
<1>6. CASE StoreBegins(p)
  BY <1>0, <1>6 DEF StoreBegins, Writable, ProcessTypes, FileTypes, Bound
<1>7. CASE StoreEnds(p)
  <2>1. sessionFile' \notin removed
    BY <1>0, <1>7 DEF StoreEnds, KeyOf
  <2>2. QED
    BY <1>0, <1>7, <2>1 DEF StoreEnds, Bound
<1>8. CASE LoggedIn(p)
  BY <1>0, <1>8 DEF LoggedIn, ProcessTypes, FileTypes, Bound
<1>9. CASE Status(p)
  BY Checked, <1>0, <1>9 DEF ProcessTypes, FileTypes, Bound
<1>10. CASE Bind(p)
  <2>1. cache'.owner = who[p] /\ cache'.rows = cache.rows /\ cache'.exists = cache.exists
    BY <1>0, <1>10, DatabaseOf DEF Bind, ProcessTypes, FileTypes
  <2>2. cache.exists /\ cache.rows \subseteq Users
    BY <1>0, <1>10, DatabaseOf DEF Bind, CacheOf, StagesOf
  <2>3. QED
    BY <1>0, <1>10, <2>1, <2>2 DEF Bind, Bound
<1>11. CASE Ready(p)
  BY Served, <1>0, <1>11 DEF ProcessTypes, FileTypes, Bound
<1>12. CASE Unwind(p)
  BY <1>0, <1>12 DEF Unwind, ProcessTypes, FileTypes, Bound
<1>13. CASE Release(p)
  BY <1>0, <1>13 DEF Release, ProcessTypes, FileTypes, Bound
<1>14. CASE CacheWrite(p)
  <2>1. who[p] \in Users /\ cache.owner = who[p]
    BY <1>0, <1>14 DEF CacheWrite, CacheOf, ProcessTypes, FileTypes
  <2>2. cache'.owner = cache.owner /\ cache'.rows = cache.rows \cup {who[p]} /\ cache'.exists = cache.exists
    BY <1>0, <1>14, <2>1, DatabaseOf DEF CacheWrite
  <2>3. QED
    BY <1>0, <1>14, <2>1, <2>2 DEF CacheWrite, Bound
<1>15. CASE Close(p)
  BY <1>0, <1>15 DEF Close, ProcessTypes, FileTypes, Bound
<1>16. CASE Abandon(p)
  BY <1>0, <1>16 DEF Abandon, ProcessTypes, FileTypes, Bound
<1>17. CASE Stopped(p)
  BY <1>0, <1>17 DEF Stopped, ProcessTypes, FileTypes, Bound
<1>18. CASE WriteMe(p)
  <2>1. cache'.owner = cache.owner /\ cache'.rows = cache.rows /\ (cache.exists => cache'.exists)
    BY <1>0, <1>18, MeWritten DEF ProcessTypes, FileTypes
  <2>2. QED
    BY Forgotten, <1>0, <1>18, <2>1 DEF WriteMe, Bound
<1>19. CASE Logout(p)
  BY <1>0, <1>19 DEF Logout, ProcessTypes, FileTypes, Bound
<1>20. CASE Revoked(p)
  BY <1>0, <1>20 DEF Revoked, ProcessTypes, FileTypes, Bound
<1>21. CASE LogoutFails(p)
  BY <1>0, <1>21 DEF LogoutFails, ProcessTypes, FileTypes, Bound
<1>22. CASE Clear(p)
  <2>1. key[p] \in Keys /\ remote[key[p]] = "revoked" /\ None \notin Keys
    BY <1>0, <1>22 DEF Clear, KeyOf, StagesOf, ProcessTypes, FileTypes
  <2>2. QED
    BY <1>0, <1>22, <2>1 DEF Clear, ProcessTypes, FileTypes, Bound
<1>23. CASE CopyDatabase(p)
  BY Forgotten, <1>0, <1>23 DEF CopyDatabase, Publish, Source, Target, ProcessTypes, FileTypes, Bound
<1>24. CASE CopyFails(p)
  BY Forgotten, <1>0, <1>24 DEF CopyFails, ProcessTypes, FileTypes, Bound
<1>25. CASE Exit(p)
  BY Forgotten, <1>0, <1>25 DEF Exit, ProcessTypes, FileTypes, Bound
<1>26. CASE Crash(p)
  BY Forgotten, <1>0, <1>26 DEF Crash, ProcessTypes, FileTypes, Bound
<1>27. QED
  BY <1>1, <1>2, <1>3, <1>4, <1>5, <1>6, <1>7, <1>8, <1>9, <1>10, <1>11, <1>12, <1>13,
     <1>14, <1>15, <1>16, <1>17, <1>18, <1>19, <1>20, <1>21, <1>22, <1>23, <1>24, <1>25, <1>26
     DEF ProcessStep, RunnerStep, CallerStep

(* The inductive invariant holds at the start. *)
LEMMA SessionStart == Init => SessionInv
<1> SUFFICES ASSUME Init PROVE SessionInv
  OBVIOUS
<1> USE SessionAssumption DEF SessionAssumption
<1>1. NoCache \in Database /\ NoCache.owner = None /\ NoCache.rows = {}
  BY DEF NoCache, Database
<1>2. /\ snapshot \in Database /\ Bound(snapshot) /\ Bound(cache) /\ cache \in Database
  <2>1. CASE snapshot = NoCache
    BY <1>1, <2>1 DEF Init, Bound
  <2>2. ASSUME NEW u \in Imported, snapshot = [NoCache EXCEPT !.exists = TRUE, !.owner = u, !.rows = {u}]
        PROVE  snapshot \in Database /\ Bound(snapshot)
    <3>1. snapshot = [exists |-> TRUE, owner |-> u, rows |-> {u}, me |-> None]
      BY <2>2 DEF NoCache
    <3>2. QED
      BY <3>1 DEF Bound, Database
  <2>3. Bound(cache) /\ cache \in Database
    BY <1>1 DEF Init, Bound
  <2>4. QED
    BY <2>1, <2>2, <2>3 DEF Init
<1>3. TypeOK
  <2>1. ProcessTypes
    BY DEF Init, ProcessTypes, Modes, Callers, Runners
  <2>2. FileTypes
    <3>1. /\ remote \in [Keys -> Users \cup {"unused", "fresh", "revoked"}]
          /\ removed \subseteq Keys
      BY DEF Init
    <3>0. runs \in 0..MaxRuns
      <4>1. runs = 0
        BY DEF Init
      <4>2. QED
        BY <4>1
    <3>2. QED
      BY <1>2, <3>0, <3>1 DEF Init, FileTypes
  <2>3. QED
    BY <2>1, <2>2, TypeParts
<1>4. ASSUME NEW p \in Clients PROVE StagesOf(p) /\ KeyOf(p) /\ CacheOf(p)
  BY DEF Init, StagesOf, KeyOf, CacheOf, Alive
<1>5. QED
  BY <1>2, <1>3, <1>4 DEF SessionInv, Init, LogoutSticks

(* Every step preserves the inductive invariant. *)
LEMMA SessionKept == SessionInv /\ [Next]_vars => SessionInv'
<1> SUFFICES ASSUME SessionInv, [Next]_vars PROVE SessionInv'
  OBVIOUS
<1>1. ASSUME NEW p \in Clients, ProcessStep(p) PROVE SessionInv'
  <2>1. TypeOK' /\ SharedInv' /\ Others(p)
    <3>1. ProcessTypes' /\ FileTypes'
      BY <1>1, SessionTypes
    <3>2. TypeOK'
      BY <3>1 DEF TypeOK, ProcessTypes, FileTypes, Callers, Runners, Database
    <3>3. QED
      BY <1>1, <3>2, SharedStep, SessionFrame
  <2>2. StagesOf(p)' /\ KeyOf(p)' /\ CacheOf(p)'
    BY <1>1, StagesStep, KeyStep, CacheStep
  <2>3. \A q \in Clients : StagesOf(q)' /\ KeyOf(q)' /\ CacheOf(q)'
    BY <2>1, <2>2, OthersKept
  <2>4. QED
    BY <2>1, <2>3 DEF SessionInv, SharedInv
<1>2. CASE UNCHANGED vars
  <2>1. UNCHANGED <<lock, sidecar, sessionFile, cache, snapshot, remote, removed, mode, caller, runner,
                    key, who, flushing, logoutMu, cleared, runs>>
    BY <1>2 DEF vars, files, process
  <2>2. TypeOK' /\ LogoutSticks' /\ Bound(cache)' /\ Bound(snapshot)' /\ \A k \in removed' : remote'[k] # "unused"
    BY <2>1 DEF SessionInv, TypeOK, LogoutSticks, Bound
  <2>3. \A q \in Clients : StagesOf(q)' /\ KeyOf(q)' /\ CacheOf(q)'
    BY <2>1 DEF SessionInv, StagesOf, KeyOf, CacheOf, Alive
  <2>4. QED
    BY <2>2, <2>3 DEF SessionInv
<1>3. QED
  BY <1>1, <1>2 DEF Next, ProcessStep

(* The inductive invariant contains what the run checks. *)
LEMMA SessionImplies == SessionInv => SessionSafe
  BY DEF SessionInv, SessionSafe, TransportOwnsSession, ClosedMeansReleased, RowsOfOwner,
    StagesOf, Alive, Bound

(* However many processes use one account: the one whose transport lives owns the     *)
(* session, a closed client has given it back, a session that was logged out does not *)
(* come back, and the cache holds rows of one user.                                  *)
THEOREM SessionIsSafe == Spec => []SessionSafe
  BY SessionStart, SessionKept, SessionImplies, PTL DEF Spec

(* The session file is removed only after the server revoked the key in it. *)
THEOREM OnlyRevokedKeysGo == Spec => OnlyRevokedIsRemoved
<1>1. ASSUME SessionInv, [Next]_vars, sessionFile # None, sessionFile' = None
      PROVE  remote[sessionFile] = "revoked"
  <2>1. PICK p \in Clients : ProcessStep(p)
    BY <1>1 DEF Next, vars, files, ProcessStep
  <2>2. TypeOK /\ StagesOf(p) /\ KeyOf(p)
    BY <1>1 DEF SessionInv
  <2>3. StoreEnds(p) \/ Clear(p)
    BY <1>1, <2>1 DEF ProcessStep, RunnerStep, CallerStep, files, Begin, Authorize,
      Acquire, GiveUp, Connect, StoreBegins, LoggedIn, Status, Bind, Ready, Unwind, Release, CacheWrite,
      Close, Abandon, Stopped, WriteMe, Logout, Revoked, LogoutFails, CopyDatabase, Publish, CopyFails,
      Exit, Crash
  <2>4. ~StoreEnds(p)
    BY <1>1, <2>2 DEF StoreEnds, KeyOf
  <2>5. QED
    BY <1>1, <2>2, <2>3, <2>4 DEF Clear, KeyOf, StagesOf
<1>2. SessionInv /\ [Next]_vars => (sessionFile # None /\ sessionFile' = None => remote[sessionFile] = "revoked")
  BY <1>1
<1>3. QED
  BY <1>2, SessionStart, SessionKept, PTL DEF Spec, OnlyRevokedIsRemoved

(* A cache once bound stays that user's, over logins, restores and crashes. *)
THEOREM OwnerStays == Spec => OwnerIsForever
<1>1. ASSUME SessionInv, [Next]_vars, cache.owner # None
      PROVE  cache'.owner = cache.owner
  <2>1. CASE UNCHANGED vars
    BY <2>1 DEF vars, files
  <2>2. ASSUME NEW p \in Clients, ProcessStep(p) PROVE cache'.owner = cache.owner
    BY <1>1, <2>2, SessionFrame DEF Others
  <2>3. QED
    BY <1>1, <2>1, <2>2 DEF Next, ProcessStep
<1>2. SessionInv /\ [Next]_vars => (cache.owner # None => cache'.owner = cache.owner)
  BY <1>1
<1>3. QED
  BY <1>2, SessionStart, SessionKept, PTL DEF Spec, OwnerIsForever

-----------------------------------------------------------------------------
(* The directory of the account.                                             *)

(* The steps at which a process holds a lock; in all but the last it owns the account. *)
Locking == {"owning", "resetting", "listing", "deleting", "emptied"}
Owning  == {"owning", "resetting", "listing", "deleting"}

(* The lock of an inode is held by the process that has it open at one of these      *)
(* steps, and unless a waiter took the lock of an unlinked sidecar, every owner has   *)
(* the inode open that the name denotes.                                             *)
LockOfOpened == \A p \in Processes :
  /\ step[p] \in {"comparing", "waiting"} \cup Locking => opened[p] # 0
  /\ step[p] \in Locking => flock[opened[p]] = p
OwnersHaveTheName == orphaned \/ \A p \in Processes : step[p] \in Owning => opened[p] = named

(* The inductive invariant of the directory. *)
DirInv == DirTypeOK /\ LockOfOpened /\ OwnersHaveTheName

(* The inductive invariant holds at the start. *)
LEMMA DirStart == DirInit => DirInv
<1> SUFFICES ASSUME DirInit PROVE DirInv
  OBVIOUS
<1>1. DirTypeOK
  <2>1. /\ dirExists \in BOOLEAN /\ selector \in BOOLEAN /\ orphaned \in BOOLEAN
        /\ entries \subseteq Entries
    BY DEF DirInit
  <2>2. created \in 0..MaxSidecars /\ named \in 0..created
    BY DirectoryAssumption DEF DirInit, DirectoryAssumption
  <2>3. /\ flock \in [Sidecars -> Processes \cup {NoOwner}] /\ opened \in [Processes -> 0..created]
        /\ listed \in [Processes -> SUBSET Entries]
    BY <2>2 DEF DirInit
  <2>4. /\ task \in [Processes -> {"client", "remove", "use"}]
        /\ step \in [Processes -> {"idle", "opening", "comparing", "waiting", "owning",
                                   "selecting", "resetting", "listing", "deleting", "emptied"}]
    BY DEF DirInit
  <2>5. QED
    BY <2>1, <2>2, <2>3, <2>4 DEF DirTypeOK
<1>2. \A p \in Processes : step[p] = "idle"
  BY DEF DirInit
<1>3. QED
  BY <1>1, <1>2 DEF DirInv, LockOfOpened, OwnersHaveTheName, Locking, Owning

(* A process that finishes gives up its lock, and no other. *)
LEMMA FinishKeeps ==
  ASSUME DirInv, NEW p \in Processes, Finish(p),
         UNCHANGED <<named, created, task, orphaned>>,
         dirExists' \in BOOLEAN, selector' \in BOOLEAN, entries' = entries
  PROVE  DirInv'
<1> USE DEF DirInv, Finish, Step
<1>1. DirTypeOK'
  BY DEF DirTypeOK, Sidecars
<1>2. ASSUME NEW q \in Processes
      PROVE  /\ q # p => step'[q] = step[q] /\ opened'[q] = opened[q]
             /\ step'[p] = "idle"
  BY DEF DirTypeOK
<1>3. \A q \in Processes : opened[q] # 0 => opened[q] \in Sidecars
  BY DirectoryAssumption DEF DirTypeOK, Sidecars, DirectoryAssumption
<1>4. LockOfOpened'
  <2> SUFFICES ASSUME NEW q \in Processes
               PROVE  /\ step'[q] \in {"comparing", "waiting"} \cup Locking => opened'[q] # 0
                      /\ step'[q] \in Locking => flock'[opened'[q]] = q
    BY DEF LockOfOpened
  <2>1. CASE q = p
    BY <1>2, <2>1 DEF Locking
  <2>2. CASE q # p
    BY <1>2, <1>3, <2>2 DEF LockOfOpened
  <2>3. QED
    BY <2>1, <2>2
<1>5. OwnersHaveTheName'
  BY <1>2 DEF OwnersHaveTheName, Owning
<1>6. QED
  BY <1>1, <1>4, <1>5

(* Every step preserves the inductive invariant. *)
LEMMA DirKept == DirInv /\ [DirNext]_dirVars => DirInv'
<1> SUFFICES ASSUME DirInv, [DirNext]_dirVars PROVE DirInv'
  OBVIOUS
<1>0. DirTypeOK /\ LockOfOpened /\ OwnersHaveTheName
  BY DEF DirInv
<1>1. CASE UNCHANGED dirVars
  BY <1>1 DEF dirVars, DirInv, DirTypeOK, LockOfOpened, OwnersHaveTheName
<1>2. ASSUME NEW p \in Processes, DirStep(p) PROVE DirInv'
  <2> USE <1>0 DEF DirInv, Step
  <2>1. CASE Resolve(p)
    BY <2>1 DEF Resolve, DirTypeOK, LockOfOpened, OwnersHaveTheName, Locking, Owning
  <2>2. ASSUME NEW t \in {"remove", "use"}, Require(p, t) PROVE DirInv'
    BY <2>2 DEF Require, DirTypeOK, LockOfOpened, OwnersHaveTheName, Locking, Owning
  <2>3. CASE Select(p)
    BY <2>3, FinishKeeps DEF Select, DirTypeOK
  <2>4. CASE OpenSidecar(p)
    <3>1. /\ named' \in 0..created' /\ created' \in 0..MaxSidecars /\ named' # 0 /\ created' >= created
          /\ named # 0 => named' = named
          /\ opened' = [opened EXCEPT ![p] = named'] /\ step' = [step EXCEPT ![p] = "comparing"]
          /\ step[p] = "opening"
          /\ UNCHANGED <<dirExists, entries, selector, flock, task, listed, orphaned>>
      BY <2>4, DirectoryAssumption DEF OpenSidecar, DirTypeOK, DirectoryAssumption
    <3>2. DirTypeOK'
      BY <3>1 DEF DirTypeOK
    <3>3. LockOfOpened'
      BY <3>1 DEF DirTypeOK, LockOfOpened, Locking
    <3>4. OwnersHaveTheName'
      BY <3>1 DEF DirTypeOK, LockOfOpened, OwnersHaveTheName, Locking, Owning
    <3>5. QED
      BY <3>2, <3>3, <3>4
  <2>5. CASE Compare(p)
    BY <2>5 DEF Compare, DirTypeOK, LockOfOpened, OwnersHaveTheName, Locking, Owning
  <2>6. CASE Lock(p)
    <3>1. opened[p] \in Sidecars
      BY <2>6, DirectoryAssumption DEF Lock, DirTypeOK, LockOfOpened, Sidecars, DirectoryAssumption
    <3>2. DirTypeOK'
      BY <2>6, <3>1 DEF Lock, DirTypeOK
    <3>3. LockOfOpened'
      BY <2>6, <3>1, DirectoryAssumption DEF Lock, DirTypeOK, LockOfOpened, Locking, DirectoryAssumption
    <3>4. OwnersHaveTheName'
      BY <2>6, <3>1 DEF Lock, DirTypeOK, OwnersHaveTheName, Owning
    <3>5. QED
      BY <3>2, <3>3, <3>4
  <2>7. CASE Leave(p)
    BY <2>7, FinishKeeps DEF Leave, DirTypeOK
  <2>8. ASSUME NEW e \in Entries, WriteEntry(p, e) PROVE DirInv'
    BY <2>8 DEF WriteEntry, DirTypeOK, LockOfOpened, OwnersHaveTheName
  <2>9. CASE Reset(p)
    BY <2>9 DEF Reset, DirTypeOK, LockOfOpened, OwnersHaveTheName, Locking, Owning
  <2>10. CASE List(p)
    BY <2>10 DEF List, DirTypeOK, LockOfOpened, OwnersHaveTheName, Locking, Owning
  <2>11. ASSUME NEW e \in Entries, Delete(p, e) PROVE DirInv'
    BY <2>11 DEF Delete, DirTypeOK, LockOfOpened, OwnersHaveTheName
  <2>12. CASE Unlink(p)
    <3>1. \A q \in Processes \ {p} : ~orphaned => step[q] \notin Owning
      BY <2>12, DirectoryAssumption DEF Unlink, LockOfOpened, OwnersHaveTheName, Locking, Owning
    <3>2. QED
      BY <2>12, <3>1 DEF Unlink, DirTypeOK, LockOfOpened, OwnersHaveTheName, Locking, Owning
  <2>13. CASE RemoveDir(p)
    BY <2>13, FinishKeeps DEF RemoveDir, DirTypeOK
  <2>14. QED
    BY <1>2, <2>1, <2>2, <2>3, <2>4, <2>5, <2>6, <2>7, <2>8, <2>9, <2>10, <2>11, <2>12, <2>13
       DEF DirStep
<1>3. QED
  BY <1>1, <1>2 DEF DirNext

(* Two owners have the same inode locked, so they are one. *)
LEMMA DirImplies == DirInv => DirectorySafe
<1> SUFFICES ASSUME DirInv, ~orphaned PROVE OneOwner
  BY DEF DirInv, DirectorySafe, OneOwnerUnlessUnlinked
<1>1. \A p, q \in Owners : p = q
  BY DEF Owners, DirInv, LockOfOpened, OwnersHaveTheName, Locking, Owning
<1>2. CASE Owners = {}
  BY <1>2, FS_EmptySet DEF OneOwner
<1>3. CASE Owners # {}
  <2>1. PICK p \in Owners : TRUE
    BY <1>3
  <2>2. Owners = {p}
    BY <1>1, <2>1
  <2>3. Cardinality({p}) = 1
    BY FS_Singleton
  <2>4. QED
    BY <2>2, <2>3 DEF OneOwner
<1>4. QED
  BY <1>2, <1>3

(* One process at a time owns an account, whatever clients and removals do to its    *)
(* directory, until a waiter takes the lock of a sidecar that was unlinked.          *)
THEOREM DirectoryIsSafe == DirSpec => []DirectorySafe
  BY DirStart, DirKept, DirImplies, PTL DEF DirSpec

(* The directory is removed only when nothing is left in it. *)
THEOREM NothingIsSweptAway == DirSpec => NothingSweptAway
<1>1. ASSUME DirInv, [DirNext]_dirVars, dirExists, ~dirExists'
      PROVE  entries = {} /\ named = 0
  <2>1. PICK p \in Processes : DirStep(p)
    BY <1>1 DEF DirNext, dirVars
  <2>2. RemoveDir(p)
    BY <1>1, <2>1 DEF DirStep, Resolve, Select, OpenSidecar, Compare, Lock, Leave, Reset, List, Unlink,
      Require, WriteEntry, Delete
  <2>3. QED
    BY <2>2 DEF RemoveDir
<1>2. DirInv /\ [DirNext]_dirVars => (dirExists /\ ~dirExists' => entries = {} /\ named = 0)
  BY <1>1
<1>3. QED
  BY <1>2, DirStart, DirKept, PTL DEF DirSpec, NothingSweptAway

(* Of an account that is used, logged out, restored and removed by several processes,   *)
(* nothing is taken from somebody who may still use it.                                 *)
THEOREM NothingIsTakenAway == Spec /\ DirSpec => NothingTakenAway
<1> QED
  BY OnlyRevokedKeysGo, OwnerStays, NothingIsSweptAway DEF NothingTakenAway

=============================================================================
