--------------------------- MODULE AccountSession ---------------------------
(***************************************************************************)
(* One account directory and the processes that use it: the session file,  *)
(* its ownership lock, the cache and the user it is bound to.  A process   *)
(* is a caller (the command) and, once it owns the session, a runner (the  *)
(* goroutine of gotd's Run, which also releases the lock).  Login, the     *)
(* commands that open a client, `me`, logout, db-backup and db-restore are *)
(* modelled; the removal of the whole account is in AccountDirectory.      *)
(*                                                                         *)
(* Telegram's side is remote: what the server knows of an auth key.        *)
(***************************************************************************)
EXTENDS Naturals, FiniteSets

CONSTANTS Clients, Users, Keys, None,
          Imported,        \* users whose snapshot a restore may be given
          MaxRuns          \* bound: processes started in one behaviour

ASSUME SessionAssumption ==
  /\ MaxRuns \in Nat /\ Imported \subseteq Users
  /\ None \notin Clients \cup Users \cup Keys
  /\ Users \cap {"unused", "fresh", "revoked"} = {}

VARIABLES
  lock,         \* the process that owns tg.session.lock
  sidecar,      \* tg.session.lock exists
  sessionFile,  \* the auth key in tg.session
  cache,        \* telegram.sqlite: exists, bound user, users its rows are of, tg_me
  snapshot,     \* the file a backup publishes and a restore reads
  remote,       \* what the server knows of each key
  removed,      \* keys whose logout reported the session as removed
  mode,         \* what each process was started for
  caller, runner,
  key,          \* the key of the process's transport
  who,          \* the user it found itself logged in as
  flushing,     \* a StoreSession holds mu and has not published yet
  logoutMu,     \* the caller is inside Logout
  cleared,      \* Clear has run
  runs

files   == <<sidecar, sessionFile, cache, snapshot>>
process == <<mode, caller, runner, key, who, flushing, logoutMu, cleared>>
vars    == <<lock, files, remote, removed, process, runs>>

Modes    == {"login", "command", "me", "readonly", "logout", "backup", "restore"}
Copying  == {"backup", "restore"}
NoCache  == [exists |-> FALSE, owner |-> None, rows |-> {}, me |-> None]

\* store.Connect creates the database it does not find.
Opened(c) == [c EXCEPT !.exists = TRUE]

Init ==
  /\ lock = None /\ sidecar = FALSE /\ sessionFile = None
  /\ cache = NoCache
  /\ snapshot \in {NoCache} \cup {[NoCache EXCEPT !.exists = TRUE, !.owner = u, !.rows = {u}] :
                                  u \in Imported}
  /\ remote = [k \in Keys |-> "unused"] /\ removed = {}
  /\ mode = [p \in Clients |-> "command"]
  /\ caller = [p \in Clients |-> "idle"] /\ runner = [p \in Clients |-> "none"]
  /\ key = [p \in Clients |-> None] /\ who = [p \in Clients |-> None]
  /\ flushing = [p \in Clients |-> FALSE]
  /\ logoutMu = [p \in Clients |-> FALSE] /\ cleared = [p \in Clients |-> FALSE]
  /\ runs = 0

Caller(p, state) == caller' = [caller EXCEPT ![p] = state]
Runner(p, state) == runner' = [runner EXCEPT ![p] = state]
Writable(p)      == mode[p] # "readonly"

\* The process is over: with it go its descriptors, and flock with them.
Forget(p) ==
  /\ mode' = [mode EXCEPT ![p] = "command"]
  /\ Caller(p, "idle") /\ Runner(p, "none")
  /\ key' = [key EXCEPT ![p] = None] /\ who' = [who EXCEPT ![p] = None]
  /\ flushing' = [flushing EXCEPT ![p] = FALSE]
  /\ logoutMu' = [logoutMu EXCEPT ![p] = FALSE]
  /\ cleared' = [cleared EXCEPT ![p] = FALSE]
  /\ lock' = IF lock = p THEN None ELSE lock

-----------------------------------------------------------------------------
(* Ownership. *)

\* AcquireContext opens the sidecar; only a writable open creates it.
Begin(p, m) ==
  /\ caller[p] = "idle" /\ runs < MaxRuns
  /\ m = "readonly" => sidecar
  /\ runs' = runs + 1 /\ sidecar' = TRUE
  /\ mode' = [mode EXCEPT ![p] = m]
  /\ Caller(p, "locking")
  /\ UNCHANGED <<lock, sessionFile, cache, snapshot, remote, removed,
                 runner, key, who, flushing, logoutMu, cleared>>

\* The lock is ours: a read-only client takes its copy of the session, the
\* writable ones open the cache (login and me use none), and Run starts.
Acquire(p) ==
  /\ caller[p] = "locking" /\ lock = None
  /\ mode[p] = "readonly" => sessionFile # None
  /\ lock' = p
  /\ key' = [key EXCEPT ![p] = IF Writable(p) THEN None ELSE sessionFile]
  /\ cache' = IF mode[p] \in {"command", "logout"} THEN Opened(cache) ELSE cache
  /\ IF mode[p] \in Copying THEN Caller(p, "copying") /\ UNCHANGED runner
     ELSE Caller(p, "starting") /\ Runner(p, "connecting")
  /\ UNCHANGED <<sidecar, sessionFile, snapshot, remote, removed, runs,
                 mode, who, flushing, logoutMu, cleared>>

\* The wait is over, the context is done, the cache does not open, or the
\* session a read-only client would copy is not there: nothing is kept.
GiveUp(p) ==
  /\ caller[p] = "locking"
  /\ Forget(p)
  /\ UNCHANGED <<files, remote, removed, runs>>

-----------------------------------------------------------------------------
(* The runner: gotd's Run and the callback newClient or Login gives it. *)

\* A new key is one that was never used; which one tells nothing.
UnusedKeys == {k \in Keys : remote[k] = "unused"}
NewKey     == CHOOSE k \in UnusedKeys : TRUE

\* Run loads the stored key, or makes a new one with the server.
Connect(p) ==
  /\ runner[p] = "connecting"
  /\ \/ key[p] # None /\ UNCHANGED <<key, remote>>
     \/ /\ key[p] = None /\ sessionFile # None
        /\ key' = [key EXCEPT ![p] = sessionFile] /\ UNCHANGED remote
     \/ /\ key[p] = None /\ sessionFile = None
        /\ UnusedKeys # {}
        /\ remote' = [remote EXCEPT ![NewKey] = "fresh"]
        /\ key' = [key EXCEPT ![p] = NewKey]
  /\ Runner(p, "checking")
  /\ UNCHANGED <<lock, files, removed, runs,
                 mode, caller, who, flushing, logoutMu, cleared>>

\* Mutant of StoreBegins: cleared is not looked at.
StoreRegardless(p) ==
  /\ runner[p] \in {"checking", "authorized", "serving"}
  /\ Writable(p) /\ ~flushing[p]
  /\ flushing' = [flushing EXCEPT ![p] = TRUE]
  /\ UNCHANGED <<lock, files, remote, removed, runs,
                 mode, caller, runner, key, who, logoutMu, cleared>>

\* StoreSession, up to the temporary file: any time until Run's context ends.
StoreBegins(p) ==
  /\ runner[p] \in {"checking", "authorized", "serving"}
  /\ Writable(p) /\ ~flushing[p] /\ ~cleared[p]
  /\ flushing' = [flushing EXCEPT ![p] = TRUE]
  /\ UNCHANGED <<lock, files, remote, removed, runs,
                 mode, caller, runner, key, who, logoutMu, cleared>>

\* It publishes by a rename, or fails and leaves the previous session.
StoreEnds(p) ==
  /\ flushing[p]
  /\ flushing' = [flushing EXCEPT ![p] = FALSE]
  /\ sessionFile' \in {sessionFile, key[p]}
  /\ UNCHANGED <<lock, sidecar, cache, snapshot, remote, removed, runs,
                 mode, caller, runner, key, who, logoutMu, cleared>>

\* Login authorizes the key unless it already is.
Authorize(p, u) ==
  /\ runner[p] = "checking" /\ mode[p] = "login"
  /\ IF remote[key[p]] \in Users THEN u = remote[key[p]] ELSE TRUE
  /\ remote' = [remote EXCEPT ![key[p]] = u]
  /\ who' = [who EXCEPT ![p] = u]
  /\ Runner(p, "authorized")
  /\ UNCHANGED <<lock, files, removed, runs,
                 mode, caller, key, flushing, logoutMu, cleared>>

LoggedIn(p) ==
  /\ runner[p] = "authorized" /\ mode[p] = "login"
  /\ Runner(p, "unwinding") /\ Caller(p, "leaving")
  /\ UNCHANGED <<lock, files, remote, removed, runs,
                 mode, key, who, flushing, logoutMu, cleared>>

\* Auth().Status: an unauthorized key is reported through ready, and
\* startClientRun returns while the runner is still unwinding.
Status(p) ==
  /\ runner[p] = "checking" /\ mode[p] # "login"
  /\ IF remote[key[p]] \in Users
     THEN /\ who' = [who EXCEPT ![p] = remote[key[p]]]
          /\ Runner(p, "authorized") /\ UNCHANGED caller
     ELSE /\ Runner(p, "unwinding") /\ Caller(p, "failed") /\ UNCHANGED who
  /\ UNCHANGED <<lock, files, remote, removed, runs,
                 mode, key, flushing, logoutMu, cleared>>

\* The user a client with a cache runs as becomes, or must be, its owner.
Bind(p) ==
  /\ runner[p] = "authorized" /\ mode[p] \in {"command", "logout"}
  /\ cache.owner \in {None, who[p]}
  /\ cache' = [cache EXCEPT !.owner = who[p]]
  /\ Runner(p, "serving") /\ Caller(p, "serving")
  /\ UNCHANGED <<lock, sidecar, sessionFile, snapshot, remote, removed, runs,
                 mode, key, who, flushing, logoutMu, cleared>>

\* A client without a cache is ready at once; NewReadonly then compares.
Ready(p) ==
  /\ runner[p] = "authorized" /\ mode[p] \in {"me", "readonly"}
  /\ IF mode[p] = "readonly" /\ cache.exists /\ cache.owner # who[p]
     THEN Caller(p, "closing") /\ Runner(p, "unwinding")
     ELSE Caller(p, "serving") /\ Runner(p, "serving")
  /\ UNCHANGED <<lock, files, remote, removed, runs,
                 mode, key, who, flushing, logoutMu, cleared>>

\* The connection fails, the identity differs, or the caller has cancelled.
Unwind(p) ==
  /\ runner[p] \in {"connecting", "checking", "authorized", "serving"}
  /\ Runner(p, "unwinding")
  /\ UNCHANGED <<lock, files, remote, removed, runs,
                 mode, caller, key, who, flushing, logoutMu, cleared>>

\* Mutant of Release: the release does not wait for a Logout that is finishing.
ReleaseDuringLogout(p) ==
  /\ runner[p] = "unwinding" /\ ~flushing[p]
  /\ Runner(p, "over") /\ lock' = None
  /\ UNCHANGED <<files, remote, removed, runs,
                 mode, caller, key, who, flushing, logoutMu, cleared>>

\* Run has returned, with every store it began: the deferred release waits
\* for a Logout that is finishing.
Release(p) ==
  /\ runner[p] = "unwinding" /\ ~flushing[p] /\ ~logoutMu[p]
  /\ Runner(p, "over") /\ lock' = None
  /\ UNCHANGED <<files, remote, removed, runs,
                 mode, caller, key, who, flushing, logoutMu, cleared>>

-----------------------------------------------------------------------------
(* The caller. *)

\* Rows the command, or the updates it receives, write to the cache.
CacheWrite(p) ==
  /\ caller[p] = "serving" /\ mode[p] = "command"
  /\ cache' = [cache EXCEPT !.rows = @ \cup {who[p]}]
  /\ UNCHANGED <<lock, sidecar, sessionFile, snapshot, remote, removed, runs, process>>

\* The command is done, or never gets to its logout.
Close(p) ==
  /\ caller[p] \in {"serving", "logged out"}
  /\ Caller(p, IF mode[p] = "me" THEN "leaving" ELSE "closing")
  /\ runner' = [runner EXCEPT ![p] = IF @ = "over" THEN @ ELSE "unwinding"]
  /\ UNCHANGED <<lock, files, remote, removed, runs,
                 mode, key, who, flushing, logoutMu, cleared>>

\* startClientRun stops waiting when the context of the command is done.
Abandon(p) ==
  /\ caller[p] = "starting" /\ mode[p] # "login" /\ runner[p] # "over"
  /\ Caller(p, "failed") /\ Runner(p, "unwinding")
  /\ UNCHANGED <<lock, files, remote, removed, runs,
                 mode, key, who, flushing, logoutMu, cleared>>

\* Close, a startup that failed before ready, and Login wait for the runner.
Stopped(p) ==
  /\ runner[p] = "over" /\ caller[p] \in {"starting", "closing", "leaving"}
  /\ Caller(p, IF caller[p] = "leaving" THEN "caching" ELSE "ended")
  /\ UNCHANGED <<lock, files, remote, removed, runs,
                 mode, runner, key, who, flushing, logoutMu, cleared>>

\* login and me write the profile they fetched after they gave up the
\* session, and never look at the user the cache is bound to.
WriteMe(p) ==
  /\ caller[p] = "caching"
  /\ cache' \in {cache, [Opened(cache) EXCEPT !.me = who[p]]}
  /\ Forget(p)
  /\ UNCHANGED <<sidecar, sessionFile, snapshot, remote, removed, runs>>

Logout(p) ==
  /\ caller[p] = "serving" /\ mode[p] = "logout"
  /\ logoutMu' = [logoutMu EXCEPT ![p] = TRUE]
  /\ Caller(p, "revoking")
  /\ UNCHANGED <<lock, files, remote, removed, runs,
                 mode, runner, key, who, flushing, cleared>>

\* The server carries AuthLogOut out; it may end the transport at once.
Revoked(p) ==
  /\ caller[p] = "revoking" /\ runner[p] = "serving"
  /\ remote' = [remote EXCEPT ![key[p]] = "revoked"]
  /\ Caller(p, "revoked")
  /\ UNCHANGED <<lock, files, removed, runs,
                 mode, runner, key, who, flushing, logoutMu, cleared>>

\* Mutant of LogoutFails: a logout that fails leaves logoutMu locked.
LogoutFailsLocked(p) ==
  /\ caller[p] \in {"revoking", "revoked"}
  /\ Caller(p, "logged out")
  /\ UNCHANGED <<lock, files, remote, removed, runs, logoutMu,
                 mode, runner, key, who, flushing, cleared>>

\* AuthLogOut returns an error: refused, or carried out and not answered.
LogoutFails(p) ==
  /\ caller[p] \in {"revoking", "revoked"}
  /\ Caller(p, "logged out") /\ logoutMu' = [logoutMu EXCEPT ![p] = FALSE]
  /\ UNCHANGED <<lock, files, remote, removed, runs,
                 mode, runner, key, who, flushing, cleared>>

\* Confirmed: Clear waits for a store in progress, forbids later ones and
\* removes the file; a removal that fails is a committed write, reported.
Clear(p) ==
  /\ caller[p] = "revoked" /\ ~flushing[p]
  /\ cleared' = [cleared EXCEPT ![p] = TRUE]
  /\ \/ sessionFile' = None /\ removed' = removed \cup {key[p]}
     \/ UNCHANGED <<sessionFile, removed>>
  /\ Caller(p, "logged out") /\ logoutMu' = [logoutMu EXCEPT ![p] = FALSE]
  /\ UNCHANGED <<lock, sidecar, cache, snapshot, remote, runs,
                 mode, runner, key, who, flushing>>

-----------------------------------------------------------------------------
(* db-backup and db-restore, under the same lock. *)

Source(p) == IF mode[p] = "backup" THEN cache ELSE snapshot
Target(p) == IF mode[p] = "backup" THEN snapshot ELSE cache

\* VACUUM INTO a private stage, published by a hard link, which refuses a
\* destination that exists.
Publish(p, copy) ==
  /\ caller[p] = "copying" /\ ~Target(p).exists
  /\ IF mode[p] = "backup" THEN snapshot' = copy /\ UNCHANGED cache
                           ELSE cache' = copy /\ UNCHANGED snapshot
  /\ Forget(p)
  /\ UNCHANGED <<sidecar, sessionFile, remote, removed, runs>>

CopyDatabase(p) == Source(p).exists /\ Publish(p, Source(p))

CopyFails(p) ==
  /\ caller[p] = "copying"
  /\ Forget(p)
  /\ UNCHANGED <<files, remote, removed, runs>>

-----------------------------------------------------------------------------
(* The end of a process, by itself or not. *)

\* A command that returned exits; a reader server goes on in one process
\* and waits for its runner (exiting earlier is the same as a crash).
Exit(p) ==
  /\ caller[p] \in {"ended", "failed"} /\ runner[p] = "over"
  /\ Forget(p)
  /\ UNCHANGED <<files, remote, removed, runs>>

\* flock is released with the process; a file being stored is not published.
Crash(p) ==
  /\ caller[p] # "idle"
  /\ Forget(p)
  /\ UNCHANGED <<files, remote, removed, runs>>

RunnerStep(p) ==
  \/ Connect(p) \/ StoreEnds(p) \/ Status(p) \/ Bind(p) \/ Ready(p)
  \/ Unwind(p) \/ Release(p) \/ LoggedIn(p) \/ \E u \in Users : Authorize(p, u)

CallerStep(p) ==
  \/ Acquire(p) \/ GiveUp(p) \/ CacheWrite(p) \/ Close(p) \/ Abandon(p)
  \/ Stopped(p) \/ WriteMe(p) \/ Logout(p) \/ Revoked(p) \/ LogoutFails(p)
  \/ Clear(p) \/ CopyDatabase(p) \/ CopyFails(p) \/ Exit(p)

Next ==
  \E p \in Clients :
       \/ \E m \in Modes : Begin(p, m)
       \/ RunnerStep(p) \/ CallerStep(p) \/ StoreBegins(p) \/ Crash(p)

\* A transport whose context is cancelled returns, a call it carries returns
\* with it, and a deferred unlock is reached.  Nothing forces a command that
\* is being served to end, and nothing is assumed of the network or the user.
Fairness ==
  \A p \in Clients :
    /\ WF_vars(StoreEnds(p)) /\ WF_vars(Release(p))
    /\ WF_vars(runner[p] = "unwinding" /\ (LogoutFails(p) \/ Clear(p)))

Spec == Init /\ [][Next]_vars /\ Fairness

-----------------------------------------------------------------------------
(* Properties. *)

TypeOK ==
  /\ lock \in Clients \cup {None} /\ sidecar \in BOOLEAN
  /\ sessionFile \in Keys \cup {None}
  /\ {cache, snapshot} \subseteq
       [exists : BOOLEAN, owner : Users \cup {None}, rows : SUBSET Users,
        me : Users \cup {None}]
  /\ remote \in [Keys -> Users \cup {"unused", "fresh", "revoked"}]
  /\ removed \subseteq Keys
  /\ mode \in [Clients -> Modes]
  /\ caller \in [Clients -> {"idle", "locking", "starting", "serving", "copying",
                             "revoking", "revoked", "logged out", "closing",
                             "leaving", "caching", "ended", "failed"}]
  /\ runner \in [Clients -> {"none", "connecting", "checking", "authorized",
                             "serving", "unwinding", "over"}]
  /\ key \in [Clients -> Keys \cup {None}] /\ who \in [Clients -> Users \cup {None}]
  /\ flushing \in [Clients -> BOOLEAN] /\ logoutMu \in [Clients -> BOOLEAN]
  /\ cleared \in [Clients -> BOOLEAN]
  /\ runs \in 0..MaxRuns

\* A live transport owns the session: until Run has returned no other process
\* gets the lock, also when the startup has already failed for the caller.
TransportOwnsSession ==
  \A p \in Clients : runner[p] \notin {"none", "over"} => lock = p

\* A client that was closed has given the session back when Close returns.
ClosedMeansReleased ==
  \A p \in Clients : caller[p] \in {"ended", "caching"} => lock # p

\* A key whose logout reported its session file removed never comes back
\* into the file: no late store of the revoked session resurrects it.
LogoutSticks == sessionFile \notin removed

\* The cache holds rows of the user it is bound to and of nobody else,
\* whatever sessions were logged in over it.
RowsOfOwner == cache.rows \subseteq {cache.owner}

\* The session file is only ever removed once the server confirmed that the
\* key in it is revoked: a login that follows keeps its new credential.
OnlyRevokedIsRemoved ==
  [][sessionFile # None /\ sessionFile' = None => remote[sessionFile] = "revoked"]_vars

\* A cache once bound stays bound to that user; a restore replaces nothing.
OwnerIsForever ==
  [][cache.owner # None => cache'.owner = cache.owner]_vars

\* A client that is closing, or failed to start, ends its ownership.
LockComesBack ==
  \A p \in Clients : (caller[p] \in {"closing", "failed"}) ~> (lock # p)

\* One process at a time has the account, as long as its transport lives; a session
\* that was logged out stays so, and the cache stays one user's.
SessionSafe ==
  /\ TypeOK
  /\ TransportOwnsSession
  /\ ClosedMeansReleased
  /\ LogoutSticks
  /\ RowsOfOwner

=============================================================================
