-------------------------- MODULE AccountDirectory --------------------------
(***************************************************************************)
(* One account below accounts/ and the selector accounts/.current, used by *)
(* clients, accounts-add, accounts-use and accounts-remove at once.        *)
(* Ownership is a lock on the inode of tg.session.lock, and the removal of *)
(* an account unlinks that file: AcquireContext opens the file, compares   *)
(* what it opened with what the name now denotes, and only then waits for  *)
(* the lock.  A sidecar is a number: the inode that was created as the     *)
(* n-th; 0 means that there is no such file.                               *)
(***************************************************************************)
EXTENDS Naturals, FiniteSets

CONSTANTS Processes,
          MaxSidecars     \* bound: lock files created in one behaviour

VARIABLES
  dirExists,  \* accounts/<name> exists
  named,      \* the inode named tg.session.lock
  created,    \* inodes created so far
  entries,    \* what else the directory holds
  selector,   \* .current names this account (default otherwise)
  flock,      \* the process that locked each inode
  opened,     \* the inode each process has open
  task, step, \* what a process does and where it stands
  listed,     \* accounts-remove: the entries it read and has not removed yet
  orphaned    \* history: a process got the lock of a sidecar without a name

dirVars == <<dirExists, named, created, entries, selector, flock, opened,
             task, step, listed, orphaned>>

Sidecars == 1..MaxSidecars
Entries  == {"session", "cache"}
NoOwner  == "none"

ASSUME DirectoryAssumption == NoOwner \notin Processes /\ MaxSidecars \in Nat

DirInit ==
  /\ dirExists = FALSE /\ named = 0 /\ created = 0 /\ entries = {}
  /\ selector = FALSE /\ orphaned = FALSE
  /\ flock = [i \in Sidecars |-> NoOwner]
  /\ opened = [p \in Processes |-> 0] /\ listed = [p \in Processes |-> {}]
  /\ task = [p \in Processes |-> "client"] /\ step = [p \in Processes |-> "idle"]

Step(p, s) == step' = [step EXCEPT ![p] = s]

\* Closing the descriptor gives up the lock; crashes do as well.
Finish(p) ==
  /\ Step(p, "idle")
  /\ opened' = [opened EXCEPT ![p] = 0] /\ listed' = [listed EXCEPT ![p] = {}]
  /\ flock' = [i \in Sidecars |-> IF flock[i] = p THEN NoOwner ELSE flock[i]]

\* ResolvePaths and accounts-add create the tree; add does nothing else.
Resolve(p) ==
  /\ step[p] = "idle"
  /\ dirExists' = TRUE
  /\ \/ UNCHANGED <<task, step>>
     \/ task' = [task EXCEPT ![p] = "client"] /\ Step(p, "opening")
  /\ UNCHANGED <<named, created, entries, selector, flock, opened, listed, orphaned>>

\* accounts-remove and accounts-use require the directory.
Require(p, t) ==
  /\ step[p] = "idle" /\ dirExists
  /\ task' = [task EXCEPT ![p] = t]
  /\ Step(p, IF t = "remove" THEN "opening" ELSE "selecting")
  /\ UNCHANGED <<dirExists, named, created, entries, selector, flock, opened,
                 listed, orphaned>>

Select(p) ==
  /\ step[p] = "selecting"
  /\ selector' = TRUE /\ Finish(p)
  /\ UNCHANGED <<dirExists, named, created, entries, task, orphaned>>

\* O_CREATE in a directory that must still be there.
OpenSidecar(p) ==
  /\ step[p] = "opening" /\ dirExists
  /\ IF named # 0 THEN UNCHANGED <<named, created>>
     ELSE created < MaxSidecars /\ created' = created + 1 /\ named' = created + 1
  /\ opened' = [opened EXCEPT ![p] = named']
  /\ Step(p, "comparing")
  /\ UNCHANGED <<dirExists, entries, selector, flock, task, listed, orphaned>>

\* os.SameFile(opened, named).
Compare(p) ==
  /\ step[p] = "comparing" /\ opened[p] = named
  /\ Step(p, "waiting")
  /\ UNCHANGED <<dirExists, named, created, entries, selector, flock, opened,
                 task, listed, orphaned>>

Lock(p) ==
  /\ step[p] = "waiting" /\ flock[opened[p]] = NoOwner
  /\ flock' = [flock EXCEPT ![opened[p]] = p]
  /\ orphaned' = (orphaned \/ opened[p] # named)
  /\ Step(p, IF task[p] = "client" THEN "owning" ELSE "resetting")
  /\ UNCHANGED <<dirExists, named, created, entries, selector, opened, task, listed>>

\* Busy, changed while opening, cancelled, refused by the file system, done,
\* or dead: whatever was held goes with the process.
Leave(p) ==
  /\ step[p] # "idle"
  /\ Finish(p)
  /\ UNCHANGED <<dirExists, named, created, entries, selector, task, orphaned>>

\* A client stores its session in the directory; store.Connect makes it.
WriteEntry(p, e) ==
  /\ step[p] = "owning"
  /\ e = "session" => dirExists
  /\ dirExists' = TRUE /\ entries' = entries \cup {e}
  /\ UNCHANGED <<named, created, selector, flock, opened, task, step, listed, orphaned>>

\* Current falls back to default when the directory is gone.
Reset(p) ==
  /\ step[p] = "resetting"
  /\ selector' = (selector /\ ~dirExists)
  /\ Step(p, "listing")
  /\ UNCHANGED <<dirExists, named, created, entries, flock, opened, task, listed, orphaned>>

List(p) ==
  /\ step[p] = "listing" /\ dirExists
  /\ listed' = [listed EXCEPT ![p] = entries]
  /\ Step(p, "deleting")
  /\ UNCHANGED <<dirExists, named, created, entries, selector, flock, opened,
                 task, orphaned>>

\* In the order of os.ReadDir: telegram.sqlite before tg.session.
Delete(p, e) ==
  /\ step[p] = "deleting" /\ e \in listed[p]
  /\ e = "session" => "cache" \notin listed[p]
  /\ entries' = entries \ {e}
  /\ listed' = [listed EXCEPT ![p] = @ \ {e}]
  /\ UNCHANGED <<dirExists, named, created, selector, flock, opened, task, step, orphaned>>

\* Mutant of Unlink: the sidecar goes like any other entry, session or not.
UnlinkEarly(p) ==
  /\ step[p] = "deleting" /\ named' = 0
  /\ UNCHANGED <<dirExists, created, entries, selector, flock, opened, task,
                 listed, step, orphaned>>

\* Only after all credentials and cache files; whatever the name denotes.
Unlink(p) ==
  /\ step[p] = "deleting" /\ listed[p] = {}
  /\ named' = 0
  /\ Step(p, "emptied")
  /\ UNCHANGED <<dirExists, created, entries, selector, flock, opened, task,
                 listed, orphaned>>

\* os.Remove refuses a directory that is not empty any more.
RemoveDir(p) ==
  /\ step[p] = "emptied" /\ dirExists /\ entries = {} /\ named = 0
  /\ dirExists' = FALSE
  /\ Finish(p)
  /\ UNCHANGED <<named, created, entries, selector, task, orphaned>>

DirStep(p) ==
  \/ Resolve(p) \/ Select(p) \/ OpenSidecar(p) \/ Compare(p) \/ Lock(p) \/ Leave(p)
  \/ Reset(p) \/ List(p) \/ Unlink(p) \/ RemoveDir(p)
  \/ \E t \in {"remove", "use"} : Require(p, t)
  \/ \E e \in Entries : WriteEntry(p, e) \/ Delete(p, e)

DirNext == \E p \in Processes : DirStep(p)

DirSpec == DirInit /\ [][DirNext]_dirVars

-----------------------------------------------------------------------------
(* Properties. *)

DirTypeOK ==
  /\ dirExists \in BOOLEAN /\ selector \in BOOLEAN /\ orphaned \in BOOLEAN
  /\ created \in 0..MaxSidecars /\ named \in 0..created
  /\ entries \subseteq Entries
  /\ flock \in [Sidecars -> Processes \cup {NoOwner}]
  /\ opened \in [Processes -> 0..created]
  /\ task \in [Processes -> {"client", "remove", "use"}]
  /\ step \in [Processes -> {"idle", "opening", "comparing", "waiting", "owning",
                             "selecting", "resetting", "listing", "deleting", "emptied"}]
  /\ listed \in [Processes -> SUBSET Entries]

\* Only one process at a time owns the account (docs/safety.md:186): clients
\* that hold the lock, and removals from the reset to the last credential.
Owners   == {p \in Processes : step[p] \in {"owning", "resetting", "listing", "deleting"}}
OneOwner == Cardinality(Owners) <= 1

\* The one way to two owners is a waiter whose sidecar was unlinked while it
\* waited: neither a removal in progress nor the creation of a new sidecar
\* after it lets a client in beside somebody who still deletes.
OneOwnerUnlessUnlinked == orphaned \/ OneOwner

\* accounts-remove takes the directory away only when it is empty: what a
\* client stored there after the listing is not swept away with it.
NothingSweptAway ==
  [][dirExists /\ ~dirExists' => entries = {} /\ named = 0]_dirVars

\* An account that is being removed is nobody else's, until a waiter has taken the
\* lock of the unlinked sidecar.
DirectorySafe ==
  /\ DirTypeOK
  /\ OneOwnerUnlessUnlinked

=============================================================================
