-------------------------- MODULE MediaDestination --------------------------
(***************************************************************************)
(* The publication of a downloaded file: media.Destination                 *)
(* (internal/media/download.go, download_fs_unix.go) as DownloadMedia      *)
(* (internal/client/media_download.go) drives it.  Several downloads aim   *)
(* at one final name of one directory, each from a process of its own, and *)
(* another program of the same user may replace or remove the public names *)
(* (the final name and the part names) at any moment; the random private   *)
(* names are touched by their own download only, as the comment of         *)
(* quarantineRemove assumes.  One action is one system call on a public    *)
(* name, with the reads of private names that follow it.                   *)
(* A file is its inode; an inode number is not used a second time.         *)
(***************************************************************************)
EXTENDS Naturals, Sequences, FiniteSets

CONSTANTS Downloads,   \* the concurrent downloads, one process each
          MaxOther     \* bound: what the other program does

ASSUME DestinationAssumption == MaxOther \in Nat

VARIABLES files,    \* every file ever created: owner, kind, whole, synced
          dir,      \* the download directory: name -> file
          at,       \* where each download stands
          over,     \* --overwrite
          target,   \* targetSnapshot: the file to replace, accepted at open
          part,     \* partID: the file the download writes
          dirty,    \* ErrCleanupIncomplete was met
          met,      \* the kind of file met at the final name on a collision
          pub,      \* published
          ident,    \* publishedID, or the identity of the collision
          outcome,  \* what DownloadMedia returns
          removed,  \* <<download, file>>: the unlink calls of the downloads
          other     \* steps of the other program

vars == <<files, dir, at, over, target, part, dirty, met, pub, ident, outcome,
          removed, other>>

NoFile == 0
Final  == <<"final">>
Part(d)  == <<"part", d>>       \* .name.<random>.part
Priv(d)  == <<"private", d>>    \* .tgctl-quarantine-<random>, publishing
Quar(d)  == <<"quarantine", d>> \* .tgctl-quarantine-<random>, aborting
NamesOf(d) == {Part(d), Priv(d), Quar(d)}
Names == {Final} \cup UNION {NamesOf(d) : d \in Downloads}

Kinds    == {"regular", "special"}
File(o, k) == [owner |-> o, kind |-> k, whole |-> FALSE, synced |-> FALSE]
FileIds  == 1..Len(files)
Regular(f) == f # NoFile /\ files[f].kind = "regular"
Places == {"start", "create", "write", "sync", "target", "validate", "capture",
           "uncapture", "publish", "collide", "verify", "identify", "dispose",
           "rollback", "restore", "finish", "abort", "unlink", "reinstate",
           "end", "crashed"}
Outcomes == {"none", "downloaded", "skipped", "failed", "committed"}

\* A file of the user's may lie under the final name already.
Init ==
  /\ \E fs \in {<< >>, <<File("user", "regular")>>} :
       /\ files = fs
       /\ dir = [n \in Names |-> IF n = Final THEN Len(fs) ELSE NoFile]
  /\ at = [d \in Downloads |-> "start"]
  /\ over \in [Downloads -> BOOLEAN]
  /\ target = [d \in Downloads |-> NoFile]
  /\ part = [d \in Downloads |-> NoFile]
  /\ dirty = [d \in Downloads |-> FALSE]
  /\ met = [d \in Downloads |-> "none"]
  /\ pub = [d \in Downloads |-> FALSE]
  /\ ident = [d \in Downloads |-> NoFile]
  /\ outcome = [d \in Downloads |-> "none"]
  /\ removed = {}
  /\ other = 0

Go(d, p) == at' = [at EXCEPT ![d] = p]
Fail(d)  == dirty' = [dirty EXCEPT ![d] = TRUE]
Moved(from, to) == [dir EXCEPT ![to] = dir[from], ![from] = NoFile]
Exchanged(a, b) == [dir EXCEPT ![a] = dir[b], ![b] = dir[a]]

Fixed == UNCHANGED <<over, other>>

-----------------------------------------------------------------------------
(* Opening: OpenDestination.  validateFinalTarget looks at the final name:  *)
(* an existing file is a collision without --overwrite and the accepted     *)
(* target with it; what is no regular file is refused.                      *)
Inspect(d) ==
  LET f == dir[Final] IN
  /\ at[d] = "start"
  /\ \/ /\ f = NoFile \/ (Regular(f) /\ over[d])
        /\ target' = [target EXCEPT ![d] = f]
        /\ Go(d, "create")
        /\ UNCHANGED <<ident, outcome>>
     \/ /\ Regular(f) /\ ~over[d]
        /\ ident' = [ident EXCEPT ![d] = f]
        /\ outcome' = [outcome EXCEPT ![d] = "skipped"]
        /\ Go(d, "end")
        /\ UNCHANGED target
     \/ /\ f # NoFile /\ ~Regular(f)
        /\ outcome' = [outcome EXCEPT ![d] = "failed"]
        /\ Go(d, "end")
        /\ UNCHANGED <<target, ident>>
  /\ UNCHANGED <<files, dir, part, dirty, met, pub, removed>> /\ Fixed

\* probeAtomicCapabilities finds the rename primitives missing.
Unsupported(d) ==
  /\ at[d] = "create"
  /\ outcome' = [outcome EXCEPT ![d] = "failed"]
  /\ Go(d, "end")
  /\ UNCHANGED <<files, dir, target, part, dirty, met, pub, ident, removed>>
  /\ Fixed

\* createPartFile: exclusive, under a random name.
CreatePart(d) ==
  /\ at[d] = "create"
  /\ files' = Append(files, File(d, "regular"))
  /\ dir' = [dir EXCEPT ![Part(d)] = Len(files) + 1]
  /\ part' = [part EXCEPT ![d] = Len(files) + 1]
  /\ Go(d, "write")
  /\ UNCHANGED <<target, dirty, met, pub, ident, outcome, removed>> /\ Fixed

\* The transfer, through the open file and the LimitWriter: it counts only
\* when every authoritative byte came and no context ended.
Transfer(d) ==
  /\ at[d] = "write"
  /\ \E ok \in BOOLEAN :
       /\ files' = [files EXCEPT ![part[d]].whole = ok]
       /\ Go(d, IF ok THEN "sync" ELSE "abort")
  /\ UNCHANGED <<dir, target, part, dirty, met, pub, ident, outcome, removed>>
  /\ Fixed

-----------------------------------------------------------------------------
(* Commit: sync and close the part, then publish it.                        *)
SyncPart(d) ==
  /\ at[d] = "sync"
  /\ files' = [files EXCEPT ![part[d]].synced = TRUE]
  /\ Go(d, IF over[d] THEN "target" ELSE "validate")
  /\ UNCHANGED <<dir, target, part, dirty, met, pub, ident, outcome, removed>>
  /\ Fixed

\* Chmod or Sync fails; a Close that fails is an incomplete cleanup as well.
SyncFails(d) ==
  /\ at[d] = "sync"
  /\ \E closing \in BOOLEAN : dirty' = [dirty EXCEPT ![d] = closing]
  /\ Go(d, "abort")
  /\ UNCHANGED <<files, dir, target, part, met, pub, ident, outcome, removed>>
  /\ Fixed

\* validateTargetUnchanged, before an overwrite.
ValidateTarget(d) ==
  /\ at[d] = "target"
  /\ Go(d, IF dir[Final] = target[d] THEN "validate" ELSE "abort")
  /\ UNCHANGED <<files, dir, target, part, dirty, met, pub, ident, outcome,
                 removed>> /\ Fixed

\* validatePartEntry: the part name still holds the file written.
ValidatePart(d) ==
  /\ at[d] = "validate"
  /\ Go(d, IF dir[Part(d)] = part[d] THEN "capture" ELSE "abort")
  /\ UNCHANGED <<files, dir, target, part, dirty, met, pub, ident, outcome,
                 removed>> /\ Fixed

\* captureNamedRegular: move the part to a private name, then look at what
\* was moved.
Capture(d) ==
  LET f == dir[Part(d)] IN
  /\ at[d] = "capture"
  /\ dir' = Moved(Part(d), Priv(d))
  /\ \/ f = NoFile /\ Go(d, "abort")
     \/ f = part[d] /\ f # NoFile /\ Go(d, "publish")
     \/ f \notin {part[d], NoFile} /\ Go(d, "uncapture")
  /\ UNCHANGED <<files, target, part, dirty, met, pub, ident, outcome, removed>>
  /\ Fixed

\* A foreign file was captured: it goes back, if its name is still free.
Uncapture(d) ==
  /\ at[d] = "uncapture"
  /\ \/ /\ dir[Part(d)] = NoFile
        /\ dir' = Moved(Priv(d), Part(d))
        /\ UNCHANGED dirty
     \/ /\ dir[Part(d)] # NoFile
        /\ Fail(d)
        /\ UNCHANGED dir
  /\ Go(d, "abort")
  /\ UNCHANGED <<files, target, part, met, pub, ident, outcome, removed>>
  /\ Fixed

\* The captured part cannot be opened: it stays under its private name.
ProbeFails(d) ==
  /\ at[d] = "publish"
  /\ Go(d, "abort")
  /\ UNCHANGED <<files, dir, target, part, dirty, met, pub, ident, outcome,
                 removed>> /\ Fixed

Exchanges(d) == over[d] /\ target[d] # NoFile

\* publishAbsent: one rename that replaces nothing.
PublishAbsent(d) ==
  /\ at[d] = "publish" /\ ~Exchanges(d)
  /\ \/ /\ dir[Final] = NoFile
        /\ dir' = Moved(Priv(d), Final)
        /\ Go(d, "verify")
     \/ /\ dir[Final] # NoFile
        /\ Go(d, "collide")
        /\ UNCHANGED dir
  /\ UNCHANGED <<files, target, part, dirty, met, pub, ident, outcome, removed>>
  /\ Fixed

\* inspectDestinationCollision: what lies under the final name now.
Collide(d) ==
  LET f == dir[Final] IN
  /\ at[d] = "collide"
  /\ met' = [met EXCEPT ![d] = IF f = NoFile THEN "none" ELSE files[f].kind]
  /\ ident' = [ident EXCEPT ![d] = f]
  /\ Go(d, "restore")
  /\ UNCHANGED <<files, dir, target, part, dirty, pub, outcome, removed>>
  /\ Fixed

\* publishOverwrite: one exchange of the two names.
Exchange(d) ==
  /\ at[d] = "publish" /\ Exchanges(d)
  /\ \/ /\ dir[Final] # NoFile
        /\ dir' = Exchanged(Priv(d), Final)
        /\ Go(d, "verify")
     \/ /\ dir[Final] = NoFile
        /\ Go(d, "restore")
        /\ UNCHANGED dir
  /\ UNCHANGED <<files, target, part, dirty, met, pub, ident, outcome, removed>>
  /\ Fixed

\* What follows a final name found changed: the exchange is undone, the
\* rename of an absent target stays and is reported.
Changed(d) ==
  IF Exchanges(d)
  THEN Go(d, "rollback") /\ UNCHANGED dirty
  ELSE Go(d, "finish") /\ Fail(d)

\* validatePublishedEntry: the final name holds the file written.
Verify(d) ==
  /\ at[d] = "verify"
  /\ \/ dir[Final] = part[d] /\ Go(d, "identify") /\ UNCHANGED dirty
     \/ dir[Final] # part[d] /\ Changed(d)
  /\ UNCHANGED <<files, dir, target, part, met, pub, ident, outcome, removed>>
  /\ Fixed

\* Mutant of Identify: the displaced file is not compared with the target.
IdentifyNoCompare(d) ==
  /\ at[d] = "identify"
  /\ Regular(dir[Final])
  /\ ident' = [ident EXCEPT ![d] = dir[Final]]
  /\ Go(d, IF Exchanges(d) THEN "dispose" ELSE "finish")
  /\ UNCHANGED <<files, dir, target, part, dirty, met, pub, outcome, removed>>
  /\ Fixed

\* capturePublishedIdentity, a second look; then the displaced file is
\* compared with the accepted target.
Identify(d) ==
  /\ at[d] = "identify"
  /\ \/ /\ Regular(dir[Final])
        /\ ident' = [ident EXCEPT ![d] = dir[Final]]
        /\ \/ ~Exchanges(d) /\ Go(d, "finish")
           \/ Exchanges(d) /\ dir[Priv(d)] = target[d] /\ Go(d, "dispose")
           \/ Exchanges(d) /\ dir[Priv(d)] # target[d] /\ Go(d, "rollback")
        /\ UNCHANGED dirty
     \/ /\ ~Regular(dir[Final])
        /\ Changed(d)
        /\ UNCHANGED ident
  /\ UNCHANGED <<files, dir, target, part, met, pub, outcome, removed>>
  /\ Fixed

\* deletePrivateRegular of the displaced target; the unlink may fail.
Dispose(d) ==
  /\ at[d] = "dispose"
  /\ \/ /\ dir' = [dir EXCEPT ![Priv(d)] = NoFile]
        /\ removed' = removed \cup {<<d, dir[Priv(d)]>>}
        /\ UNCHANGED dirty
     \/ Fail(d) /\ UNCHANGED <<dir, removed>>
  /\ Go(d, "finish")
  /\ UNCHANGED <<files, target, part, met, pub, ident, outcome>> /\ Fixed

\* The exchange back.
Rollback(d) ==
  /\ at[d] = "rollback"
  /\ \/ /\ dir[Final] # NoFile
        /\ dir' = Exchanged(Priv(d), Final)
        /\ Go(d, "restore")
        /\ UNCHANGED dirty
     \/ /\ dir[Final] = NoFile
        /\ Go(d, "finish") /\ Fail(d)
        /\ UNCHANGED dir
  /\ UNCHANGED <<files, target, part, met, pub, ident, outcome, removed>>
  /\ Fixed

\* restorePrivateRegular: the part goes back to its part name.
Restore(d) ==
  /\ at[d] = "restore"
  /\ \/ /\ dir[Priv(d)] = part[d] /\ dir[Part(d)] = NoFile
        /\ dir' = Moved(Priv(d), Part(d))
        /\ UNCHANGED dirty
     \/ /\ dir[Priv(d)] # part[d] \/ dir[Part(d)] # NoFile
        /\ Fail(d)
        /\ UNCHANGED dir
  /\ Go(d, "abort")
  /\ UNCHANGED <<files, target, part, met, pub, ident, outcome, removed>>
  /\ Fixed

\* finishCommit and what DownloadMedia makes of it: an incomplete cleanup or
\* a failed sync of the directory is an error that says "committed".
Finish(d) ==
  /\ at[d] = "finish"
  /\ pub' = [pub EXCEPT ![d] = TRUE]
  /\ \E synced \in BOOLEAN :
       outcome' = [outcome EXCEPT ![d] =
         IF dirty[d] \/ ~synced THEN "committed" ELSE "downloaded"]
  /\ Go(d, "end")
  /\ UNCHANGED <<files, dir, target, part, dirty, met, ident, removed>> /\ Fixed

-----------------------------------------------------------------------------
(* Aborting: abortOpen, for Abort and failBeforeCommit alike, removes the   *)
(* part by quarantineRemove.                                                *)
Result(d, unclean) ==
  IF met[d] = "regular" /\ ~over[d] /\ ~unclean THEN "skipped" ELSE "failed"

Abort(d) ==
  LET f == dir[Part(d)] IN
  /\ at[d] = "abort"
  /\ dir' = Moved(Part(d), Quar(d))
  /\ \/ /\ f = NoFile
        /\ Fail(d)
        /\ outcome' = [outcome EXCEPT ![d] = "failed"]
        /\ Go(d, "end")
     \/ /\ f # NoFile
        /\ Go(d, IF f = part[d] THEN "unlink" ELSE "reinstate")
        /\ UNCHANGED <<dirty, outcome>>
  /\ UNCHANGED <<files, target, part, met, pub, ident, removed>> /\ Fixed

Unlink(d) ==
  /\ at[d] = "unlink"
  /\ \/ /\ dir' = [dir EXCEPT ![Quar(d)] = NoFile]
        /\ removed' = removed \cup {<<d, dir[Quar(d)]>>}
        /\ outcome' = [outcome EXCEPT ![d] = Result(d, dirty[d])]
        /\ UNCHANGED dirty
     \/ /\ Fail(d)
        /\ outcome' = [outcome EXCEPT ![d] = "failed"]
        /\ UNCHANGED <<dir, removed>>
  /\ Go(d, "end")
  /\ UNCHANGED <<files, target, part, met, pub, ident>> /\ Fixed

\* A foreign file under the part name goes back; the cleanup is incomplete.
Reinstate(d) ==
  /\ at[d] = "reinstate"
  /\ dir' = IF dir[Part(d)] = NoFile THEN Moved(Quar(d), Part(d)) ELSE dir
  /\ Fail(d)
  /\ outcome' = [outcome EXCEPT ![d] = "failed"]
  /\ Go(d, "end")
  /\ UNCHANGED <<files, target, part, met, pub, ident, removed>> /\ Fixed

\* The process dies between two steps; nothing cleans up after it.
Crash(d) ==
  /\ at[d] \notin {"start", "end", "crashed"}
  /\ Go(d, "crashed")
  /\ UNCHANGED <<files, dir, target, part, dirty, met, pub, ident, outcome,
                 removed>> /\ Fixed

-----------------------------------------------------------------------------
(* The other program, on the names it can see.                              *)
Public == {Final} \cup {Part(d) : d \in {e \in Downloads : dir[Part(e)] # NoFile}}

OtherWrites ==
  /\ other < MaxOther
  /\ \E n \in Public, k \in Kinds :
       /\ files' = Append(files, File("user", k))
       /\ dir' = [dir EXCEPT ![n] = Len(files) + 1]
  /\ other' = other + 1
  /\ UNCHANGED <<at, over, target, part, dirty, met, pub, ident, outcome, removed>>

OtherRemoves ==
  /\ other < MaxOther
  /\ \E n \in Public :
       /\ dir[n] # NoFile
       /\ dir' = [dir EXCEPT ![n] = NoFile]
  /\ other' = other + 1
  /\ UNCHANGED <<files, at, over, target, part, dirty, met, pub, ident, outcome,
                 removed>>

Step(d) ==
  \/ Inspect(d) \/ Unsupported(d) \/ CreatePart(d) \/ Transfer(d)
  \/ SyncPart(d) \/ SyncFails(d) \/ ValidateTarget(d) \/ ValidatePart(d)
  \/ Capture(d) \/ Uncapture(d) \/ ProbeFails(d) \/ PublishAbsent(d)
  \/ Collide(d) \/ Exchange(d) \/ Verify(d) \/ Identify(d) \/ Dispose(d)
  \/ Rollback(d) \/ Restore(d) \/ Finish(d)
  \/ Abort(d) \/ Unlink(d) \/ Reinstate(d)

Next == (\E d \in Downloads : Step(d) \/ Crash(d)) \/ OtherWrites \/ OtherRemoves
Spec == Init /\ [][Next]_vars

-----------------------------------------------------------------------------
Maybe == FileIds \cup {NoFile}

\* Every variable has its type.
TypeOK ==
  /\ files \in Seq([owner : Downloads \cup {"user"}, kind : Kinds,
                    whole : BOOLEAN, synced : BOOLEAN])
  /\ dir \in [Names -> Maybe]
  /\ at \in [Downloads -> Places]
  /\ over \in [Downloads -> BOOLEAN]
  /\ target \in [Downloads -> Maybe]
  /\ part \in [Downloads -> Maybe]
  /\ dirty \in [Downloads -> BOOLEAN]
  /\ met \in [Downloads -> Kinds \cup {"none"}]
  /\ pub \in [Downloads -> BOOLEAN]
  /\ ident \in [Downloads -> Maybe]
  /\ outcome \in [Downloads -> Outcomes]
  /\ removed \subseteq (Downloads \X FileIds)
  /\ other \in 0..MaxOther

\* A download unlinks only the file it wrote, or the file it accepted as the
\* target of an overwrite, whatever was put under those names meanwhile
\* (quarantineRemove, publishOverwrite).
NoForeignFileRemoved ==
  \A r \in removed :
    r[2] = part[r[1]] \/ (over[r[1]] /\ r[2] = target[r[1]])

\* The final name never shows a download in progress: a file of a download
\* found there has all its bytes and was synced first, also when its process
\* died or another download exchanged names (Commit).
FinalIsWhole ==
  LET f == dir[Final] IN
  f # NoFile /\ files[f].owner # "user" => files[f].whole /\ files[f].synced

\* A download that ended without reporting an incomplete cleanup left nothing
\* behind: no temporary name of its own, and after an abort no link to its
\* part at all (abortOpen, finishCommit).
CleanEndLeavesNothing ==
  \A d \in Downloads :
    at[d] = "end" /\ ~dirty[d] =>
      /\ \A n \in NamesOf(d) : dir[n] = NoFile
      /\ ~pub[d] /\ part[d] # NoFile => \A n \in Names : dir[n] # part[d]

\* Without --overwrite a download never displaces another one: left alone by
\* other programs, at most one publishes (publishAbsent).
OneWinner ==
  \A d, e \in Downloads :
    other = 0 /\ ~over[d] /\ ~over[e] /\ pub[d] /\ pub[e] => d = e

\* A failure is a failure: a download without --overwrite that returns one
\* without the committed mark is not what the final name shows
\* (abortDownload, CommittedMediaDownloadError).
FailureNotPublished ==
  \A d \in Downloads : outcome[d] = "failed" /\ ~over[d] => dir[Final] # part[d] \/ part[d] = NoFile

\* What a download promises about the directory: its own files whole or gone, and
\* nobody else's file touched, however publications, aborts, crashes and other
\* programs meet at the names.
PublicationSafe ==
  /\ TypeOK
  /\ NoForeignFileRemoved
  /\ FinalIsWhole
  /\ CleanEndLeavesNothing
  /\ OneWinner
  /\ FailureNotPublished

=============================================================================
