------------------------------- MODULE Folders -------------------------------
(***************************************************************************)
(* The folder commands: folder-create, -edit, -add-chat, -remove-chat and  *)
(* -delete (internal/commands/folders.go) over UpdateFolder and            *)
(* DeleteFolder (internal/client/gotd.go).  Telegram keeps the folders and *)
(* replaces a whole folder at a time, so every change is read, patched in  *)
(* memory and written back, while another client of the account changes    *)
(* the same folders.  An idempotency key is looked up before the session   *)
(* is taken and recorded after the answer.                                 *)
(***************************************************************************)
EXTENDS Naturals, FiniteSets, FiniteSetsExt

CONSTANTS Invocations,  \* commands, one process each
          FolderChats,
          FolderKeys,   \* --idempotency-key
          FolderRequests, \* what the commands may be asked
          MaxFolder,    \* bound: the largest folder id
          MaxElse       \* bound: changes by the other client

VARIABLES folders,   \* Telegram: the folders of the account
          request,   \* what each command was asked to do
          progress,  \* what each command does next
          copy,      \* the folder a command has read
          target,    \* the id it is about to write
          inSession, \* who holds the session
          recorded,  \* tg_idempotency: the keys with an envelope
          result,    \* what the command reported
          elsewhere, \* changes by the other client
          touched,   \* history: folders changed by others since a command read
          effects    \* history: how many changes each key made

folderVars == <<folders, request, progress, copy, target, inSession, recorded,
                result, elsewhere, touched, effects>>

FolderIds == 2..MaxFolder
NoFolder  == [kind |-> "absent"]
Unkeyed   == "no key"
NoOne   == "no one"
Untitled == ""
Titles  == {"mine", "yours"}

\* rest stands for categories, flags, emoji and the entities of the title.
Own(title, in, out, pin, rest) ==
  [kind |-> "own", title |-> title, in |-> in, out |-> out, pin |-> pin, rest |-> rest]
SharedFolder == [kind |-> "shared"]
IsOwn(f) == f.kind = "own"

Ops == {"create", "edit", "member", "delete"}
FolderRequest == [op : Ops, id : FolderIds \cup {0}, title : {"mine", Untitled},
            add : SUBSET FolderChats, out : SUBSET FolderChats, drop : SUBSET FolderChats,
            key : FolderKeys \cup {Unkeyed}]
\* create names no folder; edit adds chats, and its --remove is read but not
\* passed on; a membership command adds one chat or excludes it.
Askable(r) ==
  /\ r.op = "create" <=> r.id = 0
  /\ r.op = "create" => r.title = "mine" /\ r.drop = {}
  /\ r.op = "edit" => r.out = {} /\ (r.title # Untitled \/ r.add # {} \/ r.drop # {})
  /\ r.op = "member" => /\ r.title = Untitled /\ r.drop = {}
                        /\ Cardinality(r.add) + Cardinality(r.out) = 1
  /\ r.op = "delete" => r.title = Untitled /\ r.add = {} /\ r.out = {} /\ r.drop = {}

ASSUME FoldersAssumption ==
  /\ MaxFolder \in Nat \ {0, 1} /\ MaxElse \in Nat
  /\ FolderRequests \subseteq {r \in FolderRequest : Askable(r)}

Idle == [op |-> "none", id |-> 0, title |-> Untitled, add |-> {}, out |-> {},
              drop |-> {}, key |-> Unkeyed]

FoldersInit ==
  /\ \E f \in {NoFolder, SharedFolder} \cup
              {Own("yours", {c}, {}, {c}, "rich") : c \in FolderChats} :
       folders = [i \in FolderIds |-> IF i = 2 THEN f ELSE NoFolder]
  /\ request = [p \in Invocations |-> Idle]
  /\ progress = [p \in Invocations |-> "start"]
  /\ copy = [p \in Invocations |-> NoFolder]
  /\ target = [p \in Invocations |-> 0]
  /\ inSession = NoOne /\ recorded = {}
  /\ result = [p \in Invocations |-> "none"]
  /\ elsewhere = 0
  /\ touched = [p \in Invocations |-> {}]
  /\ effects = [k \in FolderKeys |-> 0]

EndCommand(p, r) ==
  /\ result' = [result EXCEPT ![p] = r]
  /\ progress' = [progress EXCEPT ![p] = "end"]
  /\ inSession' = IF inSession = p THEN NoOne ELSE inSession

-----------------------------------------------------------------------------
(* The other client of the account.                                         *)

Changed(i) == touched' = [p \in Invocations |-> touched[p] \cup {i}]

OtherClient ==
  \E i \in FolderIds, f \in {NoFolder, SharedFolder} \cup
       {Own("yours", in, {}, {}, "rich") : in \in SUBSET FolderChats} :
    /\ elsewhere < MaxElse /\ f # folders[i]
    /\ folders' = [folders EXCEPT ![i] = f]
    /\ elsewhere' = elsewhere + 1
    /\ Changed(i)
    /\ UNCHANGED <<request, progress, copy, target, inSession, recorded, result, effects>>

-----------------------------------------------------------------------------
(* A command.                                                               *)

\* runFolderWrite looks the key up before anything else; what it finds is
\* returned as a replay, whatever the arguments were.
LookupKey(p) ==
  /\ progress[p] = "start"
  /\ \E r \in FolderRequests :
       /\ request' = [request EXCEPT ![p] = r]
       /\ IF r.key \in recorded
            THEN EndCommand(p, "replayed")
            ELSE /\ progress' = [progress EXCEPT ![p] = "connect"]
                 /\ UNCHANGED <<result, inSession>>
  /\ UNCHANGED <<folders, copy, target, recorded, elsewhere, touched, effects>>

\* The client takes the session.  Of the commands only create lists first.
TakeSession(p) ==
  /\ progress[p] = "connect" /\ inSession = NoOne
  /\ inSession' = p
  /\ target' = [target EXCEPT ![p] = request[p].id]
  /\ progress' = [progress EXCEPT ![p] =
       IF request[p].op = "create" THEN "list"
       ELSE IF request[p].op = "delete" THEN "write" ELSE "read"]
  /\ touched' = [touched EXCEPT ![p] = {}]
  /\ UNCHANGED <<folders, request, copy, recorded, result, elsewhere, effects>>

NextFolderID == 1 + Max({1} \cup {i \in FolderIds : folders[i] # NoFolder})

\* folder-create takes the id after the largest it lists.
List(p) ==
  /\ progress[p] = "list"
  /\ NextFolderID \in FolderIds
  /\ target' = [target EXCEPT ![p] = NextFolderID]
  /\ touched' = [touched EXCEPT ![p] = {}]
  /\ progress' = [progress EXCEPT ![p] = "read"]
  /\ UNCHANGED <<folders, request, copy, inSession, recorded, result, elsewhere, effects>>

\* UpdateFolder reads the folders again and copies the one with its id; a
\* shared folder is refused, and a missing one starts empty.
ReadFolder(p) ==
  /\ progress[p] = "read"
  /\ IF folders[target[p]] = SharedFolder
       THEN EndCommand(p, "failed") /\ UNCHANGED <<copy, touched>>
       ELSE /\ copy' = [copy EXCEPT ![p] = folders[target[p]]]
            /\ touched' = [touched EXCEPT ![p] = IF request[p].op = "create" THEN @ ELSE {}]
            /\ progress' = [progress EXCEPT ![p] = "write"]
            /\ UNCHANGED <<result, inSession>>
  /\ UNCHANGED <<folders, request, target, recorded, elsewhere, effects>>

\* An included chat leaves the exclusions, an excluded one the inclusions and
\* the pinned chats; the exclusions are applied last.
PatchPeers(f, r) ==
  [f EXCEPT !.in = (@ \cup r.add) \ r.out, !.pin = @ \ r.out,
            !.out = (@ \ r.add) \cup r.out]

\* Mistake in Filter: the folder is built from the request
FilterFromRequest(p) ==
  Own(request[p].title, request[p].add \ request[p].out, request[p].out, {}, "plain")

\* What UpdateFolder writes: the copy it read, or an empty folder, with the
\* title and the chats of the request.
Filter(p) ==
  LET r == request[p]
      base == IF IsOwn(copy[p]) THEN copy[p] ELSE Own(r.title, {}, {}, {}, "plain")
      named == IF r.title = Untitled THEN base ELSE [base EXCEPT !.title = r.title]
  IN PatchPeers(named, r)

Written(p) == IF request[p].op = "delete" THEN NoFolder ELSE Filter(p)

\* Telegram replaces the folder.  The answer arrives, or the command ends with
\* an unknown outcome.
Write(p) ==
  /\ progress[p] = "write"
  /\ folders' = [folders EXCEPT ![target[p]] = Written(p)]
  /\ touched' = [q \in Invocations |->
                   IF q = p THEN touched[q] ELSE touched[q] \cup {target[p]}]
  /\ effects' = IF request[p].key = Unkeyed THEN effects
                ELSE [effects EXCEPT ![request[p].key] = @ + 1]
  /\ \/ /\ progress' = [progress EXCEPT ![p] = "record"]
        /\ UNCHANGED <<result, inSession>>
     \/ EndCommand(p, "unknown")
  /\ UNCHANGED <<request, copy, target, recorded, elsewhere>>

\* A request fails before Telegram changed anything, a chat has no cached
\* access hash, or Telegram refuses the folder.
Fail(p) ==
  /\ progress[p] \in {"connect", "list", "read", "write"}
  /\ EndCommand(p, "failed")
  /\ UNCHANGED <<folders, request, copy, target, recorded, elsewhere, touched, effects>>

\* Mistake in StoreEnvelope: the envelope is stored when the write is sent
StoreEarly(p) ==
  /\ progress[p] \in {"write", "record"}
  /\ recorded' = recorded \cup ({request[p].key} \ {Unkeyed})
  /\ IF progress[p] = "record" THEN EndCommand(p, "done")
                               ELSE UNCHANGED <<result, progress, inSession>>
  /\ UNCHANGED <<folders, request, copy, target, elsewhere, touched, effects>>

\* The envelope is stored under the key, before the session is released.
StoreEnvelope(p) ==
  /\ progress[p] = "record"
  /\ recorded' = recorded \cup ({request[p].key} \ {Unkeyed})
  /\ EndCommand(p, "done")
  /\ UNCHANGED <<folders, request, copy, target, elsewhere, touched, effects>>

\* Storing the envelope fails, after Telegram has accepted the change; or the
\* process dies.
StoreFails(p) ==
  /\ progress[p] = "record"
  /\ EndCommand(p, "failed")
  /\ UNCHANGED <<folders, request, copy, target, recorded, elsewhere, touched, effects>>

CommandDies(p) ==
  /\ progress[p] \notin {"start", "end"}
  /\ EndCommand(p, "died")
  /\ UNCHANGED <<folders, request, copy, target, recorded, elsewhere, touched, effects>>

FolderStep(p) ==
  \/ LookupKey(p) \/ TakeSession(p) \/ List(p) \/ ReadFolder(p) \/ Write(p) \/ Fail(p)
  \/ StoreEnvelope(p) \/ StoreFails(p) \/ CommandDies(p)

FoldersNext == OtherClient \/ \E p \in Invocations : FolderStep(p)
FoldersSpec == FoldersInit /\ [][FoldersNext]_folderVars

-----------------------------------------------------------------------------
(* Properties.                                                              *)

\* The variables hold values of their types, the holder of the session is at
\* work, and a folder is absent, shared or an own one with all its parts.
FoldersTypeOK ==
  /\ \A i \in FolderIds : folders[i] \in {NoFolder, SharedFolder} \/
       folders[i] \in [kind : {"own"}, title : Titles \cup {Untitled}, in : SUBSET FolderChats,
                       out : SUBSET FolderChats, pin : SUBSET FolderChats, rest : {"plain", "rich"}]
  /\ inSession # NoOne => progress[inSession] \in {"list", "read", "write", "record"}
  /\ recorded \subseteq FolderKeys
  /\ \A p \in Invocations : result[p] # "none" <=> progress[p] = "end"

\* No folder both holds and excludes a chat, and none pins a chat it excludes,
\* however includes, exclusions and edits of the two clients follow each other.
ListsDisjoint ==
  \A i \in FolderIds : IsOwn(folders[i]) =>
    folders[i].out \cap (folders[i].in \cup folders[i].pin) = {}

\* "Folder edits patch the original filter and preserve categories, exclusions,
\* pinned peers and title entities", and "shared folders ... cannot be edited":
\* a write that replaces a folder nobody changed since it was read leaves
\* everything the request does not name.
Wrote(p) == progress[p] = "write" /\ progress'[p] # "write" /\ folders' # folders
PatchIsMinimal ==
  [][\A p \in Invocations :
       Wrote(p) /\ request[p].op # "delete" /\ target[p] \notin touched[p]
         /\ folders[target[p]] # NoFolder
       => LET old == folders[target[p]]
              new == folders'[target[p]]
              r == request[p]
          IN /\ IsOwn(old) /\ IsOwn(new)
             /\ new.rest = old.rest
             /\ new.title = (IF r.title = Untitled THEN old.title ELSE r.title)
             /\ new.pin = old.pin \ r.out
             /\ \A c \in FolderChats \ (r.add \cup r.out) :
                  (c \in new.in <=> c \in old.in) /\ (c \in new.out <=> c \in old.out)
    ]_folderVars

\* folder-create replaces no folder, unless another client took the id after
\* the folders were listed.
CreateMakesNew ==
  [][\A p \in Invocations :
       Wrote(p) /\ request[p].op = "create" /\ target[p] \notin touched[p]
       => folders[target[p]] = NoFolder]_folderVars

\* A replay stands for a change that Telegram has made under that key.
ReplayMeansEffect ==
  \A p \in Invocations : result[p] = "replayed" => effects[request[p].key] > 0

\* The folders stay well-formed and a replay stands for a change, however two
\* commands and another client of the account follow each other.
FoldersConsistent ==
  /\ FoldersTypeOK
  /\ ListsDisjoint
  /\ ReplayMeansEffect

\* A folder command writes no more than it was asked to write.
FolderWritesMinimal ==
  /\ PatchIsMinimal
  /\ CreateMakesNew

=============================================================================
