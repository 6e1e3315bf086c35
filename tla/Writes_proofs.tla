-------------------------- MODULE Writes_proofs --------------------------
(* What is true of writes under idempotency keys, for every set of requests   *)
(* and keys; of the folder commands, for every account and every sequence of  *)
(* requests; and of the local reader, whose callbacks are such writes.        *)
EXTENDS KeyedWrites, Folders, Reader, TLAPS, FiniteSetTheorems, WellFoundedInduction

-----------------------------------------------------------------------------
(* The folder commands.                                                      *)

(* A set of natural numbers that is not empty has a least element ... *)
LEMMA LeastExists ==
  ASSUME NEW S, S \subseteq Nat, S # {}
  PROVE  \E m \in S : \A n \in S : m <= n
<1> DEFINE R == OpToRel(<, Nat)
<1>1. IsWellFoundedOn(R, Nat)
  BY NatLessThanWellFounded
<1>2. PICK m \in S : \A n \in S : ~ (<<n, m>> \in R)
  <2> HIDE DEF R
  <2> QED BY <1>1, WFMin
<1>3. \A n \in S : ~(n < m)
  BY <1>2 DEF OpToRel
<1>4. QED
  BY <1>3

(* ... and if it is bounded, a greatest one, which Max finds. *)
LEMMA GreatestIsMax ==
  ASSUME NEW S, S \subseteq Nat, S # {}, NEW b \in Nat, \A n \in S : n <= b
  PROVE  Max(S) \in S /\ \A n \in S : Max(S) >= n
<1> DEFINE T == {x \in Nat : b - x \in S}
<1>1. PICK s \in S : s \in Nat /\ s <= b
  OBVIOUS
<1>2. b - s \in T
  BY <1>1
<1>3. PICK t \in T : \A u \in T : t <= u
  <2>1. T \subseteq Nat /\ T # {}
    BY <1>2
  <2> HIDE DEF T
  <2>2. QED
    BY <2>1, LeastExists
<1>4. t \in Nat /\ b - t \in S
  OBVIOUS
<1>5. ASSUME NEW n \in S PROVE b - t >= n
  <2>1. n \in Nat /\ n <= b
    OBVIOUS
  <2>2. b - n \in Nat /\ b - (b - n) = n
    BY <2>1
  <2>3. t <= b - n
    BY <1>3, <2>2
  <2>4. QED
    BY <1>4, <2>1, <2>3
<1>6. \E m \in S : \A n \in S : m >= n
  BY <1>4, <1>5
<1>7. QED
  BY <1>6 DEF Max

(* A folder that has lists of chats, and one of which no chat is in two of them. *)
OwnFolder == [kind : {"own"}, title : Titles \cup {Untitled}, in : SUBSET FolderChats,
              out : SUBSET FolderChats, pin : SUBSET FolderChats, rest : {"plain", "rich"}]
Disjoint(f) == f.out \cap (f.in \cup f.pin) = {}

(* The three kinds of folders are told apart. *)
LEMMA FolderKinds ==
  /\ NoFolder # SharedFolder /\ NoFolder \notin OwnFolder /\ SharedFolder \notin OwnFolder
  /\ ~IsOwn(NoFolder) /\ ~IsOwn(SharedFolder) /\ \A f \in OwnFolder : IsOwn(f)
BY DEF NoFolder, SharedFolder, OwnFolder, IsOwn

(* What is written is a folder of its own, whose lists are disjoint, and differs from  *)
(* the one read only in what the request names.                                        *)
LEMMA FilterPatches ==
  ASSUME NEW p, copy[p] \in {NoFolder} \cup OwnFolder, request[p] \in FolderRequest,
         IsOwn(copy[p]) => Disjoint(copy[p])
  PROVE  /\ Filter(p) \in OwnFolder /\ Disjoint(Filter(p))
         /\ copy[p] \in OwnFolder =>
              /\ Filter(p).rest = copy[p].rest
              /\ Filter(p).title = (IF request[p].title = Untitled THEN copy[p].title ELSE request[p].title)
              /\ Filter(p).pin = copy[p].pin \ request[p].out
              /\ \A c \in FolderChats \ (request[p].add \cup request[p].out) :
                   (c \in Filter(p).in <=> c \in copy[p].in) /\ (c \in Filter(p).out <=> c \in copy[p].out)
<1> DEFINE r == request[p]
           empty == Own(r.title, {}, {}, {}, "plain")
           base == IF IsOwn(copy[p]) THEN copy[p] ELSE empty
           named == IF r.title = Untitled THEN base ELSE [base EXCEPT !.title = r.title]
<1>1. r.title \in Titles \cup {Untitled} /\ r.add \subseteq FolderChats /\ r.out \subseteq FolderChats
  BY DEF FolderRequest, Titles
<1>2. empty \in OwnFolder /\ Disjoint(empty)
  BY <1>1 DEF Own, OwnFolder, Disjoint
<1>3. base \in OwnFolder /\ Disjoint(base) /\ (copy[p] \in OwnFolder => base = copy[p])
  BY <1>2, FolderKinds
<1> HIDE DEF base, empty
<1>4. /\ named \in OwnFolder /\ named.in = base.in /\ named.out = base.out /\ named.pin = base.pin
      /\ named.rest = base.rest /\ named.title = IF r.title = Untitled THEN base.title ELSE r.title
  BY <1>1, <1>3 DEF OwnFolder
<1>5. Filter(p) = PatchPeers(named, r)
  BY DEF Filter, base, empty
<1> HIDE DEF named, r
<1>6. /\ PatchPeers(named, r) \in OwnFolder
      /\ PatchPeers(named, r).in = (named.in \cup r.add) \ r.out
      /\ PatchPeers(named, r).pin = named.pin \ r.out
      /\ PatchPeers(named, r).out = (named.out \ r.add) \cup r.out
      /\ PatchPeers(named, r).rest = named.rest /\ PatchPeers(named, r).title = named.title
  BY <1>1, <1>4 DEF PatchPeers, OwnFolder
<1>7. Disjoint(Filter(p))
  BY <1>3, <1>4, <1>5, <1>6 DEF Disjoint
<1>8. QED
  BY <1>3, <1>4, <1>5, <1>6, <1>7 DEF r

(* The id that folder-create takes is above every folder there is. *)
LEMMA NextIsNew ==
  ASSUME NextFolderID \in FolderIds
  PROVE  folders[NextFolderID] = NoFolder
<1> DEFINE S == {1} \cup {i \in FolderIds : folders[i] # NoFolder}
<1>1. S \subseteq Nat /\ S # {} /\ MaxFolder \in Nat /\ \A n \in S : n <= MaxFolder
  BY FoldersAssumption DEF FoldersAssumption, FolderIds
<1>2. \A n \in S : Max(S) >= n
  <2> HIDE DEF S
  <2> QED BY <1>1, GreatestIsMax
<1>3. Max(S) \in S
  <2> HIDE DEF S
  <2> QED BY <1>1, GreatestIsMax
<1>4. NextFolderID = 1 + Max(S)
  BY DEF NextFolderID
<1>5. NextFolderID \notin S
  BY <1>1, <1>2, <1>3, <1>4
<1>6. QED
  BY <1>5

(* What a folder may be, and what a command is about to do to one. *)
FolderValue == {NoFolder, SharedFolder} \cup OwnFolder
WellFormed(f) == f \in FolderValue /\ (IsOwn(f) => Disjoint(f))
Wants(p) == progress[p] \in {"read", "write"}
Untouched(p) == target[p] \notin touched[p]

(* The types of what one command, and what all of them, change. *)
CommandTypes ==
  /\ request \in [Invocations -> FolderRequests \cup {Idle}]
  /\ progress \in [Invocations -> {"start", "connect", "list", "read", "write", "record", "end"}]
  /\ copy \in [Invocations -> {NoFolder} \cup OwnFolder]
  /\ target \in [Invocations -> FolderIds \cup {0}]
  /\ touched \in [Invocations -> SUBSET FolderIds]
  /\ result \in [Invocations -> {"none", "replayed", "failed", "unknown", "done", "died"}]
SharedTypes ==
  /\ folders \in [FolderIds -> FolderValue] /\ \A i \in FolderIds : WellFormed(folders[i])
  /\ effects \in [FolderKeys -> Nat] /\ recorded \subseteq FolderKeys
  /\ \A k \in recorded : effects[k] > 0
  /\ inSession \in Invocations \cup {NoOne}
  /\ inSession # NoOne => progress[inSession] \in {"list", "read", "write", "record"}

(* What a command holds in memory is what the folder was, unless another has changed it. *)
CommandOf(p) ==
  /\ progress[p] # "start" => request[p] \in FolderRequests
  /\ IsOwn(copy[p]) => Disjoint(copy[p])
  /\ Wants(p) => target[p] \in FolderIds
  /\ Wants(p) /\ request[p].op = "create" /\ Untouched(p) => folders[target[p]] = NoFolder
  /\ progress[p] = "write" /\ request[p].op # "delete" /\ Untouched(p) => copy[p] = folders[target[p]]
  /\ progress[p] = "record" /\ request[p].key # Unkeyed => effects[request[p].key] > 0
  /\ result[p] = "replayed" => request[p].key \in FolderKeys /\ effects[request[p].key] > 0
  /\ result[p] # "none" <=> progress[p] = "end"

(* The inductive invariant. *)
FolderInv == CommandTypes /\ SharedTypes /\ \A p \in Invocations : CommandOf(p)

(* What a request may be. *)
LEMMA RequestValues ==
  \A r \in FolderRequests :
    /\ r \in FolderRequest /\ r.key \in FolderKeys \cup {Unkeyed} /\ r.id \in FolderIds \cup {0}
    /\ r.op # "create" => r.id \in FolderIds
BY FoldersAssumption DEF FoldersAssumption, FolderRequest, Askable

(* The inductive invariant holds at the start. *)
LEMMA FolderStart == FoldersInit => FolderInv
<1> SUFFICES ASSUME FoldersInit PROVE FolderInv
  OBVIOUS
<1>1. CommandTypes
  BY DEF FoldersInit, CommandTypes
<1>2. PICK f \in {NoFolder, SharedFolder} \cup {Own("yours", {c}, {}, {c}, "rich") : c \in FolderChats} :
        folders = [i \in FolderIds |-> IF i = 2 THEN f ELSE NoFolder]
  BY DEF FoldersInit
<1>3. WellFormed(NoFolder) /\ WellFormed(SharedFolder)
  BY FolderKinds DEF WellFormed, FolderValue
<1>4. WellFormed(f)
  <2>1. ASSUME NEW c \in FolderChats PROVE WellFormed(Own("yours", {c}, {}, {c}, "rich"))
    <3>1. Own("yours", {c}, {}, {c}, "rich") \in OwnFolder
      BY DEF Own, OwnFolder, Titles
    <3>2. Disjoint(Own("yours", {c}, {}, {c}, "rich"))
      BY DEF Own, Disjoint
    <3>3. QED
      BY <3>1, <3>2 DEF WellFormed, FolderValue
  <2>2. QED
    BY <1>3, <2>1
<1>5. \A i \in FolderIds : folders[i] \in FolderValue /\ WellFormed(folders[i])
  BY <1>2, <1>3, <1>4 DEF WellFormed
<1>6. SharedTypes
  BY <1>2, <1>5 DEF FoldersInit, SharedTypes
<1>7. \A p \in Invocations : CommandOf(p)
  BY FolderKinds DEF FoldersInit, CommandOf, Wants
<1>8. QED
  BY <1>1, <1>6, <1>7 DEF FolderInv

(* What a step of p leaves alone: the other commands, but for the folders that it has *)
(* changed under them.                                                                *)
FolderFrame(p) ==
  /\ \A q \in Invocations \ {p} :
       /\ progress'[q] = progress[q] /\ request'[q] = request[q] /\ copy'[q] = copy[q]
       /\ target'[q] = target[q] /\ result'[q] = result[q] /\ touched[q] \subseteq touched'[q]
       /\ \A i \in FolderIds : folders'[i] = folders[i] \/ i \in touched'[q]
  /\ \A k \in FolderKeys : effects[k] > 0 => effects'[k] > 0

(* ... as every step does. *)
LEMMA FrameOfStep ==
  ASSUME FolderInv, NEW p \in Invocations, FolderStep(p)
  PROVE  FolderFrame(p)
<1>0. CommandTypes /\ SharedTypes /\ CommandOf(p)
  BY DEF FolderInv
<1> USE <1>0 DEF CommandTypes, SharedTypes, FolderFrame, EndCommand
<1>1. CASE LookupKey(p)
  BY <1>1 DEF LookupKey
<1>2. CASE TakeSession(p)
  BY <1>2 DEF TakeSession
<1>3. CASE List(p)
  BY <1>3 DEF List
<1>4. CASE ReadFolder(p)
  BY <1>4 DEF ReadFolder
<1>5. CASE Write(p)
  BY <1>5 DEF Write
<1>6. CASE Fail(p) \/ StoreFails(p) \/ CommandDies(p)
  BY <1>6 DEF Fail, StoreFails, CommandDies
<1>7. CASE StoreEnvelope(p)
  BY <1>7 DEF StoreEnvelope
<1>8. QED
  BY <1>1, <1>2, <1>3, <1>4, <1>5, <1>6, <1>7 DEF FolderStep

(* What is true of the other commands stays true. *)
LEMMA OthersOfStep ==
  ASSUME FolderInv, NEW p, FolderFrame(p), NEW q \in Invocations \ {p}
  PROVE  CommandOf(q)'
<1>1. CommandTypes /\ SharedTypes /\ CommandOf(q)
  BY DEF FolderInv
<1>2. progress[q] # "start" => request[q].key \in FolderKeys \cup {Unkeyed}
  BY <1>1, RequestValues DEF CommandOf
<1>3. (Wants(q) <=> Wants(q)') /\ (Untouched(q)' => Untouched(q))
  BY DEF FolderFrame, Wants, Untouched
<1>4. Wants(q) /\ Untouched(q)' => target[q] \in FolderIds /\ folders'[target[q]] = folders[target[q]]
  BY <1>1 DEF FolderFrame, CommandOf, Untouched
<1>5. request[q].key \in FolderKeys /\ effects[request[q].key] > 0 => effects'[request[q].key] > 0
  BY DEF FolderFrame
<1>6. /\ progress'[q] = progress[q] /\ request'[q] = request[q] /\ copy'[q] = copy[q]
      /\ target'[q] = target[q] /\ result'[q] = result[q]
  BY DEF FolderFrame
<1>7. QED
  BY <1>1, <1>2, <1>3, <1>4, <1>5, <1>6 DEF CommandOf, Wants

(* Every step of a command keeps the types and what is true of that command. *)
LEMMA CommandStep ==
  ASSUME FolderInv, NEW p \in Invocations, FolderStep(p)
  PROVE  CommandTypes' /\ SharedTypes' /\ CommandOf(p)'
<1>0. /\ CommandTypes /\ SharedTypes /\ CommandOf(p)
      /\ progress[p] # "start" => /\ request[p] \in FolderRequest
                                  /\ request[p].key \in FolderKeys \cup {Unkeyed}
                                  /\ request[p].id \in FolderIds \cup {0}
                                  /\ request[p].op # "create" => request[p].id \in FolderIds
  BY RequestValues DEF FolderInv, CommandOf
<1> USE <1>0 DEF CommandTypes, EndCommand, Wants, Untouched
<1>1. CASE LookupKey(p)
  <2> USE <1>1 DEF LookupKey
  <2>1. PICK r \in FolderRequests :
          /\ request' = [request EXCEPT ![p] = r]
          /\ IF r.key \in recorded
               THEN EndCommand(p, "replayed")
               ELSE progress' = [progress EXCEPT ![p] = "connect"] /\ UNCHANGED <<result, inSession>>
    OBVIOUS
  <2>2. CommandTypes'
    BY <2>1
  <2>3. SharedTypes'
    BY <2>1 DEF SharedTypes
  <2>4. CommandOf(p)'
    BY <2>1 DEF CommandOf, SharedTypes
  <2>5. QED
    BY <2>2, <2>3, <2>4
<1>2. CASE TakeSession(p)
  <2> USE <1>2 DEF TakeSession
  <2>1. CommandTypes'
    OBVIOUS
  <2>2. SharedTypes'
    BY DEF SharedTypes
  <2>3. CommandOf(p)'
    BY DEF CommandOf
  <2>4. QED
    BY <2>1, <2>2, <2>3
<1>3. CASE List(p)
  <2> USE <1>3 DEF List
  <2>1. CommandTypes'
    OBVIOUS
  <2>2. SharedTypes'
    BY DEF SharedTypes
  <2>3. CommandOf(p)'
    BY NextIsNew DEF CommandOf
  <2>4. QED
    BY <2>1, <2>2, <2>3
<1>4. CASE ReadFolder(p)
  <2> USE <1>4 DEF ReadFolder
  <2>1. target[p] \in FolderIds /\ folders[target[p]] \in FolderValue /\ WellFormed(folders[target[p]])
    BY DEF CommandOf, SharedTypes
  <2>2. CommandTypes'
    BY <2>1 DEF FolderValue
  <2>3. SharedTypes'
    BY DEF SharedTypes
  <2>4. CommandOf(p)'
    BY <2>1 DEF CommandOf, WellFormed
  <2>5. QED
    BY <2>2, <2>3, <2>4
<1>5. CASE Write(p)
  <2> USE <1>5 DEF Write
  <2>1. Written(p) \in FolderValue /\ WellFormed(Written(p))
    <3>1. CASE request[p].op = "delete"
      BY <3>1, FolderKinds DEF Written, WellFormed, FolderValue
    <3>2. CASE request[p].op # "delete"
      <4>1. Filter(p) \in OwnFolder /\ Disjoint(Filter(p))
        BY FilterPatches DEF CommandOf
      <4>2. QED
        BY <3>2, <4>1 DEF Written, WellFormed, FolderValue
    <3>3. QED
      BY <3>1, <3>2
  <2>2. target[p] \in FolderIds
    BY DEF CommandOf
  <2>3. CommandTypes'
    BY <2>2
  <2>4. /\ effects' \in [FolderKeys -> Nat]
        /\ \A k \in FolderKeys : effects[k] > 0 => effects'[k] > 0
        /\ request[p].key # Unkeyed => effects'[request[p].key] > 0
    BY DEF SharedTypes
  <2>5. folders' \in [FolderIds -> FolderValue] /\ \A i \in FolderIds : WellFormed(folders'[i])
    BY <2>1, <2>2 DEF SharedTypes
  <2>6. SharedTypes'
    BY <2>4, <2>5 DEF SharedTypes
  <2>7. CommandOf(p)'
    BY <2>4 DEF CommandOf
  <2>8. QED
    BY <2>3, <2>6, <2>7
<1>6. CASE Fail(p) \/ StoreFails(p) \/ CommandDies(p)
  <2> USE <1>6 DEF Fail, StoreFails, CommandDies
  <2>1. CommandTypes'
    OBVIOUS
  <2>2. SharedTypes'
    BY DEF SharedTypes
  <2>3. CommandOf(p)'
    BY DEF CommandOf
  <2>4. QED
    BY <2>1, <2>2, <2>3
<1>7. CASE StoreEnvelope(p)
  <2> USE <1>7 DEF StoreEnvelope
  <2>1. CommandTypes'
    OBVIOUS
  <2>2. SharedTypes'
    BY DEF SharedTypes, CommandOf
  <2>3. CommandOf(p)'
    BY DEF CommandOf
  <2>4. QED
    BY <2>1, <2>2, <2>3
<1>8. QED
  BY <1>1, <1>2, <1>3, <1>4, <1>5, <1>6, <1>7 DEF FolderStep

(* The other client of the account preserves the inductive invariant. *)
LEMMA OtherClientKeeps ==
  ASSUME FolderInv, OtherClient
  PROVE  FolderInv'
<1>0. CommandTypes /\ SharedTypes
  BY DEF FolderInv
<1>1. PICK i \in FolderIds, f \in {NoFolder, SharedFolder} \cup
             {Own("yours", in, {}, {}, "rich") : in \in SUBSET FolderChats} :
        folders' = [folders EXCEPT ![i] = f] /\ Changed(i)
  BY DEF OtherClient
<1>2. f \in FolderValue /\ WellFormed(f)
  <2>1. ASSUME NEW in \in SUBSET FolderChats
        PROVE  Own("yours", in, {}, {}, "rich") \in OwnFolder /\ Disjoint(Own("yours", in, {}, {}, "rich"))
    <3>1. Own("yours", in, {}, {}, "rich") \in OwnFolder
      BY DEF Own, OwnFolder, Titles
    <3>2. Disjoint(Own("yours", in, {}, {}, "rich"))
      BY DEF Own, Disjoint
    <3>3. QED
      BY <3>1, <3>2
  <2>2. f \in {NoFolder, SharedFolder} \/ (f \in OwnFolder /\ Disjoint(f))
    BY <2>1
  <2>3. QED
    BY <2>2, FolderKinds DEF FolderValue, WellFormed
<1>3. UNCHANGED <<request, progress, copy, target, inSession, recorded, result, effects>>
  BY DEF OtherClient
<1>4. CommandTypes' /\ SharedTypes'
  <2>1. touched' \in [Invocations -> SUBSET FolderIds]
    BY <1>0, <1>1 DEF Changed, CommandTypes
  <2>2. folders' \in [FolderIds -> FolderValue] /\ \A j \in FolderIds : WellFormed(folders'[j])
    BY <1>0, <1>1, <1>2 DEF SharedTypes
  <2>3. QED
    BY <1>0, <1>3, <2>1, <2>2 DEF CommandTypes, SharedTypes
<1>5. ASSUME NEW q \in Invocations PROVE CommandOf(q)'
  <2>1. CommandOf(q)
    BY DEF FolderInv
  <2>2. touched[q] \subseteq touched'[q] /\ \A j \in FolderIds : folders'[j] = folders[j] \/ j \in touched'[q]
    BY <1>0, <1>1 DEF Changed, CommandTypes, SharedTypes
  <2>3. (Untouched(q)' => Untouched(q)) /\ (Wants(q) <=> Wants(q)')
    BY <1>3, <2>2 DEF Untouched, Wants
  <2>4. Wants(q) /\ Untouched(q)' => folders'[target[q]] = folders[target[q]]
    BY <1>3, <2>1, <2>2 DEF Untouched, CommandOf
  <2>5. QED
    BY <1>3, <2>1, <2>3, <2>4 DEF CommandOf, Wants
<1>6. QED
  BY <1>4, <1>5 DEF FolderInv

(* Every step preserves the inductive invariant. *)
LEMMA FolderKept == FolderInv /\ [FoldersNext]_folderVars => FolderInv'
<1> SUFFICES ASSUME FolderInv, [FoldersNext]_folderVars PROVE FolderInv'
  OBVIOUS
<1>1. CASE OtherClient
  BY <1>1, OtherClientKeeps
<1>2. ASSUME NEW p \in Invocations, FolderStep(p) PROVE FolderInv'
  <2>1. CommandTypes' /\ SharedTypes' /\ CommandOf(p)'
    BY <1>2, CommandStep
  <2>2. \A q \in Invocations \ {p} : CommandOf(q)'
    BY <1>2, FrameOfStep, OthersOfStep
  <2>3. QED
    BY <2>1, <2>2 DEF FolderInv
<1>3. CASE UNCHANGED folderVars
  BY <1>3 DEF folderVars, FolderInv, CommandTypes, SharedTypes, CommandOf, Wants, Untouched
<1>4. QED
  BY <1>1, <1>2, <1>3 DEF FoldersNext

(* The inductive invariant contains what the run checks. *)
LEMMA FolderImplies == FolderInv => FoldersConsistent
<1> SUFFICES ASSUME FolderInv PROVE FoldersConsistent
  OBVIOUS
<1>0. CommandTypes /\ SharedTypes /\ \A p \in Invocations : CommandOf(p)
  BY DEF FolderInv
<1>1. FoldersTypeOK
  BY <1>0 DEF FoldersTypeOK, SharedTypes, FolderValue, OwnFolder, CommandOf
<1>2. ListsDisjoint
  BY <1>0 DEF ListsDisjoint, SharedTypes, WellFormed, Disjoint
<1>3. ReplayMeansEffect
  BY <1>0 DEF ReplayMeansEffect, CommandOf
<1>4. QED
  BY <1>1, <1>2, <1>3 DEF FoldersConsistent

(* Whatever folder commands and the other clients of the account do, and in whatever   *)
(* order: no folder both holds or pins and excludes a chat, and a replayed key stands   *)
(* for a change that Telegram has made.                                                *)
THEOREM FoldersAreConsistent == FoldersSpec => []FoldersConsistent
  BY FolderStart, FolderKept, FolderImplies, PTL DEF FoldersSpec

(* The step at which a command's folder is replaced is its write. *)
LEMMA WroteIsWrite ==
  ASSUME FolderInv, [FoldersNext]_folderVars, NEW p \in Invocations, Wrote(p)
  PROVE  /\ Write(p) /\ target[p] \in FolderIds
         /\ folders'[target[p]] = Written(p)
<1>0. CommandTypes /\ SharedTypes /\ CommandOf(p)
  BY DEF FolderInv
<1>1. ~OtherClient /\ ~UNCHANGED folderVars
  BY DEF Wrote, OtherClient, folderVars
<1>2. PICK q \in Invocations : FolderStep(q)
  BY <1>1 DEF FoldersNext
<1>3. q = p
  BY <1>2, FrameOfStep DEF Wrote, FolderFrame
<1>4. Write(p)
  BY <1>2, <1>3 DEF FolderStep, Wrote, LookupKey, TakeSession, List, ReadFolder, Fail, StoreEnvelope, StoreFails, CommandDies
<1>5. target[p] \in FolderIds
  BY <1>0, <1>4 DEF Write, CommandOf, Wants
<1>6. QED
  BY <1>0, <1>4, <1>5 DEF Write, SharedTypes

(* A folder command that overtakes nobody changes of a folder only what it was asked   *)
(* to, and folder-create replaces none.                                                *)
THEOREM WritesAreMinimal == FoldersSpec => FolderWritesMinimal
<1>1. ASSUME FolderInv, [FoldersNext]_folderVars, NEW p \in Invocations,
             Wrote(p), request[p].op # "delete", Untouched(p), folders[target[p]] # NoFolder
      PROVE  LET old == folders[target[p]]
                 new == folders'[target[p]]
                 r == request[p]
             IN  /\ IsOwn(old) /\ IsOwn(new)
                 /\ new.rest = old.rest
                 /\ new.title = (IF r.title = Untitled THEN old.title ELSE r.title)
                 /\ new.pin = old.pin \ r.out
                 /\ \A c \in FolderChats \ (r.add \cup r.out) :
                      (c \in new.in <=> c \in old.in) /\ (c \in new.out <=> c \in old.out)
  <2>1. Write(p) /\ folders'[target[p]] = Filter(p)
    BY <1>1, WroteIsWrite DEF Written
  <2>2. /\ copy[p] \in {NoFolder} \cup OwnFolder /\ (IsOwn(copy[p]) => Disjoint(copy[p]))
        /\ request[p] \in FolderRequest /\ copy[p] = folders[target[p]]
    BY <1>1, <2>1, RequestValues DEF FolderInv, CommandTypes, CommandOf, Write
  <2>3. copy[p] \in OwnFolder
    BY <1>1, <2>2
  <2>4. QED
    BY <2>1, <2>2, <2>3, FilterPatches, FolderKinds
<1>2. ASSUME FolderInv, [FoldersNext]_folderVars, NEW p \in Invocations,
             Wrote(p), request[p].op = "create", Untouched(p)
      PROVE  folders[target[p]] = NoFolder
  <2>1. Write(p)
    BY <1>2, WroteIsWrite
  <2>2. QED
    BY <1>2, <2>1 DEF FolderInv, CommandOf, Write, Wants
<1>3. FoldersSpec => []FolderInv
  BY FolderStart, FolderKept, PTL DEF FoldersSpec
<1>4. FoldersSpec => PatchIsMinimal
  <2>1. FolderInv /\ [FoldersNext]_folderVars =>
          [\A p \in Invocations :
             Wrote(p) /\ request[p].op # "delete" /\ target[p] \notin touched[p]
               /\ folders[target[p]] # NoFolder
             => LET old == folders[target[p]]
                    new == folders'[target[p]]
                    r == request[p]
                IN /\ IsOwn(old) /\ IsOwn(new)
                   /\ new.rest = old.rest
                   /\ new.title = (IF r.title = Untitled THEN old.title ELSE r.title)
                   /\ new.pin = old.pin \ r.out
                   /\ \A c \in FolderChats \ (r.add \cup r.out) :
                        (c \in new.in <=> c \in old.in) /\ (c \in new.out <=> c \in old.out)]_folderVars
    BY <1>1 DEF Untouched
  <2>2. QED
    BY <1>3, <2>1, PTL DEF FoldersSpec, PatchIsMinimal
<1>5. FoldersSpec => CreateMakesNew
  <2>1. FolderInv /\ [FoldersNext]_folderVars =>
          [\A p \in Invocations :
             Wrote(p) /\ request[p].op = "create" /\ target[p] \notin touched[p]
             => folders[target[p]] = NoFolder]_folderVars
    BY <1>2 DEF Untouched
  <2>2. QED
    BY <1>3, <2>1, PTL DEF FoldersSpec, CreateMakesNew
<1>6. QED
  BY <1>4, <1>5 DEF FolderWritesMinimal

-----------------------------------------------------------------------------
(* The local reader.                                                         *)

USE DEF NoTurn, Nobody

(* The interactions a browser may report, the key of the one under way, and the stages at *)
(* which there is one.                                                                    *)
EventQueries == [kind : {"event"}, ad : 1..MaxAds, event : EventIds, action : Interactions]
Key == CallbackKey(asked, ad.rid)
Interacting(h) == stage[h] \in {"claim", "send"}

(* What the variables hold: of a request, of the page, and of the keys. *)
RequestTypes ==
  /\ server \in {"up", "stopping", "down"}
  /\ turn \in Handlers \cup {NoTurn}
  /\ stage \in [Handlers -> {"idle", "wait", "page", "asset", "claim", "send"}]
  /\ tokens \in Nat /\ starts \in Nat
PageTypes ==
  /\ ad \in Ads \cup {NoAd} /\ events \subseteq EventIds
  /\ outside \in [user : Users, peer : ReaderPeers]
  /\ bound \in [user : Users \cup {Nobody}, peer : ReaderPeers \cup {Nobody}]
IssuedTypes == IsFiniteSet(issued) /\ Cardinality(issued) <= MaxIssued
KeyTypes ==
  /\ pending \subseteq CallbackKeys /\ done \subseteq CallbackKeys /\ pending \cap done = {}
  /\ counted \in [CallbackKeys -> Nat]

(* The place of the gate is had by the one request that is past it ... *)
OneAtWork == \A h \in Handlers : stage[h] \notin {"idle", "wait"} <=> turn = h
(* ... the advertisement it interacts with stays until it has answered ... *)
AdHeld == \A h \in Handlers : Interacting(h) =>
  /\ asked \in EventQueries /\ ad # NoAd /\ asked.ad = ad.token
  /\ ad.parts \subseteq ad.files /\ asked.event \in events
(* ... what Telegram has counted has a key that nobody may take ... *)
CountedIsTaken ==
  /\ \A k \in CallbackKeys : counted[k] <= 1 /\ (counted[k] > 0 => k \in pending \cup done)
  /\ \A h \in Handlers : stage[h] = "send" => Key \in pending /\ counted[Key] = 0
(* ... whom the process has worked for it is bound to, and it has an advertisement only *)
(* of a chat it is bound to ...                                                       *)
ServedIsBound ==
  /\ \A s \in served : s = bound /\ bound.user # Nobody /\ bound.peer # Nobody
  /\ ad # NoAd => bound.peer # Nobody
(* ... and once cleared nothing is at work. *)
ClearedIsEmpty == server = "down" => turn = NoTurn /\ ad = NoAd /\ events = {}

(* The inductive invariant. *)
ReaderInv ==
  /\ RequestTypes /\ PageTypes /\ IssuedTypes /\ KeyTypes
  /\ OneAtWork /\ AdHeld /\ CountedIsTaken /\ ServedIsBound /\ ClearedIsEmpty

(* An interaction is a query of its own kind, and has a key. *)
LEMMA EventValues ==
  /\ \A q \in Queries : q.kind = "event" => q \in EventQueries
  /\ \A q \in EventQueries, a \in Ads : CallbackKey(q, a.rid) \in CallbackKeys
<1>1. \A q \in Queries : q.kind = "event" => q \in EventQueries
  BY DEF Queries, EventQueries
<1>2. ASSUME NEW q \in EventQueries, NEW a \in Ads
      PROVE  CallbackKey(q, a.rid) \in CallbackKeys
  <2>1. q.action \in Interactions /\ q.event \in EventIds /\ a.rid \in RandomIds
    BY DEF EventQueries, Ads
  <2>2. CASE q.action = "view"
    BY <2>1, <2>2 DEF CallbackKey, CallbackKeys
  <2>3. CASE q.action # "view"
    BY <2>1, <2>3 DEF CallbackKey, CallbackKeys
  <2>4. QED
    BY <2>2, <2>3
<1>3. QED
  BY <1>1, <1>2

(* An advertisement changes as a whole, or in what the browser has seen of it. *)
LEMMA AdValues ==
  ASSUME NEW a \in Ads
  PROVE  /\ a # NoAd /\ a.token \in 1..MaxAds
         /\ \A v \in BOOLEAN : LET b == [a EXCEPT !.viewed = v]
                               IN  /\ b \in Ads /\ b.token = a.token /\ b.rid = a.rid
                                   /\ b.parts = a.parts /\ b.files = a.files
         /\ [a EXCEPT !.files = @ \cup {"media"}] \in Ads
         /\ a.viewed \in BOOLEAN
<1>1. a # NoAd
  BY DEF Ads, NoAd
<1>2. QED
  BY <1>1 DEF Ads

(* Nobody is past the gate: nothing is owed to a request. *)
LEMMA NobodyAtWork ==
  ASSUME RequestTypes', \A h \in Handlers : stage'[h] \in {"idle", "wait"}, turn' = NoTurn
  PROVE  OneAtWork' /\ AdHeld' /\ \A h \in Handlers : stage'[h] # "send"
BY ReaderAssumption DEF OneAtWork, AdHeld, Interacting, ReaderAssumption

(* A request that answers gives up the place. *)
LEMMA RespondFrees ==
  ASSUME ReaderInv, NEW h \in Handlers, Respond(h), (stage[h] = "wait" /\ turn = NoTurn) \/ turn = h
  PROVE  /\ turn' = NoTurn /\ \A g \in Handlers : stage'[g] \in {"idle", "wait"}
         /\ stage' \in [Handlers -> {"idle", "wait", "page", "asset", "claim", "send"}]
<1>1. RequestTypes /\ OneAtWork
  BY DEF ReaderInv
<1>2. \A g \in Handlers \ {h} : stage[g] \in {"idle", "wait"}
  BY <1>1, ReaderAssumption DEF OneAtWork, ReaderAssumption
<1>3. QED
  BY <1>1, <1>2 DEF Respond, GoOn, RequestTypes

(* A step that ends a request, or none, keeps the invariant if it keeps what is true of *)
(* the keys, of the account and of a cleared server.                                   *)
LEMMA Answered ==
  ASSUME ReaderInv, NEW h \in Handlers, Respond(h), (stage[h] = "wait" /\ turn = NoTurn) \/ turn = h,
         server' = server, starts' = starts, tokens' \in Nat, PageTypes', IssuedTypes', KeyTypes', ServedIsBound',
         \A k \in CallbackKeys : counted'[k] <= 1 /\ (counted'[k] > 0 => k \in pending' \cup done'),
         server = "down" => ad' = NoAd /\ events' = {}
  PROVE  ReaderInv'
<1>1. RequestTypes'
  BY RespondFrees DEF ReaderInv, RequestTypes
<1>2. OneAtWork' /\ AdHeld' /\ \A g \in Handlers : stage'[g] # "send"
  BY <1>1, RespondFrees, NobodyAtWork
<1>3. CountedIsTaken'
  BY <1>2 DEF CountedIsTaken
<1>4. ClearedIsEmpty'
  BY RespondFrees DEF ClearedIsEmpty
<1>5. QED
  BY <1>1, <1>2, <1>3, <1>4 DEF ReaderInv

(* The request that is past the gate has the place, and the server is not cleared. *)
LEMMA AtWork ==
  ASSUME ReaderInv, NEW h \in Handlers, stage[h] \notin {"idle", "wait"}
  PROVE  /\ turn = h /\ server # "down"
         /\ \A g \in Handlers \ {h} : stage[g] \in {"idle", "wait"}
BY ReaderAssumption DEF ReaderInv, OneAtWork, ClearedIsEmpty, ReaderAssumption

(* A request takes the place when nobody has it. *)
LEMMA Entered ==
  ASSUME ReaderInv, NEW h \in Handlers, NEW q, NEW s \in {"page", "asset", "claim"},
         stage[h] = "wait", turn = NoTurn, Turn(h, q, s)
  PROVE  /\ turn' = h /\ asked' = q /\ OneAtWork'
         /\ stage' \in [Handlers -> {"idle", "wait", "page", "asset", "claim", "send"}]
         /\ \A g \in Handlers : stage'[g] = (IF g = h THEN s ELSE stage[g])
         /\ \A g \in Handlers : stage[g] \in {"idle", "wait"}
<1>1. RequestTypes /\ OneAtWork
  BY DEF ReaderInv
<1>2. \A g \in Handlers : stage[g] \in {"idle", "wait"}
  BY <1>1, ReaderAssumption DEF OneAtWork, ReaderAssumption
<1>3. /\ turn' = h /\ asked' = q
      /\ stage' \in [Handlers -> {"idle", "wait", "page", "asset", "claim", "send"}]
      /\ \A g \in Handlers : stage'[g] = (IF g = h THEN s ELSE stage[g])
  BY <1>1 DEF Turn, GoOn, RequestTypes
<1>4. OneAtWork'
  BY <1>2, <1>3 DEF OneAtWork
<1>5. QED
  BY <1>2, <1>3, <1>4

(* The steps of a request. *)
LEMMA RequestKeeps ==
  ASSUME ReaderInv, NEW h \in Handlers, ReaderStep(h)
  PROVE  ReaderInv'
<1>0. /\ RequestTypes /\ PageTypes /\ IssuedTypes /\ KeyTypes
      /\ OneAtWork /\ AdHeld /\ CountedIsTaken /\ ServedIsBound /\ ClearedIsEmpty
  BY DEF ReaderInv
<1> USE DEF telegramVars
<1>1. CASE Arrive(h) \/ LeaveQueue(h)
  <2>1. /\ \A g \in Handlers : stage'[g] = stage[g] \/ (stage[g] \in {"idle", "wait"} /\ stage'[g] \in {"idle", "wait"})
        /\ stage' \in [Handlers -> {"idle", "wait", "page", "asset", "claim", "send"}]
        /\ UNCHANGED <<server, turn, asked, ad, stale, fresh, issued, events, bound, tokens, served, outside,
                       pending, done, counted, switches, starts>>
    BY <1>0, <1>1 DEF Arrive, LeaveQueue, GoOn, RequestTypes
  <2>2. RequestTypes' /\ PageTypes' /\ IssuedTypes' /\ KeyTypes' /\ ServedIsBound' /\ ClearedIsEmpty'
    BY <1>0, <2>1 DEF RequestTypes, PageTypes, IssuedTypes, KeyTypes, ServedIsBound, ClearedIsEmpty
  <2>3. OneAtWork' /\ AdHeld'
    BY <1>0, <2>1 DEF OneAtWork, AdHeld, Interacting
  <2>4. CountedIsTaken'
    BY <1>0, <2>1 DEF CountedIsTaken, Key
  <2>5. QED
    BY <2>2, <2>3, <2>4 DEF ReaderInv
<1>2. CASE Late(h)
  <2>1. /\ Respond(h) /\ stage[h] = "wait" /\ turn = NoTurn
        /\ UNCHANGED <<server, ad, stale, fresh, issued, events, bound, tokens, served, outside,
                       pending, done, counted, switches, starts>>
    BY <1>2 DEF Late
  <2>2. PageTypes' /\ IssuedTypes' /\ KeyTypes' /\ ServedIsBound'
    BY <1>0, <2>1 DEF PageTypes, IssuedTypes, KeyTypes, ServedIsBound
  <2>3. /\ \A k \in CallbackKeys : counted'[k] <= 1 /\ (counted'[k] > 0 => k \in pending' \cup done')
        /\ server = "down" => ad' = NoAd /\ events' = {}
        /\ tokens' \in Nat
    BY <1>0, <2>1 DEF CountedIsTaken, ClearedIsEmpty, RequestTypes
  <2>4. QED
    BY <2>1, <2>2, <2>3, Answered
<1>3. CASE BeginPage(h)
  <2>1. /\ stage[h] = "wait" /\ turn = NoTurn /\ server = "up"
        /\ UNCHANGED <<server, ad, stale, issued, events, bound, tokens, served, outside,
                       pending, done, counted, switches, starts>>
        /\ Respond(h) \/ \E q \in Queries : Turn(h, q, "page")
    BY <1>3 DEF BeginPage, Admitted
  <2>2. PageTypes' /\ IssuedTypes' /\ KeyTypes' /\ ServedIsBound' /\ ClearedIsEmpty'
    BY <1>0, <2>1 DEF PageTypes, IssuedTypes, KeyTypes, ServedIsBound, ClearedIsEmpty
  <2>3. /\ \A k \in CallbackKeys : counted'[k] <= 1 /\ (counted'[k] > 0 => k \in pending' \cup done')
        /\ server = "down" => ad' = NoAd /\ events' = {}
        /\ tokens' \in Nat
    BY <1>0, <2>1 DEF CountedIsTaken, ClearedIsEmpty, RequestTypes
  <2>4. CASE Respond(h)
    BY <2>1, <2>2, <2>3, <2>4, Answered
  <2>5. ASSUME NEW q \in Queries, Turn(h, q, "page") PROVE ReaderInv'
    <3>1. /\ turn' = h /\ OneAtWork'
          /\ stage' \in [Handlers -> {"idle", "wait", "page", "asset", "claim", "send"}]
          /\ \A g \in Handlers : stage'[g] \notin {"claim", "send"}
      BY <2>1, <2>5, Entered
    <3>2. RequestTypes' /\ AdHeld' /\ CountedIsTaken'
      BY <1>0, <2>1, <2>3, <3>1 DEF RequestTypes, AdHeld, Interacting, CountedIsTaken
    <3>3. QED
      BY <2>2, <3>1, <3>2 DEF ReaderInv
  <2>6. QED
    BY <2>1, <2>4, <2>5
<1>4. CASE BeginAsset(h)
  <2>1. /\ stage[h] = "wait" /\ turn = NoTurn /\ server = "up"
        /\ UNCHANGED <<server, ad, stale, issued, events, bound, tokens, served, outside,
                       pending, done, counted, switches, starts>>
        /\ Respond(h) \/ \E q \in Queries : Turn(h, q, "asset")
    BY <1>4 DEF BeginAsset, Admitted
  <2>2. PageTypes' /\ IssuedTypes' /\ KeyTypes' /\ ServedIsBound' /\ ClearedIsEmpty'
    BY <1>0, <2>1 DEF PageTypes, IssuedTypes, KeyTypes, ServedIsBound, ClearedIsEmpty
  <2>3. /\ \A k \in CallbackKeys : counted'[k] <= 1 /\ (counted'[k] > 0 => k \in pending' \cup done')
        /\ server = "down" => ad' = NoAd /\ events' = {}
        /\ tokens' \in Nat
    BY <1>0, <2>1 DEF CountedIsTaken, ClearedIsEmpty, RequestTypes
  <2>4. CASE Respond(h)
    BY <2>1, <2>2, <2>3, <2>4, Answered
  <2>5. ASSUME NEW q \in Queries, Turn(h, q, "asset") PROVE ReaderInv'
    <3>1. /\ turn' = h /\ OneAtWork'
          /\ stage' \in [Handlers -> {"idle", "wait", "page", "asset", "claim", "send"}]
          /\ \A g \in Handlers : stage'[g] \notin {"claim", "send"}
      BY <2>1, <2>5, Entered
    <3>2. RequestTypes' /\ AdHeld' /\ CountedIsTaken'
      BY <1>0, <2>1, <2>3, <3>1 DEF RequestTypes, AdHeld, Interacting, CountedIsTaken
    <3>3. QED
      BY <2>2, <3>1, <3>2 DEF ReaderInv
  <2>6. QED
    BY <2>1, <2>4, <2>5
<1>5. CASE PageFails(h)
  <2>1. turn = h /\ server # "down"
    BY <1>5, AtWork DEF PageFails
  <2>2. /\ Respond(h)
        /\ UNCHANGED <<server, ad, stale, fresh, issued, events, tokens, served, outside,
                       pending, done, counted, switches, starts>>
        /\ \/ bound' = bound
           \/ SameUser /\ bound' = [bound EXCEPT !.user = outside.user]
           \/ SameUser /\ SamePeer /\ bound' = outside
    BY <1>5 DEF PageFails
  <2>3. /\ bound' \in [user : Users \cup {Nobody}, peer : ReaderPeers \cup {Nobody}]
        /\ bound.peer # Nobody => bound'.peer = bound.peer
        /\ bound.user # Nobody /\ bound.peer # Nobody => bound' = bound
    BY <1>0, <2>2 DEF PageTypes, SameUser, SamePeer
  <2>4. PageTypes' /\ IssuedTypes' /\ KeyTypes' /\ ServedIsBound'
    BY <1>0, <2>2, <2>3 DEF PageTypes, IssuedTypes, KeyTypes, ServedIsBound
  <2>5. /\ \A k \in CallbackKeys : counted'[k] <= 1 /\ (counted'[k] > 0 => k \in pending' \cup done')
        /\ tokens' \in Nat
    BY <1>0, <2>2 DEF CountedIsTaken, RequestTypes
  <2>6. QED
    BY <2>1, <2>2, <2>4, <2>5, Answered
<1>6. CASE PageArrives(h)
  <2>1. turn = h /\ server # "down"
    BY <1>6, AtWork DEF PageArrives
  <2>2. /\ Respond(h) /\ SameUser /\ SamePeer /\ bound' = outside /\ served' = served \cup {outside}
        /\ AdArrives
        /\ UNCHANGED <<server, fresh, events, outside, pending, done, counted, switches, starts>>
    BY <1>6 DEF PageArrives
  <2>3. PICK n \in ReaderOffsets \cup {0} :
          issued' = IF n # 0 /\ Cardinality(issued) < MaxIssued THEN issued \cup {n} ELSE issued
    BY <1>6 DEF PageArrives
  <2>4. IssuedTypes'
    <3>1. /\ IsFiniteSet(issued \cup {n}) /\ Cardinality(issued) \in Nat /\ MaxIssued \in Nat
          /\ Cardinality(issued \cup {n}) = IF n \in issued THEN Cardinality(issued) ELSE Cardinality(issued) + 1
      BY <1>0, FS_AddElement, FS_CardinalityType, ReaderAssumption DEF IssuedTypes, ReaderAssumption
    <3>2. QED
      BY <1>0, <2>3, <3>1 DEF IssuedTypes
  <2>5. ad' \in Ads \cup {NoAd} /\ tokens' \in Nat
    <3>1. ASSUME tokens < MaxAds, NEW r \in RandomIds, NEW p \in SUBSET {"media"}
          PROVE  [token |-> tokens + 1, rid |-> r, parts |-> p, files |-> {}, viewed |-> FALSE] \in Ads
      <4>1. MaxAds \in Nat /\ tokens \in Nat
        BY <1>0, ReaderAssumption DEF RequestTypes, ReaderAssumption
      <4>2. tokens + 1 \in 1..MaxAds
        BY <3>1, <4>1
      <4>3. QED
        BY <4>2 DEF Ads
    <3>2. CASE ~fresh
      BY <1>0, <2>2, <3>2 DEF AdArrives, PageTypes, RequestTypes
    <3>3. CASE fresh /\ ad' = NoAd /\ tokens' = tokens
      BY <1>0, <3>3 DEF RequestTypes
    <3>4. CASE /\ fresh /\ tokens < MaxAds /\ tokens' = tokens + 1
               /\ \E r \in RandomIds, p \in SUBSET {"media"} :
                    ad' = [token |-> tokens + 1, rid |-> r, parts |-> p, files |-> {}, viewed |-> FALSE]
      <4>1. PICK r \in RandomIds, p \in SUBSET {"media"} :
               ad' = [token |-> tokens + 1, rid |-> r, parts |-> p, files |-> {}, viewed |-> FALSE]
        BY <3>4
      <4>2. ad' \in Ads
        BY <3>1, <3>4, <4>1
      <4>3. tokens \in Nat
        BY <1>0 DEF RequestTypes
      <4>4. tokens' \in Nat
        BY <3>4, <4>3
      <4>5. QED
        BY <4>2, <4>4
    <3>5. QED
      BY <2>2, <3>2, <3>3, <3>4 DEF AdArrives
  <2>6. outside.user # Nobody /\ outside.peer # Nobody /\ outside \in [user : Users \cup {Nobody}, peer : ReaderPeers \cup {Nobody}]
    BY <1>0, ReaderAssumption DEF PageTypes, ReaderAssumption
  <2>7. bound.user # Nobody /\ bound.peer # Nobody => bound = outside
    BY <1>0, <2>2 DEF PageTypes, SameUser, SamePeer
  <2>8. PageTypes' /\ KeyTypes' /\ ServedIsBound'
    BY <1>0, <2>2, <2>5, <2>6, <2>7 DEF PageTypes, KeyTypes, ServedIsBound
  <2>9. \A k \in CallbackKeys : counted'[k] <= 1 /\ (counted'[k] > 0 => k \in pending' \cup done')
    BY <1>0, <2>2 DEF CountedIsTaken
  <2>10. QED
    BY <2>1, <2>2, <2>4, <2>5, <2>8, <2>9, Answered
<1>7. CASE AssetArrives(h)
  <2>1. turn = h /\ server # "down"
    BY <1>7, AtWork DEF AssetArrives
  <2>2. /\ Respond(h)
        /\ UNCHANGED <<server, stale, fresh, issued, events, bound, tokens, served, outside,
                       pending, done, counted, switches, starts>>
        /\ ad' = ad \/ (ad' = [ad EXCEPT !.files = @ \cup {"media"}] /\ bound.user = outside.user)
    BY <1>7 DEF AssetArrives
  <2>3. ad' \in Ads \cup {NoAd} /\ (ad' # NoAd => ad # NoAd)
    <3>1. CASE ad \in Ads
      BY <2>2, <3>1, AdValues
    <3>2. CASE ad = NoAd
      BY <2>2, <3>2 DEF NoAd
    <3>3. QED
      BY <1>0, <3>1, <3>2 DEF PageTypes
  <2>4. PageTypes' /\ IssuedTypes' /\ KeyTypes' /\ ServedIsBound'
    BY <1>0, <2>2, <2>3 DEF PageTypes, IssuedTypes, KeyTypes, ServedIsBound
  <2>5. /\ \A k \in CallbackKeys : counted'[k] <= 1 /\ (counted'[k] > 0 => k \in pending' \cup done')
        /\ tokens' \in Nat
    BY <1>0, <2>2 DEF CountedIsTaken, RequestTypes
  <2>6. QED
    BY <2>1, <2>2, <2>4, <2>5, Answered
<1>8. CASE BeginEvent(h)
  <2>1. /\ stage[h] = "wait" /\ turn = NoTurn /\ server = "up"
        /\ UNCHANGED <<server, stale, issued, bound, tokens, served, outside,
                       pending, done, counted, switches, starts>>
    BY <1>8 DEF BeginEvent, Admitted
  <2>2. PICK q \in Queries :
          /\ q.kind = "event"
          /\ IF Acceptable(q)
               THEN /\ events' = events \cup {q.event}
                    /\ ad' = [ad EXCEPT !.viewed = @ \/ q.action = "view"]
                    /\ Turn(h, q, "claim")
               ELSE Respond(h) /\ UNCHANGED <<events, ad>>
    BY <1>8 DEF BeginEvent
  <2>3. IssuedTypes' /\ KeyTypes'
    BY <1>0, <2>1 DEF IssuedTypes, KeyTypes
  <2>4. /\ \A k \in CallbackKeys : counted'[k] <= 1 /\ (counted'[k] > 0 => k \in pending' \cup done')
        /\ tokens' \in Nat
    BY <1>0, <2>1 DEF CountedIsTaken, RequestTypes
  <2>5. CASE ~Acceptable(q)
    <3>1. Respond(h) /\ UNCHANGED <<events, ad>>
      BY <2>2, <2>5
    <3>2. PageTypes' /\ ServedIsBound'
      BY <1>0, <2>1, <3>1 DEF PageTypes, ServedIsBound
    <3>3. server # "down"
      BY <2>1
    <3>4. QED
      BY <2>1, <2>3, <2>4, <3>1, <3>2, <3>3, Answered
  <2>6. CASE Acceptable(q)
    <3>1. /\ ad # NoAd /\ q.ad = ad.token /\ ad.parts \subseteq ad.files /\ q \in EventQueries /\ q.event \in EventIds
          /\ ad \in Ads
      BY <1>0, <2>2, <2>6, EventValues DEF Acceptable, ValidAd, PageTypes, EventQueries
    <3>2. ad' \in Ads /\ ad' # NoAd /\ ad'.token = ad.token /\ ad'.parts = ad.parts /\ ad'.files = ad.files
      <4>1. (ad.viewed \/ q.action = "view") \in BOOLEAN
        OBVIOUS
      <4>2. ad' = [ad EXCEPT !.viewed = (ad.viewed \/ q.action = "view")]
        BY <2>2, <2>6
      <4>3. QED
        BY <3>1, <4>1, <4>2, AdValues
    <3>3. /\ turn' = h /\ asked' = q /\ OneAtWork'
          /\ stage' \in [Handlers -> {"idle", "wait", "page", "asset", "claim", "send"}]
          /\ \A g \in Handlers : stage'[g] # "send"
      BY <2>1, <2>2, <2>6, Entered
    <3>4. events' = events \cup {q.event}
      BY <2>2, <2>6
    <3>5. RequestTypes' /\ PageTypes' /\ ServedIsBound' /\ ClearedIsEmpty'
      BY <1>0, <2>1, <3>1, <3>2, <3>3, <3>4 DEF RequestTypes, PageTypes, ServedIsBound, ClearedIsEmpty
    <3>6. AdHeld'
      BY <3>1, <3>2, <3>3, <3>4 DEF AdHeld, Interacting
    <3>7. CountedIsTaken'
      BY <2>4, <3>3 DEF CountedIsTaken
    <3>8. QED
      BY <2>3, <3>3, <3>5, <3>6, <3>7 DEF ReaderInv
  <2>7. QED
    BY <2>5, <2>6
<1>9. CASE ReserveKey(h)
  <2>1. turn = h /\ server # "down" /\ \A g \in Handlers \ {h} : stage[g] \in {"idle", "wait"}
    BY <1>9, AtWork DEF ReserveKey
  <2>2. /\ UNCHANGED <<server, ad, stale, fresh, issued, events, bound, outside, done, tokens,
                       starts, switches, counted, served>>
        /\ IF Key \in pending \cup done
             THEN Respond(h) /\ UNCHANGED pending
             ELSE pending' = pending \cup {Key} /\ GoOn(h, "send") /\ UNCHANGED <<turn, asked>>
    BY <1>9 DEF ReserveKey, Key
  <2>3. Key \in CallbackKeys
    BY <1>0, <1>9, EventValues DEF ReserveKey, AdHeld, Interacting, PageTypes, Key
  <2>4. PageTypes' /\ IssuedTypes' /\ ServedIsBound'
    BY <1>0, <2>2 DEF PageTypes, IssuedTypes, ServedIsBound
  <2>5. CASE Key \in pending \cup done
    <3>1. Respond(h) /\ UNCHANGED <<pending, done, counted>>
      BY <2>2, <2>5
    <3>2. KeyTypes' /\ tokens' \in Nat /\ \A k \in CallbackKeys : counted'[k] <= 1 /\ (counted'[k] > 0 => k \in pending' \cup done')
      BY <1>0, <2>2, <3>1 DEF KeyTypes, CountedIsTaken, RequestTypes
    <3>3. QED
      BY <2>1, <2>2, <2>4, <3>1, <3>2, Answered
  <2>6. CASE Key \notin pending \cup done
    <3>1. pending' = pending \cup {Key} /\ stage' = [stage EXCEPT ![h] = "send"] /\ UNCHANGED <<turn, asked>>
      BY <2>2, <2>6 DEF GoOn
    <3>2. KeyTypes'
      BY <1>0, <2>2, <2>3, <2>6, <3>1 DEF KeyTypes
    <3>3. RequestTypes' /\ ClearedIsEmpty'
      BY <1>0, <2>1, <2>2, <3>1 DEF RequestTypes, ClearedIsEmpty
    <3>4. OneAtWork'
      BY <1>0, <2>1, <3>1 DEF OneAtWork, RequestTypes
    <3>5. AdHeld'
      BY <1>0, <1>9, <2>1, <2>2, <3>1 DEF AdHeld, Interacting, RequestTypes, ReserveKey
    <3>6. counted[Key] = 0
      BY <1>0, <2>3, <2>6 DEF CountedIsTaken, KeyTypes
    <3>7. Key' = Key
      BY <2>2, <3>1 DEF Key
    <3>8. CountedIsTaken'
      BY <1>0, <2>1, <2>2, <3>1, <3>6, <3>7 DEF CountedIsTaken, RequestTypes
    <3>9. QED
      BY <2>4, <3>2, <3>3, <3>4, <3>5, <3>8 DEF ReaderInv
  <2>7. QED
    BY <2>5, <2>6
<1>10. CASE SendFails(h)
  <2>1. turn = h /\ server # "down"
    BY <1>0, <1>10, AtWork DEF SendFails
  <2>2. /\ Respond(h)
        /\ UNCHANGED <<server, ad, stale, fresh, issued, events, bound, outside, pending, done, tokens,
                       starts, switches, counted, served>>
    BY <1>10 DEF SendFails
  <2>3. PageTypes' /\ IssuedTypes' /\ ServedIsBound' /\ KeyTypes'
    BY <1>0, <2>2 DEF PageTypes, IssuedTypes, ServedIsBound, KeyTypes
  <2>4. \A k \in CallbackKeys : counted'[k] <= 1 /\ (counted'[k] > 0 => k \in pending' \cup done')
    BY <1>0, <2>2 DEF CountedIsTaken
  <2>5. tokens' \in Nat
    BY <1>0, <2>2 DEF RequestTypes
  <2>6. QED
    BY <2>1, <2>2, <2>3, <2>4, <2>5, Answered
<1>11. CASE Send(h)
  <2>1. turn = h /\ server # "down" /\ Key \in pending /\ counted[Key] = 0
    BY <1>0, <1>11, AtWork DEF Send, CountedIsTaken
  <2>2. Key \in CallbackKeys /\ ad \in Ads
    BY <1>0, <1>11, EventValues DEF Send, AdHeld, Interacting, PageTypes, Key
  <2>3. /\ Respond(h) /\ bound.user = outside.user
        /\ served' = served \cup {[user |-> outside.user, peer |-> bound.peer]}
        /\ UNCHANGED <<server, stale, fresh, issued, events, bound, outside, tokens, starts, switches>>
        /\ ad' \in {ad, NoAd}
        /\ \/ /\ counted' = [counted EXCEPT ![Key] = @ + 1]
              /\ \/ pending' = pending \ {Key} /\ done' = done \cup {Key}
                 \/ UNCHANGED <<pending, done>>
           \/ pending' = pending \ {Key} /\ UNCHANGED <<counted, done>>
           \/ UNCHANGED <<counted, pending, done>>
    BY <1>11 DEF Send, Key
  <2>4. PageTypes' /\ IssuedTypes'
    BY <1>0, <2>3 DEF PageTypes, IssuedTypes
  <2>5. KeyTypes'
    BY <1>0, <2>1, <2>2, <2>3 DEF KeyTypes
  <2>6. \A k \in CallbackKeys : counted'[k] <= 1 /\ (counted'[k] > 0 => k \in pending' \cup done')
    BY <1>0, <2>1, <2>2, <2>3 DEF CountedIsTaken, KeyTypes
  <2>7. ServedIsBound'
    <3>1. outside.user # Nobody /\ bound.peer # Nobody
      BY <1>0, <1>11, ReaderAssumption DEF Send, AdHeld, Interacting, ServedIsBound, PageTypes, ReaderAssumption
    <3>2. [user |-> outside.user, peer |-> bound.peer] = bound
      BY <1>0, <2>3 DEF PageTypes
    <3>3. QED
      BY <1>0, <2>3, <3>1, <3>2 DEF ServedIsBound
  <2>8. tokens' \in Nat
    BY <1>0, <2>3 DEF RequestTypes
  <2>9. QED
    BY <2>1, <2>3, <2>4, <2>5, <2>6, <2>7, <2>8, Answered
<1>12. QED
  BY <1>1, <1>2, <1>3, <1>4, <1>5, <1>6, <1>7, <1>8, <1>9, <1>10, <1>11 DEF ReaderStep

(* The one offset issued at the start is not more than documented. *)
LEMMA OneIssued == IsFiniteSet({0}) /\ Cardinality({0}) <= MaxIssued
<1>1. MaxIssued \in Nat /\ MaxIssued > 0
  BY ReaderAssumption DEF ReaderAssumption
<1>2. IsFiniteSet({0}) /\ Cardinality({0}) = 1
  BY FS_Singleton
<1>3. QED
  BY <1>1, <1>2

(* The life of the process, and what happens outside it. *)
LEMMA ProcessKeeps ==
  ASSUME ReaderInv, Shutdown \/ Clear \/ Restart \/ Expire \/ Switch \/ UNCHANGED readerVars
  PROVE  ReaderInv'
<1>0. /\ RequestTypes /\ PageTypes /\ IssuedTypes /\ KeyTypes
      /\ OneAtWork /\ AdHeld /\ CountedIsTaken /\ ServedIsBound /\ ClearedIsEmpty
  BY DEF ReaderInv
<1> USE DEF telegramVars
<1>1. CASE Shutdown \/ Expire \/ UNCHANGED readerVars
  <2>1. /\ server' = server \/ server' = "stopping"
        /\ UNCHANGED <<turn, asked, stage, ad, issued, events, bound, tokens, served, outside, pending, done,
                       counted, starts>>
    BY <1>1 DEF Shutdown, Expire, readerVars
  <2>2. RequestTypes' /\ PageTypes' /\ IssuedTypes' /\ KeyTypes'
    BY <1>0, <2>1 DEF RequestTypes, PageTypes, IssuedTypes, KeyTypes
  <2>3. OneAtWork' /\ AdHeld' /\ ServedIsBound' /\ ClearedIsEmpty'
    BY <1>0, <2>1 DEF OneAtWork, AdHeld, Interacting, ServedIsBound, ClearedIsEmpty
  <2>4. CountedIsTaken'
    BY <1>0, <2>1 DEF CountedIsTaken, Key
  <2>5. QED
    BY <2>2, <2>3, <2>4 DEF ReaderInv
<1>2. CASE Clear
  <2>1. /\ turn = NoTurn /\ server' = "down" /\ ad' = NoAd /\ events' = {}
        /\ UNCHANGED <<turn, asked, stage, stale, fresh, issued, bound, tokens, served, outside, pending, done,
                       counted, starts>>
    BY <1>2 DEF Clear
  <2>2. RequestTypes' /\ PageTypes' /\ IssuedTypes' /\ KeyTypes' /\ ClearedIsEmpty' /\ ServedIsBound'
    BY <1>0, <2>1 DEF RequestTypes, PageTypes, IssuedTypes, KeyTypes, ClearedIsEmpty, ServedIsBound
  <2>3. \A h \in Handlers : stage'[h] \in {"idle", "wait"}
    BY <1>0, <2>1, ReaderAssumption DEF OneAtWork, ReaderAssumption
  <2>4. OneAtWork' /\ AdHeld' /\ \A h \in Handlers : stage'[h] # "send"
    BY <2>1, <2>2, <2>3, NobodyAtWork
  <2>5. CountedIsTaken'
    BY <1>0, <2>1, <2>4 DEF CountedIsTaken
  <2>6. QED
    BY <2>2, <2>4, <2>5 DEF ReaderInv
<1>3. CASE Restart
  <2>1. /\ starts' = starts + 1 /\ server' = "up" /\ turn' = NoTurn
        /\ stage' = [h \in Handlers |-> "idle"] /\ ad' = NoAd /\ issued' = {0} /\ events' = {}
        /\ bound' = Unbound /\ served' = {}
        /\ UNCHANGED <<outside, pending, done, tokens, switches, counted>>
    BY <1>3 DEF Restart
  <2>2. RequestTypes' /\ KeyTypes'
    <3>1. starts \in Nat /\ tokens \in Nat
      BY <1>0 DEF RequestTypes
    <3>2. starts' \in Nat
      <4>1. starts' = starts + 1
        BY <2>1
      <4>2. QED
        BY <3>1, <4>1
    <3>3. RequestTypes'
      BY <2>1, <3>1, <3>2 DEF RequestTypes
    <3>4. KeyTypes'
      BY <1>0, <2>1 DEF KeyTypes
    <3>5. QED
      BY <3>3, <3>4
  <2>3. PageTypes' /\ ClearedIsEmpty' /\ ServedIsBound'
    BY <1>0, <2>1 DEF PageTypes, ClearedIsEmpty, ServedIsBound, Unbound
  <2>4. IssuedTypes'
    BY <2>1, OneIssued DEF IssuedTypes
  <2>5. OneAtWork' /\ AdHeld' /\ \A h \in Handlers : stage'[h] # "send"
    BY <2>1, <2>2, NobodyAtWork
  <2>6. CountedIsTaken'
    BY <1>0, <2>1, <2>5 DEF CountedIsTaken
  <2>7. QED
    BY <2>2, <2>3, <2>4, <2>5, <2>6 DEF ReaderInv
<1>4. CASE Switch
  <2>1. /\ (\E u \in Users : outside' = [outside EXCEPT !.user = u])
           \/ (\E p \in ReaderPeers : outside' = [outside EXCEPT !.peer = p])
        /\ UNCHANGED <<server, turn, asked, stage, ad, stale, fresh, issued, events, bound,
                       pending, done, tokens, starts, counted, served>>
    BY <1>4 DEF Switch
  <2>2. outside' \in [user : Users, peer : ReaderPeers]
    BY <1>0, <2>1 DEF PageTypes
  <2>3. RequestTypes' /\ PageTypes' /\ IssuedTypes' /\ KeyTypes'
    BY <1>0, <2>1, <2>2 DEF RequestTypes, PageTypes, IssuedTypes, KeyTypes
  <2>4. OneAtWork' /\ AdHeld' /\ ServedIsBound' /\ ClearedIsEmpty'
    BY <1>0, <2>1 DEF OneAtWork, AdHeld, Interacting, ServedIsBound, ClearedIsEmpty
  <2>5. CountedIsTaken'
    BY <1>0, <2>1 DEF CountedIsTaken, Key
  <2>6. QED
    BY <2>3, <2>4, <2>5 DEF ReaderInv
<1>5. QED
  BY <1>1, <1>2, <1>3, <1>4

(* The inductive invariant holds at the start. *)
LEMMA ReaderStart == ReaderInit => ReaderInv
<1> SUFFICES ASSUME ReaderInit PROVE ReaderInv
  OBVIOUS
<1> USE DEF ReaderInit
<1>1. RequestTypes /\ KeyTypes
  BY DEF RequestTypes, KeyTypes
<1>2. PageTypes
  BY DEF PageTypes, Unbound
<1>3. IssuedTypes
  BY OneIssued DEF IssuedTypes
<1>4. OneAtWork /\ AdHeld
  BY ReaderAssumption DEF OneAtWork, AdHeld, Interacting, ReaderAssumption
<1>5. CountedIsTaken
  <2>1. \A k \in CallbackKeys : counted[k] = 0
    OBVIOUS
  <2>2. \A h \in Handlers : stage[h] # "send"
    OBVIOUS
  <2> HIDE DEF ReaderInit
  <2>3. \A k \in CallbackKeys : counted[k] <= 1 /\ (counted[k] > 0 => k \in pending \cup done)
    BY <2>1
  <2>4. QED
    BY <2>2, <2>3 DEF CountedIsTaken
<1>6. ServedIsBound /\ ClearedIsEmpty
  BY DEF ServedIsBound, ClearedIsEmpty
<1>7. QED
  BY <1>1, <1>2, <1>3, <1>4, <1>5, <1>6 DEF ReaderInv

(* Every step preserves the inductive invariant. *)
LEMMA ReaderKept == ReaderInv /\ [ReaderNext]_readerVars => ReaderInv'
BY RequestKeeps, ProcessKeeps DEF ReaderNext

(* The inductive invariant contains what the run checks. *)
LEMMA ReaderImplies == ReaderInv => ReaderSafe
<1> SUFFICES ASSUME ReaderInv PROVE ReaderSafe
  OBVIOUS
<1>1. {h \in Handlers : stage[h] \notin {"idle", "wait"}} = {turn} \ {NoTurn}
  <2>1. turn \in Handlers \cup {NoTurn} /\ NoTurn \notin Handlers
    BY ReaderAssumption DEF ReaderInv, RequestTypes, ReaderAssumption
  <2>2. \A h \in Handlers : stage[h] \notin {"idle", "wait"} <=> turn = h
    BY DEF ReaderInv, OneAtWork
  <2>3. QED
    BY <2>1, <2>2
<1>2. ReaderTypeOK
  BY <1>1 DEF ReaderInv, ReaderTypeOK, RequestTypes, PageTypes, IssuedTypes, KeyTypes
<1>3. CallbackOnce
  BY DEF ReaderInv, CountedIsTaken, CallbackOnce
<1>4. OneSubject
  BY DEF ReaderInv, ServedIsBound, OneSubject
<1>5. QED
  BY <1>2, <1>3, <1>4 DEF ReaderSafe

(* The reader tells Telegram nothing twice and speaks for one user about one chat, for  *)
(* any number of requests, advertisements, restarts and switches of the account.       *)
THEOREM ReaderIsSafe == ReaderSpec => []ReaderSafe
  BY ReaderStart, ReaderKept, ReaderImplies, PTL DEF ReaderSpec

(* A callback is only counted for the advertisement that is shown, complete and still   *)
(* held, and nothing comes back once the server has been cleared.                      *)
THEOREM CallbacksAreAdmitted == ReaderSpec => CallbacksAdmitted
<1>1. ASSUME ReaderInv, [ReaderNext]_readerVars, NEW h \in Handlers, stage[h] = "send", counted' # counted
      PROVE  /\ ad # NoAd /\ asked.ad = ad.token /\ ad.parts \subseteq ad.files
             /\ asked.event \in events
  BY <1>1 DEF ReaderInv, AdHeld, Interacting
<1>2. ASSUME ReaderInv, [ReaderNext]_readerVars, server = "down", starts' = starts
      PROVE  ad' = NoAd /\ events' = {} /\ counted' = counted
  <2>1. turn = NoTurn /\ ad = NoAd /\ events = {} /\ starts \in Nat
        /\ \A h \in Handlers : stage[h] \in {"idle", "wait"}
    <3>1. turn = NoTurn /\ ad = NoAd /\ events = {} /\ starts \in Nat
      BY <1>2 DEF ReaderInv, ClearedIsEmpty, RequestTypes
    <3>2. QED
      BY <1>2, <3>1, AtWork
  <2>2. ASSUME NEW h \in Handlers, ReaderStep(h)
        PROVE  UNCHANGED <<ad, events, counted>>
    <3>1. Arrive(h) \/ Late(h) \/ LeaveQueue(h)
      BY <1>2, <2>1, <2>2 DEF ReaderStep, BeginPage, PageFails, PageArrives, BeginAsset, AssetArrives,
        BeginEvent, ReserveKey, SendFails, Send, Admitted
    <3>2. QED
      BY <3>1 DEF Arrive, Late, LeaveQueue, telegramVars
  <2>3. CASE Shutdown \/ Clear \/ Restart \/ Expire \/ Switch \/ UNCHANGED readerVars
    BY <1>2, <2>1, <2>3 DEF Shutdown, Clear, Restart, Expire, Switch, readerVars, telegramVars
  <2>4. QED
    BY <1>2, <2>1, <2>2, <2>3 DEF ReaderNext
<1>3. ReaderSpec => []ReaderInv
  BY ReaderStart, ReaderKept, PTL DEF ReaderSpec
<1>4. ReaderSpec => SentAsShown
  <2>1. ReaderInv /\ [ReaderNext]_readerVars =>
          [\A h \in Handlers : stage[h] = "send" /\ counted' # counted =>
             /\ ad # NoAd /\ asked.ad = ad.token /\ ad.parts \subseteq ad.files
             /\ asked.event \in events]_readerVars
    BY <1>1
  <2>2. QED
    BY <1>3, <2>1, PTL DEF ReaderSpec, SentAsShown
<1>5. ReaderSpec => ClosedForGood
  <2>1. ReaderInv /\ [ReaderNext]_readerVars =>
          [server = "down" /\ starts' = starts =>
             ad' = NoAd /\ events' = {} /\ counted' = counted]_readerVars
    BY <1>2
  <2>2. QED
    BY <1>3, <2>1, PTL DEF ReaderSpec, ClosedForGood
<1>6. QED
  BY <1>4, <1>5 DEF CallbacksAdmitted

-----------------------------------------------------------------------------
(* Keys.                                                                     *)

(* The state has its types in every reachable state. *)
THEOREM KeyedTyping == Spec => []TypeOK
<1>1. Init => TypeOK
  BY DEF Init, TypeOK
<1>2. TypeOK /\ [Next]_keyedVars => TypeOK'
  <2> SUFFICES ASSUME TypeOK, [Next]_keyedVars PROVE TypeOK'
    OBVIOUS
  <2>1. ASSUME NEW r \in Requests, NEW k \in Keys, Ask(r, k) PROVE TypeOK'
    BY <2>1 DEF TypeOK, Ask
  <2>2. ASSUME NEW r \in Requests, Claim(r) PROVE TypeOK'
    BY <2>2 DEF TypeOK, Claim
  <2>3. ASSUME NEW r \in Requests, Perform(r) \/ Abandon(r) \/ SettleKey(r) PROVE TypeOK'
    BY <2>3 DEF TypeOK, Perform, Abandon, SettleKey
  <2>4. CASE UNCHANGED keyedVars
    BY <2>4 DEF TypeOK, keyedVars
  <2>5. QED
    BY <2>1, <2>2, <2>3, <2>4 DEF Next
<1>3. QED
  BY <1>1, <1>2, PTL DEF Spec

(* A holder that acted can no longer abandon its key. *)
LEMMA HolderStep ==
  ASSUME NoRequest \notin Requests, TypeOK, HolderPerformed, [Next]_keyedVars
  PROVE  HolderPerformed'
<1> USE DEF TypeOK, HolderPerformed
<1>1. ASSUME NEW r \in Requests, NEW k \in Keys, Ask(r, k) PROVE HolderPerformed'
  BY <1>1 DEF Ask
<1>2. ASSUME NEW r \in Requests, Claim(r) PROVE HolderPerformed'
  BY <1>2 DEF Claim
<1>3. ASSUME NEW r \in Requests, Perform(r) PROVE HolderPerformed'
  BY <1>3 DEF Perform
<1>4. ASSUME NEW r \in Requests, Abandon(r) PROVE HolderPerformed'
  BY <1>4 DEF Abandon
<1>5. ASSUME NEW r \in Requests, SettleKey(r) PROVE HolderPerformed'
  BY <1>5 DEF SettleKey
<1>6. CASE UNCHANGED keyedVars
  BY <1>6 DEF keyedVars
<1>7. QED
  BY <1>1, <1>2, <1>3, <1>4, <1>5, <1>6 DEF Next

(* HolderPerformed: who acted under a key holds it for ever, so that two requests *)
(* never both act under one key.                                                  *)
THEOREM ActorKeepsKey ==
  ASSUME NoRequest \notin Requests
  PROVE  Spec => [](TypeOK /\ HolderPerformed)
<1>1. Init => HolderPerformed
  BY DEF Init, HolderPerformed
<1>2. TypeOK /\ HolderPerformed /\ [Next]_keyedVars => HolderPerformed'
  BY HolderStep
<1>3. QED
  BY <1>1, <1>2, KeyedTyping, PTL DEF Spec

(* SettledPerformed: a result on record is that of the holder, which acted. *)
THEOREM SettledAfterActing ==
  ASSUME NoRequest \notin Requests
  PROVE  Spec => [](TypeOK /\ SettledPerformed)
<1>1. Init => SettledPerformed
  BY DEF Init, SettledPerformed
<1>2. TypeOK /\ SettledPerformed /\ [Next]_keyedVars => SettledPerformed'
  <2> SUFFICES ASSUME TypeOK, SettledPerformed, [Next]_keyedVars PROVE SettledPerformed'
    OBVIOUS
  <2> USE DEF TypeOK, SettledPerformed
  <2>1. ASSUME NEW r \in Requests, \E k \in Keys : Ask(r, k) PROVE SettledPerformed'
    BY <2>1 DEF Ask
  <2>2. ASSUME NEW r \in Requests, Claim(r) PROVE SettledPerformed'
    BY <2>2 DEF Claim
  <2>3. ASSUME NEW r \in Requests, Perform(r) PROVE SettledPerformed'
    BY <2>3 DEF Perform
  <2>4. ASSUME NEW r \in Requests, Abandon(r) PROVE SettledPerformed'
    BY <2>4 DEF Abandon
  <2>5. ASSUME NEW r \in Requests, SettleKey(r) PROVE SettledPerformed'
    BY <2>5 DEF SettleKey
  <2>6. CASE UNCHANGED keyedVars
    BY <2>6 DEF keyedVars
  <2>7. QED
    BY <2>1, <2>2, <2>3, <2>4, <2>5, <2>6 DEF Next
<1>3. QED
  BY <1>1, <1>2, KeyedTyping, PTL DEF Spec

=============================================================================
