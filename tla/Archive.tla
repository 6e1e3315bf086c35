-------------------------------- MODULE Archive --------------------------------
(***************************************************************************)
(* export: the cached history of a chat is written to a new file, with a   *)
(* manifest of its media if asked for, and checked later with --verify     *)
(* (internal/commands/export.go, internal/store/manifest.go).  Other       *)
(* commands change the cache and the media meanwhile, and another export,  *)
(* or the user, may put a file where this one will write.                  *)
(***************************************************************************)
EXTENDS Naturals, FiniteSets

CONSTANTS Messages, Files, \* messages of the chat, names under the media root
          NoMedia,         \* no path, or one outside the media root
          MaxTouches       \* bound: changes by others

ASSUME ArchiveAssumption == NoMedia \notin Files /\ MaxTouches \in Nat

VARIABLES named,     \* cache: the media file each message names
          stored,    \* the media files
          out, man, \* what is at the output path and at the manifest path
          step,    \* what the export does next
          hashed,   \* --manifest-hash
          records,  \* the rows it read
          items,    \* the manifest it builds
          temps,    \* temporary files
          check,    \* what the verification does next, or how it ended
          held,     \* the manifest it read
          left,     \* the items it has not checked
          wrong,    \* the files it reports, missing or changed
          touches,
          built,    \* history: the content of each item when it was described
          steady,   \* history: no file touched since the description began
          calm      \* history: no file touched since the verification began

archVars == <<named, stored, out, man, step, hashed, records, items, temps,
              check, held, left, wrong, touches, built, steady, calm>>

\* Two contents have the same size; a name may be no regular file, or no file.
Bytes == {"one", "two", "long"}
Size(c)  == IF c = "long" THEN 2 ELSE 1
Gone     == "gone"
Odd      == "odd"
Medias   == Bytes \cup {Gone, Odd}

Empty == [kind |-> "none"]
Others == [kind |-> "others"]
Export(r)   == [kind |-> "export", named |-> r]
Manifest(i) == [kind |-> "manifest", items |-> i]

Unknown == [path |-> NoMedia, present |-> FALSE, size |-> 0, hash |-> Gone]
NoRows  == [m \in Messages |-> NoMedia]

ArchiveInit ==
  /\ named \in [Messages -> Files \cup {NoMedia}]
  /\ stored \in [Files -> Medias]
  /\ out \in {Empty, Others} /\ man \in {Empty, Others}
  /\ step = "start"
  /\ hashed \in BOOLEAN
  /\ records = NoRows
  /\ items = [m \in Messages |-> Unknown]
  /\ temps = {}
  /\ check = "none"
  /\ held = [m \in Messages |-> Unknown]
  /\ left = {} /\ wrong = {}
  /\ touches = 0
  /\ built = [m \in Messages |-> Gone]
  /\ steady = TRUE /\ calm = TRUE

exporting == <<named, stored, check, held, left, wrong, touches, calm>>

\* An error of the export: the temporary file it was writing is removed, what it
\* has published stays.
Stop(tmps) == step' = "failed" /\ temps' = tmps

ReadRows ==
  /\ step = "start"
  /\ records' = named
  /\ IF out = Empty THEN step' = "temp" ELSE step' = "failed"
  /\ UNCHANGED <<exporting, out, man, hashed, items, temps, built, steady>>

\* writeExportAtomic: the temporary file is written and synced, the output looked
\* for again, the file renamed to it.
WriteTemp ==
  /\ step = "temp"
  /\ \/ step' = "look" /\ temps' = temps \cup {"export"}
     \/ Stop({})
  /\ UNCHANGED <<exporting, out, man, hashed, records, items, built, steady>>

LookAgain ==
  /\ step = "look"
  /\ IF out = Empty THEN step' = "rename" /\ temps' = temps ELSE Stop({})
  /\ UNCHANGED <<exporting, out, man, hashed, records, items, built, steady>>

Rename ==
  /\ step = "rename"
  /\ temps' = {}
  /\ \/ /\ out' = Export(records)
        /\ step' \in {"describe", "ok"} \* with or without --manifest
     \/ out' = out /\ step' = "failed"
  /\ steady' = TRUE
  /\ UNCHANGED <<exporting, man, hashed, records, items, built>>

\* BuildArchiveManifest, one row after another: the file is looked at, then read
\* for its hash.
Described == {m \in Messages : items[m] # Unknown \/ records[m] = NoMedia}

Facts(f) == LET present == f # NoMedia /\ stored[f] \in Bytes
            IN  [path |-> f, present |-> present, size |-> IF present THEN Size(stored[f]) ELSE 0,
                 hash |-> IF present /\ hashed THEN "due" ELSE Gone]

FirstFacts(m)      == Facts(records[m])

Describe(m) ==
  /\ step = "describe" /\ m \notin Described
  /\ \A n \in Messages : items[n].hash # "due"
  /\ items' = [items EXCEPT ![m] = FirstFacts(m)]
  /\ built' = [built EXCEPT ![m] = stored[records[m]]]
  /\ UNCHANGED <<exporting, out, man, step, hashed, records, temps, steady>>

Hash(m) ==
  /\ step = "describe" /\ items[m].hash = "due"
  /\ LET c == stored[items[m].path]
     IN  /\ items' = [items EXCEPT ![m] = [@ EXCEPT !.present = c \in Bytes,
                                                  !.hash = IF c \in Bytes THEN c ELSE Gone]]
         /\ built' = [built EXCEPT ![m] = c]
  /\ UNCHANGED <<exporting, out, man, step, hashed, records, temps, steady>>

\* writeManifestAtomic looks for the manifest once, before it writes.
WriteManifest ==
  /\ step = "describe" /\ Described = Messages
  /\ \A n \in Messages : items[n].hash # "due"
  /\ \/ man = Empty /\ step' = "manifest" /\ temps' = {"manifest"}
     \/ Stop({}) \* there is one, or writing fails
  /\ UNCHANGED <<exporting, out, man, hashed, records, items, built, steady>>

PublishManifest ==
  /\ step = "manifest"
  /\ \/ man' = Manifest(items) /\ step' = "ok" /\ temps' = {}
     \/ man' = man /\ Stop({})
  /\ UNCHANGED <<exporting, out, hashed, records, items, built, steady>>

Die ==
  /\ step \notin {"start", "ok", "failed", "dead"}
  /\ step' = "dead"
  /\ UNCHANGED <<exporting, out, man, hashed, records, items, temps, built, steady>>

--------------------------------------------------------------------------------
verifying == <<named, stored, out, man, step, hashed, records, items, temps, touches, built, steady>>

ReadManifest ==
  /\ check # "items" /\ man.kind = "manifest"
  /\ check' = "items"
  /\ held' = man.items
  /\ left' = {m \in Messages : man.items[m].path # NoMedia}
  /\ wrong' = {} /\ calm' = TRUE
  /\ UNCHANGED verifying

Missing(i) == stored[i.path] = Gone

\* Mistakes: a content of the same size passes; an item without hash is compared.
DiffersBySize(i) == stored[i.path] # Gone /\ (stored[i.path] = Odd \/ ~i.present \/ Size(stored[i.path]) # i.size)
Differs(i) ==
  /\ ~Missing(i)
  /\ \/ stored[i.path] = Odd \/ ~i.present \/ Size(stored[i.path]) # i.size
     \/ i.hash # Gone /\ stored[i.path] # i.hash

CheckItem(m) ==
  /\ check = "items" /\ m \in left
  /\ left' = left \ {m}
  /\ wrong' = wrong \cup (IF Missing(held[m]) THEN {"missing"} ELSE IF Differs(held[m]) THEN {"changed"} ELSE {})
  /\ UNCHANGED <<verifying, check, held, calm>>

\* The walk over the media root: regular files that no item names.
Extra == \E f \in Files : stored[f] \in Bytes /\ \A m \in Messages : held[m].path # f

EndCheck ==
  /\ check = "items" /\ left = {}
  /\ check' = CASE "missing" \in wrong -> "missing"
                [] wrong = {"changed"}  -> "changed"
                [] wrong = {} /\ Extra  -> "extra"
                [] OTHER                -> "clean"
  /\ UNCHANGED <<verifying, held, left, wrong, calm>>

--------------------------------------------------------------------------------
\* Another command records or forgets a file, or writes, replaces or removes one;
\* another export, or the user, puts a file at a path.
Disturb ==
  /\ touches < MaxTouches /\ touches' = touches + 1
  /\ \/ /\ \E m \in Messages, f \in Files \cup {NoMedia} : named' = [named EXCEPT ![m] = f]
        /\ UNCHANGED <<stored, out, man, steady, calm>>
     \/ /\ \E f \in Files, c \in Medias : stored' = [stored EXCEPT ![f] = c]
        /\ steady' = FALSE /\ calm' = FALSE
        /\ UNCHANGED <<named, out, man>>
     \/ /\ \/ out' = Others /\ UNCHANGED man
           \/ man' = Others /\ UNCHANGED out
        /\ UNCHANGED <<named, stored, steady, calm>>
  /\ UNCHANGED <<step, hashed, records, items, temps, check, held, left, wrong, built>>

ArchiveNext ==
  \/ ReadRows \/ WriteTemp \/ LookAgain \/ Rename
  \/ (\E m \in Messages : Describe(m) \/ Hash(m)) \/ WriteManifest \/ PublishManifest \/ Die
  \/ ReadManifest \/ (\E m \in Messages : CheckItem(m)) \/ EndCheck \/ Disturb

ArchiveSpec == ArchiveInit /\ [][ArchiveNext]_archVars
--------------------------------------------------------------------------------
Item == [path : Files \cup {NoMedia}, present : BOOLEAN, size : 0..2, hash : Bytes \cup {Gone, "due"}]

ArchiveTypeOK ==
  /\ named \in [Messages -> Files \cup {NoMedia}] /\ stored \in [Files -> Medias]
  /\ out \in {Empty, Others} \cup {Export(r) : r \in [Messages -> Files \cup {NoMedia}]}
  /\ man \in {Empty, Others} \/ (man.kind = "manifest" /\ man.items \in [Messages -> Item])
  /\ step \in {"start", "temp", "look", "rename", "describe", "manifest", "ok", "failed", "dead"}
  /\ hashed \in BOOLEAN /\ records \in [Messages -> Files \cup {NoMedia}]
  /\ items \in [Messages -> Item] /\ held \in [Messages -> Item]
  /\ temps \subseteq {"export", "manifest"}
  /\ step \in {"start", "ok", "failed"} => temps = {}
  /\ check \in {"none", "items", "missing", "changed", "extra", "clean"}
  /\ left \subseteq Messages /\ wrong \subseteq {"missing", "changed"}
  /\ touches \in 0..MaxTouches /\ built \in [Messages -> Medias]
  /\ steady \in BOOLEAN /\ calm \in BOOLEAN

\* The output and the manifest of one export describe the same messages with the
\* same files, whatever happens to the cache between the two.
ManifestCoversOutput ==
  out.kind = "export" /\ man.kind = "manifest" => \A m \in Messages : man.items[m].path = out.named[m]

\* If no file is touched during a verification that finds nothing wrong, then
\* every medium has the size it had when it was described, with --manifest-hash
\* the content, and the media root holds nothing else.
CleanMeansSame ==
  check = "clean" /\ calm =>
    /\ ~Extra
    /\ \A m \in Messages : held[m].path # NoMedia =>
         LET now == stored[held[m].path]
         IN  now \in Bytes /\ Size(now) = Size(built[m]) /\ (hashed => now = built[m])

\* A verification finds a file missing or changed only if one was touched after
\* the description began, or one could not be described.
NoFalseAlarm ==
  check \in {"missing", "changed"} /\ steady =>
    \E m \in Messages : held[m].path # NoMedia /\ ~held[m].present

\* An export, its manifest and its verification agree with each other and with the
\* media, although the cache and the files change at any time.
ArchiveFaithful ==
  /\ ArchiveTypeOK
  /\ ManifestCoversOutput
  /\ CleanMeansSame
  /\ NoFalseAlarm

================================================================================
