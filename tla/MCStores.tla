-------------------------------- MODULE MCStores --------------------------------
(* Instance for TLC of the two stores of the account database that other        *)
(* modules build on, the journal of mutations and the checkpoint of updates     *)
(* with its outbox, and of the folder commands.  They share no state here, so a *)
(* behaviour runs one of them and leaves the others as they began.              *)
EXTENDS WriteLedger, MCUpdateStore, Folders, TLC
CONSTANTS p1, p2, \* clients, and invocations of a folder command
          f1, f2  \* chats in folders

VARIABLE which \* the one that runs

\* Every folder command with the key, and one without, on the folder that may exist
\* at the start and on one that does not.
Order(op, id, title, add, excluded, drop) ==
  [Idle EXCEPT !.op = op, !.id = id, !.title = title, !.key = CHOOSE k \in FolderKeys : TRUE,
               !.add = add, !.out = excluded, !.drop = drop]
Create == Order("create", 0, "mine", {f1, f2}, {f2}, {})
SomeRequests ==
  {Create, [Create EXCEPT !.key = Unkeyed], Order("edit", 2, "mine", {f2}, {}, {f1}),
   Order("delete", 2, Untitled, {}, {}, {}), Order("member", 2, Untitled, {}, {f1}, {})}
  \cup {Order("member", i, Untitled, {f2}, {}, {}) : i \in {2, 3}}

\* With no update to come, one initial state is as good as another; without the
\* folder commands there is no folder.
NoUpdates == feed = CHOOSE f \in Feeds : TRUE
NoFolders == folders = [i \in FolderIds |-> NoFolder]

MCInit ==
  /\ which \in {"ledger", "updates", "folders"}
  /\ which # "updates" => NoUpdates
  /\ which # "folders" => NoFolders
  /\ LedgerInit /\ UpdateInit /\ FoldersInit

MCNext ==
  /\ UNCHANGED which
  /\ \/ which = "ledger" /\ LedgerNext /\ UNCHANGED <<vars, folderVars>>
     \/ which = "updates" /\ UpdateNext /\ UNCHANGED <<ledgerVars, folderVars>>
     \/ which = "folders" /\ FoldersNext /\ UNCHANGED <<ledgerVars, vars>>

MCSpec == MCInit /\ [][MCNext]_<<ledgerVars, vars, folderVars, which>>

StoresSymmetry == Permutations({p1, p2})
================================================================================
