----------------------------- MODULE MCAccounts -----------------------------
(* Instance of AccountSession and AccountDirectory for TLC.  They abstract  *)
(* the same lock in two ways, so a behaviour runs one of them and leaves    *)
(* the other at its start.                                                  *)
EXTENDS AccountSession, AccountDirectory, TLC

CONSTANTS p1, p2, p3, u1, u2, k1, k2

MCVars == <<vars, dirVars>>
MCInit == Init /\ DirInit
MCNext ==
  \/ DirInit /\ Next /\ UNCHANGED dirVars
  \/ runs = 0 /\ snapshot = NoCache /\ DirNext /\ UNCHANGED vars
MCSpec == MCInit /\ [][MCNext]_MCVars /\ Fairness

\* Nothing is taken from somebody who may still use it: no session file that was
\* not revoked, no cache of another user, no directory with files in it.
NothingTakenAway == OnlyRevokedIsRemoved /\ OwnerIsForever /\ NothingSweptAway

=============================================================================
