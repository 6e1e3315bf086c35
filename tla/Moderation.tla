------------------------------ MODULE Moderation ------------------------------
(***************************************************************************)
(* The commands that moderate a chat: set-permissions, ban-from-chat,      *)
(* kick, unban-from-chat, promote, demote (AdminAction in                  *)
(* internal/client/gotd.go, permissions.go) and delete-msg                 *)
(* (DeleteMessages).  Each is a few requests to Telegram, between which    *)
(* another administrator acts; the answer to a mutation may be a refusal,  *)
(* may be lost, or may never have been due because the request was lost.   *)
(* What the journal makes of an answer is the subject of WriteLedger.      *)
(***************************************************************************)
EXTENDS Naturals, FiniteSets

CONSTANTS Here, Other, \* two chats with one number space of messages
          MessageIds,
          MaxActs      \* bound: what the other administrator does

ASSUME ModerationAssumption == Here # Other /\ MaxActs \in Nat

VARIABLES default,   \* Telegram: default restrictions of the chat
          member,    \* Telegram: the status of the member concerned
          message,   \* Telegram: the chat of each message, or Deleted
          job,       \* what each command was asked to do
          line,      \* what it does next
          rights,    \* set-permissions: the restrictions it read
          ending,   \* how it ended
          acts,
          meddled,   \* history: the other administrator acted since it read
          made       \* history: its mutations that Telegram applied

modVars == <<default, member, message, job, line, rights, ending, acts, meddled, made>>

\* "send" stands for the fifteen restrictions that set-permissions replaces,
\* "pin" and "invite" for those it does not know.
ChatLimits == {"send", "pin", "invite"}
Patched      == {"send"}
Statuses == {"member", "restricted", "banned", "admin", "left"}
Deleted      == "deleted"
Jobs == [op : {"restrict", "allow", "ban", "kick", "unban", "promote", "demote"}, ids : {{}}]
        \cup [op : {"delete"}, ids : (SUBSET MessageIds) \ {{}}]
NoJob == [op |-> "none", ids |-> {}]

ModerationInit ==
  /\ default \in SUBSET ChatLimits
  /\ member \in Statuses
  /\ message \in [MessageIds -> {Here, Other, Deleted}]
  /\ job = NoJob
  /\ line = "start"
  /\ rights = {}
  /\ ending = "none"
  /\ acts = 0
  /\ meddled = FALSE
  /\ made = 0

Conclude(v) == line' = "end" /\ ending' = v

\* A command that needs what Telegram holds reads it first.
Begin ==
  /\ line \in {"start", "end"}
  /\ \E j \in Jobs :
       /\ job' = j
       /\ line' = IF j.op \in {"restrict", "allow", "kick", "delete"} THEN "read" ELSE "write"
  /\ rights' = {} /\ ending' = "none" /\ meddled' = FALSE /\ made' = 0
  /\ UNCHANGED <<default, member, message, acts>>

-----------------------------------------------------------------------------
(* The first request of a command that reads.                               *)

\* ChannelParticipantBanned: a member with restrictions of its own.
Restricted == member \in {"restricted", "banned"}

\* Every requested message must be in the answer, and in the chat that the
\* user confirmed.
Verified(ids) == \A i \in ids : message[i] = Here

ReadRights ==
  /\ line = "read" /\ job.op \in {"restrict", "allow"}
  /\ rights' = default
  /\ line' = "write"
  /\ meddled' = FALSE
  /\ UNCHANGED <<default, member, message, job, ending, acts, made>>

ReadMember ==
  /\ line = "read" /\ job.op = "kick"
  /\ IF Restricted THEN Conclude("failed")
                   ELSE line' = "write" /\ UNCHANGED ending
  /\ meddled' = FALSE
  /\ UNCHANGED <<default, member, message, job, rights, acts, made>>

ReadMessages ==
  /\ line = "read" /\ job.op = "delete"
  /\ IF Verified(job.ids) THEN line' = "write" /\ UNCHANGED ending
                             ELSE Conclude("failed")
  /\ meddled' = FALSE
  /\ UNCHANGED <<default, member, message, job, rights, acts, made>>

\* A read fails, or the chat or the member has no cached access hash.
NotRead ==
  /\ line \in {"read", "write"} /\ made = 0
  /\ Conclude("failed")
  /\ UNCHANGED <<default, member, message, job, rights, acts, meddled, made>>

-----------------------------------------------------------------------------
(* The mutations.                                                           *)

\* Mistake in Patch: only the restrictions it knows are sent.
PatchAfresh == IF job.op = "restrict" THEN Patched ELSE {}

\* patchBannedRights: what was read, with the restrictions it knows replaced.
Patch == IF job.op = "restrict" THEN rights \cup Patched ELSE rights \ Patched

Banned(m)   == "banned"
Unbanned(m) == IF m = "banned" THEN "left" ELSE IF m = "restricted" THEN "member" ELSE m

\* Telegram applies the mutation of the command.
Applied ==
  /\ default' = IF job.op \in {"restrict", "allow"} THEN Patch ELSE default
  /\ member' =
       IF job.op \in {"ban", "kick"}
         THEN IF line = "write" THEN Banned(member) ELSE Unbanned(member)
       ELSE IF job.op = "unban" THEN Unbanned(member)
       ELSE IF job.op = "promote" THEN "admin"
       ELSE IF job.op = "demote" /\ member = "admin" THEN "member" ELSE member
  /\ message' = [i \in MessageIds |->
       IF job.op = "delete" /\ i \in job.ids THEN Deleted ELSE message[i]]
  /\ made' = made + 1

Untouched == UNCHANGED <<default, member, message, made>>

\* Mistake in Failure: the second request of kick is reported like the first.
FailurePlain(v) == v

\* The outcome of a mutation that was refused or whose answer was lost.  For
\* the second of kick it is wrapped: the member is out already.
Failure(v) == IF line = "again" THEN "committed" ELSE v

Answered ==
  /\ line \in {"write", "again"}
  /\ Applied
  /\ IF job.op = "kick" /\ line = "write"
       THEN line' = "again" /\ UNCHANGED ending
       ELSE Conclude("done")
  /\ UNCHANGED <<job, rights, acts, meddled>>

Refused ==
  /\ line \in {"write", "again"}
  /\ Untouched
  /\ Conclude(Failure("failed"))
  /\ UNCHANGED <<job, rights, acts, meddled>>

Lost ==
  /\ line \in {"write", "again"}
  /\ Applied \/ Untouched
  /\ Conclude(Failure("unknown"))
  /\ UNCHANGED <<job, rights, acts, meddled>>

-----------------------------------------------------------------------------
\* Another administrator changes one thing; the messages have their numbers for
\* good, so they can only go.
OtherAdministrator ==
  /\ acts < MaxActs /\ acts' = acts + 1
  /\ meddled' = TRUE
  /\ \/ default' \in SUBSET ChatLimits /\ UNCHANGED <<member, message>>
     \/ member' \in Statuses /\ UNCHANGED <<default, message>>
     \/ \E i \in MessageIds : message' = [message EXCEPT ![i] = Deleted]
                              /\ UNCHANGED <<default, member>>
  /\ UNCHANGED <<job, line, rights, ending, made>>

ModerationStep ==
  \/ Begin \/ ReadRights \/ ReadMember \/ ReadMessages \/ NotRead
  \/ Answered \/ Refused \/ Lost

ModerationNext == OtherAdministrator \/ ModerationStep
ModerationSpec == ModerationInit /\ [][ModerationNext]_modVars

-----------------------------------------------------------------------------
(* Properties.                                                              *)

\* The variables hold values of their types; a command has an ending exactly
\* when it has ended, and no command applies more mutations than it has.
ModerationTypeOK ==
  /\ default \subseteq ChatLimits /\ member \in Statuses /\ rights \subseteq ChatLimits
  /\ \A i \in MessageIds : message[i] \in {Here, Other, Deleted}
  /\ job \in Jobs \cup {NoJob} /\ meddled \in BOOLEAN
  /\ ending # "none" <=> line = "end"
  /\ made <= IF job.op = "kick" THEN 2 ELSE 1

\* A command that reports a plain failure, after which it may be repeated,
\* changed nothing; one that reports a committed write changed something; one
\* that reports success has made all its changes.
VerdictHonest ==
  /\ ending = "failed" => made = 0
  /\ ending = "committed" => made > 0
  /\ ending = "done" => made = (IF job.op = "kick" THEN 2 ELSE 1)

\* "Changes preserve unrelated restrictions": set-permissions leaves every
\* restriction it does not name as it is, unless someone changed one between
\* its read and its write.
UnrelatedKept ==
  [][job.op \in {"restrict", "allow"} /\ made' > made /\ ~meddled
     => default' \ Patched = default \ Patched]_modVars

\* kick "refuses an already restricted participant instead of erasing existing
\* restrictions": unless someone acts after its read, no kick removes and frees
\* a member who has restrictions.
KickKeepsRestrictions ==
  [][job.op = "kick" /\ made' > made /\ line = "write" /\ ~meddled
     => member \notin {"restricted", "banned"}]_modVars

\* "Deletion verifies every message's authoritative peer before sending a
\* destructive RPC": no command removes a message of another chat, whatever
\* happened to the messages since they were verified.
OtherChatIntact ==
  [][\A i \in MessageIds :
       made' > made /\ message[i] = Other => message'[i] = Other]_modVars

\* A moderation command reports what it did to the chat, over refusals and lost
\* answers of each of its requests.
ModerationHonest ==
  /\ ModerationTypeOK
  /\ VerdictHonest

=============================================================================
