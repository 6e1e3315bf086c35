------------------------------ MODULE Permissions ------------------------------
(***************************************************************************)
(* chat-permissions: what a member of a chat may do, as the command        *)
(* derives it (internal/client/permission_inspection.go) from separate     *)
(* answers of Telegram: the chat with its default restrictions, the full   *)
(* chat with its boost threshold, the participant.  The chat and the       *)
(* participant may change between the answers.  A right that is neither    *)
(* granted nor denied by the report is unknown.                            *)
(***************************************************************************)
EXTENDS Naturals, FiniteSets

CONSTANTS Restrictions, \* the sets of restrictions a chat or a member may have
          Rights,       \* the sets of rights an administrator may have
          Unnamed,      \* an answer has no rights of an administrator
          MaxChanges    \* bound: changes by administrators of the chat

\* "send_photos" stands for the ten kinds of media, "send_polls" for what needs no
\* media, "pin_messages" for change_info and invite_users too, "delete_messages"
\* for what only administrators do, "post_messages" for what only channels have.
Sending == {"send_messages", "send_plain", "send_media", "send_photos", "send_polls", "embed_links"}
Shared  == {"pin_messages", "manage_topics"} \* an administrator's right, or everyone's
AdminKeys == Shared \cup {"delete_messages", "post_messages"}

ASSUME PermissionsAssumption ==
  /\ \A r \in Restrictions : r \subseteq Sending \cup Shared
  /\ \A r \in Rights : r \subseteq AdminKeys
  /\ Unnamed \notin Rights \cup {{}} /\ MaxChanges \in Nat

VARIABLES chat,        \* Telegram: the chat
          person,      \* Telegram: the participant asked about
          subject,     \* "self" or another user
          awaiting,       \* what the inspection reads next
          metadata,    \* the chat as the first answer showed it
          boosts,      \* what the second answer says of boosts
          participant, \* the participant as the last answer showed it
          snapshot,
          changes

permVars == <<chat, person, subject, awaiting, metadata, boosts, participant, snapshot, changes>>

Types == {"group", "supergroup", "forum", "gigagroup", "channel"}
ChatStates == [type : Types, defaults : Restrictions, boosts : {"none", "short", "reached"}]

\* "banned" is what Telegram calls any member with restrictions of his own;
\* gone: no longer in the chat; lapsed: the restrictions were until a date now past.
Persons == [kind : {"creator", "admin"}, rights : Rights, denied : {{}}, outside : {FALSE}, gone : {FALSE}, lapsed : {FALSE}]
           \cup [kind : {"member", "left", "unknown"}, rights : {{}}, denied : {{}}, outside : {FALSE}, gone : {FALSE}, lapsed : {FALSE}]
           \cup [kind : {"banned"}, rights : {{}}, denied : Restrictions, outside : BOOLEAN, gone : BOOLEAN, lapsed : BOOLEAN]

\* The rights the chat carries for the account: of one who is no administrator
\* none, which the program cannot tell from an administrator without rights.
Carried(p) == IF p.kind \in {"creator", "admin"} THEN p.rights ELSE {}

\* What the first answer shows: the chat, and in it the account's own rights.
Shown(c, own) == [type |-> c.type, defaults |-> c.defaults, own |-> own]

\* A basic group has no restrictions of a member and no boosts.
Fitting(c, p) == c.type = "group" => c.boosts = "none" /\ p.kind # "banned"

Nothing == [granted |-> {}, denied |-> {}]

PermissionsInit ==
  /\ chat \in ChatStates /\ person \in Persons /\ Fitting(chat, person)
  /\ subject \in {"self", "other"}
  /\ awaiting = "chat"
  /\ metadata = Shown(chat, {}) /\ boosts = "none" /\ participant = person
  /\ snapshot = Nothing
  /\ changes = 0

\* participantPermission and basicParticipantRole
Role(p) ==
  CASE p.kind # "banned"                -> p.kind
    [] p.lapsed                         -> IF p.gone \/ p.outside THEN "left" ELSE "member"
    [] ~p.lapsed /\ p.outside           -> "banned"
    [] ~p.lapsed /\ ~p.outside /\ p.gone  -> "left"
    [] OTHER                            -> "restricted"

\* The rights an answer names, if it is about an administrator.
Named(p) == IF p.kind \in {"creator", "admin"} THEN p.rights ELSE Unnamed

\* Mistake: a member's own restrictions replace those of the chat.
BarredPersonalFirst(defaults, personal) == IF personal = {} THEN defaults ELSE personal

\* restrictionFlags
InForce(p) == IF p.kind # "banned" \/ p.lapsed THEN {}
              ELSE p.denied \cup (IF p.outside THEN {"send_messages"} ELSE {})

\* What the absence of one right to send takes with it.
Media == {"send_photos"}
WithoutMessages(sends) == IF "send_messages" \in sends THEN sends ELSE {}
WithoutMedia(sends)    == IF "send_media" \in sends THEN sends ELSE sends \ Media
WithoutPlain(sends)    == IF "send_plain" \in sends THEN sends ELSE sends \ {"embed_links"}

\* Restrictions of the chat and restrictions of the member add up.
Barred(defaults, personal) == defaults \cup personal

\* effectiveParticipantRights
Effective(type, defaults, role, admin, personal) ==
  LET creator    == role = "creator"
      privileged == creator \/ role = "admin"
      absent     == role = "banned"
      broadcast  == type = "channel"
      held       == IF creator THEN AdminKeys ELSE IF admin = Unnamed THEN {} ELSE admin
      stated     == IF admin # Unnamed \/ creator \/ ~privileged THEN AdminKeys ELSE {}
      canSend    == /\ ~absent
                    /\ type = "gigagroup" => privileged
                    /\ broadcast => "post_messages" \in held
      restricted == IF broadcast \/ absent \/ privileged THEN {} ELSE Barred(defaults, personal)
      sends      == IF canSend
                    THEN WithoutPlain(WithoutMedia(WithoutMessages(Sending \ restricted))) ELSE {}
      free       == IF broadcast \/ absent THEN {}
                    ELSE {k \in Shared \ defaults : privileged \/ k \notin personal}
      granted    == sends \cup (IF absent THEN {} ELSE held) \cup free
      listed     == (Sending \cup AdminKeys) \ ((IF broadcast THEN {} ELSE {"post_messages"})
                                     \cup (IF type = "forum" THEN {} ELSE {"manage_topics"}))
  IN  IF role \in {"unknown", "left"} THEN Nothing
      ELSE [granted |-> granted \cap listed,
            denied  |-> ((Sending \cup stated) \ granted) \cap listed]

\* effectivePermissionSnapshot: unknown boosts leave what both answers share.
Snapshot(type, defaults, role, admin, personal, known) ==
  LET regular == Effective(type, defaults, role, admin, personal)
      exempt  == Effective(type, {}, role, admin, personal)
  IN  CASE role \in {"creator", "admin"} \/ known \in {"none", "short"} -> regular
        [] role \notin {"creator", "admin"} /\ known = "reached"        -> exempt
        [] OTHER -> [granted |-> regular.granted \cap exempt.granted,
                     denied  |-> regular.denied \cap exempt.denied]

ReadChat ==
  /\ awaiting = "chat"
  /\ awaiting' = "full"
  /\ metadata' = Shown(chat, IF subject = "self" THEN Carried(person) ELSE {})
  /\ UNCHANGED <<chat, person, subject, boosts, participant, snapshot, changes>>

\* The threshold of boosts concerns the account alone; of another it is not known
\* whether he reaches it.
Known == IF subject = "other" /\ chat.boosts # "none" THEN "unknown" ELSE chat.boosts

ReadFull ==
  /\ awaiting = "full" /\ metadata.type # "group"
  /\ awaiting' = "participant"
  /\ boosts' = Known
  /\ UNCHANGED <<chat, person, subject, metadata, participant, snapshot, changes>>

ReadParticipant ==
  /\ awaiting = "participant"
  /\ awaiting' = "end"
  /\ participant' = person
  /\ snapshot' = Snapshot(metadata.type, metadata.defaults, Role(person),
                        Named(person), InForce(person), boosts)
  /\ UNCHANGED <<chat, person, subject, metadata, boosts, changes>>

\* A basic group's members come with the full chat and without rights; those of the
\* account came with the metadata, whatever it was then.
ReadGroup ==
  /\ awaiting = "full" /\ metadata.type = "group"
  /\ awaiting' = "end"
  /\ participant' = person
  /\ snapshot' = Snapshot("group", metadata.defaults, Role(person),
                        IF subject = "self" /\ person.kind = "admin" THEN metadata.own
                        ELSE Unnamed, {}, "none")
  /\ UNCHANGED <<chat, person, subject, metadata, boosts, changes>>

\* A request fails, or its answer is not about this chat.
ReadFails ==
  /\ awaiting \in {"chat", "full", "participant"}
  /\ awaiting' = "failed"
  /\ UNCHANGED <<chat, person, subject, metadata, boosts, participant, snapshot, changes>>

Change ==
  /\ awaiting \in {"full", "participant"} /\ changes < MaxChanges
  /\ changes' = changes + 1
  /\ \/ \E r \in Restrictions, b \in {"none", "short", "reached"} :
          chat' = [chat EXCEPT !.defaults = r, !.boosts = b] /\ UNCHANGED person
     \/ \E p \in Persons : person' = p /\ UNCHANGED chat
  /\ Fitting(chat', person')
  /\ UNCHANGED <<subject, awaiting, metadata, boosts, participant, snapshot>>

PermissionsNext == ReadChat \/ ReadFull \/ ReadParticipant \/ ReadGroup \/ ReadFails \/ Change
PermissionsSpec == PermissionsInit /\ [][PermissionsNext]_permVars
--------------------------------------------------------------------------------
(***************************************************************************)
(* What Telegram's rules give participant p of the chat shown by c, when   *)
(* his boosts do or do not lift the default restrictions.                  *)
(***************************************************************************)
Present(p) == /\ p.kind \in {"creator", "admin", "member", "banned"}
              /\ ~p.outside /\ ~p.gone
Needs(k) == {k, "send_messages"} \cup (IF k \in Media THEN {"send_media"} ELSE {})
                                 \cup (IF k = "embed_links" THEN {"send_plain"} ELSE {})
May(k, c, p, rights, lifted) ==
  LET privileged == p.kind \in {"creator", "admin"}
      own(r)     == p.kind = "creator" \/ (p.kind = "admin" /\ r \in rights)
      byDefault(r)  == r \in c.defaults /\ (privileged \/ ~lifted)
      personally(r) == p.kind = "banned" /\ ~p.lapsed /\ r \in p.denied
  IN  /\ Present(p)
      /\ \/ own(k)
         \/ k \in Shared /\ c.type # "channel" /\ ~byDefault(k) /\ ~personally(k)
         \/ k \in Sending /\ c.type = "channel" /\ own("post_messages")
         \/ k \in Sending /\ c.type # "channel" /\ privileged
         \/ /\ k \in Sending /\ c.type \notin {"channel", "gigagroup"}
            /\ \A r \in Needs(k) : ~byDefault(r) /\ ~personally(r)

\* The rights of an administrator that the report is derived from.
AdminAnswered ==
  IF metadata.type # "group" THEN Named(participant)
  ELSE IF subject = "self" /\ participant.kind = "admin" THEN metadata.own ELSE Unnamed

\* What the answers leave open: another's boosts, another's rights in a basic group,
\* and the account's when it was no administrator as the first answer was made.
Lifts      == IF boosts = "unknown" THEN BOOLEAN ELSE {boosts = "reached"}
OwnRights  == IF metadata.type # "group" THEN {participant.rights}
              ELSE IF subject = "self" /\ metadata.own # {} THEN {metadata.own} ELSE Rights
PromotedMeanwhile ==
  metadata.type = "group" /\ subject = "self" /\ participant.kind = "admin" /\ metadata.own = {}

PermissionsTypeOK ==
  /\ chat \in ChatStates /\ person \in Persons /\ Fitting(chat, person)
  /\ subject \in {"self", "other"}
  /\ awaiting \in {"chat", "full", "participant", "end", "failed"}
  /\ metadata \in [type : Types, defaults : Restrictions, own : Rights \cup {{}}]
  /\ boosts \in {"none", "short", "reached", "unknown"}
  /\ participant \in Persons
  /\ snapshot.granted \subseteq Sending \cup AdminKeys /\ snapshot.denied \subseteq Sending \cup AdminKeys
  /\ snapshot.granted \cap snapshot.denied = {}
  /\ changes \in 0..MaxChanges

\* Every right the report states, it states as Telegram's rules have it for the
\* chat and the participant it was shown, whatever the answers leave open; of
\* someone whose part in the chat is unknown it states nothing.  Excepted are the
\* denials of an account promoted between the answers (UnknownIsOmitted).
ReportFounded ==
  awaiting = "end" =>
    /\ \A lifted \in Lifts, rights \in OwnRights :
         /\ \A k \in snapshot.granted : May(k, metadata, participant, rights, lifted)
         /\ \A k \in snapshot.denied :
              \/ ~May(k, metadata, participant, rights, lifted)
              \/ PromotedMeanwhile /\ k \in AdminKeys
    /\ participant.kind = "unknown" => snapshot = Nothing

\* What the documentation says of the report: effective rights that are unknown are
\* omitted, so that none is denied which the answers leave open.  The code does not
\* keep to it: the metadata of an account that is no administrator carries a set of
\* rights all the same, an empty one, and the promotion makes it the account's.
UnknownIsOmitted ==
  awaiting = "end" =>
    \A lifted \in Lifts, rights \in OwnRights, k \in snapshot.denied :
      ~May(k, metadata, participant, rights, lifted)

\* A chat with more restrictions, or a member with more of his own, never comes
\* out of the derivation with a right he would not have had.
RestrictionsTakeAway ==
  awaiting = "end" =>
    \A more \in Restrictions :
      LET Granted(defaults, personal) ==
            Snapshot(metadata.type, metadata.defaults \cup defaults, Role(participant), AdminAnswered,
                     InForce(participant) \cup personal, boosts).granted
      IN  /\ Granted(more, {}) \subseteq Granted({}, {})
          /\ Granted({}, more) \subseteq Granted({}, {})

\* The report of chat-permissions states only what the answers it was made of
\* establish, for every type of chat and every role.
ReportSound ==
  /\ PermissionsTypeOK
  /\ ReportFounded
  /\ RestrictionsTakeAway

================================================================================
