-------------------------------- MODULE MCChats --------------------------------
(* Instance for TLC of the modules about chats: backfill and sync, the commands *)
(* that list messages page by page, those that moderate a chat, and             *)
(* chat-permissions.  They share no state here, so a behaviour runs one of them *)
(* and leaves the others as they began.                                         *)
EXTENDS History, MessagePages, Moderation, Permissions

VARIABLE which \* the one that runs

OmittedIds == {3} \* the third message is a service message

SomeRestrictions == {{}, {"send_messages", "manage_topics"}, {"send_media", "send_plain", "pin_messages"}}
SomeRights == {{"delete_messages", "pin_messages"}, {"post_messages"}}

\* The one initial state a component has while another one runs.
NoPages ==
  /\ table = [n \in Numbers |-> Absent] /\ posts = [w \in Wheres |-> {}]
  /\ source = "cache"
  /\ query = CHOOSE q \in Listings("cache") : TRUE
NoModeration == default = {} /\ member = "member" /\ message = [i \in MessageIds |-> Deleted]
NoPermissions ==
  /\ chat = CHOOSE c \in ChatStates : \E p \in Persons : Fitting(c, p)
  /\ person = CHOOSE p \in Persons : Fitting(chat, p)
  /\ subject = "self"

MCInit ==
  /\ which \in {"history", "pages", "moderation", "permissions"}
  /\ which # "pages" => NoPages
  /\ which # "moderation" => NoModeration
  /\ which # "permissions" => NoPermissions
  /\ HistoryInit /\ PagesInit /\ ModerationInit /\ PermissionsInit

chatVars == <<histVars, pageVars, modVars>>

MCNext ==
  /\ UNCHANGED which
  /\ \/ which = "history" /\ HistoryNext /\ UNCHANGED <<pageVars, modVars, permVars>>
     \/ which = "pages" /\ PagesNext /\ UNCHANGED <<histVars, modVars, permVars>>
     \/ which = "moderation" /\ ModerationNext /\ UNCHANGED <<histVars, pageVars, permVars>>
     \/ which = "permissions" /\ PermissionsNext /\ UNCHANGED chatVars

MCSpec == MCInit /\ [][MCNext]_<<chatVars, permVars, which>>

\* No step of a command does more to a chat or its cache than it was asked: the cap
\* of a backfill, the restrictions that were not named, the messages of other chats.
NothingElseChanged ==
  CapHolds /\ UnrelatedKept /\ KickKeepsRestrictions /\ OtherChatIntact
================================================================================
