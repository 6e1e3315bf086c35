--------------------------- MODULE MCUpdateStore ---------------------------
EXTENDS UpdateStore

CONSTANTS User, Chan   \* a chat of the common stream, a channel

U(kind, chat, id) == [kind |-> kind, chat |-> chat, id |-> id]

\* One stream, its messages deleted, expired and recovered in every order, and
\* read markers.
OneStream ==
  [Streams ->
     { <<U("content", User, 1), U("deleted", NoChat, 1), U("content", User, 1)>>,
       <<U("deleted", NoChat, 1), U("content", User, 1), U("content", User, 2)>>,
       <<U("content", User, 1), U("expired", User, 1), U("content", User, 1)>>,
       <<U("expired", User, 1), U("deleted", NoChat, 1)>>,
       <<U("read", User, 1), U("read", User, 2)>> }]

\* A channel beside the account, with a message of the same number.
TwoStreams ==
  {[s \in Streams |->
      IF s = Common THEN <<U("content", User, 1), U("deleted", NoChat, 1)>>
      ELSE <<U("content", s, 1), U("deleted", s, 1)>>]}
====
