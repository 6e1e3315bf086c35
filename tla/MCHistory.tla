------------------------------ MODULE MCHistory ------------------------------
(* Instance of History for TLC: the third message is a service message. *)
EXTENDS History
OmittedIds == {3}
==============================================================================
