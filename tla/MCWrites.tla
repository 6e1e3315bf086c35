-------------------------------- MODULE MCWrites --------------------------------
(* Instance for TLC of the pipeline and of the reader, whose callbacks are      *)
(* writes under keys.  They share no state here, so a behaviour runs one of     *)
(* them and leaves the other as it began.  What is interchangeable in each has  *)
(* the same names in both (invocations and requests, fingerprints and events),  *)
(* so that one symmetry set serves the two.                                     *)
EXTENDS MCWritePipeline, Reader

VARIABLE which \* the one that runs

\* The account and the chat the reader begins with are as good as any other.
OneReader == outside = [user |-> CHOOSE u \in Users : TRUE, peer |-> CHOOSE p \in ReaderPeers : TRUE]

MCInit ==
  /\ which \in {"pipeline", "reader"}
  /\ OneReader
  /\ PipelineInit /\ ReaderInit

MCNext ==
  /\ UNCHANGED which
  /\ \/ which = "pipeline" /\ Next /\ UNCHANGED readerVars
     \/ which = "reader" /\ ReaderNext /\ UNCHANGED vars

MCSpec == MCInit /\ [][MCNext]_<<vars, readerVars, which>>
================================================================================
