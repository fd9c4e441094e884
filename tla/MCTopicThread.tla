---------------------------- MODULE MCTopicThread ----------------------------
(* Small instances of TopicThread.                                         *)
EXTENDS TopicThread, TLC

Interchangeable == Permutations(Request)

=============================================================================
