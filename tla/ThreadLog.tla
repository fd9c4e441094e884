------------------------------ MODULE ThreadLog ------------------------------
(***************************************************************************)
(* What a topic thread promises its reader: a conversation that only grows *)
(* at its end, or loses its last entry to a shorter reply, and of which a  *)
(* prefix at a time is folded into summaries.  Nothing that was folded is  *)
(* ever unfolded, and a deleted conversation never comes back.             *)
(***************************************************************************)
EXTENDS SequencesExt, Integers

CONSTANT Id  \* identities a message may have

VARIABLES log,     \* ids of the messages, oldest first
          folded,  \* ids of the messages some summary stands for
          gone     \* the topic has been deleted

vars == <<log, folded, gone>>

Init == log = <<>> /\ folded = {} /\ gone = FALSE

Say == \E id \in Id \ (ToSet(log) \cup folded) :
          log' = Append(log, id) /\ UNCHANGED <<folded, gone>>

DropReply == /\ log # <<>>
             /\ log' = Front(log)
             /\ UNCHANGED <<folded, gone>>

Fold == \E k \in 1 .. Len(log) :
           /\ folded' = folded \cup {log[i] : i \in 1 .. k}
           /\ folded' # folded
           /\ UNCHANGED <<log, gone>>

Delete == log' = <<>> /\ folded' = {} /\ gone' = TRUE

Next == ~gone /\ (Say \/ DropReply \/ Fold \/ Delete)

Spec == Init /\ [][Next]_vars

=============================================================================
