--------------------------- MODULE TopicThreadProofs ---------------------------
(***************************************************************************)
(* Proofs about TopicThread for every set of requests and every bound: the *)
(* type invariant, and the optimistic concurrency of topic_service.py.     *)
(*                                                                         *)
(* A matching version pins everything a writer read, so the counter it     *)
(* writes back is the length of the messages array.  That argument does    *)
(* not follow the actions one by one.  Two lemmas say what any step can do *)
(* to the document (Written) and to the document a request holds (Kept);   *)
(* the invariant follows from these alone.                                 *)
(***************************************************************************)
EXTENDS TopicThread, SequenceTheorems, WellFoundedInduction, TLAPS

\* What each request has counted so far, which AttemptsBounded rests on.
Counting == {"append", "appendWrite", "remove", "removeWrite", "answer",
             "answerWrite", "merge", "commit", "event"}

AttemptsInv ==
    \A p \in Request : /\ pc[p] \notin Counting => att[p] = 0
                       /\ pc[p] = "merge" => att[p] < MaxMerges

\* A close that has called the LLM has messages to fold.
SessionInv ==
    \A p \in Request :
        pc[p] = "summarise" => SessionAt(snap[p], upto[p]) # {}

TypeInv ==
    SharedType /\ LocalType /\ AttemptsBounded /\ AttemptsInv /\ SessionInv

-----------------------------------------------------------------------------
(* The data the actions build is well typed.                               *)

\* Setting a quiz field by index keeps a thread well typed, whatever the index.
LEMMA QuizPickType ==
    ASSUME NEW s \in Seq(Message), NEW i, NEW q \in Quiz
    PROVE  /\ [s EXCEPT ![i].quiz = q] \in Seq(Message)
           /\ Len([s EXCEPT ![i].quiz = q]) = Len(s)
<1>1. /\ DOMAIN [s EXCEPT ![i].quiz = q] = 1 .. Len(s)
      /\ Len(s) \in Nat
  OBVIOUS
<1>2. ASSUME NEW j \in 1 .. Len(s)
      PROVE  [s EXCEPT ![i].quiz = q][j] \in Message
  <2>1. s[j] \in Message
    OBVIOUS
  <2>2. [s[j] EXCEPT !.quiz = q] \in Message
    BY <2>1 DEF Message
  <2> QED
    BY <2>1, <2>2
<1>3. [s EXCEPT ![i].quiz = q] \in [1 .. Len(s) -> Message]
  BY <1>1, <1>2
<1> QED
  BY <1>3, <1>1, LenProperties, SeqDef

\* Front drops exactly the last entry of a nonempty thread.
LEMMA FrontType ==
    ASSUME NEW s \in Seq(Message)
    PROVE  /\ Front(s) \in Seq(Message)
           /\ s # <<>> => /\ Len(Front(s)) = Len(s) - 1
                          /\ \A i \in 1 .. Len(s) - 1 : Front(s)[i] = s[i]
<1> DEFINE n == Len(s) - 1
<1>1. Front(s) = SubSeq(s, 1, n)
  BY DEF Front
<1>2. CASE s # <<>>
  <2>1. n \in 0 .. Len(s)
    BY <1>2
  <2> HIDE DEF n
  <2>2. SubSeq(s, 1, n) \in Seq(Message) /\ Len(SubSeq(s, 1, n)) = n
    BY <2>1
  <2>3. \A i \in 1 .. n : SubSeq(s, 1, n)[i] = s[i]
    BY <2>1
  <2> QED
    BY <1>1, <2>2, <2>3 DEF n
<1>3. CASE s = <<>>
  <2>1. n \in Int /\ n < 1
    BY <1>3
  <2> HIDE DEF n
  <2>2. SubSeq(s, 1, n) = <<>>
    BY <2>1, SubSeqEmpty
  <2> QED
    BY <1>1, <1>3, <2>2
<1> QED
  BY <1>2, <1>3

\* $set and $push keep the document well typed.
LEMMA UpdateType ==
    ASSUME NEW doc \in TopicDoc, NEW ms \in Seq(Message),
           NEW n \in Nat, NEW v \in Nat
    PROVE  [doc EXCEPT !.messages = ms, !.total = n, !.version = v] \in TopicDoc
BY DEF TopicDoc

\* Recording a pick changes one quiz field and the version.
LEMMA PickType ==
    ASSUME NEW doc \in TopicDoc, NEW i, NEW q \in Quiz, NEW v \in Nat
    PROVE  /\ [doc EXCEPT !.messages[i].quiz = q, !.version = v] \in TopicDoc
           /\ Len([doc EXCEPT !.messages[i].quiz = q,
                              !.version = v].messages) = Len(doc.messages)
<1>1. doc.messages \in Seq(Message)
  BY DEF TopicDoc
<1> DEFINE ms == [doc.messages EXCEPT ![i].quiz = q]
<1>2. ms \in Seq(Message) /\ Len(ms) = Len(doc.messages)
  BY <1>1, QuizPickType
<1>3. [doc EXCEPT !.messages[i].quiz = q, !.version = v].messages = ms
  BY DEF TopicDoc
<1>4. [doc EXCEPT !.messages[i].quiz = q, !.version = v] \in TopicDoc
  BY <1>2 DEF TopicDoc
<1> QED
  BY <1>2, <1>3, <1>4

\* The documents an append, a removal and a pick write are well typed.
LEMMA WrittenType ==
    ASSUME SharedType, LocalType, NEW p \in Request
    PROVE  /\ Appended(p) \in TopicDoc
           /\ Removed(p) \in TopicDoc
           /\ Answered(p) \in TopicDoc
<1>1. /\ topic \in TopicDoc /\ snap[p] \in TopicDoc
      /\ topic.messages \in Seq(Message)
      /\ snap[p].total \in Nat /\ snap[p].version \in Nat /\ topic.total \in Nat
      /\ msg[p] \in Message /\ msg[p].quiz \in Quiz
  BY DEF SharedType, LocalType, TopicDoc, Message
<1>2. Appended(p) \in TopicDoc
  <2>1. Append(topic.messages, msg[p]) \in Seq(Message)
    BY <1>1
  <2>2. snap[p].total + 1 \in Nat /\ snap[p].version + 1 \in Nat
    BY <1>1
  <2> QED
    BY <1>1, <2>1, <2>2, UpdateType, Zenon DEF Appended
<1>3. Removed(p) \in TopicDoc
  <2>1. Front(topic.messages) \in Seq(Message)
    BY <1>1, FrontType
  <2>2. /\ (IF snap[p].total = 0 THEN 0 ELSE snap[p].total - 1) \in Nat
        /\ snap[p].version + 1 \in Nat
    BY <1>1
  <2> QED
    BY <1>1, <2>1, <2>2, UpdateType, Zenon DEF Removed
<1>4. Answered(p) \in TopicDoc
  <2>1. snap[p].version + 1 \in Nat
    BY <1>1
  <2> QED
    BY <1>1, <2>1, PickType, Zenon DEF Answered
<1> QED
  BY <1>2, <1>3, <1>4

\* A nonempty set of numbers has a least one.
LEMMA Least ==
    ASSUME NEW T, T \subseteq Nat, T # {}
    PROVE  \E x \in T : \A y \in T : x <= y
<1> DEFINE R == OpToRel(<, Nat)
<1>1. IsWellFoundedOn(R, Nat)
  BY NatLessThanWellFounded
<1>2. \A x, y \in Nat : <<y, x>> \in R <=> y < x
  BY DEF OpToRel
<1> HIDE DEF R
<1>3. PICK x \in T : \A y \in T : <<y, x>> \notin R
  BY <1>1, WFMin
<1>4. \A y \in T : ~(y < x)
  BY <1>2, <1>3, Zenon
<1> QED
  BY <1>4

\* The block of a session, and the block two blocks merge into.
LEMMA NewBlockType ==
    ASSUME TypeInv, NEW p \in Request, pc[p] = "summarise", NEW w \in Words
    PROVE  NewBlock(p, w) \in Block /\ SessionIds(p) \subseteq Nat
<1> DEFINE s == SessionAt(snap[p], upto[p])
<1>1. /\ snap[p].messages \in Seq(Message) /\ s # {}
      /\ s \subseteq DOMAIN snap[p].messages
  BY DEF TypeInv, LocalType, TopicDoc, SessionInv, SessionAt
<1>2. DOMAIN snap[p].messages \subseteq Nat
  BY <1>1
<1>3. \A i \in s : snap[p].messages[i].id \in Nat /\ snap[p].messages[i].ts \in Nat
  <2>1. \A i \in DOMAIN snap[p].messages : snap[p].messages[i] \in Message
    BY <1>1
  <2> QED
    BY <1>1, <2>1 DEF Message
<1>4. PICK first \in s : \A j \in s : first <= j
  BY <1>1, <1>2, Least, Zenon
<1>5. (CHOOSE i \in s : \A j \in s : i <= j) \in s
  BY <1>4
<1>6. SessionIds(p) \subseteq Nat
  BY <1>3 DEF SessionIds
<1>7. nextId \in Nat /\ w \in Nat
  BY NatAssumption DEF TypeInv, SharedType
<1> HIDE DEF s
<1>8. snap[p].messages[CHOOSE i \in s : \A j \in s : i <= j].ts \in Nat
  BY <1>3, <1>5
<1> QED
  BY <1>6, <1>7, <1>8 DEF NewBlock, Block, s

LEMMA MergedBlockType ==
    ASSUME NEW a \in Block, NEW b \in Block, NEW id \in Nat, NEW w \in Nat
    PROVE  MergedBlock(a, b, id, w) \in Block
BY DEF MergedBlock, Block

LEMMA NoMessageType == NoMessage \in Message /\ Gone \in TopicDoc
BY DEF NoMessage, Message, Quiz, Gone, TopicDoc, Title

\* What the end of a handler leaves in order.
LEMMA FinishType ==
    ASSUME LocalType, AttemptsBounded, AttemptsInv, SessionInv,
           NEW p \in Request, Finish(p)
    PROVE  LocalType' /\ AttemptsBounded' /\ AttemptsInv' /\ SessionInv'
<1>1. NoMessage \in Message /\ Gone \in TopicDoc
  BY NoMessageType
<1>2. LocalType'
  BY <1>1 DEF LocalType, Finish, PC
<1>3. AttemptsBounded'
  BY NatAssumption DEF AttemptsBounded, Finish, LocalType, Closing
<1>4. AttemptsInv'
  BY DEF AttemptsInv, Finish, LocalType, Counting
<1>5. SessionInv'
  <2> SUFFICES ASSUME NEW q \in Request, pc'[q] = "summarise"
               PROVE  SessionAt(snap'[q], upto'[q]) # {}
    BY DEF SessionInv
  <2>1. q # p /\ pc[q] = "summarise" /\ snap'[q] = snap[q] /\ upto'[q] = upto[q]
    BY DEF Finish, LocalType
  <2> QED
    BY <2>1 DEF SessionInv
<1> QED
  BY <1>2, <1>3, <1>4, <1>5

LEMMA TypeInit == Init => TypeInv
<1> SUFFICES ASSUME Init PROVE TypeInv
  OBVIOUS
<1>1. NoMessage \in Message /\ Gone \in TopicDoc
  BY NoMessageType
<1>2. SharedType
  <2>1. topic \in TopicDoc
    BY DEF Init, NewTitles, TopicDoc, Title
  <2>2. /\ rows \subseteq Cascade /\ credited \subseteq Nat
        /\ dropped \subseteq Nat
    BY DEF Init
  <2>3. inProgress \in BOOLEAN /\ clock \in Nat /\ nextId \in Nat
    BY DEF Init
  <2> QED
    BY <2>1, <2>2, <2>3 DEF SharedType
<1>3. LocalType
  BY <1>1 DEF Init, LocalType, PC
<1>4. AttemptsBounded
  BY NatAssumption DEF Init, AttemptsBounded, Closing
<1>5. AttemptsInv /\ SessionInv
  BY DEF Init, AttemptsInv, SessionInv
<1> QED
  BY <1>2, <1>3, <1>4, <1>5 DEF TypeInv

LEMMA LastType ==
    ASSUME NEW s \in Seq(Message), s # <<>>
    PROVE  Last(s) \in Message
<1>1. Len(s) \in 1 .. Len(s)
  OBVIOUS
<1>2. s[Len(s)] \in Message
  BY <1>1, ElementOfSeq
<1> QED
  BY <1>2 DEF Last

\* Every step of the system keeps the inductive type invariant.
\* A write of the status or of the title: no message, no block, no version.
\* Only the learner renames a topic that has a name.
Relabels ==
    /\ Exists /\ Exists'
    /\ topic'.messages = topic.messages
    /\ topic'.blocks = topic.blocks
    /\ topic'.total = topic.total
    /\ topic'.version = topic.version
    /\ topic'.title = topic.title \/ topic.title = "unnamed" \/ Rename

LEMMA ArchivedRelabels ==
    ASSUME SharedType, Exists, topic' = [topic EXCEPT !.status = "archived"]
    PROVE  Relabels /\ topic' \in TopicDoc
BY DEF SharedType, TopicDoc, Relabels, Exists

LEMMA TitledRelabels ==
    ASSUME SharedType, Exists, NEW title \in Title,
           topic.title = "unnamed" \/ Rename,
           topic' = [topic EXCEPT !.title = title]
    PROVE  Relabels /\ topic' \in TopicDoc
BY DEF SharedType, TopicDoc, Relabels, Exists

\* A close renames the topic, or leaves it as it is.
LEMMA SummariseRelabels ==
    ASSUME SharedType, LocalType, NEW p \in Request, Summarise(p)
    PROVE  (topic' = topic \/ Relabels) /\ topic' \in TopicDoc
<1>1. PICK title \in ResultTitles(p) : topic' = Renamed(p, title)
  BY DEF Summarise
<1>2. title \in Title
  BY <1>1 DEF ResultTitles, LocalType, TopicDoc, Title
<1>3. \/ topic' = topic
      \/ /\ Exists /\ topic.title = "unnamed"
         /\ topic' = [topic EXCEPT !.title = title]
  BY <1>1 DEF Renamed
<1> QED
  BY <1>2, <1>3, TitledRelabels DEF SharedType

LEMMA RenameRelabels ==
    ASSUME SharedType, Rename
    PROVE  Relabels /\ topic' \in TopicDoc
<1>1. PICK title \in {"unnamed", "chosen"} :
          topic' = [topic EXCEPT !.title = title]
  BY DEF Rename
<1> QED
  BY <1>1, TitledRelabels DEF Rename, Title

LEMMA TypeStep == TypeInv /\ [Next]_vars => TypeInv'
<1> SUFFICES ASSUME TypeInv, [Next]_vars
             PROVE  TypeInv'
  OBVIOUS
<1> QED
  <2> USE NatAssumption DEF TypeInv
  <2>1. ASSUME NEW p \in Request, BeginTurn(p)
        PROVE  TypeInv'
    <3>1. [id |-> nextId, role |-> "user", ts |-> clock,
           quiz |-> "none"] \in Message
      BY DEF SharedType, Message, Quiz
    <3> QED
      BY <2>1, <3>1 DEF BeginTurn, shared, Goto, SharedType, LocalType,
         AttemptsBounded, AttemptsInv, SessionInv, PC, Counting, Closing
  <2>2. ASSUME NEW p \in Request, BeginRegenerate(p)
        PROVE  TypeInv'
    <3>1. topic.messages \in Seq(Message) /\ topic.messages # <<>>
      BY <2>2 DEF BeginRegenerate, Regenerable, SharedType, TopicDoc
    <3>2. Last(topic.messages) \in Message
      BY <3>1, LastType
    <3> QED
      BY <2>2, <3>1, <3>2 DEF BeginRegenerate, shared, Goto, SharedType,
         LocalType, AttemptsBounded, AttemptsInv, SessionInv, PC, Counting,
         Closing
  <2>3. ASSUME NEW p \in Request, AppendRead(p)
        PROVE  TypeInv'
    <3>1. CASE Accepts(topic, msg[p])
      <4>1. /\ pc[p] = "append" /\ pc' = [pc EXCEPT ![p] = "appendWrite"]
            /\ snap' = [snap EXCEPT ![p] = topic]
            /\ UNCHANGED <<msg, att, upto, work>>
            /\ UNCHANGED <<topic, rows, credited, dropped, inProgress, clock,
                        nextId>>
        BY <2>3, <3>1 DEF AppendRead, shared, Goto
      <4>2. SharedType'
        BY <4>1 DEF SharedType
      <4>3. LocalType'
        BY <4>1 DEF SharedType, LocalType, PC, Reread, Writing, Closing
      <4>4. AttemptsBounded' /\ AttemptsInv' /\ SessionInv'
        BY <4>1 DEF LocalType, AttemptsBounded, AttemptsInv, SessionInv,
           Counting, Closing
      <4> QED
        BY <4>2, <4>3, <4>4
    <3>2. CASE ~Accepts(topic, msg[p])
      BY <2>3, <3>2, FinishType DEF AppendRead, SharedType, shared
    <3> QED
      BY <2>3, <3>1, <3>2 DEF AppendRead
  <2>4. ASSUME NEW p \in Request, AppendWrite(p)
        PROVE  TypeInv'
    BY <2>4, NoMessageType, WrittenType DEF AppendWrite, shared, Goto,
       SharedType, LocalType, AttemptsBounded, AttemptsInv, SessionInv, PC,
       Counting, Closing
  <2>5. ASSUME NEW p \in Request, RemoveRead(p)
        PROVE  TypeInv'
    <3>1. CASE Removable(topic, msg[p].id)
      <4>1. /\ pc[p] = "remove" /\ pc' = [pc EXCEPT ![p] = "removeWrite"]
            /\ snap' = [snap EXCEPT ![p] = topic]
            /\ UNCHANGED <<msg, att, upto, work>>
            /\ UNCHANGED <<topic, rows, credited, dropped, inProgress, clock,
                        nextId>>
        BY <2>5, <3>1 DEF RemoveRead, shared, Goto
      <4>2. SharedType'
        BY <4>1 DEF SharedType
      <4>3. LocalType'
        BY <4>1 DEF SharedType, LocalType, PC, Reread, Writing, Closing
      <4>4. AttemptsBounded' /\ AttemptsInv' /\ SessionInv'
        BY <4>1 DEF LocalType, AttemptsBounded, AttemptsInv, SessionInv,
           Counting, Closing
      <4> QED
        BY <4>2, <4>3, <4>4
    <3>2. CASE ~Removable(topic, msg[p].id)
      BY <2>5, <3>2, FinishType DEF RemoveRead, SharedType, shared
    <3> QED
      BY <2>5, <3>1, <3>2 DEF RemoveRead
  <2>6. ASSUME NEW p \in Request, RemoveWrite(p)
        PROVE  TypeInv'
    BY <2>6, NoMessageType, WrittenType DEF RemoveWrite, shared, Goto,
       SharedType, LocalType, AttemptsBounded, AttemptsInv, SessionInv, PC,
       Counting, Closing
  <2>7. ASSUME NEW p \in Request, Reply(p)
        PROVE  TypeInv'
    <3>1. \A q \in {"none", "open"} :
            [id |-> nextId, role |-> "assistant", ts |-> clock, quiz |-> q]
              \in Message
      BY DEF SharedType, Message, Quiz
    <3> QED
      BY <2>7, <3>1 DEF Reply, shared, Goto, SharedType, LocalType,
         AttemptsBounded, AttemptsInv, SessionInv, PC, Counting, Closing
  <2>8. ASSUME NEW p \in Request, BeginAnswer(p)
        PROVE  TypeInv'
    <3>1. \A i \in DOMAIN topic.messages : topic.messages[i] \in Message
      BY DEF SharedType, TopicDoc
    <3>2. \A i \in DOMAIN topic.messages, pick \in Picks :
            [topic.messages[i] EXCEPT !.quiz = pick] \in Message
      BY <3>1 DEF Message, Quiz
    <3> QED
      BY <2>8, <3>1, <3>2 DEF BeginAnswer, shared, Goto, SharedType,
         LocalType, AttemptsBounded, AttemptsInv, SessionInv, PC, Counting,
         Closing
  <2>9. ASSUME NEW p \in Request, AnswerRead(p)
        PROVE  TypeInv'
    <3>1. CASE Answerable(topic, msg[p].id)
      <4>1. /\ pc[p] = "answer" /\ pc' = [pc EXCEPT ![p] = "answerWrite"]
            /\ snap' = [snap EXCEPT ![p] = topic]
            /\ UNCHANGED <<msg, att, upto, work>>
            /\ UNCHANGED <<topic, rows, credited, dropped, inProgress, clock,
                        nextId>>
        BY <2>9, <3>1 DEF AnswerRead, shared, Goto
      <4>2. SharedType'
        BY <4>1 DEF SharedType
      <4>3. LocalType'
        BY <4>1 DEF SharedType, LocalType, PC, Reread, Writing, Closing
      <4>4. AttemptsBounded' /\ AttemptsInv' /\ SessionInv'
        BY <4>1 DEF LocalType, AttemptsBounded, AttemptsInv, SessionInv,
           Counting, Closing
      <4> QED
        BY <4>2, <4>3, <4>4
    <3>2. CASE ~Answerable(topic, msg[p].id)
      BY <2>9, <3>2, FinishType DEF AnswerRead, SharedType, shared
    <3> QED
      BY <2>9, <3>1, <3>2 DEF AnswerRead
  <2>10. ASSUME NEW p \in Request, AnswerWrite(p)
        PROVE  TypeInv'
    BY <2>10, FinishType, WrittenType DEF AnswerWrite, SharedType, shared
  <2>11. ASSUME NEW p \in Request, Conflict(p)
        PROVE  TypeInv'
    <3>1. CASE RetriesLeft(att[p])
      <4>1. /\ pc[p] \in Writing /\ att[p] + 1 < MaxRetries
            /\ pc' = [pc EXCEPT ![p] = Reread[pc[p]]]
            /\ att' = [att EXCEPT ![p] = att[p] + 1]
            /\ snap' = [snap EXCEPT ![p] = Gone]
            /\ UNCHANGED <<topic, rows, credited, dropped, inProgress, clock, nextId,
                            msg, upto, work>>
        BY <2>11, <3>1 DEF Conflict, RetriesLeft, shared, Goto
      <4>2. SharedType'
        BY <4>1 DEF SharedType
      <4>3. LocalType'
        BY <4>1, NoMessageType DEF SharedType, LocalType, PC, Reread, Writing,
           Closing
      <4>4. AttemptsBounded' /\ AttemptsInv' /\ SessionInv'
        BY <4>1 DEF LocalType, AttemptsBounded, AttemptsInv, SessionInv,
           Reread, Writing, Counting, Closing
      <4> QED
        BY <4>2, <4>3, <4>4
    <3>2. CASE ~RetriesLeft(att[p])
      BY <2>11, <3>2, FinishType DEF Conflict, RetriesLeft, SharedType, shared
    <3> QED
      BY <2>11, <3>1, <3>2 DEF Conflict
  <2>12. ASSUME NEW p \in Request, BeginArchive(p)
        PROVE  TypeInv'
    BY <2>12 DEF BeginArchive, shared, Goto, SharedType, LocalType,
       AttemptsBounded, AttemptsInv, SessionInv, PC, Counting, Closing
  <2>13. ASSUME NEW p \in Request, Archive(p)
        PROVE  TypeInv'
    <3>1. [topic EXCEPT !.status = "archived"] \in TopicDoc
      BY DEF SharedType, TopicDoc
    <3> QED
      BY <2>13, <3>1, FinishType DEF Archive, SharedType, shared
  <2>14. ASSUME NEW p \in Request, BeginDelete(p)
        PROVE  TypeInv'
    BY <2>14 DEF BeginDelete, shared, Goto, SharedType, LocalType,
       AttemptsBounded, AttemptsInv, SessionInv, PC, Counting, Closing
  <2>15. ASSUME NEW p \in Request, DeleteEvents(p)
        PROVE  TypeInv'
    BY <2>15 DEF DeleteEvents, CascadeStep, shared, Goto, SharedType,
       LocalType, AttemptsBounded, AttemptsInv, SessionInv, PC, Counting,
       Closing
  <2>16. ASSUME NEW p \in Request, DeleteContexts(p)
        PROVE  TypeInv'
    BY <2>16 DEF DeleteContexts, CascadeStep, shared, Goto, SharedType,
       LocalType, AttemptsBounded, AttemptsInv, SessionInv, PC, Counting,
       Closing
  <2>17. ASSUME NEW p \in Request, DeleteTopic(p)
        PROVE  TypeInv'
    BY <2>17, FinishType, NoMessageType DEF DeleteTopic, SharedType, shared
  <2>18. ASSUME NEW p \in Request, BeginClose(p)
        PROVE  TypeInv'
    <3>1. Last(topic.messages).ts \in Nat /\ clock \in Nat
      BY <2>18, LastType DEF BeginClose, SharedType, TopicDoc, Message
    <3> QED
      BY <2>18, <3>1 DEF BeginClose, shared, Goto, SharedType, LocalType,
         AttemptsBounded, AttemptsInv, SessionInv, PC, Counting, Closing
  <2>19. ASSUME NEW p \in Request, Hook(p)
        PROVE  TypeInv'
    <3>1. CASE Overlong(topic)
      <4>1. /\ pc[p] = "hook" /\ pc' = [pc EXCEPT ![p] = "close"]
            /\ UNCHANGED <<msg, snap, att, upto, work>>
            /\ UNCHANGED <<topic, rows, credited, dropped, inProgress, clock,
                        nextId>>
        BY <2>19, <3>1 DEF Hook, shared, Goto
      <4>2. SharedType'
        BY <4>1 DEF SharedType
      <4>3. LocalType'
        BY <4>1 DEF SharedType, LocalType, PC, Reread, Writing, Closing
      <4>4. AttemptsBounded' /\ AttemptsInv' /\ SessionInv'
        BY <4>1 DEF LocalType, AttemptsBounded, AttemptsInv, SessionInv,
           Counting, Closing
      <4> QED
        BY <4>2, <4>3, <4>4
    <3>2. CASE ~Overlong(topic)
      BY <2>19, <3>2, FinishType DEF Hook, SharedType, shared
    <3> QED
      BY <2>19, <3>1, <3>2 DEF Hook
  <2>20. ASSUME NEW p \in Request, EnterClose(p)
        PROVE  TypeInv'
    <3>1. CASE ~inProgress
      <4>1. /\ pc[p] = "close" /\ pc' = [pc EXCEPT ![p] = "closeRead"]
            /\ inProgress' = TRUE /\ UNCHANGED <<msg, snap, att, upto, work>>
            /\ UNCHANGED <<topic, rows, credited, dropped, clock, nextId>>
        BY <2>20, <3>1 DEF EnterClose, shared, Goto
      <4>2. SharedType'
        BY <4>1 DEF SharedType
      <4>3. LocalType'
        BY <4>1 DEF SharedType, LocalType, PC, Reread, Writing, Closing
      <4>4. AttemptsBounded' /\ AttemptsInv' /\ SessionInv'
        BY <4>1 DEF LocalType, AttemptsBounded, AttemptsInv, SessionInv,
           Counting, Closing
      <4> QED
        BY <4>2, <4>3, <4>4
    <3>2. CASE inProgress
      BY <2>20, <3>2, FinishType DEF EnterClose, SharedType, shared
    <3> QED
      BY <2>20, <3>1, <3>2 DEF EnterClose
  <2>21. ASSUME NEW p \in Request, CloseRead(p)
        PROVE  TypeInv'
    <3>1. CASE SessionAt(topic, upto[p]) # {}
      <4>1. /\ pc[p] = "closeRead" /\ pc' = [pc EXCEPT ![p] = "summarise"]
            /\ snap' = [snap EXCEPT ![p] = topic]
            /\ UNCHANGED <<msg, att, upto, work>>
            /\ UNCHANGED <<topic, rows, credited, dropped, inProgress, clock,
                        nextId>>
        BY <2>21, <3>1 DEF CloseRead, Leave, shared, Goto
      <4>2. SharedType'
        BY <4>1 DEF SharedType
      <4>3. LocalType'
        BY <4>1 DEF SharedType, LocalType, PC, Reread, Writing, Closing
      <4>4. AttemptsBounded' /\ AttemptsInv' /\ SessionInv'
        BY <4>1, <3>1 DEF LocalType, AttemptsBounded, AttemptsInv, SessionInv,
           Counting, Closing
      <4> QED
        BY <4>2, <4>3, <4>4
    <3>2. CASE SessionAt(topic, upto[p]) = {}
      BY <2>21, <3>2, FinishType DEF CloseRead, Leave, SharedType, shared
    <3> QED
      BY <2>21, <3>1, <3>2 DEF CloseRead
  <2>22. ASSUME NEW p \in Request, Summarise(p)
        PROVE  TypeInv'
    <3>1. PICK w \in Words :
            /\ work' = [work EXCEPT ![p] = snap[p].blocks \cup {NewBlock(p, w)}]
            /\ Goto(p, AfterMerge(work'[p], 0))
      BY <2>22 DEF Summarise
    <3>2. snap[p].blocks \cup {NewBlock(p, w)} \in SUBSET Block
      BY <2>22, NewBlockType DEF Summarise, LocalType, TopicDoc
    <3>3. SessionIds(p) \subseteq Nat
      BY <2>22, NewBlockType DEF Summarise
    <3>4. /\ credited' \subseteq credited \cup SessionIds(p)
          /\ dropped' \subseteq dropped \cup SessionIds(p)
          /\ nextId' = nextId + 1
          /\ UNCHANGED <<rows, inProgress, clock>>
      BY <2>22 DEF Summarise, Lessons, LessonsLost
    <3>5. credited \subseteq Nat /\ dropped \subseteq Nat /\ nextId \in Nat
      BY DEF SharedType
    <3>6. credited' \subseteq Nat /\ dropped' \subseteq Nat
      BY <3>3, <3>4, <3>5, Zenon
    <3>7. SharedType'
      BY <2>22, <3>4, <3>5, <3>6, SummariseRelabels DEF SharedType
    <3>8. /\ AfterMerge(work'[p], 0) \in {"merge", "commit"}
          /\ AfterMerge(work'[p], 0) = "merge" => 0 < MaxMerges
      BY DEF AfterMerge, MustMerge
    <3> HIDE DEF TypeInv
    <3>9. LocalType'
      BY <2>22, <3>1, <3>2, <3>8 DEF Summarise, Goto, TypeInv, LocalType, PC,
         Closing
    <3>10. AttemptsBounded' /\ AttemptsInv' /\ SessionInv'
      BY <2>22, <3>1, <3>8 DEF Summarise, Goto, TypeInv, LocalType,
         AttemptsBounded, AttemptsInv, SessionInv, Counting, Closing
    <3> QED
      BY <3>7, <3>9, <3>10 DEF TypeInv
  <2>23. ASSUME NEW p \in Request, MergeBlocks(p)
        PROVE  TypeInv'
    <3>1. PICK a \in work[p], b \in work[p], w \in Words :
            /\ work' = [work EXCEPT ![p] =
                          {c \in @ : c.id \notin {a.id, b.id}}
                              \cup {MergedBlock(a, b, nextId, w)}]
            /\ Goto(p, AfterMerge(work'[p], att[p] + 1))
      BY <2>23 DEF MergeBlocks
    <3>2. MergedBlock(a, b, nextId, w) \in Block /\ work[p] \in SUBSET Block
      BY MergedBlockType DEF SharedType, LocalType
    <3>3. /\ AfterMerge(work'[p], att[p] + 1) \in {"merge", "commit"}
          /\ AfterMerge(work'[p], att[p] + 1) = "merge" => att[p] + 1 < MaxMerges
      BY DEF AfterMerge, MustMerge
    <3>4. att[p] \in Nat /\ att[p] < MaxMerges
      BY <2>23 DEF MergeBlocks, LocalType, AttemptsInv
    <3>5. SharedType'
      BY <2>23 DEF MergeBlocks, SharedType
    <3>6. LocalType'
      BY <2>23, <3>1, <3>2, <3>3, <3>4 DEF MergeBlocks, Goto, LocalType, PC,
         Closing
    <3>7. /\ pc' = [pc EXCEPT ![p] = AfterMerge(work'[p], att[p] + 1)]
          /\ att' = [att EXCEPT ![p] = att[p] + 1]
          /\ UNCHANGED <<snap, upto>>
      BY <2>23, <3>1 DEF MergeBlocks, Goto
    <3>8. AttemptsBounded' /\ AttemptsInv'
      BY <3>7, <3>3, <3>4 DEF LocalType, AttemptsBounded, AttemptsInv,
         Counting, Closing
    <3>9. SessionInv'
      BY <3>7, <3>3 DEF LocalType, SessionInv
    <3> QED
      BY <3>5, <3>6, <3>8, <3>9
  <2>24. ASSUME NEW p \in Request, MergeFails(p)
        PROVE  TypeInv'
    BY <2>24 DEF MergeFails, shared, Goto, SharedType, LocalType,
       AttemptsBounded, AttemptsInv, SessionInv, PC, Counting, Closing
  <2>25. ASSUME NEW p \in Request, Commit(p)
        PROVE  TypeInv'
    <3>1. work[p] \in SUBSET Block /\ snap[p].version + 1 \in Nat
      BY DEF LocalType, TopicDoc
    <3>2. [topic EXCEPT !.blocks = work[p], !.version = snap[p].version + 1]
            \in TopicDoc
      BY <3>1 DEF SharedType, TopicDoc
    <3> QED
      BY <2>25, <3>1, <3>2 DEF Commit, shared, Goto, SharedType, LocalType,
         AttemptsBounded, AttemptsInv, SessionInv, PC, Counting, Closing
  <2>26. ASSUME NEW p \in Request, CommitLost(p)
        PROVE  TypeInv'
    BY <2>26, FinishType DEF CommitLost, Leave, SharedType, shared
  <2>27. ASSUME NEW p \in Request, RecordEvent(p)
        PROVE  TypeInv'
    BY <2>27, FinishType DEF RecordEvent, Leave, Cascade, SharedType, shared
  <2>28. ASSUME NEW p \in Request, LLMFails(p)
        PROVE  TypeInv'
    BY <2>28, FinishType DEF LLMFails, SharedType, shared
  <2>29. ASSUME NEW p \in Request, Abort(p)
        PROVE  TypeInv'
    BY <2>29, FinishType DEF Abort, SharedType, shared
  <2>30. ASSUME Upload
        PROVE  TypeInv'
    BY <2>30 DEF Upload, Cascade, shared, Goto, SharedType, LocalType,
       AttemptsBounded, AttemptsInv, SessionInv, PC, Counting, Closing
  <2>31. ASSUME Restart
        PROVE  TypeInv'
    <3>1. /\ pc' = [q \in Request |-> "idle"]
          /\ att' = [q \in Request |-> 0]
      BY <2>31 DEF Restart
    <3>2. LocalType'
      BY <2>31, NoMessageType DEF Restart, LocalType, PC
    <3>3. AttemptsBounded' /\ AttemptsInv' /\ SessionInv'
      BY <3>1 DEF AttemptsBounded, AttemptsInv, SessionInv, Closing
    <3> QED
      BY <2>31, <3>1, <3>2, <3>3 DEF Restart, shared, Goto, SharedType,
         LocalType, AttemptsBounded, AttemptsInv, SessionInv, PC, Counting,
         Closing
  <2>32. ASSUME Tick
        PROVE  TypeInv'
    BY <2>32 DEF Tick, shared, Goto, SharedType, LocalType, AttemptsBounded,
           AttemptsInv, SessionInv, PC, Counting, Closing
  <2>33. ASSUME UNCHANGED vars
        PROVE  TypeInv'
    BY <2>33 DEF vars, SharedType, LocalType, AttemptsBounded, AttemptsInv,
       SessionInv
  <2>34. ASSUME Rename
        PROVE  TypeInv'
    <3>1. topic' \in TopicDoc /\ UNCHANGED <<shared, pc, msg, snap, att, upto, work>>
      BY <2>34, RenameRelabels DEF Rename
    <3> QED
      BY <3>1 DEF shared, SharedType, LocalType, AttemptsBounded, AttemptsInv,
         SessionInv
  <2> QED
    BY <2>1, <2>2, <2>3, <2>4, <2>5, <2>6, <2>7, <2>8, <2>9, <2>10,
       <2>11, <2>12, <2>13, <2>14, <2>15, <2>16, <2>17, <2>18, <2>19,
       <2>20, <2>21, <2>22, <2>23, <2>24, <2>25, <2>26, <2>27, <2>28,
       <2>29, <2>30, <2>31, <2>32, <2>33, <2>34 DEF Next, Begin, Step

\* TypeOK is an invariant: in particular no request ever retries a lost
\* version race MAX_RETRIES times, and no close merges more than
\* MAX_MERGE_PASSES_PER_CLOSE times, however many requests interleave.
THEOREM TypeCorrect == Spec => []TypeOK
<1>1. TypeInv => TypeOK
  BY DEF TypeInv, TypeOK
<1> QED
  BY <1>1, TypeInit, TypeStep, PTL DEF Spec

-----------------------------------------------------------------------------
(* The versions.                                                           *)

\* Places in which a request holds a document it has read.
Held == Writing \cup {"summarise", "merge", "commit"}

GoneInv == ~Exists => topic = Gone

HeldInv ==
    \A p \in Request :
        /\ pc[p] \in Held => snap[p].status # "gone"
        /\ pc[p] = "removeWrite" => Removable(snap[p], msg[p].id)

VersionInv == TypeInv /\ GoneInv /\ HeldInv /\ VersionPins /\ CountMatches

-----------------------------------------------------------------------------
(* What a step does to the document.                                       *)

Committed(p) == [topic EXCEPT !.blocks = work[p],
                              !.version = snap[p].version + 1]

Written ==
    \/ topic' = topic
    \/ topic' = Gone
    \/ Relabels
    \/ \E p \in Request :
          /\ Matches(p)
          /\ \/ pc[p] = "appendWrite" /\ topic' = Appended(p)
             \/ pc[p] = "removeWrite" /\ topic' = Removed(p)
             \/ pc[p] = "answerWrite" /\ topic' = Answered(p)
             \/ pc[p] = "commit" /\ topic' = Committed(p)

\* Every write of the document but archive, rename and delete is conditional on the
\* version its request read.
LEMMA StepWrites == TypeInv /\ [Next]_vars => Written
<1> SUFFICES ASSUME TypeInv, [Next]_vars PROVE Written
  OBVIOUS
<1>1. SharedType /\ LocalType
  BY DEF TypeInv
<1> QED
  <2>1. ASSUME NEW p \in Request, BeginTurn(p)
        PROVE  Written
    BY <2>1 DEF Written, BeginTurn, shared
  <2>2. ASSUME NEW p \in Request, BeginRegenerate(p)
        PROVE  Written
    BY <2>2 DEF Written, BeginRegenerate, shared
  <2>3. ASSUME NEW p \in Request, BeginAnswer(p)
        PROVE  Written
    BY <2>3 DEF Written, BeginAnswer, shared
  <2>4. ASSUME NEW p \in Request, BeginArchive(p)
        PROVE  Written
    BY <2>4 DEF Written, BeginArchive, shared
  <2>5. ASSUME NEW p \in Request, BeginDelete(p)
        PROVE  Written
    BY <2>5 DEF Written, BeginDelete, shared
  <2>6. ASSUME NEW p \in Request, BeginClose(p)
        PROVE  Written
    BY <2>6 DEF Written, BeginClose, shared
  <2>7. ASSUME NEW p \in Request, AppendRead(p)
        PROVE  Written
    BY <2>7 DEF Written, AppendRead, shared
  <2>8. ASSUME NEW p \in Request, AppendWrite(p)
        PROVE  Written
    BY <2>8 DEF Written, AppendWrite, shared
  <2>9. ASSUME NEW p \in Request, RemoveRead(p)
        PROVE  Written
    BY <2>9 DEF Written, RemoveRead, shared
  <2>10. ASSUME NEW p \in Request, RemoveWrite(p)
        PROVE  Written
    BY <2>10 DEF Written, RemoveWrite, shared
  <2>11. ASSUME NEW p \in Request, Reply(p)
        PROVE  Written
    BY <2>11 DEF Written, Reply, shared
  <2>12. ASSUME NEW p \in Request, AnswerRead(p)
        PROVE  Written
    BY <2>12 DEF Written, AnswerRead, shared
  <2>13. ASSUME NEW p \in Request, AnswerWrite(p)
        PROVE  Written
    BY <2>13 DEF Written, AnswerWrite, shared
  <2>14. ASSUME NEW p \in Request, Conflict(p)
        PROVE  Written
    BY <2>14 DEF Written, Conflict, shared
  <2>15. ASSUME NEW p \in Request, Archive(p)
        PROVE  Written
    BY <1>1, <2>15, ArchivedRelabels DEF Written, Archive
  <2>16. ASSUME NEW p \in Request, DeleteEvents(p)
        PROVE  Written
    BY <2>16 DEF Written, DeleteEvents, CascadeStep, shared
  <2>17. ASSUME NEW p \in Request, DeleteContexts(p)
        PROVE  Written
    BY <2>17 DEF Written, DeleteContexts, CascadeStep, shared
  <2>18. ASSUME NEW p \in Request, DeleteTopic(p)
        PROVE  Written
    BY <2>18 DEF Written, DeleteTopic, shared
  <2>19. ASSUME NEW p \in Request, Hook(p)
        PROVE  Written
    BY <2>19 DEF Written, Hook, shared
  <2>20. ASSUME NEW p \in Request, EnterClose(p)
        PROVE  Written
    BY <2>20 DEF Written, EnterClose, shared
  <2>21. ASSUME NEW p \in Request, CloseRead(p)
        PROVE  Written
    BY <2>21 DEF Written, CloseRead, shared
  <2>22. ASSUME NEW p \in Request, Summarise(p)
        PROVE  Written
    BY <1>1, <2>22, SummariseRelabels DEF Written
  <2>23. ASSUME NEW p \in Request, MergeBlocks(p)
        PROVE  Written
    BY <2>23 DEF Written, MergeBlocks, shared
  <2>24. ASSUME NEW p \in Request, MergeFails(p)
        PROVE  Written
    BY <2>24 DEF Written, MergeFails, shared
  <2>25. ASSUME NEW p \in Request, Commit(p)
        PROVE  Written
    BY <2>25 DEF Written, Commit, Committed, shared
  <2>26. ASSUME NEW p \in Request, CommitLost(p)
        PROVE  Written
    BY <2>26 DEF Written, CommitLost, shared
  <2>27. ASSUME NEW p \in Request, RecordEvent(p)
        PROVE  Written
    BY <2>27 DEF Written, RecordEvent, shared
  <2>28. ASSUME NEW p \in Request, LLMFails(p)
        PROVE  Written
    BY <2>28 DEF Written, LLMFails, shared
  <2>29. ASSUME NEW p \in Request, Abort(p)
        PROVE  Written
    BY <2>29 DEF Written, Abort, shared
  <2>30. ASSUME Upload
        PROVE  Written
    BY <2>30 DEF Written, Upload
  <2>31. ASSUME Restart
        PROVE  Written
    BY <2>31 DEF Written, Restart
  <2>32. ASSUME Tick
        PROVE  Written
    BY <2>32 DEF Written, Tick
  <2>33. ASSUME UNCHANGED vars
        PROVE  Written
    BY <2>33 DEF Written, vars
  <2>34. ASSUME Rename
        PROVE  Written
    BY <1>1, <2>34, RenameRelabels DEF Written
  <2> QED
    BY <2>34, <2>1, <2>2, <2>3, <2>4, <2>5, <2>6, <2>7, <2>8, <2>9, <2>10, <2>11,
       <2>12, <2>13, <2>14, <2>15, <2>16, <2>17, <2>18, <2>19, <2>20, <2>21,
       <2>22, <2>23, <2>24, <2>25, <2>26, <2>27, <2>28, <2>29, <2>30, <2>31,
       <2>32, <2>33 DEF Next, Begin, Step

-----------------------------------------------------------------------------
(* What a step does to the document a request holds.                       *)

Kept(q) ==
    \/ snap'[q] = Gone /\ pc'[q] \notin Held
    \/ /\ snap'[q] = snap[q]
       /\ pc'[q] \in Held => pc[q] \in Held
       /\ pc'[q] = "removeWrite" => pc[q] = "removeWrite" /\ msg'[q] = msg[q]
    \/ /\ Exists
       /\ snap'[q] = topic
       /\ topic' = topic
       /\ pc'[q] = "removeWrite" => Removable(topic, msg'[q].id)

\* Nothing to read is found in a deleted topic.
LEMMA ReadExists ==
    ASSUME GoneInv, NEW m
    PROVE  /\ Accepts(topic, m) => Exists
           /\ Removable(topic, m) => Exists
           /\ Answerable(topic, m) => Exists
           /\ SessionAt(topic, m) # {} => Exists
BY DEF GoneInv, Exists, Gone, Accepts, Removable, Answerable, SessionAt

\* A request holds the document as it read it, or reads it afresh.
LEMMA StepKeeps ==
    ASSUME TypeInv, GoneInv, [Next]_vars, NEW q \in Request
    PROVE  Kept(q)
<1> USE DEF TypeInv
<1> QED
  <2>1. ASSUME NEW p \in Request, BeginTurn(p)
        PROVE  Kept(q)
    BY <2>1 DEF Kept, Held, BeginTurn, Goto, LocalType, Writing, shared
  <2>2. ASSUME NEW p \in Request, BeginRegenerate(p)
        PROVE  Kept(q)
    BY <2>2 DEF Kept, Held, BeginRegenerate, Goto, LocalType, Writing, shared
  <2>3. ASSUME NEW p \in Request, BeginAnswer(p)
        PROVE  Kept(q)
    BY <2>3 DEF Kept, Held, BeginAnswer, Goto, LocalType, Writing, shared
  <2>4. ASSUME NEW p \in Request, BeginArchive(p)
        PROVE  Kept(q)
    BY <2>4 DEF Kept, Held, BeginArchive, Goto, LocalType, Writing, shared
  <2>5. ASSUME NEW p \in Request, BeginDelete(p)
        PROVE  Kept(q)
    BY <2>5 DEF Kept, Held, BeginDelete, Goto, LocalType, Writing, shared
  <2>6. ASSUME NEW p \in Request, BeginClose(p)
        PROVE  Kept(q)
    BY <2>6 DEF Kept, Held, BeginClose, Goto, LocalType, Writing, shared
  <2>7. ASSUME NEW p \in Request, AppendRead(p)
        PROVE  Kept(q)
    BY <2>7, ReadExists DEF Kept, Held, AppendRead, Goto, LocalType, Finish,
       Writing, shared
  <2>8. ASSUME NEW p \in Request, AppendWrite(p)
        PROVE  Kept(q)
    BY <2>8 DEF Kept, Held, AppendWrite, Goto, LocalType, Writing, shared
  <2>9. ASSUME NEW p \in Request, RemoveRead(p)
        PROVE  Kept(q)
    BY <2>9, ReadExists DEF Kept, Held, RemoveRead, Goto, LocalType, Finish,
       Writing, shared
  <2>10. ASSUME NEW p \in Request, RemoveWrite(p)
        PROVE  Kept(q)
    BY <2>10 DEF Kept, Held, RemoveWrite, Goto, LocalType, Writing, shared
  <2>11. ASSUME NEW p \in Request, Reply(p)
        PROVE  Kept(q)
    BY <2>11 DEF Kept, Held, Reply, Goto, LocalType, Writing, shared
  <2>12. ASSUME NEW p \in Request, AnswerRead(p)
        PROVE  Kept(q)
    BY <2>12, ReadExists DEF Kept, Held, AnswerRead, Goto, LocalType, Finish,
       Writing, shared
  <2>13. ASSUME NEW p \in Request, AnswerWrite(p)
        PROVE  Kept(q)
    BY <2>13 DEF Kept, Held, AnswerWrite, Goto, LocalType, Finish, Writing,
       shared
  <2>14. ASSUME NEW p \in Request, Conflict(p)
        PROVE  Kept(q)
    BY <2>14 DEF Kept, Held, Conflict, Goto, LocalType, Reread, Writing,
       Finish, shared
  <2>15. ASSUME NEW p \in Request, Archive(p)
        PROVE  Kept(q)
    BY <2>15 DEF Kept, Held, Archive, Goto, LocalType, Finish, Writing, shared
  <2>16. ASSUME NEW p \in Request, DeleteEvents(p)
        PROVE  Kept(q)
    BY <2>16 DEF Kept, Held, DeleteEvents, Goto, LocalType, CascadeStep,
       Writing, shared
  <2>17. ASSUME NEW p \in Request, DeleteContexts(p)
        PROVE  Kept(q)
    BY <2>17 DEF Kept, Held, DeleteContexts, Goto, LocalType, CascadeStep,
       Writing, shared
  <2>18. ASSUME NEW p \in Request, DeleteTopic(p)
        PROVE  Kept(q)
    BY <2>18 DEF Kept, Held, DeleteTopic, Goto, LocalType, Finish, Writing,
       shared
  <2>19. ASSUME NEW p \in Request, Hook(p)
        PROVE  Kept(q)
    BY <2>19 DEF Kept, Held, Hook, Goto, LocalType, Finish, Writing, shared
  <2>20. ASSUME NEW p \in Request, EnterClose(p)
        PROVE  Kept(q)
    BY <2>20 DEF Kept, Held, EnterClose, Goto, LocalType, Finish, Writing,
       shared
  <2>21. ASSUME NEW p \in Request, CloseRead(p)
        PROVE  Kept(q)
    BY <2>21, ReadExists DEF Kept, Held, CloseRead, Goto, LocalType, Leave,
       Finish, Writing, shared
  <2>22. ASSUME NEW p \in Request, Summarise(p)
        PROVE  Kept(q)
    <3>1. PICK l \in {"merge", "commit"} : pc' = [pc EXCEPT ![p] = l]
      BY <2>22, Zenon DEF Summarise, Goto, AfterMerge
    <3>2. pc[p] = "summarise" /\ UNCHANGED <<snap, msg>>
      BY <2>22 DEF Summarise
    <3> QED
      BY <3>1, <3>2 DEF Kept, Held, LocalType, Writing
  <2>23. ASSUME NEW p \in Request, MergeBlocks(p)
        PROVE  Kept(q)
    <3>1. PICK l \in {"merge", "commit"} : pc' = [pc EXCEPT ![p] = l]
      BY <2>23, Zenon DEF MergeBlocks, Goto, AfterMerge
    <3>2. pc[p] = "merge" /\ UNCHANGED <<snap, msg>>
      BY <2>23 DEF MergeBlocks
    <3> QED
      BY <3>1, <3>2 DEF Kept, Held, LocalType, Writing
  <2>24. ASSUME NEW p \in Request, MergeFails(p)
        PROVE  Kept(q)
    BY <2>24 DEF Kept, Held, MergeFails, Goto, LocalType, Writing, shared
  <2>25. ASSUME NEW p \in Request, Commit(p)
        PROVE  Kept(q)
    BY <2>25 DEF Kept, Held, Commit, Goto, LocalType, Writing, shared
  <2>26. ASSUME NEW p \in Request, CommitLost(p)
        PROVE  Kept(q)
    BY <2>26 DEF Kept, Held, CommitLost, Goto, LocalType, Leave, Finish,
       Writing, shared
  <2>27. ASSUME NEW p \in Request, RecordEvent(p)
        PROVE  Kept(q)
    BY <2>27 DEF Kept, Held, RecordEvent, Goto, LocalType, Leave, Finish,
       Writing, shared
  <2>28. ASSUME NEW p \in Request, LLMFails(p)
        PROVE  Kept(q)
    BY <2>28 DEF Kept, Held, LLMFails, Goto, LocalType, Finish, Writing,
       shared
  <2>29. ASSUME NEW p \in Request, Abort(p)
        PROVE  Kept(q)
    BY <2>29 DEF Kept, Held, Abort, Goto, LocalType, Finish, Writing, shared
  <2>30. ASSUME Upload
        PROVE  Kept(q)
    BY <2>30 DEF Kept, Held, Upload, LocalType, Writing
  <2>31. ASSUME Restart
        PROVE  Kept(q)
    BY <2>31 DEF Kept, Held, Restart, LocalType, Writing
  <2>32. ASSUME Tick
        PROVE  Kept(q)
    BY <2>32 DEF Kept, Held, Tick, LocalType, Writing
  <2>33. ASSUME UNCHANGED vars
        PROVE  Kept(q)
    BY <2>33 DEF Kept, vars
  <2>34. ASSUME Rename
        PROVE  Kept(q)
    BY <2>34 DEF Kept, Rename
  <2> QED
    BY <2>34, <2>1, <2>2, <2>3, <2>4, <2>5, <2>6, <2>7, <2>8, <2>9, <2>10, <2>11,
       <2>12, <2>13, <2>14, <2>15, <2>16, <2>17, <2>18, <2>19, <2>20, <2>21,
       <2>22, <2>23, <2>24, <2>25, <2>26, <2>27, <2>28, <2>29, <2>30, <2>31,
       <2>32, <2>33 DEF Next, Begin, Step

-----------------------------------------------------------------------------
(* The invariant.                                                          *)

LEMMA VersionInit == Init => VersionInv
<1> SUFFICES ASSUME Init PROVE VersionInv
  OBVIOUS
<1>1. TypeInv
  BY TypeInit
<1>2. GoneInv /\ CountMatches
  BY DEF Init, GoneInv, Exists, CountMatches
<1>3. HeldInv
  BY DEF Init, HeldInv, Held, Writing
<1>4. VersionPins
  BY DEF Init, VersionPins, Gone
<1> QED
  BY <1>1, <1>2, <1>3, <1>4 DEF VersionInv

\* A matching write starts from the very document its request read.
LEMMA MatchPins ==
    ASSUME VersionInv, NEW p \in Request, pc[p] \in Held, Matches(p)
    PROVE  /\ Exists
           /\ snap[p].version = topic.version
           /\ snap[p].messages = topic.messages
           /\ snap[p].blocks = topic.blocks
           /\ snap[p].total = topic.total
BY DEF VersionInv, HeldInv, VersionPins, Matches

\* Each conditional write moves the version up by one.
LEMMA WriteBumps ==
    ASSUME TypeInv, NEW p \in Request, Matches(p),
           topic' \in {Appended(p), Removed(p), Answered(p), Committed(p)}
    PROVE  topic'.version = topic.version + 1 /\ topic'.status = topic.status
<1>1. /\ topic \in TopicDoc /\ snap[p].version = topic.version
      /\ topic.version \in Nat
  BY DEF TypeInv, SharedType, TopicDoc, Matches
<1>2. CASE topic' = Appended(p)
  BY <1>1, <1>2 DEF Appended, TopicDoc
<1>3. CASE topic' = Removed(p)
  BY <1>1, <1>3 DEF Removed, TopicDoc
<1>4. CASE topic' = Answered(p)
  BY <1>1, <1>4 DEF Answered, TopicDoc
<1>5. CASE topic' = Committed(p)
  BY <1>1, <1>5 DEF Committed, TopicDoc
<1> QED
  BY <1>2, <1>3, <1>4, <1>5

LEMMA VersionStep == VersionInv /\ [Next]_vars => VersionInv'
<1> SUFFICES ASSUME VersionInv, [Next]_vars
             PROVE  VersionInv'
  OBVIOUS
<1>1. TypeInv /\ TypeInv'
  BY TypeStep DEF VersionInv
<1>2. Written
  BY <1>1, StepWrites
<1>3. \A q \in Request : Kept(q)
  BY <1>1, StepKeeps DEF VersionInv
<1>4. /\ topic \in TopicDoc /\ topic' \in TopicDoc
      /\ topic.version \in Nat /\ topic'.version \in Nat
      /\ \A q \in Request : snap[q].version \in Nat
  BY <1>1 DEF TypeInv, SharedType, LocalType, TopicDoc
\* What the four conditional writes have in common.
<1>5. ASSUME NEW p \in Request, Matches(p), pc[p] \in Held,
             topic' \in {Appended(p), Removed(p), Answered(p), Committed(p)}
      PROVE  Exists /\ Exists' /\ topic'.version = topic.version + 1
  BY <1>1, <1>5, WriteBumps DEF Matches, Exists
<1>6. GoneInv'
  <2>1. CASE topic' = topic
    BY <2>1 DEF VersionInv, GoneInv, Exists
  <2>2. CASE topic' = Gone
    BY <2>2 DEF GoneInv, Exists
  <2>3. CASE Relabels
    BY <2>3 DEF GoneInv, Relabels
  <2>4. CASE \E p \in Request :
                /\ Matches(p) /\ pc[p] \in Held
                /\ topic' \in {Appended(p), Removed(p), Answered(p), Committed(p)}
    BY <1>5, <2>4 DEF GoneInv, Exists
  <2> QED
    BY <1>2, <2>1, <2>2, <2>3, <2>4 DEF Written, Held, Writing
<1>7. HeldInv'
  <2> SUFFICES ASSUME NEW q \in Request
               PROVE  /\ pc'[q] \in Held => snap'[q].status # "gone"
                      /\ pc'[q] = "removeWrite" => Removable(snap'[q], msg'[q].id)
    BY DEF HeldInv
  <2> QED
    BY <1>3 DEF Kept, VersionInv, HeldInv, Exists, Held, Writing
<1>8. VersionPins'
  <2> SUFFICES ASSUME NEW q \in Request, Exists', snap'[q].status # "gone"
               PROVE  /\ snap'[q].version <= topic'.version
                      /\ snap'[q].version = topic'.version =>
                            /\ snap'[q].messages = topic'.messages
                            /\ snap'[q].blocks = topic'.blocks
                            /\ snap'[q].total = topic'.total
    BY DEF VersionPins
  <2>1. CASE snap'[q] = Gone
    BY <2>1 DEF Gone
  <2>2. CASE snap'[q] = topic /\ topic' = topic
    BY <1>4, <2>2
  <2>3. CASE snap'[q] = snap[q]
    <3>1. CASE topic' = topic
      BY <2>3, <3>1 DEF VersionInv, VersionPins, Exists
    <3>2. CASE topic' = Gone
      BY <3>2 DEF Exists, Gone
    <3>3. CASE Relabels
      BY <2>3, <3>3 DEF VersionInv, VersionPins, Relabels
    <3>4. CASE \E p \in Request :
                  /\ Matches(p) /\ pc[p] \in Held
                  /\ topic' \in {Appended(p), Removed(p), Answered(p), Committed(p)}
      <4>1. Exists /\ topic'.version = topic.version + 1
        BY <1>5, <3>4
      <4>2. snap[q].version <= topic.version
        BY <2>3, <4>1 DEF VersionInv, VersionPins
      <4> QED
        BY <1>4, <2>3, <4>1, <4>2
    <3> QED
      BY <1>2, <3>1, <3>2, <3>3, <3>4 DEF Written, Held, Writing
  <2> QED
    BY <1>3, <2>1, <2>2, <2>3 DEF Kept
<1>9. CountMatches'
  <2>1. CASE topic' = topic
    BY <2>1 DEF VersionInv, CountMatches
  <2>2. CASE topic' = Gone
    BY <2>2 DEF CountMatches, Gone
  <2>3. CASE Relabels
    BY <2>3 DEF VersionInv, CountMatches, Relabels
  <2>4. ASSUME NEW p \in Request, Matches(p), pc[p] \in Held
        PROVE  /\ snap[p].total = Len(topic.messages)
               /\ snap[p].messages = topic.messages
               /\ topic.messages \in Seq(Message)
               /\ msg[p] \in Message
               /\ topic.total = Len(topic.messages)
    BY <1>1, <1>4, <2>4, MatchPins
       DEF VersionInv, CountMatches, TopicDoc, TypeInv, LocalType
  <2>5. ASSUME NEW p \in Request, Matches(p), pc[p] = "appendWrite",
               topic' = Appended(p)
        PROVE  CountMatches'
    <3>1. /\ topic'.messages = Append(topic.messages, msg[p])
          /\ topic'.total = snap[p].total + 1
      BY <1>4, <2>5 DEF Appended, TopicDoc
    <3> QED
      BY <2>4, <2>5, <3>1 DEF CountMatches, Held, Writing
  <2>6. ASSUME NEW p \in Request, Matches(p), pc[p] = "removeWrite",
               topic' = Removed(p)
        PROVE  CountMatches'
    <3>1. /\ topic'.messages = Front(topic.messages)
          /\ topic'.total = IF snap[p].total = 0 THEN 0 ELSE snap[p].total - 1
      BY <1>4, <2>6 DEF Removed, TopicDoc
    <3>2. topic.messages # <<>>
      BY <2>4, <2>6 DEF VersionInv, HeldInv, Removable, Held, Writing
    <3>3. Len(Front(topic.messages)) = Len(topic.messages) - 1
      BY <2>4, <2>6, <3>2, FrontType DEF Held, Writing
    <3>4. Len(topic.messages) \in Nat /\ Len(topic.messages) # 0
      BY <2>4, <2>6, <3>2 DEF Held, Writing
    <3> QED
      BY <2>4, <2>6, <3>1, <3>3, <3>4 DEF CountMatches, Held, Writing
  <2>7. ASSUME NEW p \in Request, Matches(p), pc[p] = "answerWrite",
               topic' = Answered(p)
        PROVE  CountMatches'
    <3>1. Len(topic'.messages) = Len(topic.messages)
      <4> DEFINE i == CHOOSE j \in DOMAIN snap[p].messages :
                        snap[p].messages[j].id = msg[p].id
                 doc == [topic EXCEPT !.messages[i].quiz = msg[p].quiz,
                                      !.version = snap[p].version + 1]
      <4>1. msg[p] \in Message /\ snap[p].version + 1 \in Nat
        BY <1>1, <1>4 DEF TypeInv, LocalType
      <4>2. msg[p].quiz \in Quiz
        BY <4>1 DEF Message
      <4>3. topic' = doc
        BY <2>7, Zenon DEF Answered
      <4> HIDE DEF i
      <4>4. Len(doc.messages) = Len(topic.messages)
        <5> DEFINE ms == [topic.messages EXCEPT ![i].quiz = msg[p].quiz]
        <5>1. doc.messages = ms
          BY <1>4 DEF TopicDoc
        <5>2. topic.messages \in Seq(Message)
          BY <1>4 DEF TopicDoc
        <5>3. Len(ms) = Len(topic.messages)
          BY <4>2, <5>2, QuizPickType
        <5> QED
          BY <5>1, <5>3, Zenon
      <4> QED
        BY <4>3, <4>4
    <3>2. topic'.total = topic.total
      BY <1>4, <2>7 DEF Answered, TopicDoc
    <3> QED
      BY <3>1, <3>2 DEF VersionInv, CountMatches
  <2>8. ASSUME NEW p \in Request, topic' = Committed(p)
        PROVE  CountMatches'
    BY <1>4, <2>8 DEF VersionInv, CountMatches, Committed, TopicDoc
  <2> QED
    BY <1>2, <2>1, <2>2, <2>3, <2>5, <2>6, <2>7, <2>8 DEF Written
<1> QED
  BY <1>1, <1>6, <1>7, <1>8, <1>9 DEF VersionInv

\* Optimistic concurrency is sound although archive, rename and delete leave
\* the version alone: a version that still matches pins messages, summary
\* blocks and counter to what the request read.
THEOREM VersionsPin == Spec => []VersionPins
<1>1. VersionInv => VersionPins
  BY DEF VersionInv
<1> QED
  BY <1>1, VersionInit, VersionStep, PTL DEF Spec

\* totalMessageCount, written back from a value read earlier, never drifts
\* from the length of messages, however appends, removals, picks, closes,
\* archives and deletes interleave.
THEOREM CountCorrect == Spec => []CountMatches
<1>1. VersionInv => CountMatches
  BY DEF VersionInv
<1> QED
  BY <1>1, VersionInit, VersionStep, PTL DEF Spec

-----------------------------------------------------------------------------
(* The title.                                                              *)

\* A close that read the topic before the learner named it never overwrites
\* the name: its rename is filtered on UNNAMED_TITLE.
THEOREM ChosenTitleStays == Spec => TitleKept
<1>1. ASSUME TypeInv, [Next]_vars, topic.title = "chosen", Exists', ~Rename
      PROVE  topic'.title = "chosen"
  <2>1. Written /\ topic \in TopicDoc
    BY <1>1, StepWrites DEF TypeInv, SharedType
  <2>2. CASE topic' = topic
    BY <1>1, <2>2
  <2>3. CASE topic' = Gone
    BY <1>1, <2>3 DEF Exists, Gone
  <2>4. CASE Relabels
    BY <1>1, <2>4 DEF Relabels
  <2>5. ASSUME NEW p \in Request,
               topic' \in {Appended(p), Removed(p), Answered(p), Committed(p)}
        PROVE  topic'.title = topic.title
    <3>1. CASE topic' = Appended(p)
      BY <2>1, <3>1 DEF Appended, TopicDoc
    <3>2. CASE topic' = Removed(p)
      BY <2>1, <3>2 DEF Removed, TopicDoc
    <3>3. CASE topic' = Answered(p)
      BY <2>1, <3>3 DEF Answered, TopicDoc
    <3>4. CASE topic' = Committed(p)
      BY <2>1, <3>4 DEF Committed, TopicDoc
    <3> QED
      BY <2>5, <3>1, <3>2, <3>3, <3>4
  <2> QED
    BY <1>1, <2>1, <2>2, <2>3, <2>4, <2>5 DEF Written
<1>2. TypeInv /\ [Next]_vars =>
        [(topic.title = "chosen" /\ Exists' /\ ~Rename) =>
            topic'.title = "chosen"]_vars
  BY <1>1
<1>3. TypeInv /\ [Next]_vars => TypeInv'
  BY TypeStep
<1> QED
  BY <1>2, <1>3, TypeInit, PTL DEF Spec, TitleKept

=============================================================================
