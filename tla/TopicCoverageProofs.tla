-------------------------- MODULE TopicCoverageProofs --------------------------
(***************************************************************************)
(* Closing a session is sound for every number of requests: one close at a *)
(* time, no message narrated twice or skipped, nothing covered before its  *)
(* lessons are handed over or, for want of a title, given up, and the      *)
(* thread implements ThreadLog.                                            *)
(*                                                                         *)
(* One lemma (StepMoves) says what any step can do to the document, to the *)
(* request that takes it and to the others, in ten cases.  CoverInv and    *)
(* every theorem below follow from these cases alone.                      *)
(***************************************************************************)
EXTENDS TopicThreadProofs, FiniteSetTheorems

\* The request holds a message that is not in the thread yet.
Fresh == {"append", "appendWrite"}

\* Places at which the locals of a request matter to the invariant.
Busy == Held \cup {"append"}

-----------------------------------------------------------------------------
(* What a step does.                                                       *)

Same(q) ==
    /\ pc'[q] = pc[q]
    /\ msg'[q] = msg[q]
    /\ snap'[q] = snap[q]
    /\ upto'[q] = upto[q]
    /\ work'[q] = work[q]

Lone(p) == \A q \in Request \ {p} : Same(q)

\* Messages whose lessons were handed over, or given up for want of a title.
Settled == credited \cup dropped

Still == topic' = topic /\ Settled' = Settled /\ nextId' = nextId

Idles(p) == Still /\ pc'[p] \notin Busy

\* BeginTurn, Reply: the message gets its uuid4.
Draws(p) ==
    /\ topic' = topic /\ Settled' = Settled
    /\ nextId <= MaxId /\ nextId' = nextId + 1
    /\ pc'[p] = "append" /\ msg'[p].id = nextId

\* find_one and the checks of an update_fn.
Checks(p) ==
    /\ Still
    /\ msg'[p] = msg[p]
    /\ snap'[p] = topic
    /\ \/ /\ pc[p] = "append" /\ pc'[p] = "appendWrite"
          /\ Accepts(topic, msg[p])
       \/ /\ pc[p] = "remove" /\ pc'[p] = "removeWrite"
          /\ Removable(topic, msg[p].id)
       \/ /\ pc[p] = "answer" /\ pc'[p] = "answerWrite"
          /\ Answerable(topic, msg[p].id)

\* An append that lost its race reads again.
Rereads(p) ==
    Still /\ pc[p] = "appendWrite" /\ pc'[p] = "append" /\ msg'[p] = msg[p]

\* An update_one whose version filter matches.
Writes(p) ==
    /\ Settled' = Settled /\ nextId' = nextId
    /\ Matches(p)
    /\ pc'[p] \notin Busy
    /\ \/ pc[p] = "appendWrite" /\ topic' = Appended(p)
       \/ pc[p] = "removeWrite" /\ topic' = Removed(p)
       \/ pc[p] = "answerWrite" /\ topic' = Answered(p)
       \/ pc[p] = "commit" /\ topic' = Committed(p)

\* archive_topic and delete_topic.
Shelves(p) ==
    /\ Settled' = Settled /\ nextId' = nextId
    /\ pc'[p] \notin Busy
    /\ pc[p] \notin Writing
    /\ \/ topic' = Gone
       \/ Relabels

\* close_session finds messages to summarise.
Opens(p) ==
    /\ Still
    /\ pc'[p] = "summarise"
    /\ snap'[p] = topic
    /\ upto'[p] = upto[p]
    /\ SessionAt(topic, upto[p]) # {}

\* The summary is there, and the lessons are handed over, or given up.
Folds(p) ==
    /\ topic' = topic \/ Relabels
    /\ Settled' = Settled \cup SessionIds(p)
    /\ nextId' = nextId + 1
    /\ pc[p] = "summarise" /\ pc'[p] \in {"merge", "commit"}
    /\ snap'[p] = snap[p] /\ upto'[p] = upto[p]
    /\ \E w \in Words : work'[p] = snap[p].blocks \cup {NewBlock(p, w)}

\* Two blocks become one.
Merges(p) ==
    /\ topic' = topic /\ Settled' = Settled
    /\ nextId' = nextId + 1
    /\ pc[p] = "merge" /\ pc'[p] \in {"merge", "commit"}
    /\ snap'[p] = snap[p] /\ upto'[p] = upto[p]
    /\ \E a, b \in work[p], w \in Words :
          /\ a # b
          /\ work'[p] = {c \in work[p] : c.id \notin {a.id, b.id}}
                            \cup {MergedBlock(a, b, nextId, w)}

\* The merge fails: the close commits the blocks it has.
Skips(p) ==
    /\ Still
    /\ pc[p] = "merge" /\ pc'[p] = "commit"
    /\ snap'[p] = snap[p] /\ upto'[p] = upto[p] /\ work'[p] = work[p]

Moved(p) == \/ Idles(p) \/ Draws(p) \/ Checks(p) \/ Rereads(p) \/ Writes(p)
            \/ Shelves(p) \/ Opens(p) \/ Folds(p) \/ Merges(p) \/ Skips(p)

\* The guard _in_progress changes hands with the place of its holder.
Guarded(p) ==
    \/ /\ pc[p] \in Closing <=> pc'[p] \in Closing
       /\ inProgress' = inProgress
    \/ pc[p] \in Closing /\ pc'[p] \notin Closing /\ inProgress' = FALSE
    \/ pc[p] \notin Closing /\ pc'[p] \in Closing /\ ~inProgress /\ inProgress'

\* Messages a turn may still append: its question and the reply.
Owed(p) ==
    IF pc[p] \in Fresh /\ msg[p].role = "user" THEN 2
    ELSE IF pc[p] \in Fresh \cup {"remove", "removeWrite", "reply"} THEN 1
    ELSE 0

\* A turn begins below the capacity, and appends what it owes.
Spends(p) ==
    \/ HasRoom(topic) /\ topic' = topic
    \/ Owed(p)' <= Owed(p) /\ (pc[p] # "appendWrite" \/ topic' = topic)
    \/ Owed(p)' < Owed(p)

Effect(p) == Lone(p) /\ Moved(p) /\ Guarded(p) /\ Spends(p)

Moves ==
    \/ Still /\ inProgress' = inProgress /\ \A q \in Request : Same(q)
    \/ /\ Relabels /\ Settled' = Settled /\ nextId' = nextId
       /\ inProgress' = inProgress /\ \A q \in Request : Same(q)
    \/ Still /\ inProgress' = FALSE /\ \A q \in Request : pc'[q] = "idle"
    \/ \E p \in Request : Effect(p)

LEMMA BeginTurnEffect ==
    ASSUME LocalType, NEW p \in Request, BeginTurn(p)
    PROVE  Effect(p)
BY DEF BeginTurn, Settled, Draws, Message,
       Spends, Owed, Fresh, Same, Lone, Effect, Moved, Guarded, Goto, LocalType, Closing, Writing, Held, Busy, shared

LEMMA BeginRegenerateEffect ==
    ASSUME LocalType, NEW p \in Request, BeginRegenerate(p)
    PROVE  Effect(p)
BY DEF BeginRegenerate, Settled, Idles, Still,
       Spends, Owed, Fresh, Same, Lone, Effect, Moved, Guarded, Goto, LocalType, Closing, Writing, Held, Busy, shared

LEMMA BeginAnswerEffect ==
    ASSUME LocalType, NEW p \in Request, BeginAnswer(p)
    PROVE  Effect(p)
BY DEF BeginAnswer, Settled, Idles, Still,
       Spends, Owed, Fresh, Same, Lone, Effect, Moved, Guarded, Goto, LocalType, Closing, Writing, Held, Busy, shared

LEMMA BeginArchiveEffect ==
    ASSUME LocalType, NEW p \in Request, BeginArchive(p)
    PROVE  Effect(p)
BY DEF BeginArchive, Settled, Idles, Still,
       Spends, Owed, Fresh, Same, Lone, Effect, Moved, Guarded, Goto, LocalType, Closing, Writing, Held, Busy, shared

LEMMA BeginDeleteEffect ==
    ASSUME LocalType, NEW p \in Request, BeginDelete(p)
    PROVE  Effect(p)
BY DEF BeginDelete, Settled, Idles, Still,
       Spends, Owed, Fresh, Same, Lone, Effect, Moved, Guarded, Goto, LocalType, Closing, Writing, Held, Busy, shared

LEMMA BeginCloseEffect ==
    ASSUME LocalType, NEW p \in Request, BeginClose(p)
    PROVE  Effect(p)
BY DEF BeginClose, Settled, Idles, Still,
       Spends, Owed, Fresh, Same, Lone, Effect, Moved, Guarded, Goto, LocalType, Closing, Writing, Held, Busy, shared

LEMMA AppendReadEffect ==
    ASSUME LocalType, NEW p \in Request, AppendRead(p)
    PROVE  Effect(p)
BY DEF AppendRead, Idles, Checks, Finish, Settled, Still,
       Spends, Owed, Fresh, Same, Lone, Effect, Moved, Guarded, Goto, LocalType, Closing, Writing, Held, Busy, shared

LEMMA AppendWriteEffect ==
    ASSUME LocalType, NEW p \in Request, AppendWrite(p)
    PROVE  Effect(p)
BY DEF AppendWrite, Settled, Writes,
       Spends, Owed, Fresh, Same, Lone, Effect, Moved, Guarded, Goto, LocalType, Closing, Writing, Held, Busy, shared

LEMMA RemoveReadEffect ==
    ASSUME LocalType, NEW p \in Request, RemoveRead(p)
    PROVE  Effect(p)
BY DEF RemoveRead, Idles, Checks, Finish, Settled, Still,
       Spends, Owed, Fresh, Same, Lone, Effect, Moved, Guarded, Goto, LocalType, Closing, Writing, Held, Busy, shared

LEMMA RemoveWriteEffect ==
    ASSUME LocalType, NEW p \in Request, RemoveWrite(p)
    PROVE  Effect(p)
BY DEF RemoveWrite, Settled, Writes,
       Spends, Owed, Fresh, Same, Lone, Effect, Moved, Guarded, Goto, LocalType, Closing, Writing, Held, Busy, shared

LEMMA ReplyEffect ==
    ASSUME LocalType, NEW p \in Request, Reply(p)
    PROVE  Effect(p)
BY DEF Reply, Settled, Draws, Message,
       Spends, Owed, Fresh, Same, Lone, Effect, Moved, Guarded, Goto, LocalType, Closing, Writing, Held, Busy, shared

LEMMA AnswerReadEffect ==
    ASSUME LocalType, NEW p \in Request, AnswerRead(p)
    PROVE  Effect(p)
BY DEF AnswerRead, Idles, Checks, Finish, Settled, Still,
       Spends, Owed, Fresh, Same, Lone, Effect, Moved, Guarded, Goto, LocalType, Closing, Writing, Held, Busy, shared

LEMMA AnswerWriteEffect ==
    ASSUME LocalType, NEW p \in Request, AnswerWrite(p)
    PROVE  Effect(p)
BY DEF AnswerWrite, Settled, Writes, Finish,
       Spends, Owed, Fresh, Same, Lone, Effect, Moved, Guarded, Goto, LocalType, Closing, Writing, Held, Busy, shared

LEMMA ConflictEffect ==
    ASSUME LocalType, NEW p \in Request, Conflict(p)
    PROVE  Effect(p)
BY DEF Conflict, Settled, Idles, Rereads, Finish, Reread, Still,
       Spends, Owed, Fresh, Same, Lone, Effect, Moved, Guarded, Goto, LocalType, Closing, Writing, Held, Busy, shared

LEMMA ArchiveEffect ==
    ASSUME SharedType, LocalType, NEW p \in Request, Archive(p)
    PROVE  Effect(p)
BY ArchivedRelabels
   DEF Archive, Idles, Shelves, Finish, Settled, Still,
       Spends, Owed, Fresh, Same, Lone, Effect, Moved, Guarded, Goto, LocalType, Closing, Writing, Held, Busy, shared

LEMMA DeleteEventsEffect ==
    ASSUME LocalType, NEW p \in Request, DeleteEvents(p)
    PROVE  Effect(p)
BY DEF DeleteEvents, Settled, Idles, CascadeStep, Still,
       Spends, Owed, Fresh, Same, Lone, Effect, Moved, Guarded, Goto, LocalType, Closing, Writing, Held, Busy, shared

LEMMA DeleteContextsEffect ==
    ASSUME LocalType, NEW p \in Request, DeleteContexts(p)
    PROVE  Effect(p)
BY DEF DeleteContexts, Settled, Idles, CascadeStep, Still,
       Spends, Owed, Fresh, Same, Lone, Effect, Moved, Guarded, Goto, LocalType, Closing, Writing, Held, Busy, shared

LEMMA DeleteTopicEffect ==
    ASSUME LocalType, NEW p \in Request, DeleteTopic(p)
    PROVE  Effect(p)
BY DEF DeleteTopic, Settled, Shelves, Finish,
       Spends, Owed, Fresh, Same, Lone, Effect, Moved, Guarded, Goto, LocalType, Closing, Writing, Held, Busy, shared

LEMMA HookEffect ==
    ASSUME LocalType, NEW p \in Request, Hook(p)
    PROVE  Effect(p)
BY DEF Hook, Idles, Finish, Settled, Still,
       Spends, Owed, Fresh, Same, Lone, Effect, Moved, Guarded, Goto, LocalType, Closing, Writing, Held, Busy, shared

LEMMA EnterCloseEffect ==
    ASSUME LocalType, NEW p \in Request, EnterClose(p)
    PROVE  Effect(p)
BY DEF EnterClose, Idles, Finish, Settled, Still,
       Spends, Owed, Fresh, Same, Lone, Effect, Moved, Guarded, Goto, LocalType, Closing, Writing, Held, Busy, shared

LEMMA CloseReadEffect ==
    ASSUME LocalType, NEW p \in Request, CloseRead(p)
    PROVE  Effect(p)
BY DEF CloseRead, Idles, Opens, Leave, Finish, Settled, Still,
       Spends, Owed, Fresh, Same, Lone, Effect, Moved, Guarded, Goto, LocalType, Closing, Writing, Held, Busy, shared

LEMMA SummariseEffect ==
    ASSUME SharedType, LocalType, NEW p \in Request, Summarise(p)
    PROVE  Effect(p)
<1>1. topic' = topic \/ Relabels
  BY SummariseRelabels
<1>2. Settled' = Settled \cup SessionIds(p)
  BY DEF Summarise, Lessons, LessonsLost, Settled
<1>3. PICK l \in {"merge", "commit"} : pc' = [pc EXCEPT ![p] = l]
  BY Zenon DEF Summarise, Goto, AfterMerge
<1>4. /\ pc[p] = "summarise" /\ nextId' = nextId + 1
      /\ inProgress' = inProgress
      /\ UNCHANGED <<msg, snap, upto>>
      /\ \E w \in Words :
            work' = [work EXCEPT ![p] = snap[p].blocks \cup {NewBlock(p, w)}]
  BY DEF Summarise
<1>5. Lone(p) /\ Folds(p)
  BY <1>1, <1>2, <1>3, <1>4 DEF Lone, Same, Folds, LocalType
<1>6. Guarded(p) /\ Spends(p)
  BY <1>3, <1>4 DEF Guarded, Closing, Spends, Owed, Fresh, LocalType
<1> QED
  BY <1>5, <1>6 DEF Effect, Moved

LEMMA MergeBlocksEffect ==
    ASSUME LocalType, NEW p \in Request, MergeBlocks(p)
    PROVE  Effect(p)
BY DEF MergeBlocks, Settled, Merges, OldestPair, AfterMerge,
       Spends, Owed, Fresh, Same, Lone, Effect, Moved, Guarded, Goto, LocalType, Closing, Writing, Held, Busy, shared

LEMMA MergeFailsEffect ==
    ASSUME LocalType, NEW p \in Request, MergeFails(p)
    PROVE  Effect(p)
BY DEF MergeFails, Settled, Skips, Still,
       Spends, Owed, Fresh, Same, Lone, Effect, Moved, Guarded, Goto, LocalType, Closing, Writing, Held, Busy, shared

LEMMA CommitEffect ==
    ASSUME LocalType, NEW p \in Request, Commit(p)
    PROVE  Effect(p)
BY DEF Commit, Settled, Writes, Committed,
       Spends, Owed, Fresh, Same, Lone, Effect, Moved, Guarded, Goto, LocalType, Closing, Writing, Held, Busy, shared

LEMMA CommitLostEffect ==
    ASSUME LocalType, NEW p \in Request, CommitLost(p)
    PROVE  Effect(p)
BY DEF CommitLost, Idles, Leave, Finish, Settled, Still,
       Spends, Owed, Fresh, Same, Lone, Effect, Moved, Guarded, Goto, LocalType, Closing, Writing, Held, Busy, shared

LEMMA RecordEventEffect ==
    ASSUME LocalType, NEW p \in Request, RecordEvent(p)
    PROVE  Effect(p)
BY DEF RecordEvent, Idles, Leave, Finish, Settled, Still,
       Spends, Owed, Fresh, Same, Lone, Effect, Moved, Guarded, Goto, LocalType, Closing, Writing, Held, Busy, shared

LEMMA LLMFailsEffect ==
    ASSUME LocalType, NEW p \in Request, LLMFails(p)
    PROVE  Effect(p)
<1>1. Lone(p) /\ Idles(p)
  BY DEF LLMFails, Finish, Settled, Still, Idles, Same, Lone, LocalType, Writing, Held,
         Busy
<1>2. Guarded(p)
  BY DEF LLMFails, Settled, Finish, Guarded, LocalType, Closing
<1>3. Spends(p)
  BY DEF LLMFails, Settled, Finish, Spends, Owed, LocalType, Fresh
<1> QED
  BY <1>1, <1>2, <1>3 DEF Effect, Moved

LEMMA AbortEffect ==
    ASSUME LocalType, NEW p \in Request, Abort(p)
    PROVE  Effect(p)
<1>1. Lone(p) /\ Idles(p)
  BY DEF Abort, Finish, Settled, Still, Idles, Same, Lone, LocalType, Writing, Held,
         Busy
<1>2. Guarded(p)
  BY DEF Abort, Settled, Finish, Guarded, LocalType, Closing
<1>3. Spends(p)
  BY DEF Abort, Settled, Finish, Spends, Owed, LocalType, Fresh
<1> QED
  BY <1>1, <1>2, <1>3 DEF Effect, Moved
-----------------------------------------------------------------------------
(* Every step moves at most one request, or ends them all.                 *)

LEMMA StepMoves ==
    ASSUME SharedType, LocalType, [Next]_vars
    PROVE  Moves
<1>1. ASSUME NEW p \in Request, Begin(p) \/ Step(p) \/ Abort(p)
      PROVE  Effect(p)
  <2>1. BeginTurn(p) => Effect(p)
    BY BeginTurnEffect
  <2>2. BeginRegenerate(p) => Effect(p)
    BY BeginRegenerateEffect
  <2>3. BeginAnswer(p) => Effect(p)
    BY BeginAnswerEffect
  <2>4. BeginArchive(p) => Effect(p)
    BY BeginArchiveEffect
  <2>5. BeginDelete(p) => Effect(p)
    BY BeginDeleteEffect
  <2>6. BeginClose(p) => Effect(p)
    BY BeginCloseEffect
  <2>7. AppendRead(p) => Effect(p)
    BY AppendReadEffect
  <2>8. AppendWrite(p) => Effect(p)
    BY AppendWriteEffect
  <2>9. RemoveRead(p) => Effect(p)
    BY RemoveReadEffect
  <2>10. RemoveWrite(p) => Effect(p)
    BY RemoveWriteEffect
  <2>11. Reply(p) => Effect(p)
    BY ReplyEffect
  <2>12. AnswerRead(p) => Effect(p)
    BY AnswerReadEffect
  <2>13. AnswerWrite(p) => Effect(p)
    BY AnswerWriteEffect
  <2>14. Conflict(p) => Effect(p)
    BY ConflictEffect
  <2>15. Archive(p) => Effect(p)
    BY ArchiveEffect
  <2>16. DeleteEvents(p) => Effect(p)
    BY DeleteEventsEffect
  <2>17. DeleteContexts(p) => Effect(p)
    BY DeleteContextsEffect
  <2>18. DeleteTopic(p) => Effect(p)
    BY DeleteTopicEffect
  <2>19. Hook(p) => Effect(p)
    BY HookEffect
  <2>20. EnterClose(p) => Effect(p)
    BY EnterCloseEffect
  <2>21. CloseRead(p) => Effect(p)
    BY CloseReadEffect
  <2>22. Summarise(p) => Effect(p)
    BY SummariseEffect
  <2>23. MergeBlocks(p) => Effect(p)
    BY MergeBlocksEffect
  <2>24. MergeFails(p) => Effect(p)
    BY MergeFailsEffect
  <2>25. Commit(p) => Effect(p)
    BY CommitEffect
  <2>26. CommitLost(p) => Effect(p)
    BY CommitLostEffect
  <2>27. RecordEvent(p) => Effect(p)
    BY RecordEventEffect
  <2>28. LLMFails(p) => Effect(p)
    BY LLMFailsEffect
  <2>29. Abort(p) => Effect(p)
    BY AbortEffect
  <2> QED
    BY <1>1, <2>1, <2>2, <2>3, <2>4, <2>5, <2>6, <2>7, <2>8, <2>9, <2>10,
       <2>11, <2>12, <2>13, <2>14, <2>15, <2>16, <2>17, <2>18, <2>19, <2>20,
       <2>21, <2>22, <2>23, <2>24, <2>25, <2>26, <2>27, <2>28, <2>29 DEF
       Begin, Step
<1>2. Upload => Moves
  BY DEF Upload, Moves, Settled, Still, Same
<1>3. Restart => Moves
  BY DEF Restart, Moves, Settled, Still
<1>4. Tick => Moves
  BY DEF Tick, Moves, Settled, Still, Same
<1>5. UNCHANGED vars => Moves
  BY DEF vars, Moves, Settled, Still, Same
<1>6. Rename => Moves
  BY RenameRelabels DEF Rename, shared, Moves, Settled, Same
<1> QED
  BY <1>1, <1>2, <1>3, <1>4, <1>5, <1>6 DEF Next, Moves

-----------------------------------------------------------------------------
(* One close at a time.                                                    *)

LEMMA GuardInit == Init => GuardExclusive
BY DEF Init, GuardExclusive, Closing

LEMMA GuardStep ==
    ASSUME SharedType, LocalType, GuardExclusive, [Next]_vars
    PROVE  GuardExclusive'
<1>1. CASE inProgress' = inProgress /\ \A q \in Request : Same(q)
  BY <1>1 DEF GuardExclusive, Same
<1>2. CASE inProgress' = FALSE /\ \A q \in Request : pc'[q] = "idle"
  BY <1>2 DEF GuardExclusive, Closing
<1>3. ASSUME NEW p \in Request, Lone(p), Guarded(p)
      PROVE  GuardExclusive'
  <2>1. \A q \in Request \ {p} : pc'[q] = pc[q]
    BY <1>3 DEF Lone, Same
  <2> HIDE DEF Closing
  <2>2. CASE /\ pc[p] \in Closing <=> pc'[p] \in Closing
             /\ inProgress' = inProgress
    BY <2>1, <2>2 DEF GuardExclusive
  <2>3. CASE pc[p] \in Closing /\ pc'[p] \notin Closing /\ inProgress' = FALSE
    BY <2>1, <2>3 DEF GuardExclusive
  <2>4. CASE pc[p] \notin Closing /\ pc'[p] \in Closing /\ ~inProgress /\ inProgress'
    BY <2>1, <2>4 DEF GuardExclusive
  <2> QED
    BY <1>3, <2>2, <2>3, <2>4 DEF Guarded
<1> QED
  BY StepMoves, <1>1, <1>2, <1>3 DEF Moves, Effect

\* The test-and-set of _in_progress without an await between admits one close
\* at a time, and every way out of close_session discards it: its finally
\* clause, a failing call, a cancelled task, a restart.
THEOREM OneCloseAtATime == Spec => []GuardExclusive
<1>1. TypeInv /\ GuardExclusive /\ [Next]_vars => (TypeInv /\ GuardExclusive)'
  BY TypeStep, GuardStep DEF TypeInv
<1> QED
  BY <1>1, TypeInit, GuardInit, PTL DEF Spec

-----------------------------------------------------------------------------
(* What is true of every document the database has held: of the topic, and *)
(* of the copies the requests hold.                                        *)

DistinctIds(ms) == \A i, j \in DOMAIN ms : ms[i].id = ms[j].id => i = j

InOrder(ms) == \A i, j \in DOMAIN ms : i < j => ms[i].ts <= ms[j].ts

\* Summary blocks have ids of their own and share no message.
Apart(bs) == \A a, b \in bs : a # b => a.id # b.id /\ a.src \cap b.src = {}

\* A message is covered only after all the earlier ones.
PrefixOf(ms, bs) ==
    \A i, j \in DOMAIN ms :
        (i < j /\ ms[j].id \in Covered(bs)) => ms[i].id \in Covered(bs)

\* Below n: ids that were handed out before id n.
Below(ms, bs, n) ==
    /\ \A i \in Ids(ms) \cup Covered(bs) : i < n
    /\ \A b \in bs : b.id < n

\* Messages ms with blocks bs, when ids below n are drawn and the lessons of
\* the messages in c are handed over.
Sound(ms, bs, n, c) ==
    /\ DistinctIds(ms)
    /\ InOrder(ms)
    /\ Apart(bs)
    /\ PrefixOf(ms, bs)
    /\ Covered(bs) \subseteq c
    /\ Below(ms, bs, n)

LEMMA CoveredType ==
    ASSUME NEW bs, bs \subseteq Block
    PROVE  Covered(bs) \subseteq Nat
BY DEF Covered, Block

LEMMA IdsType ==
    ASSUME NEW ms \in Seq(Message)
    PROVE  /\ DOMAIN ms \subseteq Nat
           /\ \A i \in DOMAIN ms : ms[i] \in Message /\ ms[i].id \in Nat /\ ms[i].ts \in Nat
           /\ Ids(ms) \subseteq Nat
<1>1. DOMAIN ms \subseteq Nat /\ \A i \in DOMAIN ms : ms[i] \in Message
  OBVIOUS
<1> QED
  BY <1>1 DEF Message, Ids

LEMMA SoundEmpty ==
    ASSUME NEW n, NEW c
    PROVE  Sound(<<>>, {}, n, c)
<1>1. Ids(<<>>) = {} /\ Covered({}) = {}
  BY DEF Ids, Covered
<1> QED
  BY <1>1 DEF Sound, DistinctIds, InOrder, Apart, PrefixOf, Below

\* Drawing ids and handing over lessons disturbs no document.
LEMMA SoundGrows ==
    ASSUME NEW ms \in Seq(Message), NEW bs \in SUBSET Block,
           NEW n \in Nat, NEW m \in Nat, n <= m, NEW c, NEW d, c \subseteq d,
           Sound(ms, bs, n, c)
    PROVE  Sound(ms, bs, m, d)
<1>1. Ids(ms) \subseteq Nat /\ Covered(bs) \subseteq Nat
  BY IdsType, CoveredType
<1>2. \A b \in bs : b.id \in Nat
  BY DEF Block
<1>3. Below(ms, bs, n)
  BY DEF Sound
<1>4. Below(ms, bs, m)
  BY <1>1, <1>2, <1>3 DEF Below
<1> QED
  BY <1>4 DEF Sound

\* Dropping messages and recording picks keep a document sound.
LEMMA SoundThins ==
    ASSUME NEW ms, NEW ns, NEW bs, NEW n, NEW c,
           Sound(ms, bs, n, c),
           DOMAIN ns \subseteq DOMAIN ms,
           \A i \in DOMAIN ns : ns[i].id = ms[i].id /\ ns[i].ts = ms[i].ts
    PROVE  Sound(ns, bs, n, c)
<1>1. Ids(ns) \subseteq Ids(ms)
  BY DEF Ids
<1>2. DistinctIds(ns) /\ InOrder(ns)
  BY DEF Sound, DistinctIds, InOrder
<1>3. PrefixOf(ns, bs)
  BY DEF Sound, PrefixOf
<1>4. Below(ns, bs, n)
  BY <1>1 DEF Sound, Below
<1> QED
  BY <1>2, <1>3, <1>4 DEF Sound

LEMMA AppendIds ==
    ASSUME NEW ms \in Seq(Message), NEW m \in Message
    PROVE  /\ Ids(Append(ms, m)) = Ids(ms) \cup {m.id}
           /\ DOMAIN Append(ms, m) = (DOMAIN ms) \cup {Len(ms) + 1}
           /\ \A i \in DOMAIN ms : Append(ms, m)[i] = ms[i] /\ i <= Len(ms)
           /\ Append(ms, m)[Len(ms) + 1] = m
<1>1. DOMAIN Append(ms, m) = (DOMAIN ms) \cup {Len(ms) + 1}
  OBVIOUS
<1>2. \A i \in DOMAIN ms : Append(ms, m)[i] = ms[i] /\ i <= Len(ms)
  OBVIOUS
<1>3. Append(ms, m)[Len(ms) + 1] = m
  OBVIOUS
<1> HIDE DEF Message
<1>4. Ids(Append(ms, m)) = Ids(ms) \cup {m.id}
  <2> DEFINE as == Append(ms, m)
             l == Len(ms) + 1
  <2>1. DOMAIN as = (DOMAIN ms) \cup {l} /\ as[l] = m /\ \A i \in DOMAIN ms : as[i] = ms[i]
    BY <1>1, <1>2, <1>3
  <2> HIDE DEF as, l
  <2>2. {as[i].id : i \in DOMAIN as} = {ms[i].id : i \in DOMAIN ms} \cup {m.id}
    BY <2>1
  <2> QED
    BY <2>2 DEF Ids, as
<1> QED
  BY <1>1, <1>2, <1>3, <1>4

\* Appending a new message, not older than the last one.
LEMMA SoundAppends ==
    ASSUME NEW ms \in Seq(Message), NEW bs \in SUBSET Block, NEW n \in Nat,
           NEW c, NEW m \in Message,
           Sound(ms, bs, n, c),
           m.id \notin Ids(ms) \cup Covered(bs), m.id < n,
           ms # <<>> => Last(ms).ts <= m.ts
    PROVE  Sound(Append(ms, m), bs, n, c)
<1> DEFINE as == Append(ms, m)
           l == Len(ms) + 1
<1>1. /\ Ids(as) = Ids(ms) \cup {m.id}
      /\ DOMAIN as = (DOMAIN ms) \cup {l}
      /\ as[l] = m
      /\ \A i \in DOMAIN ms : as[i] = ms[i] /\ i < l
      /\ ~(l < l)
  <2>1. \A i \in DOMAIN ms : i \in Nat /\ i <= Len(ms)
    OBVIOUS
  <2>2. Len(ms) \in Nat
    OBVIOUS
  <2> QED
    BY <2>1, <2>2, AppendIds
<1>2. \A i \in DOMAIN ms : ms[i].id \in Ids(ms)
  BY DEF Ids
<1>3. \A i \in DOMAIN ms : ms[i].ts <= m.ts
  <2> SUFFICES ASSUME NEW i \in DOMAIN ms PROVE ms[i].ts <= m.ts
    OBVIOUS
  <2>1. /\ i \in 1 .. Len(ms) /\ Len(ms) \in Nat /\ Len(ms) \in DOMAIN ms
        /\ ms # <<>>
    OBVIOUS
  <2>2. ms[i].ts \in Nat /\ ms[Len(ms)].ts \in Nat /\ m.ts \in Nat
    BY <2>1, IdsType DEF Message
  <2>3. ms[Len(ms)].ts <= m.ts
    BY <2>1 DEF Last
  <2>4. i < Len(ms) => ms[i].ts <= ms[Len(ms)].ts
    BY <2>1 DEF Sound, InOrder
  <2>5. i = Len(ms) \/ i < Len(ms)
    BY <2>1
  <2> QED
    BY <2>2, <2>3, <2>4, <2>5
<1>4. \A i \in DOMAIN as : ~(l < i)
  <2>1. /\ \A i \in DOMAIN ms : i \in Nat /\ i <= Len(ms)
        /\ Len(ms) \in Nat
    OBVIOUS
  <2> QED
    BY <1>1, <2>1
<1> HIDE DEF as, l
<1>5. DistinctIds(as)
  BY <1>1, <1>2 DEF Sound, DistinctIds
<1>6. InOrder(as)
  <2> SUFFICES ASSUME NEW i \in DOMAIN as, NEW j \in DOMAIN as, i < j
               PROVE  as[i].ts <= as[j].ts
    BY DEF InOrder
  <2>1. i \in DOMAIN ms
    BY <1>1, <1>4
  <2> QED
    BY <1>1, <1>3, <2>1 DEF Sound, InOrder
<1>7. PrefixOf(as, bs)
  <2> SUFFICES ASSUME NEW i \in DOMAIN as, NEW j \in DOMAIN as, i < j,
                      as[j].id \in Covered(bs)
               PROVE  as[i].id \in Covered(bs)
    BY DEF PrefixOf
  <2>1. i \in DOMAIN ms /\ j # l
    BY <1>1, <1>4
  <2> QED
    BY <1>1, <2>1 DEF Sound, PrefixOf
<1>8. Below(as, bs, n)
  BY <1>1 DEF Sound, Below
<1> QED
  BY <1>5, <1>6, <1>7, <1>8 DEF Sound, as

-----------------------------------------------------------------------------
(* What a close does to messages and blocks.                               *)

SessionOf(ms, bs, u) ==
    {i \in DOMAIN ms : ms[i].id \notin Covered(bs) /\ ms[i].ts <= u}

\* ws covers what bs covers, and the session of ms up to time u.
Folded(ms, bs, u, ws) ==
    Covered(ws) = Covered(bs) \cup {ms[i].id : i \in SessionOf(ms, bs, u)}

\* Blocks drawn from ids below n, which a close may commit.
Tidy(ws, n) == Apart(ws) /\ \A b \in ws : b.id < n

LEMMA CoveredParts ==
    ASSUME NEW bs, NEW cs
    PROVE  /\ Covered(bs \cup cs) = Covered(bs) \cup Covered(cs)
           /\ \A b : Covered({b}) = b.src
           /\ \A b \in bs : b.src \subseteq Covered(bs)
<1>1. Covered(bs \cup cs) = Covered(bs) \cup Covered(cs)
  BY DEF Covered
<1>2. \A b : Covered({b}) = b.src
  BY DEF Covered
<1>3. \A b \in bs : b.src \subseteq Covered(bs)
  BY DEF Covered
<1> QED
  BY <1>1, <1>2, <1>3

\* A message up to time u is covered once the session up to u is folded.
LEMMA FoldedCovers ==
    ASSUME NEW ms, NEW bs, NEW u, NEW ws, Folded(ms, bs, u, ws),
           NEW i \in DOMAIN ms, ms[i].ts <= u
    PROVE  ms[i].id \in Covered(ws)
BY DEF Folded, SessionOf

LEMMA SoundFolds ==
    ASSUME NEW ms \in Seq(Message), NEW bs, NEW u \in Nat, NEW ws, NEW n, NEW c,
           Sound(ms, bs, n, c),
           Folded(ms, bs, u, ws),
           Tidy(ws, n),
           {ms[i].id : i \in SessionOf(ms, bs, u)} \subseteq c
    PROVE  Sound(ms, ws, n, c)
<1>1. Covered(ws) \subseteq c
  BY DEF Sound, Folded
<1>2. {ms[i].id : i \in SessionOf(ms, bs, u)} \subseteq Ids(ms)
  BY DEF SessionOf, Ids
<1>3. Below(ms, ws, n)
  BY <1>2 DEF Sound, Below, Folded, Tidy
<1>4. PrefixOf(ms, ws)
  <2> SUFFICES ASSUME NEW i \in DOMAIN ms, NEW j \in DOMAIN ms, i < j,
                      ms[j].id \in Covered(ws)
               PROVE  ms[i].id \in Covered(ws)
    BY DEF PrefixOf
  <2>1. CASE ms[j].id \in Covered(bs)
    <3>1. ms[i].id \in Covered(bs)
      BY <2>1 DEF Sound, PrefixOf
    <3> QED
      BY <3>1 DEF Folded
  <2>2. CASE ms[j].id \notin Covered(bs)
    <3>1. PICK k \in SessionOf(ms, bs, u) : ms[k].id = ms[j].id
      BY <2>2 DEF Folded
    <3>2. k = j /\ ms[j].ts <= u
      BY <3>1 DEF SessionOf, Sound, DistinctIds
    <3>3. ms[i].ts <= ms[j].ts
      BY DEF Sound, InOrder
    <3>4. ms[i].ts \in Nat /\ ms[j].ts \in Nat
      BY IdsType
    <3>5. ms[i].ts <= u
      BY <3>2, <3>3, <3>4
    <3> QED
      BY <3>5, FoldedCovers
  <2> QED
    BY <2>1, <2>2
<1> QED
  BY <1>1, <1>3, <1>4 DEF Sound, Tidy

\* What a close newly covers is a prefix of the thread, and not nothing.
LEMMA FoldedPrefix ==
    ASSUME NEW ms \in Seq(Message), NEW bs, NEW u, NEW ws,
           Folded(ms, bs, u, ws),
           PrefixOf(ms, ws),
           SessionOf(ms, bs, u) # {}
    PROVE  /\ Covered(ws) # Covered(bs)
           /\ \E k \in 1 .. Len(ms) :
                 Covered(ws) = Covered(bs) \cup {ms[i].id : i \in 1 .. k}
<1> DEFINE s == SessionOf(ms, bs, u)
           T == {n \in Nat : Len(ms) - n \in s}
<1>1. Len(ms) \in Nat /\ DOMAIN ms = 1 .. Len(ms)
  OBVIOUS
<1>2. s \subseteq 1 .. Len(ms) /\ \A i \in s : ms[i].id \notin Covered(bs)
  BY <1>1 DEF SessionOf
<1>3. \A i \in s : Len(ms) - i \in T
  <2> SUFFICES ASSUME NEW i \in s PROVE Len(ms) - i \in T
    OBVIOUS
  <2>1. i \in 1 .. Len(ms)
    BY <1>2
  <2>2. Len(ms) - i \in Nat /\ Len(ms) - (Len(ms) - i) = i
    BY <1>1, <2>1
  <2> QED
    BY <2>2
<1>4. T # {} /\ T \subseteq Nat
  BY <1>3
<1>5. PICK n \in T : \A m \in T : n <= m
  BY <1>4, Least, Zenon
<1> DEFINE k == Len(ms) - n
<1>6. k \in s /\ k \in 1 .. Len(ms) /\ n \in Nat
  BY <1>2, <1>5
<1>7. \A i \in s : i \in 1 .. k
  <2> SUFFICES ASSUME NEW i \in s PROVE i \in 1 .. k
    OBVIOUS
  <2>1. n <= Len(ms) - i /\ i \in 1 .. Len(ms)
    BY <1>2, <1>3, <1>5
  <2> QED
    BY <1>1, <1>6, <2>1
<1> HIDE DEF T, s, k
<1>8. Covered(ws) = Covered(bs) \cup {ms[i].id : i \in s}
  BY DEF Folded, s
<1>9. \A i \in 1 .. k : ms[i].id \in Covered(ws)
  <2> SUFFICES ASSUME NEW i \in 1 .. k PROVE ms[i].id \in Covered(ws)
    OBVIOUS
  <2>1. i = k \/ i < k
    BY <1>6
  <2>2. i \in DOMAIN ms /\ k \in DOMAIN ms /\ ms[k].id \in Covered(ws)
    BY <1>1, <1>6, <1>8
  <2> QED
    BY <2>1, <2>2 DEF PrefixOf
<1>10. Covered(ws) = Covered(bs) \cup {ms[i].id : i \in 1 .. k}
  BY <1>7, <1>8, <1>9
<1>11. Covered(ws) # Covered(bs)
  BY <1>2, <1>6, <1>8
<1> QED
  BY <1>6, <1>10, <1>11

\* The new block takes the session out of the uncovered messages.
LEMMA TidyAdds ==
    ASSUME NEW bs, \A b \in bs : b.id \in Nat, NEW n \in Nat, Tidy(bs, n),
           NEW nb, nb.id = n, nb.src \cap Covered(bs) = {}
    PROVE  /\ Tidy(bs \cup {nb}, n + 1)
           /\ Covered(bs \cup {nb}) = Covered(bs) \cup nb.src
<1>1. Covered(bs \cup {nb}) = Covered(bs) \cup nb.src
  BY CoveredParts
<1>2. \A b \in bs : b.src \subseteq Covered(bs)
  BY CoveredParts
<1>3. \A b \in bs : b.id # nb.id /\ b.src \cap nb.src = {}
  BY <1>2 DEF Tidy
<1>4. Apart(bs \cup {nb})
  BY <1>3 DEF Apart, Tidy
<1>5. \A b \in bs \cup {nb} : b.id < n + 1
  BY DEF Tidy
<1> QED
  BY <1>1, <1>4, <1>5 DEF Tidy

\* Replacing two blocks by their merge loses no message and repeats none.
LEMMA TidyMerges ==
    ASSUME NEW ws, \A b \in ws : b.id \in Nat, NEW n \in Nat, Tidy(ws, n),
           NEW a \in ws, NEW b \in ws, a # b, NEW mb,
           mb.id = n, mb.src = a.src \cup b.src,
           NEW vs, vs = {c \in ws : c.id \notin {a.id, b.id}} \cup {mb}
    PROVE  Tidy(vs, n + 1) /\ Covered(vs) = Covered(ws)
<1> DEFINE rest == ws \ {a, b}
<1>1. {c \in ws : c.id \notin {a.id, b.id}} = rest
  BY DEF Tidy, Apart
<1>2. vs = rest \cup {mb}
  BY <1>1
<1>3. Covered(ws) = Covered(rest) \cup a.src \cup b.src
  <2>1. ws = rest \cup {a} \cup {b}
    OBVIOUS
  <2> HIDE DEF rest
  <2>2. Covered(rest \cup {a} \cup {b}) = Covered(rest \cup {a}) \cup Covered({b})
    BY CoveredParts
  <2>3. Covered(rest \cup {a}) = Covered(rest) \cup Covered({a})
    BY CoveredParts
  <2>4. Covered({a}) = a.src /\ Covered({b}) = b.src
    BY CoveredParts
  <2> QED
    BY <2>1, <2>2, <2>3, <2>4
<1>4. Covered(vs) = Covered(rest) \cup mb.src
  <2> HIDE DEF rest
  <2>1. Covered(rest \cup {mb}) = Covered(rest) \cup Covered({mb})
    BY CoveredParts
  <2>2. Covered({mb}) = mb.src
    BY CoveredParts
  <2> QED
    BY <1>2, <2>1, <2>2
<1>5. \A c \in rest : c.id # mb.id /\ c.src \cap mb.src = {}
  BY DEF Tidy, Apart
<1>6. Apart(vs)
  BY <1>2, <1>5 DEF Tidy, Apart
<1>7. \A c \in vs : c.id < n + 1
  BY <1>2 DEF Tidy
<1> QED
  BY <1>3, <1>4, <1>6, <1>7 DEF Tidy

-----------------------------------------------------------------------------
(* The invariant.                                                          *)

Told == Ids(topic.messages) \cup Covered(topic.blocks)

\* A message that is not in the thread yet has an id of its own.
FreshInv ==
    \A p \in Request : pc[p] \in Fresh =>
        /\ msg[p].id \in 1 .. MaxId
        /\ msg[p].id < nextId
        /\ msg[p].id \notin Told
        /\ \A q \in Request : (pc[q] \in Fresh /\ msg[q].id = msg[p].id) => q = p

\* What a request checked holds of the document it keeps.
CheckedAt(p) ==
    /\ pc[p] = "appendWrite" => Accepts(snap[p], msg[p])
    /\ pc[p] = "answerWrite" => Answerable(snap[p], msg[p].id)
    /\ pc[p] \in {"summarise", "merge", "commit"} =>
          SessionAt(snap[p], upto[p]) # {}

\* What a close is about to commit.
WorkAt(p) ==
    pc[p] \in {"merge", "commit"} =>
        /\ Tidy(work[p], nextId)
        /\ Folded(snap[p].messages, snap[p].blocks, upto[p], work[p])
        /\ SessionIds(p) \subseteq Settled

TopicSound == Sound(topic.messages, topic.blocks, nextId, Settled)

CopySound(p) == Sound(snap[p].messages, snap[p].blocks, nextId, Settled)

CoverInv ==
    /\ VersionInv
    /\ nextId > 0
    /\ TopicSound
    /\ FreshInv
    /\ \A p \in Request : CopySound(p) /\ CheckedAt(p) /\ WorkAt(p)

LEMMA SessionIs ==
    /\ \A doc, u : SessionAt(doc, u) = SessionOf(doc.messages, doc.blocks, u)
    /\ \A p : SessionIds(p) =
          {snap[p].messages[i].id :
              i \in SessionOf(snap[p].messages, snap[p].blocks, upto[p])}
BY DEF SessionAt, SessionOf, SessionIds

LEMMA CoverTypes ==
    ASSUME TypeInv
    PROVE  /\ topic \in TopicDoc /\ topic.messages \in Seq(Message)
           /\ topic.blocks \in SUBSET Block
           /\ nextId \in Nat /\ Settled \subseteq Nat
           /\ \A p \in Request :
                 /\ snap[p] \in TopicDoc /\ snap[p].messages \in Seq(Message)
                 /\ snap[p].blocks \in SUBSET Block
                 /\ msg[p] \in Message /\ msg[p].id \in Nat /\ msg[p].quiz \in Quiz
                 /\ upto[p] \in Nat
                 /\ work[p] \in SUBSET Block
BY DEF TypeInv, SharedType, LocalType, TopicDoc, Message, Settled

LEMMA CoverInit == Init => CoverInv
<1> SUFFICES ASSUME Init PROVE CoverInv
  OBVIOUS
<1>1. VersionInv
  BY VersionInit
<1>2. nextId > 0 /\ TopicSound
  BY SoundEmpty DEF Init, TopicSound
<1>3. \A p \in Request : CopySound(p)
  BY SoundEmpty DEF Init, CopySound, Gone
<1>4. FreshInv
  BY DEF Init, FreshInv, Fresh
<1>5. \A p \in Request : CheckedAt(p) /\ WorkAt(p)
  BY DEF Init, CheckedAt, WorkAt
<1> QED
  BY <1>1, <1>2, <1>3, <1>4, <1>5 DEF CoverInv

\* Messages and blocks of the documents the four conditional writes leave.
LEMMA WriteParts ==
    ASSUME TypeInv, NEW p \in Request
    PROVE  /\ Appended(p).messages = Append(topic.messages, msg[p])
           /\ Appended(p).blocks = topic.blocks
           /\ Removed(p).messages = Front(topic.messages)
           /\ Removed(p).blocks = topic.blocks
           /\ Answered(p).blocks = topic.blocks
           /\ Committed(p).messages = topic.messages
           /\ Committed(p).blocks = work[p]
<1>1. topic \in TopicDoc
  BY CoverTypes
<1>2. /\ Appended(p).messages = Append(topic.messages, msg[p])
      /\ Appended(p).blocks = topic.blocks
  BY <1>1 DEF Appended, TopicDoc
<1>3. /\ Removed(p).messages = Front(topic.messages)
      /\ Removed(p).blocks = topic.blocks
  BY <1>1 DEF Removed, TopicDoc
<1>4. Answered(p).blocks = topic.blocks
  BY <1>1 DEF Answered, TopicDoc
<1>5. /\ Committed(p).messages = topic.messages
      /\ Committed(p).blocks = work[p]
  BY <1>1 DEF Committed, TopicDoc
<1> QED
  BY <1>2, <1>3, <1>4, <1>5

\* A pick leaves every message but one as it is, and of that one only the
\* quiz card changes.
LEMMA PickParts ==
    ASSUME TypeInv, NEW p \in Request
    PROVE  LET idx == CHOOSE j \in DOMAIN snap[p].messages :
                         snap[p].messages[j].id = msg[p].id
               ms == topic.messages
               ns == Answered(p).messages
           IN  /\ DOMAIN ns = DOMAIN ms
               /\ \A i \in DOMAIN ms : ns[i].id = ms[i].id /\ ns[i].ts = ms[i].ts
               /\ \A i \in DOMAIN ms : i # idx => ns[i] = ms[i]
<1> DEFINE idx == CHOOSE j \in DOMAIN snap[p].messages :
                     snap[p].messages[j].id = msg[p].id
           ms == topic.messages
           ns == [ms EXCEPT ![idx].quiz = msg[p].quiz]
<1>1. topic \in TopicDoc /\ ms \in Seq(Message) /\ msg[p].quiz \in Quiz
  BY CoverTypes
<1>2. Answered(p) = [topic EXCEPT !.messages[idx].quiz = msg[p].quiz,
                                  !.version = snap[p].version + 1]
  BY Zenon DEF Answered
<1> HIDE DEF idx
<1>3. Answered(p).messages = ns
  BY <1>1, <1>2 DEF TopicDoc
<1>4. DOMAIN ns = DOMAIN ms
  BY <1>1
<1>5. \A i \in DOMAIN ms : i # idx => ns[i] = ms[i]
  BY <1>1
<1>6. \A i \in DOMAIN ms : ns[i].id = ms[i].id /\ ns[i].ts = ms[i].ts
  <2> SUFFICES ASSUME NEW i \in DOMAIN ms
               PROVE  ns[i].id = ms[i].id /\ ns[i].ts = ms[i].ts
    OBVIOUS
  <2>1. ms[i] \in Message
    BY <1>1
  <2>2. CASE i = idx
    <3>1. ns[i] = [ms[i] EXCEPT !.quiz = msg[p].quiz]
      BY <2>2
    <3> QED
      BY <2>1, <3>1 DEF Message
  <2> QED
    BY <1>5, <2>2
<1> QED
  BY <1>3, <1>4, <1>5, <1>6 DEF idx

\* Messages and blocks of the document after a step are sound.
LEMMA StepSound ==
    ASSUME CoverInv, [Next]_vars
    PROVE  Sound(topic'.messages, topic'.blocks, nextId, Settled)
<1>1. TypeInv /\ Written
  BY StepWrites DEF CoverInv, VersionInv
<1>2. /\ topic \in TopicDoc /\ topic.messages \in Seq(Message)
      /\ topic.blocks \in SUBSET Block /\ nextId \in Nat
      /\ TopicSound
  BY <1>1, CoverTypes DEF CoverInv
<1>3. CASE topic' = topic
  BY <1>2, <1>3 DEF TopicSound
<1>4. CASE topic' = Gone
  BY <1>4, SoundEmpty DEF Gone
<1>5. CASE Relabels
  BY <1>2, <1>5 DEF TopicSound, Relabels
<1>6. ASSUME NEW p \in Request, Matches(p),
             pc[p] = "appendWrite", topic' = Appended(p)
      PROVE  Sound(topic'.messages, topic'.blocks, nextId, Settled)
  <2>1. snap[p].messages = topic.messages
    BY <1>6, MatchPins DEF CoverInv, Held, Writing
  <2>2. topic.messages # <<>> => Last(topic.messages).ts <= msg[p].ts
    BY <1>6, <2>1 DEF CoverInv, CheckedAt, Accepts
  <2>3. /\ msg[p].id \notin Ids(topic.messages) \cup Covered(topic.blocks)
        /\ msg[p].id < nextId /\ msg[p] \in Message
    BY <1>1, <1>6, CoverTypes DEF CoverInv, FreshInv, Fresh, Told
  <2>4. Sound(Append(topic.messages, msg[p]), topic.blocks, nextId, Settled)
    BY <1>2, <2>2, <2>3, SoundAppends DEF TopicSound
  <2> QED
    BY <1>1, <1>6, <2>4, WriteParts
<1>7. ASSUME NEW p \in Request, Matches(p),
             pc[p] = "removeWrite", topic' = Removed(p)
      PROVE  Sound(topic'.messages, topic'.blocks, nextId, Settled)
  <2>1. snap[p].messages = topic.messages /\ topic.messages # <<>>
    BY <1>7, MatchPins
       DEF CoverInv, VersionInv, HeldInv, Removable, Held, Writing
  <2> DEFINE ms == topic.messages
             ns == Front(topic.messages)
  <2>2. /\ ns \in Seq(Message) /\ Len(ns) = Len(ms) - 1
        /\ \A i \in 1 .. Len(ms) - 1 : ns[i] = ms[i]
    BY <1>2, <2>1, FrontType
  <2>3. /\ DOMAIN ns = 1 .. Len(ms) - 1 /\ DOMAIN ms = 1 .. Len(ms)
        /\ Len(ms) \in Nat
    BY <1>2, <2>2
  <2>4. DOMAIN ns \subseteq DOMAIN ms /\ \A i \in DOMAIN ns : ns[i] = ms[i]
    BY <2>2, <2>3
  <2> HIDE DEF ns
  <2>5. Sound(ns, topic.blocks, nextId, Settled)
    BY <1>2, <2>4, SoundThins DEF TopicSound
  <2> QED
    BY <1>1, <1>7, <2>5, WriteParts DEF ns
<1>8. ASSUME NEW p \in Request, Matches(p), topic' = Answered(p)
      PROVE  Sound(topic'.messages, topic'.blocks, nextId, Settled)
  <2> DEFINE ns == Answered(p).messages
  <2>1. /\ DOMAIN ns = DOMAIN topic.messages
        /\ \A i \in DOMAIN ns : /\ ns[i].id = topic.messages[i].id
                                /\ ns[i].ts = topic.messages[i].ts
    BY <1>1, PickParts, Zenon
  <2> HIDE DEF ns
  <2>2. Sound(ns, topic.blocks, nextId, Settled)
    BY <1>2, <2>1, SoundThins DEF TopicSound
  <2> QED
    BY <1>1, <1>8, <2>2, WriteParts DEF ns
<1>9. ASSUME NEW p \in Request, Matches(p), pc[p] = "commit",
             topic' = Committed(p)
      PROVE  Sound(topic'.messages, topic'.blocks, nextId, Settled)
  <2>1. /\ snap[p].messages = topic.messages
        /\ snap[p].blocks = topic.blocks
    BY <1>9, MatchPins DEF CoverInv, Held
  <2>2. /\ Tidy(work[p], nextId)
        /\ Folded(topic.messages, topic.blocks, upto[p], work[p])
        /\ {topic.messages[i].id :
              i \in SessionOf(topic.messages, topic.blocks, upto[p])} \subseteq Settled
    BY <1>9, <2>1, SessionIs DEF CoverInv, WorkAt
  <2>3. upto[p] \in Nat
    BY <1>1, CoverTypes
  <2>4. Sound(topic.messages, work[p], nextId, Settled)
    BY <1>2, <2>2, <2>3, SoundFolds DEF TopicSound
  <2> QED
    BY <1>1, <1>9, <2>4, WriteParts
<1> QED
  BY <1>1, <1>3, <1>4, <1>5, <1>6, <1>7, <1>8, <1>9 DEF Written

\* Ids are only drawn and lessons only handed over.
LEMMA StepGrows ==
    ASSUME TypeInv, [Next]_vars
    PROVE  nextId <= nextId' /\ Settled \subseteq Settled'
<1>1. Moves /\ nextId \in Nat
  BY StepMoves, CoverTypes DEF TypeInv
<1> QED
  BY <1>1 DEF Moves, Effect, Moved, Still, Idles, Draws, Checks, Rereads,
     Writes, Shelves, Opens, Folds, Merges, Skips

\* A step adds no id to the thread and its blocks but the one its request
\* appends.
LEMMA StepTold ==
    ASSUME CoverInv, NEW p \in Request, Moved(p), NEW i \in Told'
    PROVE  \/ i \in Told
           \/ pc[p] = "appendWrite" /\ pc'[p] \notin Busy /\ i = msg[p].id
<1>1. TypeInv
  BY DEF CoverInv, VersionInv
<1>2. topic \in TopicDoc /\ topic.messages \in Seq(Message) /\ msg[p] \in Message
  BY <1>1, CoverTypes
<1>3. CASE topic' = topic
  BY <1>3 DEF Told
<1>4. CASE topic' = Gone
  <2>1. Told' = {}
    BY <1>4 DEF Told, Gone, Ids, Covered
  <2> QED
    BY <2>1
<1>5. CASE Relabels
  BY <1>5 DEF Told, Relabels
<1>6. CASE Writes(p)
  <2>1. CASE pc[p] = "appendWrite" /\ topic' = Appended(p)
    <3>1. Told' = Told \cup {msg[p].id}
      <4>1. /\ topic'.messages = Append(topic.messages, msg[p])
            /\ topic'.blocks = topic.blocks
        BY <1>1, <2>1, WriteParts
      <4>2. Ids(topic'.messages) = Ids(topic.messages) \cup {msg[p].id}
        BY <1>2, <4>1, AppendIds
      <4> QED
        BY <4>1, <4>2 DEF Told
    <3> QED
      BY <1>6, <2>1, <3>1 DEF Writes
  <2>2. CASE pc[p] = "removeWrite" /\ topic' = Removed(p)
    <3> DEFINE ms == topic.messages
               ns == Front(topic.messages)
    <3>1. topic.messages # <<>>
      BY <1>6, <2>2, MatchPins
         DEF Writes, CoverInv, VersionInv, HeldInv, Removable, Held, Writing
    <3>2. /\ ns \in Seq(Message) /\ Len(ns) = Len(ms) - 1
          /\ \A j \in 1 .. Len(ms) - 1 : ns[j] = ms[j]
      BY <1>2, <3>1, FrontType
    <3>3. /\ DOMAIN ns = 1 .. Len(ms) - 1 /\ DOMAIN ms = 1 .. Len(ms)
          /\ Len(ms) \in Nat
      BY <1>2, <3>2
    <3>4. DOMAIN ns \subseteq DOMAIN ms /\ \A j \in DOMAIN ns : ns[j] = ms[j]
      BY <3>2, <3>3
    <3> HIDE DEF ns
    <3>5. Ids(ns) \subseteq Ids(ms)
      BY <3>4 DEF Ids
    <3>6. topic'.messages = ns /\ topic'.blocks = topic.blocks
      BY <1>1, <2>2, WriteParts DEF ns
    <3> QED
      BY <3>5, <3>6 DEF Told
  <2>3. CASE topic' = Answered(p)
    <3> DEFINE ns == topic'.messages
    <3>1. /\ DOMAIN ns = DOMAIN topic.messages
          /\ \A j \in DOMAIN ns : ns[j].id = topic.messages[j].id
      BY <1>1, <2>3, PickParts, Zenon
    <3> HIDE DEF ns
    <3>2. Ids(ns) \subseteq Ids(topic.messages)
      BY <3>1 DEF Ids
    <3> QED
      BY <1>1, <2>3, <3>2, WriteParts DEF Told, ns
  <2>4. CASE pc[p] = "commit" /\ topic' = Committed(p)
    <3>1. /\ snap[p].messages = topic.messages
          /\ snap[p].blocks = topic.blocks
      BY <1>6, <2>4, MatchPins DEF CoverInv, Held, Writes
    <3>2. Folded(topic.messages, topic.blocks, upto[p], work[p])
      BY <2>4, <3>1 DEF CoverInv, WorkAt
    <3>3. Covered(work[p]) \subseteq Covered(topic.blocks) \cup Ids(topic.messages)
      BY <3>2 DEF Folded, SessionOf, Ids
    <3> QED
      BY <1>1, <2>4, <3>3, WriteParts DEF Told
  <2> QED
    BY <1>6, <2>1, <2>2, <2>3, <2>4 DEF Writes
<1> QED
  BY <1>3, <1>4, <1>5, <1>6
     DEF Moved, Still, Idles, Draws, Checks, Rereads, Shelves, Opens, Folds,
         Merges, Skips

\* The request that moves either has no message in hand, or the one it had,
\* or one with a new id.
LEMMA MovesFresh ==
    ASSUME NEW p \in Request, Moved(p), pc'[p] \in Fresh
    PROVE  \/ topic' = topic /\ pc[p] \in Fresh /\ msg'[p] = msg[p]
           \/ Draws(p)
BY DEF Fresh, Moved, Still, Idles, Draws, Checks, Rereads, Writes, Shelves,
       Opens, Folds, Merges, Skips, Busy, Held, Writing

LEMMA FreshStep ==
    ASSUME CoverInv, [Next]_vars
    PROVE  FreshInv'
<1>1. TypeInv /\ Moves /\ nextId <= nextId' /\ FreshInv /\ nextId > 0
  BY StepMoves, StepGrows DEF CoverInv, VersionInv, TypeInv
<1>2. /\ nextId \in Nat /\ nextId' \in Nat
      /\ \A p \in Request : msg[p].id \in Nat
      /\ \A i \in Told : i \in Nat /\ i < nextId
  <2>1. TypeInv'
    BY <1>1, TypeStep
  <2>2. Told \subseteq Nat
    BY <1>1, CoverTypes, IdsType, CoveredType DEF Told
  <2>3. \A i \in Told : i < nextId
    BY DEF CoverInv, TopicSound, Sound, Below, Told
  <2> QED
    BY <1>1, <2>1, <2>2, <2>3, CoverTypes DEF TypeInv, SharedType
<1>3. CASE (Still \/ (Relabels /\ nextId' = nextId)) /\ \A q \in Request : Same(q)
  BY <1>1, <1>3 DEF Still, Relabels, Same, FreshInv, Told
<1>4. CASE \A q \in Request : pc'[q] = "idle"
  BY <1>4 DEF FreshInv, Fresh
<1>5. ASSUME NEW r \in Request, Effect(r)
      PROVE  FreshInv'
  <2>1. /\ Moved(r)
        /\ \A q \in Request \ {r} : pc'[q] = pc[q] /\ msg'[q] = msg[q]
    BY <1>5 DEF Effect, Lone, Same
  <2>2. \A i \in Told' : \/ i \in Told
                         \/ /\ pc[r] = "appendWrite" /\ pc'[r] \notin Busy
                            /\ i = msg[r].id
    BY <2>1, StepTold
  \* Every message in hand after the step was in hand before, or is new.
  <2>3. ASSUME NEW p \in Request, pc'[p] \in Fresh
        PROVE  \/ pc[p] \in Fresh /\ msg'[p] = msg[p]
               \/ p = r /\ Draws(r)
    BY <2>1, <2>3, MovesFresh
  <2>4. ASSUME NEW p \in Request, pc'[p] \in Fresh
        PROVE  msg'[p].id \in 1 .. MaxId /\ msg'[p].id < nextId'
    <3>1. CASE pc[p] \in Fresh /\ msg'[p] = msg[p]
      BY <1>1, <1>2, <3>1 DEF FreshInv
    <3>2. CASE p = r /\ Draws(r)
      <4>1. MaxId \in Nat
        BY NatAssumption
      <4> QED
        BY <1>1, <1>2, <3>2, <4>1 DEF Draws
    <3> QED
      BY <2>3, <2>4, <3>1, <3>2
  <2>5. ASSUME NEW p \in Request, pc'[p] \in Fresh
        PROVE  msg'[p].id \notin Told'
    <3>1. CASE pc[p] \in Fresh /\ msg'[p] = msg[p]
      <4>1. msg[p].id \notin Told
        BY <1>1, <3>1 DEF FreshInv
      <4>2. CASE pc[r] = "appendWrite" /\ pc'[r] \notin Busy
        <5>1. p # r
          BY <2>5, <4>2 DEF Fresh, Busy, Held, Writing
        <5>2. msg[p].id # msg[r].id
          BY <1>1, <3>1, <4>2, <5>1 DEF FreshInv, Fresh
        <5> QED
          BY <2>2, <3>1, <4>1, <5>2
      <4> QED
        BY <2>2, <3>1, <4>1, <4>2
    <3>2. CASE p = r /\ Draws(r)
      <4>1. Told' = Told /\ msg'[p].id = nextId
        BY <3>2 DEF Draws, Told
      <4> QED
        BY <1>2, <4>1
    <3> QED
      BY <2>3, <2>5, <3>1, <3>2
  <2>6. ASSUME NEW p \in Request, pc'[p] \in Fresh,
               NEW q \in Request, pc'[q] \in Fresh, msg'[q].id = msg'[p].id
        PROVE  q = p
    <3>1. \A x \in Request : pc[x] \in Fresh => msg[x].id # nextId
      BY <1>1, <1>2 DEF FreshInv
    <3>2. CASE pc[p] \in Fresh /\ msg'[p] = msg[p] /\ pc[q] \in Fresh /\ msg'[q] = msg[q]
      BY <1>1, <2>6, <3>2 DEF FreshInv
    <3>3. CASE p = r /\ Draws(r) /\ pc[q] \in Fresh /\ msg'[q] = msg[q]
      BY <2>6, <3>1, <3>3 DEF Draws
    <3>4. CASE q = r /\ Draws(r) /\ pc[p] \in Fresh /\ msg'[p] = msg[p]
      BY <2>6, <3>1, <3>4 DEF Draws
    <3> QED
      BY <2>3, <2>6, <3>2, <3>3, <3>4
  <2> QED
    BY <2>4, <2>5, <2>6 DEF FreshInv
<1> QED
  BY <1>1, <1>3, <1>4, <1>5 DEF Moves

LEMMA CheckedStep ==
    ASSUME CoverInv, [Next]_vars, NEW p \in Request
    PROVE  CheckedAt(p)'
<1>1. Moves /\ CheckedAt(p)
  BY StepMoves DEF CoverInv, VersionInv, TypeInv
<1>2. CASE Same(p)
  BY <1>1, <1>2 DEF Same, CheckedAt
<1>3. CASE pc'[p] = "idle"
  BY <1>3 DEF CheckedAt
<1>4. ASSUME Moved(p) PROVE CheckedAt(p)'
  <2>1. CASE pc'[p] \notin Busy
    BY <2>1 DEF CheckedAt, Busy, Held, Writing
  <2>2. CASE pc'[p] = "append"
    BY <2>2 DEF CheckedAt
  <2>3. CASE Checks(p)
    BY <2>3 DEF Checks, CheckedAt
  <2>4. CASE Opens(p)
    BY <2>4 DEF Opens, CheckedAt
  <2>5. CASE Folds(p)
    BY <1>1, <2>5 DEF Folds, CheckedAt
  <2>6. CASE Merges(p)
    BY <1>1, <2>6 DEF Merges, CheckedAt
  <2>7. CASE Skips(p)
    BY <1>1, <2>7 DEF Skips, CheckedAt
  <2> QED
    BY <1>4, <2>1, <2>2, <2>3, <2>4, <2>5, <2>6, <2>7
       DEF Moved, Idles, Draws, Rereads, Writes, Shelves
<1> QED
  BY <1>1, <1>2, <1>3, <1>4 DEF Moves, Effect, Lone

\* The copy a request keeps is sound.
LEMMA CopyStep ==
    ASSUME CoverInv, [Next]_vars, NEW p \in Request
    PROVE  CopySound(p)'
<1>1. TypeInv /\ GoneInv /\ TypeInv' /\ nextId <= nextId' /\ Settled \subseteq Settled'
  BY StepGrows, TypeStep DEF CoverInv, VersionInv
<1>2. Kept(p)
  BY <1>1, StepKeeps
<1>3. CASE snap'[p] = Gone
  BY <1>3, SoundEmpty DEF CopySound, Gone
<1>4. CASE snap'[p] = snap[p]
  <2>1. Sound(snap[p].messages, snap[p].blocks, nextId, Settled)
    BY DEF CoverInv, CopySound
  <2>2. Sound(snap[p].messages, snap[p].blocks, nextId', Settled')
    BY <1>1, <2>1, SoundGrows, CoverTypes DEF TypeInv, SharedType
  <2> QED
    BY <1>4, <2>2 DEF CopySound
<1>5. CASE snap'[p] = topic
  <2>1. Sound(topic.messages, topic.blocks, nextId, Settled)
    BY DEF CoverInv, TopicSound
  <2>2. Sound(topic.messages, topic.blocks, nextId', Settled')
    BY <1>1, <2>1, SoundGrows, CoverTypes DEF TypeInv, SharedType
  <2> QED
    BY <1>5, <2>2 DEF CopySound
<1> QED
  BY <1>2, <1>3, <1>4, <1>5 DEF Kept

\* A tidy set of blocks stays tidy while ids are drawn.
LEMMA TidyGrows ==
    ASSUME NEW ws \in SUBSET Block, NEW n \in Nat, NEW m \in Nat, n <= m,
           Tidy(ws, n)
    PROVE  Tidy(ws, m)
<1>1. \A b \in ws : b.id \in Nat
  BY DEF Block
<1> QED
  BY <1>1 DEF Tidy

LEMMA WorkStep ==
    ASSUME CoverInv, [Next]_vars, NEW p \in Request
    PROVE  WorkAt(p)'
<1>1. /\ TypeInv /\ TypeInv' /\ Moves /\ WorkAt(p) /\ CopySound(p)
      /\ nextId <= nextId' /\ Settled \subseteq Settled'
  BY StepMoves, StepGrows, TypeStep DEF CoverInv, VersionInv, TypeInv
<1>2. /\ nextId \in Nat /\ nextId' \in Nat
      /\ work[p] \in SUBSET Block /\ snap[p].blocks \in SUBSET Block
  BY <1>1, CoverTypes DEF TypeInv, SharedType
<1>3. ASSUME snap'[p] = snap[p], upto'[p] = upto[p]
      PROVE  SessionIds(p)' = SessionIds(p)
  BY <1>3 DEF SessionIds
\* The blocks of a close that others leave alone, or whose merge fails.
<1>4. ASSUME snap'[p] = snap[p], upto'[p] = upto[p], work'[p] = work[p],
             pc[p] \in {"merge", "commit"}
      PROVE  WorkAt(p)'
  <2>1. /\ Tidy(work[p], nextId)
        /\ Folded(snap[p].messages, snap[p].blocks, upto[p], work[p])
        /\ SessionIds(p) \subseteq Settled
    BY <1>1, <1>4 DEF WorkAt
  <2>2. Tidy(work[p], nextId')
    BY <1>1, <1>2, <2>1, TidyGrows
  <2> QED
    BY <1>1, <1>3, <1>4, <2>1, <2>2 DEF WorkAt
<1>5. CASE Same(p)
  <2>1. CASE pc[p] \in {"merge", "commit"}
    BY <1>4, <1>5, <2>1 DEF Same
  <2>2. CASE pc[p] \notin {"merge", "commit"}
    BY <1>5, <2>2 DEF Same, WorkAt
  <2> QED
    BY <2>1, <2>2
<1>6. CASE pc'[p] \notin {"merge", "commit"}
  BY <1>6 DEF WorkAt
<1>7. CASE Folds(p)
  <2> DEFINE bs == snap[p].blocks
             s == SessionOf(snap[p].messages, bs, upto[p])
  <2>1. PICK w \in Words : work'[p] = bs \cup {NewBlock(p, w)}
    BY <1>7 DEF Folds
  <2>2. /\ NewBlock(p, w).id = nextId /\ NewBlock(p, w).src = SessionIds(p)
    BY DEF NewBlock
  <2>3. /\ SessionIds(p) = {snap[p].messages[i].id : i \in s}
        /\ SessionIds(p) \cap Covered(bs) = {}
    BY SessionIs DEF SessionOf
  <2>4. Tidy(bs, nextId)
    BY <1>1 DEF CopySound, Sound, Below, Tidy
  <2>5. \A b \in bs : b.id \in Nat
    BY <1>2 DEF Block
  <2> HIDE DEF bs, s
  <2>6. /\ Tidy(work'[p], nextId + 1)
        /\ Covered(work'[p]) = Covered(bs) \cup SessionIds(p)
    BY <1>2, <2>1, <2>2, <2>3, <2>4, <2>5, TidyAdds
  <2>7. Folded(snap[p].messages, bs, upto[p], work'[p])
    BY <2>3, <2>6 DEF Folded, s
  <2>8. SessionIds(p)' = SessionIds(p) /\ SessionIds(p) \subseteq Settled'
    BY <1>3, <1>7 DEF Folds
  <2> QED
    BY <1>7, <2>6, <2>7, <2>8 DEF WorkAt, Folds, bs
<1>8. CASE Merges(p)
  <2>1. PICK a \in work[p], b \in work[p], w \in Words :
           /\ a # b
           /\ work'[p] = {c \in work[p] : c.id \notin {a.id, b.id}}
                             \cup {MergedBlock(a, b, nextId, w)}
    BY <1>8 DEF Merges
  <2>2. /\ Tidy(work[p], nextId)
        /\ Folded(snap[p].messages, snap[p].blocks, upto[p], work[p])
        /\ SessionIds(p) \subseteq Settled
    BY <1>1, <1>8 DEF WorkAt, Merges
  <2> DEFINE mb == MergedBlock(a, b, nextId, w)
  <2>3. mb.id = nextId /\ mb.src = a.src \cup b.src
    BY DEF MergedBlock
  <2>4. \A c \in work[p] : c.id \in Nat
    BY <1>2 DEF Block
  <2> HIDE DEF mb
  <2>5. /\ work'[p] = {c \in work[p] : c.id \notin {a.id, b.id}} \cup {mb}
        /\ a # b /\ Tidy(work[p], nextId) /\ nextId \in Nat
    BY <1>2, <2>1, <2>2 DEF mb
  <2>6. Tidy(work'[p], nextId + 1) /\ Covered(work'[p]) = Covered(work[p])
    BY <2>3, <2>4, <2>5, TidyMerges
  <2>7. Folded(snap[p].messages, snap[p].blocks, upto[p], work'[p])
    BY <2>2, <2>6 DEF Folded
  <2>8. SessionIds(p)' = SessionIds(p) /\ SessionIds(p) \subseteq Settled'
    BY <1>3, <1>8, <2>2 DEF Merges
  <2> QED
    BY <1>8, <2>6, <2>7, <2>8 DEF WorkAt, Merges
<1>9. CASE Skips(p)
  BY <1>4, <1>9 DEF Skips
<1>10. ASSUME Moved(p) PROVE WorkAt(p)'
  BY <1>6, <1>7, <1>8, <1>9, <1>10
     DEF Moved, Idles, Draws, Checks, Rereads, Writes, Shelves, Opens, Busy, Held
<1> QED
  BY <1>1, <1>5, <1>6, <1>10 DEF Moves, Effect, Lone

LEMMA CoverStep == CoverInv /\ [Next]_vars => CoverInv'
<1> SUFFICES ASSUME CoverInv, [Next]_vars
             PROVE  CoverInv'
  OBVIOUS
<1>1. VersionInv'
  BY VersionStep DEF CoverInv
<1>2. /\ TypeInv /\ TypeInv' /\ nextId <= nextId' /\ Settled \subseteq Settled'
      /\ nextId \in Nat /\ nextId' \in Nat
  BY <1>1, StepGrows, CoverTypes DEF CoverInv, VersionInv, TypeInv, SharedType
<1>3. nextId' > 0
  BY <1>2 DEF CoverInv
<1>4. TopicSound'
  <2>1. Sound(topic'.messages, topic'.blocks, nextId, Settled)
    BY StepSound
  <2>2. topic'.messages \in Seq(Message) /\ topic'.blocks \in SUBSET Block
    BY <1>2 DEF TypeInv, SharedType, TopicDoc
  <2>3. Sound(topic'.messages, topic'.blocks, nextId', Settled')
    BY <1>2, <2>1, <2>2, SoundGrows
  <2> QED
    BY <2>3 DEF TopicSound
<1>5. FreshInv'
  BY FreshStep
<1>6. ASSUME NEW p \in Request
      PROVE  CopySound(p)' /\ CheckedAt(p)' /\ WorkAt(p)'
  BY CopyStep, CheckedStep, WorkStep
<1> QED
  BY <1>1, <1>3, <1>4, <1>5, <1>6 DEF CoverInv

LEMMA CoverHolds == Spec => []CoverInv
BY CoverInit, CoverStep, PTL DEF Spec

\* A summary hides no message whose lessons were never submitted, whatever
\* fails or restarts: close_session hands them over before it commits.  The
\* one exception is a session of an unnamed topic to which the LLM gave no
\* usable name: close_session gives its lessons up and commits the block.
THEOREM CreditedBeforeCovered == Spec => []CoveredIsCredited
<1>1. CoverInv => CoveredIsCredited
  BY DEF CoverInv, TopicSound, Sound, CoveredIsCredited, Settled
<1> QED
  BY <1>1, CoverHolds, PTL

\* No message is narrated by two summary blocks, through any number of
\* sessions and merges of enforce_word_cap.
THEOREM CoveredOnce == Spec => []NoDoubleCoverage
<1>1. CoverInv => NoDoubleCoverage
  BY DEF CoverInv, TopicSound, Sound, Apart, NoDoubleCoverage
<1> QED
  BY <1>1, CoverHolds, PTL

\* The thread is in order of time, although concurrent turns stamp their
\* messages before append_message checks and writes them.
THEOREM ThreadInOrder == Spec => []Chronological
<1>1. CoverInv => Chronological
  BY DEF CoverInv, TopicSound, Sound, InOrder, Chronological
<1> QED
  BY <1>1, CoverHolds, PTL

\* What the mentor still reads verbatim is the end of the conversation: a
\* summary never covers a message and skips an earlier one.
THEOREM SummaryIsPrefix == Spec => []CoveredPrefix
<1>1. CoverInv => CoveredPrefix
  BY DEF CoverInv, TopicSound, Sound, PrefixOf, CoveredPrefix
<1> QED
  BY <1>1, CoverHolds, PTL

-----------------------------------------------------------------------------
(* What a step may never do.                                               *)

\* Merging and committing never uncover a message: close_session works on
\* blocks it read before its LLM calls, and replaces the array only if the
\* version still matches.
THEOREM NeverUncovers == Spec => CoverageGrows
<1>1. ASSUME CoverInv, [Next]_vars, Exists'
      PROVE  Covered(topic.blocks) \subseteq Covered(topic'.blocks)
  <2>1. TypeInv /\ Written /\ topic \in TopicDoc
    BY <1>1, StepWrites, CoverTypes DEF CoverInv, VersionInv
  <2>2. CASE topic' = topic
    BY <2>2
  <2>3. CASE topic' = Gone
    BY <1>1, <2>3 DEF Exists, Gone
  <2>4. CASE Relabels
    BY <2>4 DEF Relabels
  <2>5. ASSUME NEW p \in Request,
               topic' \in {Appended(p), Removed(p), Answered(p)}
        PROVE  topic'.blocks = topic.blocks
    BY <2>1, <2>5, WriteParts
  <2>6. ASSUME NEW p \in Request, Matches(p), pc[p] = "commit",
               topic' = Committed(p)
        PROVE  Covered(topic.blocks) \subseteq Covered(topic'.blocks)
    <3>1. snap[p].blocks = topic.blocks
      BY <1>1, <2>6, MatchPins DEF CoverInv, Held
    <3>2. Covered(topic.blocks) \subseteq Covered(work[p])
      BY <1>1, <2>6, <3>1 DEF CoverInv, WorkAt, Folded
    <3> QED
      BY <2>1, <2>6, <3>2, WriteParts
  <2> QED
    BY <2>1, <2>2, <2>3, <2>4, <2>5, <2>6 DEF Written
<1>2. CoverInv /\ [Next]_vars =>
        [Exists' => Covered(topic.blocks) \subseteq Covered(topic'.blocks)]_vars
  BY <1>1
<1> QED
  BY <1>2, CoverHolds, PTL DEF Spec, CoverageGrows

\* Dropping the last message drops its id and no other.
LEMMA FrontIds ==
    ASSUME NEW ms \in Seq(Message), ms # <<>>
    PROVE  /\ Ids(ms) \subseteq Ids(Front(ms)) \cup {Last(ms).id}
           /\ DOMAIN Front(ms) \subseteq DOMAIN ms
           /\ \A i \in DOMAIN Front(ms) : Front(ms)[i] = ms[i]
<1> DEFINE ns == Front(ms)
<1>1. /\ ns \in Seq(Message) /\ Len(ns) = Len(ms) - 1
      /\ \A i \in 1 .. Len(ms) - 1 : ns[i] = ms[i]
  BY FrontType
<1>2. /\ DOMAIN ns = 1 .. Len(ms) - 1 /\ DOMAIN ms = 1 .. Len(ms)
      /\ Len(ms) \in Nat
  BY <1>1
<1>3. /\ \A i \in DOMAIN ms : i \in DOMAIN ns \/ i = Len(ms)
      /\ DOMAIN ns \subseteq DOMAIN ms
      /\ \A i \in DOMAIN ns : ns[i] = ms[i]
  BY <1>1, <1>2
<1> HIDE DEF ns
<1>4. \A i \in DOMAIN ms : ms[i].id \in Ids(ns) \cup {Last(ms).id}
  BY <1>3 DEF Ids, Last
<1> QED
  BY <1>3, <1>4 DEF Ids, ns

\* The steps that do not change messages, by what they do to the document.
LEMMA StepMessages ==
    ASSUME CoverInv, [Next]_vars
    PROVE  \/ topic'.messages = topic.messages
           \/ topic' = Gone
           \/ \E p \in Request :
                 /\ Matches(p) /\ pc[p] \in Writing
                 /\ snap[p].messages = topic.messages
                 /\ topic'.blocks = topic.blocks
                 /\ \/ /\ pc[p] = "appendWrite"
                       /\ topic'.messages = Append(topic.messages, msg[p])
                    \/ /\ pc[p] = "removeWrite"
                       /\ topic.messages # <<>>
                       /\ Last(topic.messages).id = msg[p].id
                       /\ topic'.messages = Front(topic.messages)
                    \/ /\ pc[p] = "answerWrite"
                       /\ Answerable(topic, msg[p].id)
                       /\ topic' = Answered(p)
<1>1. TypeInv /\ Written /\ topic \in TopicDoc
  BY StepWrites, CoverTypes DEF CoverInv, VersionInv
<1>2. CASE Relabels
  BY <1>2 DEF Relabels
<1>3. ASSUME NEW p \in Request, topic' = Committed(p)
      PROVE  topic'.messages = topic.messages
  BY <1>1, <1>3, WriteParts
<1>4. ASSUME NEW p \in Request, Matches(p), pc[p] \in Writing
      PROVE  /\ snap[p].messages = topic.messages
             /\ pc[p] = "removeWrite" => /\ topic.messages # <<>>
                                         /\ Last(topic.messages).id = msg[p].id
             /\ pc[p] = "answerWrite" => Answerable(topic, msg[p].id)
  <2>1. snap[p].messages = topic.messages
    BY <1>4, MatchPins DEF CoverInv, Held
  <2>2. pc[p] = "removeWrite" => Removable(snap[p], msg[p].id)
    BY DEF CoverInv, VersionInv, HeldInv
  <2>3. pc[p] = "answerWrite" => Answerable(snap[p], msg[p].id)
    BY DEF CoverInv, CheckedAt
  <2> QED
    BY <2>1, <2>2, <2>3 DEF Removable, Answerable
<1>5. ASSUME NEW p \in Request
      PROVE  /\ Appended(p).messages = Append(topic.messages, msg[p])
             /\ Appended(p).blocks = topic.blocks
             /\ Removed(p).messages = Front(topic.messages)
             /\ Removed(p).blocks = topic.blocks
             /\ Answered(p).blocks = topic.blocks
  BY <1>1, WriteParts
<1> QED
  BY <1>1, <1>2, <1>3, <1>4, <1>5 DEF Written, Writing

\* remove_last_message pops the reply the regenerate named, never a message
\* appended between its check and its $pop.
THEOREM PopsTheNamedReply == Spec => RemovesOnlyNamed
<1> DEFINE Kind == Exists' =>
             \A i \in Ids(topic.messages) \ Ids(topic'.messages) :
                 \E p \in Request : pc[p] = "removeWrite" /\ msg[p].id = i
<1>1. ASSUME CoverInv, [Next]_vars PROVE Kind
  <2> SUFFICES ASSUME Exists',
                      NEW i \in Ids(topic.messages) \ Ids(topic'.messages)
               PROVE  \E p \in Request : pc[p] = "removeWrite" /\ msg[p].id = i
    OBVIOUS
  <2>1. topic.messages \in Seq(Message) /\ TypeInv
    BY <1>1, CoverTypes DEF CoverInv, VersionInv
  <2>2. CASE topic'.messages = topic.messages
    BY <2>2
  <2>3. CASE topic' = Gone
    BY <2>3 DEF Exists, Gone
  <2>4. ASSUME NEW p \in Request,
               topic'.messages = Append(topic.messages, msg[p])
        PROVE  FALSE
    <3>1. msg[p] \in Message
      BY <2>1, CoverTypes
    <3>2. Ids(topic'.messages) = Ids(topic.messages) \cup {msg[p].id}
      BY <2>1, <2>4, <3>1, AppendIds
    <3> QED
      BY <3>2
  <2>5. ASSUME NEW p \in Request, topic.messages # <<>>,
               Last(topic.messages).id = msg[p].id,
               topic'.messages = Front(topic.messages)
        PROVE  i = msg[p].id
    BY <2>1, <2>5, FrontIds
  <2>6. ASSUME NEW p \in Request, topic' = Answered(p)
        PROVE  FALSE
    <3> DEFINE ns == topic'.messages
    <3>1. /\ DOMAIN ns = DOMAIN topic.messages
          /\ \A j \in DOMAIN topic.messages : ns[j].id = topic.messages[j].id
      BY <2>1, <2>6, PickParts, Zenon
    <3> HIDE DEF ns
    <3>2. Ids(topic.messages) \subseteq Ids(ns)
      BY <3>1 DEF Ids
    <3> QED
      BY <3>2 DEF ns
  <2> QED
    BY <1>1, <2>2, <2>3, <2>4, <2>5, <2>6, StepMessages
<1>2. CoverInv /\ [Next]_vars => [Kind]_vars
  BY <1>1
<1> QED
  BY <1>2, CoverHolds, PTL DEF Spec, RemovesOnlyNamed

\* record_quiz_answer finds the card by id, writes by array index, and still
\* hits the card it checked, which no one has answered.
THEOREM OnePickPerCard == Spec => PickOnce
<1> DEFINE Kind ==
             \A i \in DOMAIN topic.messages \cap DOMAIN topic'.messages :
                 topic.messages[i].quiz # topic'.messages[i].quiz =>
                     /\ topic.messages[i].quiz = "open"
                     /\ \E p \in Request : /\ pc[p] = "answerWrite"
                                           /\ msg[p].id = topic.messages[i].id
<1>1. ASSUME CoverInv, [Next]_vars PROVE Kind
  <2> SUFFICES ASSUME NEW i \in DOMAIN topic.messages \cap DOMAIN topic'.messages,
                      topic.messages[i].quiz # topic'.messages[i].quiz
               PROVE  /\ topic.messages[i].quiz = "open"
                      /\ \E p \in Request : /\ pc[p] = "answerWrite"
                                            /\ msg[p].id = topic.messages[i].id
    OBVIOUS
  <2>1. topic.messages \in Seq(Message) /\ TypeInv
    BY <1>1, CoverTypes DEF CoverInv, VersionInv
  <2>2. topic'.messages # topic.messages
    OBVIOUS
  <2>3. topic' # Gone
    BY DEF Gone
  <2>4. ASSUME NEW p \in Request,
               topic'.messages = Append(topic.messages, msg[p])
        PROVE  FALSE
    <3>1. msg[p] \in Message
      BY <2>1, CoverTypes
    <3>2. topic'.messages[i] = topic.messages[i]
      BY <2>1, <2>4, <3>1, AppendIds
    <3> QED
      BY <3>2
  <2>5. ASSUME topic.messages # <<>>, topic'.messages = Front(topic.messages)
        PROVE  FALSE
    <3>1. topic'.messages[i] = topic.messages[i]
      BY <2>1, <2>5, FrontIds
    <3> QED
      BY <3>1
  <2>6. PICK p \in Request :
            /\ pc[p] = "answerWrite" /\ topic' = Answered(p)
            /\ snap[p].messages = topic.messages
            /\ Answerable(topic, msg[p].id)
    BY <1>1, <2>2, <2>3, <2>4, <2>5, StepMessages
  <2> DEFINE ms == topic.messages
             idx == CHOOSE j \in DOMAIN snap[p].messages :
                        snap[p].messages[j].id = msg[p].id
  <2>7. PICK k \in DOMAIN ms : ms[k].id = msg[p].id /\ ms[k].quiz = "open"
    BY <2>6 DEF Answerable
  <2>8. idx \in DOMAIN ms /\ ms[idx].id = msg[p].id
    BY <2>6, <2>7
  <2>9. i = idx
    <3>1. \A j \in DOMAIN ms : j # idx => topic'.messages[j] = ms[j]
      BY <2>1, <2>6, PickParts, Zenon
    <3> QED
      BY <3>1
  <2> HIDE DEF idx
  <2>10. DistinctIds(ms)
    BY <1>1 DEF CoverInv, TopicSound, Sound
  <2>11. idx = k
    BY <2>7, <2>8, <2>10 DEF DistinctIds
  <2> QED
    BY <2>6, <2>7, <2>9, <2>11
<1>2. CoverInv /\ [Next]_vars => [Kind]_vars
  BY <1>1
<1> QED
  BY <1>2, CoverHolds, PTL DEF Spec, PickOnce

-----------------------------------------------------------------------------
(* The thread implements the log its reader is promised.                   *)

LogOf(ms) == [i \in DOMAIN ms |-> ms[i].id]

LEMMA LogType ==
    ASSUME NEW ms \in Seq(Message)
    PROVE  /\ LogOf(ms) \in Seq(Nat)
           /\ Len(LogOf(ms)) = Len(ms)
           /\ DOMAIN LogOf(ms) = 1 .. Len(ms)
           /\ \A i \in 1 .. Len(ms) : LogOf(ms)[i] = ms[i].id
           /\ ToSet(LogOf(ms)) = Ids(ms)
<1>1. /\ DOMAIN ms = 1 .. Len(ms) /\ Len(ms) \in Nat
      /\ \A i \in DOMAIN ms : ms[i].id \in Nat
  BY IdsType
<1>2. /\ DOMAIN LogOf(ms) = 1 .. Len(ms)
      /\ \A i \in 1 .. Len(ms) : LogOf(ms)[i] = ms[i].id
  BY <1>1 DEF LogOf
<1>3. LogOf(ms) \in [1 .. Len(ms) -> Nat]
  BY <1>1 DEF LogOf
<1>4. LogOf(ms) \in Seq(Nat) /\ Len(LogOf(ms)) = Len(ms)
  BY <1>1, <1>3, LenProperties, SeqDef
<1>5. ToSet(LogOf(ms)) = Ids(ms)
  BY <1>1, <1>2 DEF ToSet, Ids
<1> QED
  BY <1>2, <1>4, <1>5

LEMMA LogAppends ==
    ASSUME NEW ms \in Seq(Message), NEW m \in Message
    PROVE  LogOf(Append(ms, m)) = Append(LogOf(ms), m.id)
<1> DEFINE as == Append(ms, m)
           l == LogOf(ms)
           n == Len(ms)
<1>1. /\ as \in Seq(Message) /\ Len(as) = n + 1 /\ n \in Nat
      /\ \A i \in 1 .. n : as[i] = ms[i]
      /\ as[n + 1] = m
  OBVIOUS
<1>2. /\ l \in Seq(Nat) /\ Len(l) = n /\ \A i \in 1 .. n : l[i] = ms[i].id
      /\ m.id \in Nat
  BY LogType DEF Message
<1>3. /\ LogOf(as) \in Seq(Nat) /\ Len(LogOf(as)) = n + 1
      /\ \A i \in 1 .. n + 1 : LogOf(as)[i] = as[i].id
  BY <1>1, LogType
<1>4. /\ Append(l, m.id) \in Seq(Nat) /\ Len(Append(l, m.id)) = n + 1
      /\ \A i \in 1 .. n : Append(l, m.id)[i] = l[i]
      /\ Append(l, m.id)[n + 1] = m.id
  <2> HIDE DEF l
  <2> QED
    BY <1>2
<1> HIDE DEF as, l, n
<1>5. ASSUME NEW i \in 1 .. n + 1
      PROVE  LogOf(as)[i] = Append(l, m.id)[i]
  <2>1. i \in 1 .. n \/ i = n + 1
    BY <1>1
  <2> QED
    BY <1>1, <1>2, <1>3, <1>4, <2>1
<1> QED
  BY <1>3, <1>4, <1>5, SeqEqual DEF as, l

LEMMA LogDrops ==
    ASSUME NEW ms \in Seq(Message), ms # <<>>
    PROVE  LogOf(Front(ms)) = Front(LogOf(ms)) /\ LogOf(ms) # <<>>
<1> DEFINE ns == Front(ms)
           l == LogOf(ms)
           n == Len(ms) - 1
<1>1. /\ ns \in Seq(Message) /\ Len(ns) = n
      /\ \A i \in 1 .. n : ns[i] = ms[i]
  BY FrontType
<1>2. /\ l \in Seq(Nat) /\ Len(l) = Len(ms) /\ l # <<>>
      /\ \A i \in 1 .. Len(ms) : l[i] = ms[i].id
  BY LogType
<1>3. /\ LogOf(ns) \in Seq(Nat) /\ Len(LogOf(ns)) = n
      /\ \A i \in 1 .. n : LogOf(ns)[i] = ns[i].id
  BY <1>1, LogType
<1>4. n \in Nat /\ Len(ms) = n + 1
  OBVIOUS
<1> HIDE DEF ns, l, n
<1>5. Front(l) = SubSeq(l, 1, n)
  BY <1>2, <1>4 DEF Front
<1>6. /\ SubSeq(l, 1, n) \in Seq(Nat) /\ Len(SubSeq(l, 1, n)) = n
      /\ \A i \in 1 .. n : SubSeq(l, 1, n)[i] = l[i]
  BY <1>2, <1>4
<1>7. ASSUME NEW i \in 1 .. n
      PROVE  LogOf(ns)[i] = SubSeq(l, 1, n)[i]
  <2>1. i \in 1 .. Len(ms)
    BY <1>4
  <2>2. LogOf(ns)[i] = ns[i].id /\ ns[i] = ms[i]
    BY <1>1, <1>3
  <2>3. l[i] = ms[i].id /\ SubSeq(l, 1, n)[i] = l[i]
    BY <1>2, <1>6, <2>1
  <2> QED
    BY <2>2, <2>3, Zenon
<1> QED
  BY <1>2, <1>3, <1>5, <1>6, <1>7, SeqEqual DEF ns, l

\* Same ids, same log.
LEMMA LogKeeps ==
    ASSUME NEW ms, NEW ns, DOMAIN ns = DOMAIN ms,
           \A i \in DOMAIN ms : ns[i].id = ms[i].id
    PROVE  LogOf(ns) = LogOf(ms)
BY DEF LogOf

LEMMA LogInit == Init => Log!Init
<1> SUFFICES ASSUME Init PROVE Log!Init
  OBVIOUS
<1>1. topic.messages = <<>> /\ topic.blocks = {} /\ topic.status = "active"
  BY DEF Init
<1>2. [i \in DOMAIN topic.messages |-> topic.messages[i].id] = <<>>
  BY <1>1
<1> QED
  BY <1>1, <1>2 DEF Log!Init, Exists, Covered

\* A step of the thread is a step of the log, or leaves the log as it is.
LEMMA LogStep == CoverInv /\ [Next]_vars => [Log!Next]_Log!vars
<1> SUFFICES ASSUME CoverInv, [Next]_vars
             PROVE  Log!Next \/ UNCHANGED Log!vars
  BY DEF Log!vars
<1> DEFINE ms == topic.messages
           bs == topic.blocks
<1>1. /\ TypeInv /\ GoneInv /\ topic \in TopicDoc /\ ms \in Seq(Message) /\ bs \in SUBSET Block
      /\ \A p \in Request : msg[p] \in Message
  BY CoverTypes DEF CoverInv, VersionInv
<1>2. Written
  BY <1>1, StepWrites
<1>3. ASSUME LogOf(topic'.messages) = LogOf(ms),
             Covered(topic'.blocks) = Covered(bs), Exists' <=> Exists
      PROVE  UNCHANGED Log!vars
  BY <1>3 DEF Log!vars, LogOf
<1>4. CASE topic' = topic
  BY <1>3, <1>4 DEF Exists
<1>5. CASE topic' = Gone
  <2>1. CASE Exists
    <3>1. topic'.messages = <<>> /\ topic'.blocks = {} /\ topic'.status = "gone"
      BY <1>5 DEF Gone
    <3>2. [i \in DOMAIN topic'.messages |-> topic'.messages[i].id] = <<>>
      BY <3>1
    <3>3. Log!Delete
      BY <3>1, <3>2 DEF Log!Delete, Exists, Covered
    <3> QED
      BY <2>1, <3>3 DEF Log!Next
  <2>2. CASE ~Exists
    BY <1>1, <1>4, <1>5, <2>2 DEF GoneInv
  <2> QED
    BY <2>1, <2>2
<1>6. CASE Relabels
  BY <1>3, <1>6 DEF Relabels
<1>7. ASSUME NEW p \in Request, Matches(p), pc[p] \in Held,
             topic' \in {Appended(p), Removed(p), Answered(p), Committed(p)}
      PROVE  Exists /\ Exists'
  BY <1>1, <1>7, WriteBumps DEF Matches, Exists
<1>8. ASSUME NEW p \in Request, Matches(p),
             pc[p] = "appendWrite", topic' = Appended(p)
      PROVE  Log!Say
  <2>1. topic'.messages = Append(ms, msg[p]) /\ topic'.blocks = bs
    BY <1>1, <1>8, WriteParts
  <2>2. /\ msg[p].id \in 1 .. MaxId
        /\ msg[p].id \notin Ids(ms) \cup Covered(bs)
    BY <1>8 DEF CoverInv, FreshInv, Fresh, Told
  <2>3. msg[p].id \in (1 .. MaxId) \ (ToSet(LogOf(ms)) \cup Covered(bs))
    BY <1>1, <2>2, LogType
  <2>4. LogOf(topic'.messages) = Append(LogOf(ms), msg[p].id)
    BY <1>1, <2>1, LogAppends
  <2>5. Exists /\ Exists'
    BY <1>7, <1>8 DEF Held, Writing
  <2> QED
    BY <2>1, <2>3, <2>4, <2>5 DEF Log!Say, LogOf, ToSet, Log!ToSet
<1>9. ASSUME NEW p \in Request, Matches(p),
             pc[p] = "removeWrite", topic' = Removed(p)
      PROVE  Log!DropReply
  <2>1. topic'.messages = Front(ms) /\ topic'.blocks = bs
    BY <1>1, <1>9, WriteParts
  <2>2. ms # <<>>
    BY <1>9, MatchPins
       DEF CoverInv, VersionInv, HeldInv, Removable, Held, Writing
  <2>3. LogOf(topic'.messages) = Front(LogOf(ms)) /\ LogOf(ms) # <<>>
    BY <1>1, <2>1, <2>2, LogDrops
  <2>4. Exists /\ Exists'
    BY <1>7, <1>9 DEF Held, Writing
  <2> QED
    BY <2>1, <2>3, <2>4 DEF Log!DropReply, LogOf, Front, Log!Front
<1>10. ASSUME NEW p \in Request, Matches(p),
              pc[p] = "answerWrite", topic' = Answered(p)
       PROVE  UNCHANGED Log!vars
  <2>1. /\ DOMAIN topic'.messages = DOMAIN ms
        /\ \A i \in DOMAIN ms : topic'.messages[i].id = ms[i].id
    BY <1>1, <1>10, PickParts, Zenon
  <2>2. LogOf(topic'.messages) = LogOf(ms)
    BY <2>1, LogKeeps
  <2>3. topic'.blocks = bs
    BY <1>1, <1>10, WriteParts
  <2>4. Exists /\ Exists'
    BY <1>7, <1>10 DEF Held, Writing
  <2> QED
    BY <1>3, <2>2, <2>3, <2>4
<1>11. ASSUME NEW p \in Request, Matches(p),
              pc[p] = "commit", topic' = Committed(p)
       PROVE  Log!Fold
  <2>1. topic'.messages = ms /\ topic'.blocks = work[p]
    BY <1>1, <1>11, WriteParts
  <2>2. snap[p].messages = ms /\ snap[p].blocks = bs
    BY <1>11, MatchPins DEF CoverInv, Held
  <2>3. Folded(ms, bs, upto[p], work[p]) /\ SessionOf(ms, bs, upto[p]) # {}
    BY <1>11, <2>2, SessionIs DEF CoverInv, WorkAt, CheckedAt
  <2>4. PrefixOf(ms, work[p])
    <3>1. Sound(topic'.messages, topic'.blocks, nextId, Settled)
      BY StepSound
    <3> QED
      BY <2>1, <3>1 DEF Sound
  <2>5. /\ Covered(work[p]) # Covered(bs)
        /\ \E k \in 1 .. Len(ms) :
              Covered(work[p]) = Covered(bs) \cup {ms[i].id : i \in 1 .. k}
    BY <1>1, <2>3, <2>4, FoldedPrefix
  <2>6. PICK k \in 1 .. Len(ms) :
            Covered(work[p]) = Covered(bs) \cup {ms[i].id : i \in 1 .. k}
    BY <2>5
  <2>7. /\ Len(LogOf(ms)) = Len(ms)
        /\ \A i \in 1 .. Len(ms) : LogOf(ms)[i] = ms[i].id
        /\ Len(ms) \in Nat
    BY <1>1, LogType
  <2>8. {LogOf(ms)[i] : i \in 1 .. k} = {ms[i].id : i \in 1 .. k}
    BY <2>7
  <2>9. Exists /\ Exists' /\ LogOf(topic'.messages) = LogOf(ms)
    BY <1>7, <1>11, <2>1 DEF Held
  <2>10. \E j \in 1 .. Len(LogOf(ms)) :
            Covered(topic'.blocks) = Covered(bs) \cup {LogOf(ms)[i] : i \in 1 .. j}
    BY <2>1, <2>6, <2>7, <2>8
  <2> QED
    BY <2>1, <2>5, <2>9, <2>10 DEF Log!Fold, LogOf
<1>12. Exists => (Log!Say \/ Log!DropReply \/ Log!Fold => Log!Next)
  BY DEF Log!Next
<1> QED
  BY <1>2, <1>4, <1>5, <1>6, <1>7, <1>8, <1>9, <1>10, <1>11, <1>12
     DEF Written, Held, Writing

\* The thread keeps the promise of ThreadLog: entries are only added at the
\* end, only the last one is ever taken back, summaries fold a growing prefix,
\* and a deleted conversation never comes back.
THEOREM ThreadImplementsLog == Spec => ImplementsLog
BY LogInit, LogStep, CoverHolds, PTL DEF Spec, ImplementsLog, Log!Spec

-----------------------------------------------------------------------------
(* The size of a thread.                                                   *)

Tokens == {t \in Request \X {1, 2} : t[2] <= Owed(t[1])}

\* What is in the thread and what the turns still owe it.
SizeInv ==
    Len(topic.messages) + Cardinality(Tokens)
        < Capacity + 2 * Cardinality(Request)

LEMMA TokensType ==
    ASSUME NEW T, T \subseteq Request \X {1, 2}
    PROVE  /\ IsFiniteSet(T)
           /\ Cardinality(Request) \in Nat /\ Cardinality(Request) > 0
           /\ Cardinality(T) \in Nat
           /\ Cardinality(T) <= 2 * Cardinality(Request)
<1>1. IsFiniteSet({1, 2}) /\ Cardinality({1, 2}) = 2
  <2>1. IsFiniteSet({1}) /\ Cardinality({1}) = 1
    BY FS_Singleton
  <2>2. IsFiniteSet({1} \cup {2}) /\ Cardinality({1} \cup {2}) = Cardinality({1}) + 1
    BY <2>1, FS_AddElement
  <2>3. {1} \cup {2} = {1, 2}
    OBVIOUS
  <2> QED
    BY <2>1, <2>2, <2>3
<1>2. Cardinality(Request) \in Nat /\ Cardinality(Request) > 0
  BY RequestAssumption, FS_CardinalityType, FS_EmptySet
<1>3. /\ IsFiniteSet(Request \X {1, 2})
      /\ Cardinality(Request \X {1, 2}) = Cardinality(Request) * 2
  BY <1>1, RequestAssumption, FS_Product
<1>4. IsFiniteSet(T) /\ Cardinality(T) <= Cardinality(Request) * 2
  BY <1>3, FS_Subset
<1>5. Cardinality(T) \in Nat
  BY <1>4, FS_CardinalityType
<1> QED
  BY <1>2, <1>4, <1>5

LEMMA TokensAre == Tokens \subseteq Request \X {1, 2}
BY DEF Tokens

LEMMA SizeInit == Init => SizeInv
<1> SUFFICES ASSUME Init PROVE SizeInv
  OBVIOUS
<1>1. Tokens = {} /\ Len(topic.messages) = 0
  BY DEF Init, Tokens, Owed, Fresh
<1>2. Cardinality(Tokens) = 0
  BY <1>1, FS_EmptySet
<1> QED
  BY <1>1, <1>2, TokensAre, TokensType, NatAssumption DEF SizeInv

LEMMA OwedType == \A p \in Request : Owed(p) \in 0 .. 2
BY DEF Owed

\* The length of the thread changes by the message that is appended.
LEMMA StepLength ==
    ASSUME CoverInv, NEW p \in Request, Moved(p), TypeInv'
    PROVE  LET n == Len(topic.messages)
               m == Len(topic'.messages)
           IN  /\ n \in Nat /\ m \in Nat
               /\ \/ topic' = topic
                  \/ m <= n /\ pc[p] # "appendWrite"
                  \/ m = n + 1 /\ pc[p] = "appendWrite" /\ topic' # topic
<1> DEFINE n == Len(topic.messages)
           m == Len(topic'.messages)
<1>1. /\ TypeInv /\ topic \in TopicDoc /\ topic.messages \in Seq(Message)
      /\ n \in Nat /\ msg[p] \in Message
  BY CoverTypes DEF CoverInv, VersionInv
<1>2. m \in Nat
  BY DEF TypeInv, SharedType, TopicDoc
<1>3. CASE topic' = Gone
  <2>1. m = 0
    BY <1>3 DEF Gone
  <2>2. pc[p] # "appendWrite" \/ topic' = topic
    <3>1. CASE Writes(p)
      <4>1. Exists'
        BY <1>1, <3>1, WriteBumps DEF Writes, Matches, Exists
      <4> QED
        BY <1>3, <4>1 DEF Exists, Gone
    <3>2. CASE ~Writes(p)
      BY <3>2 DEF Moved, Still, Idles, Draws, Checks, Rereads, Shelves, Opens,
         Folds, Merges, Skips, Writing
    <3> QED
      BY <3>1, <3>2
  <2> QED
    BY <1>1, <2>1, <2>2
<1>4. CASE pc[p] # "appendWrite" /\ Relabels
  BY <1>1, <1>4 DEF Relabels
<1>5. CASE Writes(p)
  <2>1. CASE pc[p] = "appendWrite" /\ topic' = Appended(p)
    <3>1. topic'.messages = Append(topic.messages, msg[p])
      BY <1>1, <2>1, WriteParts
    <3>2. m = n + 1
      BY <1>1, <3>1
    <3>3. topic' # topic
      BY <1>1, <3>2
    <3> QED
      BY <1>1, <1>2, <2>1, <3>2, <3>3
  <2>2. CASE pc[p] = "removeWrite" /\ topic' = Removed(p)
    <3>1. topic.messages # <<>>
      BY <1>5, <2>2, MatchPins
         DEF Writes, CoverInv, VersionInv, HeldInv, Removable, Held, Writing
    <3>2. topic'.messages = Front(topic.messages)
      BY <1>1, <2>2, WriteParts
    <3>3. m = n - 1
      BY <1>1, <3>1, <3>2, FrontType
    <3> QED
      BY <1>1, <1>2, <2>2, <3>3
  <2>3. CASE pc[p] = "answerWrite" /\ topic' = Answered(p)
    <3> DEFINE ns == topic'.messages
    <3>1. DOMAIN ns = DOMAIN topic.messages
      BY <1>1, <2>3, PickParts, Zenon
    <3>2. ns \in Seq(Message)
      BY DEF TypeInv, SharedType, TopicDoc
    <3> HIDE DEF ns
    <3>3. Len(ns) = n
      BY <1>1, <3>1, <3>2, LenProperties
    <3> QED
      BY <1>1, <2>3, <3>3 DEF ns
  <2>4. CASE pc[p] = "commit" /\ topic' = Committed(p)
    <3>1. topic'.messages = topic.messages
      BY <1>1, <2>4, WriteParts
    <3> QED
      BY <1>1, <2>4, <3>1
  <2> QED
    BY <1>5, <2>1, <2>2, <2>3, <2>4 DEF Writes
<1>6. CASE topic' = topic
  BY <1>1, <1>6
<1> QED
  BY <1>3, <1>4, <1>5, <1>6
     DEF Moved, Still, Idles, Draws, Checks, Rereads, Shelves, Opens, Folds,
         Merges, Skips, Writing

LEMMA SizeStep ==
    ASSUME CoverInv, SizeInv, [Next]_vars
    PROVE  SizeInv'
<1> DEFINE n == Len(topic.messages)
           m == Len(topic'.messages)
<1>1. /\ TypeInv /\ TypeInv' /\ Moves
      /\ n \in Nat /\ m \in Nat
  <2>1. TypeInv /\ TypeInv' /\ Moves
    BY StepMoves, TypeStep DEF CoverInv, VersionInv, TypeInv
  <2>2. topic.messages \in Seq(Message) /\ topic'.messages \in Seq(Message)
    BY <2>1 DEF TypeInv, SharedType, TopicDoc
  <2> QED
    BY <2>1, <2>2
<1>2. /\ IsFiniteSet(Tokens) /\ IsFiniteSet(Tokens')
      /\ Cardinality(Request) \in Nat /\ Capacity \in Nat
      /\ Cardinality(Tokens) \in Nat /\ Cardinality(Tokens') \in Nat
      /\ Cardinality(Tokens') <= 2 * Cardinality(Request)
  <2>1. Tokens' \subseteq Request \X {1, 2}
    BY DEF Tokens
  <2> QED
    BY <2>1, TokensAre, TokensType, NatAssumption
<1>3. CASE (topic' = topic \/ Relabels) /\ Tokens' \subseteq Tokens
  <2>1. Cardinality(Tokens') <= Cardinality(Tokens)
    BY <1>2, <1>3, FS_Subset
  <2> QED
    BY <1>1, <1>2, <1>3, <2>1 DEF SizeInv, Relabels
<1>4. ASSUME NEW p \in Request, Effect(p)
      PROVE  SizeInv'
  <2>1. \A q \in Request \ {p} : Owed(q)' = Owed(q)
    BY <1>4 DEF Effect, Lone, Same, Owed
  <2>2. /\ \A q \in Request : Owed(q) \in 0 .. 2 /\ Owed(q)' \in 0 .. 2
    BY DEF Owed
  <2>3. /\ \/ topic' = topic
           \/ m <= n /\ pc[p] # "appendWrite"
           \/ m = n + 1 /\ pc[p] = "appendWrite" /\ topic' # topic
    BY <1>1, <1>4, StepLength DEF Effect
  <2>4. CASE HasRoom(topic) /\ topic' = topic
    BY <1>1, <1>2, <2>4 DEF HasRoom, SizeInv
  <2>5. ASSUME Owed(p)' <= Owed(p)
        PROVE  Tokens' \subseteq Tokens
    <3>1. \A q \in Request : Owed(q)' <= Owed(q)
      BY <2>1, <2>2, <2>5
    <3>2. ASSUME NEW q \in Request, NEW k \in {1, 2}, k <= Owed(q)'
          PROVE  k <= Owed(q)
      BY <2>2, <3>1, <3>2
    <3> QED
      BY <3>2 DEF Tokens
  <2>6. CASE Owed(p)' <= Owed(p) /\ m <= n
    <3>1. Cardinality(Tokens') <= Cardinality(Tokens)
      BY <1>2, <2>5, <2>6, FS_Subset
    <3> QED
      BY <1>1, <1>2, <2>6, <3>1 DEF SizeInv
  <2>7. CASE Owed(p)' < Owed(p) /\ m = n + 1
    <3> DEFINE last == <<p, Owed(p)>>
    <3>1. Owed(p)' <= Owed(p) /\ Owed(p) \in {1, 2}
      BY <2>2, <2>7
    <3>2. last \in Tokens
      BY <3>1 DEF Tokens
    <3>3. last \notin Tokens'
      BY <2>2, <2>7 DEF Tokens
    <3> HIDE DEF last
    <3>4. Tokens' \subseteq Tokens \ {last}
      BY <2>5, <3>1, <3>3
    <3>5. /\ IsFiniteSet(Tokens \ {last})
          /\ Cardinality(Tokens \ {last}) = Cardinality(Tokens) - 1
      BY <1>2, <3>2, FS_RemoveElement
    <3>6. Cardinality(Tokens') <= Cardinality(Tokens) - 1
      BY <3>4, <3>5, FS_Subset
    <3> QED
      BY <1>1, <1>2, <2>7, <3>6 DEF SizeInv
  <2>8. Owed(p)' < Owed(p) => Owed(p)' <= Owed(p)
    BY <2>2
  <2>9. topic' = topic => m <= n
    BY <1>1
  <2> QED
    BY <1>4, <2>3, <2>4, <2>6, <2>7, <2>8, <2>9 DEF Effect, Spends
<1>6. ASSUME \A q \in Request : Same(q)
      PROVE  Tokens' \subseteq Tokens
  BY <1>6 DEF Same, Tokens, Owed
<1>7. ASSUME \A q \in Request : pc'[q] = "idle"
      PROVE  Tokens' \subseteq Tokens
  BY <1>7 DEF Tokens, Owed, Fresh
<1> QED
  BY <1>1, <1>3, <1>4, <1>6, <1>7 DEF Moves, Still

\* The capacity check of handle_message is stale when the append runs, and
\* still bounds the thread: each turn overshoots by its question and reply.
THEOREM SizeBounded == Spec => []SizeBackstop
<1>1. CoverInv /\ SizeInv /\ [Next]_vars => (CoverInv /\ SizeInv)'
  BY CoverStep, SizeStep
<1>2. CoverInv /\ SizeInv => SizeBackstop
  <2> SUFFICES ASSUME CoverInv, SizeInv PROVE SizeBackstop
    OBVIOUS
  <2>1. Len(topic.messages) \in Nat
    BY CoverTypes DEF CoverInv, VersionInv
  <2> QED
    BY <2>1, TokensAre, TokensType, NatAssumption DEF SizeInv, SizeBackstop
<1> QED
  BY <1>1, <1>2, CoverInit, SizeInit, PTL DEF Spec

=============================================================================
