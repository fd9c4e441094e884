----------------------------- MODULE TopicThread -----------------------------
(***************************************************************************)
(* One topic thread of the live backend: its MongoDB document, and every   *)
(* request handler and background task that reads or writes it.            *)
(*                                                                         *)
(* unified-backend/app/services/topic_service.py      appends, quiz picks, *)
(*                                  removal, archive, rename, delete       *)
(* unified-backend/app/services/mentor_agent.py       one mentor turn      *)
(* unified-backend/app/services/session_boundary.py   when a close starts  *)
(* unified-backend/app/services/session_compactor.py  folding messages     *)
(*                                  into summary blocks                    *)
(*                                                                         *)
(* The backend is one asyncio process, so a handler runs atomically from   *)
(* one await to the next; every await is a database call or an LLM call.   *)
(* A Request is one running handler or background task.  find_one followed *)
(* by local checks is one action, the conditional update_one is the next.  *)
(***************************************************************************)
EXTENDS Integers, FiniteSets, SequencesExt, FiniteSetsExt

CONSTANTS
    Request,      \* handlers and background tasks that may run at once
    Picks,        \* quiz options a learner may choose
    Words,        \* word counts the summarising LLM may return
    MaxRetries,   \* MAX_RETRIES of topic_service.py
    MaxMerges,    \* MAX_MERGE_PASSES_PER_CLOSE
    WordCap,      \* BLOCK_WORD_CAP
    Capacity,     \* messages at which the token usage reaches 100%
    Ceiling,      \* uncovered messages at which usage reaches the hard ceiling
    CascadeFails, \* whether a cascade delete_many may fail
    Ops,          \* operations the clients of this instance use
    MaxId,        \* bound: uuids handed out
    MaxClock      \* bound: clock ticks

ASSUME NatAssumption ==
    /\ MaxRetries \in Nat \ {0}
    /\ {MaxMerges, WordCap, Capacity, Ceiling, MaxId, MaxClock} \subseteq Nat
    /\ Words \subseteq Nat
    /\ CascadeFails \in BOOLEAN

\* Some requests run, and finitely many at once.
ASSUME RequestAssumption == IsFiniteSet(Request) /\ Request # {}

ASSUME PickAssumption == Picks \cap {"none", "open"} = {}

VARIABLES
    topic,       \* the document in the topics collection
    rows,        \* cascade collections that hold a row for this topic
    credited,    \* messages whose lessons were handed to skill_graph and taught
                 \* concepts under a title (each write best effort)
    dropped,     \* messages summarised while the topic had no title to file
                 \* their lessons under
    inProgress,  \* the topic is in session_compactor._in_progress
    clock,       \* datetime.now
    nextId,      \* the next fresh uuid4
    pc, msg, snap, att, upto, work   \* locals of each request

vars == <<topic, rows, credited, dropped, inProgress, clock, nextId,
          pc, msg, snap, att, upto, work>>
shared == <<rows, credited, dropped, inProgress, clock, nextId>>

-----------------------------------------------------------------------------
(* Data.                                                                   *)

\* A reply may carry a quiz card, open until the learner picks.
Quiz == {"none", "open"} \cup Picks

Message == [id : Nat, role : {"user", "assistant"}, ts : Nat, quiz : Quiz]

Block == [id : Nat, src : SUBSET Nat, words : Nat, depth : Nat, at : Nat]

\* UNNAMED_TITLE, a title the learner gave, one the summarising LLM proposed.
Title == {"unnamed", "chosen", "proposed"}

TopicDoc == [status : {"active", "archived", "gone"}, title : Title,
             messages : Seq(Message), blocks : SUBSET Block,
             total : Nat, version : Nat]

Cascade == {"compaction_events", "immediate_contexts"}

NoMessage == [id |-> 0, role |-> "user", ts |-> 0, quiz |-> "none"]

\* No document: deleted, or nothing has been read yet.
Gone == [status |-> "gone", title |-> "unnamed", messages |-> <<>>,
         blocks |-> {}, total |-> 0, version |-> 0]

Ids(ms) == {ms[i].id : i \in DOMAIN ms}
Covered(bs) == UNION {b.src : b \in bs}

\* Faulty: forgets what earlier blocks cover.
SessionIgnoringCover(doc, u) ==
    {i \in DOMAIN doc.messages : doc.messages[i].ts <= u}

\* Positions of the messages a close at time u turns into a session.
SessionAt(doc, u) ==
    {i \in DOMAIN doc.messages :
        /\ doc.messages[i].id \notin Covered(doc.blocks)
        /\ doc.messages[i].ts <= u}

Uncovered(doc) == {i \in DOMAIN doc.messages :
                      doc.messages[i].id \notin Covered(doc.blocks)}

\* maybe_force_close_long_session: the session reached the hard ceiling.
Overlong(doc) == Cardinality(Uncovered(doc)) > Ceiling

\* Step 0 of handle_message: usage below OVER_CAPACITY_THRESHOLD.
\* Faulty: off by one.
HasRoomAtLimit(doc) == Len(doc.messages) <= Capacity
HasRoom(doc) == Len(doc.messages) < Capacity

\* The checks of append_message's update_fn.
\* Faulty: no chronological check.
AcceptsAnyTime(doc, m) == doc.status = "active"
Accepts(doc, m) ==
    /\ doc.status = "active"
    /\ doc.messages # <<>> => Last(doc.messages).ts <= m.ts

\* handle_message may replace the last reply by a shorter one.
Regenerable(doc) ==
    LET n == Len(doc.messages) IN
    /\ n >= 2
    /\ doc.messages[n].role = "assistant"
    /\ doc.messages[n - 1].role = "user"
    /\ doc.messages[n].id \notin Covered(doc.blocks)

\* remove_last_message's check.  Faulty: the reply need only be in the thread.
RemovableAnywhere(doc, id) == id \in Ids(doc.messages)
Removable(doc, id) == doc.messages # <<>> /\ Last(doc.messages).id = id

\* The loop condition of enforce_word_cap after k merges.
MustMerge(bs, k) ==
    /\ MapThenSumSet(LAMBDA b : b.words, bs) > WordCap
    /\ Cardinality(bs) >= 2
    /\ k < MaxMerges

\* a and b are the first two of bs sorted by createdAt.
OldestPair(a, b, bs) ==
    /\ a # b
    /\ \A c \in bs : a.at <= c.at
    /\ \A c \in bs \ {a} : b.at <= c.at

\* Faulty: keeps the ids of the older block only.
MergedIdsLost(a, b, id, w) ==
    [id |-> id, src |-> a.src, words |-> w, depth |-> a.depth + 1, at |-> a.at]

MergedBlock(a, b, id, w) ==
    [id |-> id, src |-> a.src \cup b.src, words |-> w,
     depth |-> (IF a.depth > b.depth THEN a.depth ELSE b.depth) + 1,
     at |-> IF a.at < b.at THEN a.at ELSE b.at]

-----------------------------------------------------------------------------
(* Control.                                                                *)

Writing == {"appendWrite", "removeWrite", "answerWrite"}
Closing == {"closeRead", "summarise", "merge", "commit", "event"}
PC == {"idle", "append", "remove", "answer", "reply", "hook", "close",
       "archive", "cascadeEvents", "cascadeContexts", "deleteTopic"}
      \cup Writing \cup Closing

Exists == topic.status # "gone"

\* update_one filtered on the version read: does the filter match?
\* Faulty: the filter names the topic only.
MatchesAnyVersion(p) == Exists
Matches(p) == Exists /\ topic.version = snap[p].version

\* The handler returns or raises, and its locals die with it.
Finish(p) ==
    /\ pc' = [pc EXCEPT ![p] = "idle"]
    /\ msg' = [msg EXCEPT ![p] = NoMessage]
    /\ snap' = [snap EXCEPT ![p] = Gone]
    /\ att' = [att EXCEPT ![p] = 0]
    /\ upto' = [upto EXCEPT ![p] = 0]
    /\ work' = [work EXCEPT ![p] = {}]

\* Leave close_session: its finally clause discards the guard.
\* Faulty: no finally clause.
LeaveLocked(p) == Finish(p) /\ UNCHANGED inProgress
Leave(p) == Finish(p) /\ inProgress' = FALSE

Goto(p, next) == pc' = [pc EXCEPT ![p] = next]

\* create_topic: the title is optional.
NewTitles == IF "untitled" \in Ops THEN {"unnamed", "chosen"} ELSE {"chosen"}

Init ==
    /\ \E title \in NewTitles :
          topic = [status |-> "active", title |-> title, messages |-> <<>>,
                   blocks |-> {}, total |-> 0, version |-> 0]
    /\ rows = {}
    /\ credited = {}
    /\ dropped = {}
    /\ inProgress = FALSE
    /\ clock = 0
    /\ nextId = 1
    /\ pc = [p \in Request |-> "idle"]
    /\ msg = [p \in Request |-> NoMessage]
    /\ snap = [p \in Request |-> Gone]
    /\ att = [p \in Request |-> 0]
    /\ upto = [p \in Request |-> 0]
    /\ work = [p \in Request |-> {}]

-----------------------------------------------------------------------------
(* Mentor turns.  get_topic, the capacity check and the fresh message      *)
(* depend only on the document read, so they are one action: the check is  *)
(* already stale when the append begins.                                   *)

BeginTurn(p) ==
    /\ "turn" \in Ops
    /\ pc[p] = "idle"
    /\ Exists
    /\ HasRoom(topic)
    /\ nextId <= MaxId
    /\ msg' = [msg EXCEPT ![p] = [id |-> nextId, role |-> "user",
                                  ts |-> clock, quiz |-> "none"]]
    /\ nextId' = nextId + 1
    /\ Goto(p, "append")
    /\ UNCHANGED <<topic, rows, credited, dropped, inProgress, clock,
                   snap, att, upto, work>>

BeginRegenerate(p) ==
    /\ "regenerate" \in Ops
    /\ pc[p] = "idle"
    /\ Exists
    /\ HasRoom(topic)
    /\ Regenerable(topic)
    /\ msg' = [msg EXCEPT ![p] = Last(topic.messages)]
    /\ Goto(p, "remove")
    /\ UNCHANGED <<topic, shared, snap, att, upto, work>>

\* find_one and update_fn of append_message; a rejected append raises.
AppendRead(p) ==
    /\ pc[p] = "append"
    /\ \/ /\ Accepts(topic, msg[p])
          /\ snap' = [snap EXCEPT ![p] = topic]
          /\ Goto(p, "appendWrite")
          /\ UNCHANGED <<msg, att, upto, work>>
       \/ /\ ~Accepts(topic, msg[p])
          /\ Finish(p)
    /\ UNCHANGED <<topic, shared>>

\* Faulty: $set without the version.
AppendedUnversioned(p) ==
    [topic EXCEPT !.messages = Append(@, msg[p]), !.total = snap[p].total + 1]

Appended(p) ==
    [topic EXCEPT !.messages = Append(@, msg[p]),
                  !.total = snap[p].total + 1,
                  !.version = snap[p].version + 1]

\* After the reply, the post-turn hook runs, unless the client has left.
AppendWrite(p) ==
    /\ pc[p] = "appendWrite"
    /\ Matches(p)
    /\ topic' = Appended(p)
    /\ \/ /\ msg[p].role = "user"
          /\ Goto(p, "reply")
          /\ upto' = upto
       \/ /\ msg[p].role = "assistant"
          /\ Goto(p, "hook")
          /\ upto' = [upto EXCEPT ![p] = clock]
       \/ /\ msg[p].role = "assistant"
          /\ Goto(p, "idle")
          /\ upto' = upto
    /\ msg' = [msg EXCEPT ![p] = NoMessage]
    /\ snap' = [snap EXCEPT ![p] = Gone]
    /\ att' = [att EXCEPT ![p] = 0]
    /\ UNCHANGED <<shared, work>>

RemoveRead(p) ==
    /\ pc[p] = "remove"
    /\ \/ /\ Removable(topic, msg[p].id)
          /\ snap' = [snap EXCEPT ![p] = topic]
          /\ Goto(p, "removeWrite")
          /\ UNCHANGED <<msg, att, upto, work>>
       \/ /\ ~Removable(topic, msg[p].id)
          /\ Finish(p)
    /\ UNCHANGED <<topic, shared>>

\* $pop of the last element.  Faulty: $pop of the first ({"messages": -1}).
RemovedFirst(p) ==
    [topic EXCEPT !.messages = Tail(@), !.total = snap[p].total - 1,
                  !.version = snap[p].version + 1]

Removed(p) ==
    [topic EXCEPT !.messages = Front(@),
                  !.total = IF snap[p].total = 0 THEN 0 ELSE snap[p].total - 1,
                  !.version = snap[p].version + 1]

RemoveWrite(p) ==
    /\ pc[p] = "removeWrite"
    /\ Matches(p)
    /\ topic' = Removed(p)
    /\ Goto(p, "reply")
    /\ msg' = [msg EXCEPT ![p] = NoMessage]
    /\ snap' = [snap EXCEPT ![p] = Gone]
    /\ att' = [att EXCEPT ![p] = 0]
    /\ UNCHANGED <<shared, upto, work>>

\* The reply has streamed: a fresh assistant message, perhaps a quiz card.
Reply(p) ==
    /\ pc[p] = "reply"
    /\ nextId <= MaxId
    /\ \E q \in IF "answer" \in Ops THEN {"none", "open"} ELSE {"none"} :
          msg' = [msg EXCEPT ![p] = [id |-> nextId, role |-> "assistant",
                                     ts |-> clock, quiz |-> q]]
    /\ nextId' = nextId + 1
    /\ Goto(p, "append")
    /\ UNCHANGED <<topic, rows, credited, dropped, inProgress, clock,
                   snap, att, upto, work>>

-----------------------------------------------------------------------------
(* Quiz picks.  msg[p] names the message and carries the pick.             *)

\* Faulty: an answered card may be answered again.
AnswerableAgain(doc, id) ==
    \E i \in DOMAIN doc.messages :
        doc.messages[i].id = id /\ doc.messages[i].quiz # "none"

Answerable(doc, id) ==
    \E i \in DOMAIN doc.messages :
        doc.messages[i].id = id /\ doc.messages[i].quiz = "open"

BeginAnswer(p) ==
    /\ "answer" \in Ops
    /\ pc[p] = "idle"
    /\ \E i \in DOMAIN topic.messages, pick \in Picks :
          /\ topic.messages[i].quiz # "none"
          /\ msg' = [msg EXCEPT ![p] =
                       [topic.messages[i] EXCEPT !.quiz = pick]]
    /\ Goto(p, "answer")
    /\ UNCHANGED <<topic, shared, snap, att, upto, work>>

AnswerRead(p) ==
    /\ pc[p] = "answer"
    /\ \/ /\ Answerable(topic, msg[p].id)
          /\ snap' = [snap EXCEPT ![p] = topic]
          /\ Goto(p, "answerWrite")
          /\ UNCHANGED <<msg, att, upto, work>>
       \/ /\ ~Answerable(topic, msg[p].id)
          /\ Finish(p)
    /\ UNCHANGED <<topic, shared>>

\* $set messages.{idx}.quiz.picked, with idx found in the document read.
Answered(p) ==
    LET idx == CHOOSE i \in DOMAIN snap[p].messages :
                  snap[p].messages[i].id = msg[p].id
    IN  [topic EXCEPT !.messages[idx].quiz = msg[p].quiz,
                      !.version = snap[p].version + 1]

AnswerWrite(p) ==
    /\ pc[p] = "answerWrite"
    /\ Matches(p)
    /\ topic' = Answered(p)
    /\ Finish(p)
    /\ UNCHANGED shared

\* Lost the version race in _optimistic_append: read again, or give up (409).
Reread == [appendWrite |-> "append", removeWrite |-> "remove",
           answerWrite |-> "answer"]

\* Faulty: one attempt too many.
RetriesLeftInclusive(k) == k < MaxRetries
RetriesLeft(k) == k + 1 < MaxRetries

Conflict(p) ==
    /\ pc[p] \in Writing
    /\ ~Matches(p)
    /\ \/ /\ RetriesLeft(att[p])
          /\ att' = [att EXCEPT ![p] = @ + 1]
          /\ snap' = [snap EXCEPT ![p] = Gone]
          /\ Goto(p, Reread[pc[p]])
          /\ UNCHANGED <<msg, upto, work>>
       \/ /\ ~RetriesLeft(att[p])
          /\ Finish(p)
    /\ UNCHANGED <<topic, shared>>

-----------------------------------------------------------------------------
(* Archive and delete: no version filter.                                  *)

BeginArchive(p) ==
    /\ "archive" \in Ops
    /\ pc[p] = "idle"
    /\ topic.status = "active"
    /\ Goto(p, "archive")
    /\ UNCHANGED <<topic, shared, msg, snap, att, upto, work>>

Archive(p) ==
    /\ pc[p] = "archive"
    /\ topic' = IF Exists THEN [topic EXCEPT !.status = "archived"] ELSE topic
    /\ Finish(p)
    /\ UNCHANGED shared

BeginDelete(p) ==
    /\ "delete" \in Ops
    /\ pc[p] = "idle"
    /\ Exists
    /\ Goto(p, "cascadeEvents")
    /\ UNCHANGED <<topic, shared, msg, snap, att, upto, work>>

\* A failing delete_many is logged, and the handler goes on.
CascadeStep(p, from, coll, next) ==
    /\ pc[p] = from
    /\ \/ rows' = rows \ {coll}
       \/ CascadeFails /\ rows' = rows
    /\ Goto(p, next)
    /\ UNCHANGED <<topic, credited, dropped, inProgress, clock, nextId,
                   msg, snap, att, upto, work>>

DeleteEvents(p) ==
    CascadeStep(p, "cascadeEvents", "compaction_events", "cascadeContexts")

DeleteContexts(p) ==
    CascadeStep(p, "cascadeContexts", "immediate_contexts", "deleteTopic")

DeleteTopic(p) ==
    /\ pc[p] = "deleteTopic"
    /\ topic' = Gone
    /\ Finish(p)
    /\ UNCHANGED shared

-----------------------------------------------------------------------------
(* Closing a session.                                                      *)

\* Window close and logout use the last message's time, the pagehide
\* checkpoint (active topics only) uses now.
BeginClose(p) ==
    /\ "close" \in Ops
    /\ pc[p] = "idle"
    /\ topic.messages # <<>>
    /\ \/ upto' = [upto EXCEPT ![p] = Last(topic.messages).ts]
       \/ topic.status = "active" /\ upto' = [upto EXCEPT ![p] = clock]
    /\ Goto(p, "close")
    /\ UNCHANGED <<topic, shared, msg, snap, att, work>>

\* maybe_force_close_long_session, spawned after a persisted reply.
Hook(p) ==
    /\ pc[p] = "hook"
    /\ \/ /\ Overlong(topic)
          /\ Goto(p, "close")
          /\ UNCHANGED <<msg, snap, att, upto, work>>
       \/ /\ ~Overlong(topic)
          /\ Finish(p)
    /\ UNCHANGED <<topic, shared>>

\* Faulty: the guard is taken without a test.
EnterCloseUnguarded(p) ==
    /\ pc[p] = "close"
    /\ inProgress' = TRUE
    /\ Goto(p, "closeRead")
    /\ UNCHANGED <<topic, rows, credited, dropped, clock, nextId,
                   msg, snap, att, upto, work>>

\* The guard is tested and taken without an await between.
EnterClose(p) ==
    /\ pc[p] = "close"
    /\ \/ /\ inProgress
          /\ Finish(p)
          /\ UNCHANGED inProgress
       \/ /\ ~inProgress
          /\ inProgress' = TRUE
          /\ Goto(p, "closeRead")
          /\ UNCHANGED <<msg, snap, att, upto, work>>
    /\ UNCHANGED <<topic, rows, credited, dropped, clock, nextId>>

CloseRead(p) ==
    /\ pc[p] = "closeRead"
    /\ \/ /\ SessionAt(topic, upto[p]) = {}
          /\ Leave(p)
       \/ /\ SessionAt(topic, upto[p]) # {}
          /\ snap' = [snap EXCEPT ![p] = topic]
          /\ Goto(p, "summarise")
          /\ UNCHANGED <<inProgress, msg, att, upto, work>>
    /\ UNCHANGED <<topic, rows, credited, dropped, clock, nextId>>

SessionIds(p) == {snap[p].messages[i].id : i \in SessionAt(snap[p], upto[p])}

NewBlock(p, w) ==
    LET s == SessionAt(snap[p], upto[p])
        first == CHOOSE i \in s : \A j \in s : i <= j
    IN  [id |-> nextId, src |-> SessionIds(p), words |-> w, depth |-> 0,
         at |-> snap[p].messages[first].ts]

\* llm_result["title"]: a topic read without a name takes the LLM's, if that is
\* usable.
ResultTitles(p) ==
    IF snap[p].title = "unnamed" THEN {"unnamed", "proposed"}
    ELSE {snap[p].title}

\* update_one filtered on UNNAMED_TITLE: a name given meanwhile stays.
\* Faulty: filtered on the topic only.
RenamedAnyway(p, title) ==
    IF snap[p].title = "unnamed" /\ Exists
    THEN [topic EXCEPT !.title = title] ELSE topic
Renamed(p, title) ==
    IF snap[p].title = "unnamed" /\ Exists /\ topic.title = "unnamed"
    THEN [topic EXCEPT !.title = title] ELSE topic

\* Skill updates and taught concepts of the session, filed under the title.
\* Each write is best effort: a failure is logged and the close goes on.
\* Without a title they are dropped.  Faulty: always dropped.
LessonsDropped(p, title) == credited
Lessons(p, title) ==
    IF title = "unnamed" THEN credited ELSE credited \cup SessionIds(p)

LessonsLost(p, title) ==
    IF title = "unnamed" THEN dropped \cup SessionIds(p) ELSE dropped

AfterMerge(bs, k) == IF MustMerge(bs, k) THEN "merge" ELSE "commit"

\* The summary arrives.  An unnamed topic is renamed first, then the lessons
\* are handed over, before the merges and the commit.
Summarise(p) ==
    /\ pc[p] = "summarise"
    /\ nextId <= MaxId
    /\ \E w \in Words :
          /\ work' = [work EXCEPT ![p] = snap[p].blocks \cup {NewBlock(p, w)}]
          /\ Goto(p, AfterMerge(work'[p], 0))
    /\ nextId' = nextId + 1
    /\ \E title \in ResultTitles(p) :
          /\ topic' = Renamed(p, title)
          /\ credited' = Lessons(p, title)
          /\ dropped' = LessonsLost(p, title)
    /\ UNCHANGED <<rows, inProgress, clock, msg, snap, att, upto>>

\* One pass of enforce_word_cap; att counts the passes.
MergeBlocks(p) ==
    /\ pc[p] = "merge"
    /\ nextId <= MaxId
    /\ \E a \in work[p], b \in work[p], w \in Words :
          /\ OldestPair(a, b, work[p])
          /\ work' = [work EXCEPT ![p] =
                        {c \in @ : c.id \notin {a.id, b.id}}
                            \cup {MergedBlock(a, b, nextId, w)}]
          /\ Goto(p, AfterMerge(work'[p], att[p] + 1))
    /\ nextId' = nextId + 1
    /\ att' = [att EXCEPT ![p] = @ + 1]
    /\ UNCHANGED <<topic, rows, credited, dropped, inProgress, clock,
                   msg, snap, upto>>

\* A failed merge ends the loop and keeps the blocks as they are.
MergeFails(p) ==
    /\ pc[p] = "merge"
    /\ Goto(p, "commit")
    /\ UNCHANGED <<topic, shared, msg, snap, att, upto, work>>

Commit(p) ==
    /\ pc[p] = "commit"
    /\ Matches(p)
    /\ topic' = [topic EXCEPT !.blocks = work[p],
                              !.version = snap[p].version + 1]
    /\ Goto(p, "event")
    /\ UNCHANGED <<shared, msg, snap, att, upto, work>>

\* "Session close failed: concurrent write conflict": logged, not retried.
CommitLost(p) ==
    /\ pc[p] = "commit"
    /\ ~Matches(p)
    /\ Leave(p)
    /\ UNCHANGED <<topic, rows, credited, dropped, clock, nextId>>

RecordEvent(p) ==
    /\ pc[p] = "event"
    /\ rows' = rows \cup {"compaction_events"}
    /\ Leave(p)
    /\ UNCHANGED <<topic, credited, dropped, clock, nextId>>

-----------------------------------------------------------------------------
(* Failures and the environment.                                           *)

\* The reply or the summary times out or fails; the user message stays.
LLMFails(p) ==
    /\ pc[p] \in {"reply", "summarise"}
    /\ Finish(p)
    /\ inProgress' = IF pc[p] = "summarise" THEN FALSE ELSE inProgress
    /\ UNCHANGED <<topic, rows, credited, dropped, clock, nextId>>

\* A database call raises, or the request is cancelled.
Abort(p) ==
    /\ "abort" \in Ops
    /\ pc[p] # "idle"
    /\ Finish(p)
    /\ inProgress' = IF pc[p] \in Closing THEN FALSE ELSE inProgress
    /\ UNCHANGED <<topic, rows, credited, dropped, clock, nextId>>

\* A chat upload keyed by the topic id finishes (session_upload.py).
Upload ==
    /\ "upload" \in Ops
    /\ rows' = rows \cup {"immediate_contexts"}
    /\ UNCHANGED <<topic, credited, dropped, inProgress, clock, nextId,
                   pc, msg, snap, att, upto, work>>

\* PATCH /topic/{id}: no version.  The learner may type UNNAMED_TITLE itself.
Rename ==
    /\ "rename" \in Ops
    /\ Exists
    /\ \E title \in {"unnamed", "chosen"} :
          topic' = [topic EXCEPT !.title = title]
    /\ UNCHANGED <<shared, pc, msg, snap, att, upto, work>>

\* The process restarts: every task is gone, and so is the guard.
Restart ==
    /\ "restart" \in Ops
    /\ pc' = [p \in Request |-> "idle"]
    /\ msg' = [p \in Request |-> NoMessage]
    /\ snap' = [p \in Request |-> Gone]
    /\ att' = [p \in Request |-> 0]
    /\ upto' = [p \in Request |-> 0]
    /\ work' = [p \in Request |-> {}]
    /\ inProgress' = FALSE
    /\ UNCHANGED <<topic, rows, credited, dropped, clock, nextId>>

Tick ==
    /\ clock < MaxClock
    /\ clock' = clock + 1
    /\ UNCHANGED <<topic, rows, credited, dropped, inProgress, nextId,
                   pc, msg, snap, att, upto, work>>

Begin(p) == \/ BeginTurn(p) \/ BeginRegenerate(p) \/ BeginAnswer(p)
            \/ BeginArchive(p) \/ BeginDelete(p) \/ BeginClose(p)

\* What the event loop runs once the awaited call returns.
Step(p) ==
    \/ AppendRead(p) \/ AppendWrite(p) \/ RemoveRead(p) \/ RemoveWrite(p)
    \/ Reply(p) \/ AnswerRead(p) \/ AnswerWrite(p) \/ Conflict(p)
    \/ Archive(p) \/ DeleteEvents(p) \/ DeleteContexts(p) \/ DeleteTopic(p)
    \/ Hook(p) \/ EnterClose(p) \/ CloseRead(p) \/ Summarise(p)
    \/ MergeBlocks(p) \/ MergeFails(p) \/ Commit(p) \/ CommitLost(p)
    \/ RecordEvent(p) \/ LLMFails(p)

Next == \/ \E p \in Request : Begin(p) \/ Step(p) \/ Abort(p)
        \/ Rename \/ Upload \/ Restart \/ Tick

Spec == Init /\ [][Next]_vars /\ \A p \in Request : WF_vars(Step(p))

-----------------------------------------------------------------------------
(* Properties.                                                             *)

SharedType ==
    /\ topic \in TopicDoc
    /\ rows \subseteq Cascade
    /\ credited \subseteq Nat
    /\ dropped \subseteq Nat
    /\ inProgress \in BOOLEAN
    /\ clock \in Nat
    /\ nextId \in Nat

LocalType ==
    /\ pc \in [Request -> PC]
    /\ msg \in [Request -> Message]
    /\ snap \in [Request -> TopicDoc]
    /\ att \in [Request -> Nat]
    /\ upto \in [Request -> Nat]
    /\ work \in [Request -> SUBSET Block]

AttemptsBounded ==
    \A p \in Request :
        att[p] <= IF pc[p] \in Closing THEN MaxMerges ELSE MaxRetries - 1

\* Every variable has its type, and no request retries more often than
\* MAX_RETRIES or merges more often than MAX_MERGE_PASSES_PER_CLOSE.
TypeOK == SharedType /\ LocalType /\ AttemptsBounded

\* The argument for optimistic concurrency: as long as the version a request
\* read is still the document's, only status and title can have changed since,
\* although several writers leave the version alone (archive, rename).
VersionPins ==
    \A p \in Request :
        (Exists /\ snap[p].status # "gone") =>
            /\ snap[p].version <= topic.version
            /\ snap[p].version = topic.version =>
                  /\ snap[p].messages = topic.messages
                  /\ snap[p].blocks = topic.blocks
                  /\ snap[p].total = topic.total

\* metadata.totalMessageCount, written from a value read earlier, equals the
\* length of the messages array: no concurrent append or removal is lost.
CountMatches == topic.total = Len(topic.messages)

\* messages is ordered by timestamp although concurrent turns stamp their
\* messages before they append them.
Chronological ==
    \A i, j \in DOMAIN topic.messages :
        i < j => topic.messages[i].ts <= topic.messages[j].ts

\* "A session-close only summarizes messages not yet covered by any block":
\* no message is narrated by two summary blocks, after any merges.
NoDoubleCoverage ==
    \A a, b \in topic.blocks : a # b => a.src \cap b.src = {}

\* What _format_messages_for_api still sends to the model is the end of the
\* conversation: a summary never covers a message and skips an earlier one.
CoveredPrefix ==
    \A i, j \in DOMAIN topic.messages :
        (i < j /\ topic.messages[j].id \in Covered(topic.blocks)) =>
            topic.messages[i].id \in Covered(topic.blocks)

\* Lessons are handed over before the block is committed: whatever fails or
\* restarts, a summary hides a message only if its lessons were submitted, or
\* if it was summarised while the topic was unnamed and the LLM proposed no
\* usable name: then the code gives them up and commits the block.
CoveredIsCredited == Covered(topic.blocks) \subseteq credited \cup dropped

\* _in_progress admits one close at a time, and is held exactly while a
\* close runs: no failure path leaves the topic locked.
GuardExclusive ==
    /\ \A p, q \in Request :
          (pc[p] \in Closing /\ pc[q] \in Closing) => p = q
    /\ inProgress <=> \E p \in Request : pc[p] \in Closing

\* handle_message calls its capacity check the backstop on topic size.  The
\* check is stale when the append runs, so the thread overshoots, but by no
\* more than one question and one reply per concurrent turn.
SizeBackstop == Len(topic.messages) < Capacity + 2 * Cardinality(Request)

\* A message leaves the thread only as the reply a regenerate named:
\* remove_last_message never pops a message appended in the meantime.
RemovesOnlyNamed ==
    [][ Exists' =>
          \A i \in Ids(topic.messages) \ Ids(topic'.messages) :
              \E p \in Request : pc[p] = "removeWrite" /\ msg[p].id = i ]_vars

\* "One answer per card": record_quiz_answer writes by array index, and still
\* never changes a pick nor answers another card.
PickOnce ==
    [][ \A i \in DOMAIN topic.messages \cap DOMAIN topic'.messages :
          topic.messages[i].quiz # topic'.messages[i].quiz =>
              /\ topic.messages[i].quiz = "open"
              /\ \E p \in Request : /\ pc[p] = "answerWrite"
                                    /\ msg[p].id = topic.messages[i].id ]_vars

\* Merging and committing never uncover a message: a close works on blocks
\* read before its LLM calls, and loses none of them ("never loses a block").
CoverageGrows ==
    [][ Exists' =>
          Covered(topic.blocks) \subseteq Covered(topic'.blocks) ]_vars

\* "Rename an unnamed topic": a close proposes a title for the topic it read
\* without one, and never overwrites a title the learner chose meanwhile.
TitleKept ==
    [][ (topic.title = "chosen" /\ Exists' /\ ~Rename) =>
          topic'.title = "chosen" ]_vars

\* The thread implements the log its reader is promised.
Log == INSTANCE ThreadLog WITH
          Id <- 1 .. MaxId,
          log <- [i \in DOMAIN topic.messages |-> topic.messages[i].id],
          folded <- Covered(topic.blocks),
          gone <- ~Exists

ImplementsLog == Log!Spec

\* Every close ends and lets the next one in: LLM calls and database calls
\* have timeouts, and the guard is discarded in a finally clause.
GuardReleased == inProgress ~> ~inProgress

=============================================================================
