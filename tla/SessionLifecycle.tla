-------------------------- MODULE SessionLifecycle --------------------------
(***************************************************************************)
(* The sessions collection of one user: creation, incremental persistence  *)
(* of messages, recovery of messages the browser kept, the end-of-session  *)
(* pipeline and the timeout sweep.                                         *)
(*                                                                         *)
(* unified-backend/app/services/session_manager.py       status machine    *)
(* unified-backend/app/services/message_store.py         appends           *)
(* unified-backend/app/services/session_save_handler.py  end pipeline      *)
(* unified-backend/app/routers/sessions.py               the handlers      *)
(* mentorman-web/src/lib/session-persistence             what clients send *)
(*                                                                         *)
(* A Request is one running handler.  It is atomic between two awaits, and *)
(* each write is one MongoDB update, atomic on the document it names.      *)
(***************************************************************************)
EXTENDS Integers, FiniteSets, SequencesExt

CONSTANTS
    Session,    \* session ids, the uuids handed out
    Request,    \* handlers that may run at once
    Ops,        \* operations and faults of this instance
    Recent,     \* messages, of one length, that fit _MAX_TRANSCRIPT_CHARS (40,000)
    MaxCalls,   \* bound: client calls
    MaxTurns    \* bound: turns (a user and a mentor message) per session

ASSUME BoundAssumption ==
    /\ {MaxCalls, MaxTurns} \subseteq Nat
    /\ Recent \in Nat \ {0}

\* Handlers run in finite number.
ASSUME RequestAssumption == IsFiniteSet(Request)

VARIABLES
    session,    \* the documents of the sessions collection
    typed,      \* turns the client has composed in each session
    acked,      \* messages each client has had a 2xx answer for
    sent,       \* calls of the client that have carried each message
    calls,      \* client calls made
    pc, target, batch, left, seen   \* locals of each request

vars == <<session, typed, acked, sent, calls, pc, target, batch, left, seen>>
client == <<typed, acked, sent, calls>>

-----------------------------------------------------------------------------
(* Data.  A message is its place in the conversation, which stands for its *)
(* (timestamp, role) key: clients stamp every message.                     *)

Message == 1 .. 2 * MaxTurns
Status == {"none", "active", "ending", "ended", "gone"}
Reason == {"none", "cleanup", "timeout", "failed"}

\* summed: there is a summary; of: the messages it speaks of;
\* old: updated_at is more than 60 seconds ago.
SessionDoc == [status : Status, messages : Seq(Message), summed : BOOLEAN,
               of : SUBSET Message, reason : Reason, old : BOOLEAN]

Fresh == [status |-> "active", messages |-> <<>>, summed |-> FALSE,
          of |-> {}, reason |-> "none", old |-> FALSE]
Unborn == [Fresh EXCEPT !.status = "none"]
Deleted == [Fresh EXCEPT !.status = "gone"]

Exists(s) == session[s].status \notin {"none", "gone"}
Stored(s) == ToSet(session[s].messages)

\* The messages of the k-th turn, and of the first k turns.
Turn(k) == {2 * k - 1, 2 * k}
Turns(k) == 1 .. 2 * k

\* A set of messages as a list in time order.
Listings(S) ==
    {q \in [1 .. Cardinality(S) -> S] :
        /\ ToSet(q) = S
        /\ \A i, j \in DOMAIN q : i < j => q[i] < q[j]}

\* _truncate_transcript: what the LLM is shown of a list of messages, in the
\* order of their timestamps.
Excerpt(q) ==
    {m \in ToSet(q) : Cardinality({i \in DOMAIN q : q[i] > m}) < Recent}

\* _generate_fallback_summary: the first user message and, where 300 characters
\* have room for it, the last.
UserMessages(q) == {m \in ToSet(q) : m % 2 = 1}
Fallbacks(q) ==
    LET first == {m \in UserMessages(q) : \A n \in UserMessages(q) : m <= n}
        last == {m \in UserMessages(q) : \A n \in UserMessages(q) : n <= m}
    IN {first, first \cup last}

\* What the summary of a session with these messages may speak of; that of a
\* session of fewer than two is a fixed sentence.
Summaries(q) == IF Len(q) < 2 THEN {{}} ELSE {Excerpt(q)} \cup Fallbacks(q)

-----------------------------------------------------------------------------
(* Control.                                                                *)

Pipeline == {"transcript", "persist", "endedRead", "endedWrite", "salvage",
             "result", "force"}
PC == {"idle", "insert", "push", "retry", "retryCheck", "replace", "endWrite",
       "recoverRead", "recoverPush", "recoverCheck", "recoverWrite"}
      \cup Pipeline

\* update_one / find_one_and_update by id: no match, no effect.
Update(p, doc) ==
    session' = [session EXCEPT ![target[p]] =
                   IF Exists(target[p]) THEN doc ELSE @]

Doc(p) == session[target[p]]

Goto(p, next) == pc' = [pc EXCEPT ![p] = next]

\* The handler's locals die with it.
Drop(p) ==
    /\ pc' = [pc EXCEPT ![p] = "idle"]
    /\ target' = [target EXCEPT ![p] = "none"]
    /\ batch' = [batch EXCEPT ![p] = {}]
    /\ left' = [left EXCEPT ![p] = {}]
    /\ seen' = [seen EXCEPT ![p] = "none"]

\* An error answer, or no answer: the client learns nothing.
Refuse(p) == Drop(p) /\ UNCHANGED client

\* A 2xx answer: the client takes its messages for persisted.
Answer(p) ==
    /\ Drop(p)
    /\ acked' = [acked EXCEPT ![target[p]] = @ \cup batch[p]]
    /\ UNCHANGED <<typed, sent, calls>>

\* A client call reaches the handler for session s.
Call(p, op, s) ==
    /\ op \in Ops
    /\ pc[p] = "idle"
    /\ calls < MaxCalls
    /\ Exists(s)
    /\ calls' = calls + 1
    /\ target' = [target EXCEPT ![p] = s]

\* The body of a call is this set of messages.
Carry(p, s, messages) ==
    /\ batch' = [batch EXCEPT ![p] = messages]
    /\ sent' = [sent EXCEPT ![s] = [m \in Message |->
                   IF m \in messages THEN sent[s][m] + 1 ELSE sent[s][m]]]

Init ==
    /\ session = [s \in Session |-> Unborn]
    /\ typed = [s \in Session |-> 0]
    /\ acked = [s \in Session |-> {}]
    /\ sent = [s \in Session |-> [m \in Message |-> 0]]
    /\ calls = 0
    /\ pc = [p \in Request |-> "idle"]
    /\ target = [p \in Request |-> "none"]
    /\ batch = [p \in Request |-> {}]
    /\ left = [p \in Request |-> {}]
    /\ seen = [p \in Request |-> "none"]

-----------------------------------------------------------------------------
(* Creation: force-end what the user left open, then insert.               *)

\* Faulty: the reason is not recorded.
ForcedEndSilently(doc, reason) == [doc EXCEPT !.status = "ended", !.old = FALSE]
ForcedEnd(doc, reason) ==
    [doc EXCEPT !.status = "ended", !.reason = reason, !.old = FALSE]

Cleanup(p) ==
    /\ "create" \in Ops
    /\ pc[p] = "idle"
    /\ calls < MaxCalls
    /\ calls' = calls + 1
    /\ session' = [s \in Session |->
                      IF session[s].status \in {"active", "ending"}
                      THEN ForcedEnd(session[s], "cleanup") ELSE session[s]]
    /\ Goto(p, "insert")
    /\ UNCHANGED <<typed, acked, sent, target, batch, left, seen>>

Insert(p) ==
    /\ pc[p] = "insert"
    /\ \E s \in Session :
          /\ session[s].status = "none"
          /\ session' = [session EXCEPT ![s] = Fresh]
    /\ Refuse(p)

Delete(s) ==
    /\ "delete" \in Ops
    /\ Exists(s)
    /\ session' = [session EXCEPT ![s] = Deleted]
    /\ UNCHANGED <<client, pc, target, batch, left, seen>>

-----------------------------------------------------------------------------
(* Appending a turn.  A call on a session that is not active is refused    *)
(* without effect, so only the accepted calls are steps.                   *)

AcceptTurn(p, s, k) ==
    /\ session[s].status = "active"
    /\ Carry(p, s, Turn(k))
    /\ left' = [left EXCEPT ![p] = Turn(k)]
    /\ Goto(p, "push")
    /\ UNCHANGED <<session, acked, seen>>

\* A new turn.
BeginAppend(p) ==
    \E s \in Session :
        /\ Call(p, "append", s)
        /\ typed[s] < MaxTurns
        /\ typed' = [typed EXCEPT ![s] = @ + 1]
        /\ AcceptTurn(p, s, typed[s] + 1)

\* persistMessages sends a turn again, once, when its first call had no 2xx
\* answer; the first may still be running.  (Here: until one is answered.)
Resend(p) ==
    \E s \in Session : \E k \in 1 .. typed[s] :
        /\ Call(p, "resend", s)
        /\ ~(Turn(k) \subseteq acked[s])
        /\ AcceptTurn(p, s, k)
        /\ typed' = typed

Pushed(doc, q) == [doc EXCEPT !.messages = @ \o q, !.old = FALSE]

\* _do_append, filtered on an active session.
\* Faulty: filtered on the session id only.
PushableAnytime(doc) == doc.status # "gone"
Pushable(doc) == doc.status = "active"

Push(p) ==
    /\ pc[p] = "push"
    /\ \/ /\ Pushable(Doc(p))
          /\ \E q \in Listings(batch[p]) : Update(p, Pushed(Doc(p), q))
          /\ Answer(p)
       \/ /\ ~Pushable(Doc(p))
          /\ Goto(p, "retry")
          /\ UNCHANGED <<session, client, target, batch, left, seen>>

\* m is the first message still to be written.
Pending(p, m) == m \in left[p] /\ \A n \in left[p] : m <= n

\* Message m was written, or seen to be there: on to the next, or the end.
Advance(p, m) ==
    \/ /\ left[p] # {m}
       /\ left' = [left EXCEPT ![p] = @ \ {m}]
       /\ Goto(p, "retry")
       /\ UNCHANGED <<client, target, batch, seen>>
    \/ /\ left[p] = {m}
       /\ Answer(p)

\* _do_idempotent_append's filter.  Faulty: the retry pushes blindly.
MissingBlind(p, m) == Doc(p).status = "active"
Missing(p, m) == Doc(p).status = "active" /\ m \notin Stored(target[p])

Retry(p) ==
    /\ pc[p] = "retry"
    /\ \E m \in left[p] :
          /\ Pending(p, m)
          /\ \/ /\ Missing(p, m)
                /\ Update(p, Pushed(Doc(p), <<m>>))
                /\ Advance(p, m)
             \/ /\ ~Missing(p, m)
                /\ Goto(p, "retryCheck")
                /\ UNCHANGED <<session, client, target, batch, left, seen>>

\* Nothing matched: an inactive session is an error, otherwise it was there.
\* Faulty: nothing matched is taken for success.
ClosedNever(p) == FALSE
Closed(p) == Exists(target[p]) /\ Doc(p).status # "active"

RetryCheck(p) ==
    /\ pc[p] = "retryCheck"
    /\ \/ /\ Closed(p)
          /\ Refuse(p)
       \/ /\ ~Closed(p)
          /\ \E m \in left[p] : Pending(p, m) /\ Advance(p, m)
    /\ UNCHANGED session

\* A write took effect but its answer was lost: the first push is retried,
\* the retry gives up.
LostReply(p) ==
    /\ "fault" \in Ops
    /\ \/ /\ pc[p] = "push"
          /\ Pushable(Doc(p))
          /\ \E q \in Listings(batch[p]) : Update(p, Pushed(Doc(p), q))
          /\ Goto(p, "retry")
          /\ UNCHANGED <<client, target, batch, left, seen>>
       \/ /\ pc[p] = "retry"
          /\ \E m \in left[p] :
                /\ Pending(p, m)
                /\ Missing(p, m)
                /\ Update(p, Pushed(Doc(p), <<m>>))
          /\ Refuse(p)

-----------------------------------------------------------------------------
(* Checkpoint: the client sends every message it has composed.             *)

BeginCheckpoint(p) ==
    \E s \in Session :
        /\ Call(p, "checkpoint", s)
        /\ typed[s] > 0
        /\ Carry(p, s, Turns(typed[s]))
        /\ Goto(p, "replace")
        /\ UNCHANGED <<session, typed, acked, left, seen>>

Replace(p) ==
    /\ pc[p] = "replace"
    /\ \E q \in Listings(batch[p]) :
          Update(p, [Doc(p) EXCEPT !.messages = q, !.old = FALSE])
    /\ Answer(p)

-----------------------------------------------------------------------------
(* Ending a session.  transition_status reads, checks, then writes without *)
(* the status in its filter.  A refused end request has no effect.         *)

BeginEnd(p) ==
    \E s \in Session :
        /\ Call(p, "end", s)
        /\ session[s].status = "active"
        /\ Goto(p, "endWrite")
        /\ UNCHANGED <<session, typed, acked, sent, batch, left, seen>>

\* Faulty: a status the state machine does not know.
EndingUnknown(doc) == [doc EXCEPT !.status = "closing", !.old = FALSE]
Ending(doc) == [doc EXCEPT !.status = "ending", !.old = FALSE]

\* find_one_and_update of a deleted document yields None, which raises.
EndWrite(p) ==
    /\ pc[p] = "endWrite"
    /\ Update(p, Ending(Doc(p)))
    /\ \/ /\ Exists(target[p])
          /\ Goto(p, "transcript")
          /\ UNCHANGED <<client, target, batch, left, seen>>
       \/ /\ ~Exists(target[p])
          /\ Refuse(p)

\* The messages are read, and the LLM or the fallback makes a summary of them;
\* left[p] now holds what it speaks of.
Transcript(p) ==
    /\ pc[p] = "transcript"
    /\ \E of \in Summaries(Doc(p).messages) : left' = [left EXCEPT ![p] = of]
    /\ Goto(p, "persist")
    /\ UNCHANGED <<session, client, target, batch, seen>>

Summed(p) == [Doc(p) EXCEPT !.summed = TRUE, !.of = left[p], !.old = FALSE]

Persist(p) ==
    /\ pc[p] = "persist"
    /\ Update(p, Summed(p))
    /\ Goto(p, "endedRead")
    /\ UNCHANGED <<client, target, batch, left, seen>>

EndedRead(p) ==
    /\ pc[p] = "endedRead"
    /\ \/ /\ Doc(p).status = "ending"
          /\ Goto(p, "endedWrite")
       \/ /\ Doc(p).status # "ending"
          /\ Goto(p, "salvage")
    /\ UNCHANGED <<session, client, target, batch, left, seen>>

EndedWrite(p) ==
    /\ pc[p] = "endedWrite"
    /\ Update(p, [Doc(p) EXCEPT !.status = "ended", !.old = FALSE])
    /\ \/ /\ Exists(target[p])
          /\ Goto(p, "result")
       \/ /\ ~Exists(target[p])
          /\ Goto(p, "salvage")
    /\ UNCHANGED <<client, target, batch, left, seen>>

\* _transition_to_ended's last resort.
Salvage(p) ==
    /\ pc[p] = "salvage"
    /\ Update(p, ForcedEnd(Doc(p), "failed"))
    /\ Goto(p, "result")
    /\ UNCHANGED <<client, target, batch, left, seen>>

\* Building the result reads new_level, a field SessionSkillUpdate lacks: it
\* raises whenever the LLM's skill update passed validation, which takes a
\* session of two messages.
Result(p) ==
    /\ pc[p] = "result"
    /\ \/ Answer(p)
       \/ /\ left[p] # {}
          /\ Goto(p, "force")
          /\ UNCHANGED <<client, target, batch, left, seen>>
    /\ UNCHANGED session

\* The router's except clause.
ForceEnd(p) ==
    /\ pc[p] = "force"
    /\ Update(p, ForcedEnd(Doc(p), "failed"))
    /\ Answer(p)

-----------------------------------------------------------------------------
(* Recovery of messages kept in localStorage, then the end pipeline.       *)

\* The queue holds whole turns: unanswered ones, or those since a checkpoint.
BeginRecover(p) ==
    \E s \in Session : \E ks \in SUBSET (1 .. typed[s]) :
        /\ Call(p, "recover", s)
        /\ ks # {}
        /\ Carry(p, s, UNION {Turn(k) : k \in ks})
        /\ seen' = [seen EXCEPT ![p] = session[s].status]
        /\ Goto(p, "recoverRead")
        /\ UNCHANGED <<session, typed, acked, left>>

\* What follows the push depends on the status read at the start.
AfterRecovery(p) ==
    \/ /\ seen[p] = "ended"
       /\ Answer(p)
    \/ /\ seen[p] # "ended"
       /\ Goto(p, IF seen[p] = "active" THEN "recoverCheck" ELSE "transcript")
       /\ left' = [left EXCEPT ![p] = {}]
       /\ UNCHANGED <<client, target, batch, seen>>

Recoverable(p) == batch[p] \ Stored(target[p])

RecoverRead(p) ==
    /\ pc[p] = "recoverRead"
    /\ \/ /\ ~Exists(target[p])
          /\ Refuse(p)
       \/ /\ Exists(target[p])
          /\ Recoverable(p) # {}
          /\ left' = [left EXCEPT ![p] = Recoverable(p)]
          /\ Goto(p, "recoverPush")
          /\ UNCHANGED <<client, target, batch, seen>>
       \/ /\ Exists(target[p])
          /\ Recoverable(p) = {}
          /\ AfterRecovery(p)
    /\ UNCHANGED session

RecoverPush(p) ==
    /\ pc[p] = "recoverPush"
    /\ \E q \in Listings(left[p]) : Update(p, Pushed(Doc(p), q))
    /\ AfterRecovery(p)

\* Here a refused transition is an exception like any other.
RecoverCheck(p) ==
    /\ pc[p] = "recoverCheck"
    /\ \/ /\ Doc(p).status = "active"
          /\ Goto(p, "recoverWrite")
       \/ /\ Doc(p).status # "active"
          /\ Goto(p, "force")
    /\ UNCHANGED <<session, client, target, batch, left, seen>>

RecoverWrite(p) ==
    /\ pc[p] = "recoverWrite"
    /\ Update(p, Ending(Doc(p)))
    /\ \/ /\ Exists(target[p])
          /\ Goto(p, "transcript")
       \/ /\ ~Exists(target[p])
          /\ Goto(p, "force")
    /\ UNCHANGED <<client, target, batch, left, seen>>

-----------------------------------------------------------------------------
(* Failing calls, restart, and the sweep.                                  *)

\* The exception handler that catches a failing database call.
Catcher(at) ==
    CASE at \in {"transcript", "persist", "salvage", "result",
                 "recoverCheck", "recoverWrite"} -> "force"
      [] at \in {"endedRead", "endedWrite"} -> "salvage"
      [] at = "push" -> "retry"
      [] OTHER -> "idle"

CallFails(p) ==
    /\ "fault" \in Ops
    /\ pc[p] # "idle"
    /\ \/ /\ Catcher(pc[p]) = "idle"
          /\ Refuse(p)
       \/ /\ Catcher(pc[p]) # "idle"
          /\ Goto(p, Catcher(pc[p]))
          /\ UNCHANGED <<client, target, batch, left, seen>>
    /\ UNCHANGED session

\* The process dies: every handler is lost, the collection is not.
Restart ==
    /\ "restart" \in Ops
    /\ \E p \in Request : pc[p] # "idle"
    /\ pc' = [p \in Request |-> "idle"]
    /\ target' = [p \in Request |-> "none"]
    /\ batch' = [p \in Request |-> {}]
    /\ left' = [p \in Request |-> {}]
    /\ seen' = [p \in Request |-> "none"]
    /\ UNCHANGED <<session, client>>

Stuck(s) == session[s].status = "ending"

\* Sixty seconds pass with nobody touching the collection.
TimePasses ==
    /\ \E s \in Session : Stuck(s) /\ ~session[s].old
    /\ session' = [s \in Session |->
                      IF Exists(s) THEN [session[s] EXCEPT !.old = TRUE]
                      ELSE session[s]]
    /\ UNCHANGED <<client, pc, target, batch, left, seen>>

\* timeout_sweep.  Faulty: looks for abandoned active sessions.
OverdueActive(s) == session[s].status = "active" /\ session[s].old
Overdue(s) == Stuck(s) /\ session[s].old

Sweep ==
    /\ \E s \in Session : Overdue(s)
    /\ session' = [s \in Session |->
                      IF Overdue(s) THEN ForcedEnd(session[s], "timeout")
                      ELSE session[s]]
    /\ UNCHANGED <<client, pc, target, batch, left, seen>>

-----------------------------------------------------------------------------

Begin(p) ==
    \/ Cleanup(p)
    \/ BeginAppend(p)
    \/ Resend(p)
    \/ BeginCheckpoint(p)
    \/ BeginEnd(p)
    \/ BeginRecover(p)

Step(p) ==
    \/ Insert(p)
    \/ Push(p) \/ Retry(p) \/ RetryCheck(p)
    \/ Replace(p)
    \/ EndWrite(p) \/ Transcript(p) \/ Persist(p)
    \/ EndedRead(p) \/ EndedWrite(p) \/ Salvage(p) \/ Result(p) \/ ForceEnd(p)
    \/ RecoverRead(p) \/ RecoverPush(p) \/ RecoverCheck(p) \/ RecoverWrite(p)

Next ==
    \/ \E p \in Request : Begin(p) \/ Step(p) \/ LostReply(p) \/ CallFails(p)
    \/ \E s \in Session : Delete(s)
    \/ Restart \/ TimePasses \/ Sweep

\* A handler at an await resumes; the sweep loop of main.py runs for ever, and
\* time passes.  New calls, faults, deletes and restarts are not promised.
Fairness ==
    /\ \A p \in Request : WF_vars(Step(p))
    /\ WF_vars(TimePasses)
    /\ WF_vars(Sweep)

Spec == Init /\ [][Next]_vars /\ Fairness

-----------------------------------------------------------------------------
(* Properties.                                                             *)

\* The state's types, and that each request knows its session.
TypeOK ==
    /\ session \in [Session -> SessionDoc]
    /\ typed \in [Session -> 0 .. MaxTurns]
    /\ acked \in [Session -> SUBSET Message]
    /\ sent \in [Session -> [Message -> Nat]]
    /\ calls \in 0 .. MaxCalls
    /\ pc \in [Request -> PC]
    /\ target \in [Request -> Session \cup {"none"}]
    /\ batch \in [Request -> SUBSET Message]
    /\ left \in [Request -> SUBSET Message]
    /\ seen \in [Request -> Status]

\* However a call is retried inside the server, and whatever other calls write
\* or replace meanwhile, it stores each of its messages once at most: a message
\* is there no more often than the client has sent it (append_messages,
\* _do_idempotent_append, checkpoint, recover_orphaned_messages).  A turn that
\* the client sends again, or recovers twice at once, may well be there twice.
Copies(s, m) == {i \in DOMAIN session[s].messages : session[s].messages[i] = m}
OncePerCall ==
    \A s \in Session : \A m \in Message : Cardinality(Copies(s, m)) <= sent[s][m]

\* A session that ended without a failure has a summary of the conversation as
\* it stands: of its most recent messages, or of its first and last question if
\* the LLM gave none.  An append lands before the ending write, hence in what
\* the summary was made of, or not at all (process_end, _do_append).
SummaryComplete ==
    \A s \in Session :
        session[s].status = "ended" /\ session[s].reason = "none" =>
            session[s].summed /\ session[s].of \in Summaries(session[s].messages)

\* What a client was told is persisted is in the document, whatever ended
\* the session meanwhile (append_messages, recover_orphaned_messages).
AckedStored ==
    \A s \in Session : Exists(s) => acked[s] \subseteq Stored(s)

\* An ended session has a summary or says why it has none, whichever of
\* handler, cleanup, except clause or sweep ended it (process_end).
EndedAccounted ==
    \A s \in Session :
        session[s].status = "ended" =>
            session[s].summed \/ session[s].reason # "none"

\* No session stays in ending, even if its handler died (timeout_sweep).
EndingEnds == \A s \in Session : Stuck(s) ~> ~Stuck(s)

\* transition_status: every transition but active to ending and ending to
\* ended is rejected, so an ended session stays ended.
EndedIsFinal ==
    [][\A s \in Session :
          session[s].status = "ended" =>
              session'[s].status \in {"ended", "gone"}]_vars

=============================================================================
