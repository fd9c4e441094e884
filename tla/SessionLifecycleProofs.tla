------------------------ MODULE SessionLifecycleProofs ------------------------
(***************************************************************************)
(* Proofs about SessionLifecycle for every set of sessions and requests    *)
(* and every bound: the type invariant, the client's account of its        *)
(* messages, and the three promises of the stored transcript (what is      *)
(* acknowledged is stored, a summary is of the list as it stays, no call   *)
(* stores a message of its own twice).                                     *)
(*                                                                         *)
(* DocSteps lists what one step may do to one document, OwnStep says which *)
(* step moves a request; each invariant after the type invariant follows   *)
(* from these two and from the action that moved the request.              *)
(***************************************************************************)
EXTENDS SessionLifecycle, FiniteSetTheorems, SequenceTheorems, TLAPS

LocalType ==
    /\ pc \in [Request -> PC]
    /\ target \in [Request -> Session \cup {"none"}]
    /\ batch \in [Request -> SUBSET Message]
    /\ left \in [Request -> SUBSET Message]
    /\ seen \in [Request -> Status]

ClientType ==
    /\ typed \in [Session -> 0 .. MaxTurns]
    /\ acked \in [Session -> SUBSET Message]
    /\ sent \in [Session -> [Message -> Nat]]
    /\ calls \in 0 .. MaxCalls

SessionType == session \in [Session -> SessionDoc]

LEMMA TypeParts == TypeOK <=> SessionType /\ ClientType /\ LocalType
BY DEF TypeOK, SessionType, ClientType, LocalType

-----------------------------------------------------------------------------
(* Documents.                                                              *)

\* A listing of S is a list of messages, with exactly the members of S.
LEMMA ListingType ==
    ASSUME NEW S \in SUBSET Message, NEW q \in Listings(S)
    PROVE  /\ q \in Seq(Message)
           /\ ToSet(q) = S
           /\ IsInjective(q)
<1>1. IsFiniteSet(Message) /\ Message \subseteq Int
  BY BoundAssumption, FS_Interval DEF Message
<1>2. Cardinality(S) \in Nat
  BY <1>1, FS_Subset, FS_CardinalityType
<1>3. /\ q \in [1 .. Cardinality(S) -> S] /\ ToSet(q) = S
      /\ \A i, j \in DOMAIN q : i < j => q[i] < q[j]
  BY DEF Listings
<1>4. q \in Seq(Message)
  BY <1>2, <1>3
<1>5. DOMAIN q \subseteq Int /\ \A i \in DOMAIN q : q[i] \in Int
  <2>1. DOMAIN q = 1 .. Cardinality(S) /\ \A i \in DOMAIN q : q[i] \in Message
    BY <1>3
  <2>2. DOMAIN q \subseteq Int
    BY <1>2, <2>1
  <2> QED
    BY <1>1, <2>1, <2>2, Zenon
<1>6. IsInjective(q)
  BY <1>3, <1>5 DEF IsInjective
<1> QED
  BY <1>3, <1>4, <1>6

\* Two lists one after the other hold what either holds.
LEMMA JoinedSet ==
    ASSUME NEW ms \in Seq(Message), NEW q \in Seq(Message)
    PROVE  ToSet(ms \o q) = ToSet(ms) \cup ToSet(q)
<1>1. \A i \in 1 .. Len(q) : (ms \o q)[Len(ms) + i] = q[i]
  OBVIOUS
<1>2. \A i \in 1 .. Len(ms) : (ms \o q)[i] = ms[i]
  OBVIOUS
<1>3. /\ DOMAIN (ms \o q) = 1 .. Len(ms) + Len(q)
      /\ DOMAIN ms = 1 .. Len(ms) /\ DOMAIN q = 1 .. Len(q)
      /\ Len(ms) \in Nat /\ Len(q) \in Nat
  OBVIOUS
<1>4. \A i \in 1 .. Len(ms) + Len(q) : i \in 1 .. Len(ms) \/
          (i - Len(ms) \in 1 .. Len(q) /\ i = Len(ms) + (i - Len(ms)))
  BY <1>3
<1>5. \A i \in 1 .. Len(q) : Len(ms) + i \in 1 .. Len(ms) + Len(q)
  BY <1>3
<1>6. 1 .. Len(ms) \subseteq 1 .. Len(ms) + Len(q)
  BY <1>3
<1>7. ToSet(ms \o q) \subseteq ToSet(ms) \cup ToSet(q)
  BY <1>1, <1>2, <1>3, <1>4 DEF ToSet
<1>8. ToSet(ms) \cup ToSet(q) \subseteq ToSet(ms \o q)
  BY <1>1, <1>2, <1>3, <1>5, <1>6 DEF ToSet
<1> QED
  BY <1>7, <1>8

\* What $push appends is added to what is stored.
LEMMA PushedType ==
    ASSUME NEW doc \in SessionDoc, NEW q \in Seq(Message)
    PROVE  /\ Pushed(doc, q) \in SessionDoc
           /\ ToSet(Pushed(doc, q).messages) = ToSet(doc.messages) \cup ToSet(q)
           /\ Pushed(doc, q).status = doc.status
           /\ Pushed(doc, q).summed = doc.summed
           /\ Pushed(doc, q).of = doc.of
           /\ Pushed(doc, q).reason = doc.reason
           /\ Pushed(doc, q).messages = doc.messages \o q
<1>1. doc.messages \in Seq(Message)
  BY DEF SessionDoc
<1> DEFINE ms == doc.messages
<1> HIDE DEF ms
<1>2. ms \in Seq(Message)
  BY <1>1 DEF ms
<1>3. ms \o q \in Seq(Message)
  BY <1>2
<1>4. ToSet(ms \o q) = ToSet(ms) \cup ToSet(q)
  BY <1>2, JoinedSet
<1>5. Pushed(doc, q) = [doc EXCEPT !.messages = ms \o q, !.old = FALSE]
  BY DEF Pushed, ms
<1> QED
  BY <1>3, <1>4, <1>5, <1>1 DEF SessionDoc, ms

LEMMA EndingType ==
    ASSUME NEW doc \in SessionDoc
    PROVE  Ending(doc) \in SessionDoc
BY DEF Ending, SessionDoc, Status

LEMMA ForcedEndType ==
    ASSUME NEW doc \in SessionDoc, NEW r \in Reason
    PROVE  ForcedEnd(doc, r) \in SessionDoc
BY DEF ForcedEnd, SessionDoc, Status

LEMMA FreshType == {Fresh, Unborn, Deleted} \subseteq SessionDoc
<1>1. <<>> \in Seq(Message)
  OBVIOUS
<1>2. Fresh \in SessionDoc
  BY <1>1 DEF Fresh, SessionDoc, Status, Reason
<1>3. ASSUME NEW doc \in SessionDoc, NEW st \in Status
      PROVE  [doc EXCEPT !.status = st] \in SessionDoc
  BY DEF SessionDoc
<1>4. {"none", "gone"} \subseteq Status
  BY DEF Status
<1> QED
  BY <1>2, <1>3, <1>4 DEF Unborn, Deleted

\* The messages of a document are messages.
LEMMA StoredType ==
    ASSUME SessionType, NEW s \in Session
    PROVE  Stored(s) \subseteq Message
BY DEF SessionType, SessionDoc, Stored, ToSet

\* What a summary speaks of is in the session.
LEMMA SummariesType ==
    ASSUME NEW q \in Seq(Message)
    PROVE  Summaries(q) \subseteq SUBSET Message
<1>1. ToSet(q) \subseteq Message
  BY DEF ToSet
<1>2. Excerpt(q) \subseteq Message /\ UserMessages(q) \subseteq Message
  BY <1>1 DEF Excerpt, UserMessages
<1>3. Fallbacks(q) \subseteq SUBSET Message
  BY <1>2 DEF Fallbacks
<1> QED
  BY <1>2, <1>3 DEF Summaries

LEMMA TurnType ==
    ASSUME NEW k \in 1 .. MaxTurns
    PROVE  Turn(k) \subseteq Message /\ Turns(k) \subseteq Message
           /\ Turn(k) \subseteq Turns(k)
BY BoundAssumption DEF Turn, Turns, Message

-----------------------------------------------------------------------------
(* Locals, and what the answers change.                                    *)

LEMMA GotoType ==
    ASSUME pc \in [Request -> PC], NEW p \in Request, NEW at \in PC, Goto(p, at)
    PROVE  pc' \in [Request -> PC]
BY DEF Goto

LEMMA DropType ==
    ASSUME LocalType, NEW p \in Request, Drop(p)
    PROVE  LocalType'
<1>1. "idle" \in PC /\ "none" \in Status
  BY DEF PC, Status
<1> QED
  BY <1>1 DEF LocalType, Drop

LEMMA RefuseType ==
    ASSUME LocalType, ClientType, NEW p \in Request, Refuse(p)
    PROVE  LocalType' /\ ClientType'
BY DropType DEF Refuse, client, ClientType

LEMMA AnswerType ==
    ASSUME LocalType, ClientType, NEW p \in Request, Answer(p)
    PROVE  LocalType' /\ ClientType'
BY DropType DEF Answer, ClientType, LocalType

LEMMA CarryType ==
    ASSUME LocalType, ClientType, NEW p \in Request, NEW s \in Session,
           NEW messages \in SUBSET Message, Carry(p, s, messages)
    PROVE  /\ batch' \in [Request -> SUBSET Message]
           /\ sent' \in [Session -> [Message -> Nat]]
<1>1. [m \in Message |-> IF m \in messages THEN sent[s][m] + 1 ELSE sent[s][m]]
          \in [Message -> Nat]
  BY DEF ClientType
<1> QED
  BY <1>1 DEF Carry, LocalType, ClientType

LEMMA UpdateType ==
    ASSUME SessionType, NEW p \in Request, NEW doc \in SessionDoc, Update(p, doc)
    PROVE  SessionType'
BY DEF SessionType, Update

\* A handler past its first await knows an inserted session.
Placed ==
    \A p \in Request :
        pc[p] \notin {"idle", "insert"} =>
            target[p] \in Session /\ session[target[p]].status # "none"

\* Once inserted, a session is never forgotten (its id is not reused).
Remembered ==
    \A s \in Session :
        session[s].status # "none" => session'[s].status # "none"

TypeInv == TypeOK /\ Placed

\* What a handler past its first await does to the locals and the client.
Moves(p) ==
    \/ Refuse(p)
    \/ Answer(p)
    \/ /\ \E at \in PC : Goto(p, at)
       /\ left' \in [Request -> SUBSET Message]
       /\ UNCHANGED <<client, target, batch, seen>>

LEMMA Lookup ==
    ASSUME TypeInv, NEW p \in Request, pc[p] \notin {"idle", "insert"}
    PROVE  /\ target[p] \in Session
           /\ Doc(p) \in SessionDoc
           /\ Doc(p).status # "none"
           /\ batch[p] \in SUBSET Message
           /\ left[p] \in SUBSET Message
           /\ Stored(target[p]) \subseteq Message
<1>1. target[p] \in Session /\ session[target[p]].status # "none"
  BY DEF TypeInv, Placed
<1>2. SessionType
  BY DEF TypeInv, TypeOK, SessionType
<1> QED
  BY <1>1, <1>2, StoredType DEF TypeInv, TypeOK, Doc

LEMMA MoveStep ==
    ASSUME TypeInv, NEW p \in Request, pc[p] \notin {"idle", "insert"},
           Moves(p), SessionType', Remembered
    PROVE  TypeInv'
<1>1. SessionType /\ ClientType /\ LocalType
  BY TypeParts DEF TypeInv
<1>2. CASE Refuse(p) \/ Answer(p)
  <2>1. ClientType' /\ LocalType' /\ Drop(p)
    BY <1>1, <1>2, RefuseType, AnswerType DEF Refuse, Answer
  <2>2. Placed'
    BY <2>1, <1>1 DEF Drop, TypeInv, Placed, Remembered, LocalType
  <2> QED
    BY <2>1, <2>2, TypeParts DEF TypeInv, TypeOK, SessionType, ClientType, LocalType
<1>3. ASSUME NEW at \in PC, Goto(p, at), left' \in [Request -> SUBSET Message],
             UNCHANGED <<client, target, batch, seen>>
      PROVE  TypeInv'
  <2>1. pc' \in [Request -> PC]
    BY <1>1, <1>3, GotoType DEF LocalType
  <2>2. ClientType' /\ LocalType'
    BY <1>1, <1>3, <2>1 DEF ClientType, LocalType, client
  <2>3. Placed'
    BY <1>1, <1>3 DEF Goto, TypeInv, Placed, Remembered, LocalType
  <2> QED
    BY <2>2, <2>3 DEF TypeInv, TypeOK, SessionType, ClientType, LocalType
<1> QED
  BY <1>2, <1>3 DEF Moves

\* A handler's write keeps the collection typed and forgets no session.
LEMMA WriteStep ==
    ASSUME TypeInv, NEW p \in Request, pc[p] \notin {"idle", "insert"},
           NEW doc \in SessionDoc, doc.status # "none", Update(p, doc), Moves(p)
    PROVE  TypeInv' /\ Remembered
<1>1. SessionType
  BY DEF TypeInv, TypeOK, SessionType
<1>2. SessionType' /\ Remembered
  BY <1>1, UpdateType DEF Update, Remembered, SessionType
<1> QED
  BY <1>2, MoveStep

\* A handler's read leaves the collection alone.
LEMMA ReadStep ==
    ASSUME TypeInv, NEW p \in Request, pc[p] \notin {"idle", "insert"},
           UNCHANGED session, Moves(p)
    PROVE  TypeInv' /\ Remembered
<1>1. SessionType' /\ Remembered
  BY DEF TypeInv, TypeOK, SessionType, Remembered
<1> QED
  BY <1>1, MoveStep

\* A client call of the kinds that only read.
LEMMA CallStep ==
    ASSUME TypeInv, NEW p \in Request, NEW s \in Session, NEW op, Call(p, op, s),
           NEW at \in PC, Goto(p, at), UNCHANGED <<session, acked>>,
           typed' \in [Session -> 0 .. MaxTurns],
           sent' \in [Session -> [Message -> Nat]],
           batch' \in [Request -> SUBSET Message],
           left' \in [Request -> SUBSET Message],
           seen' \in [Request -> Status]
    PROVE  TypeInv' /\ Remembered
<1>1. SessionType /\ ClientType /\ LocalType
  BY TypeParts DEF TypeInv
<1>2. calls' \in 0 .. MaxCalls
  BY <1>1, BoundAssumption DEF Call, ClientType
<1>3. pc' \in [Request -> PC]
  BY <1>1, GotoType DEF LocalType
<1>4. target' \in [Request -> Session \cup {"none"}]
  BY <1>1 DEF Call, LocalType
<1>5. Remembered
  BY DEF Remembered
<1>6. session[s].status # "none"
  BY DEF Call, Exists
<1>7. Placed'
  BY <1>1, <1>6 DEF Call, Goto, TypeInv, Placed, LocalType
<1> QED
  BY <1>1, <1>2, <1>3, <1>4, <1>5, <1>7
     DEF TypeInv, TypeOK, SessionType, ClientType

-----------------------------------------------------------------------------
(* The type invariant.                                                     *)

LEMMA TypeInit == Init => TypeInv
<1>1. {Unborn} \subseteq SessionDoc
  BY FreshType
<1>2. "idle" \in PC /\ "none" \in Status /\ 0 \in 0 .. MaxTurns /\ 0 \in 0 .. MaxCalls
  BY BoundAssumption DEF PC, Status
<1>3. [m \in Message |-> 0] \in [Message -> Nat]
  OBVIOUS
<1> QED
  BY <1>1, <1>2, <1>3 DEF Init, TypeInv, TypeOK, Placed

\* Creating and appending.
LEMMA TypeAppend ==
    ASSUME TypeInv, NEW p \in Request,
           \/ Cleanup(p) \/ Insert(p) \/ BeginAppend(p) \/ Resend(p)
           \/ Push(p) \/ Retry(p) \/ RetryCheck(p) \/ LostReply(p)
    PROVE  TypeInv' /\ Remembered
<1>0. SessionType /\ ClientType /\ LocalType
  BY TypeParts DEF TypeInv
<1>1. CASE Cleanup(p)
  <2>1. \A s \in Session :
            ForcedEnd(session[s], "cleanup") \in SessionDoc
    BY <1>0, ForcedEndType DEF SessionType, Reason
  <2>2. \A s \in Session : ForcedEnd(session[s], "cleanup").status # "none"
    BY <1>0 DEF ForcedEnd, SessionType, SessionDoc
  <2>3. SessionType' /\ Remembered
    BY <1>0, <1>1, <2>1, <2>2 DEF Cleanup, SessionType, Remembered
  <2>4. calls' \in 0 .. MaxCalls
    BY <1>0, <1>1, BoundAssumption DEF Cleanup, ClientType
  <2>5. pc' \in [Request -> PC]
    BY <1>0, <1>1 DEF Cleanup, Goto, LocalType, PC
  <2>6. Placed'
    BY <1>0, <1>1, <2>3 DEF Cleanup, Goto, LocalType, TypeInv, Placed, Remembered
  <2> QED
    BY <1>0, <1>1, <2>3, <2>4, <2>5, <2>6
       DEF Cleanup, TypeInv, TypeOK, SessionType, ClientType, LocalType
<1>2. CASE Insert(p)
  <2>1. SessionType'
    BY <1>0, <1>2, FreshType DEF Insert, SessionType
  <2>2. Remembered
    BY <1>0, <1>2 DEF Insert, SessionType, Remembered, Fresh
  <2>3. ClientType' /\ LocalType' /\ Drop(p)
    BY <1>0, <1>2, RefuseType DEF Insert, Refuse
  <2>4. Placed'
    BY <1>0, <2>2, <2>3 DEF Drop, TypeInv, Placed, Remembered, LocalType
  <2> QED
    BY <2>1, <2>2, <2>3, <2>4, TypeParts
       DEF TypeInv, TypeOK, SessionType, ClientType, LocalType
<1>3. ASSUME NEW s \in Session, NEW op, NEW k \in 1 .. MaxTurns, Call(p, op, s),
             AcceptTurn(p, s, k), typed' \in [Session -> 0 .. MaxTurns]
      PROVE  TypeInv' /\ Remembered
  <2>1. Turn(k) \in SUBSET Message
    BY TurnType
  <2>2. /\ batch' \in [Request -> SUBSET Message]
        /\ left' \in [Request -> SUBSET Message]
        /\ seen' \in [Request -> Status]
        /\ sent' \in [Session -> [Message -> Nat]]
    BY <1>0, <1>3, <2>1, CarryType DEF AcceptTurn, LocalType
  <2>3. "push" \in PC /\ Goto(p, "push") /\ UNCHANGED <<session, acked>>
    BY <1>3 DEF AcceptTurn, PC
  <2> QED
    BY <1>3, <2>2, <2>3, CallStep
<1>4. CASE BeginAppend(p)
  <2>1. PICK s \in Session :
            /\ Call(p, "append", s)
            /\ typed[s] < MaxTurns
            /\ typed' = [typed EXCEPT ![s] = @ + 1]
            /\ AcceptTurn(p, s, typed[s] + 1)
    BY <1>4 DEF BeginAppend
  <2>2. typed[s] \in 0 .. MaxTurns /\ MaxTurns \in Nat
    BY <1>0, BoundAssumption DEF ClientType
  <2>3. typed[s] + 1 \in 1 .. MaxTurns
    BY <2>1, <2>2
  <2>4. typed' \in [Session -> 0 .. MaxTurns]
    BY <1>0, <2>1, <2>2, <2>3 DEF ClientType
  <2> QED
    BY <1>3, <2>1, <2>3, <2>4
<1>5. CASE Resend(p)
  <2>0. PICK s \in Session : \E k \in 1 .. typed[s] :
            Call(p, "resend", s) /\ AcceptTurn(p, s, k) /\ typed' = typed
    BY <1>5 DEF Resend
  <2>1. PICK k \in 1 .. typed[s] :
            Call(p, "resend", s) /\ AcceptTurn(p, s, k) /\ typed' = typed
    BY <2>0
  <2>2. k \in 1 .. MaxTurns
    BY <1>0, BoundAssumption DEF ClientType
  <2> QED
    BY <1>0, <1>3, <2>1, <2>2 DEF ClientType
<1>6. ASSUME pc[p] \in {"push", "retry", "retryCheck"}
      PROVE  /\ pc[p] \notin {"idle", "insert"}
             /\ \A m \in left[p] : <<m>> \in Seq(Message)
             /\ \A q \in Seq(Message) : Pushed(Doc(p), q) \in SessionDoc
             /\ \A q \in Seq(Message) : Pushed(Doc(p), q).status # "none"
             /\ \A q \in Listings(batch[p]) : q \in Seq(Message)
  BY <1>6, Lookup, PushedType, ListingType
<1>7. {"retry", "retryCheck"} \subseteq PC
  BY DEF PC
<1>8. ASSUME NEW m \in left[p], Advance(p, m)
      PROVE  Moves(p)
  BY <1>0, <1>7, <1>8 DEF Advance, Moves, LocalType
<1>9. CASE Push(p)
  <2>1. CASE Answer(p)
    BY <1>6, <1>9, <2>1, WriteStep, ReadStep DEF Push, Moves
  <2>2. CASE Goto(p, "retry") /\ UNCHANGED <<session, client, target, batch, left, seen>>
    <3>1. Moves(p)
      BY <1>0, <1>7, <2>2 DEF Moves, LocalType
    <3> QED
      BY <1>6, <1>9, <2>2, <3>1, ReadStep DEF Push
  <2> QED
    BY <1>9, <2>1, <2>2 DEF Push
<1>10. CASE Retry(p)
  <2>1. PICK m \in left[p] :
           \/ Update(p, Pushed(Doc(p), <<m>>)) /\ Advance(p, m)
           \/ /\ Goto(p, "retryCheck")
              /\ UNCHANGED <<session, client, target, batch, left, seen>>
    BY <1>10 DEF Retry
  <2>2. CASE Update(p, Pushed(Doc(p), <<m>>)) /\ Advance(p, m)
    BY <1>6, <1>8, <1>10, <2>2, WriteStep DEF Retry
  <2>3. CASE /\ Goto(p, "retryCheck")
             /\ UNCHANGED <<session, client, target, batch, left, seen>>
    <3>1. Moves(p)
      BY <1>0, <1>7, <2>3 DEF Moves, LocalType
    <3> QED
      BY <1>6, <1>10, <2>3, <3>1, ReadStep DEF Retry
  <2> QED
    BY <2>1, <2>2, <2>3
<1>11. CASE RetryCheck(p)
  <2>1. Moves(p)
    BY <1>8, <1>11 DEF RetryCheck, Moves
  <2> QED
    BY <1>6, <1>11, <2>1, ReadStep DEF RetryCheck
<1>12. CASE LostReply(p)
  <2>1. CASE pc[p] = "push"
    <3>1. Moves(p)
      BY <1>0, <1>7, <1>12, <2>1 DEF LostReply, Moves, LocalType
    <3> QED
      BY <1>6, <1>12, <2>1, <3>1, WriteStep DEF LostReply
  <2>2. CASE pc[p] = "retry"
    <3>1. Moves(p)
      BY <1>12, <2>2 DEF LostReply, Moves
    <3> QED
      BY <1>6, <1>12, <2>2, <3>1, WriteStep DEF LostReply
  <2> QED
    BY <1>12, <2>1, <2>2 DEF LostReply
<1> QED
  BY <1>1, <1>2, <1>4, <1>5, <1>9, <1>10, <1>11, <1>12

\* Checkpoint and the end of a session.
LEMMA TypeEnd ==
    ASSUME TypeInv, NEW p \in Request,
           \/ BeginCheckpoint(p) \/ Replace(p) \/ BeginEnd(p) \/ EndWrite(p)
           \/ Transcript(p) \/ Persist(p) \/ EndedRead(p) \/ EndedWrite(p)
           \/ Salvage(p) \/ Result(p) \/ ForceEnd(p)
    PROVE  TypeInv' /\ Remembered
<1>0. SessionType /\ ClientType /\ LocalType
  BY TypeParts DEF TypeInv
<1>1. Pipeline \cup {"replace", "endWrite"} \subseteq PC
  BY DEF PC
<1>2. ASSUME NEW at \in PC, Goto(p, at), UNCHANGED <<client, target, batch, left, seen>>
      PROVE  Moves(p)
  BY <1>0, <1>2 DEF Moves, LocalType
<1>3. CASE BeginCheckpoint(p)
  <2>1. PICK s \in Session :
            /\ Call(p, "checkpoint", s)
            /\ typed[s] > 0
            /\ Carry(p, s, Turns(typed[s]))
            /\ Goto(p, "replace")
            /\ UNCHANGED <<session, typed, acked, left, seen>>
    BY <1>3 DEF BeginCheckpoint
  <2>2. typed[s] \in 1 .. MaxTurns
    BY <1>0, <2>1, BoundAssumption DEF ClientType
  <2>3. batch' \in [Request -> SUBSET Message] /\ sent' \in [Session -> [Message -> Nat]]
    BY <1>0, <2>1, <2>2, TurnType, CarryType
  <2> QED
    BY <1>0, <1>1, <2>1, <2>3, CallStep DEF ClientType, LocalType
<1>4. CASE Replace(p)
  <2>1. PICK q \in Listings(batch[p]) :
            Update(p, [Doc(p) EXCEPT !.messages = q, !.old = FALSE])
    BY <1>4 DEF Replace
  <2>2. q \in Seq(Message) /\ Doc(p) \in SessionDoc /\ Doc(p).status # "none"
    BY <1>4, Lookup, ListingType DEF Replace
  <2>3. /\ [Doc(p) EXCEPT !.messages = q, !.old = FALSE] \in SessionDoc
        /\ [Doc(p) EXCEPT !.messages = q, !.old = FALSE].status # "none"
    BY <2>2 DEF SessionDoc
  <2> QED
    BY <1>4, <2>1, <2>3, WriteStep DEF Replace, Moves
<1>5. CASE BeginEnd(p)
  <2>1. PICK s \in Session :
            /\ Call(p, "end", s)
            /\ Goto(p, "endWrite")
            /\ UNCHANGED <<session, typed, acked, sent, batch, left, seen>>
    BY <1>5 DEF BeginEnd
  <2> QED
    BY <1>0, <1>1, <2>1, CallStep DEF ClientType, LocalType
<1>6. ASSUME pc[p] \in {"endWrite", "persist", "endedWrite", "salvage", "force"}
      PROVE  /\ pc[p] \notin {"idle", "insert"}
             /\ Ending(Doc(p)) \in SessionDoc /\ Ending(Doc(p)).status # "none"
             /\ Summed(p) \in SessionDoc /\ Summed(p).status # "none"
             /\ ForcedEnd(Doc(p), "failed") \in SessionDoc
             /\ ForcedEnd(Doc(p), "failed").status # "none"
             /\ [Doc(p) EXCEPT !.status = "ended", !.old = FALSE] \in SessionDoc
             /\ [Doc(p) EXCEPT !.status = "ended", !.old = FALSE].status # "none"
  <2>1. Doc(p) \in SessionDoc /\ Doc(p).status # "none" /\ left[p] \in SUBSET Message
    BY <1>6, Lookup
  <2>2. Ending(Doc(p)) \in SessionDoc /\ Ending(Doc(p)).status # "none"
    BY <2>1, EndingType DEF Ending, SessionDoc
  <2>3. Summed(p) \in SessionDoc /\ Summed(p).status # "none"
    BY <2>1 DEF Summed, SessionDoc
  <2>4. /\ ForcedEnd(Doc(p), "failed") \in SessionDoc
        /\ ForcedEnd(Doc(p), "failed").status # "none"
    BY <2>1, ForcedEndType DEF ForcedEnd, SessionDoc, Reason
  <2>5. /\ [Doc(p) EXCEPT !.status = "ended", !.old = FALSE] \in SessionDoc
        /\ [Doc(p) EXCEPT !.status = "ended", !.old = FALSE].status # "none"
    BY <2>1 DEF SessionDoc, Status
  <2> QED
    BY <1>6, <2>2, <2>3, <2>4, <2>5
<1>7. CASE EndWrite(p)
  <2>1. Moves(p)
    BY <1>1, <1>2, <1>7 DEF EndWrite, Moves, Pipeline
  <2> QED
    BY <1>6, <1>7, <2>1, WriteStep DEF EndWrite
<1>8. CASE Transcript(p)
  <2>1. Summaries(Doc(p).messages) \subseteq SUBSET Message
    BY <1>8, Lookup, SummariesType DEF Transcript, SessionDoc
  <2>2. left' \in [Request -> SUBSET Message]
    BY <1>0, <1>8, <2>1 DEF Transcript, LocalType
  <2>3. Moves(p)
    BY <1>1, <1>8, <2>2 DEF Transcript, Moves, Pipeline
  <2> QED
    BY <1>8, <2>3, ReadStep DEF Transcript
<1>9. CASE Persist(p)
  <2>1. Moves(p)
    BY <1>1, <1>2, <1>9 DEF Persist, Pipeline
  <2> QED
    BY <1>6, <1>9, <2>1, WriteStep DEF Persist
<1>10. CASE EndedRead(p)
  <2>1. Moves(p)
    BY <1>1, <1>2, <1>10 DEF EndedRead, Pipeline
  <2> QED
    BY <1>10, <2>1, ReadStep DEF EndedRead
<1>11. CASE EndedWrite(p)
  <2>1. Moves(p)
    BY <1>1, <1>2, <1>11 DEF EndedWrite, Pipeline
  <2> QED
    BY <1>6, <1>11, <2>1, WriteStep DEF EndedWrite
<1>12. CASE Salvage(p)
  <2>1. Moves(p)
    BY <1>1, <1>2, <1>12 DEF Salvage, Pipeline
  <2> QED
    BY <1>6, <1>12, <2>1, WriteStep DEF Salvage
<1>13. CASE Result(p)
  <2>1. Moves(p)
    BY <1>1, <1>2, <1>13 DEF Result, Moves, Pipeline
  <2> QED
    BY <1>13, <2>1, ReadStep DEF Result
<1>14. CASE ForceEnd(p)
  <2>1. Moves(p)
    BY <1>14 DEF ForceEnd, Moves
  <2> QED
    BY <1>6, <1>14, <2>1, WriteStep DEF ForceEnd
<1> QED
  BY <1>3, <1>4, <1>5, <1>7, <1>8, <1>9, <1>10, <1>11, <1>12, <1>13, <1>14

\* Recovery and failing calls.
LEMMA TypeRecover ==
    ASSUME TypeInv, NEW p \in Request,
           \/ BeginRecover(p) \/ RecoverRead(p) \/ RecoverPush(p)
           \/ RecoverCheck(p) \/ RecoverWrite(p) \/ CallFails(p)
    PROVE  TypeInv' /\ Remembered
<1>0. SessionType /\ ClientType /\ LocalType
  BY TypeParts DEF TypeInv
<1>1. {"recoverRead", "recoverPush", "recoverCheck", "recoverWrite",
       "transcript", "force", "salvage", "retry"} \subseteq PC
  BY DEF PC, Pipeline
<1>2. ASSUME NEW at \in PC, Goto(p, at), UNCHANGED <<client, target, batch, left, seen>>
      PROVE  Moves(p)
  BY <1>0, <1>2 DEF Moves, LocalType
<1>3. CASE BeginRecover(p)
  <2>1. PICK s \in Session : \E ks \in SUBSET (1 .. typed[s]) :
            /\ Call(p, "recover", s)
            /\ Carry(p, s, UNION {Turn(k) : k \in ks})
            /\ seen' = [seen EXCEPT ![p] = session[s].status]
            /\ Goto(p, "recoverRead")
            /\ UNCHANGED <<session, typed, acked, left>>
    BY <1>3 DEF BeginRecover
  <2>2. PICK ks \in SUBSET (1 .. typed[s]) :
            /\ Call(p, "recover", s)
            /\ Carry(p, s, UNION {Turn(k) : k \in ks})
            /\ seen' = [seen EXCEPT ![p] = session[s].status]
            /\ Goto(p, "recoverRead")
            /\ UNCHANGED <<session, typed, acked, left>>
    BY <2>1
  <2>3. ks \subseteq 1 .. MaxTurns
    BY <1>0, BoundAssumption DEF ClientType
  <2>4. UNION {Turn(k) : k \in ks} \subseteq Message
    BY <2>3, TurnType
  <2>5. /\ batch' \in [Request -> SUBSET Message]
        /\ sent' \in [Session -> [Message -> Nat]]
        /\ session[s].status \in Status
    BY <1>0, <2>2, <2>4, CarryType DEF SessionType, SessionDoc
  <2> QED
    BY <1>0, <1>1, <2>2, <2>5, CallStep DEF ClientType, LocalType
<1>4. ASSUME AfterRecovery(p)
      PROVE  Moves(p)
  <2>1. {} \in SUBSET Message
    OBVIOUS
  <2> QED
    BY <1>0, <1>1, <1>4, <2>1 DEF AfterRecovery, Moves, LocalType
<1>5. CASE RecoverRead(p)
  <2>1. Recoverable(p) \in SUBSET Message
    BY <1>5, Lookup DEF RecoverRead, Recoverable
  <2>2. Moves(p)
    BY <1>0, <1>1, <1>4, <1>5, <2>1 DEF RecoverRead, Moves, LocalType
  <2> QED
    BY <1>5, <2>2, ReadStep DEF RecoverRead
<1>6. CASE RecoverPush(p)
  <2>1. PICK q \in Listings(left[p]) : Update(p, Pushed(Doc(p), q))
    BY <1>6 DEF RecoverPush
  <2>2. Pushed(Doc(p), q) \in SessionDoc /\ Pushed(Doc(p), q).status # "none"
    BY <1>6, Lookup, ListingType, PushedType DEF RecoverPush
  <2> QED
    BY <1>4, <1>6, <2>1, <2>2, WriteStep DEF RecoverPush
<1>7. CASE RecoverCheck(p)
  <2>1. Moves(p)
    BY <1>1, <1>2, <1>7 DEF RecoverCheck
  <2> QED
    BY <1>7, <2>1, ReadStep DEF RecoverCheck
<1>8. CASE RecoverWrite(p)
  <2>1. Ending(Doc(p)) \in SessionDoc /\ Ending(Doc(p)).status # "none"
    BY <1>8, Lookup, EndingType DEF RecoverWrite, Ending, SessionDoc
  <2>2. Moves(p)
    BY <1>1, <1>2, <1>8 DEF RecoverWrite
  <2> QED
    BY <1>8, <2>1, <2>2, WriteStep DEF RecoverWrite
<1>9. CASE CallFails(p)
  <2>1. CASE pc[p] = "insert"
    <3>1. Drop(p) /\ Refuse(p)
      BY <1>9, <2>1 DEF CallFails, Catcher, Refuse
    <3>2. ClientType' /\ LocalType'
      BY <1>0, <3>1, RefuseType
    <3>3. SessionType' /\ Remembered
      BY <1>0, <1>9 DEF CallFails, SessionType, Remembered
    <3>4. Placed'
      BY <1>0, <3>1, <3>3 DEF Drop, TypeInv, Placed, Remembered, LocalType
    <3> QED
      BY <3>2, <3>3, <3>4 DEF TypeInv, TypeOK, SessionType, ClientType, LocalType
  <2>2. CASE pc[p] # "insert"
    <3>1. Catcher(pc[p]) # "idle" => Catcher(pc[p]) \in PC
      BY <1>1 DEF Catcher
    <3>2. Moves(p)
      BY <1>2, <1>9, <3>1 DEF CallFails, Moves
    <3> QED
      BY <1>9, <2>2, <3>2, ReadStep DEF CallFails
  <2> QED
    BY <2>1, <2>2
<1> QED
  BY <1>3, <1>5, <1>6, <1>7, <1>8, <1>9

\* What happens outside the handlers.
LEMMA TypeOutside ==
    ASSUME TypeInv, (\E s \in Session : Delete(s)) \/ Restart \/ TimePasses \/ Sweep
    PROVE  TypeInv' /\ Remembered
<1>0. SessionType /\ ClientType /\ LocalType
  BY TypeParts DEF TypeInv
<1>1. ASSUME SessionType', Remembered,
             UNCHANGED <<client, pc, target, batch, left, seen>>
      PROVE  TypeInv' /\ Remembered
  BY <1>0, <1>1 DEF TypeInv, TypeOK, Placed, Remembered, client,
     SessionType, ClientType, LocalType
<1>2. CASE \E s \in Session : Delete(s)
  <2>1. PICK s \in Session : Delete(s)
    BY <1>2
  <2>2. SessionType'
    BY <1>0, <2>1, FreshType DEF Delete, SessionType
  <2>3. Remembered
    BY <1>0, <2>1 DEF Delete, SessionType, Remembered, Deleted, Fresh
  <2> QED
    BY <1>1, <2>1, <2>2, <2>3 DEF Delete
<1>3. CASE Restart
  <2>1. "idle" \in PC /\ "none" \in Status
    BY DEF PC, Status
  <2>2. LocalType' /\ ClientType' /\ SessionType' /\ Remembered
    BY <1>0, <1>3, <2>1
       DEF Restart, LocalType, ClientType, SessionType, client, Remembered
  <2>3. Placed'
    BY <1>3 DEF Restart, Placed
  <2> QED
    BY <2>2, <2>3 DEF TypeInv, TypeOK, SessionType, ClientType, LocalType
<1>4. CASE TimePasses
  <2>1. \A s \in Session : /\ [session[s] EXCEPT !.old = TRUE] \in SessionDoc
                           /\ [session[s] EXCEPT !.old = TRUE].status = session[s].status
    BY <1>0 DEF SessionType, SessionDoc
  <2>2. SessionType' /\ Remembered
    BY <1>0, <1>4, <2>1 DEF TimePasses, SessionType, Remembered
  <2> QED
    BY <1>1, <1>4, <2>2 DEF TimePasses
<1>5. CASE Sweep
  <2>1. \A s \in Session : /\ ForcedEnd(session[s], "timeout") \in SessionDoc
                           /\ ForcedEnd(session[s], "timeout").status # "none"
    BY <1>0, ForcedEndType DEF SessionType, Reason, ForcedEnd, SessionDoc
  <2>2. SessionType' /\ Remembered
    BY <1>0, <1>5, <2>1 DEF Sweep, SessionType, Remembered
  <2> QED
    BY <1>1, <1>5, <2>2 DEF Sweep
<1> QED
  BY <1>2, <1>3, <1>4, <1>5

LEMMA TypeStep == TypeInv /\ [Next]_vars => TypeInv' /\ Remembered
<1> SUFFICES ASSUME TypeInv, [Next]_vars PROVE TypeInv' /\ Remembered
  OBVIOUS
<1>1. CASE \E p \in Request : Begin(p) \/ Step(p) \/ LostReply(p) \/ CallFails(p)
  BY <1>1, TypeAppend, TypeEnd, TypeRecover DEF Begin, Step
<1>2. CASE (\E s \in Session : Delete(s)) \/ Restart \/ TimePasses \/ Sweep
  BY <1>2, TypeOutside
<1>3. CASE UNCHANGED vars
  BY <1>3 DEF vars, client, TypeInv, TypeOK, Placed, Remembered
<1> QED
  BY <1>1, <1>2, <1>3 DEF Next

\* Every document, local and counter has its type in every reachable state,
\* for any number of sessions, requests, calls and turns.
THEOREM SessionTypeCorrect == Spec => []TypeOK
<1>1. TypeInv => TypeOK
  BY DEF TypeInv
<1> QED
  BY <1>1, TypeInit, TypeStep, PTL DEF Spec

-----------------------------------------------------------------------------
(* What a step may do to a document.                                       *)

\* The document a write of handler p leaves.
ByHandler(p, d) ==
    \/ pc[p] \in {"endWrite", "recoverWrite"} /\ d = Ending(Doc(p))
    \/ pc[p] = "persist" /\ d = Summed(p)
    \/ /\ pc[p] = "endedWrite"
       /\ d = [Doc(p) EXCEPT !.status = "ended", !.old = FALSE]
    \/ /\ pc[p] = "push"
       /\ Pushable(Doc(p))
       /\ \E q \in Listings(batch[p]) : d = Pushed(Doc(p), q)
    \/ /\ pc[p] = "retry"
       /\ \E m \in left[p] : Missing(p, m) /\ d = Pushed(Doc(p), <<m>>)
    \/ /\ pc[p] = "recoverPush"
       /\ \E q \in Listings(left[p]) : d = Pushed(Doc(p), q)
    \/ /\ pc[p] = "replace"
       /\ \E q \in Listings(batch[p]) :
             d = [Doc(p) EXCEPT !.messages = q, !.old = FALSE]

\* What one step may do to the document of session s.
DocStep(s) ==
    \/ session'[s] = session[s]
    \/ session[s].status = "none" /\ session'[s] = Fresh
    \/ session'[s] = Deleted
    \/ Exists(s) /\ session'[s] = [session[s] EXCEPT !.old = TRUE]
    \/ Exists(s) /\ \E r \in Reason \ {"none"} : session'[s] = ForcedEnd(session[s], r)
    \/ Exists(s) /\ \E p \in Request : target[p] = s /\ ByHandler(p, session'[s])

LEMMA HandlerStep ==
    ASSUME TypeInv, NEW p \in Request, NEW d, ByHandler(p, d), Update(p, d),
           NEW s \in Session
    PROVE  DocStep(s)
<1>1. session \in [Session -> SessionDoc]
  BY DEF TypeInv, TypeOK
<1>2. CASE s = target[p] /\ Exists(s)
  <2>1. session'[s] = d
    BY <1>1, <1>2 DEF Update
  <2> QED
    BY <1>2, <2>1 DEF DocStep
<1>3. CASE ~(s = target[p] /\ Exists(s))
  BY <1>1, <1>3 DEF Update, DocStep
<1> QED
  BY <1>2, <1>3

LEMMA ForcedStep ==
    ASSUME TypeInv, NEW p \in Request, Update(p, ForcedEnd(Doc(p), "failed")),
           NEW s \in Session
    PROVE  DocStep(s)
<1>1. session \in [Session -> SessionDoc] /\ "failed" \in Reason \ {"none"}
  BY DEF TypeInv, TypeOK, Reason
<1>2. CASE s = target[p] /\ Exists(s)
  <2>1. session'[s] = ForcedEnd(session[s], "failed")
    BY <1>1, <1>2 DEF Update, Doc
  <2> QED
    BY <1>1, <1>2, <2>1 DEF DocStep
<1>3. CASE ~(s = target[p] /\ Exists(s))
  BY <1>1, <1>3 DEF Update, DocStep
<1> QED
  BY <1>2, <1>3

LEMMA DocSteps ==
    ASSUME TypeInv, [Next]_vars, NEW s \in Session
    PROVE  DocStep(s)
<1>0. session \in [Session -> SessionDoc]
  BY DEF TypeInv, TypeOK
<1>1. ASSUME NEW p \in Request, Begin(p) PROVE DocStep(s)
  <2>1. CASE Cleanup(p)
    <3>1. "cleanup" \in Reason \ {"none"}
      BY DEF Reason
    <3> QED
      BY <1>0, <2>1, <3>1 DEF Cleanup, DocStep, Exists
  <2>2. CASE UNCHANGED session
    BY <2>2 DEF DocStep
  <2> QED
    BY <1>1, <2>1, <2>2 DEF Begin, BeginAppend, Resend, AcceptTurn,
       BeginCheckpoint, BeginEnd, BeginRecover
<1>2. ASSUME NEW p \in Request, Step(p) \/ LostReply(p) \/ CallFails(p) PROVE DocStep(s)
  <2>1. CASE Insert(p)
    BY <1>0, <2>1 DEF Insert, DocStep
  <2>2. CASE UNCHANGED session
    BY <2>2 DEF DocStep
  <2>3. CASE EndWrite(p) \/ RecoverWrite(p)
    <3>1. ByHandler(p, Ending(Doc(p))) /\ Update(p, Ending(Doc(p)))
      BY <2>3 DEF EndWrite, RecoverWrite, ByHandler
    <3> QED
      BY <3>1, HandlerStep
  <2>4. CASE Persist(p)
    <3>1. ByHandler(p, Summed(p)) /\ Update(p, Summed(p))
      BY <2>4 DEF Persist, ByHandler
    <3> QED
      BY <3>1, HandlerStep
  <2>5. CASE EndedWrite(p)
    <3> DEFINE d == [Doc(p) EXCEPT !.status = "ended", !.old = FALSE]
    <3>1. ByHandler(p, d) /\ Update(p, d)
      BY <2>5 DEF EndedWrite, ByHandler
    <3> QED
      BY <3>1, HandlerStep
  <2>6. CASE Salvage(p) \/ ForceEnd(p)
    BY <2>6, ForcedStep DEF Salvage, ForceEnd
  <2>7. ASSUME pc[p] = "push", Pushable(Doc(p)),
               NEW q \in Listings(batch[p]), Update(p, Pushed(Doc(p), q))
        PROVE  DocStep(s)
    <3>1. ByHandler(p, Pushed(Doc(p), q))
      BY <2>7 DEF ByHandler
    <3> QED
      BY <2>7, <3>1, HandlerStep
  <2>8. ASSUME pc[p] = "retry", NEW m \in left[p], Missing(p, m),
               Update(p, Pushed(Doc(p), <<m>>))
        PROVE  DocStep(s)
    <3>1. ByHandler(p, Pushed(Doc(p), <<m>>))
      BY <2>8 DEF ByHandler
    <3> QED
      BY <2>8, <3>1, HandlerStep
  <2>9. CASE RecoverPush(p)
    <3>1. PICK q \in Listings(left[p]) : Update(p, Pushed(Doc(p), q))
      BY <2>9 DEF RecoverPush
    <3>2. ByHandler(p, Pushed(Doc(p), q))
      BY <2>9 DEF RecoverPush, ByHandler
    <3> QED
      BY <3>1, <3>2, HandlerStep
  <2>10. CASE Replace(p)
    <3>1. PICK q \in Listings(batch[p]) :
              Update(p, [Doc(p) EXCEPT !.messages = q, !.old = FALSE])
      BY <2>10 DEF Replace
    <3>2. ByHandler(p, [Doc(p) EXCEPT !.messages = q, !.old = FALSE])
      BY <2>10 DEF Replace, ByHandler
    <3> QED
      BY <3>1, <3>2, HandlerStep
  <2>11. CASE Push(p) \/ LostReply(p) \/ Retry(p)
    BY <2>2, <2>7, <2>8, <2>11, Zenon DEF Push, LostReply, Retry
  <2>12. CASE \/ RetryCheck(p) \/ Transcript(p) \/ EndedRead(p) \/ Result(p)
              \/ RecoverRead(p) \/ RecoverCheck(p) \/ CallFails(p)
    BY <2>2, <2>12 DEF RetryCheck, Transcript, EndedRead, Result, RecoverRead,
       RecoverCheck, CallFails
  <2> QED
    BY <1>2, <2>1, <2>3, <2>4, <2>5, <2>6, <2>9, <2>10, <2>11, <2>12 DEF Step
<1>3. CASE \E x \in Session : Delete(x)
  BY <1>0, <1>3 DEF Delete, DocStep
<1>4. CASE Restart \/ UNCHANGED vars
  BY <1>4 DEF Restart, vars, DocStep
<1>5. CASE TimePasses
  BY <1>0, <1>5 DEF TimePasses, DocStep
<1>6. CASE Sweep
  <2>1. "timeout" \in Reason \ {"none"}
    BY DEF Reason
  <2> QED
    BY <1>0, <1>6, <2>1 DEF Sweep, DocStep, Overdue, Stuck, Exists
<1> QED
  BY <1>1, <1>2, <1>3, <1>4, <1>5, <1>6 DEF Next

\* The locals of request q stay as they are.
Rests(q) ==
    /\ pc'[q] = pc[q] /\ target'[q] = target[q]
    /\ batch'[q] = batch[q] /\ left'[q] = left[q] /\ seen'[q] = seen[q]

\* A handler moves no other handler.
LEMMA OthersRest ==
    ASSUME TypeInv, NEW p \in Request, NEW q \in Request, p # q,
           Begin(p) \/ Step(p) \/ LostReply(p) \/ CallFails(p)
    PROVE  Rests(q)
<1>0. LocalType
  BY TypeParts DEF TypeInv
<1>1. Drop(p) => Rests(q)
  BY <1>0 DEF Drop, Rests, LocalType
<1>2. Refuse(p) \/ Answer(p) => Rests(q)
  BY <1>1 DEF Refuse, Answer
<1>3. (\E at \in PC : Goto(p, at)) /\ UNCHANGED <<target, batch, left, seen>> => Rests(q)
  BY <1>0 DEF Goto, Rests, LocalType
<1>4. CASE Begin(p)
  BY <1>0, <1>4 DEF Begin, Cleanup, BeginAppend, Resend, AcceptTurn, BeginCheckpoint,
     BeginEnd, BeginRecover, Carry, Call, Goto, Rests, LocalType
<1>5. ASSUME NEW m, Advance(p, m) PROVE Rests(q)
  BY <1>0, <1>2, <1>5 DEF Advance, Goto, Rests, LocalType
<1>6. ASSUME AfterRecovery(p) PROVE Rests(q)
  BY <1>0, <1>2, <1>6 DEF AfterRecovery, Goto, Rests, LocalType
<1>7. ASSUME NEW at, Goto(p, at), UNCHANGED <<target, batch, left, seen>> PROVE Rests(q)
  BY <1>0, <1>7 DEF Goto, Rests, LocalType
<1>8. CASE Insert(p) \/ Push(p) \/ Replace(p) \/ LostReply(p)
  BY <1>2, <1>7, <1>8, Zenon DEF Insert, Push, Replace, LostReply
<1>9. CASE Retry(p) \/ RetryCheck(p)
  BY <1>2, <1>5, <1>7, <1>9, Zenon DEF Retry, RetryCheck
<1>10. CASE EndWrite(p) \/ Persist(p) \/ EndedRead(p) \/ EndedWrite(p) \/ Salvage(p)
            \/ Result(p) \/ ForceEnd(p)
  BY <1>2, <1>7, <1>10, Zenon DEF EndWrite, Persist, EndedRead, EndedWrite,
     Salvage, Result, ForceEnd
<1>11. CASE Transcript(p)
  BY <1>0, <1>11 DEF Transcript, Goto, Rests, LocalType
<1>12. CASE RecoverRead(p)
  BY <1>0, <1>2, <1>6, <1>12 DEF RecoverRead, Goto, Rests, LocalType
<1>13. CASE RecoverPush(p) \/ RecoverCheck(p) \/ RecoverWrite(p) \/ CallFails(p)
  BY <1>2, <1>6, <1>7, <1>13, Zenon DEF RecoverPush, RecoverCheck, RecoverWrite, CallFails
<1> QED
  BY <1>4, <1>8, <1>9, <1>10, <1>11, <1>12, <1>13 DEF Step

\* A request is moved by its own actions or by a restart only.
LEMMA OwnStep ==
    ASSUME TypeInv, [Next]_vars, NEW q \in Request
    PROVE  \/ Begin(q) \/ Step(q) \/ LostReply(q) \/ CallFails(q)
           \/ pc'[q] = "idle" /\ batch'[q] = {}
           \/ Rests(q)
<1>1. CASE \E p \in Request : Begin(p) \/ Step(p) \/ LostReply(p) \/ CallFails(p)
  BY <1>1, OthersRest
<1>2. CASE Restart
  BY <1>2 DEF Restart
<1>3. CASE (\E s \in Session : Delete(s)) \/ TimePasses \/ Sweep \/ UNCHANGED vars
  BY <1>3 DEF Delete, TimePasses, Sweep, vars, Rests
<1> QED
  BY <1>1, <1>2, <1>3 DEF Next

\* What each write changes of a document, field by field.
LEMMA Fields ==
    ASSUME NEW d \in SessionDoc, NEW q, NEW r
    PROVE  /\ Ending(d).status = "ending" /\ Ending(d).messages = d.messages
           /\ Ending(d).summed = d.summed /\ Ending(d).reason = d.reason
           /\ Ending(d).of = d.of
           /\ ForcedEnd(d, r).status = "ended" /\ ForcedEnd(d, r).messages = d.messages
           /\ ForcedEnd(d, r).summed = d.summed /\ ForcedEnd(d, r).reason = r
           /\ ForcedEnd(d, r).of = d.of
           /\ Pushed(d, q).status = d.status /\ Pushed(d, q).messages = d.messages \o q
           /\ Pushed(d, q).summed = d.summed /\ Pushed(d, q).reason = d.reason
           /\ Pushed(d, q).of = d.of
BY DEF SessionDoc, Ending, ForcedEnd, Pushed

\* A document that exists before and after a step keeps its summary and its
\* reason, and is ended only by a handler in endedWrite or with a reason.
LEMMA Kept ==
    ASSUME TypeInv, NEW s \in Session, DocStep(s),
           session[s].status # "none", Exists(s)'
    PROVE  /\ Exists(s)
           /\ session[s].summed => session'[s].summed
           /\ session[s].reason # "none" => session'[s].reason # "none"
           /\ session'[s].status = "ended" =>
                 \/ session[s].status = "ended"
                 \/ session'[s].reason # "none"
                 \/ \E p \in Request : target[p] = s /\ pc[p] = "endedWrite"
<1>1. session[s] \in SessionDoc
  BY DEF TypeInv, TypeOK
<1>2. session'[s].status \notin {"none", "gone"}
  BY DEF Exists
<1>3. CASE session'[s] = session[s] \/ session'[s] = Deleted
  BY <1>2, <1>3 DEF Exists, Deleted, Fresh
<1>4. CASE Exists(s) /\ session'[s] = [session[s] EXCEPT !.old = TRUE]
  BY <1>1, <1>4 DEF SessionDoc
<1>5. CASE Exists(s) /\ \E r \in Reason \ {"none"} : session'[s] = ForcedEnd(session[s], r)
  BY <1>1, <1>5, Fields
<1>6. ASSUME Exists(s), NEW p \in Request, target[p] = s, ByHandler(p, session'[s])
      PROVE  /\ session[s].summed => session'[s].summed
             /\ session'[s].reason = session[s].reason
             /\ session'[s].status \in {session[s].status, "ending"} \/ pc[p] = "endedWrite"
  <2>0. Doc(p) = session[s]
    BY <1>6 DEF Doc
  <2>1. CASE \/ session'[s] = Ending(Doc(p))
             \/ \E q \in Listings(batch[p]) : session'[s] = Pushed(Doc(p), q)
             \/ \E q \in Listings(left[p]) : session'[s] = Pushed(Doc(p), q)
             \/ \E m \in left[p] : session'[s] = Pushed(Doc(p), <<m>>)
    <3>1. ASSUME NEW d, d = session'[s],
                 d = Ending(session[s]) \/ \E q : d = Pushed(session[s], q)
          PROVE  /\ d.summed = session[s].summed /\ d.reason = session[s].reason
                 /\ d.status \in {session[s].status, "ending"}
      <4>1. CASE d = Ending(session[s])
        BY <1>1, <3>1, <4>1, Fields
      <4>2. ASSUME NEW q, d = Pushed(session[s], q)
            PROVE  d.summed = session[s].summed /\ d.reason = session[s].reason
                   /\ d.status = session[s].status
        BY <1>1, <4>2, Fields
      <4> QED
        BY <3>1, <4>1, <4>2
    <3> QED
      BY <2>0, <2>1, <3>1
  <2>2. CASE session'[s] = Summed(p)
    BY <1>1, <2>0, <2>2 DEF Summed, SessionDoc
  <2>3. CASE \E q \in Listings(batch[p]) :
                 session'[s] = [Doc(p) EXCEPT !.messages = q, !.old = FALSE]
    BY <1>1, <2>0, <2>3 DEF SessionDoc
  <2>4. CASE /\ pc[p] = "endedWrite"
             /\ session'[s] = [Doc(p) EXCEPT !.status = "ended", !.old = FALSE]
    BY <1>1, <2>0, <2>4 DEF SessionDoc
  <2> QED
    BY <1>6, <2>1, <2>2, <2>3, <2>4 DEF ByHandler
<1> QED
  BY <1>3, <1>4, <1>5, <1>6 DEF DocStep

\* After its summary was written, a handler's document has one.
HandlersSummed ==
    \A p \in Request :
        pc[p] \in {"endedRead", "endedWrite"} /\ Exists(target[p]) =>
            session[target[p]].summed

\* A handler reaches endedRead and endedWrite by writing its summary.
LEMMA Arrival ==
    ASSUME TypeInv, [Next]_vars, NEW q \in Request,
           pc'[q] \in {"endedRead", "endedWrite"}
    PROVE  /\ target'[q] = target[q]
           /\ pc[q] \in {"endedRead", "endedWrite"} \/ Persist(q)
<1>0. LocalType
  BY TypeParts DEF TypeInv
<1>1. CASE Rests(q)
  BY <1>1 DEF Rests
<1>2. CASE Persist(q) \/ EndedRead(q)
  BY <1>2 DEF Persist, EndedRead
<1>3. CASE Begin(q)
  BY <1>0, <1>3 DEF Begin, Cleanup, BeginAppend, Resend, AcceptTurn, BeginCheckpoint,
     BeginEnd, BeginRecover, Call, Goto, LocalType
<1>4. ~Drop(q)
  BY <1>0 DEF Drop, LocalType
<1>5. ~Refuse(q) /\ ~Answer(q)
  BY <1>4 DEF Refuse, Answer
<1>6. ASSUME NEW at, Goto(q, at) PROVE at = "endedRead" \/ at = "endedWrite"
  BY <1>0, <1>6 DEF Goto, LocalType
<1>7. ASSUME NEW m PROVE ~Advance(q, m)
  BY <1>5, <1>6 DEF Advance
<1>8. ~AfterRecovery(q)
  BY <1>5, <1>6 DEF AfterRecovery
<1>9. ASSUME Step(q), ~Persist(q), ~EndedRead(q) PROVE FALSE
  <2>1. ~Insert(q) /\ ~Push(q) /\ ~Replace(q) /\ ~ForceEnd(q) /\ ~Result(q)
    BY <1>5, <1>6 DEF Insert, Push, Replace, ForceEnd, Result
  <2>2. ~Retry(q) /\ ~RetryCheck(q)
    BY <1>5, <1>6, <1>7, Zenon DEF Retry, RetryCheck
  <2>3. ~EndWrite(q) /\ ~Transcript(q) /\ ~EndedWrite(q) /\ ~Salvage(q)
    BY <1>5, <1>6, Zenon DEF EndWrite, Transcript, EndedWrite, Salvage
  <2>4. ~RecoverRead(q) /\ ~RecoverPush(q) /\ ~RecoverCheck(q) /\ ~RecoverWrite(q)
    BY <1>5, <1>6, <1>8, Zenon DEF RecoverRead, RecoverPush, RecoverCheck, RecoverWrite
  <2> QED
    BY <1>9, <2>1, <2>2, <2>3, <2>4 DEF Step
<1>10. ~LostReply(q) /\ ~CallFails(q)
  BY <1>5, <1>6 DEF LostReply, CallFails, Catcher
<1> QED
  BY OwnStep, <1>1, <1>2, <1>3, <1>9, <1>10

AccountedInv == TypeInv /\ HandlersSummed /\ EndedAccounted

LEMMA AccountedInit == Init => AccountedInv
<1> SUFFICES ASSUME Init PROVE AccountedInv
  OBVIOUS
<1>1. \A p \in Request : pc[p] = "idle"
  BY DEF Init
<1>2. \A s \in Session : session[s].status = "none"
  BY DEF Init, Unborn, Fresh
<1> QED
  BY <1>1, <1>2, TypeInit DEF AccountedInv, HandlersSummed, EndedAccounted

LEMMA SummedStep == AccountedInv /\ [Next]_vars => HandlersSummed'
<1> SUFFICES ASSUME AccountedInv, [Next]_vars,
                    NEW q \in Request, pc'[q] \in {"endedRead", "endedWrite"},
                    Exists(target[q])'
             PROVE  session'[target'[q]].summed
  BY DEF HandlersSummed, Exists
<1>0. TypeInv /\ HandlersSummed
  BY DEF AccountedInv
<1>1. /\ target'[q] = target[q]
      /\ pc[q] \in {"endedRead", "endedWrite"} \/ Persist(q)
  BY <1>0, Arrival
<1>2. pc[q] \notin {"idle", "insert"}
  BY <1>1 DEF Persist
<1>3. target[q] \in Session /\ session[target[q]].status # "none" /\ Doc(q) \in SessionDoc
  BY <1>0, <1>2, Lookup DEF Doc
<1>4. Exists(target[q]) /\ (session[target[q]].summed => session'[target[q]].summed)
  <2>1. session'[target[q]].status \notin {"none", "gone"}
    BY <1>1 DEF Exists
  <2> QED
    BY <1>0, <1>3, <2>1, DocSteps, Kept DEF Exists
<1>5. CASE pc[q] \in {"endedRead", "endedWrite"}
  BY <1>0, <1>1, <1>4, <1>5 DEF HandlersSummed
<1>6. CASE Persist(q)
  <2>1. session'[target[q]] = Summed(q)
    BY <1>0, <1>3, <1>4, <1>6 DEF Persist, Update, TypeInv, TypeOK
  <2> QED
    BY <1>1, <1>3, <2>1 DEF Summed, SessionDoc
<1> QED
  BY <1>1, <1>5, <1>6

LEMMA AccountedStep == AccountedInv /\ [Next]_vars => EndedAccounted'
<1> SUFFICES ASSUME AccountedInv, [Next]_vars,
                    NEW s \in Session, session'[s].status = "ended"
             PROVE  session'[s].summed \/ session'[s].reason # "none"
  BY DEF EndedAccounted
<1>0. TypeInv /\ HandlersSummed /\ EndedAccounted
  BY DEF AccountedInv
<1>1. DocStep(s)
  BY <1>0, DocSteps
<1>2. CASE session[s].status = "none"
  <2>1. session'[s] = session[s] \/ session'[s] = Fresh \/ session'[s] = Deleted
    BY <1>1, <1>2 DEF DocStep, Exists
  <2> QED
    BY <1>2, <2>1 DEF Fresh, Deleted
<1>3. CASE session[s].status # "none"
  <2>1. session'[s].status \notin {"none", "gone"}
    OBVIOUS
  <2>2. /\ Exists(s)
        /\ session[s].summed => session'[s].summed
        /\ session[s].reason # "none" => session'[s].reason # "none"
        /\ \/ session[s].status = "ended"
           \/ session'[s].reason # "none"
           \/ \E p \in Request : target[p] = s /\ pc[p] = "endedWrite"
    BY <1>0, <1>1, <1>3, <2>1, Kept DEF Exists
  <2> QED
    BY <1>0, <2>2 DEF EndedAccounted, HandlersSummed
<1> QED
  BY <1>2, <1>3

\* An ended session has a summary or a reason for having none, for any number
\* of handlers, appends, recoveries, faults and restarts in any order.
THEOREM Accounted == Spec => []EndedAccounted
<1>1. Init => AccountedInv
  BY AccountedInit
<1>2. AccountedInv /\ [Next]_vars => AccountedInv'
  BY TypeStep, SummedStep, AccountedStep DEF AccountedInv
<1>3. AccountedInv => EndedAccounted
  BY DEF AccountedInv
<1> QED
  BY <1>1, <1>2, <1>3, PTL DEF Spec

-----------------------------------------------------------------------------
(* What a step does to the messages of a document.                         *)

\* The messages a step appends to the document of session s: a first push
\* or a retry on an active session, or a recovery on any.
Appends(s, q) ==
    \E p \in Request :
        /\ target[p] = s
        /\ \/ pc[p] = "push" /\ Pushable(Doc(p)) /\ q \in Listings(batch[p])
           \/ pc[p] = "retry" /\ \E m \in left[p] : Missing(p, m) /\ q = <<m>>
           \/ pc[p] = "recoverPush" /\ q \in Listings(left[p])

Checkpointing == \E p \in Request : pc[p] = "replace"

\* Only a checkpoint takes messages away from a document that stays.
LEMMA Messages ==
    ASSUME TypeInv, NEW s \in Session, DocStep(s), ~Checkpointing
    PROVE  \/ /\ session'[s].messages = session[s].messages
              /\ session'[s].status \in {session[s].status, "ending", "ended"}
           \/ session[s].status = "none" /\ session'[s] = Fresh
           \/ session'[s] = Deleted
           \/ \E q : Appends(s, q) /\ session'[s] = Pushed(session[s], q)
<1>1. session[s] \in SessionDoc
  BY DEF TypeInv, TypeOK
<1>2. CASE Exists(s) /\ session'[s] = [session[s] EXCEPT !.old = TRUE]
  BY <1>1, <1>2 DEF SessionDoc
<1>3. CASE Exists(s) /\ \E r \in Reason \ {"none"} : session'[s] = ForcedEnd(session[s], r)
  BY <1>1, <1>3 DEF ForcedEnd, SessionDoc
<1>4. ASSUME NEW p \in Request, target[p] = s, ByHandler(p, session'[s])
      PROVE  \/ /\ session'[s].messages = session[s].messages
                /\ session'[s].status \in {session[s].status, "ending", "ended"}
             \/ \E q : Appends(s, q) /\ session'[s] = Pushed(session[s], q)
  <2>0. Doc(p) = session[s]
    BY <1>4 DEF Doc
  <2>1. CASE \/ session'[s] = Ending(Doc(p)) \/ session'[s] = Summed(p)
             \/ session'[s] = [Doc(p) EXCEPT !.status = "ended", !.old = FALSE]
    BY <1>1, <2>0, <2>1 DEF Ending, Summed, SessionDoc
  <2>2. CASE \/ /\ pc[p] = "push" /\ Pushable(Doc(p))
                /\ \E q \in Listings(batch[p]) : session'[s] = Pushed(Doc(p), q)
             \/ /\ pc[p] = "retry"
                /\ \E m \in left[p] : Missing(p, m) /\ session'[s] = Pushed(Doc(p), <<m>>)
             \/ /\ pc[p] = "recoverPush"
                /\ \E q \in Listings(left[p]) : session'[s] = Pushed(Doc(p), q)
    <3>1. \E q : Appends(s, q) /\ session'[s] = Pushed(Doc(p), q)
      BY <1>4, <2>2, Zenon DEF Appends
    <3> QED
      BY <2>0, <3>1
  <2> QED
    BY <1>4, <2>1, <2>2 DEF ByHandler, Checkpointing
<1> QED
  BY <1>2, <1>3, <1>4 DEF DocStep

\* What is appended is a list of messages, and is stored after what was.
LEMMA Appended ==
    ASSUME TypeInv, NEW s \in Session, NEW q, Appends(s, q)
    PROVE  /\ q \in Seq(Message) /\ IsInjective(q)
           /\ ToSet(Pushed(session[s], q).messages) = Stored(s) \cup ToSet(q)
           /\ Pushed(session[s], q).messages = session[s].messages \o q
           /\ Pushed(session[s], q).status = session[s].status
<1>1. /\ session[s] \in SessionDoc
      /\ \A p \in Request : batch[p] \in SUBSET Message /\ left[p] \in SUBSET Message
  BY DEF TypeInv, TypeOK
<1>2. ASSUME NEW m \in Message PROVE <<m>> \in Seq(Message) /\ IsInjective(<<m>>)
  BY DEF IsInjective
<1>3. q \in Seq(Message) /\ IsInjective(q)
  BY <1>1, <1>2, ListingType DEF Appends
<1> QED
  BY <1>1, <1>3, PushedType, Fields DEF Stored

\* A document that is there before and after a step keeps its messages, and
\* no step makes it active again.
LEMMA Grown ==
    ASSUME TypeInv, [Next]_vars, ~Checkpointing, NEW s \in Session,
           session[s].status # "none", session'[s].status \notin {"none", "gone"}
    PROVE  /\ Exists(s)
           /\ Stored(s) \subseteq ToSet(session'[s].messages)
           /\ session'[s].status = "active" => session[s].status = "active"
<1>0. DocStep(s)
  BY DocSteps
<1>1. Exists(s)
  BY <1>0, Kept DEF Exists
<1>2. Deleted.status = "gone"
  BY DEF Deleted, Fresh
<1>3. CASE \E q : Appends(s, q) /\ session'[s] = Pushed(session[s], q)
  BY <1>1, <1>3, Appended
<1> QED
  BY <1>0, <1>1, <1>2, <1>3, Messages DEF Stored

-----------------------------------------------------------------------------
(* The operations an instance leaves out.                                  *)

Acts(p) == Begin(p) \/ Step(p) \/ LostReply(p) \/ CallFails(p)

Recovery == {"recoverRead", "recoverPush", "recoverCheck", "recoverWrite"}

\* A handler is at a checkpoint's or a recovery's await only if it began one.
LEMMA Entered ==
    ASSUME TypeInv, NEW q \in Request, Acts(q)
    PROVE  /\ pc'[q] = "replace" => "checkpoint" \in Ops
           /\ pc'[q] \in Recovery => pc[q] \in Recovery \/ "recover" \in Ops
<1> DEFINE Fine(at) == at # "replace" /\ at \notin Recovery
<1>0. LocalType
  BY TypeParts DEF TypeInv
<1>1. ASSUME NEW at, Goto(q, at) PROVE pc'[q] = at
  BY <1>0, <1>1 DEF Goto, LocalType
<1>2. Drop(q) => pc'[q] = "idle"
  BY <1>0 DEF Drop, LocalType
<1>3. Refuse(q) \/ Answer(q) => pc'[q] = "idle"
  BY <1>2 DEF Refuse, Answer
<1>4. Fine("idle")
  BY DEF Recovery
<1>5. ASSUME NEW m, Advance(q, m) PROVE pc'[q] \in {"idle", "retry"}
  BY <1>1, <1>3, <1>5 DEF Advance
<1>6. AfterRecovery(q) => pc'[q] \in {"idle", "transcript", "recoverCheck"}
  BY <1>1, <1>3 DEF AfterRecovery
<1>7. CASE Cleanup(q) \/ BeginAppend(q) \/ Resend(q) \/ BeginEnd(q)
  <2>1. pc'[q] \in {"insert", "push", "endWrite"}
    BY <1>1, <1>7 DEF Cleanup, BeginAppend, Resend, AcceptTurn, BeginEnd
  <2> QED
    BY <2>1 DEF Recovery
<1>8. CASE BeginCheckpoint(q)
  <2>1. pc'[q] = "replace" /\ "checkpoint" \in Ops
    BY <1>1, <1>8 DEF BeginCheckpoint, Call
  <2> QED
    BY <2>1 DEF Recovery
<1>9. CASE BeginRecover(q)
  <2>1. pc'[q] = "recoverRead" /\ "recover" \in Ops
    BY <1>1, <1>9 DEF BeginRecover, Call
  <2> QED
    BY <2>1
<1>10. CASE Insert(q) \/ Push(q) \/ Replace(q) \/ ForceEnd(q) \/ Result(q) \/ LostReply(q)
  <2>1. pc'[q] \in {"idle", "retry", "force"}
    BY <1>1, <1>3, <1>10, Zenon DEF Insert, Push, Replace, ForceEnd, Result, LostReply
  <2> QED
    BY <2>1 DEF Recovery
<1>11. CASE Retry(q) \/ RetryCheck(q)
  <2>1. pc'[q] \in {"idle", "retry", "retryCheck"}
    BY <1>1, <1>3, <1>5, <1>11, Zenon DEF Retry, RetryCheck
  <2> QED
    BY <2>1 DEF Recovery
<1>12. CASE \/ EndWrite(q) \/ Transcript(q) \/ Persist(q) \/ EndedRead(q)
            \/ EndedWrite(q) \/ Salvage(q)
  <2>1. pc'[q] \in Pipeline \cup {"idle"}
    BY <1>1, <1>3, <1>12 DEF EndWrite, Transcript, Persist, EndedRead, EndedWrite,
       Salvage, Pipeline
  <2> QED
    BY <2>1 DEF Recovery, Pipeline
<1>13. CASE RecoverRead(q) \/ RecoverPush(q) \/ RecoverCheck(q) \/ RecoverWrite(q)
  <2>1. pc[q] \in Recovery
    BY <1>13 DEF RecoverRead, RecoverPush, RecoverCheck, RecoverWrite, Recovery
  <2>2. pc'[q] # "replace"
    BY <1>1, <1>3, <1>6, <1>13, Zenon DEF RecoverRead, RecoverPush, RecoverCheck,
       RecoverWrite
  <2> QED
    BY <2>1, <2>2
<1>14. CASE CallFails(q)
  <2>1. pc'[q] = "idle" \/ pc'[q] = Catcher(pc[q])
    BY <1>1, <1>3, <1>14 DEF CallFails
  <2>2. Catcher(pc[q]) \in {"idle", "force", "salvage", "retry"}
    BY DEF Catcher
  <2> QED
    BY <2>1, <2>2 DEF Recovery
<1> QED
  BY <1>7, <1>8, <1>9, <1>10, <1>11, <1>12, <1>13, <1>14 DEF Acts, Begin, Step

NoCheckpoint == "checkpoint" \in Ops \/ ~Checkpointing
NoRecovery == "recover" \in Ops \/ \A p \in Request : pc[p] \notin Recovery

LEMMA Absent == TypeInv /\ NoCheckpoint /\ NoRecovery /\ [Next]_vars =>
                    NoCheckpoint' /\ NoRecovery'
<1> SUFFICES ASSUME TypeInv, NoCheckpoint, NoRecovery, [Next]_vars
             PROVE  NoCheckpoint' /\ NoRecovery'
  OBVIOUS
<1>1. ASSUME NEW q \in Request
      PROVE  /\ pc'[q] = "replace" => "checkpoint" \in Ops
             /\ pc'[q] \in Recovery => "recover" \in Ops
  <2>1. CASE Acts(q)
    BY <2>1, Entered DEF NoRecovery
  <2>2. CASE pc'[q] = "idle" \/ Rests(q)
    BY <2>2 DEF Rests, NoCheckpoint, NoRecovery, Checkpointing, Recovery
  <2> QED
    BY <2>1, <2>2, OwnStep DEF Acts
<1> QED
  BY <1>1 DEF NoCheckpoint, NoRecovery, Checkpointing

-----------------------------------------------------------------------------
(* What a client was told is persisted.                                    *)

Late == {"endWrite", "recoverCheck", "recoverWrite"} \cup Pipeline

\* The messages of its batch a handler has yet to find in the document.
Owed(p) ==
    IF pc[p] \in {"push", "recoverRead"} THEN batch[p]
    ELSE IF pc[p] \in {"retry", "retryCheck", "recoverPush"} THEN left[p] ELSE {}

\* At retryCheck on an active session, the filter missed because the message
\* was there: an active session has been active all the time.
HandlerStored(p) ==
    /\ pc[p] \in {"idle", "insert"} => batch[p] = {}
    /\ pc[p] = "push" => left[p] = batch[p]
    /\ pc[p] \notin {"idle", "insert"} /\ Exists(target[p]) =>
          /\ batch[p] \ Owed(p) \subseteq Stored(target[p])
          /\ pc[p] = "retryCheck" /\ Doc(p).status = "active" =>
                \A m \in left[p] : Pending(p, m) => m \in Stored(target[p])

AckedInv ==
    /\ TypeInv
    /\ NoCheckpoint /\ NoRecovery
    /\ \A p \in Request : HandlerStored(p)
    /\ \A s \in Session : session[s].status = "none" => acked[s] = {}
    /\ AckedStored

\* What a handler about to answer knows of its batch.
Backed(p) ==
    session'[target[p]].status \notin {"none", "gone"} =>
        batch[p] \subseteq ToSet(session'[target[p]].messages)

\* The document of a handler, if the step leaves it there.
LEMMA OwnDoc ==
    ASSUME TypeInv, [Next]_vars, ~Checkpointing, NEW p \in Request,
           pc[p] \notin {"idle", "insert"},
           session'[target[p]].status \notin {"none", "gone"}
    PROVE  /\ target[p] \in Session /\ Exists(target[p])
           /\ Stored(target[p]) \subseteq ToSet(session'[target[p]].messages)
           /\ session'[target[p]].status = "active" => Doc(p).status = "active"
BY Lookup, Grown DEF Doc

\* A handler that rests keeps what it knows.
LEMMA StoredRests ==
    ASSUME TypeInv, [Next]_vars, ~Checkpointing, NEW p \in Request,
           HandlerStored(p), Rests(p)
    PROVE  HandlerStored(p)'
<1>1. CASE pc[p] \in {"idle", "insert"} \/ session'[target[p]].status \in {"none", "gone"}
  BY <1>1 DEF HandlerStored, Rests, Exists
<1>2. CASE pc[p] \notin {"idle", "insert"} /\ session'[target[p]].status \notin {"none", "gone"}
  <2>1. /\ Exists(target[p])
        /\ Stored(target[p]) \subseteq ToSet(session'[target[p]].messages)
        /\ session'[target[p]].status = "active" => Doc(p).status = "active"
    BY <1>2, OwnDoc
  <2>2. Owed(p)' = Owed(p)
    BY DEF Rests, Owed
  <2>3. \A m : Pending(p, m)' <=> Pending(p, m)
    BY DEF Rests, Pending
  <2> QED
    BY <1>2, <2>1, <2>2, <2>3 DEF HandlerStored, Rests, Stored, Doc
<1> QED
  BY <1>1, <1>2

\* So does one past its last append.
LEMMA StoredLater ==
    ASSUME TypeInv, [Next]_vars, ~Checkpointing, NEW p \in Request,
           pc[p] \in Late, pc'[p] \in Late, UNCHANGED <<target, batch>>,
           HandlerStored(p)
    PROVE  HandlerStored(p)'
<1>1. /\ pc[p] \notin {"idle", "insert", "push", "retry", "retryCheck", "recoverRead", "recoverPush"}
      /\ pc'[p] \notin {"idle", "insert", "push", "retry", "retryCheck", "recoverRead", "recoverPush"}
  BY DEF Late, Pipeline
<1>2. Owed(p) = {} /\ Owed(p)' = {}
  BY <1>1 DEF Owed
<1>3. CASE session'[target[p]].status \notin {"none", "gone"}
  BY <1>1, <1>2, <1>3, OwnDoc DEF HandlerStored, Stored
<1>4. CASE session'[target[p]].status \in {"none", "gone"}
  BY <1>1, <1>4 DEF HandlerStored, Exists
<1> QED
  BY <1>3, <1>4

LEMMA StoredDropped ==
    ASSUME TypeInv, NEW p \in Request, Drop(p)
    PROVE  HandlerStored(p)'
<1>1. LocalType
  BY TypeParts DEF TypeInv
<1>2. pc'[p] = "idle" /\ batch'[p] = {}
  BY <1>1 DEF Drop, LocalType
<1> QED
  BY <1>2 DEF HandlerStored

\* A handler moving on among its appends, with owed messages still to write.
LEMMA StoredOwing ==
    ASSUME TypeInv, [Next]_vars, ~Checkpointing, NEW p \in Request,
           pc[p] \notin {"idle", "insert"}, UNCHANGED <<target, batch>>,
           pc'[p] \in {"retry", "retryCheck", "recoverPush"} \cup Late,
           session'[target[p]].status \notin {"none", "gone"} =>
              /\ batch[p] \ Owed(p)' \subseteq ToSet(session'[target[p]].messages)
              /\ pc'[p] = "retryCheck" /\ session'[target[p]].status = "active" =>
                    \A m \in left'[p] :
                        (\A n \in left'[p] : m <= n) => m \in ToSet(session'[target[p]].messages)
    PROVE  HandlerStored(p)'
<1>1. pc'[p] \notin {"idle", "insert", "push", "recoverRead"}
  BY DEF Late, Pipeline
<1> QED
  BY <1>1 DEF HandlerStored, Exists, Stored, Doc, Pending

Gains(p) ==
    \/ acked' = acked /\ HandlerStored(p)'
    \/ Answer(p) /\ Backed(p)

LEMMA GainsBegin ==
    ASSUME TypeInv, [Next]_vars, NoCheckpoint', NEW p \in Request, HandlerStored(p), Begin(p)
    PROVE  "checkpoint" \in Ops \/ Gains(p)
<1>0. LocalType /\ acked' = acked
  BY TypeParts DEF TypeInv, Begin, Cleanup, BeginAppend, Resend, AcceptTurn,
     BeginCheckpoint, BeginEnd, BeginRecover, Call
<1>1. pc[p] = "idle" /\ batch[p] = {}
  BY DEF HandlerStored, Begin, Cleanup, BeginAppend, Resend, BeginCheckpoint,
     BeginEnd, BeginRecover, Call
<1>2. CASE Cleanup(p) \/ BeginEnd(p)
  <2>1. pc'[p] \in {"insert", "endWrite"} /\ batch'[p] = {}
    BY <1>0, <1>1, <1>2 DEF Cleanup, BeginEnd, Goto, LocalType
  <2> QED
    BY <1>0, <2>1 DEF Gains, HandlerStored
<1>3. CASE BeginAppend(p) \/ Resend(p)
  <2>1. pc'[p] = "push" /\ left'[p] = batch'[p]
    BY <1>0, <1>3 DEF BeginAppend, Resend, AcceptTurn, Carry, Goto, LocalType
  <2> QED
    BY <1>0, <2>1 DEF Gains, HandlerStored, Owed
<1>4. CASE BeginCheckpoint(p)
  BY <1>4 DEF BeginCheckpoint, Call
<1>5. CASE BeginRecover(p)
  <2>1. pc'[p] = "recoverRead"
    BY <1>0, <1>5 DEF BeginRecover, Goto, LocalType
  <2> QED
    BY <1>0, <2>1 DEF Gains, HandlerStored, Owed
<1> QED
  BY <1>2, <1>3, <1>4, <1>5 DEF Begin

\* Once the message it looked at is there, a handler advances or is done.
LEMMA GainsAdvance ==
    ASSUME TypeInv, [Next]_vars, ~Checkpointing, NEW p \in Request,
           pc[p] \in {"retry", "retryCheck"}, HandlerStored(p),
           NEW m \in left[p], Advance(p, m),
           session'[target[p]].status \notin {"none", "gone"} =>
               m \in ToSet(session'[target[p]].messages)
    PROVE  Gains(p)
<1>0. LocalType
  BY TypeParts DEF TypeInv
<1>1. ASSUME session'[target[p]].status \notin {"none", "gone"}
      PROVE  batch[p] \ (left[p] \ {m}) \subseteq ToSet(session'[target[p]].messages)
  <2>1. batch[p] \ left[p] \subseteq ToSet(session'[target[p]].messages)
    BY <1>1, OwnDoc DEF HandlerStored, Owed
  <2> QED
    BY <1>1, <2>1
<1>2. CASE Answer(p) /\ left[p] = {m}
  BY <1>1, <1>2 DEF Gains, Backed
<1>3. CASE /\ left' = [left EXCEPT ![p] = @ \ {m}]
           /\ Goto(p, "retry")
           /\ UNCHANGED <<client, target, batch, seen>>
  <2>1. pc'[p] = "retry" /\ left'[p] = left[p] \ {m}
    BY <1>0, <1>3 DEF Goto, LocalType
  <2>2. HandlerStored(p)'
    BY <1>1, <1>3, <2>1, StoredOwing DEF Owed
  <2> QED
    BY <1>3, <2>2 DEF Gains, client
<1> QED
  BY <1>2, <1>3 DEF Advance

LEMMA GainsAppend ==
    ASSUME TypeInv, [Next]_vars, ~Checkpointing, NEW p \in Request, HandlerStored(p),
           Push(p) \/ Retry(p) \/ RetryCheck(p) \/ LostReply(p)
    PROVE  Gains(p)
<1> DEFINE t == target[p]
           stored == ToSet(session'[t].messages)
<1>0. LocalType /\ SessionType
  BY TypeParts DEF TypeInv
<1>1. pc[p] \in {"push", "retry", "retryCheck"}
  BY DEF Push, Retry, RetryCheck, LostReply
<1>2. t \in Session /\ Doc(p) \in SessionDoc /\ batch[p] \in SUBSET Message
      /\ left[p] \in SUBSET Message
  BY <1>1, Lookup
<1>3. ASSUME session'[t].status \notin {"none", "gone"}
      PROVE  /\ Exists(t) /\ Stored(t) \subseteq stored
             /\ session'[t].status = "active" => Doc(p).status = "active"
  BY <1>1, <1>3, OwnDoc
<1>4. ASSUME session'[t].status \notin {"none", "gone"},
             NEW q \in Listings(batch[p]), Update(p, Pushed(Doc(p), q))
      PROVE  batch[p] \subseteq stored
  <2>1. session'[t] = Pushed(Doc(p), q)
    BY <1>0, <1>2, <1>3, <1>4 DEF Update, SessionType
  <2>2. q \in Seq(Message) /\ ToSet(q) = batch[p]
    BY <1>2, ListingType
  <2> QED
    BY <1>2, <2>1, <2>2, PushedType
<1>5. ASSUME session'[t].status \notin {"none", "gone"},
             NEW m \in left[p], Update(p, Pushed(Doc(p), <<m>>))
      PROVE  m \in stored
  <2>1. session'[t] = Pushed(Doc(p), <<m>>)
    BY <1>0, <1>2, <1>3, <1>5 DEF Update, SessionType
  <2>2. <<m>> \in Seq(Message) /\ m \in ToSet(<<m>>)
    BY <1>2 DEF ToSet
  <2> QED
    BY <1>2, <2>1, <2>2, PushedType
<1>6. ASSUME Refuse(p) PROVE Gains(p)
  BY <1>6, StoredDropped DEF Refuse, Gains, client
<1>7. CASE Push(p)
  <2>1. pc[p] = "push" /\ left[p] = batch[p]
    BY <1>7 DEF Push, HandlerStored
  <2>2. CASE /\ \E q \in Listings(batch[p]) : Update(p, Pushed(Doc(p), q))
             /\ Answer(p)
    BY <1>4, <2>2 DEF Gains, Backed
  <2>3. CASE Goto(p, "retry") /\ UNCHANGED <<session, client, target, batch, left, seen>>
    <3>1. pc'[p] = "retry" /\ left'[p] = batch[p]
      BY <1>0, <2>1, <2>3 DEF Goto, LocalType
    <3>2. HandlerStored(p)'
      BY <1>1, <2>3, <3>1, StoredOwing DEF Owed
    <3> QED
      BY <2>3, <3>2 DEF Gains, client
  <2> QED
    BY <1>7, <2>2, <2>3 DEF Push
<1>8. CASE LostReply(p)
  <2>1. CASE /\ pc[p] = "push" /\ Goto(p, "retry")
             /\ UNCHANGED <<client, target, batch, left, seen>>
    <3>1. pc'[p] = "retry" /\ left'[p] = batch[p]
      BY <1>0, <2>1 DEF Goto, LocalType, HandlerStored
    <3>2. HandlerStored(p)'
      BY <1>1, <2>1, <3>1, StoredOwing DEF Owed
    <3> QED
      BY <2>1, <3>2 DEF Gains, client
  <2> QED
    BY <1>6, <1>8, <2>1 DEF LostReply
<1>9. CASE Retry(p)
  <2>1. ASSUME NEW m \in left[p], Update(p, Pushed(Doc(p), <<m>>)), Advance(p, m)
        PROVE  Gains(p)
    <3>1. pc[p] = "retry"
      BY <1>9 DEF Retry
    <3> QED
      BY <1>5, <2>1, <3>1, GainsAdvance
  <2>2. ASSUME NEW m \in left[p], Pending(p, m), ~Missing(p, m), Goto(p, "retryCheck"),
               UNCHANGED <<session, client, target, batch, left, seen>>
        PROVE  Gains(p)
    <3>1. pc'[p] = "retryCheck" /\ left'[p] = left[p] /\ pc[p] = "retry"
      BY <1>0, <1>9, <2>2 DEF Goto, LocalType, Retry
    <3>2. ASSUME session'[t].status \notin {"none", "gone"}
          PROVE  batch[p] \ left[p] \subseteq stored
      BY <1>3, <3>1, <3>2 DEF HandlerStored, Owed
    <3>3. ASSUME session'[t].status = "active", NEW k \in left[p],
                 \A n \in left[p] : k <= n
          PROVE  k \in stored
      <4>1. k = m
        BY <1>2, <2>2, <3>3 DEF Pending, Message
      <4>2. m \in Stored(t)
        BY <1>3, <2>2, <3>3 DEF Missing
      <4> QED
        BY <2>2, <4>1, <4>2 DEF Stored
    <3>4. HandlerStored(p)'
      BY <1>1, <2>2, <3>1, <3>2, <3>3, StoredOwing DEF Owed
    <3> QED
      BY <2>2, <3>4 DEF Gains, client
  <2> QED
    BY <1>9, <2>1, <2>2, Zenon DEF Retry
<1>10. CASE RetryCheck(p)
  <2>1. ASSUME ~Closed(p), NEW m \in left[p], Pending(p, m), Advance(p, m)
        PROVE  Gains(p)
    <3>1. pc[p] = "retryCheck" /\ session' = session
      BY <1>10 DEF RetryCheck
    <3>2. ASSUME session'[t].status \notin {"none", "gone"} PROVE m \in stored
      <4>1. Exists(t) /\ Doc(p).status = "active"
        BY <1>3, <2>1, <3>2 DEF Closed
      <4> QED
        BY <2>1, <3>1, <4>1 DEF HandlerStored, Stored
    <3> QED
      BY <2>1, <3>1, <3>2, GainsAdvance
  <2> QED
    BY <1>6, <1>10, <2>1, Zenon DEF RetryCheck
<1> QED
  BY <1>7, <1>8, <1>9, <1>10

LEMMA GainsEnd ==
    ASSUME TypeInv, [Next]_vars, ~Checkpointing, NEW p \in Request, HandlerStored(p),
           \/ Insert(p) \/ EndWrite(p) \/ Transcript(p) \/ Persist(p) \/ EndedRead(p)
           \/ EndedWrite(p) \/ Salvage(p) \/ Result(p) \/ ForceEnd(p)
    PROVE  Gains(p)
<1>0. LocalType
  BY TypeParts DEF TypeInv
<1>1. ASSUME NEW at \in Late, Goto(p, at), pc[p] \in Late,
             UNCHANGED <<target, batch>>, acked' = acked
      PROVE  Gains(p)
  <2>1. pc'[p] = at
    BY <1>0, <1>1 DEF Goto, LocalType
  <2> QED
    BY <1>1, <2>1, StoredLater DEF Gains
<1>2. ASSUME Refuse(p) PROVE Gains(p)
  BY <1>2, StoredDropped DEF Refuse, Gains, client
<1>3. ASSUME Answer(p), pc[p] \in Late PROVE Gains(p)
  <2>1. Owed(p) = {} /\ pc[p] \notin {"idle", "insert"}
    BY <1>3 DEF Owed, Late, Pipeline
  <2>2. Backed(p)
    BY <2>1, OwnDoc DEF Backed, HandlerStored
  <2> QED
    BY <1>3, <2>2 DEF Gains
<1>4. {"endWrite", "transcript", "persist", "endedRead", "endedWrite", "salvage",
       "result", "force"} \subseteq Late
  BY DEF Late, Pipeline
<1>5. CASE Insert(p) \/ EndWrite(p) \/ EndedRead(p) \/ EndedWrite(p) \/ Salvage(p)
  BY <1>1, <1>2, <1>4, <1>5 DEF Insert, EndWrite, EndedRead, EndedWrite, Salvage, client
<1>6. CASE Transcript(p) \/ Persist(p)
  BY <1>1, <1>4, <1>6 DEF Transcript, Persist, client
<1>7. CASE Result(p) \/ ForceEnd(p)
  BY <1>1, <1>3, <1>4, <1>7 DEF Result, ForceEnd, client
<1> QED
  BY <1>5, <1>6, <1>7

LEMMA GainsRecover ==
    ASSUME TypeInv, [Next]_vars, ~Checkpointing, NEW p \in Request, HandlerStored(p),
           RecoverRead(p) \/ RecoverPush(p) \/ RecoverCheck(p) \/ RecoverWrite(p)
    PROVE  Gains(p)
<1> DEFINE t == target[p]
           stored == ToSet(session'[t].messages)
<1>0. LocalType /\ SessionType
  BY TypeParts DEF TypeInv
<1>1. pc[p] \in Recovery /\ pc[p] \notin {"idle", "insert"}
  BY DEF RecoverRead, RecoverPush, RecoverCheck, RecoverWrite, Recovery
<1>2. t \in Session /\ Doc(p) \in SessionDoc /\ batch[p] \in SUBSET Message
      /\ left[p] \in SUBSET Message
  BY <1>1, Lookup
<1>3. ASSUME session'[t].status \notin {"none", "gone"}
      PROVE  Exists(t) /\ Stored(t) \subseteq stored
  BY <1>1, <1>3, OwnDoc
<1>4. ASSUME Refuse(p) PROVE Gains(p)
  BY <1>4, StoredDropped DEF Refuse, Gains, client
<1>5. ASSUME AfterRecovery(p),
             session'[t].status \notin {"none", "gone"} => batch[p] \subseteq stored
      PROVE  Gains(p)
  <2>1. CASE Answer(p)
    BY <1>5, <2>1 DEF Gains, Backed
  <2>2. ASSUME NEW at \in {"recoverCheck", "transcript"}, Goto(p, at),
               UNCHANGED <<client, target, batch, seen>>
        PROVE  Gains(p)
    <3>1. pc'[p] = at /\ at \in Late
      BY <1>0, <2>2 DEF Goto, LocalType, Late, Pipeline
    <3>2. HandlerStored(p)'
      BY <1>1, <1>5, <2>2, <3>1, StoredOwing DEF Owed
    <3> QED
      BY <2>2, <3>2 DEF Gains, client
  <2> QED
    BY <1>5, <2>1, <2>2 DEF AfterRecovery
<1>6. CASE RecoverRead(p)
  <2>1. CASE Recoverable(p) = {} /\ AfterRecovery(p)
    BY <1>3, <1>5, <2>1 DEF Recoverable
  <2>2. CASE /\ left' = [left EXCEPT ![p] = Recoverable(p)]
             /\ Goto(p, "recoverPush")
             /\ UNCHANGED <<client, target, batch, seen>>
    <3>1. pc'[p] = "recoverPush" /\ left'[p] = batch[p] \ Stored(t)
      BY <1>0, <2>2 DEF Goto, LocalType, Recoverable
    <3>2. HandlerStored(p)'
      BY <1>1, <1>3, <2>2, <3>1, StoredOwing DEF Owed
    <3> QED
      BY <2>2, <3>2 DEF Gains, client
  <2> QED
    BY <1>4, <1>6, <2>1, <2>2 DEF RecoverRead
<1>7. CASE RecoverPush(p)
  <2>1. ASSUME session'[t].status \notin {"none", "gone"} PROVE batch[p] \subseteq stored
    <3>1. PICK q \in Listings(left[p]) : Update(p, Pushed(Doc(p), q))
      BY <1>7 DEF RecoverPush
    <3>2. session'[t] = Pushed(Doc(p), q) /\ Exists(t)
      BY <1>0, <1>2, <1>3, <2>1, <3>1 DEF Update, SessionType
    <3>3. q \in Seq(Message) /\ ToSet(q) = left[p]
      BY <1>2, ListingType
    <3>4. left[p] \subseteq stored
      BY <1>2, <3>2, <3>3, PushedType
    <3>5. batch[p] \ left[p] \subseteq Stored(t)
      BY <1>7, <3>2 DEF RecoverPush, HandlerStored, Owed
    <3> QED
      BY <1>3, <2>1, <3>4, <3>5
  <2> QED
    BY <1>5, <1>7, <2>1 DEF RecoverPush
<1>8. CASE RecoverCheck(p) \/ RecoverWrite(p)
  <2>1. /\ pc[p] \in Late /\ UNCHANGED <<client, target, batch>>
        /\ \E at \in {"recoverWrite", "transcript", "force"} : Goto(p, at)
    BY <1>8 DEF RecoverCheck, RecoverWrite, Late
  <2>2. pc'[p] \in Late
    BY <1>0, <2>1 DEF Goto, LocalType, Late, Pipeline
  <2> QED
    BY <2>1, <2>2, StoredLater DEF Gains, client
<1> QED
  BY <1>6, <1>7, <1>8

LEMMA GainsFails ==
    ASSUME TypeInv, [Next]_vars, ~Checkpointing, NEW p \in Request, HandlerStored(p),
           CallFails(p)
    PROVE  Gains(p)
<1>0. LocalType
  BY TypeParts DEF TypeInv
<1>1. CASE Refuse(p)
  BY <1>1, StoredDropped DEF Refuse, Gains, client
<1>2. CASE /\ Catcher(pc[p]) # "idle" /\ Goto(p, Catcher(pc[p]))
           /\ UNCHANGED <<client, target, batch, left, seen>>
  <2>1. pc'[p] = Catcher(pc[p])
    BY <1>0, <1>2 DEF Goto, LocalType
  <2>2. CASE pc[p] = "push"
    <3>1. pc'[p] = "retry" /\ left'[p] = batch[p]
      BY <1>2, <2>1, <2>2 DEF Catcher, HandlerStored
    <3>2. HandlerStored(p)'
      BY <1>2, <2>2, <3>1, StoredOwing DEF Owed
    <3> QED
      BY <1>2, <3>2 DEF Gains, client
  <2>3. CASE pc[p] # "push"
    <3>1. pc[p] \in Late /\ pc'[p] \in {"force", "salvage"}
      BY <1>2, <2>1, <2>3 DEF Catcher, Late, Pipeline
    <3>2. pc'[p] \in Late
      BY <3>1 DEF Late, Pipeline
    <3> QED
      BY <1>2, <3>1, <3>2, StoredLater DEF Gains, client
  <2> QED
    BY <2>2, <2>3
<1> QED
  BY <1>1, <1>2 DEF CallFails

LEMMA Gaining ==
    ASSUME TypeInv, [Next]_vars, "checkpoint" \notin Ops, ~Checkpointing,
           NoCheckpoint', NEW p \in Request, HandlerStored(p), Acts(p)
    PROVE  Gains(p)
<1>1. ~Replace(p)
  BY DEF Replace, Checkpointing
<1> QED
  BY <1>1, GainsBegin, GainsAppend, GainsEnd, GainsRecover, GainsFails DEF Acts, Begin,
     Step

LEMMA AckedInit == Init => AckedInv
<1> SUFFICES ASSUME Init PROVE AckedInv
  OBVIOUS
<1>1. /\ \A p \in Request : pc[p] = "idle" /\ batch[p] = {}
      /\ \A s \in Session : acked[s] = {}
  BY DEF Init
<1>2. NoCheckpoint /\ NoRecovery
  BY <1>1 DEF NoCheckpoint, NoRecovery, Checkpointing, Recovery
<1> QED
  BY <1>1, <1>2, TypeInit DEF AckedInv, HandlerStored, AckedStored

LEMMA AckedStep == "checkpoint" \notin Ops /\ AckedInv /\ [Next]_vars => AckedInv'
<1> SUFFICES ASSUME "checkpoint" \notin Ops, AckedInv, [Next]_vars PROVE AckedInv'
  OBVIOUS
<1>0. TypeInv /\ ~Checkpointing /\ AckedStored
  BY DEF AckedInv, NoCheckpoint
<1>1. TypeInv' /\ Remembered /\ NoCheckpoint' /\ NoRecovery'
  BY <1>0, TypeStep, Absent DEF AckedInv
<1>2. \A p \in Request : HandlerStored(p)
  BY DEF AckedInv
<1>3. ASSUME NEW p \in Request PROVE HandlerStored(p)'
  <2>1. CASE Acts(p)
    <3>1. Gains(p)
      BY <1>0, <1>1, <1>2, <2>1, Gaining
    <3>2. Answer(p) => HandlerStored(p)'
      BY <1>0, StoredDropped DEF Answer
    <3> QED
      BY <3>1, <3>2 DEF Gains
  <2>2. CASE pc'[p] = "idle" /\ batch'[p] = {}
    BY <2>2 DEF HandlerStored
  <2>3. CASE Rests(p)
    BY <1>0, <1>2, <2>3, StoredRests
  <2> QED
    BY <1>0, <2>1, <2>2, <2>3, OwnStep DEF Acts
<1>4. \/ acked' = acked
      \/ \E p \in Request : Acts(p) /\ Answer(p) /\ Backed(p)
  <2>1. CASE \E p \in Request : Acts(p)
    BY <1>0, <1>1, <1>2, <2>1, Gaining DEF Gains
  <2>2. CASE ~\E p \in Request : Acts(p)
    BY <2>2 DEF Next, Acts, Delete, Restart, TimePasses, Sweep, vars, client
  <2> QED
    BY <2>1, <2>2
<1>5. ASSUME NEW s \in Session
      PROVE  \/ acked'[s] = acked[s]
             \/ \E p \in Request : /\ Acts(p) /\ Backed(p) /\ target[p] = s
                                   /\ acked'[s] = acked[s] \cup batch[p]
  BY <1>0, <1>4 DEF Answer, TypeInv, TypeOK
<1>6. ASSUME NEW s \in Session, session'[s].status = "none" PROVE acked'[s] = {}
  <2>1. session[s].status = "none" /\ acked[s] = {}
    BY <1>1, <1>6 DEF Remembered, AckedInv
  <2>2. ASSUME NEW p \in Request, target[p] = s PROVE batch[p] = {}
    BY <1>0, <1>2, <2>1, <2>2 DEF TypeInv, Placed, HandlerStored
  <2> QED
    BY <1>5, <2>1, <2>2
<1>7. ASSUME NEW s \in Session, session'[s].status \notin {"none", "gone"}
      PROVE  acked'[s] \subseteq ToSet(session'[s].messages)
  <2>1. CASE session[s].status = "none"
    <3>1. acked[s] = {}
      BY <2>1 DEF AckedInv
    <3>2. ASSUME NEW p \in Request, target[p] = s PROVE batch[p] = {}
      BY <1>0, <1>2, <2>1, <3>2 DEF TypeInv, Placed, HandlerStored
    <3> QED
      BY <1>5, <3>1, <3>2
  <2>2. CASE session[s].status # "none"
    <3>1. acked[s] \subseteq ToSet(session'[s].messages)
      BY <1>0, <1>7, <2>2, Grown DEF AckedStored
    <3> QED
      BY <1>5, <1>7, <3>1 DEF Backed
  <2> QED
    BY <2>1, <2>2
<1> QED
  BY <1>1, <1>3, <1>6, <1>7 DEF AckedInv, AckedStored, Exists, Stored

\* Without checkpoints, which replace the whole list, every message a client
\* was told is persisted stays in the document while that exists.
THEOREM AckedIsStored ==
    ASSUME "checkpoint" \notin Ops
    PROVE  Spec => []AckedStored
<1>1. Init => AckedInv
  BY AckedInit
<1>2. AckedInv /\ [Next]_vars => AckedInv'
  BY AckedStep
<1>3. AckedInv => AckedStored
  BY DEF AckedInv
<1> QED
  BY <1>1, <1>2, <1>3, PTL DEF Spec

-----------------------------------------------------------------------------
(* The summary of a session that ended is made from what it holds.         *)

\* A summary is written once appends are over, of the list as it stays.
DocWhole(d) == d.summed => d.status # "active" /\ d.of \in Summaries(d.messages)

\* A handler in the pipeline found its session in ending, or later; the
\* transcript it read is still that of the session.
HandlerWhole(p) ==
    pc[p] \in Pipeline /\ Exists(target[p]) =>
        /\ Doc(p).status # "active"
        /\ pc[p] = "persist" => left[p] \in Summaries(Doc(p).messages)

WholeInv ==
    /\ AccountedInv
    /\ NoCheckpoint /\ NoRecovery
    /\ \A s \in Session : DocWhole(session[s])
    /\ \A p \in Request : HandlerWhole(p)

\* With no checkpoint and no recovery, messages come to active sessions only.
LEMMA Frozen ==
    ASSUME TypeInv, [Next]_vars, ~Checkpointing,
           \A p \in Request : pc[p] \notin Recovery,
           NEW s \in Session, session[s].status # "active",
           session[s].status # "none", session'[s].status \notin {"none", "gone"}
    PROVE  /\ session'[s].status # "active"
           /\ session'[s].messages = session[s].messages
<1>1. session'[s].status # "active"
  BY Grown
<1>2. ASSUME NEW q PROVE ~Appends(s, q)
  <2>1. ASSUME NEW p \in Request, target[p] = s
        PROVE  ~Pushable(Doc(p)) /\ pc[p] # "recoverPush" /\ \A m : ~Missing(p, m)
    BY <2>1 DEF Pushable, Missing, Doc, Recovery
  <2> QED
    BY <2>1 DEF Appends
<1>3. Deleted.status = "gone"
  BY DEF Deleted, Fresh
<1> QED
  BY <1>1, <1>2, <1>3, DocSteps, Messages

\* Where a handler in the pipeline came from.
LEMMA Enrolled ==
    ASSUME TypeInv, NEW q \in Request, Acts(q), pc'[q] \in Pipeline
    PROVE  /\ target'[q] = target[q]
           /\ \/ pc[q] \in Pipeline
              \/ EndWrite(q)
              \/ pc[q] \in Recovery
           /\ pc'[q] = "persist" => Transcript(q)
<1>0. LocalType
  BY TypeParts DEF TypeInv
<1>1. ASSUME NEW at, Goto(q, at) PROVE pc'[q] = at
  BY <1>0, <1>1 DEF Goto, LocalType
<1>2. ~Drop(q)
  BY <1>0 DEF Drop, LocalType, Pipeline
<1>3. ~Refuse(q) /\ ~Answer(q)
  BY <1>2 DEF Refuse, Answer
<1>4. pc'[q] \notin {"idle", "insert", "push", "endWrite", "replace", "retry", "retryCheck"}
      /\ pc'[q] \notin Recovery
  BY DEF Pipeline, Recovery
<1>5. ~Begin(q)
  <2>1. Begin(q) => pc'[q] \in {"insert", "push", "endWrite", "replace", "recoverRead"}
    BY <1>1 DEF Begin, Cleanup, BeginAppend, Resend, AcceptTurn, BeginCheckpoint,
       BeginEnd, BeginRecover
  <2> QED
    BY <1>4, <2>1 DEF Recovery
<1>6. ASSUME NEW m PROVE ~Advance(q, m)
  BY <1>1, <1>3, <1>4, <1>6 DEF Advance
<1>7. ~Insert(q) /\ ~Push(q) /\ ~Replace(q) /\ ~LostReply(q) /\ ~Retry(q)
      /\ ~RetryCheck(q) /\ ~ForceEnd(q)
  BY <1>1, <1>3, <1>4, <1>6, Zenon
     DEF Insert, Push, Replace, LostReply, Retry, RetryCheck, ForceEnd
<1>8. CASE EndWrite(q)
  BY <1>1, <1>3, <1>8 DEF EndWrite
<1>9. CASE Transcript(q)
  BY <1>1, <1>9 DEF Transcript, Pipeline
<1>10. CASE Persist(q) \/ EndedRead(q) \/ EndedWrite(q) \/ Salvage(q) \/ Result(q)
  BY <1>1, <1>3, <1>10 DEF Persist, EndedRead, EndedWrite, Salvage, Result, Pipeline
<1>11. CASE RecoverRead(q) \/ RecoverPush(q) \/ RecoverCheck(q) \/ RecoverWrite(q)
  <2>1. pc[q] \in Recovery
    BY <1>11 DEF RecoverRead, RecoverPush, RecoverCheck, RecoverWrite, Recovery
  <2>2. AfterRecovery(q) => pc'[q] \in {"transcript", "recoverCheck"} /\ target' = target
    BY <1>1, <1>3 DEF AfterRecovery
  <2>3. pc'[q] # "persist" /\ target' = target
    BY <1>1, <1>3, <1>11, <2>2, Zenon
       DEF RecoverRead, RecoverPush, RecoverCheck, RecoverWrite
  <2> QED
    BY <2>1, <2>3
<1>12. CASE CallFails(q)
  <2>1. Goto(q, Catcher(pc[q])) /\ Catcher(pc[q]) # "idle" /\ target' = target
    BY <1>3, <1>12 DEF CallFails
  <2>2. pc'[q] = Catcher(pc[q])
    BY <1>1, <2>1
  <2>3. pc[q] \in Pipeline \/ pc[q] \in Recovery
    BY <1>4, <2>1, <2>2 DEF Catcher, Pipeline, Recovery
  <2>4. pc'[q] # "persist"
    BY <2>2 DEF Catcher
  <2> QED
    BY <2>1, <2>3, <2>4
<1> QED
  BY <1>5, <1>7, <1>8, <1>9, <1>10, <1>11, <1>12 DEF Acts, Step

LEMMA WholeDoc ==
    ASSUME WholeInv, [Next]_vars, ~Checkpointing,
           \A p \in Request : pc[p] \notin Recovery, NEW s \in Session
    PROVE  DocWhole(session'[s])
<1>0. /\ DocStep(s) /\ session[s] \in SessionDoc /\ DocWhole(session[s])
      /\ \A p \in Request : HandlerWhole(p)
  BY DocSteps DEF WholeInv, AccountedInv, TypeInv, TypeOK
<1>1. CASE session'[s] = session[s] \/ session'[s] \in {Fresh, Deleted}
  BY <1>0, <1>1 DEF DocWhole, Fresh, Deleted
<1>2. CASE session'[s] = [session[s] EXCEPT !.old = TRUE]
  BY <1>0, <1>2 DEF DocWhole, SessionDoc
<1>3. CASE \E r \in Reason \ {"none"} : session'[s] = ForcedEnd(session[s], r)
  BY <1>0, <1>3 DEF DocWhole, ForcedEnd, SessionDoc
<1>4. ASSUME Exists(s), NEW p \in Request, target[p] = s, ByHandler(p, session'[s])
      PROVE  DocWhole(session'[s])
  <2>0. Doc(p) = session[s]
    BY <1>4 DEF Doc
  <2>1. CASE \/ session'[s] = Ending(Doc(p))
             \/ session'[s] = [Doc(p) EXCEPT !.status = "ended", !.old = FALSE]
    <3>1. /\ session'[s].messages = session[s].messages
          /\ session'[s].summed = session[s].summed /\ session'[s].of = session[s].of
          /\ session'[s].status \in {"ending", "ended"}
      BY <1>0, <2>0, <2>1 DEF Ending, SessionDoc
    <3> QED
      BY <1>0, <3>1 DEF DocWhole
  <2>2. CASE pc[p] = "persist" /\ session'[s] = Summed(p)
    <3>1. session[s].status # "active" /\ left[p] \in Summaries(session[s].messages)
      BY <1>0, <1>4, <2>0, <2>2 DEF HandlerWhole, Pipeline
    <3>2. Summed(p).messages = session[s].messages /\ Summed(p).status = session[s].status
          /\ Summed(p).of = left[p]
      BY <1>0, <2>0 DEF Summed, SessionDoc
    <3> QED
      BY <2>2, <3>1, <3>2 DEF DocWhole
  <2>3. ASSUME session[s].status = "active", NEW q, session'[s] = Pushed(session[s], q)
        PROVE  DocWhole(session'[s])
    <3>1. Pushed(session[s], q).summed = session[s].summed
      BY <1>0, Fields
    <3>2. session'[s].summed = session[s].summed
      BY <2>3, <3>1
    <3>3. ~session[s].summed
      BY <1>0, <2>3 DEF DocWhole
    <3> QED
      BY <3>2, <3>3 DEF DocWhole
  <2>4. pc[p] # "recoverPush" /\ pc[p] # "replace"
    BY DEF Checkpointing, Recovery
  <2> QED
    BY <1>4, <2>0, <2>1, <2>2, <2>3, <2>4 DEF ByHandler, Pushable, Missing
<1> QED
  BY <1>0, <1>1, <1>2, <1>3, <1>4 DEF DocStep

LEMMA WholeHandler ==
    ASSUME WholeInv, [Next]_vars, ~Checkpointing,
           \A p \in Request : pc[p] \notin Recovery, NEW q \in Request
    PROVE  HandlerWhole(q)'
<1>0. TypeInv /\ HandlerWhole(q)
  BY DEF WholeInv, AccountedInv
<1> SUFFICES ASSUME pc'[q] \in Pipeline, session'[target'[q]].status \notin {"none", "gone"}
             PROVE  /\ session'[target'[q]].status # "active"
                    /\ pc'[q] = "persist" =>
                          left'[q] \in Summaries(session'[target'[q]].messages)
  <2>1. \A ms, ms1 : ms = ms1 => Summaries(ms) = Summaries(ms1)
    OBVIOUS
  <2> QED
    BY <2>1 DEF HandlerWhole, Exists, Doc
<1>1. ASSUME pc[q] \in Pipeline, target'[q] = target[q]
      PROVE  /\ session'[target[q]].status # "active"
             /\ session'[target[q]].messages = session[target[q]].messages
             /\ Exists(target[q])
  <2>1. pc[q] \notin {"idle", "insert"}
    BY <1>1 DEF Pipeline
  <2>2. target[q] \in Session /\ Exists(target[q])
    BY <1>0, <1>1, <2>1, OwnDoc
  <2>3. session[target[q]].status # "active"
    BY <1>0, <1>1, <2>2 DEF HandlerWhole, Doc
  <2> QED
    BY <1>0, <1>1, <2>2, <2>3, Frozen DEF Exists
<1>2. CASE Acts(q)
  <2>1. /\ target'[q] = target[q]
        /\ pc[q] \in Pipeline \/ EndWrite(q)
        /\ pc'[q] = "persist" => Transcript(q)
    BY <1>0, <1>2, Enrolled
  <2>2. CASE Transcript(q)
    <3>1. pc[q] \in Pipeline /\ left'[q] \in Summaries(Doc(q).messages)
      BY <1>0, <2>2 DEF Transcript, Pipeline, TypeInv, TypeOK
    <3> QED
      BY <1>1, <2>1, <3>1 DEF Doc
  <2>3. CASE EndWrite(q)
    <3>1. pc[q] = "endWrite" /\ Update(q, Ending(Doc(q)))
      BY <2>3 DEF EndWrite
    <3>2. target[q] \in Session /\ Exists(target[q]) /\ Doc(q) \in SessionDoc
      BY <1>0, <2>1, <3>1, OwnDoc, Lookup
    <3>3. session'[target[q]] = Ending(Doc(q))
      BY <1>0, <3>1, <3>2 DEF Update, TypeInv, TypeOK
    <3>4. ~Transcript(q)
      BY <3>1 DEF Transcript
    <3> QED
      BY <2>1, <3>2, <3>3, <3>4, Fields
  <2> QED
    BY <1>1, <2>1, <2>2, <2>3
<1>3. CASE Rests(q)
  BY <1>0, <1>1, <1>3 DEF Rests, HandlerWhole, Doc
<1>4. CASE pc'[q] = "idle"
  BY <1>4 DEF Pipeline
<1> QED
  BY <1>0, <1>2, <1>3, <1>4, OwnStep DEF Acts

LEMMA WholeInit == Init => WholeInv
<1> SUFFICES ASSUME Init PROVE WholeInv
  OBVIOUS
<1>1. /\ \A p \in Request : pc[p] = "idle"
      /\ \A s \in Session : session[s].summed = FALSE
  BY DEF Init, Unborn, Fresh
<1> QED
  BY <1>1, AccountedInit DEF WholeInv, NoCheckpoint, NoRecovery, Checkpointing, Recovery,
     DocWhole, HandlerWhole, Pipeline

LEMMA WholeStep ==
    "checkpoint" \notin Ops /\ "recover" \notin Ops /\ WholeInv /\ [Next]_vars => WholeInv'
<1> SUFFICES ASSUME "checkpoint" \notin Ops, "recover" \notin Ops, WholeInv, [Next]_vars
             PROVE  WholeInv'
  OBVIOUS
<1>1. AccountedInv /\ ~Checkpointing /\ \A p \in Request : pc[p] \notin Recovery
  BY DEF WholeInv, NoCheckpoint, NoRecovery
<1>2. AccountedInv'
  BY <1>1, TypeStep, SummedStep, AccountedStep DEF AccountedInv
<1>3. NoCheckpoint' /\ NoRecovery'
  BY Absent DEF WholeInv, AccountedInv
<1>4. \A s \in Session : DocWhole(session'[s])
  BY <1>1, WholeDoc
<1>5. \A p \in Request : HandlerWhole(p)'
  BY <1>1, WholeHandler
<1>6. (\A s \in Session : DocWhole(session[s]))'
  BY <1>4 DEF DocWhole
<1> QED
  BY <1>2, <1>3, <1>5, <1>6 DEF WholeInv

\* Without checkpoints and recoveries, a session that ended without a failure
\* has a summary made from the messages it holds, not from an earlier stand:
\* of the most recent that fit the prompt, or of the first and last question.
THEOREM SummaryIsWhole ==
    ASSUME "checkpoint" \notin Ops, "recover" \notin Ops
    PROVE  Spec => []SummaryComplete
<1>1. Init => WholeInv
  BY WholeInit
<1>2. WholeInv /\ [Next]_vars => WholeInv'
  BY WholeStep
<1>3. WholeInv => SummaryComplete
  BY DEF WholeInv, AccountedInv, EndedAccounted, SummaryComplete, DocWhole
<1> QED
  BY <1>1, <1>2, <1>3, PTL DEF Spec

-----------------------------------------------------------------------------
(* A call stores each of its messages once.                                *)

Sending == {"push", "retry", "retryCheck", "replace", "recoverRead", "recoverPush"}

\* The messages a handler is going to store whether they are there or not.
Blind(p) ==
    IF pc[p] \in {"push", "replace", "recoverRead"} THEN batch[p]
    ELSE IF pc[p] = "recoverPush" THEN left[p] ELSE {}

\* The handlers that carry message m for session s, and those that will store
\* it blindly.
Carriers(s, m) ==
    {p \in Request : target[p] = s /\ pc[p] \in Sending /\ m \in batch[p]}
Pushers(s, m) == {p \in Request : target[p] = s /\ m \in Blind(p)}

HandlerSends(p) ==
    pc[p] \in {"push", "retry", "retryCheck", "recoverPush"} => left[p] \subseteq batch[p]

\* Each copy, and each blind write to come, is due to a call of its own; and so
\* is each handler that still carries the message.
Paid(s, m) ==
    /\ Cardinality(Copies(s, m)) + Cardinality(Pushers(s, m)) <= sent[s][m]
    /\ Cardinality(Carriers(s, m)) <= sent[s][m]

OnceInv ==
    /\ TypeInv
    /\ \A p \in Request : HandlerSends(p)
    /\ \A s \in Session : \A m \in Message : Paid(s, m)

\* The places of a message in a list.
Places(q, m) == {i \in DOMAIN q : q[i] = m}

LEMMA PlacesJoined ==
    ASSUME NEW a \in Seq(Message), NEW b \in Seq(Message), IsInjective(b), NEW m
    PROVE  /\ IsFiniteSet(Places(a, m)) /\ IsFiniteSet(Places(a \o b, m))
           /\ m \notin ToSet(b) => Places(a \o b, m) = Places(a, m)
           /\ Cardinality(Places(a \o b, m)) <= Cardinality(Places(a, m)) + 1
<1>1. /\ Len(a) \in Nat /\ Len(b) \in Nat
      /\ DOMAIN a = 1 .. Len(a) /\ DOMAIN b = 1 .. Len(b)
      /\ DOMAIN (a \o b) = 1 .. Len(a) + Len(b)
  OBVIOUS
<1>2. ASSUME NEW i \in 1 .. Len(a) + Len(b)
      PROVE  (a \o b)[i] = IF i <= Len(a) THEN a[i] ELSE b[i - Len(a)]
  BY <1>1
<1>3. \A i \in 1 .. Len(a) + Len(b) : i <= Len(a) \/ i - Len(a) \in 1 .. Len(b)
  BY <1>1
<1>4. 1 .. Len(a) \subseteq 1 .. Len(a) + Len(b) /\ \A i \in 1 .. Len(a) : i <= Len(a)
  BY <1>1
<1>5. IsFiniteSet(1 .. Len(a)) /\ IsFiniteSet(1 .. Len(a) + Len(b))
  BY <1>1, FS_Interval
<1>6. IsFiniteSet(Places(a, m)) /\ IsFiniteSet(Places(a \o b, m))
  BY <1>1, <1>5, FS_Subset DEF Places
<1>7. Cardinality(Places(a, m)) \in Nat
  BY <1>6, FS_CardinalityType
<1>8. CASE m \notin ToSet(b)
  <2>1. \A i \in 1 .. Len(b) : b[i] # m
    BY <1>1, <1>8 DEF ToSet
  <2>2. Places(a \o b, m) = {i \in 1 .. Len(a) : (a \o b)[i] = m}
    BY <1>1, <1>2, <1>3, <1>4, <2>1 DEF Places
  <2>3. \A i \in 1 .. Len(a) : (a \o b)[i] = a[i]
    BY <1>2, <1>4
  <2>4. Places(a \o b, m) = Places(a, m)
    BY <1>1, <2>2, <2>3 DEF Places
  <2> QED
    BY <1>6, <1>7, <2>4
<1>9. CASE m \in ToSet(b)
  <2>1. PICK k \in 1 .. Len(b) : b[k] = m
    BY <1>1, <1>9 DEF ToSet
  <2>2. \A i \in 1 .. Len(b) : b[i] = m => i = k
    BY <1>1, <2>1 DEF IsInjective
  <2>3. \A i \in 1 .. Len(a) + Len(b) : i > Len(a) /\ (a \o b)[i] = m => i = Len(a) + k
    <3>1. ASSUME NEW i \in 1 .. Len(a) + Len(b), i > Len(a), (a \o b)[i] = m
          PROVE  i = Len(a) + k
      <4>1. i - Len(a) \in 1 .. Len(b) /\ b[i - Len(a)] = m
        BY <1>1, <1>2, <3>1
      <4>2. i - Len(a) = k
        BY <2>2, <4>1
      <4> QED
        BY <1>1, <4>2
    <3> QED
      BY <3>1
  <2>4. Places(a \o b, m) \subseteq Places(a, m) \cup {Len(a) + k}
    BY <1>1, <1>2, <2>3 DEF Places
  <2>5. /\ IsFiniteSet(Places(a, m) \cup {Len(a) + k})
        /\ Cardinality(Places(a, m) \cup {Len(a) + k}) \in
              {Cardinality(Places(a, m)), Cardinality(Places(a, m)) + 1}
    BY <1>6, FS_AddElement
  <2>6. Cardinality(Places(a \o b, m)) <= Cardinality(Places(a, m) \cup {Len(a) + k})
    BY <2>4, <2>5, FS_Subset
  <2>7. Cardinality(Places(a \o b, m)) \in Nat
    BY <1>6, FS_CardinalityType
  <2> QED
    BY <1>6, <1>7, <1>9, <2>5, <2>6, <2>7
<1> QED
  BY <1>8, <1>9

LEMMA PlacesFinite ==
    ASSUME NEW q \in Seq(Message), NEW m
    PROVE  IsFiniteSet(Places(q, m))
<1>1. DOMAIN q = 1 .. Len(q) /\ Len(q) \in Nat
  OBVIOUS
<1>2. IsFiniteSet(1 .. Len(q)) /\ Places(q, m) \in SUBSET (1 .. Len(q))
  BY <1>1, FS_Interval DEF Places
<1> QED
  BY <1>2, FS_Subset

LEMMA PlacesOnce ==
    ASSUME NEW b \in Seq(Message), IsInjective(b), NEW m
    PROVE  /\ m \notin ToSet(b) => Places(b, m) = {}
           /\ Cardinality(Places(b, m)) <= 1
<1> DEFINE e == <<>>
<1>1. e \in Seq(Message) /\ e \o b = b
  OBVIOUS
<1>2. Places(e, m) = {}
  BY DEF Places
<1>3. Cardinality(Places(e, m)) = 0
  BY <1>2, FS_EmptySet
<1> HIDE DEF e
<1>4. /\ m \notin ToSet(b) => Places(e \o b, m) = Places(e, m)
      /\ Cardinality(Places(e \o b, m)) <= Cardinality(Places(e, m)) + 1
  BY <1>1, PlacesJoined
<1>5. Cardinality(Places(b, m)) <= 0 + 1
  BY <1>1, <1>3, <1>4
<1> QED
  BY <1>1, <1>2, <1>4, <1>5

\* A handler goes on with what it carries, or with less, or has nothing left.
Narrows(p) ==
    pc'[p] \in Sending =>
        /\ pc[p] \in Sending /\ target'[p] = target[p] /\ batch'[p] = batch[p]
        /\ Blind(p)' \subseteq Blind(p)
        /\ HandlerSends(p)'

\* A handler begins with what its call carries.
Calls(p) ==
    \E s \in Session : \E messages \in SUBSET Message :
        /\ pc[p] = "idle" /\ target' = [target EXCEPT ![p] = s]
        /\ Carry(p, s, messages)
        /\ pc'[p] \in {"push", "replace", "recoverRead"}
        /\ pc'[p] = "push" => left'[p] = messages
        /\ UNCHANGED session

\* No list of messages changes, but may be gone with its document.
Still == \A s \in Session : session'[s].messages \in {session[s].messages, <<>>}

\* A handler stores what it carries blindly, once; or one message it found
\* missing.
Stores(p) ==
    \/ /\ pc[p] \in {"push", "recoverPush"} /\ Blind(p)' = {}
       /\ \E q \in Listings(Blind(p)) : Update(p, Pushed(Doc(p), q))
    \/ /\ pc[p] = "replace" /\ Blind(p)' = {}
       /\ \E q \in Listings(batch[p]) :
             Update(p, [Doc(p) EXCEPT !.messages = q, !.old = FALSE])
    \/ /\ pc[p] = "retry" /\ Blind(p)' = {}
       /\ \E m \in left[p] : /\ m \notin Stored(target[p])
                             /\ Update(p, Pushed(Doc(p), <<m>>))

LEMMA Sends ==
    ASSUME TypeInv, NEW p \in Request, Acts(p), HandlerSends(p)
    PROVE  \/ Calls(p)
           \/ sent' = sent /\ Narrows(p) /\ (Still \/ Stores(p))
<1>0. LocalType /\ ClientType /\ session \in [Session -> SessionDoc]
  BY TypeParts DEF TypeInv, SessionType
<1>1. ASSUME NEW at, Goto(p, at) PROVE pc'[p] = at
  BY <1>0, <1>1 DEF Goto, LocalType
<1>2. ASSUME Refuse(p) \/ Answer(p) PROVE pc'[p] = "idle" /\ sent' = sent
  BY <1>0, <1>2 DEF Refuse, Answer, Drop, LocalType, client
<1>3. ASSUME pc'[p] \notin Sending PROVE Narrows(p) /\ Blind(p)' = {}
  BY <1>3 DEF Narrows, Blind, Sending
<1>4. {"idle", "insert", "endWrite", "recoverCheck", "recoverWrite"} \cap Sending = {}
      /\ Pipeline \cap Sending = {}
  BY DEF Sending, Pipeline
<1>5. UNCHANGED session => Still
  BY DEF Still
<1>6. ASSUME NEW d, Update(p, d), d.messages = Doc(p).messages PROVE Still
  BY <1>0, <1>6 DEF Update, Doc, Still
<1>7. CASE Begin(p)
  <2>1. CASE Cleanup(p)
    <3>1. Still
      BY <1>0, <2>1 DEF Cleanup, ForcedEnd, SessionDoc, Still
    <3> QED
      BY <1>1, <1>3, <1>4, <2>1, <3>1 DEF Cleanup
  <2>2. CASE BeginEnd(p)
    BY <1>1, <1>3, <1>4, <1>5, <2>2 DEF BeginEnd
  <2>3. ASSUME NEW s \in Session, NEW k \in 1 .. MaxTurns, NEW op, Call(p, op, s),
               AcceptTurn(p, s, k)
        PROVE  Calls(p)
    <3>1. Turn(k) \in SUBSET Message
      BY TurnType
    <3>2. /\ pc'[p] = "push" /\ left'[p] = Turn(k) /\ Carry(p, s, Turn(k))
          /\ pc[p] = "idle" /\ target' = [target EXCEPT ![p] = s] /\ UNCHANGED session
      BY <1>0, <1>1, <2>3 DEF AcceptTurn, Call, LocalType
    <3> QED
      BY <3>1, <3>2 DEF Calls
  <2>4. CASE BeginAppend(p)
    <3>1. PICK s \in Session : /\ Call(p, "append", s) /\ typed[s] < MaxTurns
                               /\ AcceptTurn(p, s, typed[s] + 1)
      BY <2>4 DEF BeginAppend
    <3>2. typed[s] + 1 \in 1 .. MaxTurns
      BY <1>0, <3>1, BoundAssumption DEF ClientType
    <3> QED
      BY <2>3, <3>1, <3>2
  <2>5. CASE Resend(p)
    <3>1. PICK s \in Session : \E k \in 1 .. typed[s] :
              Call(p, "resend", s) /\ AcceptTurn(p, s, k)
      BY <2>5 DEF Resend
    <3>2. 1 .. typed[s] \subseteq 1 .. MaxTurns
      BY <1>0, BoundAssumption DEF ClientType
    <3> QED
      BY <2>3, <3>1, <3>2
  <2>6. CASE BeginCheckpoint(p)
    <3>1. PICK s \in Session : /\ Call(p, "checkpoint", s) /\ typed[s] > 0
                               /\ Carry(p, s, Turns(typed[s])) /\ Goto(p, "replace")
                               /\ UNCHANGED session
      BY <2>6 DEF BeginCheckpoint
    <3>2. typed[s] \in 1 .. MaxTurns
      BY <1>0, <3>1, BoundAssumption DEF ClientType
    <3>3. Turns(typed[s]) \in SUBSET Message
      BY <3>2, TurnType
    <3> QED
      BY <1>1, <3>1, <3>3 DEF Calls, Call
  <2>7. CASE BeginRecover(p)
    <3>1. PICK s \in Session : \E ks \in SUBSET (1 .. typed[s]) :
              /\ Call(p, "recover", s) /\ Carry(p, s, UNION {Turn(k) : k \in ks})
              /\ Goto(p, "recoverRead") /\ UNCHANGED session
      BY <2>7 DEF BeginRecover
    <3>2. PICK ks \in SUBSET (1 .. typed[s]) :
              /\ Call(p, "recover", s) /\ Carry(p, s, UNION {Turn(k) : k \in ks})
              /\ Goto(p, "recoverRead") /\ UNCHANGED session
      BY <3>1
    <3>3. ks \subseteq 1 .. MaxTurns
      BY <1>0, BoundAssumption DEF ClientType
    <3>4. UNION {Turn(k) : k \in ks} \in SUBSET Message
      BY <3>3, TurnType
    <3> QED
      BY <1>1, <3>2, <3>4 DEF Calls, Call
  <2> QED
    BY <1>7, <2>1, <2>2, <2>4, <2>5, <2>6, <2>7 DEF Begin
<1>8. ASSUME pc[p] \in {"push", "retry", "retryCheck"}, pc'[p] \in {"retry", "retryCheck"},
             UNCHANGED <<client, target, batch>>, left'[p] \subseteq left[p]
      PROVE  sent' = sent /\ Narrows(p) /\ Blind(p)' = {}
  <2>1. left'[p] \subseteq batch'[p]
    BY <1>8 DEF HandlerSends
  <2> QED
    BY <1>8, <2>1 DEF Narrows, HandlerSends, Blind, Sending, client
<1>9. ASSUME Refuse(p) \/ Answer(p) PROVE sent' = sent /\ Narrows(p) /\ Blind(p)' = {}
  BY <1>2, <1>3, <1>4, <1>9
<1>10. ASSUME NEW m, pc[p] \in {"retry", "retryCheck"}, Advance(p, m)
       PROVE  sent' = sent /\ Narrows(p) /\ Blind(p)' = {}
  <2>1. CASE Answer(p)
    BY <1>9, <2>1
  <2>2. CASE /\ left' = [left EXCEPT ![p] = @ \ {m}] /\ Goto(p, "retry")
             /\ UNCHANGED <<client, target, batch, seen>>
    BY <1>0, <1>1, <1>8, <1>10, <2>2 DEF LocalType
  <2> QED
    BY <1>10, <2>1, <2>2 DEF Advance
<1>11. ASSUME Push(p) \/ LostReply(p) \/ Retry(p) \/ RetryCheck(p)
       PROVE  sent' = sent /\ Narrows(p) /\ (Still \/ Stores(p))
  <2>1. ASSUME pc[p] = "push", Blind(p)' = {},
               \E q \in Listings(batch[p]) : Update(p, Pushed(Doc(p), q))
        PROVE  Stores(p)
    BY <2>1 DEF Stores, Blind
  <2>2. ASSUME NEW m \in left[p], pc[p] = "retry", Blind(p)' = {}, Missing(p, m),
               Update(p, Pushed(Doc(p), <<m>>))
        PROVE  Stores(p)
    BY <2>2 DEF Stores, Missing
  <2>3. CASE Push(p)
    <3>1. CASE Answer(p)
      BY <1>5, <1>9, <2>1, <2>3, <3>1 DEF Push
    <3>2. CASE Goto(p, "retry") /\ UNCHANGED <<session, client, target, batch, left, seen>>
      BY <1>1, <1>5, <1>8, <2>3, <3>2 DEF Push
    <3> QED
      BY <2>3, <3>1, <3>2 DEF Push
  <2>4. CASE LostReply(p)
    <3>1. CASE /\ pc[p] = "push" /\ Goto(p, "retry")
               /\ \E q \in Listings(batch[p]) : Update(p, Pushed(Doc(p), q))
               /\ UNCHANGED <<client, target, batch, left, seen>>
      BY <1>1, <1>8, <2>1, <3>1
    <3>2. CASE /\ pc[p] = "retry" /\ Refuse(p)
               /\ \E m \in left[p] : Missing(p, m) /\ Update(p, Pushed(Doc(p), <<m>>))
      BY <1>9, <2>2, <3>2
    <3> QED
      BY <2>4, <3>1, <3>2, Zenon DEF LostReply
  <2>5. CASE Retry(p)
    <3>1. CASE Goto(p, "retryCheck") /\ UNCHANGED <<session, client, target, batch, left, seen>>
      BY <1>1, <1>5, <1>8, <2>5, <3>1 DEF Retry
    <3>2. ASSUME NEW m \in left[p], Missing(p, m), Update(p, Pushed(Doc(p), <<m>>)),
                 Advance(p, m)
          PROVE  sent' = sent /\ Narrows(p) /\ (Still \/ Stores(p))
      BY <1>10, <2>2, <2>5, <3>2 DEF Retry
    <3> QED
      BY <2>5, <3>1, <3>2, Zenon DEF Retry
  <2>6. CASE RetryCheck(p)
    <3>1. Still /\ pc[p] = "retryCheck"
      BY <1>5, <2>6 DEF RetryCheck
    <3>2. Refuse(p) \/ \E m \in left[p] : Advance(p, m)
      BY <2>6 DEF RetryCheck
    <3> QED
      BY <1>9, <1>10, <3>1, <3>2
  <2> QED
    BY <1>11, <2>3, <2>4, <2>5, <2>6
<1>12. ASSUME pc[p] \notin {"idle", "insert"}
       PROVE  /\ Ending(Doc(p)).messages = Doc(p).messages
              /\ Summed(p).messages = Doc(p).messages
              /\ [Doc(p) EXCEPT !.status = "ended", !.old = FALSE].messages = Doc(p).messages
              /\ ForcedEnd(Doc(p), "failed").messages = Doc(p).messages
  <2>1. Doc(p) \in SessionDoc
    BY <1>12, Lookup
  <2> QED
    BY <2>1 DEF Ending, Summed, ForcedEnd, SessionDoc
<1>13. ASSUME \/ EndWrite(p) \/ Transcript(p) \/ Persist(p) \/ EndedRead(p) \/ EndedWrite(p)
              \/ Salvage(p) \/ Result(p) \/ ForceEnd(p) \/ RecoverCheck(p) \/ RecoverWrite(p)
       PROVE  sent' = sent /\ Narrows(p) /\ Still
  <2>1. Still
    BY <1>5, <1>6, <1>12, <1>13 DEF EndWrite, Transcript, Persist, EndedRead, EndedWrite,
       Salvage, Result, ForceEnd, RecoverCheck, RecoverWrite
  <2>2. \/ Refuse(p) \/ Answer(p)
        \/ client' = client /\ \E at \in Pipeline \cup {"recoverWrite"} : Goto(p, at)
    BY <1>13, Zenon DEF EndWrite, Transcript, Persist, EndedRead, EndedWrite,
       Salvage, Result, ForceEnd, RecoverCheck, RecoverWrite, Pipeline
  <2> QED
    BY <1>1, <1>3, <1>4, <1>9, <2>1, <2>2 DEF client
<1>14. ASSUME AfterRecovery(p) PROVE sent' = sent /\ Narrows(p) /\ Blind(p)' = {}
  <2>1. CASE Answer(p)
    BY <1>9, <2>1
  <2>2. CASE pc'[p] \in {"recoverCheck", "transcript"} /\ client' = client
    BY <1>3, <1>4, <2>2 DEF client, Pipeline
  <2> QED
    BY <1>1, <1>14, <2>1, <2>2 DEF AfterRecovery
<1>15. CASE RecoverRead(p)
  <2>1. Still
    BY <1>5, <1>15 DEF RecoverRead
  <2>2. CASE Refuse(p) \/ AfterRecovery(p)
    BY <1>9, <1>14, <2>1, <2>2
  <2>3. CASE /\ left' = [left EXCEPT ![p] = Recoverable(p)] /\ Goto(p, "recoverPush")
             /\ UNCHANGED <<client, target, batch, seen>>
    <3>1. left'[p] = Recoverable(p) /\ pc'[p] = "recoverPush" /\ pc[p] = "recoverRead"
      BY <1>0, <1>1, <1>15, <2>3 DEF RecoverRead, LocalType
    <3>2. Recoverable(p) \subseteq batch[p]
      BY DEF Recoverable
    <3> QED
      BY <2>1, <2>3, <3>1, <3>2 DEF Narrows, HandlerSends, Blind, Sending, client
  <2> QED
    BY <1>15, <2>2, <2>3 DEF RecoverRead
<1>16. CASE RecoverPush(p)
  <2>1. pc[p] = "recoverPush" /\ \E q \in Listings(Blind(p)) : Update(p, Pushed(Doc(p), q))
    BY <1>16 DEF RecoverPush, Blind
  <2> QED
    BY <1>14, <1>16, <2>1 DEF RecoverPush, Stores
<1>17. CASE Replace(p)
  BY <1>9, <1>17 DEF Replace, Stores
<1>18. CASE Insert(p)
  <2>1. Still
    BY <1>0, <1>18 DEF Insert, Still, Fresh
  <2> QED
    BY <1>9, <1>18, <2>1 DEF Insert
<1>19. CASE CallFails(p)
  <2>1. Still
    BY <1>5, <1>19 DEF CallFails
  <2>2. CASE Goto(p, Catcher(pc[p])) /\ UNCHANGED <<client, target, batch, left, seen>>
    <3>1. pc'[p] = Catcher(pc[p])
      BY <1>1, <2>2
    <3>2. CASE pc[p] = "push"
      BY <1>8, <2>1, <2>2, <3>1, <3>2 DEF Catcher
    <3>3. CASE pc[p] # "push"
      <4>1. Catcher(pc[p]) \in {"idle", "force", "salvage"}
        BY <3>3 DEF Catcher
      <4> QED
        BY <1>3, <1>4, <2>1, <2>2, <3>1, <4>1 DEF client, Pipeline
    <3> QED
      BY <3>2, <3>3
  <2> QED
    BY <1>9, <1>19, <2>1, <2>2 DEF CallFails
<1> QED
  BY <1>7, <1>11, <1>13, <1>15, <1>16, <1>17, <1>18, <1>19 DEF Acts, Step

\* Others rest: who carries a message, and who will store it blindly.
LEMMA Remaining ==
    ASSUME NEW s \in Session, NEW m \in Message,
           \A q \in Request : Rests(q) \/ pc'[q] = "idle" \/ Narrows(q)
    PROVE  Carriers(s, m)' \subseteq Carriers(s, m) /\ Pushers(s, m)' \subseteq Pushers(s, m)
<1>1. ASSUME NEW q \in Request, target'[q] = s, pc'[q] \in Sending, m \in batch'[q]
      PROVE  target[q] = s /\ pc[q] \in Sending /\ m \in batch[q]
  BY <1>1 DEF Rests, Narrows, Sending
<1>2. ASSUME NEW q \in Request, target'[q] = s, m \in Blind(q)'
      PROVE  target[q] = s /\ m \in Blind(q)
  <2>1. pc'[q] \in Sending
    BY <1>2 DEF Blind, Sending
  <2>2. CASE Rests(q)
    BY <1>2, <2>2 DEF Rests, Blind
  <2> QED
    BY <1>2, <2>1, <2>2 DEF Narrows, Sending
<1> QED
  BY <1>1, <1>2 DEF Carriers, Pushers

LEMMA Counts ==
    ASSUME NEW s \in Session, NEW m \in Message, TypeInv
    PROVE  /\ IsFiniteSet(Carriers(s, m)) /\ IsFiniteSet(Pushers(s, m))
           /\ Cardinality(Carriers(s, m)) \in Nat /\ Cardinality(Pushers(s, m)) \in Nat
           /\ Cardinality(Copies(s, m)) \in Nat /\ sent[s][m] \in Nat
           /\ Copies(s, m) = Places(session[s].messages, m)
           /\ session[s].messages \in Seq(Message)
<1>1. session[s].messages \in Seq(Message) /\ sent[s][m] \in Nat
  BY DEF TypeInv, TypeOK, SessionDoc
<1>2. Copies(s, m) = Places(session[s].messages, m)
  BY DEF Copies, Places
<1>3. IsFiniteSet(Copies(s, m))
  BY <1>1, <1>2, PlacesFinite
<1>4. IsFiniteSet(Carriers(s, m)) /\ IsFiniteSet(Pushers(s, m))
  <2>1. Carriers(s, m) \in SUBSET Request /\ Pushers(s, m) \in SUBSET Request
    BY DEF Carriers, Pushers
  <2> QED
    BY <2>1, RequestAssumption, FS_Subset
<1> QED
  BY <1>1, <1>2, <1>3, <1>4, FS_CardinalityType

\* The same of the next state.
LEMMA CountsNext ==
    ASSUME NEW s \in Session, NEW m \in Message, TypeInv'
    PROVE  /\ IsFiniteSet(Carriers(s, m)') /\ IsFiniteSet(Pushers(s, m)')
           /\ Cardinality(Carriers(s, m)') \in Nat /\ Cardinality(Pushers(s, m)') \in Nat
           /\ Cardinality(Copies(s, m)') \in Nat
           /\ Copies(s, m)' = Places(session'[s].messages, m)
<1>1. session'[s].messages \in Seq(Message)
  BY DEF TypeInv, TypeOK, SessionDoc
<1>2. Copies(s, m)' = Places(session'[s].messages, m)
  BY DEF Copies, Places
<1>3. IsFiniteSet(Copies(s, m)')
  BY <1>1, <1>2, PlacesFinite
<1>4. IsFiniteSet(Carriers(s, m)') /\ IsFiniteSet(Pushers(s, m)')
  <2>1. Carriers(s, m)' \in SUBSET Request /\ Pushers(s, m)' \in SUBSET Request
    BY DEF Carriers, Pushers
  <2> QED
    BY <2>1, RequestAssumption, FS_Subset
<1> QED
  BY <1>2, <1>3, <1>4, FS_CardinalityType

\* Handlers that go on and a list that has no more of the message.
LEMMA PaidFewer ==
    ASSUME OnceInv, TypeInv', NEW s \in Session, NEW m \in Message,
           Carriers(s, m)' \subseteq Carriers(s, m), Pushers(s, m)' \subseteq Pushers(s, m),
           sent'[s][m] = sent[s][m],
           Cardinality(Copies(s, m)') <= Cardinality(Copies(s, m))
    PROVE  Paid(s, m)'
<1>0. TypeInv /\ Paid(s, m)
  BY DEF OnceInv
<1> DEFINE c == Cardinality(Carriers(s, m))   c1 == Cardinality(Carriers(s, m)')
           b == Cardinality(Pushers(s, m))    b1 == Cardinality(Pushers(s, m)')
           k == Cardinality(Copies(s, m))     k1 == Cardinality(Copies(s, m)')
           n == sent[s][m]                    n1 == sent'[s][m]
<1>1. c1 <= c /\ b1 <= b
  BY <1>0, Counts, FS_Subset
<1>2. {c, b, k, n, c1, b1, k1} \subseteq Nat
  BY <1>0, Counts, CountsNext
<1>3. k + b <= n /\ c <= n /\ k1 <= k /\ n1 = n
  BY <1>0 DEF Paid
<1> HIDE DEF c, c1, b, b1, k, k1, n, n1
<1>4. k1 + b1 <= n1 /\ c1 <= n1
  BY <1>1, <1>2, <1>3
<1> QED
  BY <1>4 DEF Paid, c1, b1, k1, n1

\* A blind write is the end of one that was to come.
LEMMA PaidBlindly ==
    ASSUME OnceInv, TypeInv', NEW s \in Session, NEW m \in Message, NEW p \in Request,
           Carriers(s, m)' \subseteq Carriers(s, m), Pushers(s, m)' \subseteq Pushers(s, m),
           p \in Pushers(s, m), p \notin Pushers(s, m)', sent'[s][m] = sent[s][m],
           Cardinality(Copies(s, m)') <= Cardinality(Copies(s, m)) + 1
    PROVE  Paid(s, m)'
<1>0. TypeInv /\ Paid(s, m)
  BY DEF OnceInv
<1> DEFINE c == Cardinality(Carriers(s, m))   c1 == Cardinality(Carriers(s, m)')
           b == Cardinality(Pushers(s, m))    b1 == Cardinality(Pushers(s, m)')
           k == Cardinality(Copies(s, m))     k1 == Cardinality(Copies(s, m)')
           n == sent[s][m]                    n1 == sent'[s][m]
           rest == Pushers(s, m) \ {p}
<1>1. c1 <= c
  BY <1>0, Counts, FS_Subset
<1>2. IsFiniteSet(rest) /\ Cardinality(rest) = b - 1
  BY <1>0, Counts, FS_RemoveElement
<1>3. Pushers(s, m)' \in SUBSET rest
  OBVIOUS
<1>4. b1 <= b - 1
  BY <1>2, <1>3, FS_Subset
<1>5. {c, b, k, n, c1, b1, k1} \subseteq Nat
  BY <1>0, Counts, CountsNext
<1>6. k + b <= n /\ c <= n /\ k1 <= k + 1 /\ n1 = n
  BY <1>0 DEF Paid
<1> HIDE DEF c, c1, b, b1, k, k1, n, n1
<1>7. k1 + b1 <= n1 /\ c1 <= n1
  BY <1>1, <1>4, <1>5, <1>6
<1> QED
  BY <1>7 DEF Paid, c1, b1, k1, n1

\* A message found missing is written by a handler that carries it, and any
\* that will write it blindly carry it too.
LEMMA PaidMissing ==
    ASSUME OnceInv, TypeInv', NEW s \in Session, NEW m \in Message, NEW p \in Request,
           Carriers(s, m)' \subseteq Carriers(s, m), Pushers(s, m)' \subseteq Pushers(s, m),
           p \in Carriers(s, m), p \notin Pushers(s, m), sent'[s][m] = sent[s][m],
           Cardinality(Copies(s, m)') <= 1
    PROVE  Paid(s, m)'
<1>0. TypeInv /\ Paid(s, m)
  BY DEF OnceInv
<1> DEFINE c == Cardinality(Carriers(s, m))   c1 == Cardinality(Carriers(s, m)')
           b1 == Cardinality(Pushers(s, m)')  k1 == Cardinality(Copies(s, m)')
           n == sent[s][m]                    n1 == sent'[s][m]
           rest == Carriers(s, m) \ {p}
<1>1. c1 <= c
  BY <1>0, Counts, FS_Subset
<1>2. IsFiniteSet(rest) /\ Cardinality(rest) = c - 1
  BY <1>0, Counts, FS_RemoveElement
<1>3. Pushers(s, m) \subseteq Carriers(s, m)
  BY DEF OnceInv, HandlerSends, Pushers, Carriers, Blind, Sending
<1>4. Pushers(s, m)' \in SUBSET rest
  BY <1>3
<1>5. b1 <= c - 1
  BY <1>2, <1>4, FS_Subset
<1>6. {c, n, c1, b1, k1} \subseteq Nat
  BY <1>0, Counts, CountsNext
<1>7. c <= n /\ k1 <= 1 /\ n1 = n
  BY <1>0 DEF Paid
<1> HIDE DEF c, c1, b1, k1, n, n1
<1>8. k1 + b1 <= n1 /\ c1 <= n1
  BY <1>1, <1>5, <1>6, <1>7
<1> QED
  BY <1>8 DEF Paid, c1, b1, k1, n1

\* A call pays for what it carries.
LEMMA PaidCalling ==
    ASSUME OnceInv, TypeInv', NEW s \in Session, NEW m \in Message, NEW p \in Request,
           Calls(p), \A q \in Request : p # q => Rests(q)
    PROVE  Paid(s, m)'
<1>0. TypeInv /\ Paid(s, m)
  BY DEF OnceInv
<1>1. PICK t \in Session : \E messages \in SUBSET Message :
          /\ pc[p] = "idle" /\ target' = [target EXCEPT ![p] = t]
          /\ Carry(p, t, messages)
          /\ pc'[p] \in {"push", "replace", "recoverRead"}
          /\ UNCHANGED session
  BY DEF Calls
<1>2. PICK messages \in SUBSET Message :
          /\ pc[p] = "idle" /\ target' = [target EXCEPT ![p] = t]
          /\ Carry(p, t, messages)
          /\ pc'[p] \in {"push", "replace", "recoverRead"}
          /\ UNCHANGED session
  BY <1>1
<1>3. target'[p] = t /\ batch'[p] = messages /\ Blind(p)' = messages
  BY <1>0, <1>2 DEF Carry, TypeInv, TypeOK, Blind
<1>4. ASSUME NEW q \in Request, q # p
      PROVE  /\ target'[q] = target[q] /\ pc'[q] = pc[q] /\ batch'[q] = batch[q]
             /\ Blind(q)' = Blind(q)
  BY <1>4 DEF Rests, Blind
<1>5. Copies(s, m)' = Copies(s, m)
  BY <1>2 DEF Copies
<1>6. CASE s = t /\ m \in messages
  <2> DEFINE c == Cardinality(Carriers(s, m))   c1 == Cardinality(Carriers(s, m)')
             b == Cardinality(Pushers(s, m))    b1 == Cardinality(Pushers(s, m)')
             k == Cardinality(Copies(s, m))     k1 == Cardinality(Copies(s, m)')
             n == sent[s][m]                    n1 == sent'[s][m]
  <2>1. n1 = n + 1
    BY <1>0, <1>2, <1>6 DEF Carry, TypeInv, TypeOK
  <2>2. Carriers(s, m)' \in SUBSET (Carriers(s, m) \cup {p})
    BY <1>4 DEF Carriers
  <2>3. Pushers(s, m)' \in SUBSET (Pushers(s, m) \cup {p})
    BY <1>4 DEF Pushers
  <2>4. {c, b, k, n, c1, b1, k1} \subseteq Nat
    BY <1>0, Counts, CountsNext
  <2>5. /\ IsFiniteSet(Carriers(s, m) \cup {p}) /\ Cardinality(Carriers(s, m) \cup {p}) <= c + 1
        /\ IsFiniteSet(Pushers(s, m) \cup {p}) /\ Cardinality(Pushers(s, m) \cup {p}) <= b + 1
    <3>1. ASSUME NEW S, IsFiniteSet(S)
          PROVE  IsFiniteSet(S \cup {p}) /\ Cardinality(S \cup {p}) <= Cardinality(S) + 1
      <4>1. Cardinality(S) \in Nat
        BY <3>1, FS_CardinalityType
      <4> QED
        BY <3>1, <4>1, FS_AddElement
    <3> QED
      BY <1>0, <3>1, Counts
  <2>6. /\ c1 <= Cardinality(Carriers(s, m) \cup {p}) /\ b1 <= Cardinality(Pushers(s, m) \cup {p})
        /\ Cardinality(Carriers(s, m) \cup {p}) \in Nat /\ Cardinality(Pushers(s, m) \cup {p}) \in Nat
    BY <2>2, <2>3, <2>5, FS_Subset, FS_CardinalityType
  <2>7. k + b <= n /\ c <= n /\ k1 = k
    BY <1>0, <1>5 DEF Paid
  <2> HIDE DEF c, c1, b, b1, k, k1, n, n1
  <2>8. c1 <= c + 1 /\ b1 <= b + 1
    BY <2>4, <2>5, <2>6
  <2>9. k1 + b1 <= n1 /\ c1 <= n1
    BY <2>1, <2>4, <2>7, <2>8
  <2> QED
    BY <2>9 DEF Paid, c1, b1, k1, n1
<1>7. CASE ~(s = t /\ m \in messages)
  <2>1. sent'[s][m] = sent[s][m]
    BY <1>0, <1>2, <1>7 DEF Carry, TypeInv, TypeOK
  <2>2. Carriers(s, m)' \subseteq Carriers(s, m) /\ Pushers(s, m)' \subseteq Pushers(s, m)
    BY <1>3, <1>4, <1>7 DEF Carriers, Pushers
  <2>3. Cardinality(Copies(s, m)') <= Cardinality(Copies(s, m))
    BY <1>0, <1>5, Counts
  <2> QED
    BY <2>1, <2>2, <2>3, PaidFewer
<1> QED
  BY <1>6, <1>7

\* A write of a handler: its list and who is still to write.
LEMMA PaidStoring ==
    ASSUME OnceInv, TypeInv', NEW s \in Session, NEW m \in Message, NEW p \in Request,
           Stores(p), Narrows(p), \A q \in Request : p # q => Rests(q), sent' = sent
    PROVE  Paid(s, m)'
<1>0. TypeInv /\ HandlerSends(p) /\ session \in [Session -> SessionDoc]
  BY DEF OnceInv, TypeInv, TypeOK
<1>1. Carriers(s, m)' \subseteq Carriers(s, m) /\ Pushers(s, m)' \subseteq Pushers(s, m)
  BY Remaining
<1>2. pc[p] \in {"push", "recoverPush", "replace", "retry"} /\ Blind(p)' = {}
  BY DEF Stores
<1>3. p \notin Pushers(s, m)'
  BY <1>2 DEF Pushers
<1>4. /\ target[p] \in Session /\ Doc(p) \in SessionDoc
      /\ batch[p] \in SUBSET Message /\ left[p] \in SUBSET Message
  BY <1>0, <1>2, Lookup
<1>5. Blind(p) \in SUBSET Message
  BY <1>4 DEF Blind
<1>6. sent'[s][m] = sent[s][m]
  OBVIOUS
<1>7. /\ Copies(s, m) = Places(session[s].messages, m)
      /\ Copies(s, m)' = Places(session'[s].messages, m)
      /\ Cardinality(Copies(s, m)) \in Nat /\ Cardinality(Copies(s, m)') \in Nat
      /\ session[s].messages \in Seq(Message)
  BY <1>0, Counts, CountsNext
<1>8. CASE session'[s] = session[s]
  <2>1. Cardinality(Copies(s, m)') <= Cardinality(Copies(s, m))
    BY <1>7, <1>8
  <2> QED
    BY <1>1, <1>6, <2>1, PaidFewer
<1>9. CASE target[p] = s /\ Exists(s)
  <2>0. Doc(p) = session[s]
    BY <1>9 DEF Doc
  <2>1. ASSUME NEW d, Update(p, d) PROVE session'[s] = d
    BY <1>0, <1>9, <2>1 DEF Update
  <2>2. ASSUME pc[p] \in {"push", "recoverPush"}, NEW q \in Listings(Blind(p)),
               Update(p, Pushed(Doc(p), q))
        PROVE  Paid(s, m)'
    <3>1. q \in Seq(Message) /\ ToSet(q) = Blind(p) /\ IsInjective(q)
      BY <1>5, <2>2, ListingType
    <3>2. session'[s] = Pushed(session[s], q)
      BY <2>0, <2>1, <2>2
    <3>3. session'[s].messages = session[s].messages \o q
      BY <1>4, <2>0, <3>1, <3>2, PushedType
    <3>4. CASE m \in Blind(p)
      <4>1. p \in Pushers(s, m)
        BY <1>9, <3>4 DEF Pushers
      <4>2. Cardinality(Copies(s, m)') <= Cardinality(Copies(s, m)) + 1
        BY <1>7, <3>1, <3>3, PlacesJoined
      <4> QED
        BY <1>1, <1>3, <1>6, <4>1, <4>2, PaidBlindly
    <3>5. CASE m \notin Blind(p)
      <4>1. Copies(s, m)' = Copies(s, m)
        BY <1>7, <3>1, <3>3, <3>5, PlacesJoined
      <4>2. Cardinality(Copies(s, m)') <= Cardinality(Copies(s, m))
        BY <1>7, <4>1
      <4> QED
        BY <1>1, <1>6, <4>2, PaidFewer
    <3> QED
      BY <3>4, <3>5
  <2>3. ASSUME pc[p] = "replace", NEW q \in Listings(batch[p]),
               Update(p, [Doc(p) EXCEPT !.messages = q, !.old = FALSE])
        PROVE  Paid(s, m)'
    <3>1. q \in Seq(Message) /\ ToSet(q) = batch[p] /\ IsInjective(q)
      BY <1>4, <2>3, ListingType
    <3>2. session'[s].messages = q
      BY <1>4, <2>0, <2>1, <2>3 DEF SessionDoc
    <3>3. CASE m \in batch[p]
      <4>1. p \in Pushers(s, m)
        BY <1>9, <2>3, <3>3 DEF Pushers, Blind
      <4>2. Cardinality(Copies(s, m)') <= 1
        BY <1>7, <3>1, <3>2, PlacesOnce
      <4>3. Cardinality(Copies(s, m)') <= Cardinality(Copies(s, m)) + 1
        BY <1>7, <4>2
      <4> QED
        BY <1>1, <1>3, <1>6, <4>1, <4>3, PaidBlindly
    <3>4. CASE m \notin batch[p]
      <4>1. Copies(s, m)' = {}
        BY <1>7, <3>1, <3>2, <3>4, PlacesOnce
      <4>2. Cardinality(Copies(s, m)') <= Cardinality(Copies(s, m))
        BY <1>7, <4>1, FS_EmptySet
      <4> QED
        BY <1>1, <1>6, <4>2, PaidFewer
    <3> QED
      BY <3>3, <3>4
  <2>4. ASSUME pc[p] = "retry", NEW n \in left[p], n \notin Stored(target[p]),
               Update(p, Pushed(Doc(p), <<n>>))
        PROVE  Paid(s, m)'
    <3>1. <<n>> \in Seq(Message) /\ ToSet(<<n>>) = {n} /\ IsInjective(<<n>>)
      BY <1>4, <2>4 DEF ToSet, IsInjective
    <3>2. session'[s] = Pushed(session[s], <<n>>)
      BY <2>0, <2>1, <2>4
    <3>3. session'[s].messages = session[s].messages \o <<n>>
      BY <1>4, <2>0, <3>1, <3>2, PushedType
    <3>4. CASE m = n
      <4>1. p \in Carriers(s, m) /\ p \notin Pushers(s, m)
        BY <1>0, <1>9, <2>4, <3>4 DEF Carriers, Pushers, HandlerSends, Blind, Sending
      <4>2. m \notin ToSet(session[s].messages)
        BY <1>9, <2>4, <3>4 DEF Stored
      <4>3. Copies(s, m) = {}
        BY <4>2 DEF Copies, ToSet
      <4>4. Cardinality(Copies(s, m)) = 0
        BY <4>3, FS_EmptySet
      <4>5. Cardinality(Copies(s, m)') <= Cardinality(Copies(s, m)) + 1
        BY <1>7, <3>1, <3>3, PlacesJoined
      <4>6. Cardinality(Copies(s, m)') <= 1
        BY <1>7, <4>4, <4>5
      <4> QED
        BY <1>1, <1>6, <4>1, <4>6, PaidMissing
    <3>5. CASE m # n
      <4>1. Copies(s, m)' = Copies(s, m)
        BY <1>7, <3>1, <3>3, <3>5, PlacesJoined
      <4>2. Cardinality(Copies(s, m)') <= Cardinality(Copies(s, m))
        BY <1>7, <4>1
      <4> QED
        BY <1>1, <1>6, <4>2, PaidFewer
    <3> QED
      BY <3>4, <3>5
  <2> QED
    BY <2>2, <2>3, <2>4 DEF Stores
<1>10. (target[p] = s /\ Exists(s)) \/ session'[s] = session[s]
  <2>1. ASSUME NEW d, Update(p, d), ~(target[p] = s /\ Exists(s)) PROVE session'[s] = session[s]
    BY <1>0, <2>1 DEF Update
  <2> QED
    BY <2>1 DEF Stores
<1> QED
  BY <1>8, <1>9, <1>10

LEMMA PaidStill ==
    ASSUME OnceInv, TypeInv', NEW s \in Session, NEW m \in Message, Still, sent' = sent,
           \A q \in Request : Rests(q) \/ pc'[q] = "idle" \/ Narrows(q)
    PROVE  Paid(s, m)'
<1>0. TypeInv
  BY DEF OnceInv
<1>1. Carriers(s, m)' \subseteq Carriers(s, m) /\ Pushers(s, m)' \subseteq Pushers(s, m)
  BY Remaining
<1>2. CASE session'[s].messages = session[s].messages
  <2>1. Cardinality(Copies(s, m)') <= Cardinality(Copies(s, m))
    BY <1>0, <1>2, Counts DEF Copies
  <2> QED
    BY <1>1, <2>1, PaidFewer
<1>3. CASE session'[s].messages = <<>>
  <2>1. Copies(s, m)' = {}
    BY <1>3 DEF Copies
  <2>2. Cardinality(Copies(s, m)') = 0
    BY <2>1, FS_EmptySet
  <2>3. Cardinality(Copies(s, m)') <= Cardinality(Copies(s, m))
    BY <1>0, <2>2, Counts
  <2> QED
    BY <1>1, <2>3, PaidFewer
<1> QED
  BY <1>2, <1>3 DEF Still

LEMMA OnceInit == Init => OnceInv
<1> SUFFICES ASSUME Init PROVE OnceInv
  OBVIOUS
<1>1. TypeInv
  BY TypeInit
<1>2. \A p \in Request : HandlerSends(p)
  BY DEF Init, HandlerSends
<1>3. ASSUME NEW s \in Session, NEW m \in Message PROVE Paid(s, m)
  <2>1. Carriers(s, m) = {} /\ Pushers(s, m) = {}
    BY DEF Init, Carriers, Pushers, Blind, Sending
  <2>2. session[s].messages = <<>>
    BY DEF Init, Unborn, Fresh
  <2>3. Copies(s, m) = {}
    BY <2>2 DEF Copies
  <2>4. sent[s][m] = 0
    BY DEF Init
  <2>5. Cardinality({}) = 0
    BY FS_EmptySet
  <2> QED
    BY <2>1, <2>3, <2>4, <2>5 DEF Paid
<1> QED
  BY <1>1, <1>2, <1>3 DEF OnceInv

LEMMA OnceStep == OnceInv /\ [Next]_vars => OnceInv'
<1> SUFFICES ASSUME OnceInv, [Next]_vars PROVE OnceInv'
  OBVIOUS
<1>0. TypeInv /\ TypeInv' /\ \A p \in Request : HandlerSends(p)
  BY TypeStep DEF OnceInv
<1>1. ASSUME NEW q \in Request, Rests(q) \/ pc'[q] = "idle" PROVE HandlerSends(q)'
  BY <1>0, <1>1 DEF Rests, HandlerSends
<1>2. ASSUME NEW p \in Request, Acts(p) PROVE OnceInv'
  <2>1. \A q \in Request : p # q => Rests(q)
    BY <1>0, <1>2, OthersRest DEF Acts
  <2>2. CASE Calls(p)
    <3>1. pc'[p] \in {"push", "replace", "recoverRead"} /\ (pc'[p] = "push" => left'[p] = batch'[p])
      BY <1>0, <2>2 DEF Calls, Carry, TypeInv, TypeOK
    <3>2. HandlerSends(p)'
      BY <3>1 DEF HandlerSends
    <3>3. \A s \in Session : \A m \in Message : Paid(s, m)'
      BY <1>0, <2>1, <2>2, PaidCalling
    <3> QED
      BY <1>0, <1>1, <2>1, <3>2, <3>3 DEF OnceInv
  <2>3. CASE sent' = sent /\ Narrows(p) /\ (Still \/ Stores(p))
    <3>1. HandlerSends(p)'
      BY <2>3 DEF Narrows, HandlerSends, Sending
    <3>2. \A s \in Session : \A m \in Message : Paid(s, m)'
      BY <1>0, <2>1, <2>3, PaidStill, PaidStoring
    <3> QED
      BY <1>0, <1>1, <2>1, <3>1, <3>2 DEF OnceInv
  <2> QED
    BY <1>0, <1>2, <2>2, <2>3, Sends
<1>3. CASE (\E s \in Session : Delete(s)) \/ Restart \/ TimePasses \/ Sweep \/ UNCHANGED vars
  <2>0. session \in [Session -> SessionDoc]
    BY <1>0 DEF TypeInv, TypeOK
  <2>1. Still
    <3>1. CASE \E s \in Session : Delete(s)
      BY <2>0, <3>1 DEF Delete, Deleted, Fresh, Still
    <3>2. CASE Restart \/ UNCHANGED vars
      BY <3>2 DEF Restart, vars, Still
    <3>3. CASE TimePasses
      BY <2>0, <3>3 DEF TimePasses, SessionDoc, Still
    <3>4. CASE Sweep
      BY <2>0, <3>4 DEF Sweep, ForcedEnd, SessionDoc, Still
    <3> QED
      BY <1>3, <3>1, <3>2, <3>3, <3>4
  <2>2. sent' = sent /\ \A q \in Request : Rests(q) \/ pc'[q] = "idle"
    BY <1>3 DEF Delete, Restart, TimePasses, Sweep, vars, client, Rests
  <2>3. \A s \in Session : \A m \in Message : Paid(s, m)'
    BY <1>0, <2>1, <2>2, PaidStill
  <2> QED
    BY <1>0, <1>1, <2>2, <2>3 DEF OnceInv
<1> QED
  BY <1>2, <1>3 DEF Next, Acts

\* Whatever is retried inside the server, interleaved, replaced or recovered,
\* no call stores a message of its own twice: with every operation, fault,
\* delete and restart, the resend of the client included.
THEOREM StoredOncePerCall == Spec => []OncePerCall
<1>1. OnceInv => OncePerCall
  <2> SUFFICES ASSUME OnceInv, NEW s \in Session, NEW m \in Message
               PROVE  Cardinality(Copies(s, m)) <= sent[s][m]
    BY DEF OncePerCall
  <2>1. /\ Cardinality(Copies(s, m)) + Cardinality(Pushers(s, m)) <= sent[s][m]
        /\ Cardinality(Copies(s, m)) \in Nat /\ Cardinality(Pushers(s, m)) \in Nat
        /\ sent[s][m] \in Nat
    BY Counts DEF OnceInv, Paid
  <2> QED
    BY <2>1
<1> QED
  BY <1>1, OnceInit, OnceStep, PTL DEF Spec

=============================================================================
