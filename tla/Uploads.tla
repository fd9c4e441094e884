------------------------------- MODULE Uploads -------------------------------
(***************************************************************************)
(* The files a learner hands to the unified backend: in a chat (put before *)
(* the mentor as blocks), for ingestion and as documents of a topic (cut   *)
(* into chunks and embedded), and for the profile; the directory each      *)
(* upload is stored in, and the hourly sweep of these directories.         *)
(*                                                                         *)
(* unified-backend/app/routers/session_upload.py, ingest.py                *)
(* unified-backend/app/routers/topics.py           topic documents         *)
(* unified-backend/app/routers/documents.py        storing                 *)
(* unified-backend/app/services/extraction.py, file_upload.py, storage.py, *)
(*     file_cleanup.py, vector_search.py, token_budget.py                  *)
(*                                                                         *)
(* One user, local storage.  A Run is one request with its background      *)
(* task, atomic between two awaits.                                        *)
(***************************************************************************)
EXTENDS Integers, FiniteSets, Selection

CONSTANTS
    Run,            \* requests and background tasks that may be under way at once
    Job,            \* ids of uploads: each names a directory
    Topic,          \* topics, also the sessions of chat uploads
    Batches,        \* the file lists that may be uploaded
    ChunkSize,      \* chunk_size (1000)
    Overlap,        \* overlap (200)
    Budget,         \* CONTEXT_TOKEN_BUDGET (16000)
    Ops,            \* operations and faults of this instance
    MaxCalls,       \* bound: runs started
    MaxFaults       \* bound: failing calls to the database and the provider

ASSUME UploadsAssumption ==
    /\ Overlap \in Nat /\ ChunkSize \in Nat /\ 2 * Overlap < ChunkSize
    /\ {Budget, MaxCalls, MaxFaults} \subseteq Nat

\* A text is a sequence of characters.  Newlines join the pages of a PDF and the
\* rows of a CSV.
Space == 0
Newline == 1
White == {Space, Newline}

\* A list names a file; a text that is not blank has tokens.
ASSUME FileAssumption ==
    \A files \in Batches :
        /\ files # <<>> /\ files \in Seq(ToSet(files))
        /\ \A f \in ToSet(files) :
              /\ f.text \in Seq(Nat) /\ f.tokens \in Nat
              /\ (\E i \in DOMAIN f.text : f.text[i] \notin White) => f.tokens > 0

VARIABLES
    jobs,       \* the uploads, with their ingestion_jobs record if they have one
    records,    \* uploads with a document_upload_jobs record
    disk,       \* the files in the directory of each upload
    store,      \* the embeddings collection
    blocks,     \* the immediate_contexts row of each topic, oldest block first
    run,        \* locals of each run
    sweep,      \* the directory the sweep has looked at, and what it decided
    calls,      \* runs started
    faults,     \* failures met
    skipped,    \* ingest jobs of which a chunk was not embedded
    current,    \* topic documents embedded whole and undisturbed since
    erased,     \* topics deleted
    crashed     \* the process has died

vars == <<jobs, records, disk, store, blocks, run, sweep, calls, faults,
          skipped, current, erased, crashed>>
bounds == <<calls, crashed>>

Status == {"none", "processing", "completed", "done", "failed"}
NoJob == [kind |-> "none", topic |-> "none", status |-> "none", files |-> <<>>]
Idle == [pc |-> "idle", job |-> "none", file |-> 1, chunks |-> <<>>, chunk |-> 1,
         clean |-> TRUE]
NoSweep == [job |-> "none", orphan |-> FALSE]

Init ==
    /\ jobs = [j \in Job |-> NoJob]
    /\ records = {} /\ disk = [j \in Job |-> {}]
    /\ store = {} /\ blocks = [t \in Topic |-> <<>>]
    /\ run = [r \in Run |-> Idle]
    /\ sweep = NoSweep
    /\ calls = 0 /\ faults = 0
    /\ skipped = {} /\ current = {} /\ erased = {} /\ crashed = FALSE

-----------------------------------------------------------------------------
(* Chunks.                                                                 *)

Blank(text) == \A i \in DOMAIN text : text[i] \in White
Strip(text) ==
    IF Blank(text) THEN <<>>
    ELSE SubSeq(text, SelectInSeq(text, LAMBDA c : c \notin White),
                      SelectLastInSeq(text, LAMBDA c : c \notin White))

\* Faulty: the end is inclusive.
WindowUncut(text, s) ==
    Strip(SubSeq(text, s + 1,
                 IF s + ChunkSize >= Len(text) THEN Len(text) ELSE s + ChunkSize + 1))
\* The window that starts after position s, cut at its last space (no newline
\* will do) unless it is the last one.
Window(text, s) ==
    LET last == SelectLastInSeq(SubSeq(text, s + 1, s + ChunkSize), LAMBDA c : c = Space)
        end == IF s + ChunkSize >= Len(text) THEN Len(text)
               ELSE IF last > 1 THEN s + last - 1 ELSE s + ChunkSize
    IN  Strip(SubSeq(text, s + 1, end))

\* Faulty: windows that do not overlap.
StrideWhole(k) == k * ChunkSize
\* The windows advance by the same stride wherever the one before was cut.
Stride(k) == k * (ChunkSize - Overlap)

Windows(text) ==
    LET starts == {k \in 0 .. Len(text) - 1 : Stride(k) < Len(text)}
    IN  [k \in 1 .. Cardinality(starts) |-> Window(text, Stride(k - 1))]

ChunkText(text) ==
    IF Blank(text) THEN <<>> ELSE Those(Windows(text), ToSet(Windows(text)) \ {<<>>})

ChunkTable ==
    [f \in UNION {ToSet(b) : b \in Batches} |-> ChunkText(f.text)]

-----------------------------------------------------------------------------
(* Shorthands.                                                             *)

At(r, pc) == run[r].pc = pc
Upload(r) == jobs[run[r].job]
Goto(r, pc) == run' = [run EXCEPT ![r].pc = pc]
Over(r) == run' = [run EXCEPT ![r] = Idle]
SetStatus(j, status) == jobs' = [jobs EXCEPT ![j].status = status]
Fault == "fault" \in Ops /\ faults < MaxFaults /\ faults' = faults + 1
Fine == UNCHANGED faults
Valid(files) == Those(files, {f \in ToSet(files) : f.valid})

\* The file now found at the path of the run's next file.
Path(r) == Upload(r).files[run[r].file].name
Found(r) == {f \in disk[run[r].job] : f.name = Path(r)}
File(r) == CHOOSE f \in Found(r) : TRUE
MoreFiles(r) == run[r].file <= Len(Upload(r).files)

-----------------------------------------------------------------------------
(* Requests.                                                               *)

\* An upload of topic documents, or their removal, disturbs those under way.
Concerns(q, topic) == ~At(q, "idle") /\ Upload(q).kind = "topic" /\ Upload(q).topic = topic
Disturbed(topic) == [q \in Run |-> IF Concerns(q, topic) THEN [run[q] EXCEPT !.clean = FALSE]
                                                         ELSE run[q]]
Undisturbed(topic, names) == {d \in current : d.topic # topic \/ d.name \notin names}

\* Valid files are stored one at a time under a fresh id; none is a refusal.
Post(r, j, kind, topic, files) ==
    /\ kind \in Ops /\ At(r, "idle") /\ jobs[j] = NoJob
    /\ Valid(files) # <<>>
    /\ kind = "topic" => (topic \notin erased)
    /\ jobs' = [jobs EXCEPT ![j] = [NoJob EXCEPT !.kind = kind, !.topic = topic,
                                                 !.files = Valid(files)]]
    /\ calls < MaxCalls /\ calls' = calls + 1
    /\ LET names == IF kind = "topic" THEN {f.name : f \in ToSet(files)} ELSE {}
           others == \E q \in Run : kind = "topic" /\ Concerns(q, topic)
       IN  /\ run' = [(IF others THEN Disturbed(topic) ELSE run) EXCEPT ![r] =
                         [Idle EXCEPT !.pc = "storing", !.job = j, !.clean = ~others]]
           /\ current' = Undisturbed(topic, names)
    /\ UNCHANGED <<records, disk, store, blocks, sweep, faults, skipped, erased, crashed>>

\* A file of the same name replaces the one before.
StoreFile(r) ==
    LET f == Upload(r).files[run[r].file]  j == run[r].job IN
    /\ At(r, "storing") /\ MoreFiles(r)
    /\ disk' = [disk EXCEPT ![j] = {g \in @ : g.name # f.name} \cup {f}]
    /\ run' = [run EXCEPT ![r].file = @ + 1]
    /\ UNCHANGED <<jobs, records, store, blocks, sweep, skipped, current, erased>>
    /\ Fine /\ UNCHANGED bounds

\* Only a document upload gets the record the sweep looks for, only an
\* ingestion the one its status is read from.
Insert(r) ==
    LET j == run[r].job  kind == Upload(r).kind IN
    /\ At(r, "storing") /\ ~MoreFiles(r)
    /\ records' = IF kind = "document" THEN records \cup {j} ELSE records
    /\ jobs' = IF kind = "ingest" THEN [jobs EXCEPT ![j].status = "processing"] ELSE jobs
    /\ run' = [run EXCEPT ![r] =
                  IF kind = "document" THEN Idle ELSE [@ EXCEPT !.pc = "extract", !.file = 1]]
    /\ UNCHANGED <<disk, store, blocks, sweep, skipped, current, erased>>
    /\ Fine /\ UNCHANGED bounds

\* POST /api/session/{id}/upload: the bytes stay in memory.
PostSession(r, j, t, f) ==
    /\ "session" \in Ops /\ At(r, "idle") /\ jobs[j] = NoJob
    /\ jobs' = [jobs EXCEPT ![j] = [kind |-> "session", topic |-> t, status |-> "processing",
                                    files |-> <<f>>]]
    /\ calls < MaxCalls /\ calls' = calls + 1
    /\ run' = [run EXCEPT ![r] = [Idle EXCEPT !.pc = "push", !.job = j]]
    /\ UNCHANGED <<records, disk, store, blocks, sweep, faults, skipped, current, erased, crashed>>

\* POST /api/ingest/trigger: in whatever state the job is.
Trigger(r, j) ==
    /\ "trigger" \in Ops /\ At(r, "idle")
    /\ jobs[j].kind = "ingest" /\ jobs[j].status # "none"
    /\ SetStatus(j, "processing")
    /\ calls < MaxCalls /\ calls' = calls + 1
    /\ run' = [run EXCEPT ![r] = [Idle EXCEPT !.pc = "extract", !.job = j]]
    /\ UNCHANGED <<records, disk, store, blocks, sweep, faults, skipped, current, erased, crashed>>

-----------------------------------------------------------------------------
(* A file sent in a chat.                                                  *)

\* Faulty: the row is replaced.
PushedOver(row, f) == <<f>>
Pushed(row, f) == Append(row, f)

Text(f) == IF f.readable THEN f.text ELSE <<>>
Push(r) ==
    LET t == Upload(r).topic  f == Upload(r).files[1] IN
    /\ At(r, "push")
    /\ IF Blank(Text(f))
       THEN SetStatus(run[r].job, "failed") /\ Over(r) /\ UNCHANGED blocks
       ELSE blocks' = [blocks EXCEPT ![t] = Pushed(@, f)] /\ Goto(r, "ready") /\ UNCHANGED jobs
    /\ UNCHANGED <<records, disk, store, sweep, skipped, current, erased>>
    /\ Fine /\ UNCHANGED bounds

\* The push fails, and may have been applied all the same; or there was no
\* text, and the update that says so fails.
PushFails(r) ==
    LET t == Upload(r).topic  f == Upload(r).files[1] IN
    /\ At(r, "push")
    /\ blocks' \in {blocks} \cup {[blocks EXCEPT ![t] = Pushed(@, g)] :
                                     g \in {h \in {f} : ~Blank(Text(h))}}
    /\ Goto(r, "raised")
    /\ Fault /\ UNCHANGED bounds
    /\ UNCHANGED <<jobs, records, disk, store, sweep, skipped, current, erased>>

Ready(r) ==
    /\ At(r, "ready")
    /\ SetStatus(run[r].job, "done") /\ Over(r)
    /\ UNCHANGED <<records, disk, store, blocks, sweep, skipped, current, erased>>
    /\ Fine /\ UNCHANGED bounds

-----------------------------------------------------------------------------
(* Extraction and embedding.                                               *)

\* A topic document that fails is logged and passed over; in an ingestion the
\* exception ends the job.
NextFile(r) ==
    run' = [run EXCEPT ![r].file = @ + 1, ![r].pc = "extract", ![r].chunks = <<>>, ![r].chunk = 1]
Stopped(r) == IF Upload(r).kind = "topic" THEN NextFile(r) ELSE Goto(r, "raised")

Extract(r) ==
    /\ At(r, "extract") /\ MoreFiles(r)
    /\ IF Found(r) = {} \/ ~File(r).readable THEN Stopped(r)
       ELSE IF ChunkTable[File(r)] = <<>> THEN NextFile(r)
       ELSE run' = [run EXCEPT ![r].pc = "embed", ![r].chunks = ChunkTable[File(r)]]
    /\ UNCHANGED <<jobs, records, disk, store, blocks, sweep, skipped, current, erased>>
    /\ Fine /\ UNCHANGED bounds

\* Faulty: a topic document keyed as the chunk of an ingestion is.
VectorIdUnnamed(upload, job, name, n) ==
    IF upload.kind = "topic" THEN <<upload.topic, n>> ELSE <<job, n>>
VectorId(upload, job, name, n) ==
    IF upload.kind = "topic" THEN <<upload.topic, name, n>> ELSE <<job, n>>

Point(r) ==
    LET n == run[r].chunk  upload == Upload(r) IN
    [id |-> VectorId(upload, run[r].job, Path(r), n), topic |-> upload.topic, name |-> Path(r),
     kind |-> upload.kind, job |-> run[r].job, text |-> run[r].chunks[n]]
LastChunk(r) == run[r].chunk = Len(run[r].chunks)
AfterChunk(r) == IF LastChunk(r) THEN NextFile(r) ELSE run' = [run EXCEPT ![r].chunk = @ + 1]

\* Upsert by vector id.
Upserted(r) == {p \in store : p.id # Point(r).id} \cup {Point(r)}

Embed(r) ==
    /\ At(r, "embed")
    /\ store' = Upserted(r)
    /\ AfterChunk(r)
    /\ current' = IF Upload(r).kind = "topic" /\ LastChunk(r) /\ run[r].clean
                  THEN current \cup {[topic |-> Upload(r).topic, name |-> Path(r),
                                      chunks |-> run[r].chunks]}
                  ELSE current
    /\ UNCHANGED <<jobs, records, disk, blocks, sweep, skipped, erased>>
    /\ Fine /\ UNCHANGED bounds

\* A chunk the provider gives no vector for is left out; nobody looks.
EmbedSkipped(r) ==
    LET dirty == [run[r] EXCEPT !.clean = FALSE] IN
    /\ At(r, "embed")
    /\ run' = [run EXCEPT ![r] =
                  IF LastChunk(r)
                  THEN [dirty EXCEPT !.file = @ + 1, !.pc = "extract", !.chunks = <<>>,
                                     !.chunk = 1]
                  ELSE [dirty EXCEPT !.chunk = @ + 1]]
    /\ skipped' = skipped \cup {run[r].job}
    /\ Fault /\ UNCHANGED bounds
    /\ UNCHANGED <<jobs, records, disk, store, blocks, sweep, current, erased>>

\* A failed upsert may have been applied.
EmbedFails(r) ==
    /\ At(r, "embed")
    /\ store' \in {store, Upserted(r)}
    /\ Stopped(r)
    /\ Fault /\ UNCHANGED bounds
    /\ UNCHANGED <<jobs, records, disk, blocks, sweep, skipped, current, erased>>

Complete(r) ==
    /\ At(r, "extract") /\ ~MoreFiles(r)
    /\ IF Upload(r).kind = "ingest" THEN SetStatus(run[r].job, "completed") ELSE UNCHANGED jobs
    /\ Over(r)
    /\ UNCHANGED <<records, disk, store, blocks, sweep, skipped, current, erased>>
    /\ Fine /\ UNCHANGED bounds

-----------------------------------------------------------------------------
(* Failures.                                                               *)

\* Storing fails before there is a job; the last update fails with one.
Raises(r) ==
    /\ \/ At(r, "storing") /\ Over(r)
       \/ At(r, "ready") /\ Goto(r, "raised")
       \/ At(r, "extract") /\ ~MoreFiles(r) /\ Upload(r).kind = "ingest" /\ Goto(r, "raised")
    /\ Fault /\ UNCHANGED bounds
    /\ UNCHANGED <<jobs, records, disk, store, blocks, sweep, skipped, current, erased>>

Catch(r) ==
    /\ At(r, "raised")
    /\ SetStatus(run[r].job, "failed") /\ Over(r)
    /\ UNCHANGED <<records, disk, store, blocks, sweep, skipped, current, erased>>
    /\ Fine /\ UNCHANGED bounds

CatchFails(r) ==
    /\ At(r, "raised") /\ Over(r)
    /\ Fault /\ UNCHANGED bounds
    /\ UNCHANGED <<jobs, records, disk, store, blocks, sweep, skipped, current, erased>>

Restart ==
    /\ "restart" \in Ops /\ ~crashed /\ crashed' = TRUE
    /\ run' = [r \in Run |-> Idle] /\ sweep' = NoSweep
    /\ UNCHANGED <<jobs, records, disk, store, blocks, calls, faults, skipped, current, erased>>

-----------------------------------------------------------------------------
(* Removals.                                                               *)

DeleteDocument(t, name) ==
    /\ "remove" \in Ops /\ t \notin erased
    /\ \E p \in store : p.kind = "topic" /\ p.topic = t /\ p.name = name
    /\ store' = {p \in store : ~(p.kind = "topic" /\ p.topic = t /\ p.name = name)}
    /\ current' = Undisturbed(t, {name})
    /\ run' = Disturbed(t)
    /\ UNCHANGED <<jobs, records, disk, blocks, sweep, faults, skipped, erased>> /\ UNCHANGED bounds

\* delete_topic, as far as the uploads are concerned.
DeleteTopic(t) ==
    /\ "delete" \in Ops /\ t \notin erased
    /\ erased' = erased \cup {t}
    /\ blocks' = [blocks EXCEPT ![t] = <<>>]
    /\ UNCHANGED <<jobs, records, disk, store, run, sweep, faults, skipped, current>>
    /\ UNCHANGED bounds

\* The database removes the record of a document upload after a day.
Expire(j) ==
    /\ "sweep" \in Ops /\ j \in records
    /\ records' = records \ {j}
    /\ UNCHANGED <<jobs, disk, store, blocks, run, sweep, faults, skipped, current, erased>>
    /\ UNCHANGED bounds

SweepLook(j) ==
    /\ "sweep" \in Ops /\ sweep = NoSweep /\ disk[j] # {}
    /\ sweep' = [job |-> j, orphan |-> j \notin records]
    /\ UNCHANGED <<jobs, records, disk, store, blocks, run, faults, skipped, current, erased>>
    /\ UNCHANGED bounds

SweepRemove ==
    /\ sweep # NoSweep
    /\ disk' = IF sweep.orphan THEN [disk EXCEPT ![sweep.job] = {}] ELSE disk
    /\ sweep' = NoSweep
    /\ UNCHANGED <<jobs, records, store, blocks, run, faults, skipped, current, erased>>
    /\ UNCHANGED bounds

-----------------------------------------------------------------------------
Request(r) ==
    \E j \in Job :
        \/ Trigger(r, j)
        \/ \E t \in Topic, files \in Batches :
              \/ \E kind \in {"ingest", "topic", "document"} : Post(r, j, kind, t, files)
              \/ PostSession(r, j, t, files[1])

Step(r) ==
    \/ StoreFile(r) \/ Insert(r) \/ Push(r) \/ Ready(r)
    \/ Extract(r) \/ Embed(r) \/ Complete(r) \/ Catch(r)

Failure(r) ==
    \/ PushFails(r) \/ EmbedSkipped(r) \/ EmbedFails(r) \/ Raises(r) \/ CatchFails(r)

Removal ==
    \/ \E t \in Topic :
          DeleteTopic(t) \/ (\E name \in {p.name : p \in store} : DeleteDocument(t, name))
    \/ (\E j \in Job : Expire(j) \/ SweepLook(j)) \/ SweepRemove

Next == (\E r \in Run : Request(r) \/ Step(r) \/ Failure(r)) \/ Removal \/ Restart

Spec == Init /\ [][Next]_vars

-----------------------------------------------------------------------------
(* Reading.                                                                *)

\* Faulty: the oldest blocks are taken first.
KeptOldest(row, room) ==
    LET kept[i \in 0 .. Len(row)] ==
            IF i = 0 THEN [in |-> {}, used |-> 0]
            ELSE LET before == kept[i - 1] IN
                 IF before.used + row[i].tokens <= room
                 THEN [in |-> before.in \cup {i}, used |-> before.used + row[i].tokens]
                 ELSE before
    IN  kept[Len(row)].in
\* The blocks of a row put before the mentor, when the rest of the prompt
\* leaves this room: newest first, whatever still fits.
Kept(row, room) ==
    LET kept[i \in 1 .. Len(row) + 1] ==
            IF i > Len(row) THEN [in |-> {}, used |-> 0]
            ELSE LET newer == kept[i + 1] IN
                 IF newer.used + row[i].tokens <= room
                 THEN [in |-> newer.in \cup {i}, used |-> newer.used + row[i].tokens]
                 ELSE newer
    IN  IF room <= 0 THEN {} ELSE kept[1].in

\* The blocks the mentor reads beside a prompt of this size.
Served(t, prompt) == Kept(blocks[t], Budget - prompt)

-----------------------------------------------------------------------------
(* Properties.                                                             *)

\* The state is well formed, and no chunk is longer than chunk_size.
TypeOK ==
    /\ \A j \in Job : /\ jobs[j].kind \in {"none", "ingest", "topic", "document", "session"}
                      /\ jobs[j].status \in Status
    /\ records \subseteq Job /\ skipped \subseteq Job /\ erased \subseteq Topic
    /\ \A r \in Run : /\ run[r].pc \in {"idle", "storing", "push", "ready", "extract",
                                          "embed", "raised"}
                      /\ run[r].job \in Job \cup {"none"}
    /\ \A p \in store : p.job \in Job /\ Len(p.text) \in 1 .. ChunkSize

\* Where the words of a text begin and end.
Words(text) ==
    LET n == DOMAIN text
    IN  {w \in n \X n :
            /\ w[1] <= w[2] /\ \A c \in w[1] .. w[2] : text[c] \notin White
            /\ w[1] = 1 \/ text[w[1] - 1] \in White
            /\ w[2] = Len(text) \/ text[w[2] + 1] \in White}
\* A window is cut no further back than the space or end that follows the word
\* within the overlap.
Anchored(text, w) ==
    \E e \in w[2] + 1 .. w[1] + Overlap :
        e = Len(text) + 1 \/ (e \in DOMAIN text /\ text[e] = Space)
Holds(text, word) ==
    \E i \in 1 .. Len(text) - Len(word) + 1 : SubSeq(text, i, i + Len(word) - 1) = word
Searchable(j, f) ==
    \A w \in Words(f.text) :
        Anchored(f.text, w) =>
            \E p \in store : p.job = j /\ Holds(p.text, SubSeq(f.text, w[1], w[2]))
Completed == {j \in Job \ skipped : jobs[j].kind = "ingest" /\ jobs[j].status = "completed"}

\* When the ingestion of a file is completed, every word of it that is followed
\* by a space, or by the end of the text, within the overlap from where it starts
\* is whole in one of the stored chunks: however the windows are cut and shifted,
\* with files stored, triggered again and swept away meanwhile.  Embeddings the
\* provider refused are excepted.  (A shorter word with newlines around it may be
\* in no chunk: the window it starts in is cut at the space before it, and the
\* next one starts after it.)
CompletedIsSearchable ==
    \A j \in Completed : Len(jobs[j].files) = 1 => Searchable(j, jobs[j].files[1])

\* extraction.py: for each file of the job, its chunks are stored.  They are
\* keyed by job and chunk number only.
EachFileIsSearchable ==
    \A j \in Completed : \A f \in ToSet(jobs[j].files) : Searchable(j, f)

\* A file that was reported ready in a chat is in the row of its topic until the
\* topic is deleted, and is put before the mentor unless it and the files sent
\* after it exceed the room: uploads of a session run side by side and push to
\* the same row.
DoneIsServed ==
    \A j \in Job :
        LET row == blocks[jobs[j].topic] IN
        jobs[j].kind = "session" /\ jobs[j].status = "done" /\ jobs[j].topic \notin erased =>
            \E i \in DOMAIN row :
                /\ row[i] = jobs[j].files[1]
                /\ \A prompt \in 0 .. Budget :
                      \/ i \in Served(jobs[j].topic, prompt)
                      \/ prompt + SumFunction([k \in i .. Len(row) |-> row[k].tokens]) > Budget

\* A document of a topic that was embedded from the first chunk to the last is
\* all there until it is uploaded again or removed: other documents of the
\* topic, of other topics, and ingestions do not take its chunks.
TopicDocumentWhole ==
    \A d \in current : \A n \in DOMAIN d.chunks :
        \E p \in store : /\ p.kind = "topic" /\ p.topic = d.topic /\ p.name = d.name
                         /\ p.text = d.chunks[n]

=============================================================================
