-------------------------- MODULE IngestionPipeline --------------------------
(***************************************************************************)
(* The ingestion service: jobs with their files, extracted in a background *)
(* task, routed to the profile and the skill graph (structured path) and   *)
(* to the vector store (narrative path); the context a session upload is   *)
(* served from meanwhile; and re-ingestion with its backup and rollback.   *)
(*                                                                         *)
(* ingestion-pipeline/app/routers/ingest.py                                *)
(* ingestion-pipeline/app/services/file_upload_handler.py                  *)
(* ingestion-pipeline/app/services/ingestion_router.py                     *)
(* ingestion-pipeline/app/services/embedder_service.py                     *)
(* ingestion-pipeline/app/services/session_context_hook.py                 *)
(* ingestion-pipeline/app/services/reingestion_handler.py                  *)
(*                                                                         *)
(* One user.  A Run is one background task, atomic between two awaits.     *)
(***************************************************************************)
EXTENDS Extraction

CONSTANTS
    Run,                \* background tasks that may be under way at once
    Job,                \* job ids
    Batches,            \* the file lists that may be uploaded
    MaxFiles,           \* MAX_FILES (2)
    BatchSize,          \* BATCH_SIZE (20)
    StorageRetries,     \* MAX_STORAGE_RETRIES (2)
    Ops,                \* operations and faults of this instance
    MaxCalls,           \* bound: runs started
    MaxFaults           \* bound: failing calls to the database and providers

ASSUME PipelineAssumption ==
    /\ {MaxFiles, BatchSize, StorageRetries} \subseteq Nat \ {0}
    /\ {MaxCalls, MaxFaults} \subseteq Nat

\* The files of a list are in order, and so are the sections of a file, which
\* have a text and sub-entries.
ASSUME FileAssumption ==
    \A files \in Batches :
        /\ files \in Seq(ToSet(files))
        /\ \A f \in ToSet(files) :
              /\ f.sections \in Seq(ToSet(f.sections))
              /\ \A s \in ToSet(f.sections) :
                    /\ IsText(s.text) /\ s.entries \in Seq(ToSet(s.entries))
                    /\ \A e \in ToSet(s.entries) : IsText(e)

VARIABLES
    jobs,       \* the ingestion_jobs collection
    profile,    \* the core profile fields of the user
    skills,     \* the skill graph of the user
    store,      \* the embeddings collection
    contexts,   \* the immediate_contexts collection, oldest first
    run,        \* locals of each background task
    calls,      \* runs started
    faults,     \* failures met
    written,    \* jobs whose structured facts have been committed
    removed,    \* chunks deleted by a re-ingestion and not restored: the job it ran
                \* for, whether it had them in its backup, whether an exception out
                \* of the deletion or of the rollback was logged
    escaped,    \* jobs the last run of which ended before it was under the try
    crashed     \* the process has died

vars == <<jobs, profile, skills, store, contexts, run, calls, faults,
          written, removed, escaped, crashed>>
facts == <<profile, skills, written>>

Status == {"none", "pending", "processing", "done", "partial", "failed"}
Terminal == {"done", "partial", "failed"}
NoJob == [status |-> "none", context |-> "onboarding", files |-> <<>>,
          ready |-> FALSE, reingested |-> FALSE]

NoBackup == [docs |-> {}, profile |-> <<>>]
Idle == [pc |-> "idle", job |-> "none", kind |-> "extract", stamp |-> 0, category |-> "none",
         structured |-> "todo", narrative |-> "todo", batch |-> 0, tries |-> 0,
         backup |-> NoBackup]

Init ==
    /\ jobs = [j \in Job |-> NoJob]
    /\ profile = [f \in Field |-> Null]
    /\ skills = [t \in {} |-> 0]
    /\ store = {}
    /\ contexts = <<>>
    /\ run = [r \in Run |-> Idle]
    /\ calls = 0 /\ faults = 0
    /\ written = {} /\ removed = {} /\ escaped = {} /\ crashed = FALSE

-----------------------------------------------------------------------------
(* Shorthands.                                                             *)

At(r, pc) == run[r].pc = pc
Doc(r) == jobs[run[r].job]
Goto(r, pc) == run' = [run EXCEPT ![r].pc = pc]
SetStatus(j, status) == jobs' = [jobs EXCEPT ![j].status = status]
Fault == "fault" \in Ops /\ faults < MaxFaults /\ faults' = faults + 1
Quiet == UNCHANGED <<calls, escaped, crashed>>
Fine == Quiet /\ UNCHANGED faults

\* What the chunker makes of each upload, once.
Chunked == [files \in Batches |-> ChunksOf(files)]

\* A path with nothing to process is done from the start.
EnterPaths(r) ==
    LET files == Doc(r).files
        Todo(nothing) == IF nothing THEN "ok" ELSE "todo"
    IN  run' = [run EXCEPT ![r].pc = "paths",
                           ![r].structured = Todo(NothingStructured(files)),
                           ![r].narrative = Todo(Chunked[files] = <<>>)]

Joined(r) == At(r, "paths") /\ "todo" \notin {run[r].structured, run[r].narrative}

\* Where a route that has returned leaves its caller: the re-ingestion goes on
\* to record its success, whatever status the route has set.
Returned(r) ==
    run' = [run EXCEPT ![r] = IF @.kind = "reingest" THEN [@ EXCEPT !.pc = "success"] ELSE Idle]

Started(r, j, kind, pc, category) ==
    /\ At(r, "idle") /\ calls < MaxCalls
    /\ calls' = calls + 1
    /\ run' = [run EXCEPT ![r] =
                  [Idle EXCEPT !.pc = pc, !.job = j, !.kind = kind, !.stamp = calls + 1,
                               !.category = category]]
    /\ UNCHANGED <<facts, store, contexts, faults, removed, escaped, crashed>>

NewJob(j, context, files) ==
    /\ jobs[j] = NoJob
    /\ jobs' = [jobs EXCEPT ![j] = [NoJob EXCEPT !.status = "pending", !.context = context,
                                                 !.files = files]]

-----------------------------------------------------------------------------
(* Requests.                                                               *)

\* POST /ingest: more files than MaxFiles are refused whole.
Upload(r, j, files) ==
    /\ "upload" \in Ops /\ Len(files) <= MaxFiles
    /\ NewJob(j, "onboarding", files)
    /\ Started(r, j, "extract", "queued", "none")

\* The web tier creates the job of a file sent in a session, then triggers it.
CreateSessionJob(j, files) ==
    /\ "session" \in Ops /\ Len(files) = 1
    /\ NewJob(j, "session", files)
    /\ UNCHANGED <<profile, skills, store, contexts, run, calls, faults, written, removed,
                   escaped, crashed>>

\* POST /ingest/trigger: whatever state the job is in.
Trigger(r, j) ==
    /\ jobs[j] # NoJob
    /\ \/ "retrigger" \in Ops
       \/ jobs[j].status = "pending" /\ \A q \in Run : run[q].job # j
    /\ Started(r, j, "extract", "queued", "none")
    /\ UNCHANGED jobs

\* ReIngestionHandler.handle, one at a time.
Reingest(r, j, files, category) ==
    /\ "reingest" \in Ops
    /\ \A q \in Run : run[q].kind # "reingest"
    /\ NewJob(j, "onboarding", files)
    /\ Started(r, j, "reingest", "backup", category)

-----------------------------------------------------------------------------
(* Extraction.                                                             *)

Begin(r) ==
    /\ At(r, "queued")
    /\ SetStatus(run[r].job, "processing")
    /\ Goto(r, "extract")
    /\ escaped' = escaped \ {run[r].job}
    /\ UNCHANGED <<facts, store, contexts, calls, faults, removed, crashed>>

\* The job is read, marked and its files rebuilt before the try: a failing read, a
\* write that fails or whose answer is lost, and a file that does not validate
\* leave the task, and nothing marks the job failed.
BeginFails(r) ==
    /\ At(r, "queued")
    /\ SetStatus(run[r].job, "processing") \/ UNCHANGED jobs
    /\ run' = [run EXCEPT ![r] = Idle]
    /\ escaped' = escaped \cup {run[r].job}
    /\ Fault
    /\ UNCHANGED <<facts, store, contexts, calls, removed, crashed>>

\* A session job goes through the context hook, if there is something to show.
HasContent(files) == DOMAIN Stats(files) # {} \/ Sections(files) # <<>>
Extract(r) ==
    /\ At(r, "extract")
    /\ IF ~Readable(Doc(r).files)
       THEN SetStatus(run[r].job, "failed") /\ Goto(r, "raised")
       ELSE /\ Goto(r, IF Doc(r).context # "session" THEN "paths"
                       ELSE IF HasContent(Doc(r).files) THEN "hook" ELSE "check")
            /\ UNCHANGED jobs
    /\ UNCHANGED <<facts, store, contexts, removed>> /\ Fine

\* Any other exception out of the extraction or of the route.
Raises(r) ==
    /\ run[r].pc \in {"extract", "ready", "check", "embedded"} \/ Joined(r)
    /\ Goto(r, "raised")
    /\ Fault /\ Quiet
    /\ UNCHANGED <<jobs, facts, store, contexts, removed>>

\* Faulty: only a job that has not begun is marked.
CaughtUnbegun(status) == IF status = "pending" THEN "failed" ELSE status
Caught(status) == IF status # "failed" THEN "failed" ELSE status

Catch(r) ==
    /\ At(r, "raised") /\ run[r].kind = "extract"
    /\ SetStatus(run[r].job, Caught(Doc(r).status))
    /\ run' = [run EXCEPT ![r] = Idle]
    /\ UNCHANGED <<facts, store, contexts, removed>> /\ Fine

CatchFails(r) ==
    /\ At(r, "raised") /\ run[r].kind = "extract"
    /\ run' = [run EXCEPT ![r] = Idle]
    /\ Fault /\ Quiet
    /\ UNCHANGED <<jobs, facts, store, contexts, removed>>

-----------------------------------------------------------------------------
(* The context of a session upload.                                        *)

\* A document keeps the id its first insert gave it, so that the retry of an
\* insert that was applied without an answer is refused.
Inserted(r) == \E i \in DOMAIN contexts : contexts[i].stamp = run[r].stamp
NewContext(r) == [job |-> run[r].job, stamp |-> run[r].stamp, active |-> TRUE]

WriteContext(r) ==
    /\ At(r, "hook") /\ ~Inserted(r)
    /\ contexts' = Append(contexts, NewContext(r))
    /\ run' = [run EXCEPT ![r].pc = "ready", ![r].tries = 0]
    /\ UNCHANGED <<jobs, facts, store, removed>> /\ Fine

\* The second failure marks the job failed.
ContextRefused(r) ==
    IF run[r].tries = 0
    THEN run' = [run EXCEPT ![r].tries = 1] /\ UNCHANGED jobs
    ELSE /\ SetStatus(run[r].job, "failed")
         /\ run' = [run EXCEPT ![r].pc = "check", ![r].tries = 0]

WriteContextFails(r) ==
    /\ At(r, "hook") /\ ~Inserted(r)
    /\ contexts' \in {contexts, Append(contexts, NewContext(r))}
    /\ ContextRefused(r)
    /\ Fault /\ Quiet
    /\ UNCHANGED <<facts, store, removed>>

ContextDuplicate(r) ==
    /\ At(r, "hook") /\ Inserted(r)
    /\ ContextRefused(r)
    /\ UNCHANGED <<facts, store, contexts, removed>> /\ Fine

MarkReady(r) ==
    /\ At(r, "ready")
    /\ jobs' = [jobs EXCEPT ![run[r].job].ready = TRUE]
    /\ Goto(r, "check")
    /\ UNCHANGED <<facts, store, contexts, removed>> /\ Fine

CheckContext(r) ==
    /\ At(r, "check")
    /\ IF Doc(r).status = "failed" THEN Returned(r) ELSE EnterPaths(r)
    /\ UNCHANGED <<jobs, facts, store, contexts, removed>> /\ Fine

-----------------------------------------------------------------------------
(* The two paths, in parallel.                                             *)

\* The route asks for no merge, whatever the upload is for.
UploadContext(j) == Null
MergedProfile(files, context) ==
    IF context = "session" THEN MergeProfileFields(profile, Structured(files))
    ELSE Overwrite(profile, Structured(files))
MergedSkills(files, context) ==
    IF context = "session" THEN MergeLeetcodeSignals(skills, Stats(files))
    ELSE UpsertSkills(skills, Stats(files))

\* One transaction.
WriteStructured(r) ==
    LET files == Doc(r).files  context == UploadContext(run[r].job) IN
    /\ At(r, "paths") /\ run[r].structured = "todo"
    /\ run' = [run EXCEPT ![r].structured = "ok"]
    /\ written' = written \cup {run[r].job}
    /\ profile' = MergedProfile(files, context)
    /\ skills' = MergedSkills(files, context)
    /\ UNCHANGED <<jobs, store, contexts, removed>> /\ Fine

StructuredFails(r) ==
    /\ At(r, "paths") /\ run[r].structured = "todo"
    /\ run' = [run EXCEPT ![r].structured = "failed"]
    /\ Fault /\ Quiet
    /\ UNCHANGED <<jobs, facts, store, contexts, removed>>

Documents(r) ==
    LET first == run[r].batch * BatchSize + 1
    IN  {[job |-> run[r].job, stamp |-> run[r].stamp, index |-> n, source |-> "resume"] :
            n \in first .. Smaller(first + BatchSize - 1, Len(Chunked[Doc(r).files]))}

Narrating(r) == At(r, "paths") /\ run[r].narrative = "todo"

\* After the batch just handled, the next one, or none.
NextBatch(r) ==
    LET next == run[r].batch + 1 IN
    run' = [run EXCEPT ![r].batch = next, ![r].tries = 0,
                       ![r].narrative = IF next * BatchSize < Len(Chunked[Doc(r).files])
                                        THEN @ ELSE "ok"]

StoreBatch(r) ==
    /\ Narrating(r) /\ Documents(r) \cap store = {}
    /\ store' = store \cup Documents(r)
    /\ NextBatch(r)
    /\ UNCHANGED <<jobs, facts, contexts, removed>> /\ Fine

\* Faulty: a batch that cannot be stored is passed over.
StoreRefusedSkips(r) ==
    IF run[r].tries + 1 < StorageRetries
    THEN run' = [run EXCEPT ![r].tries = @ + 1]
    ELSE NextBatch(r)
StoreRefused(r) ==
    IF run[r].tries + 1 < StorageRetries
    THEN run' = [run EXCEPT ![r].tries = @ + 1]
    ELSE run' = [run EXCEPT ![r].narrative = "failed"]

\* The insert fails, and may have been applied all the same.
StoreFails(r) ==
    /\ Narrating(r)
    /\ store' \in {store, store \cup Documents(r)}
    /\ StoreRefused(r)
    /\ Fault /\ Quiet
    /\ UNCHANGED <<jobs, facts, contexts, removed>>

\* The retry of an insert that was applied: its ids are taken.
StoreDuplicate(r) ==
    /\ Narrating(r)
    /\ Documents(r) \cap store # {}
    /\ StoreRefused(r)
    /\ UNCHANGED <<jobs, facts, store, contexts, removed>> /\ Fine

\* The embedding provider fails as often as it is retried.
EmbedFails(r) ==
    /\ Narrating(r) /\ run[r].tries = 0
    /\ run' = [run EXCEPT ![r].narrative = "failed"]
    /\ Fault /\ Quiet
    /\ UNCHANGED <<jobs, facts, store, contexts, removed>>

\* Faulty: only the structured path is looked at.
OutcomeHalf(r) == IF run[r].structured = "failed" THEN "failed" ELSE "done"
Outcome(r) ==
    IF run[r].structured = "failed" THEN "failed"
    ELSE IF run[r].narrative = "failed" THEN "partial" ELSE "done"

Conclude(r) ==
    /\ Joined(r)
    /\ SetStatus(run[r].job, Outcome(r))
    /\ IF Outcome(r) = "done" /\ Doc(r).context = "session"
       THEN Goto(r, "embedded") ELSE Returned(r)
    /\ UNCHANGED <<facts, store, contexts, removed>> /\ Fine

\* Faulty: the newest context of the user, whichever job it is of.
ContextOfNewest(j) == Len(contexts)
\* The oldest context of the job; 0 if it has none.
ContextOf(j) == SelectInSeq(contexts, LAMBDA c : c.job = j)

Deactivate(r) ==
    LET i == ContextOf(run[r].job) IN
    /\ At(r, "embedded")
    /\ contexts' = IF i = 0 THEN contexts ELSE [contexts EXCEPT ![i].active = FALSE]
    /\ Returned(r)
    /\ UNCHANGED <<jobs, facts, store, removed>> /\ Fine

-----------------------------------------------------------------------------
(* Re-ingestion.  No chunk is tagged as a session's, and no document of    *)
(* the skill graph has a source or its counts under "signals": the filters *)
(* come to the chunks of the category and, for a resume, the profile.      *)

Matching(category) == {d \in store : d.source = category}

TakeBackup(r) ==
    /\ At(r, "backup")
    /\ run' = [run EXCEPT ![r].pc = "delete", ![r].backup =
                  [docs |-> Matching(run[r].category), profile |-> profile]]
    /\ UNCHANGED <<jobs, facts, store, contexts, removed>> /\ Fine

DeleteChunks(r) ==
    LET old == Matching(run[r].category) IN
    /\ At(r, "delete")
    /\ store' = store \ old
    /\ removed' = removed \cup {[doc |-> d, by |-> run[r].job, logged |-> FALSE,
                                    saved |-> d \in run[r].backup.docs] : d \in old}
    /\ Goto(r, IF run[r].category = "resume" THEN "clear" ELSE "extract")
    /\ UNCHANGED <<jobs, facts, contexts>> /\ Fine

ClearProfile(r) ==
    /\ At(r, "clear")
    /\ profile' = [f \in Field |-> Null]
    /\ Goto(r, "extract")
    /\ UNCHANGED <<jobs, skills, written, store, contexts, removed>> /\ Fine

Own(r) == {x \in removed : x.by = run[r].job}
Logged(lost) == {[x EXCEPT !.logged = TRUE] : x \in lost}

\* Backup, deletion and the last updates are outside the try: the exception
\* leaves the task and is logged by it, and the job stays as it is.
Escapes(r) ==
    /\ run[r].pc \in {"backup", "delete", "clear", "rolled", "success"}
    /\ run' = [run EXCEPT ![r] = Idle]
    /\ removed' = (removed \ Own(r)) \cup Logged(Own(r))
    /\ Fault /\ Quiet
    /\ UNCHANGED <<jobs, facts, store, contexts>>

\* Faulty: only the profile is restored.
RestorableNone(r) == {}
Restorable(r) == run[r].backup.docs
Remaining(r, docs) == {x \in Own(r) : x.doc \notin docs}

Rollback(r) ==
    /\ At(r, "raised") /\ run[r].kind = "reingest"
    /\ store' = store \cup Restorable(r)
    /\ removed' = (removed \ Own(r)) \cup Remaining(r, Restorable(r))
    /\ profile' = IF run[r].category = "resume" THEN run[r].backup.profile ELSE profile
    /\ Goto(r, "rolled")
    /\ UNCHANGED <<jobs, skills, written, contexts>> /\ Fine

\* A failing rollback is logged; it may have put back the chunks.
RollbackFails(r) ==
    /\ At(r, "raised") /\ run[r].kind = "reingest"
    /\ \E docs \in {{}, Restorable(r)} :
          /\ store' = store \cup docs
          /\ removed' = (removed \ Own(r))
                           \cup Logged(Remaining(r, docs))
    /\ Goto(r, "rolled")
    /\ Fault /\ Quiet
    /\ UNCHANGED <<jobs, facts, contexts>>

MarkFailed(r) ==
    /\ At(r, "rolled")
    /\ SetStatus(run[r].job, "failed")
    /\ run' = [run EXCEPT ![r] = Idle]
    /\ UNCHANGED <<facts, store, contexts, removed>> /\ Fine

MarkSuccess(r) ==
    /\ At(r, "success")
    /\ jobs' = [jobs EXCEPT ![run[r].job].status = "done", ![run[r].job].reingested = TRUE]
    /\ run' = [run EXCEPT ![r] = Idle]
    /\ UNCHANGED <<facts, store, contexts, removed>> /\ Fine

-----------------------------------------------------------------------------
Restart ==
    /\ "restart" \in Ops /\ ~crashed
    /\ crashed' = TRUE
    /\ run' = [r \in Run |-> Idle]
    /\ UNCHANGED <<jobs, facts, store, contexts, calls, faults, removed, escaped>>

Request ==
    \/ \E j \in Job, files \in Batches :
          \/ CreateSessionJob(j, files)
          \/ \E r \in Run : Upload(r, j, files)
          \/ \E r \in Run, category \in {"resume", "leetcode"} : Reingest(r, j, files, category)
    \/ \E r \in Run, j \in Job : Trigger(r, j)

Step(r) ==
    \/ Begin(r) \/ Extract(r) \/ Catch(r)
    \/ WriteContext(r) \/ ContextDuplicate(r) \/ MarkReady(r) \/ CheckContext(r)
    \/ WriteStructured(r) \/ StoreBatch(r) \/ StoreDuplicate(r)
    \/ Conclude(r) \/ Deactivate(r)
    \/ TakeBackup(r) \/ DeleteChunks(r) \/ ClearProfile(r)
    \/ Rollback(r) \/ MarkFailed(r) \/ MarkSuccess(r)

Failure(r) ==
    \/ BeginFails(r) \/ Raises(r) \/ CatchFails(r) \/ WriteContextFails(r) \/ StructuredFails(r)
    \/ StoreFails(r) \/ EmbedFails(r) \/ Escapes(r) \/ RollbackFails(r)

Next == Request \/ (\E r \in Run : Step(r) \/ Failure(r)) \/ Restart

Spec == Init /\ [][Next]_vars

-----------------------------------------------------------------------------
(* Properties.                                                             *)

Text(d) == Chunked[jobs[d.job].files][d.index]

\* Every document stays in its domain, and a chunk within MAX_CHUNK_TOKENS
\* however its section was cut.
TypeOK ==
    /\ \A j \in Job : jobs[j].status \in Status /\ jobs[j].files \in Batches \cup {<<>>}
    /\ DOMAIN profile = Field
    /\ \A d \in store : d.job \in Job /\ Len(Text(d)) \in 1 .. MaxTokens
    /\ \A r \in Run : run[r].structured \in {"todo", "ok", "failed"}
    /\ written \subseteq Job /\ calls \in 0 .. MaxCalls /\ faults \in 0 .. MaxFaults

\* The words a job is to have embedded, said without the chunker.
SearchableText(files) ==
    UNION {ToSet(Words(IF s.entries # <<>> THEN FlattenSeq(s.entries) ELSE s.text)) :
              s \in {x \in ToSet(Sections(files)) : x.name \in {"work_experience", "projects"}}}
Searchable == [files \in Batches |-> SearchableText(files)]

Embedded(j) ==
    UNION {ToSet(Text(d)) : d \in {x \in store \cup {y.doc : y \in removed} : x.job = j}}

\* A job whose ingestion is reported done has had its structured facts
\* committed and every word of its narrative sections embedded, across batches,
\* retries and repeated runs (unless it was re-ingested; what a later
\* re-ingestion has removed counts as embedded).
DoneIsComplete ==
    \A j \in Job :
        (jobs[j].status = "done" /\ ~jobs[j].reingested)
            => /\ j \in written \/ NothingStructured(jobs[j].files)
               /\ Searchable[jobs[j].files] \subseteq Embedded(j)

ActiveContexts(j) == {i \in DOMAIN contexts : contexts[i].job = j /\ contexts[i].active}
AtRest(j) == \A r \in Run : run[r].job # j

\* What a session upload says is always in front of the mentor once announced
\* as ready: through its context until it is embedded, and no longer than that
\* for a job done at rest that was run once, not cut short, and met at most one
\* failing call.
ContextServed ==
    \A j \in Job :
        /\ jobs[j].ready
              => (ActiveContexts(j) # {} \/ Searchable[jobs[j].files] \subseteq Embedded(j))
        /\ (jobs[j].status = "done" /\ AtRest(j) /\ ~crashed /\ faults < 2
              /\ Cardinality({i \in DOMAIN contexts : contexts[i].job = j}) = 1)
              => ActiveContexts(j) = {}

\* A re-ingestion whose pipeline fails, and so ends in a failed job, has put back
\* every chunk it had in its backup, whatever other runs have stored and removed
\* meanwhile, unless the rollback itself failed or the process died.  (A deletion
\* that fails part of the way is outside the try: nothing is put back and the job
\* is not marked.  The skills are never deleted, and the profile is put back as
\* it was read, whatever was written to it meanwhile.)
RollbackKeeps ==
    \A x \in removed :
        (x.saved /\ jobs[x.by].status = "failed" /\ ~jobs[x.by].reingested /\ AtRest(x.by)
           /\ ~crashed)
            => (x.logged \/ x.doc \in store)

\* A job that is processing with no task at it, so that its client polls for
\* ever, is one of three: the process has died, two calls have failed (the one
\* that broke the pipeline and the one that was to record it), or its last run
\* failed before the try that marks a job failed, where one failure is enough.
NeverStranded ==
    \A j \in Job :
        jobs[j].status = "processing"
            => (~AtRest(j) \/ crashed \/ faults > 1 \/ j \in escaped)

=============================================================================
