# Formal model of aimentor

TLA+ models of the live backend of aimentor (`unified-backend`, FastAPI on one asyncio
process over MongoDB) and of its ingestion service, with TLC runs on small instances and
TLAPS proofs for every instance. The models are written from the Python source; file and
line of every definition are in `PROJECT.json` under `map`.

## 1. Inventory

| Component | State it keeps | Operations | Hard behaviour | What makes it correct |
|---|---|---|---|---|
| **Topic thread** (`services/topic_service.py`, `mentor_agent.py`, `session_boundary.py`, `session_compactor.py`) | one `topics` document: `messages`, `summaryBlocks`, `metadata.totalMessageCount`, `title`, `status`, `version`; the process-wide set `_in_progress` | mentor turn, regenerate, quiz answer, archive, rename, delete, session close (window close, logout, pagehide checkpoint, hard ceiling) | every handler reads, awaits an LLM or the database, then writes; optimistic concurrency on `version` that some writers do not bump; fire-and-forget tasks; cancellation; restart | no lost append, order, one pick per card, each message summarised once and for ever, a chosen title kept, the guard always released |
| **Topic scope and naming** (`topic_service._ensure_l1_scope`, `update_topic`, `l1_scope.py`) | `title`, `l1_scope`, `profileStamp` | rename, classify, answer a scope item | unversioned read-modify-write across an LLM call | a manual answer survives a re-classification |
| **Embeddings** (`session_compactor._sync_block_embeddings`, `embedding_service.py`) | vectors per block and per session | upsert, delete, delayed retry | tasks of successive closes reorder; a restart drops them | vectors = current blocks when idle |
| **Skill graph** (`skill_graph_repo.py`, `onboarding_bootstrap.py`, `subtopic_weights.py`) | mastery per subtopic, weights | apply_update, bootstrap, nudge | bootstrap replaces what updates set | no update lost, weights in bounds |
| **Legacy sessions** (`session_manager.py`, `message_store.py`, `session_save_handler.py`, sweep in `main.py`) | `sessions` documents: `active`, `ending`, `ended`; messages | create, append with retry, checkpoint, recover, end, timeout sweep | check-then-write transitions, retry after an unknown outcome, sweep racing a slow end | one active session per user, status only moves forward, each call stores its messages once, a clean end is summarised, every ending session ends |
| **Profile and documents** (`profiling_agent.py`, `routers/profile.py`, `document_pipeline.py`, `routers/documents.py`, `l1_fact_synthesizer.py`, `memory_editor.py`, `fact_quality.py`) | `pending_changes`, facts and notes, document jobs, cached judgments | propose, accept, dismiss, edit, upload, retry, judge | whole-list read-modify-write; a retry after a partial failure; facts changing during an LLM call | nothing in the profile that was neither typed nor reviewed, proposals queued once, a job ends, a judgment is about the present facts |
| **Chat uploads and ingestion** (`routers/session_upload.py`, `routers/ingest.py`, `routers/topics.py`, `extraction.py`, `file_upload.py`, `file_cleanup.py`, `token_budget.py`) | jobs, files on disk, chunks, `immediate_contexts` rows | upload, trigger, chunk and embed, remove, sweep, trim to the budget | runs of one job or topic side by side; the sweep against an upload; refused embeddings; windows cut at spaces in texts full of newlines | a completed file is searchable, a ready file reaches the mentor, documents keep their chunks |
| **Authentication** (`auth/`) | accounts, refresh tokens, one-time codes, OAuth states, attempts | register, log in, verify, OAuth, rotate, log out, deactivate | find, check, then write; interrupted exchanges | one account per email, bounded attempts, a used token was exchanged |
| **Pure algorithms** (`token_budget.py`, `token_counter.py`, `context_assembler.py`, chunking, windowing, `tactic_prompt_selector.py`) | none | budget, chunk, window, choose tactic | boundaries | a reference definition |
| **Web client** (`mentorman-web`) | local copy of a session, upload queue | persist, checkpoint, recover | timers against network answers | nothing typed is lost |
| **Ingestion pipeline service** (`ingestion-pipeline`) | jobs, embeddings, profile fields, skill graph, session contexts | upload, trigger, extract, route, embed with retries, re-ingest with rollback | two paths joined, answers lost and retried, nested except clauses | a done job is complete, a rollback restores, no job stays in processing but in the ways named |
| **Layered memory service** | older prototype | CRUD of memory layers | none | - |

Interactions. The web client calls the routers; `routers/topics.py` calls
`MentorAgent` and `TopicService`; a persisted reply spawns `_post_turn_hook`, which
may call `close_session`; `auth/router.py` calls `close_session` on logout and
pagehide; `close_session` writes the topic, `skill_graph`, `profiles.pending_changes`,
`compaction_events` and spawns the embedding sync. `delete_topic` cascades into
`compaction_events` and `immediate_contexts`; the latter is written by
`routers/session_upload.py` under the topic's id. All of these run as tasks of one
event loop (the `Dockerfile` starts one uvicorn worker), so code between two awaits
is atomic and everything else interleaves.

## 2. Modules

| Module | Contents |
|---|---|
| `TopicThread` | the topic document and every handler and task that reads or writes it |
| `ThreadLog` | what the thread promises: a log that grows at its end or loses its last entry, and is folded prefix by prefix, never unfolded |
| `MCTopicThread` | the symmetry set for TLC |
| `TopicThreadProofs` | types and the optimistic concurrency: `TypeCorrect`, `VersionsPin`, `CountCorrect` |
| `TopicCoverageProofs` | the guard, order, coverage and size of a thread, and that it implements `ThreadLog` |
| `SessionLifecycle` | the legacy `sessions` collection of one user and every handler that touches it, with its client and the sweep |
| `MCSessionLifecycle` | the symmetry set for TLC |
| `SessionLifecycleProofs` | types, what a step may do to a document and to a handler, and the properties of a session that hold without checkpoints |
| `ProfileReview` | one profile, its document jobs, the proposals from sessions and uploads, their review and the editor |
| `FactCaches` | composes `ProfileReview` with the two LLM judgments cached about its facts: their quality, and their relevance to a topic (`l1_scope`) |
| `Chunker`, `Extraction` | pure: how the ingestion service cuts a text, and what it reads in a resume and in an export |
| `IngestionPipeline` | its jobs, the structured and the narrative path, the session context, re-ingestion; over `Extraction` |
| `Uploads` | files of the unified backend: in a chat, for ingestion, as topic documents; chunks, directories, the sweep, the token budget |
| `Accounts` | accounts, attempts, codes, OAuth states and refresh tokens |
| `Selection` | pure: what a loop that tests each element takes from a list, as a fold; used by `Extraction`, `Uploads` and `ProfileReview` |
| `ProfileReviewProofs` | all safety properties of `ProfileReview` and of `FactCaches` |
| `FoldProofs` | induction over naturals, what a fold computes, step by step, and what `Selection` selects |
| `IngestionProofs` | all five properties of `IngestionPipeline`, down to the chunker |
| `UploadsProofs` | all four properties of `Uploads`, down to the windows and the budget |
| `AccountsProofs` | types, `UsedTokenWasExchanged`, `EmailHasOneAccount`, `LimiterExceededBySideBySide` |
| `MCProfileReview`, `MCFactCaches`, `MCIngestionPipeline`, `MCUploads`, `MCAccounts` | the files, texts and symmetry sets for TLC |

### TopicThread and the code

A `Request` is one running handler or task. `pc[p]` is the await it stands at, and
`msg`, `snap`, `att`, `upto`, `work` are its locals: the message it is about to
write, the document its last `find_one` returned, its attempt (or merge) counter,
`upto_timestamp`, and the list of blocks `enforce_word_cap` works on.

* `BeginTurn`, `BeginRegenerate`: `handle_message` up to the first conditional
  write. The capacity and regenerate checks depend only on the document read there.
* `AppendRead`/`AppendWrite`, `RemoveRead`/`RemoveWrite`, `AnswerRead`/`AnswerWrite`:
  the `find_one` + `update_fn` half and the `update_one` half of `_optimistic_append`.
  `Conflict` is a lost version race: another attempt, or the 409.
* `Reply`: the stream has ended; the assistant message is stamped. `Hook` is
  `_post_turn_hook`; if the client has left, it is never spawned.
* `BeginClose`, `EnterClose`, `CloseRead`, `Summarise`, `MergeBlocks`/`MergeFails`,
  `Commit`/`CommitLost`, `RecordEvent`: `close_session` await by await. Lessons
  (skill updates, taught concepts) are handed over in `Summarise`, before
  the commit, as in the code; the writes themselves are best effort there. A topic
  started without a title is `unnamed` until the summarising LLM proposes one
  (`ResultTitles`, `Renamed`); while it proposes none that is usable, the lessons of a
  close are dropped (`Lessons`, `LessonsLost`) and its block is committed all the same.
  `credited` and `dropped` keep the two kinds of messages apart.
* `Archive`, `Rename` and the three delete steps write without the version, as in the
  code. A title is `unnamed`, `chosen` by the learner or `proposed` by the LLM; a learner
  who types "New conversation" makes the topic unnamed again, as the comment at
  `topic_service.py:41` admits.
* `LLMFails`, `Abort`, `Restart`: failing or cancelled calls, and a process restart,
  which drops every task and `_in_progress`, and leaves the database.

Data is abstracted: a message is its id, role, timestamp and quiz state; a block is
its id, the ids it covers, its word count, merge depth and `createdAt`. Token usage
is a message count (`Capacity`, `Ceiling`), which keeps the order of the checks and
their staleness. `l1_scope` is in `FactCaches`, the subject of a topic is left out.

### SessionLifecycle and the code

`session` is the collection, one document per id the server may hand out: `none`
before creation, `gone` after a delete. `typed`, `acked` and `sent` belong to the client:
turns it has composed, messages it had a 2xx answer for, and how many of its calls have
carried each message. A `Request` is a running handler; `target` is its `session_id`,
`batch` the messages of its body, `left` those still to write (later, what the summary
speaks of), `seen` the status the recover route read first.

* `Cleanup`, `Insert`: the two awaits of `create_session`. The `update_many` is one
  step; it touches documents of one user that no reader compares with each other.
* `Resend` is the client's own retry in `persistMessages`: the same turn again, as long as
  no call of it was answered, while the first may still be running.
* `BeginAppend`, `Push`, `Retry`, `RetryCheck`: `append_messages`, its
  conditional push, then `_do_idempotent_append` message by message. `LostReply` is
  a write that took effect without an answer; the first one is retried, the second
  ends in an error.
* `BeginCheckpoint`, `Replace`: the client's list when it sent the call, written later.
* `BeginEnd`, `EndWrite`, `Transcript`, `Persist`, `EndedRead`, `EndedWrite`,
  `Salvage`, `Result`, `ForceEnd`: the end pipeline await by await. The LLM call is
  between `Transcript` and `Persist`. `Summaries` says what may come of it: the LLM is
  shown the most recent messages that fit (`Excerpt`, 40,000 characters in the code,
  `Recent` messages of one length here), the fallback takes the first user message and, if
  there is room, the last (`Fallbacks`), and a session of fewer than two messages gets a
  fixed sentence. None of the three leaves a `failure_reason`.
* `BeginRecover`, `RecoverRead`, `RecoverPush`, `RecoverCheck`, `RecoverWrite`: the
  recover route, which enters the same pipeline.
* `CallFails` sends a handler to the except clause that catches it (`Catcher`);
  `Restart` drops every handler and keeps the collection.
* `TimePasses` and `Sweep`: a stuck document becomes 60 seconds old, the sweep ends it.

Abstractions. A message is a number standing for its (timestamp, role) key. Calls
refused without effect are no steps. A lookup whose result is not carried over the
next await is merged with the step after it. A failing call has no effect, except
the appends of `LostReply`.

### ProfileReview, FactCaches and the code

`profile` is the document (facts, notes, `pending_changes`), `job` the document
jobs, `proc[r]` the locals of a handler with the background task it leaves behind.
Uploading, extracting, synthesising (with its one retry), delivering and the except
clauses are steps of their own; so are the read and the write of a session's proposals
and of an edit. What an LLM answers is any member of `Answers`, malformed ones included.

`Accept` takes a field, because the route does: the page posts the `proposal_id` of the
card that was clicked, but `accept_pending_change` does not read it. `Accepted` applies
the first pending proposal of the field, and the write removes all others of it. With two
proposals of one field the user may therefore click one and store the other; the model has
this, and the history is kept so as not to hide it: `granted` is what the user typed or let
through with `skip_review`, `shown` what was put up for review, `applied` what accepts
brought in and `accepts` how many there were of each field. `pushes` counts how often a
job's proposals were queued. `PutProfile` and `CreateProfile` take both lists, notes and
facts, as the forms do.

`FactCaches` adds the two caches to the same handlers and jobs: a stamp is the list it
hashes. That `extract_situations` prefixes the label to the facts (`l1_scope.py:62-64`) is
left out: it is one more entry of the list that is judged.

### IngestionPipeline and the code

`Run` is a background task. A job goes through `Begin`, `Extract`, the session
context (`WriteContext`, `MarkReady`), then the structured and narrative paths of
`asyncio.gather` in any order, then `Conclude` and `Deactivate`. Each call to the
database or a provider can fail; an insert can be applied and its answer lost, so its
retry is refused as a duplicate. `Reingest` takes the backup, deletes in the code's
order, runs the pipeline and rolls back. `BeginFails` is a task that ends before its try
(`file_upload_handler.py:202-215`: the job is read, marked and its files rebuilt), whether
the write of the status was applied or not; `escaped` remembers its job. `Escapes` are the
calls of a re-ingestion outside its try. A word is a number and a token; sections,
rows and fields are what the extractors find, not their regular expressions.

Abstractions: one user; re-ingestions one at a time (the service has no caller that
starts two); the file bytes in S3 are always there; a write of a job's status that fails
is taken as not applied, except at the start, where it makes the difference.

### Uploads and the code

`jobs` names every upload, with the `ingestion_jobs` record of those that have one;
`disk` and `records` are what the sweep compares. `Post`, `StoreFile` and `Insert`
are the three uploads that store files; `PostSession` keeps its file in memory.
`Extract` and `Embed` are `process_extraction` and `process_topic_document`, which
differ in their keys (`VectorId`) and in what an exception does (`Stopped`).
`Window` and `Stride` are `chunk_text` character by character, because whether a word
survives depends on them. Space and newline are different characters: a window is cut at
a space only, pages and rows are joined by newlines, and both are stripped. `Kept` is the
token budget, and `Served` what `POST /api/mentor` (`routers/mentor.py:81-121`) puts before
the mentor; the chat of a topic (`MentorAgent`, `context_assembler`) never reads
`immediate_contexts`, and the property does not speak of it. `EmbedSkipped` is
`embed_and_upsert` returning False, which nobody reads.

`skipped`, `current` and `erased` are history: jobs with a refused embedding, topic
documents embedded whole and not touched since, topics deleted.

Abstractions: one user, local disk, MIME and size checks as a flag of the file.

### Accounts and the code

One `Request` is an HTTP request; each step is one call to the database with the
code around it. `Attempt` and `Record` are `check_and_increment`; `Register`,
`FindOrCreate` and `Exchange` look an account up, `Create` inserts it under the unique
index; `Rotate`, `Mark` and `Issue` are `rotate_refresh_token`. A token refused before
any write is no step. `rotated` and `lost` are history. Passwords, codes and JWTs are
compared, not computed; access tokens leave no state. An OAuth identity is its provider:
the code looks up provider and provider user id (`router.py:284-288`), and no property
depends on one provider having two identities.

## 3. Runs

Bounds: two requests (`Request`) are enough for every read-write race of the code,
which are all between two parties; `MaxId` (messages plus blocks created) allows a
full turn by one request and a turn or close by the other, and in the close runs two
sessions and a merge; `MaxClock = 1` gives equal and different timestamps. `Words` is one
length in each run: blocks that need a merge, or (`close_liveness`) that do not at first. Runs
disable deadlock checking because a system with no new client call may rest, and the
bounds on ids and clock stop the model.

| Run | Shows |
|---|---|
| `lifecycle` | with archive, rename, delete, closes, uploads, cancellation and restart, on topics with and without a title: a matching version pins what was read, the counter equals the length, lessons come before summaries (or the topic had no title for them), a close does not overwrite a title the learner chose, one close at a time holds the guard |
| `close_fold` | turns, regenerations, picks and closes: messages stay ordered, a removal takes only the reply it named, a card is answered once, coverage is a prefix, never overlaps, never shrinks; the thread implements `ThreadLog` |
| `close_liveness` | with the smallest capacity: concurrent turns overshoot it by at most two messages each; every close ends |
| `session_append` | with the client's resends: what was acknowledged is stored; a clean end has a summary of the conversation as it stands; no session stays in `ending` |
| `session_recover` | with resends, checkpoints, recovery, deletes, faults and restarts: an ended session has a summary or a reason; a message is stored no more often than the client has sent it |
| `ended_reopens` (violated) | a check-then-write takes an ended session back to `ending` |
| `profile_review` | what nobody typed comes into the profile through the review only, one entry per accept; proposals are queued once, edits drop what they name, every job settles |
| `fact_caches` | a cached judgment is never served for other facts; a recompute keeps the user's answers |
| `ingestion` | a done job is complete, a session file is served until it is embedded, the rollback of a failed pipeline restores, and a job is left in processing only by a restart, two failures or one before the try |
| `uploads` | of a completed file every word followed by a space or the end within the overlap is searchable, a ready chat file reaches the mentor, a topic document keeps its chunks |
| `batch_overwrites` (violated) | of two files ingested together the second overwrites chunks of the first |
| `accounts` | one account per email, attempts exceed the limit by the requests under way at most, a used token was exchanged |

How often a message is stored. The code does not store a turn once whatever happens: the
first push of an append is not told what is there, so a turn whose HTTP answer is lost and
which the client sends again (`useSessionPersistence.ts:246`) is there twice, and so is one
that two recoveries bring in at once. What holds, with every operation in the run, is
`OncePerCall`: the retry inside the server looks before it writes, so a call adds its
messages once at most.

`AckedStored` fails once a checkpoint joins in, which replaces the array by an older list,
and `SummaryComplete` once a checkpoint or a recovery writes to a session whose transcript
was read; `session_append` leaves these two operations out, and the hazards say so. Its
bounds: one session (its properties do not relate two), two handlers, five calls, two turns,
and `Recent = 3`, so that the excerpt of two turns leaves a message out. `session_recover`
has two sessions and every operation.

`profile_review` runs three calls, two of them side by side, over one job with a retry,
two facts and caps small enough to be reached; `fact_caches` six calls. `ingestion` has
two jobs with a resume, a short resume with an export and a file without text; two
failures, which is what one lost answer and the failing record of it take (one is enough
before the try). Its chunks hold three words, so a sentence of four is force-split.
`uploads` has files of several windows, a word across a window's end, one longer than the
overlap, one between a space and a newline that no chunk has, two of one name, one without
text and one unreadable; windows of five characters with an overlap of two keep the code's
proportion (the overlap is less than half the window, or `chunk_text` takes another
branch). `accounts` has two emails, two providers, four calls, two failures and a limit of
one, so that two requests meet at the limit.

Where these instances leave a promise of the repository unfulfilled, `hazards` in
`PROJECT.json` names the line. Among those without a run of their own: an append can land
in a topic archived between its read and its write (`Archive` keeps the version); two
creations can leave two active sessions (`Cleanup`, `Insert`); the sweep removes the
directory of an upload that has no record yet, or never gets one (`SweepLook`); the
proposals of a retried analysis are stored in its job and not queued; a session upload of
the ingestion service is merged like an onboarding one (`UploadContext`); an accept of one
proposal stores another of its field (`Accepted`); a short word with newlines around it is
in no chunk (`Window`); a turn sent twice is stored twice (`Resend`); lessons of an
unnamed topic are given up (`LessonsLost`); a re-ingestion whose deletion fails half way
restores nothing (`Escapes`); an instruction that sets a label and drops an entry drops
another one, because the label moves the list before the indices are applied (`Edited`:
adding `"label"` to `Ops` in `profile_review.cfg` makes TLC refute `EditDropsNamed` in
three steps: a fact is put in, an edit is read, and written).

The violated runs state what a docstring, comment or design document of the
repository says; `PROJECT.json` quotes the line under `findings`.

Fairness: `WF_vars(Step(p))` for each request. A request standing at an await
resumes once the awaited call returns, because the event loop runs every ready task
and every LLM call and database call has a timeout that turns into an exception
(`LLMFails`). New client calls (`Begin`), renames, aborts, restarts, uploads and the clock
have no fairness. In `SessionLifecycle`, `WF` of each handler's steps likewise, of
`TimePasses`, and of `Sweep`, because `_timeout_sweep_loop` runs for as long as the
process does and survives its own exceptions. Calls, faults and restarts have none,
so a handler may die and `EndingEnds` then rests on the sweep. In `ProfileReview`, `WF`
of each handler's steps, for the reason given first; `JobSettles` excepts a process
that has died. `IngestionPipeline`, `Uploads` and `Accounts` state no fairness: their
properties are safety, `NeverStranded` too (where a task is at rest and its job in
processing, one of the three causes it names is on record).

## 4. Proofs

Every theorem holds for all values of the constants that meet the assumptions named
at the end of this section: any number of requests, any bounds, any files. The
method is the same throughout. One lemma says which steps a state may make, as seen
by the invariant: a handful of *effects* instead of every action with its guards
(`StepWrites`, `StepMoves`, `DocSteps`). Each conjunct of the invariant is then kept
by cases on the effects, and an invariant is stated as much of what is under way,
the copies and half-done work of requests between two awaits, as of what is stored.

### TopicThread (`TopicThreadProofs`, `TopicCoverageProofs`)

`TypeCorrect` rests on `TypeInv`: the types, plus what each request has counted so
far in each place (`AttemptsInv`) and that a close which called the LLM has messages
to fold (`SessionInv`). `TypeOK` alone is not inductive: without `AttemptsInv`
nothing bounds the attempts of a request that starts a second loop.

`VersionsPin` and `CountCorrect` rest on `VersionInv`. A step changes the document only by
deleting it, by archiving or renaming it, or by one of four writes whose filter matches
the version read (`StepWrites`), and a request's copy is either kept, dropped, or read
afresh (`StepKeeps`). Each conditional write bumps the version, so an older copy can never
match again; archive and rename change no field a conditional write takes from its copy;
after a delete nothing matches. A write therefore starts from the document its request
read, and a counter of that copy plus or minus one is the new length. `HeldInv` adds that
a request about to write holds a copy of an existing topic, and that a removal holds a
copy whose last message is the one named.

The theorems on the contents of a thread rest on `CoverInv`, which strengthens
`VersionInv`. `Sound` says of a document that its messages are in order and have distinct
ids below the next one, that its blocks are disjoint and only cover what is settled
(credited, or dropped for want of a title), and that the covered messages are a prefix. It
is required of the document (`TopicSound`) *and of every copy held* (`CopySound`), since a
write replaces the one by what was computed from the other; `VersionPins` makes the two
the same at the time of the write. `FreshInv` says a message not stored yet has an id
nobody else has, `CheckedAt` what a request checked of its copy, `WorkAt` that the blocks
a close is about to commit are a sound folding of its copy. The properties are
consequences (`CreditedBeforeCovered`, `CoveredOnce`, `ThreadInOrder`, `SummaryIsPrefix`)
or follow for each step (`NeverUncovers`, `PopsTheNamedReply`, `OnePickPerCard`).
`OneCloseAtATime` needs only the types.

`ChosenTitleStays` needs no invariant: a close's rename is filtered on the placeholder
(`SummariseRelabels`), a learner's rename is what the property excepts, and every other
step keeps the title or takes the document away.

`ThreadImplementsLog` maps the document to the log of `ThreadLog` (`LogOf`) and shows
that the initial state is an initial log (`LogInit`) and every step an append at the
end, the removal of the last entry, a fold of a prefix, a merge, a deletion or a
stutter (`LogStep`).

`SizeBounded`: the size check precedes the append, so the length alone is unbounded
by it. `SizeInv` counts instead the messages plus the tokens of requests that have
passed the check and not appended, which a check lets grow by at most two per request.

### SessionLifecycle (`SessionLifecycleProofs`)

`SessionTypeCorrect` rests on `TypeInv`: the types, and that a handler past its
first await knows a session that was inserted (`Placed`), without which a write
could type-incorrectly revive an unborn document.

`Accounted` rests on `AccountedInv`. `DocSteps` lists what one step may do to one
document, `OwnStep` says that only its own actions or a restart move a handler.
`EndedAccounted` alone is not inductive: the write to `ended` comes two awaits after
the summary. `HandlersSummed` bridges them: while a handler stands at `endedRead` or
`endedWrite`, the document it works on, if it still exists, has a summary, because
the handler arrives there only by `Persist` (`Arrival`) and no other step takes a
summary or a reason away (`Kept`). It needs no restriction on `Ops`.

Two theorems name the operations they exclude, because TLC shows that each of these
does break the property:
- `AckedIsStored` (no checkpoint, which replaces the array). `AckedInv`: what a handler
  has pushed of its batch is in the document (`HandlerStored`), and once it is about
  to answer, all of it.
- `SummaryIsWhole` (no checkpoint, no recovery). `WholeInv`: messages come to active
  sessions only (`Frozen`), and a handler in the pipeline found its session in
  `ending`, so what its summary was made of is what the session holds in the end: the
  summary is one of `Summaries` of it, excerpt or fallback.

The exclusions are the operations of `session_append`, which checks the same properties.
`StoredOncePerCall` excludes no operation. `OnceInv` (`Paid`) is a count, for each message
of a session: the copies stored, plus the handlers that will store it without looking
(`Pushers`), are at most the calls that carried it; so are the handlers that still carry
it. A retry only stores what it does not find, and a checkpoint, which replaces the array
by a list that holds each message once, is a call as well.

### ProfileReview and FactCaches (`ProfileReviewProofs`)

`ProposalsQueuedOnce` rests on `QueueInv`: a job that was never inserted has queued
nothing, and of the requests in the states before the queueing (`Unqueued`) at most
one has a given job, whose proposals are then not queued yet. `QueuedOnce` alone says
nothing of the requests on their way. A retry never enters these states (its synthesis
ends in `finish`), and an except clause leaves them, except at a file. The lists of
facts and proposals play no part, so their types are not in `Shape`.

The other theorems rest on `ReviewInv`. Every writer computes its lists from a copy it
read awaits earlier, so what the properties say of the profile is required of each copy
as well: `GoodProfile` (types and caps), and `Backed` (every entry is granted, or was put
there by an accept: `Vouched`). `Tracked`
adds that a request has a job that exists, and stands at the steps that write unseen only
if its job was uploaded with `skip_review`; without it `WriteOwn` could store what nobody
trusted. A step changes one request, and moves the jobs (`JobsMove`), the profile and what
is granted (`ProfileMoves`) each in a way that disturbs no other request (`ReviewMoves`).
- `CapsKept`: a consequence of `ReviewInv`. That the lists keep their caps and gain
  nothing but what is added is `AddKeeps`, `AppliedKeeps` (the fold over a batch) and
  `EditedIs`.
- `NothingAutoApplied`: `ShownInv` on top. Whatever awaits review, in the profile or in a
  copy, has been shown (`Reviewed`), and what accepts have applied to a field is finite
  and no more than the accepts (`Counted`).
- `FactsStayDistinct` (`FactsDistinct` is proved and not among the runs): a request
  standing at an acceptance or an unreviewed upload resumes only by its own write
  (`ResumedWrites`), and adding to a list without repetitions makes none, even for a batch
  that names a fact twice.
- `OnlyNamedAreDropped` excludes labels (`"label" \notin Ops`), because with one the
  property is false (section 3). The bound on the length is part of the property: a list
  at the cap may lose an entry the instruction did not name.
- `AnswersAreCarried` is about `CacheSpec`, whose steps keep `ReviewInv` too. Only the
  request that asked for a recompute stores its outcome, from the entries it had read, and
  the merge finds the one entry of a fact (`AnswerKept`).

`JudgmentsAreFresh` rests on `OneReading`: the stored judgments and the stamp they
are looked up by come from the same reading of the profile, however old. A write
between the reading and the storing makes the stamp stale, not the judgments wrong.

### IngestionPipeline (`IngestionProofs`)

Twenty-four effects (`Begins` .. `Succeeds`), and `StepMoves`: a step is a request,
one effect of one run, a restart or a stutter.
- `PlaceInv`: where a run of each kind can be, that its job was posted, and that at
  most one re-ingestion is under way. Everything else uses it.
- `JobsAreAnswered`: a job in processing has a run, or two failures to show, or is in
  `escaped`, because inside the try each handler of a failure is left by a write of the
  status unless it fails itself.
- `BackupIsRestored`: `Kept` says which removed chunks are still in the backup of the
  re-ingestion that removed them, and is carried through its failure and rollback.
- `DoneJobsAreComplete`: `StoreInv`. What is embedded only grows if what a
  re-ingestion removed is counted (`Held`); the batches a run has passed cover the
  indexes before its cursor (`PathsDone`), so at the end they cover all (`CoversWhole`).
- `AnnouncedIsServed`: `ContextInv`. Every run has its own stamp and its context bears
  it; a job announced as ready has an active context or is embedded; with at most one
  failure a job done at rest has left one context, and someone ended it (`Retired`).
- `ChunksSound`: every narrative word of an upload is in a chunk of 1 to
  `MaxTokens` words, for every text. The fold's states (`States`) are typed by what
  they hold: chunks within the limit, and an open chunk within it. `Taken` is one turn
  of the loop: it keeps both and loses no word; the overlap that is carried over may
  be one sentence longer than the overlap, but never than the chunk it ended
  (`Carried`); a force-split sentence is covered window by window (`Cut`).
- `PipelineTypeCorrect` combines them.

### Uploads (`UploadsProofs`)

Again effects, `StepMoves` and `PlaceInv`.
- `UploadsTypeCorrect`: `DomainInv`; a chunk is a window of a file's text, so it is no
  longer than `ChunkSize` (`ChunksBounded`).
- `DocumentsStayWhole`: `DocInv`. Only an ingestion has several runs (`Solo`), a clean run
  is alone at the documents of its topic (`CleanAlone`), what it embeds is what is on the
  disk (`Embedding`), and a run that meets a current document again repeats it
  (`Repeats`).
- `WordsAreSearchable`: `SearchInv` says the chunks before a run's cursor are stored, so a
  completed file has all. That these hold each word with a space or the end after it
  within the overlap is a lemma on the windows (`WordsHeld`): of the windows that start
  before the word the last one holds it, since it starts at most a stride before and so
  reaches the space after the word (`Anchor`), before which it is not cut.
- `ReadyIsServed`: `ServedInv`. The row of a topic only grows, and a run that will report
  its file as ready has pushed it. That the budget then keeps it, unless it and the files
  after it exceed the room, is a lemma on the budget's walk (`RoomIsUsed`).

### Accounts (`AccountsProofs`)

The theorems share `TypeInv`, whose `Placed` says what a request past its first await
has found.
- `UsedTokenWasExchanged`: `UsedIsExchanged` is inductive once typed. A step other than
  a mark, an issue or a failure cannot disturb it (`UsedElsewhere`), because it moves
  only its own request (`CallAlone`, `StepAlone`).
- `EmailHasOneAccount` rests on `OwnerInv`: a request about to issue a token has found or
  created its account (`Owned`), and accounts are never removed (`UsersKept`), so the
  await between the two cannot make the token an orphan. Uniqueness of the emails is the
  index's (`Refused`); the look-up before the insert guarantees nothing.
- `LimiterExceededBySideBySide` rests on `AttemptsInv`: attempts recorded plus requests
  let past and not yet recorded stay below limit plus requests.

### Recursion over data (`FoldProofs`)

A fold of the community modules is a `CHOOSE` of a function that satisfies an
equation, so nothing follows from its definition until some function is shown to.
The library's induction takes an operator, which the provers cannot instantiate;
`AllNaturals` states induction of a *set* of naturals instead, from the
well-foundedness of their order. With it, `FoldExists` shows a solution of the
equation for a step given as a function, and `FoldRuns` that every solution computes
step by step. `ThoseFound` says what a selection contains, `IngestionProofs` uses them for
`FlattenSeq` and the chunker, `ProfileReviewProofs` for the batches of proposals;
`UploadsProofs` proves its sums and walks with `AllNaturals` directly. Wherever a proof
needs to know what is selected from a list, the models select by a fold (`Those`), not by
`SelectSeq`, of which the provers know nothing.

### Assumptions

- `TopicThread`: `NatAssumption` (bounds are naturals) and, for `SizeBounded` only,
  `RequestAssumption` (requests are finite in number). `PickAssumption` (a pick is not
  one of the two marks of a card) is for the model's reader; no proof needs it.
- `SessionLifecycle`: `BoundAssumption` (bounds are naturals, the excerpt holds at least one
  message) and, for `StoredOncePerCall` only, `RequestAssumption` (handlers are finite in
  number).
- `ProfileReview`: `CapAssumption` (the caps and bounds are naturals, the caps not 0; what
  the LLM answers is a list of a field, a value and a flag).
- `Accounts`: `AccountsAssumption` (finitely many requests).
- `IngestionPipeline`: `PipelineAssumption` (sizes and bounds), `ChunkAssumption` (the
  overlap, 50, is less than a chunk, 512), `FileAssumption` (files, sections and
  sentences are sequences; no sentence is blank, which `_split_sentences` filters).
- `Uploads`: `UploadsAssumption` (twice the overlap, 200, is less than a chunk, 1000,
  without which `chunk_text` takes another branch), `FileAssumption` (a list names a
  file; a text that is not blank has tokens).

TLC evaluates each of them in the runs.

### Model-checked only

- Liveness under fairness: `GuardReleased`, `EndingEnds`, `JobSettles`. Every other
  property of a passing run is stated by a theorem.
- The two violated properties, by their counterexamples.

## 5. Plan

Done: `TopicThread`, `ThreadLog`, `SessionLifecycle`, `ProfileReview`, `FactCaches`,
`IngestionPipeline` with `Extraction` and `Chunker`, `Uploads`, `Accounts`, their runs,
and the proofs of section 4.

1. An abstract session, which `SessionLifecycle` implements, and the profile without the
   pipeline, which `ProfileReview` implements.
2. Skill graph: updates against bootstrap, nudges. Embedding syncs of closes.
3. The web client's localStorage queue and upload hooks; checkpoint and session end of
   the ingestion service.

## 6. Not modelled

Prompt texts, streaming of tokens, parsing of LLM output and of file formats, object
storage, tracing, e-mail and OAuth transport, UI rendering: no protocol state, or external
services used through one call. Skill graph and topic subjects: single `$set` updates of
independent fields, last write wins. Embeddings of summary blocks: fire-and-forget, best
effort. Tactic selection is a table of prompts. The layered memory service is a prototype
the unified backend replaced.
