---------------------------- MODULE ProfileReview ----------------------------
(***************************************************************************)
(* The profile of one user and everything that writes it: proposals drawn  *)
(* from sessions and from uploaded documents, their review, the free-text  *)
(* editor and the settings form.                                           *)
(*                                                                         *)
(* unified-backend/app/services/document_pipeline.py    upload pipeline    *)
(* unified-backend/app/services/l1_fact_synthesizer.py  LLM proposals      *)
(* unified-backend/app/routers/documents.py             upload and retry   *)
(* unified-backend/app/services/profiling_agent.py      session proposals  *)
(* unified-backend/app/services/memory_editor.py        free-text edits    *)
(* unified-backend/app/routers/profile.py               review and form    *)
(*                                                                         *)
(* A Request is one handler with the background task it leaves behind.  It *)
(* is atomic between two awaits.  What the LLM answers is any value.       *)
(***************************************************************************)
EXTENDS Integers, FiniteSets, Selection

CONSTANTS
    Request,    \* handlers and background tasks that may run at once
    Job,        \* upload job ids
    Value,      \* texts of facts and of notes, up to case
    NoteCap,    \* style notes kept (5)
    FactCap,    \* situations kept (20)
    MaxFiles,   \* files of an upload (5)
    Answers,    \* what the LLM may draw from a text: lists of field, value and
                \* whether category, quote and lengths are as asked
    Ops,        \* operations and faults of this instance
    MaxCalls,   \* bound: calls made
    MaxFaults   \* bound: database failures

ASSUME CapAssumption ==
    /\ {NoteCap, FactCap, MaxFiles} \subseteq Nat \ {0}
    /\ {MaxCalls, MaxFaults} \subseteq Nat
    /\ Answers \subseteq Seq({"style_note", "situation"} \X Value \X BOOLEAN)

VARIABLES
    profile,    \* the profiles document
    job,        \* the document_upload_jobs collection
    proc,       \* locals of each request
    calls,      \* calls made
    faults,     \* database failures met
    granted,    \* what the user has typed or trusted unseen
    shown,      \* what was put up for review
    applied,    \* what accept requests put into the profile
    accepts,    \* accept requests carried out, by field
    pushes,     \* times each job's proposals were queued for review
    crashed     \* the process has died

review == <<shown, applied, accepts>>
ghosts == <<granted, shown, applied, accepts, pushes, crashed>>
profileVars == <<profile, job, proc, calls, faults, granted, shown, applied, accepts,
                 pushes, crashed>>

-----------------------------------------------------------------------------
(* Data.                                                                   *)

Field == {"style_note", "situation"}
None == "none"
Proposal == [field : Field, value : Value, src : Job \cup {"session"}]

Profile == [live : BOOLEAN, kept : [Field -> Seq(Value)], pending : Seq(Proposal)]
Empty == [live |-> TRUE, kept |-> [f \in Field |-> <<>>], pending |-> <<>>]

JobStatus == {None, "pending", "extracting", "synthesizing", "done", "failed"}
JobDoc == [status : JobStatus, files : Seq({"pending", "extracted", "failed"}),
           text : SUBSET (1 .. MaxFiles), skip : BOOLEAN, proposals : Seq(Proposal)]
NoJob == [status |-> None, files |-> <<>>, text |-> {}, skip |-> FALSE,
          proposals |-> <<>>]

\* An instruction typed into the memory box, as the LLM reads it.
Edit == [field : Field, label : Value \cup {None}, drop : SUBSET Value,
         add : Value \cup {None}]
NoEdit == [field |-> "situation", label |-> None, drop |-> {}, add |-> None]

Idle == [pc |-> "idle", job |-> None, field |-> "situation", file |-> 0,
         texts |-> {}, props |-> <<>>, seen |-> Empty, edit |-> NoEdit]

\* The last and the first n entries of a list.
LastN(s, n) == SubSeq(s, IF Len(s) > n THEN Len(s) - n + 1 ELSE 1, Len(s))
FirstN(s, n) == SubSeq(s, 1, IF Len(s) > n THEN n ELSE Len(s))

Of(field, ps) == Those(ps, {p \in ToSet(ps) : p.field = field})
NotOf(field, ps) == Those(ps, {p \in ToSet(ps) : p.field # field})
Names(ps) == {<<p.field, p.value>> : p \in ToSet(ps)}

\* A note pushes out the oldest; a fact past the cap is cut off again.
\* Faulty: no cap.
AddUncapped(field, list, v) == IF v \in ToSet(list) THEN list ELSE Append(list, v)
Add(field, list, v) ==
    IF field = "style_note" THEN LastN(Append(list, v), NoteCap)
    ELSE FirstN(IF v \in ToSet(list) THEN list ELSE Append(list, v), FactCap)

\* All facts are added in turn, but every note is added to the list that was
\* read, so only the last note of the batch stays.
Applied(kept, ps) ==
    LET new(f) == Of(f, ps)
    IN [f \in Field |->
          IF new(f) = <<>> THEN kept[f]
          ELSE IF f = "style_note" THEN Add(f, kept[f], Last(new(f)).value)
          ELSE FoldLeft(LAMBDA list, p : Add(f, list, p.value), kept[f], new(f))]

-----------------------------------------------------------------------------
(* Requests.                                                               *)

Go(r, pc) == proc' = [proc EXCEPT ![r].pc = pc]
End(r) == proc' = [proc EXCEPT ![r] = Idle]
At(r, pc) == proc[r].pc = pc

Call(r, op) ==
    /\ op \in Ops
    /\ At(r, "idle")
    /\ calls < MaxCalls
    /\ calls' = calls + 1
    /\ UNCHANGED faults

Quiet == UNCHANGED <<calls, faults>>

\* A job's update does nothing when the document is gone.
Set(j, doc) == job' = [job EXCEPT ![j] = doc]

Init ==
    /\ profile = Empty
    /\ job = [j \in Job |-> NoJob]
    /\ proc = [r \in Request |-> Idle]
    /\ calls = 0
    /\ faults = 0
    /\ granted = {} /\ shown = {} /\ applied = {}
    /\ accepts = [f \in Field |-> 0]
    /\ pushes = [j \in Job |-> 0]
    /\ crashed = FALSE

-----------------------------------------------------------------------------
(* Uploads.                                                                *)

\* Offered files are good, of a wrong type, or too big; the bad ones are left
\* out, and a batch with none left is refused.
Valid(offered) == Those(offered, {"good"})

Upload(r, j, offered, skip) ==
    /\ Call(r, "upload")
    /\ job[j].status = None
    /\ Len(offered) <= MaxFiles
    /\ Valid(offered) # <<>>
    /\ Set(j, [NoJob EXCEPT !.status = "pending", !.skip = skip,
                            !.files = [i \in DOMAIN Valid(offered) |-> "pending"]])
    /\ proc' = [proc EXCEPT ![r].pc = "queued", ![r].job = j]
    /\ UNCHANGED <<profile, ghosts>>

StartExtraction(r) ==
    /\ At(r, "queued")
    /\ Set(proc[r].job, [job[proc[r].job] EXCEPT !.status = "extracting"])
    /\ proc' = [proc EXCEPT ![r].pc = "file", ![r].file = 1]
    /\ UNCHANGED <<profile, ghosts>> /\ Quiet

FileDone(j, i, status) == [job[j] EXCEPT !.files[i] = status]
NextFile(r) ==
    LET i == proc[r].file IN
    IF i < Len(job[proc[r].job].files)
    THEN [proc[r] EXCEPT !.pc = "file", !.file = i + 1]
    ELSE [proc[r] EXCEPT !.pc = "combine", !.file = 0]

\* One file yields text or does not.
ExtractFile(r, ok) ==
    LET i == proc[r].file IN
    /\ At(r, "file")
    /\ Set(proc[r].job,
           FileDone(proc[r].job, i, IF ok THEN "extracted" ELSE "failed"))
    /\ proc' = [proc EXCEPT ![r] =
                   IF ok THEN [NextFile(r) EXCEPT !.texts = @ \cup {i}] ELSE NextFile(r)]
    /\ UNCHANGED <<profile, ghosts>> /\ Quiet

\* Recording the file failed: it is recorded as failed, its text stays.
RecordFailure(r) ==
    /\ At(r, "refile")
    /\ Set(proc[r].job, FileDone(proc[r].job, proc[r].file, "failed"))
    /\ proc' = [proc EXCEPT ![r] = NextFile(r)]
    /\ UNCHANGED <<profile, ghosts>> /\ Quiet

Failed(j) == [job[j] EXCEPT !.status = "failed", !.proposals = <<>>]

AllFailed(r) ==
    /\ At(r, "combine")
    /\ proc[r].texts = {}
    /\ Set(proc[r].job, Failed(proc[r].job))
    /\ End(r)
    /\ UNCHANGED <<profile, ghosts>> /\ Quiet

Combine(r) ==
    /\ At(r, "combine")
    /\ proc[r].texts # {}
    /\ Set(proc[r].job, [job[proc[r].job] EXCEPT !.status = "synthesizing",
                                                 !.text = proc[r].texts])
    /\ Go(r, "synth")
    /\ UNCHANGED <<profile, ghosts>> /\ Quiet

WellFormed(drawn) == Those(drawn, {d \in ToSet(drawn) : d[3]})

\* What the LLM drew from the text, less the facts the profile already has.
Accumulated(j, drawn) ==
    LET known == ToSet(profile.kept["situation"])
        new == Those(WellFormed(drawn),
                     {d \in ToSet(drawn) : d[1] = "style_note" \/ d[2] \notin known})
    IN [i \in DOMAIN new |-> [field |-> new[i][1], value |-> new[i][2], src |-> j]]

\* Where the proposals of a synthesis go: a retry only stores them.
\* Faulty: the retry queues them again.
DeliverAgain(r, ps) ==
    IF ps = <<>> THEN "finish" ELSE IF job[proc[r].job].skip THEN "readown" ELSE "push"
Deliver(r, ps) ==
    IF At(r, "resynth") \/ ps = <<>> THEN "finish"
    ELSE IF job[proc[r].job].skip THEN "readown" ELSE "push"

Synthesize(r, drawn) ==
    LET ps == Accumulated(proc[r].job, drawn) IN
    /\ At(r, "synth") \/ At(r, "resynth")
    /\ proc' = [proc EXCEPT ![r].props = ps, ![r].pc = Deliver(r, ps)]
    /\ UNCHANGED <<profile, job, ghosts>> /\ Quiet

\* Both attempts failed, or the answer was not the JSON asked for.
SynthesisFails(r) ==
    /\ At(r, "synth") \/ At(r, "resynth")
    /\ Go(r, "giveup")
    /\ UNCHANGED <<profile, job, ghosts>> /\ Quiet

GiveUp(r) ==
    /\ At(r, "giveup") \/ At(r, "caught")
    /\ Set(proc[r].job, Failed(proc[r].job))
    /\ End(r)
    /\ UNCHANGED <<profile, ghosts>> /\ Quiet

\* The user is shown what awaits review, and what a job he follows proposed.
Show(ps) == shown' = shown \cup Names(ps)

\* The proposals join whatever else awaits review.
Push(r) ==
    /\ At(r, "push")
    /\ profile' = IF profile.live THEN [profile EXCEPT !.pending = @ \o proc[r].props]
                  ELSE profile
    /\ Show(profile'.pending)
    /\ pushes' = [pushes EXCEPT ![proc[r].job] = @ + 1]
    /\ Go(r, "finish")
    /\ UNCHANGED <<job, granted, applied, accepts, crashed>> /\ Quiet

\* skip_review: read the profile, and write both lists back later.
ReadOwn(r) ==
    /\ At(r, "readown")
    /\ proc' = [proc EXCEPT ![r].pc = IF profile.live THEN "writeown" ELSE "finish",
                            ![r].seen = profile]
    /\ UNCHANGED <<profile, job, ghosts>> /\ Quiet

Touched(r) == {f \in Field : Of(f, proc[r].props) # <<>>}

\* $set of the lists a request computed from what it had read.
Written(fields, kept) ==
    IF ~profile.live THEN profile
    ELSE [profile EXCEPT !.kept = [f \in Field |->
             IF f \in fields THEN kept[f] ELSE profile.kept[f]]]

WriteOwn(r) ==
    /\ At(r, "writeown")
    /\ profile' = Written(Touched(r), Applied(proc[r].seen.kept, proc[r].props))
    /\ granted' = granted \cup (IF job[proc[r].job].skip THEN Names(proc[r].props) ELSE {})
    /\ proc' = [proc EXCEPT ![r].pc = "finish", ![r].seen = Empty]
    /\ UNCHANGED <<job, review, pushes, crashed>> /\ Quiet

Finish(r) ==
    /\ At(r, "finish")
    /\ Set(proc[r].job, [job[proc[r].job] EXCEPT !.status = "done",
                                                 !.proposals = proc[r].props])
    /\ Show(proc[r].props)
    /\ End(r)
    /\ UNCHANGED <<profile, granted, applied, accepts, pushes, crashed>> /\ Quiet

\* Retry of a failed job: check what was read, then reset, then synthesize.
Retryable(j) == job[j].status = "failed" /\ job[j].text # {}

Retry(r, j) ==
    /\ Call(r, "retry")
    /\ Retryable(j)
    /\ proc' = [proc EXCEPT ![r].pc = "reset", ![r].job = j]
    /\ UNCHANGED <<profile, job, ghosts>>

Reset(r) ==
    /\ At(r, "reset")
    /\ Set(proc[r].job, [job[proc[r].job] EXCEPT !.status = "synthesizing"])
    /\ Go(r, "resynth")
    /\ UNCHANGED <<profile, ghosts>> /\ Quiet

\* A database call of the pipeline raises: the except clause records the
\* failure, unless it fails itself.  Faulty: only the loop over files has one.
CatcherFiles(pc) == IF pc = "file" THEN "refile" ELSE "idle"
Catcher(pc) ==
    CASE pc = "file" -> "refile"
      [] pc \in {"caught", "reset"} -> "idle"
      [] OTHER -> "caught"

PipelineStates == {"queued", "file", "refile", "combine", "synth", "resynth",
                   "giveup", "push", "readown", "writeown", "finish"}

Fault(r, read) ==
    LET next == Catcher(proc[r].pc)
        texts == proc[r].texts \cup (IF read THEN {proc[r].file} ELSE {})
    IN
    /\ "fault" \in Ops
    /\ faults < MaxFaults
    /\ proc[r].pc \in PipelineStates \cup {"caught", "reset"}
    /\ faults' = faults + 1
    /\ proc' = [proc EXCEPT ![r] =
           IF next = "idle" THEN Idle
           ELSE IF next = "refile" THEN [proc[r] EXCEPT !.pc = next, !.texts = texts]
           ELSE [Idle EXCEPT !.pc = next, !.job = proc[r].job]]
    /\ UNCHANGED <<profile, job, calls, ghosts>>

\* The process dies, once; nothing takes its jobs up again.
Restart ==
    /\ "restart" \in Ops
    /\ ~crashed
    /\ \E r \in Request : ~At(r, "idle")
    /\ proc' = [r \in Request |-> Idle]
    /\ crashed' = TRUE
    /\ UNCHANGED <<profile, job, granted, review, pushes>> /\ Quiet

-----------------------------------------------------------------------------
(* Session proposals and their review: read, compute, write back.          *)

ReadProfile(r, op, pc, fields) ==
    /\ Call(r, op)
    /\ proc' = [proc EXCEPT ![r] = [fields EXCEPT !.pc = pc, !.seen = profile]]
    /\ UNCHANGED <<profile, job, ghosts>>

SetPending(ps) ==
    profile' = IF profile.live THEN [profile EXCEPT !.pending = ps] ELSE profile

Propose(r, p) ==
    ReadProfile(r, "propose", "propose", [Idle EXCEPT !.props = <<p>>, !.field = p.field])

\* One live session proposal per field: the new one replaces the rest.
ProposeWrite(r) ==
    /\ At(r, "propose")
    /\ SetPending(NotOf(proc[r].field, proc[r].seen.pending) \o proc[r].props)
    /\ Show(profile'.pending)
    /\ End(r)
    /\ UNCHANGED <<job, granted, applied, accepts, pushes, crashed>> /\ Quiet

\* The user clicks a card, but the route takes the field only: the proposal_id
\* the page posts with it is not read.
Accept(r, f) ==
    /\ profile.live
    /\ Of(f, profile.pending) # <<>>
    /\ ReadProfile(r, "accept", "accept", [Idle EXCEPT !.field = f])

\* The first pending entry of the field is applied, whichever was clicked.
\* Faulty: all of them are.
AcceptedAll(f, seen) ==
    FoldLeft(LAMBDA list, p : Add(f, list, p.value), seen.kept[f], Of(f, seen.pending))
Accepted(f, seen) == Add(f, seen.kept[f], Head(Of(f, seen.pending)).value)

\* All pending entries of the field are removed, the others of it unheard.
AcceptWrite(r) ==
    LET f == proc[r].field
        seen == proc[r].seen
    IN
    /\ At(r, "accept")
    /\ profile' = IF profile.live
                  THEN [profile EXCEPT !.kept[f] = Accepted(f, seen),
                                       !.pending = NotOf(f, seen.pending)]
                  ELSE profile
    /\ applied' = applied \cup {<<f, Head(Of(f, seen.pending)).value>>}
    /\ accepts' = [accepts EXCEPT ![f] = @ + 1]
    /\ End(r)
    /\ UNCHANGED <<job, granted, shown, pushes, crashed>> /\ Quiet

Dismiss(r, f) ==
    /\ profile.live
    /\ ReadProfile(r, "dismiss", "dismiss", [Idle EXCEPT !.field = f])

DismissWrite(r) ==
    /\ At(r, "dismiss")
    /\ SetPending(NotOf(proc[r].field, proc[r].seen.pending))
    /\ End(r)
    /\ UNCHANGED <<job, ghosts>> /\ Quiet

-----------------------------------------------------------------------------
(* What the user writes.                                                   *)

\* The memory box: the profile is read, the LLM turns the instruction into
\* positions in the lists it was shown, and the lists are written back.
BeginEdit(r, e) ==
    /\ e # NoEdit
    /\ e.drop \subseteq ToSet(profile.kept[e.field])
    /\ e.label # None => "label" \in Ops /\ e.field = "situation"
    /\ ReadProfile(r, "edit", "edit", [Idle EXCEPT !.edit = e])

\* The label goes to the front of the facts before anything is dropped.
Labelled(list, label) ==
    IF label = None THEN list
    ELSE <<label>> \o Those(list, ToSet(list) \ {label})

Without(list, drop) ==
    LET left == Those([i \in DOMAIN list |-> i], DOMAIN list \ drop)
    IN [k \in DOMAIN left |-> list[left[k]]]

\* Positions are those of the list the LLM was shown.
Positions(list, drop) == {i \in DOMAIN list : list[i] \in drop}

\* Faulty: the new fact goes in before positions are dropped.
EditedAddFirst(seen, e) ==
    LET list == seen.kept[e.field]
        added == IF e.add = None THEN list ELSE <<e.add>> \o list
        left == Without(added, Positions(list, e.drop))
    IN IF e.field = "situation" THEN FirstN(left, FactCap) ELSE LastN(left, NoteCap)
Edited(seen, e) ==
    LET list == seen.kept[e.field]
        left == Without(Labelled(list, e.label), Positions(list, e.drop))
    IN IF e.field = "situation"
       THEN FirstN(IF e.add = None THEN left ELSE <<e.add>> \o left, FactCap)
       ELSE IF e.add = None THEN left ELSE LastN(Append(left, e.add), NoteCap)

EditWrite(r) ==
    LET e == proc[r].edit IN
    /\ At(r, "edit")
    /\ profile' = Written({e.field}, [f \in Field |-> Edited(proc[r].seen, e)])
    /\ granted' = granted \cup ({e.field} \X ({e.add, e.label} \ {None}))
    /\ End(r)
    /\ UNCHANGED <<job, review, pushes, crashed>> /\ Quiet

\* The settings form, and the completion of onboarding, replace a list by the
\* one the user was shown and edited.
Cap(f) == IF f = "style_note" THEN NoteCap ELSE FactCap

PutProfile(r, f, list) ==
    /\ Call(r, "put")
    /\ profile.live
    /\ Len(list) <= Cap(f)
    /\ profile' = [profile EXCEPT !.kept[f] = list]
    /\ granted' = granted \cup ({f} \X ToSet(list))
    /\ UNCHANGED <<job, proc, review, pushes, crashed>>

CreateProfile(r, notes, facts) ==
    LET kept == [f \in Field |-> IF f = "style_note" THEN notes ELSE facts] IN
    /\ Call(r, "delete")
    /\ ~profile.live
    /\ \A f \in Field : Len(kept[f]) <= Cap(f)
    /\ profile' = [Empty EXCEPT !.kept = kept]
    /\ granted' = granted \cup UNION {{f} \X ToSet(kept[f]) : f \in Field}
    /\ UNCHANGED <<job, proc, review, pushes, crashed>>

DeleteProfile(r) ==
    /\ Call(r, "delete")
    /\ profile.live
    /\ profile' = [Empty EXCEPT !.live = FALSE]
    /\ UNCHANGED <<job, proc, ghosts>>

-----------------------------------------------------------------------------

Step(r) ==
    \/ StartExtraction(r)
    \/ \E ok \in BOOLEAN : ExtractFile(r, ok)
    \/ RecordFailure(r) \/ AllFailed(r) \/ Combine(r)
    \/ \E drawn \in Answers : Synthesize(r, drawn)
    \/ SynthesisFails(r) \/ GiveUp(r)
    \/ Push(r) \/ ReadOwn(r) \/ WriteOwn(r) \/ Finish(r) \/ Reset(r)
    \/ ProposeWrite(r) \/ AcceptWrite(r) \/ DismissWrite(r) \/ EditWrite(r)

Begin(r) ==
    \/ \E j \in Job, skip \in BOOLEAN : \E offered \in SeqOf({"good", "bad"}, MaxFiles) :
          Upload(r, j, offered, skip)
    \/ \E j \in Job : Retry(r, j)
    \/ \E f \in Field, v \in Value :
          Propose(r, [field |-> f, value |-> v, src |-> "session"])
    \/ \E f \in Field : Accept(r, f) \/ Dismiss(r, f)
    \/ \E e \in Edit : BeginEdit(r, e)
    \/ \E f \in Field : \E list \in SeqOf(Value, Cap(f)) : PutProfile(r, f, list)
    \/ \E notes \in SeqOf(Value, NoteCap), facts \in SeqOf(Value, FactCap) :
          CreateProfile(r, notes, facts)
    \/ DeleteProfile(r)

ProfileNext ==
    \/ \E r \in Request : Begin(r) \/ Step(r) \/ \E read \in BOOLEAN : Fault(r, read)
    \/ Restart

\* A handler at an await resumes.  Nothing else is promised.
ProfileFairness == \A r \in Request : WF_profileVars(Step(r))

Spec == Init /\ [][ProfileNext]_profileVars /\ ProfileFairness

-----------------------------------------------------------------------------
(* Properties.                                                             *)

\* The state's types, and the two caps, which every writer must apply.
TypeOK ==
    /\ profile \in [live : BOOLEAN, kept : [Field -> Seq(Value)],
                    pending : Seq(Proposal)]
    /\ Len(profile.kept["style_note"]) <= NoteCap
    /\ Len(profile.kept["situation"]) <= FactCap
    /\ job \in [Job -> JobDoc]
    /\ calls \in 0 .. MaxCalls /\ faults \in 0 .. MaxFaults
    /\ granted \cup shown \cup applied \subseteq Field \X Value
    /\ accepts \in [Field -> Nat]
    /\ pushes \in [Job -> Nat] /\ crashed \in BOOLEAN

\* An entry the user neither typed nor let in unseen gets into the profile by
\* way of the review only: it was put up there, and a field has no more such
\* entries than accepts of that field were carried out, whatever is written
\* back from old readings.  Which one an accept brings in is the queue's
\* choice and not that of the user's click (accept_pending_change: "the only
\* path"; skip_review is the exception).
Unasked(f) == {v \in ToSet(profile.kept[f]) : <<f, v>> \notin granted}
NeverAutoApplied ==
    \A f \in Field : /\ {f} \X Unasked(f) \subseteq shown
                     /\ Cardinality(Unasked(f)) <= accepts[f]

\* A job that failed after its proposals were queued may be retried; the
\* retry must not queue them again (process_document_upload, retry_analysis).
QueuedOnce == \A j \in Job : pushes[j] <= 1

\* Accepting a proposal, and applying an unreviewed upload, never store a
\* fact twice, although duplicates were looked for in an older profile and
\* a batch may name one fact twice (accept_pending_change and
\* _apply_proposals_directly).
Resumes(r) == proc'[r].pc # proc[r].pc /\ crashed' = crashed
FactsDistinct ==
    [][\A r \in Request :
          (/\ At(r, "accept") \/ At(r, "writeown")
           /\ Resumes(r)
           /\ IsInjective(proc[r].seen.kept["situation"])
           /\ profile'.kept["situation"] # profile.kept["situation"])
          => IsInjective(profile'.kept["situation"])]_profileVars

\* An instruction that drops entries leaves exactly the others of the list
\* it was given, as far as the cap allows (apply_memory_edit).
EditWrites(r) == At(r, "edit") /\ Resumes(r) /\ profile.live
EditDropsNamed ==
    [][\A r \in Request : EditWrites(r) =>
          LET e == proc[r].edit
              old == proc[r].seen.kept[e.field]
              new == profile'.kept[e.field]
          IN /\ e.drop \cap ToSet(new) \subseteq {e.add, e.label}
             /\ Len(new) < (IF e.field = "situation" THEN FactCap ELSE NoteCap) =>
                   ToSet(old) \ e.drop \subseteq ToSet(new)]_profileVars

\* Every job ends as done or failed, if the process does not die, even when
\* a database call of the pipeline fails (the except clauses).
Running(j) == job[j].status \in {"pending", "extracting", "synthesizing"}
JobSettles == \A j \in Job : Running(j) ~> (~Running(j) \/ crashed)

=============================================================================
