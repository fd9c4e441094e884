------------------------- MODULE ProfileReviewProofs -------------------------
(***************************************************************************)
(* ProfileReview for any number of requests, jobs, files and failures: the *)
(* proposals of an upload are queued for review at most once, whatever is  *)
(* retried; the lists of the profile keep their caps, and what the user    *)
(* neither typed nor let in unseen was put up for review and came in by an *)
(* accept, one by each; adding never repeats a fact, and an edit drops     *)
(* what it names.  And FactCaches, composed with every operation of the    *)
(* profile: a cached judgment is of the facts the profile has, and a       *)
(* recompute of a topic's scope keeps the user's answers.                  *)
(***************************************************************************)
EXTENDS FactCaches, FoldProofs

\* The states in which a request has a job, and those before its proposals
\* have been queued.
Underway == PipelineStates \cup {"caught", "reset"}
Unqueued == {"queued", "file", "refile", "combine", "synth", "push"}

\* The fields of the two records; what is in them does not matter here.
IsDoc(d) == d = [status |-> d.status, files |-> d.files, text |-> d.text, skip |-> d.skip,
                 proposals |-> d.proposals]
IsLocals(l) == l = [pc |-> l.pc, job |-> l.job, field |-> l.field, file |-> l.file,
                    texts |-> l.texts, props |-> l.props, seen |-> l.seen, edit |-> l.edit]

Shape ==
    /\ job = [j \in Job |-> job[j]] /\ \A j \in Job : IsDoc(job[j])
    /\ proc = [r \in Request |-> proc[r]] /\ \A r \in Request : IsLocals(proc[r])
    /\ pushes \in [Job -> Nat]
    /\ \A r \in Request : proc[r].pc \in Underway => proc[r].job \in Job

\* One request is on its way to queue the proposals of a job that has none
\* queued.
OneQueues ==
    /\ \A j \in Job : job[j].status = None => pushes[j] = 0
    /\ \A r \in Request : proc[r].pc \in Unqueued =>
          job[proc[r].job].status # None /\ pushes[proc[r].job] = 0
    /\ \A r, q \in Request :
          (proc[r].pc \in Unqueued /\ proc[q].pc \in Unqueued /\ proc[r].job = proc[q].job)
             => r = q

QueueInv == Shape /\ OneQueues /\ QueuedOnce

LEMMA UnqueuedUnderway == Unqueued \subseteq Underway
  BY DEF Unqueued, Underway, PipelineStates

LEMMA IdleLocals == IsLocals(Idle) /\ Idle.pc \notin Underway
<1>1. Idle.pc = "idle" /\ IsLocals(Idle)
  BY DEF IsLocals, Idle
<1>2. "idle" \notin Underway
  BY Zenon DEF Underway, PipelineStates
<1> QED
  BY <1>1, <1>2

LEMMA QueueInit == Init => QueueInv
<1> SUFFICES ASSUME Init PROVE QueueInv
  OBVIOUS
<1>1. \A r \in Request : proc[r] = Idle
  BY DEF Init
<1>2. \A r \in Request : proc[r].pc \notin Unqueued
  BY <1>1, IdleLocals, UnqueuedUnderway
<1>3. Shape
  BY <1>1, IdleLocals DEF Init, Shape, IsDoc, NoJob
<1> QED
  BY <1>2, <1>3 DEF Init, QueueInv, OneQueues, QueuedOnce

\* A request that moves on with its job, and may update one that exists, queues
\* nothing.
Carries(r, l) ==
    /\ IsLocals(l)
    /\ l.pc \in Underway => l.job \in Job
    /\ l.pc \in Unqueued => proc[r].pc \in Unqueued /\ l.job = proc[r].job

\* A job that exists goes on existing.
JobsKept ==
    /\ job' = [j \in Job |-> job'[j]]
    /\ \A j \in Job : IsDoc(job'[j]) /\ (job'[j] = job[j] \/ job'[j].status # None)

LEMMA JobSame == ASSUME Shape, UNCHANGED job PROVE JobsKept
  BY DEF Shape, JobsKept

LEMMA JobSet ==
    ASSUME Shape, NEW j \in Job, NEW d, IsDoc(d), d.status # None, Set(j, d) PROVE JobsKept
  BY DEF Shape, JobsKept, Set

LEMMA MovesOn ==
    ASSUME QueueInv, NEW r \in Request, NEW l, Carries(r, l),
           proc' = [proc EXCEPT ![r] = l], UNCHANGED pushes, JobsKept
    PROVE QueueInv'
<1> USE DEF QueueInv
<1>1. /\ proc' = [q \in Request |-> proc'[q]]
      /\ proc'[r] = l /\ \A q \in Request \ {r} : proc'[q] = proc[q]
  BY DEF Shape
<1>2. Shape'
  BY <1>1 DEF Shape, Carries, JobsKept
<1>3. ASSUME NEW q \in Request, proc'[q].pc \in Unqueued
      PROVE proc[q].pc \in Unqueued /\ proc'[q].job = proc[q].job /\ proc[q].job \in Job
  BY <1>1, <1>3, UnqueuedUnderway DEF Carries, Shape
<1>4. OneQueues'
  BY <1>3 DEF OneQueues, JobsKept
<1> QED
  BY <1>2, <1>4 DEF QueuedOnce

LEMMA Ends ==
    ASSUME QueueInv, NEW r \in Request, End(r), UNCHANGED pushes, JobsKept PROVE QueueInv'
<1>1. Carries(r, Idle)
  BY IdleLocals, UnqueuedUnderway DEF Carries
<1> QED
  BY <1>1, MovesOn DEF End

LEMMA DocStatus ==
    ASSUME NEW d, IsDoc(d), NEW s
    PROVE IsDoc([d EXCEPT !.status = s]) /\ [d EXCEPT !.status = s].status = s
  BY DEF IsDoc

LEMMA LocalsPc ==
    ASSUME NEW l, IsLocals(l), NEW pc
    PROVE /\ IsLocals([l EXCEPT !.pc = pc])
          /\ [l EXCEPT !.pc = pc].pc = pc /\ [l EXCEPT !.pc = pc].job = l.job
  BY DEF IsLocals

LEMMA DocFailed ==
    ASSUME NEW d, IsDoc(d)
    PROVE /\ IsDoc([d EXCEPT !.status = "failed", !.proposals = <<>>])
          /\ [d EXCEPT !.status = "failed", !.proposals = <<>>].status = "failed"
<1> DEFINE e == [d EXCEPT !.status = "failed"]
<1>1. IsDoc(e) /\ e.status = "failed"
  BY DocStatus
<1>2. [d EXCEPT !.status = "failed", !.proposals = <<>>] = [e EXCEPT !.proposals = <<>>]
  OBVIOUS
<1> HIDE DEF e
<1>3. IsDoc([e EXCEPT !.proposals = <<>>]) /\ [e EXCEPT !.proposals = <<>>].status = e.status
  BY <1>1 DEF IsDoc
<1> QED
  BY <1>1, <1>2, <1>3

LEMMA LocalsFile ==
    ASSUME NEW l, IsLocals(l), NEW i
    PROVE /\ IsLocals([l EXCEPT !.file = i])
          /\ [l EXCEPT !.file = i].pc = l.pc /\ [l EXCEPT !.file = i].job = l.job
  BY DEF IsLocals

LEMMA LocalsTexts ==
    ASSUME NEW l, IsLocals(l), NEW t
    PROVE /\ IsLocals([l EXCEPT !.texts = t])
          /\ [l EXCEPT !.texts = t].pc = l.pc /\ [l EXCEPT !.texts = t].job = l.job
  BY DEF IsLocals

LEMMA LocalsProps ==
    ASSUME NEW l, IsLocals(l), NEW ps
    PROVE IsLocals([l EXCEPT !.props = ps]) /\ [l EXCEPT !.props = ps].job = l.job
  BY DEF IsLocals

LEMMA LocalsField ==
    ASSUME NEW l, IsLocals(l), NEW f PROVE IsLocals([l EXCEPT !.field = f])
  BY DEF IsLocals

LEMMA LocalsEdit ==
    ASSUME NEW l, IsLocals(l), NEW e PROVE IsLocals([l EXCEPT !.edit = e])
  BY DEF IsLocals

\* What a step reads of its own request.
LEMMA Own ==
    ASSUME QueueInv, NEW r \in Request
    PROVE /\ IsLocals(proc[r])
          /\ proc[r].pc \in Underway => proc[r].job \in Job /\ IsDoc(job[proc[r].job])
          /\ proc[r].pc \in Unqueued => job[proc[r].job].status # None
  BY DEF QueueInv, Shape, OneQueues

\* A request goes on with its job.
LEMMA GoesOn ==
    ASSUME QueueInv, NEW r \in Request, NEW pc, Go(r, pc), UNCHANGED pushes, JobsKept,
           pc \in Underway => proc[r].pc \in Underway,
           pc \in Unqueued => proc[r].pc \in Unqueued
    PROVE QueueInv'
<1> DEFINE l == [proc[r] EXCEPT !.pc = pc]
<1>1. IsLocals(l) /\ l.pc = pc /\ l.job = proc[r].job
  BY Own, LocalsPc
<1>2. proc' = [proc EXCEPT ![r] = l]
  BY DEF Go
<1> HIDE DEF l
<1>3. Carries(r, l)
  BY <1>1, Own DEF Carries
<1> QED
  BY <1>2, <1>3, MovesOn

-----------------------------------------------------------------------------
(* The pipeline of an upload.                                              *)

\* The first file, the next one, or the combination of all.
LEMMA AtFile ==
    ASSUME QueueInv, NEW r \in Request, NEW l, IsLocals(l), l.pc \in {"file", "combine"},
           l.job = proc[r].job, proc[r].pc \in Unqueued, UNCHANGED pushes, JobsKept,
           proc' = [proc EXCEPT ![r] = l]
    PROVE QueueInv'
<1>1. Carries(r, l)
  BY Own, UnqueuedUnderway DEF Carries
<1> QED
  BY <1>1, MovesOn

LEMMA StartExtractionKeeps ==
    ASSUME QueueInv, NEW r \in Request, StartExtraction(r) PROVE QueueInv'
<1>1. proc[r].pc \in Unqueued /\ proc[r].pc \in Underway
  BY Zenon DEF StartExtraction, At, Unqueued, Underway, PipelineStates
<1>2. JobsKept
  BY <1>1, Own, DocStatus, JobSet DEF StartExtraction, QueueInv, None
<1> DEFINE l == [proc[r] EXCEPT !.pc = "file", !.file = 1]
<1>3. proc' = [proc EXCEPT ![r] = l]
  BY DEF StartExtraction, QueueInv, Shape
<1> DEFINE m == [proc[r] EXCEPT !.pc = "file"]
<1>4. IsLocals(m) /\ m.pc = "file" /\ m.job = proc[r].job
  BY Own, LocalsPc
<1>5. IsLocals(l) /\ l.pc = "file" /\ l.job = proc[r].job
  <2>1. l = [m EXCEPT !.file = 1]
    OBVIOUS
  <2> HIDE DEF l, m
  <2> QED
    BY <1>4, <2>1, LocalsFile
<1> HIDE DEF l
<1>6. UNCHANGED pushes
  BY DEF StartExtraction, ghosts
<1> QED
  BY <1>1, <1>2, <1>3, <1>5, <1>6, AtFile

LEMMA FileKept ==
    ASSUME QueueInv, NEW r \in Request, NEW i, NEW status, proc[r].pc \in Unqueued,
           Set(proc[r].job, FileDone(proc[r].job, i, status))
    PROVE JobsKept
<1> DEFINE d == FileDone(proc[r].job, i, status)
<1>1. IsDoc(job[proc[r].job]) /\ job[proc[r].job].status # None /\ proc[r].job \in Job
  BY Own, UnqueuedUnderway
<1>2. IsDoc(d) /\ d.status = job[proc[r].job].status
  BY <1>1 DEF FileDone, IsDoc
<1> HIDE DEF d
<1> QED
  BY <1>1, <1>2, JobSet DEF QueueInv, d

LEMMA NextFileIs ==
    ASSUME QueueInv, NEW r \in Request
    PROVE /\ IsLocals(NextFile(r)) /\ NextFile(r).pc \in {"file", "combine"}
          /\ NextFile(r).job = proc[r].job
<1>1. ASSUME NEW pc \in {"file", "combine"}, NEW i,
             NextFile(r) = [proc[r] EXCEPT !.pc = pc, !.file = i]
      PROVE /\ IsLocals(NextFile(r)) /\ NextFile(r).pc \in {"file", "combine"}
            /\ NextFile(r).job = proc[r].job
  <2> DEFINE m == [proc[r] EXCEPT !.pc = pc]
  <2>1. IsLocals(m) /\ m.pc = pc /\ m.job = proc[r].job
    BY Own, LocalsPc
  <2>2. NextFile(r) = [m EXCEPT !.file = i]
    BY <1>1
  <2> HIDE DEF m
  <2> QED
    BY <2>1, <2>2, LocalsFile
<1>2. CASE proc[r].file < Len(job[proc[r].job].files)
  BY <1>1, <1>2 DEF NextFile
<1>3. CASE ~(proc[r].file < Len(job[proc[r].job].files))
  BY <1>1, <1>3 DEF NextFile
<1> QED
  BY <1>2, <1>3

LEMMA FileKeeps ==
    ASSUME QueueInv, NEW r \in Request,
           (\E ok \in BOOLEAN : ExtractFile(r, ok)) \/ RecordFailure(r)
    PROVE QueueInv'
<1>1. proc[r].pc \in Unqueued
  BY Zenon DEF ExtractFile, RecordFailure, At, Unqueued
<1>2. JobsKept
  BY <1>1, FileKept DEF ExtractFile, RecordFailure
<1>3. UNCHANGED pushes
  BY DEF ExtractFile, RecordFailure, ghosts
<1>4. CASE proc' = [proc EXCEPT ![r] = NextFile(r)]
  BY <1>1, <1>2, <1>3, <1>4, NextFileIs, AtFile
<1>5. ASSUME NEW t, proc' = [proc EXCEPT ![r] = [NextFile(r) EXCEPT !.texts = t]]
      PROVE QueueInv'
  <2> DEFINE l == [NextFile(r) EXCEPT !.texts = t]
  <2>1. IsLocals(l) /\ l.pc \in {"file", "combine"} /\ l.job = proc[r].job
    BY NextFileIs, LocalsTexts
  <2> HIDE DEF l
  <2> QED
    BY <1>1, <1>2, <1>3, <1>5, <2>1, AtFile DEF l
<1>6. CASE RecordFailure(r)
  BY <1>4, <1>6 DEF RecordFailure
<1>7. ASSUME NEW ok \in BOOLEAN, ExtractFile(r, ok) PROVE QueueInv'
  <2>1. CASE ok
    <3>1. proc' = [proc EXCEPT ![r] = [NextFile(r) EXCEPT !.texts =
                                          NextFile(r).texts \cup {proc[r].file}]]
      BY <1>7, <2>1 DEF ExtractFile
    <3> QED
      BY <1>5, <3>1
  <2>2. CASE ~ok
    BY <1>4, <1>7, <2>2 DEF ExtractFile
  <2> QED
    BY <2>1, <2>2
<1> QED
  BY <1>6, <1>7

LEMMA FailedDoc ==
    ASSUME NEW j \in Job, IsDoc(job[j]) PROVE IsDoc(Failed(j)) /\ Failed(j).status # None
<1>1. IsDoc(Failed(j)) /\ Failed(j).status = "failed"
  BY DocFailed DEF Failed
<1> QED
  BY <1>1 DEF None

LEMMA CombineKeeps ==
    ASSUME QueueInv, NEW r \in Request, AllFailed(r) \/ Combine(r) PROVE QueueInv'
<1>1. proc[r].pc \in Unqueued /\ proc[r].pc \in Underway
  BY Zenon DEF AllFailed, Combine, At, Unqueued, Underway, PipelineStates
<1>2. proc[r].job \in Job /\ IsDoc(job[proc[r].job])
  BY <1>1, Own
<1>3. UNCHANGED pushes
  BY DEF AllFailed, Combine, ghosts
<1>4. CASE AllFailed(r)
  BY <1>2, <1>3, <1>4, FailedDoc, JobSet, Ends DEF AllFailed, QueueInv
<1>5. CASE Combine(r)
  <2> DEFINE d == [job[proc[r].job] EXCEPT !.status = "synthesizing"]
             e == [d EXCEPT !.text = proc[r].texts]
  <2>1. IsDoc(d) /\ d.status = "synthesizing"
    BY <1>2, DocStatus
  <2>2. Set(proc[r].job, e)
    BY <1>5 DEF Combine
  <2> HIDE DEF d
  <2>3. IsDoc(e) /\ e.status # None
    BY <2>1 DEF IsDoc, None
  <2> HIDE DEF e
  <2>4. JobsKept
    BY <1>2, <2>2, <2>3, JobSet DEF QueueInv
  <2>5. "synth" \in Underway
    BY Zenon DEF Underway, PipelineStates
  <2> QED
    BY <1>1, <1>3, <1>5, <2>4, <2>5, GoesOn DEF Combine
<1> QED
  BY <1>4, <1>5

\* Only the first synthesis of an upload goes on to queue its proposals.
LEMMA SynthesizeKeeps ==
    ASSUME QueueInv, NEW r \in Request, NEW drawn, Synthesize(r, drawn) PROVE QueueInv'
<1> DEFINE ps == Accumulated(proc[r].job, drawn)
<1> HIDE DEF ps
<1>1. /\ At(r, "synth") \/ At(r, "resynth")
      /\ proc' = [proc EXCEPT ![r].props = ps, ![r].pc = Deliver(r, ps)]
      /\ UNCHANGED <<job, pushes>>
  BY DEF Synthesize, ghosts, ps
<1>2. proc[r].pc \in Underway
  BY <1>1, Zenon DEF At, Underway, PipelineStates
<1>3. Deliver(r, ps) \in Unqueued => proc[r].pc \in Unqueued
  BY <1>1, Zenon DEF Deliver, At, Unqueued
<1> DEFINE m == [proc[r] EXCEPT !.props = ps]
           l == [m EXCEPT !.pc = Deliver(r, ps)]
<1>4. IsLocals(m) /\ m.job = proc[r].job
  BY Own, LocalsProps
<1>5. proc' = [proc EXCEPT ![r] = l]
  BY <1>1 DEF QueueInv, Shape
<1> HIDE DEF m
<1>6. IsLocals(l) /\ l.pc = Deliver(r, ps) /\ l.job = m.job
  BY <1>4, LocalsPc
<1> HIDE DEF l
<1>7. Carries(r, l)
  BY <1>2, <1>3, <1>4, <1>6, Own DEF Carries
<1>8. JobsKept
  BY <1>1, JobSame DEF QueueInv
<1> QED
  BY <1>1, <1>5, <1>7, <1>8, MovesOn

LEMMA GiveUpKeeps ==
    ASSUME QueueInv, NEW r \in Request, SynthesisFails(r) \/ GiveUp(r) PROVE QueueInv'
<1>1. proc[r].pc \in Underway
  BY Zenon DEF SynthesisFails, GiveUp, At, Underway, PipelineStates
<1>2. UNCHANGED pushes
  BY DEF SynthesisFails, GiveUp, ghosts
<1>3. CASE SynthesisFails(r)
  <2>1. "giveup" \notin Unqueued
    BY Zenon DEF Unqueued
  <2>2. JobsKept
    BY <1>3, JobSame DEF SynthesisFails, QueueInv
  <2> QED
    BY <1>1, <1>2, <1>3, <2>1, <2>2, GoesOn DEF SynthesisFails
<1>4. CASE GiveUp(r)
  <2>1. proc[r].job \in Job /\ IsDoc(job[proc[r].job])
    BY <1>1, Own
  <2> QED
    BY <1>2, <1>4, <2>1, FailedDoc, JobSet, Ends DEF GiveUp, QueueInv
<1> QED
  BY <1>3, <1>4

\* The one step that queues: nothing of the job was queued before, and no
\* other request is on its way to it.
LEMMA PushKeeps == ASSUME QueueInv, NEW r \in Request, Push(r) PROVE QueueInv'
<1> DEFINE l == [proc[r] EXCEPT !.pc = "finish"]
           j == proc[r].job
<1>1. proc[r].pc \in Unqueued /\ j \in Job
  <2>1. proc[r].pc \in Unqueued
    BY Zenon DEF Push, At, Unqueued
  <2> QED
    BY <2>1, Own, UnqueuedUnderway
<1>2. IsLocals(l) /\ l.pc = "finish" /\ l.job = j
  BY Own, LocalsPc
<1>3. proc' = [proc EXCEPT ![r] = l] /\ UNCHANGED job /\ pushes' = [pushes EXCEPT ![j] = @ + 1]
  BY DEF Push, Go
<1> HIDE DEF l
<1>4. "finish" \notin Unqueued
  BY Zenon DEF Unqueued
<1>5. Shape'
  <2>1. proc' = [q \in Request |-> proc'[q]] /\ \A q \in Request : IsLocals(proc'[q])
    BY <1>2, <1>3 DEF QueueInv, Shape
  <2>2. \A q \in Request : proc'[q].pc \in Underway => proc'[q].job \in Job
    BY <1>1, <1>2, <1>3 DEF QueueInv, Shape
  <2> QED
    BY <1>1, <1>3, <2>1, <2>2 DEF QueueInv, Shape
<1>6. pushes[j] = 0 /\ job[j].status # None
  BY <1>1 DEF QueueInv, OneQueues
<1>7. ASSUME NEW q \in Request, proc'[q].pc \in Unqueued
      PROVE /\ proc[q].pc \in Unqueued /\ proc'[q] = proc[q]
            /\ proc[q].job # j /\ proc[q].job \in Job
  <2>1. q # r
    BY <1>2, <1>3, <1>4, <1>7 DEF QueueInv, Shape
  <2>2. proc'[q] = proc[q]
    BY <1>3, <2>1 DEF QueueInv, Shape
  <2> QED
    BY <1>1, <1>7, <2>1, <2>2, Own, UnqueuedUnderway DEF QueueInv, OneQueues
<1>8. OneQueues'
  BY <1>1, <1>3, <1>6, <1>7 DEF QueueInv, Shape, OneQueues
<1>9. QueuedOnce'
  BY <1>1, <1>3, <1>6 DEF QueueInv, Shape, QueuedOnce
<1> QED
  BY <1>5, <1>8, <1>9 DEF QueueInv

\* An unreviewed upload applies its proposals, and queues none.
LEMMA OwnKeeps ==
    ASSUME QueueInv, NEW r \in Request, ReadOwn(r) \/ WriteOwn(r) PROVE QueueInv'
<1>1. proc[r].pc \in Underway
  BY Zenon DEF ReadOwn, WriteOwn, At, Underway, PipelineStates
<1> DEFINE p == IF At(r, "readown") THEN profile ELSE Empty
<1> HIDE DEF p
<1>2. PICK pc \in {"writeown", "finish"} :
        proc' = [proc EXCEPT ![r].pc = pc, ![r].seen = p]
  BY DEF ReadOwn, WriteOwn, At, p
<1>3. pc \notin Unqueued
  BY Zenon DEF Unqueued
<1> DEFINE m == [proc[r] EXCEPT !.pc = pc]
           l == [m EXCEPT !.seen = p]
<1>4. IsLocals(m) /\ m.pc = pc /\ m.job = proc[r].job
  BY Own, LocalsPc
<1>5. proc' = [proc EXCEPT ![r] = l]
  BY <1>2 DEF QueueInv, Shape
<1> HIDE DEF m
<1>6. IsLocals(l) /\ l.pc = pc /\ l.job = m.job
  BY <1>4 DEF IsLocals
<1> HIDE DEF l
<1>7. Carries(r, l)
  BY <1>1, <1>3, <1>4, <1>6, Own DEF Carries
<1>8. JobsKept /\ UNCHANGED pushes
  BY JobSame DEF ReadOwn, WriteOwn, ghosts, QueueInv
<1> QED
  BY <1>5, <1>7, <1>8, MovesOn

LEMMA FinishKeeps ==
    ASSUME QueueInv, NEW r \in Request, Finish(r) \/ Reset(r) PROVE QueueInv'
<1>1. proc[r].pc \in Underway
  BY Zenon DEF Finish, Reset, At, Underway, PipelineStates
<1>2. proc[r].job \in Job /\ IsDoc(job[proc[r].job])
  BY <1>1, Own
<1>3. UNCHANGED pushes
  BY DEF Finish, Reset, ghosts
<1>4. CASE Finish(r)
  <2> DEFINE d == [job[proc[r].job] EXCEPT !.status = "done"]
             e == [d EXCEPT !.proposals = proc[r].props]
  <2>1. IsDoc(d) /\ d.status = "done"
    BY <1>2, DocStatus
  <2>2. Set(proc[r].job, e)
    BY <1>4 DEF Finish
  <2> HIDE DEF d
  <2>3. IsDoc(e) /\ e.status # None
    BY <2>1 DEF IsDoc, None
  <2> HIDE DEF e
  <2>4. JobsKept
    BY <1>2, <2>2, <2>3, JobSet DEF QueueInv
  <2> QED
    BY <1>3, <1>4, <2>4, Ends DEF Finish
<1>5. CASE Reset(r)
  <2> DEFINE d == [job[proc[r].job] EXCEPT !.status = "synthesizing"]
  <2>1. IsDoc(d) /\ d.status # None
    BY <1>2, DocStatus DEF None
  <2>2. Set(proc[r].job, d)
    BY <1>5 DEF Reset
  <2> HIDE DEF d
  <2>3. JobsKept
    BY <1>2, <2>1, <2>2, JobSet DEF QueueInv
  <2>4. "resynth" \notin Unqueued
    BY Zenon DEF Unqueued
  <2> QED
    BY <1>1, <1>3, <1>5, <2>3, <2>4, GoesOn DEF Reset
<1> QED
  BY <1>4, <1>5

LEMMA UploadKeeps ==
    ASSUME QueueInv, NEW r \in Request, NEW j \in Job, NEW offered, NEW skip,
           Upload(r, j, offered, skip)
    PROVE QueueInv'
<1> DEFINE files == [i \in DOMAIN Valid(offered) |-> "pending"]
           d1 == [NoJob EXCEPT !.status = "pending"]
           d2 == [d1 EXCEPT !.skip = skip]
           d == [d2 EXCEPT !.files = files]
           m == [proc[r] EXCEPT !.pc = "queued"]
           l == [m EXCEPT !.job = j]
<1>1. job[j].status = None /\ UNCHANGED pushes /\ Set(j, d)
  BY DEF Upload, ghosts
<1>2. proc' = [proc EXCEPT ![r] = l]
  BY DEF Upload, QueueInv, Shape
<1> HIDE DEF files
<1>3. IsDoc(d) /\ d.status = "pending"
  <2>1. IsDoc(NoJob)
    BY DEF IsDoc, NoJob
  <2>2. IsDoc(d1) /\ d1.status = "pending"
    BY <2>1, DocStatus
  <2> HIDE DEF d1
  <2>3. IsDoc(d2) /\ d2.status = "pending"
    BY <2>2 DEF IsDoc
  <2> HIDE DEF d2
  <2> QED
    BY <2>3 DEF IsDoc
<1>4. IsLocals(m) /\ m.pc = "queued"
  BY Own, LocalsPc
<1> HIDE DEF d, m
<1>5. IsLocals(l) /\ l.pc = "queued" /\ l.job = j
  BY <1>4 DEF IsLocals
<1> HIDE DEF l
<1>6. /\ proc' = [q \in Request |-> proc'[q]]
      /\ proc'[r] = l /\ \A q \in Request \ {r} : proc'[q] = proc[q]
  BY <1>2 DEF QueueInv, Shape
<1>7. JobsKept /\ job'[j].status # None
  BY <1>1, <1>3, JobSet DEF QueueInv, Shape, Set, None
<1>8. Shape'
  BY <1>1, <1>5, <1>6, <1>7 DEF QueueInv, Shape, JobsKept
<1>9. pushes[j] = 0
  BY <1>1 DEF QueueInv, OneQueues
<1>10. ASSUME NEW q \in Request, q # r, proc'[q].pc \in Unqueued
       PROVE /\ proc[q].pc \in Unqueued /\ proc'[q] = proc[q]
             /\ proc[q].job # j /\ proc[q].job \in Job
  <2>1. proc'[q] = proc[q]
    BY <1>6, <1>10
  <2> QED
    BY <1>1, <1>10, <2>1, Own, UnqueuedUnderway
<1>11. OneQueues'
  <2>1. \A i \in Job : job'[i].status = None => pushes'[i] = 0
    BY <1>1, <1>7 DEF QueueInv, OneQueues, JobsKept
  <2>2. ASSUME NEW q \in Request, proc'[q].pc \in Unqueued
        PROVE job'[proc'[q].job].status # None /\ pushes'[proc'[q].job] = 0
    <3>1. CASE q = r
      BY <1>1, <1>5, <1>6, <1>7, <1>9, <3>1
    <3>2. CASE q # r
      BY <1>1, <1>7, <1>10, <2>2, <3>2 DEF QueueInv, OneQueues, JobsKept
    <3> QED
      BY <3>1, <3>2
  <2>3. ASSUME NEW p \in Request, NEW q \in Request, proc'[p].pc \in Unqueued,
               proc'[q].pc \in Unqueued, proc'[p].job = proc'[q].job
        PROVE p = q
    BY <1>5, <1>6, <1>10, <2>3 DEF QueueInv, OneQueues
  <2> QED
    BY <2>1, <2>2, <2>3 DEF OneQueues
<1> QED
  BY <1>1, <1>8, <1>11 DEF QueueInv, QueuedOnce

LEMMA RetryKeeps ==
    ASSUME QueueInv, NEW r \in Request, NEW j \in Job, Retry(r, j) PROVE QueueInv'
<1> DEFINE m == [proc[r] EXCEPT !.pc = "reset"]
           l == [m EXCEPT !.job = j]
<1>1. proc' = [proc EXCEPT ![r] = l] /\ UNCHANGED <<job, pushes>>
  BY DEF Retry, QueueInv, Shape, ghosts
<1>2. IsLocals(m) /\ m.pc = "reset"
  BY Own, LocalsPc
<1> HIDE DEF m
<1>3. IsLocals(l) /\ l.pc = "reset" /\ l.job = j
  BY <1>2 DEF IsLocals
<1> HIDE DEF l
<1>4. "reset" \notin Unqueued
  BY Zenon DEF Unqueued
<1>5. Carries(r, l)
  BY <1>3, <1>4 DEF Carries
<1>6. JobsKept
  BY <1>1, JobSame DEF QueueInv
<1> QED
  BY <1>1, <1>5, <1>6, MovesOn

\* The except clause keeps the job, and queues nothing.
LEMMA FaultKeeps ==
    ASSUME QueueInv, NEW r \in Request, NEW read \in BOOLEAN, Fault(r, read) PROVE QueueInv'
<1> DEFINE next == Catcher(proc[r].pc)
<1>1. proc[r].pc \in Underway /\ UNCHANGED <<job, pushes>>
  BY DEF Fault, Underway, ghosts
<1>2. proc[r].job \in Job /\ IsLocals(proc[r]) /\ JobsKept
  BY <1>1, Own, JobSame DEF QueueInv
<1>3. \/ next = "idle" \/ next = "caught"
      \/ (next = "refile" /\ proc[r].pc = "file")
  <2>1. CASE proc[r].pc = "file"
    BY <2>1 DEF Catcher
  <2>2. CASE proc[r].pc \in {"caught", "reset"}
    BY <2>2, Zenon DEF Catcher
  <2>3. CASE proc[r].pc # "file" /\ proc[r].pc \notin {"caught", "reset"}
    BY <2>3, Zenon DEF Catcher
  <2> QED
    BY <2>1, <2>2, <2>3
<1>4. CASE proc' = [proc EXCEPT ![r] = Idle]
  BY <1>1, <1>2, <1>4, Ends DEF End
<1>5. ASSUME NEW t, proc[r].pc = "file",
             proc' = [proc EXCEPT ![r] = [proc[r] EXCEPT !.pc = "refile", !.texts = t]]
      PROVE QueueInv'
  <2> DEFINE m == [proc[r] EXCEPT !.pc = "refile"]
             l == [m EXCEPT !.texts = t]
  <2>1. IsLocals(m) /\ m.pc = "refile" /\ m.job = proc[r].job
    BY <1>2, LocalsPc
  <2>2. proc' = [proc EXCEPT ![r] = l]
    BY <1>5
  <2>3. proc[r].pc \in Unqueued
    BY <1>5, Zenon DEF Unqueued
  <2> HIDE DEF m
  <2>4. IsLocals(l) /\ l.pc = m.pc /\ l.job = m.job
    BY <2>1, LocalsTexts
  <2> HIDE DEF l
  <2>5. Carries(r, l)
    BY <1>2, <2>1, <2>3, <2>4 DEF Carries
  <2> QED
    BY <1>1, <1>2, <2>2, <2>5, MovesOn
<1>6. CASE proc' = [proc EXCEPT ![r] = [Idle EXCEPT !.pc = "caught", !.job = proc[r].job]]
  <2> DEFINE m == [Idle EXCEPT !.pc = "caught"]
             l == [m EXCEPT !.job = proc[r].job]
  <2>1. IsLocals(m) /\ m.pc = "caught"
    BY IdleLocals, LocalsPc
  <2>2. proc' = [proc EXCEPT ![r] = l]
    BY <1>6
  <2> HIDE DEF m
  <2>3. IsLocals(l) /\ l.pc = "caught" /\ l.job = proc[r].job
    BY <2>1 DEF IsLocals
  <2> HIDE DEF l
  <2>4. "caught" \notin Unqueued
    BY Zenon DEF Unqueued
  <2>5. Carries(r, l)
    BY <1>2, <2>3, <2>4 DEF Carries
  <2> QED
    BY <1>1, <1>2, <2>2, <2>5, MovesOn
<1>7. CASE next = "idle"
  BY <1>4, <1>7 DEF Fault
<1>8. CASE next = "caught"
  BY <1>6, <1>8 DEF Fault
<1>9. CASE next = "refile" /\ proc[r].pc = "file"
  <2> DEFINE t == proc[r].texts \cup (IF read THEN {proc[r].file} ELSE {})
  <2>1. proc' = [proc EXCEPT ![r] = [proc[r] EXCEPT !.pc = "refile", !.texts = t]]
    BY <1>9 DEF Fault
  <2> HIDE DEF t
  <2> QED
    BY <1>5, <1>9, <2>1
<1> QED
  BY <1>3, <1>7, <1>8, <1>9

LEMMA RestartKeeps == ASSUME QueueInv, Restart PROVE QueueInv'
<1>1. proc' = [r \in Request |-> Idle] /\ UNCHANGED <<job, pushes>>
  BY DEF Restart
<1>2. \A r \in Request : proc'[r].pc \notin Unqueued
  BY <1>1, IdleLocals, UnqueuedUnderway
<1>3. Shape'
  BY <1>1, IdleLocals DEF QueueInv, Shape
<1> QED
  BY <1>1, <1>2, <1>3 DEF QueueInv, OneQueues, QueuedOnce

-----------------------------------------------------------------------------
(* What has no job: reviews, edits and the form.                           *)

LEMMA ReadProfileKeeps ==
    ASSUME QueueInv, NEW r \in Request, NEW op, NEW pc, NEW fields,
           pc \notin Underway, IsLocals(fields), ReadProfile(r, op, pc, fields)
    PROVE QueueInv'
<1> DEFINE m == [fields EXCEPT !.pc = pc]
           l == [m EXCEPT !.seen = profile]
<1>1. IsLocals(m) /\ m.pc = pc
  BY LocalsPc
<1>2. proc' = [proc EXCEPT ![r] = l] /\ UNCHANGED <<job, pushes>>
  BY DEF ReadProfile, ghosts
<1> HIDE DEF m
<1>3. IsLocals(l) /\ l.pc = pc
  BY <1>1 DEF IsLocals
<1> HIDE DEF l
<1>4. Carries(r, l) /\ JobsKept
  BY <1>2, <1>3, JobSame, UnqueuedUnderway DEF Carries, QueueInv
<1> QED
  BY <1>2, <1>4, MovesOn

LEMMA ReviewKeeps ==
    ASSUME QueueInv, NEW r \in Request,
           \/ \E f \in Field, v \in Value :
                 Propose(r, [field |-> f, value |-> v, src |-> "session"])
           \/ \E f \in Field : Accept(r, f) \/ Dismiss(r, f)
           \/ \E e \in Edit : BeginEdit(r, e)
    PROVE QueueInv'
<1>1. {"propose", "accept", "dismiss", "edit"} \cap Underway = {}
  BY Zenon DEF Underway, PipelineStates
<1>2. ASSUME NEW p, Propose(r, p) PROVE QueueInv'
  <2> DEFINE ps == <<p>>
             f == p.field
             m == [Idle EXCEPT !.props = ps]
             fields == [m EXCEPT !.field = f]
  <2>1. ReadProfile(r, "propose", "propose", fields)
    BY <1>2 DEF Propose
  <2> HIDE DEF ps, f
  <2>2. IsLocals(fields)
    <3>1. IsLocals(m)
      BY IdleLocals, LocalsProps
    <3> HIDE DEF m
    <3> QED
      BY <3>1, LocalsField
  <2> HIDE DEF fields
  <2> QED
    BY <1>1, <2>1, <2>2, ReadProfileKeeps
<1>3. ASSUME NEW f, IsLocals([Idle EXCEPT !.field = f]),
             Accept(r, f) \/ Dismiss(r, f)
      PROVE QueueInv'
  <2> DEFINE fields == [Idle EXCEPT !.field = f]
  <2>1. IsLocals(fields)
    BY <1>3
  <2>2. \/ ReadProfile(r, "accept", "accept", fields)
        \/ ReadProfile(r, "dismiss", "dismiss", fields)
    BY <1>3 DEF Accept, Dismiss
  <2> HIDE DEF fields
  <2> QED
    BY <1>1, <2>1, <2>2, ReadProfileKeeps
<1>4. ASSUME NEW e, BeginEdit(r, e) PROVE QueueInv'
  <2> DEFINE fields == [Idle EXCEPT !.edit = e]
  <2>1. IsLocals(fields)
    BY IdleLocals, LocalsEdit
  <2>2. ReadProfile(r, "edit", "edit", fields)
    BY <1>4 DEF BeginEdit
  <2> HIDE DEF fields
  <2> QED
    BY <1>1, <2>1, <2>2, ReadProfileKeeps
<1>5. ASSUME NEW f PROVE IsLocals([Idle EXCEPT !.field = f])
  BY IdleLocals, LocalsField
<1> QED
  BY <1>2, <1>3, <1>4, <1>5

LEMMA WriteKeeps ==
    ASSUME QueueInv, NEW r \in Request,
           ProposeWrite(r) \/ AcceptWrite(r) \/ DismissWrite(r) \/ EditWrite(r)
    PROVE QueueInv'
<1>1. End(r) /\ UNCHANGED <<job, pushes>>
  BY DEF ProposeWrite, AcceptWrite, DismissWrite, EditWrite, ghosts
<1> QED
  BY <1>1, JobSame, Ends DEF QueueInv

LEMMA StillKeeps ==
    ASSUME QueueInv, UNCHANGED <<job, proc, pushes>> PROVE QueueInv'
  BY DEF QueueInv, Shape, OneQueues, QueuedOnce

LEMMA QueueStep == QueueInv /\ [ProfileNext]_profileVars => QueueInv'
<1> SUFFICES ASSUME QueueInv, [ProfileNext]_profileVars PROVE QueueInv'
  OBVIOUS
<1>1. ASSUME NEW r \in Request, Begin(r) PROVE QueueInv'
  <2>1. CASE \E f, list : PutProfile(r, f, list)
    BY <2>1, StillKeeps DEF PutProfile
  <2>2. CASE (\E notes, facts : CreateProfile(r, notes, facts)) \/ DeleteProfile(r)
    BY <2>2, StillKeeps DEF CreateProfile, DeleteProfile, ghosts
  <2> QED
    BY <1>1, <2>1, <2>2, UploadKeeps, RetryKeeps, ReviewKeeps DEF Begin
<1>2. ASSUME NEW r \in Request, Step(r) PROVE QueueInv'
  BY <1>2, StartExtractionKeeps, FileKeeps, CombineKeeps, SynthesizeKeeps, GiveUpKeeps,
     PushKeeps, OwnKeeps, FinishKeeps, WriteKeeps DEF Step
<1>3. CASE UNCHANGED profileVars
  BY <1>3, StillKeeps DEF profileVars
<1> QED
  BY <1>1, <1>2, <1>3, FaultKeeps, RestartKeeps DEF ProfileNext

\* The proposals of an upload reach the review once, however often its
\* pipeline fails or is retried, and however many uploads and retries run side
\* by side (document_pipeline.py, documents.py).
THEOREM ProposalsQueuedOnce == Spec => []QueuedOnce
<1>1. QueueInv => QueuedOnce
  BY DEF QueueInv
<1> QED
  BY <1>1, QueueInit, QueueStep, PTL DEF Spec
-----------------------------------------------------------------------------
(* The judgments kept in the profile.                                      *)

\* The judgments and their stamp come from the same reading.
OneReading == quality.known => quality.judged = quality.stamp

LEMMA ReadingStep == OneReading /\ [CacheNext]_vars => OneReading'
<1> SUFFICES ASSUME OneReading, [CacheNext]_vars PROVE OneReading'
  OBVIOUS
<1>1. CASE CachesStay
  BY <1>1 DEF CachesStay, OneReading, Unjudged
<1>2. CASE UNCHANGED quality
  BY <1>2 DEF OneReading
<1>3. ASSUME NEW r \in Request, QualityWrite(r) PROVE OneReading'
  BY <1>3 DEF QualityWrite, Stamped, OneReading
<1>4. ASSUME NEW r \in Request, CacheStep(r), ~QualityWrite(r) PROVE UNCHANGED quality
  BY <1>4 DEF CacheStep, JudgeFails, EnsureScope, ScopeWrite, ResolveWrite
<1>5. ASSUME NEW r \in Request,
             GetQuality(r) \/ GetTopic(r) \/ \E v \in Value : Resolve(r, v)
      PROVE  UNCHANGED quality
  BY <1>5 DEF GetQuality, GetTopic, Resolve, ReadTopic, caches
<1> QED
  BY <1>1, <1>2, <1>3, <1>4, <1>5 DEF CacheNext, vars

\* Judgments served without asking the LLM are about the facts the profile
\* has now, whatever was written between the reading and the storing.
THEOREM JudgmentsAreFresh == CacheSpec => []QualityFresh
<1>1. CacheInit => OneReading
  BY DEF CacheInit, OneReading, Unjudged
<1>2. OneReading => QualityFresh
  BY DEF OneReading, QualityFresh, Hit
<1> QED
  BY <1>1, <1>2, ReadingStep, PTL DEF CacheSpec

-----------------------------------------------------------------------------
(* Lists of facts and of notes.                                            *)

\* A list of values of V, not longer than n; and one without repetitions.
Short(V, n) == {s \in Seq(V) : Len(s) <= n}

\* The entries of a list from k on, as many as m.
LEMMA PartOf ==
    ASSUME NEW V, NEW s \in Seq(V), NEW k \in Nat \ {0}, NEW m \in Nat, k + m - 1 <= Len(s)
    PROVE  LET t == SubSeq(s, k, k + m - 1) IN
           /\ t \in Seq(V) /\ Len(t) = m /\ DOMAIN t = 1 .. m
           /\ \A i \in 1 .. m : t[i] = s[k + i - 1] /\ k + i - 1 \in DOMAIN s
           /\ ToSet(t) \subseteq ToSet(s)
           /\ (k = 1 /\ m = Len(s)) => t = s
           /\ (k = 1 /\ IsInjective(s)) => IsInjective(t)
<1>1. PICK l \in Nat : l = Len(s)
  OBVIOUS
<1>2. DOMAIN s = 1 .. l /\ \A i \in 1 .. l : s[i] \in V
  BY <1>1
<1>3. PICK e \in Int : e = k + m - 1
  OBVIOUS
<1>4. PICK t : t = SubSeq(s, k, e)
  OBVIOUS
<1>5. \A i \in k .. e : s[i] \in V
  BY <1>1, <1>2, <1>3
<1>6. /\ t \in Seq(V) /\ Len(t) = (IF k <= e THEN e - k + 1 ELSE 0)
      /\ \A i \in 1 .. e - k + 1 : t[i] = s[k + i - 1]
  <2>1. k \in Int
    OBVIOUS
  <2> QED
    BY <1>4, <1>5, <2>1, SubSeqProperties
<1>7. e - k + 1 = m /\ (~(k <= e) => m = 0)
  BY <1>3
<1>8. t \in Seq(V) /\ Len(t) = m /\ DOMAIN t = 1 .. m
  BY <1>6, <1>7
<1>9. \A i \in 1 .. m : t[i] = s[k + i - 1]
  BY <1>6, <1>7
<1>10. \A i \in 1 .. m : k + i - 1 \in 1 .. l
  BY <1>1, <1>3
<1>11. ToSet(t) \subseteq ToSet(s)
  BY <1>2, <1>8, <1>9, <1>10 DEF ToSet
<1>12. ASSUME k = 1 PROVE \A i \in 1 .. m : t[i] = s[i] /\ i \in DOMAIN s
  <2>1. \A i \in 1 .. m : k + i - 1 = i
    BY <1>12
  <2> QED
    BY <1>2, <1>9, <1>10, <2>1
<1>13. (k = 1 /\ m = Len(s)) => t = s
  BY <1>1, <1>8, <1>12
<1>14. (k = 1 /\ IsInjective(s)) => IsInjective(t)
  BY <1>8, <1>12 DEF IsInjective
<1> QED
  BY <1>2, <1>3, <1>4, <1>8, <1>9, <1>10, <1>11, <1>13, <1>14

LEMMA FirstNTrims ==
    ASSUME NEW V, NEW s \in Seq(V), NEW n \in Nat
    PROVE  /\ FirstN(s, n) \in Short(V, n) /\ ToSet(FirstN(s, n)) \subseteq ToSet(s)
           /\ Len(FirstN(s, n)) < n => FirstN(s, n) = s
           /\ IsInjective(s) => IsInjective(FirstN(s, n))
<1>1. PICK l \in Nat : l = Len(s)
  OBVIOUS
<1>2. PICK m \in Nat : m = (IF l > n THEN n ELSE l) /\ m <= l /\ m <= n /\ (m < n => m = l)
  OBVIOUS
<1>3. 1 + m - 1 = m /\ 1 + m - 1 <= Len(s)
  BY <1>1, <1>2
<1>4. PICK t : t = SubSeq(s, 1, 1 + m - 1)
  OBVIOUS
<1>5. FirstN(s, n) = t
  BY <1>1, <1>2, <1>3, <1>4 DEF FirstN
<1>6. /\ t \in Seq(V) /\ Len(t) = m /\ ToSet(t) \subseteq ToSet(s)
      /\ (m = Len(s) => t = s) /\ (IsInjective(s) => IsInjective(t))
  BY <1>3, <1>4, PartOf
<1> QED
  BY <1>1, <1>2, <1>5, <1>6 DEF Short

LEMMA LastNTrims ==
    ASSUME NEW V, NEW s \in Seq(V), NEW n \in Nat
    PROVE  /\ LastN(s, n) \in Short(V, n) /\ ToSet(LastN(s, n)) \subseteq ToSet(s)
           /\ Len(LastN(s, n)) < n => LastN(s, n) = s
<1>1. PICK l \in Nat : l = Len(s)
  OBVIOUS
<1>2. PICK k \in Nat \ {0} : k = (IF l > n THEN l - n + 1 ELSE 1)
  <2>1. PICK k : k = (IF l > n THEN l - n + 1 ELSE 1)
    OBVIOUS
  <2>2. k \in Nat \ {0}
    BY <2>1
  <2> QED
    BY <2>1, <2>2
<1>3. PICK m \in Nat : /\ m = l - k + 1 /\ m <= n /\ (m < n => k = 1 /\ m = l)
                       /\ k + m - 1 = l
  BY <1>2
<1>4. PICK t : t = SubSeq(s, k, k + m - 1)
  OBVIOUS
<1>5. LastN(s, n) = t
  BY <1>1, <1>2, <1>3, <1>4 DEF LastN
<1>6. /\ t \in Seq(V) /\ Len(t) = m /\ ToSet(t) \subseteq ToSet(s)
      /\ ((k = 1 /\ m = Len(s)) => t = s)
  BY <1>1, <1>3, <1>4, PartOf
<1> QED
  BY <1>1, <1>3, <1>5, <1>6 DEF Short

LEMMA AppendDistinct ==
    ASSUME NEW V, NEW s \in Seq(V), NEW v \in V, v \notin ToSet(s), IsInjective(s)
    PROVE  IsInjective(Append(s, v))
<1>1. Len(s) \in Nat /\ DOMAIN s = 1 .. Len(s) /\ DOMAIN Append(s, v) = 1 .. Len(s) + 1
  OBVIOUS
<1>2. (\A i \in 1 .. Len(s) : Append(s, v)[i] = s[i]) /\ Append(s, v)[Len(s) + 1] = v
  OBVIOUS
<1>3. \A i \in 1 .. Len(s) : s[i] # v
  BY <1>1 DEF ToSet
<1> HIDE <1>1
<1>4. PICK t : t = Append(s, v)
  OBVIOUS
<1>5. ASSUME NEW i \in 1 .. Len(s) + 1, NEW k \in 1 .. Len(s) + 1, t[i] = t[k] PROVE i = k
  <2>1. Len(s) \in Nat
    BY <1>1
  <2>2. \A x \in 1 .. Len(s) + 1 : x \in 1 .. Len(s) \/ x = Len(s) + 1
    BY <2>1
  <2>3. \A x, y \in 1 .. Len(s) : s[x] = s[y] => x = y
    BY <1>1 DEF IsInjective
  <2> QED
    BY <1>2, <1>3, <1>4, <1>5, <2>2, <2>3
<1> QED
  BY <1>1, <1>4, <1>5 DEF IsInjective

\* One value more, in front.
LEMMA InFront ==
    ASSUME NEW V, NEW s \in Seq(V), NEW v \in V
    PROVE  /\ <<v>> \o s \in Seq(V) /\ ToSet(<<v>> \o s) = {v} \cup ToSet(s)
           /\ Len(<<v>> \o s) = Len(s) + 1
<1>1. PICK t : t = <<v>> \o s
  OBVIOUS
<1>2. <<v>> \in Seq(V) /\ Len(<<v>>) = 1 /\ <<v>>[1] = v /\ Len(s) \in Nat
  OBVIOUS
<1>3. /\ t \in Seq(V) /\ Len(t) = 1 + Len(s)
      /\ \A i \in 1 .. 1 + Len(s) : t[i] = IF i <= 1 THEN v ELSE s[i - 1]
  <2>1. PICK one \in Seq(V) : one = <<v>> /\ Len(one) = 1 /\ one[1] = v
    BY <1>2
  <2>2. t = one \o s
    BY <1>1, <2>1
  <2>3. /\ one \o s \in Seq(V) /\ Len(one \o s) = Len(one) + Len(s)
        /\ \A i \in 1 .. Len(one) + Len(s) : (one \o s)[i] = IF i <= Len(one) THEN one[i] ELSE s[i - Len(one)]
    BY ConcatProperties
  <2>4. \A i \in 1 .. 1 + Len(s) : i <= 1 => i = 1
    BY <1>2
  <2> QED
    BY <2>1, <2>2, <2>3, <2>4
<1>4. DOMAIN t = 1 .. 1 + Len(s) /\ DOMAIN s = 1 .. Len(s)
  BY <1>3
<1>5. ToSet(t) \subseteq {v} \cup ToSet(s)
  <2>1. \A i \in 1 .. 1 + Len(s) : t[i] = v \/ (i - 1 \in 1 .. Len(s) /\ t[i] = s[i - 1])
    BY <1>2, <1>3
  <2> QED
    BY <1>4, <2>1 DEF ToSet
<1>6. {v} \cup ToSet(s) \subseteq ToSet(t)
  <2>1. t[1] = v /\ 1 \in 1 .. 1 + Len(s)
    BY <1>2, <1>3
  <2>2. \A i \in 1 .. Len(s) : i + 1 \in 1 .. 1 + Len(s) /\ t[i + 1] = s[i]
    <3>1. \A i \in 1 .. Len(s) : i + 1 \in 1 .. 1 + Len(s) /\ ~(i + 1 <= 1) /\ (i + 1) - 1 = i
      BY <1>2
    <3> QED
      BY <1>3, <3>1
  <2> QED
    BY <1>4, <2>1, <2>2 DEF ToSet
<1> QED
  BY <1>1, <1>2, <1>3, <1>5, <1>6

-----------------------------------------------------------------------------
(* What an accepted proposal and an instruction make of a list.            *)

LEMMA CapIs == \A f \in Field : Cap(f) \in Nat
  BY CapAssumption DEF Cap

LEMMA AddKeeps ==
    ASSUME NEW V, NEW f \in Field, NEW list \in Seq(V), NEW v \in V
    PROVE  /\ Add(f, list, v) \in Short(V, Cap(f))
           /\ ToSet(Add(f, list, v)) \subseteq ToSet(list) \cup {v}
           /\ f = "situation" /\ IsInjective(list) => IsInjective(Add(f, list, v))
<1>1. Append(list, v) \in Seq(V) /\ ToSet(Append(list, v)) = ToSet(list) \cup {v}
  BY AppendFound
<1>2. Cap(f) \in Nat
  BY CapIs
<1>3. CASE f = "style_note"
  <2>1. Add(f, list, v) = LastN(Append(list, v), Cap(f)) /\ f # "situation"
    BY <1>3 DEF Add, Cap
  <2> QED
    BY <1>1, <1>2, <2>1, LastNTrims
<1>4. CASE f # "style_note"
  <2>1. PICK long : long = IF v \in ToSet(list) THEN list ELSE Append(list, v)
    OBVIOUS
  <2>2. long \in Seq(V) /\ ToSet(long) \subseteq ToSet(list) \cup {v}
    BY <1>1, <2>1
  <2>3. IsInjective(list) => IsInjective(long)
    BY <2>1, AppendDistinct
  <2>4. Add(f, list, v) = FirstN(long, Cap(f))
    BY <1>4, <2>1 DEF Add, Cap
  <2> QED
    BY <1>2, <2>2, <2>3, <2>4, FirstNTrims
<1> QED
  BY <1>3, <1>4

\* The list without its entries at the positions dropped.
LEMMA WithoutIs ==
    ASSUME NEW V, NEW list \in Seq(V), NEW drop
    PROVE  /\ Without(list, drop) \in Seq(V) /\ Len(Without(list, drop)) <= Len(list)
           /\ ToSet(Without(list, drop)) = {list[i] : i \in DOMAIN list \ drop}
<1> DEFINE at == [i \in DOMAIN list |-> i]
           keep == DOMAIN list \ drop
           left == Those(at, keep)
<1>1. DOMAIN list = 1 .. Len(list) /\ Len(list) \in Nat /\ \A i \in DOMAIN list : list[i] \in V
  OBVIOUS
<1>2. at \in Seq(1 .. Len(list)) /\ Len(at) = Len(list) /\ ToSet(at) = DOMAIN list
  BY <1>1 DEF ToSet
<1>3. Without(list, drop) = [k \in DOMAIN left |-> list[left[k]]]
  BY DEF Without
<1> HIDE DEF at
<1>4. left \in Seq(keep) /\ ToSet(left) = keep \cap ToSet(at) /\ Len(left) <= Len(at)
  BY <1>2, ThoseFound
<1> HIDE DEF left
<1>5. ToSet(left) = keep /\ Len(left) \in Nat /\ DOMAIN left = 1 .. Len(left)
  BY <1>2, <1>4
<1>6. \A k \in DOMAIN left : left[k] \in DOMAIN list
  BY <1>4, <1>5 DEF ToSet
<1>7. Without(list, drop) \in Seq(V) /\ Len(Without(list, drop)) = Len(left)
  <2>1. Without(list, drop) \in [1 .. Len(left) -> V]
    BY <1>1, <1>3, <1>5, <1>6
  <2> QED
    BY <1>5, <2>1
<1>8. ToSet(Without(list, drop)) = {list[i] : i \in ToSet(left)}
  BY <1>3 DEF ToSet
<1> QED
  BY <1>2, <1>4, <1>5, <1>7, <1>8

LEMMA LabelledIs ==
    ASSUME NEW V, NEW list \in Seq(V), NEW label, label # None => label \in V
    PROVE  /\ Labelled(list, label) \in Seq(V)
           /\ label = None => Labelled(list, label) = list
           /\ ToSet(Labelled(list, label)) \subseteq ToSet(list) \cup ({label} \ {None})
<1>1. CASE label = None
  BY <1>1 DEF Labelled
<1>2. CASE label # None
  <2> DEFINE rest == Those(list, ToSet(list) \ {label})
  <2>1. Labelled(list, label) = <<label>> \o rest
    BY <1>2 DEF Labelled
  <2>2. ToSet(list) \subseteq V
    BY DEF ToSet
  <2>3. rest \in Seq(ToSet(list) \ {label}) /\ ToSet(rest) \subseteq ToSet(list)
    BY ThoseFound
  <2>4. rest \in Seq(V)
    BY <2>2, <2>3
  <2> HIDE DEF rest
  <2> QED
    BY <1>2, <2>1, <2>3, <2>4, InFront
<1> QED
  BY <1>1, <1>2

\* What an instruction leaves of the list it was given.
LEMMA LeftIs ==
    ASSUME NEW V, NEW list \in Seq(V), NEW label, label # None => label \in V, NEW drop
    PROVE  LET left == Without(Labelled(list, label), Positions(list, drop)) IN
           /\ left \in Seq(V) /\ ToSet(left) \subseteq ToSet(list) \cup ({label} \ {None})
           /\ label = None => ToSet(left) = ToSet(list) \ drop /\ Len(left) <= Len(list)
<1>1. PICK front : front = Labelled(list, label)
  OBVIOUS
<1>2. /\ front \in Seq(V) /\ (label = None => front = list)
      /\ ToSet(front) \subseteq ToSet(list) \cup ({label} \ {None})
  BY <1>1, LabelledIs
<1>3. PICK at : at = Positions(list, drop)
  OBVIOUS
<1>4. PICK left : left = Without(front, at)
  OBVIOUS
<1>5. /\ left \in Seq(V) /\ Len(left) <= Len(front)
      /\ ToSet(left) = {front[i] : i \in DOMAIN front \ at}
  BY <1>2, <1>4, WithoutIs
<1>6. ToSet(left) \subseteq ToSet(front)
  BY <1>5 DEF ToSet
<1>7. {list[i] : i \in DOMAIN list \ at} = ToSet(list) \ drop
  BY <1>3 DEF Positions, ToSet
<1> QED
  BY <1>1, <1>2, <1>3, <1>4, <1>5, <1>6, <1>7

LEMMA EditedIs ==
    ASSUME NEW seen, NEW e \in Edit, seen.kept[e.field] \in Short(Value, Cap(e.field)),
           e.label # None => e.field = "situation"
    PROVE  LET old == seen.kept[e.field]
               new == Edited(seen, e)
           IN  /\ new \in Short(Value, Cap(e.field))
               /\ ToSet(new) \subseteq ToSet(old) \cup ({e.add, e.label} \ {None})
               /\ e.label = None =>
                     /\ e.drop \cap ToSet(new) \subseteq {e.add}
                     /\ Len(new) < Cap(e.field) => ToSet(old) \ e.drop \subseteq ToSet(new)
<1>1. PICK f \in Field : f = e.field
  BY DEF Edit
<1>2. PICK list \in Seq(Value) : list = seen.kept[e.field] /\ Len(list) <= Cap(f)
  BY <1>1 DEF Short
<1>3. PICK label, add, drop : label = e.label /\ add = e.add /\ drop = e.drop
  OBVIOUS
<1>4. (label # None => label \in Value) /\ (add # None => add \in Value)
  BY <1>3 DEF Edit
<1>5. PICK left : left = Without(Labelled(list, label), Positions(list, drop))
  OBVIOUS
<1>6. /\ left \in Seq(Value) /\ ToSet(left) \subseteq ToSet(list) \cup ({label} \ {None})
      /\ label = None => ToSet(left) = ToSet(list) \ drop /\ Len(left) <= Len(list)
  BY <1>4, <1>5, LeftIs
<1>7. PICK new : new = Edited(seen, e)
  OBVIOUS
<1>8. /\ new \in Short(Value, Cap(f)) /\ ToSet(new) \subseteq ToSet(left) \cup ({add} \ {None})
      /\ Len(new) < Cap(f) => ToSet(left) \subseteq ToSet(new)
  <2>1. CASE f = "situation"
    <3>1. PICK long : long = IF add = None THEN left ELSE <<add>> \o left
      OBVIOUS
    <3>2. long \in Seq(Value) /\ ToSet(long) = ToSet(left) \cup ({add} \ {None})
      BY <1>4, <1>6, <3>1, InFront
    <3>3. new = FirstN(long, Cap(f))
      BY <1>1, <1>2, <1>3, <1>5, <1>7, <2>1, <3>1 DEF Edited, Cap
    <3> QED
      BY <3>2, <3>3, CapIs, FirstNTrims
  <2>2. CASE f # "situation" /\ add = None
    <3>1. new = left /\ label = None
      BY <1>1, <1>2, <1>3, <1>5, <1>7, <2>2 DEF Edited
    <3>2. Len(left) <= Cap(f)
      <4>1. Len(left) \in Nat /\ Len(list) \in Nat /\ Cap(f) \in Nat
        BY <1>2, <1>6, CapIs
      <4> QED
        BY <1>2, <1>6, <3>1, <4>1
    <3> QED
      BY <1>6, <3>1, <3>2 DEF Short
  <2>3. CASE f # "situation" /\ add # None
    <3>1. PICK long : long = Append(left, add)
      OBVIOUS
    <3>2. long \in Seq(Value) /\ ToSet(long) = ToSet(left) \cup {add}
      BY <1>4, <1>6, <2>3, <3>1, AppendFound
    <3>3. new = LastN(long, Cap(f))
      <4>1. f = "style_note"
        BY <2>3 DEF Field
      <4> QED
        BY <1>1, <1>2, <1>3, <1>5, <1>7, <2>3, <3>1, <4>1 DEF Edited, Cap
    <3> QED
      BY <2>3, <3>2, <3>3, CapIs, LastNTrims
  <2> QED
    BY <2>1, <2>2, <2>3
<1>9. label = None => /\ drop \cap ToSet(new) \subseteq {add}
                      /\ Len(new) < Cap(f) => ToSet(list) \ drop \subseteq ToSet(new)
  BY <1>6, <1>8
<1>10. ToSet(new) \subseteq ToSet(list) \cup ({add, label} \ {None})
  BY <1>6, <1>8
<1>11. new \in Short(Value, Cap(e.field))
  BY <1>1, <1>8
<1>12. ToSet(new) \subseteq ToSet(seen.kept[e.field]) \cup ({e.add, e.label} \ {None})
  BY <1>2, <1>3, <1>10
<1>13. e.label = None => e.drop \cap ToSet(new) \subseteq {e.add}
  BY <1>3, <1>9
<1>14. ASSUME e.label = None, Len(new) < Cap(e.field)
       PROVE  ToSet(seen.kept[e.field]) \ e.drop \subseteq ToSet(new)
  <2>1. label = None /\ Len(new) < Cap(f)
    BY <1>1, <1>3, <1>14
  <2>2. ToSet(list) \ drop \subseteq ToSet(new)
    BY <1>9, <2>1
  <2> QED
    BY <1>2, <1>3, <2>2
<1> QED
  BY <1>7, <1>11, <1>12, <1>13, <1>14

-----------------------------------------------------------------------------
(* What a batch of proposals adds.                                         *)

\* The recursion of the fold.
AddStep(f, base, ps, s, it) ==
    IF s = {} THEN base ELSE Add(f, it[s \ {Max(s)}], ps[Max(s)].value)
AddOver(f, base, ps, D) == CHOOSE it : it = [s \in SUBSET D |-> AddStep(f, base, ps, s, it)]

\* What holds of a list, and is kept by each addition, holds after all of them.
LEMMA AddedIn ==
    ASSUME NEW V, NEW T, NEW f, NEW base \in V, NEW ps \in Seq(T),
           \A list \in V, x \in T : Add(f, list, x.value) \in V
    PROVE  AddOver(f, base, ps, 1 .. Len(ps))[1 .. Len(ps)] \in V
<1> DEFINE n == Len(ps)
           D == 1 .. n
           F == [x \in V \X T |-> Add(f, x[1], x[2].value)]
<1>0. n \in Nat /\ \A i \in D : ps[i] \in T
  OBVIOUS
<1>1. F \in [V \X T -> V]
  OBVIOUS
<1>2. \A v \in V, x \in T : F[<<v, x>>] = Add(f, v, x.value)
  OBVIOUS
<1> HIDE DEF F
<1>q. \A s \in SUBSET D : s # {} => Max(s) \in s /\ Max(s) \in D /\ s \ {Max(s)} \in SUBSET D
  BY <1>0, Parts
<1>3. PICK g \in [SUBSET D -> V] : Folds(g, F, base, ps)
  BY <1>1, FoldExists
<1>4. \A s \in SUBSET D : g[s] = Folding(F, base, ps, s, g)
  BY <1>3 DEF Folds
<1> HIDE DEF D
<1>5. ASSUME NEW s \in SUBSET D
      PROVE  g[s] = AddStep(f, base, ps, s, g)
  <2>1. CASE s = {}
    BY <1>4, <2>1 DEF Folding, AddStep
  <2>2. CASE s # {}
    <3>1. PICK m \in D, rest \in SUBSET D : m = Max(s) /\ rest = s \ {Max(s)}
      BY <2>2, <1>q
    <3>2. PICK v \in V, x \in T : v = g[rest] /\ x = ps[m]
      BY <1>0, <1>3
    <3>3. g[s] = F[<<v, x>>]
      BY <1>4, <2>2, <3>1, <3>2 DEF Folding
    <3> QED
      BY <1>2, <2>2, <3>1, <3>2, <3>3 DEF AddStep
  <2> QED
    BY <2>1, <2>2
<1>6. g = [s \in SUBSET D |-> AddStep(f, base, ps, s, g)]
  BY <1>5
<1>7. PICK it : it = AddOver(f, base, ps, D)
  OBVIOUS
<1>8. it = [s \in SUBSET D |-> AddStep(f, base, ps, s, it)]
  BY <1>6, <1>7 DEF AddOver
<1>9. \A s \in SUBSET D : it[s] = AddStep(f, base, ps, s, it)
  BY <1>8, Zenon
<1>10. it[{}] = base
  BY <1>9 DEF AddStep
<1>11. ASSUME NEW s \in SUBSET D, s # {}, it[s \ {Max(s)}] \in V
       PROVE  it[s] = F[<<it[s \ {Max(s)}], ps[Max(s)]>>]
  <2>1. PICK m \in D : m = Max(s)
    BY <1>11, <1>q
  <2>2. PICK v \in V, x \in T : v = it[s \ {Max(s)}] /\ x = ps[m]
    BY <1>0, <1>11
  <2>3. it[s] = Add(f, v, x.value)
    BY <1>9, <1>11, <2>1, <2>2 DEF AddStep
  <2> QED
    BY <1>2, <2>1, <2>2, <2>3
<1>12. Follows(it, V, F, base, ps)
  BY <1>10, <1>11 DEF Follows, D
<1>13. PICK h \in [0 .. n -> V] : Runs(h, F, base, ps) /\ Reaches(h, it, ps)
  BY <1>1, <1>12, FoldRuns
<1>14. h[n] \in V
  BY <1>0, <1>13
<1>15. it[1 .. n] \in V
  BY <1>13, <1>14 DEF Reaches
<1> QED
  BY <1>7, <1>15 DEF D

LEMMA AppliedIs ==
    ASSUME NEW kept, NEW ps, NEW T, ps \in Seq(T), NEW f \in Field
    PROVE  LET new == Of(f, ps) IN
           Applied(kept, ps)[f] =
             IF new = <<>> THEN kept[f]
             ELSE IF f = "style_note" THEN Add(f, kept[f], Last(new).value)
             ELSE AddOver(f, kept[f], new, DOMAIN new)[DOMAIN new]
  BY DEF Applied, FoldLeft, MapThenFoldSet, AddOver, AddStep

LEMMA OfIs ==
    ASSUME NEW ps \in Seq(Proposal), NEW f
    PROVE  /\ Of(f, ps) \in Seq(Proposal) /\ NotOf(f, ps) \in Seq(Proposal)
           /\ ToSet(Of(f, ps)) = {p \in ToSet(ps) : p.field = f}
<1>1. ToSet(ps) \subseteq Proposal
  BY DEF ToSet
<1> DEFINE S == {p \in ToSet(ps) : p.field = f}
           R == {p \in ToSet(ps) : p.field # f}
<1>2. Of(f, ps) = Those(ps, S) /\ NotOf(f, ps) = Those(ps, R)
  BY DEF Of, NotOf
<1>3. S \subseteq Proposal /\ R \subseteq Proposal /\ S \cap ToSet(ps) = S
  BY <1>1
<1> HIDE DEF S, R
<1>4. Those(ps, S) \in Seq(S) /\ Those(ps, R) \in Seq(R) /\ ToSet(Those(ps, S)) = S \cap ToSet(ps)
  BY ThoseFound
<1>5. Of(f, ps) \in Seq(Proposal)
  BY <1>2, <1>3, <1>4
<1>6. NotOf(f, ps) \in Seq(Proposal)
  BY <1>2, <1>3, <1>4
<1> QED
  BY <1>2, <1>3, <1>4, <1>5, <1>6 DEF S

\* The ends of a list that is not empty are in it.
LEMMA EndsIn ==
    ASSUME NEW T, NEW s \in Seq(T), s # <<>>
    PROVE  Head(s) \in ToSet(s) /\ Last(s) \in ToSet(s)
<1>1. PICK n \in Nat : n = Len(s) /\ n # 0 /\ DOMAIN s = 1 .. n
  OBVIOUS
<1>2. 1 \in 1 .. n /\ n \in 1 .. n
  BY <1>1
<1>3. Head(s) = s[1] /\ Last(s) = s[n]
  BY <1>1 DEF Last
<1> QED
  BY <1>1, <1>2, <1>3 DEF ToSet

\* The lists of a profile: values, not more than the cap.
Kept == [Field -> Seq(Value)]
Capped(kept) == \A f \in Field : Len(kept[f]) <= Cap(f)

LEMMA AppliedKeeps ==
    ASSUME NEW kept \in Kept, Capped(kept), NEW ps \in Seq(Proposal), NEW f \in Field
    PROVE  LET list == Applied(kept, ps)[f] IN
           /\ list \in Short(Value, Cap(f))
           /\ \A v \in ToSet(list) : v \in ToSet(kept[f]) \/ <<f, v>> \in Names(ps)
           /\ f = "situation" /\ IsInjective(kept[f]) => IsInjective(list)
<1>1. PICK new \in Seq(Proposal) : new = Of(f, ps) /\ ToSet(new) = {p \in ToSet(ps) : p.field = f}
  BY OfIs
<1>2. PICK base \in Seq(Value) : base = kept[f] /\ Len(base) <= Cap(f)
  BY DEF Kept, Capped
<1>3. PICK list : list = Applied(kept, ps)[f]
  OBVIOUS
<1>4. list = IF new = <<>> THEN base
             ELSE IF f = "style_note" THEN Add(f, base, Last(new).value)
             ELSE AddOver(f, base, new, DOMAIN new)[DOMAIN new]
  BY <1>1, <1>2, <1>3, AppliedIs
<1>5. \A p \in ToSet(new) : p.value \in Value /\ <<f, p.value>> \in Names(ps)
  <2>1. TAKE p \in ToSet(new)
  <2>2. p \in ToSet(ps) /\ p.field = f
    BY <1>1
  <2>3. p \in Proposal
    BY <2>2 DEF ToSet
  <2> QED
    BY <2>2, <2>3 DEF Proposal, Names
<1> DEFINE Fine(l) == /\ l \in Short(Value, Cap(f))
                      /\ \A v \in ToSet(l) : v \in ToSet(base) \/ <<f, v>> \in Names(ps)
                      /\ f = "situation" /\ IsInjective(base) => IsInjective(l)
           V == {l \in Short(Value, Cap(f)) : Fine(l)}
<1>6. base \in V
  BY <1>2 DEF Short
<1>7. ASSUME NEW l \in V, NEW p \in ToSet(new)
      PROVE  Add(f, l, p.value) \in V
  <2>1. l \in Seq(Value) /\ p.value \in Value
    BY <1>5 DEF Short
  <2>2. PICK m : m = Add(f, l, p.value)
    OBVIOUS
  <2>3. /\ m \in Short(Value, Cap(f)) /\ ToSet(m) \subseteq ToSet(l) \cup {p.value}
        /\ f = "situation" /\ IsInjective(l) => IsInjective(m)
    BY <2>1, <2>2, AddKeeps
  <2>4. Fine(l)
    OBVIOUS
  <2>5. Fine(m)
    BY <1>5, <2>3, <2>4
  <2> QED
    BY <2>2, <2>3, <2>5
<1> HIDE DEF V
<1>8. list \in V
  <2>1. CASE new = <<>>
    BY <1>4, <1>6, <2>1
  <2>2. CASE new # <<>> /\ f = "style_note"
    <3>1. Last(new) \in ToSet(new)
      BY <2>2, EndsIn
    <3> QED
      BY <1>4, <1>6, <1>7, <2>2, <3>1
  <2>3. CASE new # <<>> /\ f # "style_note"
    <3>1. new \in Seq(ToSet(new)) /\ DOMAIN new = 1 .. Len(new)
      BY DEF ToSet
    <3>2. AddOver(f, base, new, 1 .. Len(new))[1 .. Len(new)] \in V
      BY <1>6, <1>7, <3>1, AddedIn
    <3> QED
      BY <1>4, <2>3, <3>1, <3>2
  <2> QED
    BY <2>1, <2>2, <2>3
<1>9. Fine(list)
  BY <1>8 DEF V
<1> QED
  BY <1>2, <1>3, <1>9

-----------------------------------------------------------------------------
(* Types, and what stands behind the lists of the profile.                 *)

LEMMA AccumulatedIs ==
    ASSUME NEW j \in Job, NEW drawn \in Answers
    PROVE  Accumulated(j, drawn) \in Seq(Proposal)
<1> DEFINE T == Field \X Value \X BOOLEAN
<1>1. drawn \in Seq(T)
  BY CapAssumption DEF Field
<1>2. ToSet(drawn) \subseteq T
  BY <1>1 DEF ToSet
<1> DEFINE W == {d \in ToSet(drawn) : d[3]}
           N == {d \in ToSet(drawn) : d[1] = "style_note" \/ d[2] \notin ToSet(profile.kept["situation"])}
<1>3. W \subseteq T /\ N \subseteq T
  BY <1>2
<1>4. WellFormed(drawn) = Those(drawn, W)
  BY DEF WellFormed
<1>5. PICK new : new = Those(WellFormed(drawn), N)
  OBVIOUS
<1>6. Accumulated(j, drawn) = [i \in DOMAIN new |-> [field |-> new[i][1], value |-> new[i][2], src |-> j]]
  BY <1>5 DEF Accumulated
<1> HIDE DEF T, W, N
<1>7. new \in Seq(T)
  <2>1. PICK wf \in Seq(W) : wf = WellFormed(drawn)
    BY <1>1, <1>4, ThoseFound
  <2>2. Those(wf, N) \in Seq(N)
    BY <2>1, ThoseFound
  <2> QED
    BY <1>3, <1>5, <2>1, <2>2
<1>8. DOMAIN new = 1 .. Len(new) /\ Len(new) \in Nat /\ \A i \in 1 .. Len(new) : new[i] \in T
  BY <1>7
<1>9. \A i \in 1 .. Len(new) : [field |-> new[i][1], value |-> new[i][2], src |-> j] \in Proposal
  BY <1>8 DEF T, Proposal
<1>10. Accumulated(j, drawn) \in [1 .. Len(new) -> Proposal]
  BY <1>6, <1>8, <1>9
<1> QED
  BY <1>8, <1>10

LEMMA OwnUnderway == {"readown", "writeown"} \subseteq Underway
  BY Zenon DEF Underway, PipelineStates

GoodProfile(p) == p \in Profile /\ Capped(p.kept)

\* Every entry of the lists was typed, trusted unseen, or put there by an accept.
Vouched == granted \cup applied
Backed(kept, names) == \A f \in Field : {f} \X ToSet(kept[f]) \subseteq names

Typed(l) ==
    /\ IsLocals(l) /\ l.field \in Field /\ l.texts \in SUBSET (1 .. MaxFiles)
    /\ l.props \in Seq(Proposal) /\ GoodProfile(l.seen) /\ l.edit \in Edit
    /\ l.edit.label # None => "label" \in Ops /\ l.edit.field = "situation"
    /\ l.pc \in {"file", "refile"} => l.file \in 1 .. MaxFiles
    /\ l.pc = "accept" => Of(l.field, l.seen.pending) # <<>>

\* The job of a pipeline exists, and applies its own proposals only if it was
\* uploaded to be trusted.
Tracked(l, jobs) ==
    /\ l.pc \in Underway => l.job \in Job /\ jobs[l.job].status # None
    /\ l.pc \in {"readown", "writeown"} => jobs[l.job].skip

JobsGood(jobs) == jobs \in [Job -> JobDoc] /\ \A j \in Job : Len(jobs[j].files) <= MaxFiles

ReviewInv ==
    /\ GoodProfile(profile) /\ Backed(profile.kept, Vouched)
    /\ Vouched \subseteq Field \X Value
    /\ JobsGood(job)
    /\ proc = [r \in Request |-> proc[r]]
    /\ \A r \in Request : /\ Typed(proc[r]) /\ Backed(proc[r].seen.kept, Vouched)
                          /\ Tracked(proc[r], job)

CountInv ==
    /\ calls \in 0 .. MaxCalls /\ faults \in 0 .. MaxFaults
    /\ pushes \in [Job -> Nat] /\ crashed \in BOOLEAN

-----------------------------------------------------------------------------
(* What a step may do to the jobs, to the profile and to its own request.  *)

JobsMove ==
    /\ JobsGood(job')
    /\ \A j \in Job : job[j].status # None =>
          job'[j].status # None /\ job'[j].skip = job[j].skip

ProfileMoves ==
    /\ GoodProfile(profile') /\ Vouched \subseteq Vouched'
    /\ Vouched' \subseteq Field \X Value /\ Backed(profile'.kept, Vouched')

LEMMA JobsSame == ASSUME ReviewInv, UNCHANGED job PROVE JobsMove
  BY DEF ReviewInv, JobsMove, JobsGood

LEMMA ProfileSame == ASSUME ReviewInv, UNCHANGED <<profile, Vouched>> PROVE ProfileMoves
  BY DEF ReviewInv, ProfileMoves

LEMMA JobsSet ==
    ASSUME ReviewInv, NEW j \in Job, NEW d \in JobDoc, Len(d.files) <= MaxFiles,
           d.status # None, job[j].status # None => d.skip = job[j].skip, Set(j, d)
    PROVE  JobsMove
  BY DEF ReviewInv, JobsMove, JobsGood, Set

LEMMA BackedGrows ==
    ASSUME NEW kept, NEW names, NEW more, Backed(kept, names), names \subseteq more
    PROVE  Backed(kept, more)
  BY DEF Backed

LEMMA StandsStill ==
    ASSUME NEW l, Tracked(l, job), JobsMove PROVE Tracked(l, job')
  BY UnqueuedUnderway, OwnUnderway DEF Tracked, JobsMove

LEMMA ReviewMoves ==
    ASSUME ReviewInv, NEW r \in Request, NEW l, Typed(l), Backed(l.seen.kept, Vouched'),
           Tracked(l, job'), proc' = [proc EXCEPT ![r] = l], JobsMove, ProfileMoves
    PROVE  ReviewInv'
<1>1. /\ proc' = [q \in Request |-> proc'[q]]
      /\ proc'[r] = l /\ \A q \in Request \ {r} : proc'[q] = proc[q]
  BY DEF ReviewInv
<1>2. ASSUME NEW q \in Request
      PROVE  Typed(proc'[q]) /\ Backed(proc'[q].seen.kept, Vouched') /\ Tracked(proc'[q], job')
  <2>1. CASE q = r
    BY <1>1, <2>1
  <2>2. CASE q # r
    <3>1. Typed(proc[q]) /\ Backed(proc[q].seen.kept, Vouched) /\ Tracked(proc[q], job)
      BY DEF ReviewInv
    <3>2. proc'[q] = proc[q]
      BY <1>1, <2>2
    <3>3. Backed(proc[q].seen.kept, Vouched')
      BY <3>1, BackedGrows DEF ProfileMoves
    <3> QED
      BY <3>1, <3>2, <3>3, StandsStill
  <2> QED
    BY <2>1, <2>2
<1> QED
  BY <1>1, <1>2 DEF ReviewInv, JobsMove, ProfileMoves

LEMMA IdleTyped == /\ Typed(Idle) /\ GoodProfile(Empty) /\ \A names : Backed(Empty.kept, names)
                   /\ \A jobs : Tracked(Idle, jobs)
<1>1. \A f \in Field : Empty.kept[f] = <<>>
  BY DEF Empty
<1>2. GoodProfile(Empty)
  BY <1>1, CapIs DEF Empty, GoodProfile, Capped, Profile
<1>3. \A names : Backed(Empty.kept, names)
  BY <1>1 DEF Backed, ToSet
<1>4. Typed(Idle)
  BY <1>2, IdleLocals DEF Typed, Idle, Field, NoEdit, Edit, None
<1>5. \A jobs : Tracked(Idle, jobs)
  BY IdleLocals, OwnUnderway DEF Tracked
<1> QED
  BY <1>2, <1>3, <1>4, <1>5

LEMMA ReviewInit == Init => ReviewInv /\ CountInv
<1> SUFFICES ASSUME Init PROVE ReviewInv /\ CountInv
  OBVIOUS
<1>1. NoJob \in JobDoc /\ NoJob.files = <<>>
  BY DEF NoJob, JobDoc, JobStatus, None
<1>2. JobsGood(job)
  BY <1>1, CapAssumption DEF Init, JobsGood
<1>3. ReviewInv
  <2>1. profile = Empty /\ proc = [r \in Request |-> Idle] /\ Vouched = {}
    BY DEF Init, Vouched
  <2>2. \A r \in Request : /\ Typed(proc[r]) /\ Backed(proc[r].seen.kept, Vouched)
                            /\ Tracked(proc[r], job)
    <3>1. Idle.seen = Empty
      BY DEF Idle
    <3> QED
      BY <2>1, <3>1, IdleTyped
  <2> QED
    BY <1>2, <2>1, <2>2, IdleTyped DEF ReviewInv
<1>4. CountInv
  <2>1. MaxCalls \in Nat /\ MaxFaults \in Nat
    BY CapAssumption
  <2>2. calls = 0 /\ faults = 0 /\ crashed \in BOOLEAN /\ pushes = [j \in Job |-> 0]
    BY DEF Init
  <2>3. pushes \in [Job -> Nat]
    BY <2>2
  <2> QED
    BY <2>1, <2>2, <2>3, SMTT(30) DEF CountInv
<1> QED
  BY <1>3, <1>4

-----------------------------------------------------------------------------
(* The locals of a request, one or two of them changed.                    *)

With(l, pc, j, file, texts, props, seen) ==
    [pc |-> pc, job |-> j, field |-> l.field, file |-> file, texts |-> texts,
     props |-> props, seen |-> seen, edit |-> l.edit]

LEMMA WithIs ==
    ASSUME NEW l, NEW pc, NEW j, NEW file, NEW texts, NEW props, NEW seen
    PROVE  LET m == With(l, pc, j, file, texts, props, seen) IN
           /\ IsLocals(m) /\ m.pc = pc /\ m.job = j /\ m.file = file /\ m.texts = texts
           /\ m.props = props /\ m.seen = seen /\ m.field = l.field /\ m.edit = l.edit
  BY DEF IsLocals, With

LEMMA WithPc ==
    ASSUME NEW l, IsLocals(l), NEW x
    PROVE  [l EXCEPT !.pc = x] = With(l, x, l.job, l.file, l.texts, l.props, l.seen)
  BY DEF IsLocals, With

LEMMA WithJob ==
    ASSUME NEW l, IsLocals(l), NEW x
    PROVE  [l EXCEPT !.job = x] = With(l, l.pc, x, l.file, l.texts, l.props, l.seen)
  BY DEF IsLocals, With

LEMMA WithFile ==
    ASSUME NEW l, IsLocals(l), NEW x
    PROVE  [l EXCEPT !.file = x] = With(l, l.pc, l.job, x, l.texts, l.props, l.seen)
  BY DEF IsLocals, With

LEMMA WithTexts ==
    ASSUME NEW l, IsLocals(l), NEW x
    PROVE  [l EXCEPT !.texts = x] = With(l, l.pc, l.job, l.file, x, l.props, l.seen)
  BY DEF IsLocals, With

LEMMA WithProps ==
    ASSUME NEW l, IsLocals(l), NEW x
    PROVE  [l EXCEPT !.props = x] = With(l, l.pc, l.job, l.file, l.texts, x, l.seen)
  BY DEF IsLocals, With

LEMMA WithSeen ==
    ASSUME NEW l, IsLocals(l), NEW x
    PROVE  [l EXCEPT !.seen = x] = With(l, l.pc, l.job, l.file, l.texts, l.props, x)
  BY DEF IsLocals, With

LEMMA WithPcFile ==
    ASSUME NEW l, IsLocals(l), NEW x, NEW y
    PROVE  [l EXCEPT !.pc = x, !.file = y] = With(l, x, l.job, y, l.texts, l.props, l.seen)
<1>1. PICK m : m = With(l, x, l.job, l.file, l.texts, l.props, l.seen)
  OBVIOUS
<1>2. IsLocals(m) /\ m = [l EXCEPT !.pc = x]
  BY <1>1, WithIs, WithPc
<1>3. [l EXCEPT !.pc = x, !.file = y] = [m EXCEPT !.file = y]
  BY <1>2
<1>4. [m EXCEPT !.file = y] = With(m, m.pc, m.job, y, m.texts, m.props, m.seen)
  BY <1>2, WithFile, Zenon
<1>5. With(m, m.pc, m.job, y, m.texts, m.props, m.seen) = With(l, x, l.job, y, l.texts, l.props, l.seen)
  BY <1>1, WithIs DEF With
<1> QED
  BY <1>3, <1>4, <1>5

LEMMA WithPcJob ==
    ASSUME NEW l, IsLocals(l), NEW x, NEW y
    PROVE  [l EXCEPT !.pc = x, !.job = y] = With(l, x, y, l.file, l.texts, l.props, l.seen)
<1>1. PICK m : m = With(l, x, l.job, l.file, l.texts, l.props, l.seen)
  OBVIOUS
<1>2. IsLocals(m) /\ m = [l EXCEPT !.pc = x]
  BY <1>1, WithIs, WithPc
<1>3. [l EXCEPT !.pc = x, !.job = y] = [m EXCEPT !.job = y]
  BY <1>2
<1>4. [m EXCEPT !.job = y] = With(m, m.pc, y, m.file, m.texts, m.props, m.seen)
  BY <1>2, WithJob, Zenon
<1>5. With(m, m.pc, y, m.file, m.texts, m.props, m.seen) = With(l, x, y, l.file, l.texts, l.props, l.seen)
  BY <1>1, WithIs DEF With
<1> QED
  BY <1>3, <1>4, <1>5

LEMMA WithPcSeen ==
    ASSUME NEW l, IsLocals(l), NEW x, NEW y
    PROVE  [l EXCEPT !.pc = x, !.seen = y] = With(l, x, l.job, l.file, l.texts, l.props, y)
<1>1. PICK m : m = With(l, x, l.job, l.file, l.texts, l.props, l.seen)
  OBVIOUS
<1>2. IsLocals(m) /\ m = [l EXCEPT !.pc = x]
  BY <1>1, WithIs, WithPc
<1>3. [l EXCEPT !.pc = x, !.seen = y] = [m EXCEPT !.seen = y]
  BY <1>2
<1>4. [m EXCEPT !.seen = y] = With(m, m.pc, m.job, m.file, m.texts, m.props, y)
  BY <1>2, WithSeen, Zenon
<1>5. With(m, m.pc, m.job, m.file, m.texts, m.props, y) = With(l, x, l.job, l.file, l.texts, l.props, y)
  BY <1>1, WithIs DEF With
<1> QED
  BY <1>3, <1>4, <1>5

LEMMA WithPcTexts ==
    ASSUME NEW l, IsLocals(l), NEW x, NEW y
    PROVE  [l EXCEPT !.pc = x, !.texts = y] = With(l, x, l.job, l.file, y, l.props, l.seen)
<1>1. PICK m : m = With(l, x, l.job, l.file, l.texts, l.props, l.seen)
  OBVIOUS
<1>2. IsLocals(m) /\ m = [l EXCEPT !.pc = x]
  BY <1>1, WithIs, WithPc
<1>3. [l EXCEPT !.pc = x, !.texts = y] = [m EXCEPT !.texts = y]
  BY <1>2
<1>4. [m EXCEPT !.texts = y] = With(m, m.pc, m.job, m.file, y, m.props, m.seen)
  BY <1>2, WithTexts, Zenon
<1>5. With(m, m.pc, m.job, m.file, y, m.props, m.seen) = With(l, x, l.job, l.file, y, l.props, l.seen)
  BY <1>1, WithIs DEF With
<1> QED
  BY <1>3, <1>4, <1>5

LEMMA WithPcProps ==
    ASSUME NEW l, IsLocals(l), NEW x, NEW y
    PROVE  [l EXCEPT !.props = x, !.pc = y] = With(l, y, l.job, l.file, l.texts, x, l.seen)
<1>1. PICK m : m = With(l, l.pc, l.job, l.file, l.texts, x, l.seen)
  OBVIOUS
<1>2. IsLocals(m) /\ m = [l EXCEPT !.props = x]
  BY <1>1, WithIs, WithProps
<1>3. [l EXCEPT !.props = x, !.pc = y] = [m EXCEPT !.pc = y]
  BY <1>2
<1>4. [m EXCEPT !.pc = y] = With(m, y, m.job, m.file, m.texts, m.props, m.seen)
  BY <1>2, WithPc, Zenon
<1>5. With(m, y, m.job, m.file, m.texts, m.props, m.seen) = With(l, y, l.job, l.file, l.texts, x, l.seen)
  BY <1>1, WithIs DEF With
<1> QED
  BY <1>3, <1>4, <1>5

-----------------------------------------------------------------------------
(* The pipeline of an upload, again.                                       *)

LEMMA Mine ==
    ASSUME ReviewInv, NEW r \in Request
    PROVE  /\ Typed(proc[r]) /\ Backed(proc[r].seen.kept, Vouched) /\ Tracked(proc[r], job)
           /\ proc[r].pc \in Underway =>
                 /\ proc[r].job \in Job /\ job[proc[r].job] \in JobDoc
                 /\ job[proc[r].job].status # None /\ Len(job[proc[r].job].files) <= MaxFiles
  BY DEF ReviewInv, JobsGood, Tracked

LEMMA TypedWith ==
    ASSUME NEW l, Typed(l), NEW pc, NEW j, NEW file, NEW texts \in SUBSET (1 .. MaxFiles),
           NEW props \in Seq(Proposal), NEW seen, GoodProfile(seen),
           pc \in {"file", "refile"} => file \in 1 .. MaxFiles,
           pc = "accept" => Of(l.field, seen.pending) # <<>>
    PROVE  Typed(With(l, pc, j, file, texts, props, seen))
<1>1. PICK m : m = With(l, pc, j, file, texts, props, seen)
  OBVIOUS
<1>2. /\ IsLocals(m) /\ m.pc = pc /\ m.job = j /\ m.file = file /\ m.texts = texts
      /\ m.props = props /\ m.seen = seen /\ m.field = l.field /\ m.edit = l.edit
  BY <1>1, WithIs
<1>3. l.field \in Field /\ l.edit \in Edit
      /\ (l.edit.label # None => "label" \in Ops /\ l.edit.field = "situation")
  BY DEF Typed
<1>4. Typed(m)
  BY <1>2, <1>3 DEF Typed
<1> QED
  BY <1>1, <1>4

\* What the steps make of them.
MovedTo(l, pc, i) == [l EXCEPT !.pc = pc, !.file = i]
Noted(l, texts) == [l EXCEPT !.pc = "refile", !.texts = texts]
Taking(l, pc, j) == [l EXCEPT !.pc = pc, !.job = j]
Holding(l, ps, pc) == [l EXCEPT !.props = ps, !.pc = pc]
Having(l, pc, p) == [l EXCEPT !.pc = pc, !.seen = p]

LEMMA TypedPc ==
    ASSUME NEW l, Typed(l), NEW pc, pc \in {"file", "refile"} => l.file \in 1 .. MaxFiles,
           pc # "accept"
    PROVE  LET m == [l EXCEPT !.pc = pc] IN
           Typed(m) /\ m.pc = pc /\ m.job = l.job /\ m.seen = l.seen /\ m.props = l.props
<1>1. [l EXCEPT !.pc = pc] = With(l, pc, l.job, l.file, l.texts, l.props, l.seen)
  BY WithPc DEF Typed
<1> QED
  BY <1>1, WithIs, TypedWith DEF Typed

LEMMA TypedFile ==
    ASSUME NEW l, Typed(l), NEW pc, NEW i, pc \in {"file", "refile"} => i \in 1 .. MaxFiles,
           pc # "accept"
    PROVE  LET m == MovedTo(l, pc, i) IN
           Typed(m) /\ m.pc = pc /\ m.job = l.job /\ m.seen = l.seen
<1>1. MovedTo(l, pc, i) = With(l, pc, l.job, i, l.texts, l.props, l.seen)
  BY WithPcFile DEF Typed, MovedTo
<1> QED
  BY <1>1, WithIs, TypedWith DEF Typed

LEMMA TypedTexts ==
    ASSUME NEW l, Typed(l), NEW t \in SUBSET (1 .. MaxFiles), l.pc # "accept"
    PROVE  LET m == [l EXCEPT !.texts = t] IN
           Typed(m) /\ m.pc = l.pc /\ m.job = l.job /\ m.seen = l.seen
<1>1. [l EXCEPT !.texts = t] = With(l, l.pc, l.job, l.file, t, l.props, l.seen)
  BY WithTexts DEF Typed
<1> QED
  BY <1>1, WithIs, TypedWith DEF Typed

LEMMA TypedRefile ==
    ASSUME NEW l, Typed(l), NEW t \in SUBSET (1 .. MaxFiles), l.file \in 1 .. MaxFiles
    PROVE  LET m == Noted(l, t) IN
           Typed(m) /\ m.pc = "refile" /\ m.job = l.job /\ m.seen = l.seen
<1>1. Noted(l, t) =
        With(l, "refile", l.job, l.file, t, l.props, l.seen)
  BY WithPcTexts DEF Typed, Noted
<1> QED
  BY <1>1, WithIs, TypedWith DEF Typed

LEMMA TypedJob ==
    ASSUME NEW l, Typed(l), NEW pc \in {"queued", "reset", "caught"}, NEW j
    PROVE  LET m == Taking(l, pc, j) IN
           Typed(m) /\ m.pc = pc /\ m.job = j /\ m.seen = l.seen
<1>1. Taking(l, pc, j) = With(l, pc, j, l.file, l.texts, l.props, l.seen)
  BY WithPcJob DEF Typed, Taking
<1> QED
  BY <1>1, WithIs, TypedWith DEF Typed

LEMMA TypedProps ==
    ASSUME NEW l, Typed(l), NEW ps \in Seq(Proposal), NEW pc \in {"finish", "readown", "push"}
    PROVE  LET m == Holding(l, ps, pc) IN
           Typed(m) /\ m.pc = pc /\ m.job = l.job /\ m.seen = l.seen
<1>1. Holding(l, ps, pc) = With(l, pc, l.job, l.file, l.texts, ps, l.seen)
  BY WithPcProps DEF Typed, Holding
<1> QED
  BY <1>1, WithIs, TypedWith DEF Typed

LEMMA TypedSeen ==
    ASSUME NEW l, Typed(l), NEW p, GoodProfile(p), NEW pc, pc \notin {"file", "refile"},
           pc = "accept" => Of(l.field, p.pending) # <<>>
    PROVE  LET m == Having(l, pc, p) IN
           Typed(m) /\ m.pc = pc /\ m.job = l.job /\ m.seen = p
<1>1. Having(l, pc, p) = With(l, pc, l.job, l.file, l.texts, l.props, p)
  BY WithPcSeen DEF Typed, Having
<1> QED
  BY <1>1, WithIs, TypedWith DEF Typed

\* A request that goes on with its job, or ends.
LEMMA Proceeds ==
    ASSUME ReviewInv, NEW r \in Request, NEW l, Typed(l), l.job = proc[r].job,
           l.seen = proc[r].seen, l.pc \in Underway => proc[r].pc \in Underway,
           l.pc \in {"readown", "writeown"} => job[l.job].skip,
           proc' = [proc EXCEPT ![r] = l], JobsMove, ProfileMoves
    PROVE  ReviewInv'
<1>1. Backed(l.seen.kept, Vouched')
  BY Mine, BackedGrows DEF ProfileMoves
<1>2. Tracked(l, job)
  BY Mine DEF Tracked
<1> QED
  BY <1>1, <1>2, StandsStill, ReviewMoves

LEMMA Stops ==
    ASSUME ReviewInv, NEW r \in Request, End(r), JobsMove, ProfileMoves PROVE ReviewInv'
<1>1. Backed(Idle.seen.kept, Vouched')
  BY IdleTyped DEF Idle
<1> QED
  BY <1>1, IdleTyped, ReviewMoves DEF End

\* What is recorded of a job keeps its files.
Ended(d, s, ps) == [d EXCEPT !.status = s, !.proposals = ps]
Combined(d, s, t) == [d EXCEPT !.status = s, !.text = t]

LEMMA DocUpdated ==
    ASSUME NEW d \in JobDoc, NEW s \in JobStatus
    PROVE  LET e == [d EXCEPT !.status = s] IN
           e \in JobDoc /\ e.status = s /\ e.files = d.files /\ e.skip = d.skip
  BY DEF JobDoc

LEMMA DocProposals ==
    ASSUME NEW d \in JobDoc, NEW s \in JobStatus, NEW ps \in Seq(Proposal)
    PROVE  LET e == Ended(d, s, ps) IN
           e \in JobDoc /\ e.status = s /\ e.files = d.files /\ e.skip = d.skip
  BY DEF JobDoc, Ended

LEMMA DocText ==
    ASSUME NEW d \in JobDoc, NEW s \in JobStatus, NEW t \in SUBSET (1 .. MaxFiles)
    PROVE  LET e == Combined(d, s, t) IN
           e \in JobDoc /\ e.status = s /\ e.files = d.files /\ e.skip = d.skip
  BY DEF JobDoc, Combined

LEMMA DocFile ==
    ASSUME NEW d \in JobDoc, NEW i, NEW s \in {"pending", "extracted", "failed"}
    PROVE  LET e == [d EXCEPT !.files[i] = s] IN
           /\ e \in JobDoc /\ e.status = d.status /\ e.skip = d.skip
           /\ Len(e.files) = Len(d.files)
<1>1. PICK files \in Seq({"pending", "extracted", "failed"}) : files = d.files
  BY DEF JobDoc
<1>2. PICK g : g = [files EXCEPT ![i] = s]
  OBVIOUS
<1>3. g \in Seq({"pending", "extracted", "failed"}) /\ Len(g) = Len(files)
  <2>1. PICK n \in Nat : n = Len(files) /\ files \in [1 .. n -> {"pending", "extracted", "failed"}]
    OBVIOUS
  <2>2. g \in [1 .. n -> {"pending", "extracted", "failed"}]
    BY <1>2, <2>1
  <2> QED
    BY <2>1, <2>2
<1>4. [d EXCEPT !.files[i] = s] = [d EXCEPT !.files = g]
  BY <1>1, <1>2
<1> QED
  BY <1>1, <1>3, <1>4 DEF JobDoc

LEMMA StatusIs == {"pending", "extracting", "synthesizing", "done", "failed"} \subseteq JobStatus \ {None}
  BY DEF JobStatus, None

LEMMA UnderwayIs ==
    /\ PipelineStates \subseteq Underway /\ "caught" \in Underway /\ "reset" \in Underway
    /\ {"queued", "file", "refile", "combine", "synth", "resynth", "giveup", "push",
        "readown", "writeown", "finish"} \subseteq Underway
  BY Zenon DEF Underway, PipelineStates

LEMMA StartTyped == ASSUME ReviewInv, NEW r \in Request, StartExtraction(r) PROVE ReviewInv'
<1>1. proc[r].pc = "queued" /\ proc[r].pc \in Underway
  BY UnderwayIs DEF StartExtraction, At
<1>2. PICK d : d = [job[proc[r].job] EXCEPT !.status = "extracting"]
  OBVIOUS
<1>3. /\ d \in JobDoc /\ d.status = "extracting" /\ d.files = job[proc[r].job].files
      /\ d.skip = job[proc[r].job].skip
  BY <1>1, <1>2, Mine, DocUpdated, StatusIs
<1>4. JobsMove
  BY <1>1, <1>2, <1>3, Mine, StatusIs, JobsSet DEF StartExtraction
<1>5. ProfileMoves
  BY ProfileSame DEF StartExtraction, ghosts, Vouched
<1>6. PICK l : l = MovedTo(proc[r], "file", 1)
  OBVIOUS
<1>7. Typed(l) /\ l.pc = "file" /\ l.job = proc[r].job /\ l.seen = proc[r].seen
  <2>1. 1 \in 1 .. MaxFiles
    <3>1. MaxFiles \in Nat \ {0}
      BY CapAssumption
    <3> QED
      BY <3>1
  <2>2. Typed(proc[r])
    BY Mine
  <2> QED
    BY <1>6, <2>1, <2>2, TypedFile
<1>8. proc' = [proc EXCEPT ![r] = l]
  <2>1. proc' = [proc EXCEPT ![r] = MovedTo(proc[r], "file", 1)]
    BY DEF StartExtraction, MovedTo
  <2> QED
    BY <1>6, <2>1
<1> QED
  BY <1>1, <1>4, <1>5, <1>7, <1>8, Proceeds

LEMMA NextTyped ==
    ASSUME ReviewInv, NEW r \in Request, proc[r].pc \in {"file", "refile"}
    PROVE  /\ Typed(NextFile(r)) /\ NextFile(r).pc \in {"file", "combine"}
           /\ NextFile(r).job = proc[r].job /\ NextFile(r).seen = proc[r].seen
<1>1. proc[r].pc \in Underway
  BY UnderwayIs
<1>2. PICK i \in 1 .. MaxFiles : i = proc[r].file
  BY Mine DEF Typed
<1>3. PICK n \in Nat : n = Len(job[proc[r].job].files) /\ n <= MaxFiles
  BY <1>1, Mine DEF JobDoc
<1>4. MaxFiles \in Nat
  BY CapAssumption
<1>5. CASE i < n
  <2>1. i + 1 \in 1 .. MaxFiles
    BY <1>3, <1>4, <1>5
  <2>2. NextFile(r) = MovedTo(proc[r], "file", i + 1)
    BY <1>2, <1>3, <1>5 DEF NextFile, MovedTo
  <2>3. Typed(proc[r])
    BY Mine
  <2> QED
    BY <2>1, <2>2, <2>3, TypedFile
<1>6. CASE ~(i < n)
  <2>1. NextFile(r) = MovedTo(proc[r], "combine", 0)
    BY <1>2, <1>3, <1>6 DEF NextFile, MovedTo
  <2>2. Typed(proc[r])
    BY Mine
  <2> QED
    BY <2>1, <2>2, TypedFile
<1> QED
  BY <1>5, <1>6

LEMMA FileTyped ==
    ASSUME ReviewInv, NEW r \in Request,
           (\E ok \in BOOLEAN : ExtractFile(r, ok)) \/ RecordFailure(r)
    PROVE  ReviewInv'
<1>1. proc[r].pc \in {"file", "refile"} /\ proc[r].pc \in Underway
  BY UnderwayIs DEF ExtractFile, RecordFailure, At
<1>2. PICK s \in {"extracted", "failed"} :
        Set(proc[r].job, FileDone(proc[r].job, proc[r].file, s))
  BY DEF ExtractFile, RecordFailure
<1>3. JobsMove
  <2>1. PICK d : d = FileDone(proc[r].job, proc[r].file, s)
    OBVIOUS
  <2>2. /\ d \in JobDoc /\ d.status = job[proc[r].job].status /\ d.skip = job[proc[r].job].skip
        /\ Len(d.files) = Len(job[proc[r].job].files)
    <3>1. job[proc[r].job] \in JobDoc /\ s \in {"pending", "extracted", "failed"}
      BY <1>1, Mine
    <3>2. d = [job[proc[r].job] EXCEPT !.files[proc[r].file] = s]
      BY <2>1 DEF FileDone
    <3> QED
      BY <3>1, <3>2, DocFile, Zenon
  <2> QED
    BY <1>1, <1>2, <2>1, <2>2, Mine, JobsSet
<1>4. ProfileMoves
  BY ProfileSame DEF ExtractFile, RecordFailure, ghosts, Vouched
<1>5. PICK next : /\ next = NextFile(r) /\ Typed(next) /\ next.pc \in {"file", "combine"}
                  /\ next.job = proc[r].job /\ next.seen = proc[r].seen
  BY <1>1, NextTyped
<1>6. PICK t : t = next.texts \cup {proc[r].file}
  OBVIOUS
<1>7. t \in SUBSET (1 .. MaxFiles)
  BY <1>1, <1>5, <1>6, Mine DEF Typed
<1>8. PICK l : /\ l = next \/ l = [next EXCEPT !.texts = t]
               /\ proc' = [proc EXCEPT ![r] = l]
  <2>1. CASE RecordFailure(r)
    BY <1>5, <2>1 DEF RecordFailure
  <2>2. ASSUME NEW ok \in BOOLEAN, ExtractFile(r, ok)
        PROVE  \E l : /\ l = next \/ l = [next EXCEPT !.texts = t]
                      /\ proc' = [proc EXCEPT ![r] = l]
    BY <1>5, <1>6, <2>2 DEF ExtractFile
  <2> QED
    BY <2>1, <2>2
<1>9. Typed(l) /\ l.pc \in {"file", "combine"} /\ l.job = proc[r].job /\ l.seen = proc[r].seen
  <2>1. CASE l = next
    BY <1>5, <2>1
  <2>2. CASE l = [next EXCEPT !.texts = t]
    <3>1. next.pc # "accept"
      BY <1>5
    <3>2. Typed(l) /\ l.pc = next.pc /\ l.job = next.job /\ l.seen = next.seen
      BY <1>5, <1>7, <2>2, <3>1, TypedTexts, Zenon
    <3> QED
      BY <1>5, <3>2
  <2> QED
    BY <1>8, <2>1, <2>2
<1> QED
  BY <1>1, <1>3, <1>4, <1>8, <1>9, Proceeds

LEMMA JobUpdated ==
    ASSUME ReviewInv, NEW r \in Request, proc[r].pc \in Underway, NEW e \in JobDoc,
           e.status # None, e.files = job[proc[r].job].files, e.skip = job[proc[r].job].skip,
           Set(proc[r].job, e)
    PROVE  JobsMove
<1>1. PICK j \in Job : j = proc[r].job /\ Len(job[j].files) <= MaxFiles
  BY Mine
<1> QED
  BY <1>1, JobsSet

LEMMA JobStatusSet ==
    ASSUME ReviewInv, NEW r \in Request, proc[r].pc \in Underway,
           NEW s \in JobStatus \ {None}, Set(proc[r].job, [job[proc[r].job] EXCEPT !.status = s])
    PROVE  JobsMove
<1>1. PICK d \in JobDoc : d = job[proc[r].job]
  BY Mine
<1>2. PICK e : e = [d EXCEPT !.status = s]
  OBVIOUS
<1>3. e \in JobDoc /\ e.status = s /\ e.files = d.files /\ e.skip = d.skip
  BY <1>2, DocUpdated
<1> QED
  BY <1>1, <1>2, <1>3, JobUpdated

LEMMA JobEnded ==
    ASSUME ReviewInv, NEW r \in Request, proc[r].pc \in Underway,
           NEW s \in JobStatus \ {None}, NEW ps \in Seq(Proposal),
           Set(proc[r].job, Ended(job[proc[r].job], s, ps))
    PROVE  JobsMove
<1>1. PICK d \in JobDoc : d = job[proc[r].job]
  BY Mine
<1>2. PICK e : e = Ended(d, s, ps)
  OBVIOUS
<1>3. e \in JobDoc /\ e.status = s /\ e.files = d.files /\ e.skip = d.skip
  BY <1>2, DocProposals
<1> QED
  BY <1>1, <1>2, <1>3, JobUpdated

LEMMA JobCombined ==
    ASSUME ReviewInv, NEW r \in Request, proc[r].pc \in Underway,
           NEW s \in JobStatus \ {None}, NEW t \in SUBSET (1 .. MaxFiles),
           Set(proc[r].job, Combined(job[proc[r].job], s, t))
    PROVE  JobsMove
<1>1. PICK d \in JobDoc : d = job[proc[r].job]
  BY Mine
<1>2. PICK e : e = Combined(d, s, t)
  OBVIOUS
<1>3. e \in JobDoc /\ e.status = s /\ e.files = d.files /\ e.skip = d.skip
  BY <1>2, DocText
<1> QED
  BY <1>1, <1>2, <1>3, JobUpdated

LEMMA NoneYet == <<>> \in Seq(Proposal)
  OBVIOUS

LEMMA TypedGo ==
    ASSUME ReviewInv, NEW r \in Request, NEW pc \in {"synth", "resynth", "giveup", "finish"},
           Go(r, pc), proc[r].pc \in Underway, JobsMove, ProfileMoves
    PROVE  ReviewInv'
<1>1. PICK l : l = [proc[r] EXCEPT !.pc = pc]
  OBVIOUS
<1>2. Typed(proc[r])
  BY Mine
<1>3. Typed(l) /\ l.pc = pc /\ l.job = proc[r].job /\ l.seen = proc[r].seen
  BY <1>1, <1>2, TypedPc
<1>4. proc' = [proc EXCEPT ![r] = l]
  BY <1>1 DEF Go
<1> QED
  BY <1>3, <1>4, Proceeds

LEMMA CombineTyped ==
    ASSUME ReviewInv, NEW r \in Request, AllFailed(r) \/ Combine(r) PROVE ReviewInv'
<1>1. proc[r].pc \in Underway
  BY UnderwayIs DEF AllFailed, Combine, At
<1>2. ProfileMoves
  BY ProfileSame DEF AllFailed, Combine, ghosts, Vouched
<1>3. CASE AllFailed(r)
  <2>1. Set(proc[r].job, Ended(job[proc[r].job], "failed", <<>>)) /\ End(r)
    BY <1>3 DEF AllFailed, Failed, Ended
  <2>2. JobsMove
    BY <1>1, <2>1, StatusIs, NoneYet, JobEnded
  <2> QED
    BY <1>2, <2>1, <2>2, Stops
<1>4. CASE Combine(r)
  <2>1. Set(proc[r].job, Combined(job[proc[r].job], "synthesizing", proc[r].texts)) /\ Go(r, "synth")
    BY <1>4 DEF Combine, Combined
  <2>2. proc[r].texts \in SUBSET (1 .. MaxFiles)
    BY Mine DEF Typed
  <2>3. JobsMove
    BY <1>1, <2>1, <2>2, StatusIs, JobCombined
  <2> QED
    BY <1>1, <1>2, <2>1, <2>3, TypedGo
<1> QED
  BY <1>3, <1>4

\* Only what was uploaded to be trusted goes on to the lists unseen.
LEMMA SynthesizeTyped ==
    ASSUME ReviewInv, NEW r \in Request, NEW drawn \in Answers, Synthesize(r, drawn)
    PROVE  ReviewInv'
<1>1. proc[r].pc \in Underway
  BY UnderwayIs DEF Synthesize, At
<1>2. PICK ps \in Seq(Proposal) : ps = Accumulated(proc[r].job, drawn)
  BY <1>1, Mine, AccumulatedIs
<1>3. PICK pc \in {"finish", "readown", "push"} :
         pc = Deliver(r, ps) /\ (pc = "readown" => job[proc[r].job].skip)
  BY DEF Deliver
<1>4. PICK l : l = Holding(proc[r], ps, pc)
  OBVIOUS
<1>5. Typed(l) /\ l.pc = pc /\ l.job = proc[r].job /\ l.seen = proc[r].seen
  BY <1>4, Mine, TypedProps
<1>6. proc' = [proc EXCEPT ![r] = l]
  <2>1. proc' = [proc EXCEPT ![r] = Holding(proc[r], ps, pc)]
    BY <1>2, <1>3 DEF Synthesize, Holding
  <2> QED
    BY <1>4, <2>1
<1>7. JobsMove /\ ProfileMoves
  BY JobsSame, ProfileSame DEF Synthesize, ghosts, Vouched
<1> QED
  BY <1>1, <1>3, <1>5, <1>6, <1>7, Proceeds

LEMMA GiveUpTyped ==
    ASSUME ReviewInv, NEW r \in Request, SynthesisFails(r) \/ GiveUp(r) PROVE ReviewInv'
<1>1. proc[r].pc \in Underway
  BY UnderwayIs DEF SynthesisFails, GiveUp, At
<1>2. ProfileMoves
  BY ProfileSame DEF SynthesisFails, GiveUp, ghosts, Vouched
<1>3. CASE SynthesisFails(r)
  <2>1. JobsMove
    BY <1>3, JobsSame DEF SynthesisFails
  <2> QED
    BY <1>1, <1>2, <1>3, <2>1, TypedGo DEF SynthesisFails
<1>4. CASE GiveUp(r)
  <2>1. Set(proc[r].job, Ended(job[proc[r].job], "failed", <<>>)) /\ End(r)
    BY <1>4 DEF GiveUp, Failed, Ended
  <2>2. JobsMove
    BY <1>1, <2>1, StatusIs, NoneYet, JobEnded
  <2> QED
    BY <1>2, <2>1, <2>2, Stops
<1> QED
  BY <1>3, <1>4

LEMMA FinishTyped ==
    ASSUME ReviewInv, NEW r \in Request, Finish(r) \/ Reset(r) PROVE ReviewInv'
<1>1. proc[r].pc \in Underway
  BY UnderwayIs DEF Finish, Reset, At
<1>2. ProfileMoves
  BY ProfileSame DEF Finish, Reset, ghosts, Vouched
<1>3. CASE Finish(r)
  <2>1. Set(proc[r].job, Ended(job[proc[r].job], "done", proc[r].props)) /\ End(r)
    BY <1>3 DEF Finish, Ended
  <2>2. proc[r].props \in Seq(Proposal)
    BY Mine DEF Typed
  <2>3. JobsMove
    BY <1>1, <2>1, <2>2, StatusIs, JobEnded
  <2> QED
    BY <1>2, <2>1, <2>3, Stops
<1>4. CASE Reset(r)
  <2>1. JobsMove
    BY <1>1, <1>4, StatusIs, JobStatusSet DEF Reset
  <2> QED
    BY <1>1, <1>2, <1>4, <2>1, TypedGo DEF Reset
<1> QED
  BY <1>3, <1>4

-----------------------------------------------------------------------------
(* The writers of the lists.                                               *)

\* A list written back, and another list awaiting review.
LEMMA PendingSet ==
    ASSUME NEW p, GoodProfile(p), NEW ps \in Seq(Proposal)
    PROVE  LET q == [p EXCEPT !.pending = ps] IN GoodProfile(q) /\ q.kept = p.kept
  BY DEF GoodProfile, Profile

LEMMA PendingMoves ==
    ASSUME ReviewInv, NEW ps \in Seq(Proposal), UNCHANGED Vouched,
           profile' = IF profile.live THEN [profile EXCEPT !.pending = ps] ELSE profile
    PROVE  ProfileMoves
<1>1. GoodProfile(profile) /\ Backed(profile.kept, Vouched) /\ Vouched \subseteq Field \X Value
  BY DEF ReviewInv
<1>2. GoodProfile(profile') /\ profile'.kept = profile.kept
  BY <1>1, PendingSet
<1> QED
  BY <1>1, <1>2 DEF ProfileMoves

LEMMA KeptSet ==
    ASSUME NEW p, GoodProfile(p), NEW kept,
           kept = [f \in Field |-> kept[f]],
           \A f \in Field : kept[f] \in Short(Value, Cap(f))
    PROVE  LET q == [p EXCEPT !.kept = kept] IN GoodProfile(q) /\ q.kept = kept
<1>1. kept \in [Field -> Seq(Value)] /\ Capped(kept)
  BY DEF Short, Capped
<1> QED
  BY <1>1 DEF GoodProfile, Profile

LEMMA KeptMoves ==
    ASSUME ReviewInv, NEW fields, NEW kept, Vouched \subseteq Vouched',
           Vouched' \subseteq Field \X Value, profile' = Written(fields, kept),
           \A f \in Field : f \in fields =>
              /\ kept[f] \in Short(Value, Cap(f))
              /\ {f} \X ToSet(kept[f]) \subseteq Vouched'
    PROVE  ProfileMoves
<1>1. GoodProfile(profile) /\ Backed(profile.kept, Vouched)
  BY DEF ReviewInv
<1>2. CASE ~profile.live
  <2>1. profile' = profile
    BY <1>2 DEF Written
  <2>2. Backed(profile.kept, Vouched')
    BY <1>1, BackedGrows
  <2> QED
    BY <1>1, <2>1, <2>2 DEF ProfileMoves
<1>3. CASE profile.live
  <2>1. PICK new : new = [f \in Field |-> IF f \in fields THEN kept[f] ELSE profile.kept[f]]
    OBVIOUS
  <2>2. profile' = [profile EXCEPT !.kept = new]
    BY <1>3, <2>1 DEF Written
  <2>3. \A f \in Field : profile.kept[f] \in Short(Value, Cap(f))
    BY <1>1 DEF GoodProfile, Profile, Capped, Short
  <2>4. new = [f \in Field |-> new[f]] /\ \A f \in Field : new[f] \in Short(Value, Cap(f))
    BY <2>1, <2>3
  <2>5. Backed(new, Vouched')
    BY <1>1, <2>1 DEF Backed
  <2>6. GoodProfile(profile') /\ profile'.kept = new
    BY <1>1, <2>2, <2>4, KeptSet
  <2> QED
    BY <2>5, <2>6 DEF ProfileMoves
<1> QED
  BY <1>2, <1>3

LEMMA NamesIn == ASSUME NEW ps \in Seq(Proposal) PROVE Names(ps) \subseteq Field \X Value
<1>1. ToSet(ps) \subseteq Proposal
  BY DEF ToSet
<1> QED
  BY <1>1 DEF Names, Proposal

LEMMA PushTyped == ASSUME ReviewInv, NEW r \in Request, Push(r) PROVE ReviewInv'
<1>1. proc[r].pc \in Underway
  BY UnderwayIs DEF Push, At
<1>2. PICK ps : ps = profile.pending \o proc[r].props
  OBVIOUS
<1>3. ps \in Seq(Proposal)
  <2>1. profile.pending \in Seq(Proposal) /\ proc[r].props \in Seq(Proposal)
    BY Mine DEF ReviewInv, GoodProfile, Profile, Typed
  <2> QED
    BY <1>2, <2>1
<1>4. JobsMove
  BY JobsSame DEF Push
<1>5. ProfileMoves
  BY <1>2, <1>3, PendingMoves DEF Push, Vouched
<1> QED
  BY <1>1, <1>4, <1>5, TypedGo DEF Push

\* What was read is backed; it is written back only for a trusted upload.
LEMMA OwnTyped ==
    ASSUME ReviewInv, NEW r \in Request, ReadOwn(r) \/ WriteOwn(r) PROVE ReviewInv'
<1>1. /\ proc[r].pc \in Underway /\ proc[r].pc \in {"readown", "writeown"}
      /\ Typed(proc[r]) /\ Tracked(proc[r], job)
  BY Mine, UnderwayIs DEF ReadOwn, WriteOwn, At
<1>2. PICK p : p = IF At(r, "readown") THEN profile ELSE Empty
  OBVIOUS
<1>3. PICK pc \in {"writeown", "finish"} :
         /\ proc' = [proc EXCEPT ![r] = Having(proc[r], pc, p)]
  BY <1>2 DEF ReadOwn, WriteOwn, Having, At
<1>4. PICK l : l = Having(proc[r], pc, p)
  OBVIOUS
<1>5. GoodProfile(p) /\ Backed(p.kept, Vouched)
  BY <1>2, IdleTyped DEF ReviewInv
<1>6. Typed(l) /\ l.pc = pc /\ l.job = proc[r].job /\ l.seen = p
  <2>1. pc \notin {"file", "refile"} /\ pc # "accept"
    OBVIOUS
  <2> QED
    BY <1>1, <1>4, <1>5, <2>1, TypedSeen
<1>7. JobsMove
  BY JobsSame DEF ReadOwn, WriteOwn, ghosts, Vouched
<1>8. Tracked(l, job')
  BY <1>1, <1>6, <1>7, StandsStill DEF Tracked
<1>9. ProfileMoves
  <2>1. CASE ReadOwn(r)
    BY <2>1, ProfileSame DEF ReadOwn, ghosts, Vouched
  <2>2. CASE WriteOwn(r)
    <3>1. PICK ps \in Seq(Proposal) : ps = proc[r].props
      BY <1>1 DEF Typed
    <3>2. PICK seen \in Kept : seen = proc[r].seen.kept /\ Capped(seen) /\ Backed(seen, Vouched)
      BY Mine DEF Typed, GoodProfile, Profile, Kept
    <3>3. Vouched' = Vouched \cup Names(ps)
      BY <1>1, <2>2, <3>1 DEF WriteOwn, Tracked, review, Vouched
    <3>4. Names(ps) \subseteq Field \X Value
      BY NamesIn
    <3>5. PICK kept : kept = Applied(seen, ps)
      OBVIOUS
    <3>6. ASSUME NEW f \in Field
          PROVE  /\ kept[f] \in Short(Value, Cap(f))
                 /\ {f} \X ToSet(kept[f]) \subseteq Vouched'
      <4>1. /\ kept[f] \in Short(Value, Cap(f))
            /\ \A v \in ToSet(kept[f]) : v \in ToSet(seen[f]) \/ <<f, v>> \in Names(ps)
        BY <3>2, <3>5, AppliedKeeps
      <4>2. \A v \in ToSet(seen[f]) : <<f, v>> \in Vouched
        BY <3>2 DEF Backed
      <4> QED
        BY <3>3, <4>1, <4>2
    <3>7. profile' = Written(Touched(r), kept)
      BY <2>2, <3>1, <3>2, <3>5 DEF WriteOwn
    <3>8. Vouched \subseteq Vouched' /\ Vouched' \subseteq Field \X Value
      BY <3>3, <3>4 DEF ReviewInv
    <3> QED
      BY <3>6, <3>7, <3>8, KeptMoves
  <2> QED
    BY <2>1, <2>2
<1>10. Backed(l.seen.kept, Vouched')
  BY <1>5, <1>6, <1>9, BackedGrows DEF ProfileMoves
<1> QED
  BY <1>3, <1>4, <1>6, <1>7, <1>8, <1>9, <1>10, ReviewMoves

LEMMA UploadTyped ==
    ASSUME ReviewInv, NEW r \in Request, NEW j \in Job, NEW skip \in BOOLEAN,
           NEW offered \in Seq({"good", "bad"}), Upload(r, j, offered, skip)
    PROVE  ReviewInv'
<1>1. PICK good \in Seq({"good"}) : good = Valid(offered) /\ Len(good) <= Len(offered)
  BY ThoseFound DEF Valid
<1>2. PICK n \in Nat : n = Len(good) /\ n <= MaxFiles /\ DOMAIN good = 1 .. n
  <2>1. PICK n \in Nat : n = Len(good) /\ DOMAIN good = 1 .. n
    OBVIOUS
  <2>2. PICK m \in Nat : m = Len(offered)
    OBVIOUS
  <2>3. n <= m
    BY <1>1, <2>1, <2>2
  <2>4. m <= MaxFiles /\ MaxFiles \in Nat
    BY <2>2, CapAssumption DEF Upload
  <2>5. n <= MaxFiles
    BY <2>3, <2>4
  <2> QED
    BY <2>1, <2>5
<1>3. PICK files : files = [i \in 1 .. n |-> "pending"]
  OBVIOUS
<1>4. files \in Seq({"pending", "extracted", "failed"}) /\ Len(files) = n
  BY <1>3
<1>5. PICK d : d = [NoJob EXCEPT !.status = "pending", !.skip = skip, !.files = files]
  OBVIOUS
<1>6. Set(j, d) /\ job[j].status = None
  BY <1>1, <1>2, <1>3, <1>5 DEF Upload
<1>7. d = [status |-> "pending", files |-> files, text |-> {}, skip |-> skip, proposals |-> <<>>]
  BY <1>5 DEF NoJob
<1>8. d \in JobDoc /\ d.status # None /\ Len(d.files) <= MaxFiles
  BY <1>2, <1>4, <1>7 DEF JobDoc, JobStatus, None
<1>9. JobsMove /\ job'[j].status # None
  <2>1. JobsMove
    BY <1>6, <1>8, JobsSet
  <2>2. job'[j] = d
    BY <1>6 DEF Set, ReviewInv, JobsGood
  <2> QED
    BY <1>8, <2>1, <2>2
<1>10. ProfileMoves
  BY ProfileSame DEF Upload, ghosts, Vouched
<1>11. PICK l : l = Taking(proc[r], "queued", j)
  OBVIOUS
<1>12. Typed(l) /\ l.pc = "queued" /\ l.job = j /\ l.seen = proc[r].seen
  BY <1>11, Mine, TypedJob
<1>13. proc' = [proc EXCEPT ![r] = l]
  <2>1. proc' = [proc EXCEPT ![r] = Taking(proc[r], "queued", j)]
    BY DEF Upload, Taking
  <2> QED
    BY <1>11, <2>1
<1>14. Tracked(l, job')
  BY <1>9, <1>12 DEF Tracked
<1>15. Backed(l.seen.kept, Vouched')
  BY <1>10, <1>12, Mine, BackedGrows DEF ProfileMoves
<1> QED
  BY <1>9, <1>10, <1>12, <1>13, <1>14, <1>15, ReviewMoves

LEMMA RetryTyped ==
    ASSUME ReviewInv, NEW r \in Request, NEW j \in Job, Retry(r, j) PROVE ReviewInv'
<1>1. JobsMove /\ ProfileMoves
  BY JobsSame, ProfileSame DEF Retry, ghosts, Vouched
<1>2. PICK l : l = Taking(proc[r], "reset", j)
  OBVIOUS
<1>3. Typed(l) /\ l.pc = "reset" /\ l.job = j /\ l.seen = proc[r].seen
  BY <1>2, Mine, TypedJob
<1>4. proc' = [proc EXCEPT ![r] = l]
  <2>1. proc' = [proc EXCEPT ![r] = Taking(proc[r], "reset", j)]
    BY DEF Retry, Taking
  <2> QED
    BY <1>2, <2>1
<1>5. Tracked(l, job')
  <2>1. Tracked(l, job)
    BY <1>3 DEF Tracked, Retry, Retryable, None
  <2> QED
    BY <1>1, <2>1, StandsStill
<1>6. Backed(l.seen.kept, Vouched')
  BY <1>1, <1>3, Mine, BackedGrows DEF ProfileMoves
<1> QED
  BY <1>1, <1>3, <1>4, <1>5, <1>6, ReviewMoves

LEMMA FaultTyped ==
    ASSUME ReviewInv, NEW r \in Request, NEW read \in BOOLEAN, Fault(r, read)
    PROVE  ReviewInv'
<1>1. JobsMove /\ ProfileMoves
  BY JobsSame, ProfileSame DEF Fault, ghosts, Vouched
<1>2. proc[r].pc \in Underway
  BY DEF Fault, Underway
<1>3. PICK next : next = Catcher(proc[r].pc)
  OBVIOUS
<1>4. \/ next = "idle" \/ next = "caught"
      \/ (next = "refile" /\ proc[r].pc = "file")
  <2>1. CASE proc[r].pc = "file"
    BY <1>3, <2>1 DEF Catcher
  <2>2. CASE proc[r].pc \in {"caught", "reset"}
    BY <1>3, <2>2, Zenon DEF Catcher
  <2>3. CASE proc[r].pc # "file" /\ proc[r].pc \notin {"caught", "reset"}
    BY <1>3, <2>3, Zenon DEF Catcher
  <2> QED
    BY <2>1, <2>2, <2>3
<1>5. CASE next = "idle"
  BY <1>1, <1>3, <1>5, Stops DEF Fault, End
<1>6. CASE next = "caught"
  <2>1. PICK l : l = Taking(Idle, "caught", proc[r].job)
    OBVIOUS
  <2>2. Typed(l) /\ l.pc = "caught" /\ l.job = proc[r].job /\ l.seen = Idle.seen
    BY <2>1, IdleTyped, TypedJob
  <2>3. proc' = [proc EXCEPT ![r] = l]
    <3>1. proc' = [proc EXCEPT ![r] = Taking(Idle, "caught", proc[r].job)]
      BY <1>3, <1>6 DEF Fault, Taking
    <3> QED
      BY <2>1, <3>1
  <2>4. Tracked(l, job')
    <3>1. Tracked(l, job)
      BY <1>2, <2>2, Mine DEF Tracked
    <3> QED
      BY <1>1, <3>1, StandsStill
  <2>5. Backed(l.seen.kept, Vouched')
    BY <2>2, IdleTyped DEF Idle
  <2> QED
    BY <1>1, <2>2, <2>3, <2>4, <2>5, ReviewMoves
<1>7. CASE next = "refile" /\ proc[r].pc = "file"
  <2>1. PICK i \in 1 .. MaxFiles : i = proc[r].file
    BY <1>7, Mine DEF Typed
  <2>2. PICK t : t = proc[r].texts \cup (IF read THEN {proc[r].file} ELSE {})
    OBVIOUS
  <2>3. t \in SUBSET (1 .. MaxFiles)
    BY <2>1, <2>2, Mine DEF Typed
  <2>4. PICK l : l = Noted(proc[r], t)
    OBVIOUS
  <2>5. Typed(l) /\ l.pc = "refile" /\ l.job = proc[r].job /\ l.seen = proc[r].seen
    BY <2>1, <2>3, <2>4, Mine, TypedRefile
  <2>6. proc' = [proc EXCEPT ![r] = l]
    <3>1. proc' = [proc EXCEPT ![r] = Noted(proc[r], t)]
      BY <1>3, <1>7, <2>2 DEF Fault, Noted
    <3> QED
      BY <2>4, <3>1
  <2> QED
    BY <1>1, <1>2, <2>5, <2>6, Proceeds
<1> QED
  BY <1>4, <1>5, <1>6, <1>7

LEMMA RestartTyped == ASSUME ReviewInv, Restart PROVE ReviewInv'
<1>1. JobsMove /\ ProfileMoves
  BY JobsSame, ProfileSame DEF Restart, review, Vouched
<1>2. proc' = [r \in Request |-> Idle] /\ Idle.seen = Empty
  BY DEF Restart, Idle
<1>3. \A r \in Request : /\ Typed(proc'[r]) /\ Backed(proc'[r].seen.kept, Vouched')
                          /\ Tracked(proc'[r], job')
  BY <1>2, IdleTyped
<1> QED
  BY <1>1, <1>2, <1>3 DEF ReviewInv, JobsMove, ProfileMoves

-----------------------------------------------------------------------------
(* Reviews, edits and the form.                                            *)

LEMMA ReadTyped ==
    ASSUME ReviewInv, NEW r \in Request, NEW op, NEW pc, pc \notin Underway, NEW fields,
           Typed(fields), pc = "accept" => Of(fields.field, profile.pending) # <<>>,
           ReadProfile(r, op, pc, fields)
    PROVE  ReviewInv'
<1>1. JobsMove /\ ProfileMoves
  BY JobsSame, ProfileSame DEF ReadProfile, ghosts, Vouched
<1>2. PICK l : l = Having(fields, pc, profile)
  OBVIOUS
<1>3. GoodProfile(profile) /\ Backed(profile.kept, Vouched)
  BY DEF ReviewInv
<1>4. Typed(l) /\ l.pc = pc /\ l.seen = profile
  BY <1>2, <1>3, UnderwayIs, TypedSeen
<1>5. proc' = [proc EXCEPT ![r] = l]
  <2>1. proc' = [proc EXCEPT ![r] = Having(fields, pc, profile)]
    BY DEF ReadProfile, Having
  <2> QED
    BY <1>2, <2>1
<1>6. Tracked(l, job')
  BY <1>4, OwnUnderway DEF Tracked
<1>7. Backed(l.seen.kept, Vouched')
  BY <1>1, <1>3, <1>4, BackedGrows DEF ProfileMoves
<1> QED
  BY <1>1, <1>4, <1>5, <1>6, <1>7, ReviewMoves

\* What a request starts with.
Naming(ps, f) == [Idle EXCEPT !.props = ps, !.field = f]
LEMMA StartsTyped ==
    /\ \A f \in Field, p \in Proposal : Typed(Naming(<<p>>, f)) /\ Naming(<<p>>, f).field = f
    /\ \A f \in Field : Typed([Idle EXCEPT !.field = f]) /\ [Idle EXCEPT !.field = f].field = f
    /\ \A e \in Edit : (e.label # None => "label" \in Ops /\ e.field = "situation") =>
          Typed([Idle EXCEPT !.edit = e])
<1>1. /\ IsLocals(Idle) /\ Idle.pc = "idle" /\ Idle.texts = {} /\ Idle.props = <<>>
      /\ Idle.seen = Empty /\ Idle.field \in Field /\ Idle.edit \in Edit /\ Idle.edit.label = None
  BY IdleTyped DEF Typed, Idle, NoEdit
<1>2. GoodProfile(Empty)
  BY IdleTyped
<1>3. ASSUME NEW l, IsLocals(l), l.pc = "idle", l.texts = {}, l.props \in Seq(Proposal),
             l.seen = Empty, l.field \in Field, l.edit \in Edit,
             l.edit.label # None => "label" \in Ops /\ l.edit.field = "situation"
      PROVE  Typed(l)
  BY <1>2, <1>3 DEF Typed
<1>4. ASSUME NEW f \in Field, NEW p \in Proposal
      PROVE  Typed(Naming(<<p>>, f)) /\ Naming(<<p>>, f).field = f
  <2>1. PICK l : l = Naming(<<p>>, f)
    OBVIOUS
  <2>2. l = [pc |-> Idle.pc, job |-> Idle.job, field |-> f, file |-> Idle.file,
             texts |-> Idle.texts, props |-> <<p>>, seen |-> Idle.seen, edit |-> Idle.edit]
    BY <2>1 DEF Naming, Idle
  <2>3. <<p>> \in Seq(Proposal)
    OBVIOUS
  <2>4. IsLocals(l) /\ l.field = f
    BY <2>2 DEF IsLocals
  <2>5. Typed(l)
    BY <1>1, <1>3, <2>2, <2>3, <2>4
  <2> QED
    BY <2>1, <2>4, <2>5
<1>5. ASSUME NEW f \in Field
      PROVE  Typed([Idle EXCEPT !.field = f]) /\ [Idle EXCEPT !.field = f].field = f
  <2>1. PICK l : l = [Idle EXCEPT !.field = f]
    OBVIOUS
  <2>2. l = [pc |-> Idle.pc, job |-> Idle.job, field |-> f, file |-> Idle.file,
             texts |-> Idle.texts, props |-> Idle.props, seen |-> Idle.seen, edit |-> Idle.edit]
    BY <2>1 DEF Idle
  <2>3. IsLocals(l) /\ l.field = f
    BY <2>2 DEF IsLocals
  <2>4. Typed(l)
    BY <1>1, <1>3, <2>2, <2>3, NoneYet
  <2> QED
    BY <2>1, <2>3, <2>4
<1>6. ASSUME NEW e \in Edit, e.label # None => "label" \in Ops /\ e.field = "situation"
      PROVE  Typed([Idle EXCEPT !.edit = e])
  <2>1. PICK l : l = [Idle EXCEPT !.edit = e]
    OBVIOUS
  <2>2. l = [pc |-> Idle.pc, job |-> Idle.job, field |-> Idle.field, file |-> Idle.file,
             texts |-> Idle.texts, props |-> Idle.props, seen |-> Idle.seen, edit |-> e]
    BY <2>1 DEF Idle
  <2>3. IsLocals(l)
    BY <2>2 DEF IsLocals
  <2>4. Typed(l)
    BY <1>1, <1>3, <1>6, <2>2, <2>3, NoneYet
  <2> QED
    BY <2>1, <2>4
<1> QED
  BY <1>4, <1>5, <1>6

LEMMA ReviewTyped ==
    ASSUME ReviewInv, NEW r \in Request,
           \/ \E f \in Field, v \in Value :
                 Propose(r, [field |-> f, value |-> v, src |-> "session"])
           \/ \E f \in Field : Accept(r, f) \/ Dismiss(r, f)
           \/ \E e \in Edit : BeginEdit(r, e)
    PROVE ReviewInv'
<1>1. {"propose", "accept", "dismiss", "edit"} \cap Underway = {}
  BY Zenon DEF Underway, PipelineStates
<1>2. ASSUME NEW f \in Field, NEW v \in Value,
             Propose(r, [field |-> f, value |-> v, src |-> "session"])
      PROVE  ReviewInv'
  <2>1. PICK p \in Proposal : p = [field |-> f, value |-> v, src |-> "session"]
    BY DEF Proposal
  <2>2. PICK l : l = Naming(<<p>>, f)
    OBVIOUS
  <2>3. ReadProfile(r, "propose", "propose", l)
    <3>1. ReadProfile(r, "propose", "propose", Naming(<<p>>, p.field)) /\ p.field = f
      BY <1>2, <2>1 DEF Propose, Naming
    <3> QED
      BY <2>2, <3>1
  <2>4. Typed(l)
    BY <2>2, StartsTyped
  <2> QED
    BY <1>1, <2>3, <2>4, ReadTyped
<1>3. ASSUME NEW f \in Field, Accept(r, f) \/ Dismiss(r, f) PROVE ReviewInv'
  <2>1. PICK l : l = [Idle EXCEPT !.field = f]
    OBVIOUS
  <2>2. Typed(l) /\ l.field = f
    BY <2>1, StartsTyped
  <2>3. CASE Accept(r, f)
    <3>1. ReadProfile(r, "accept", "accept", l) /\ Of(f, profile.pending) # <<>>
      BY <2>1, <2>3 DEF Accept
    <3> QED
      BY <1>1, <2>2, <3>1, ReadTyped
  <2>4. CASE Dismiss(r, f)
    <3>1. ReadProfile(r, "dismiss", "dismiss", l)
      BY <2>1, <2>4 DEF Dismiss
    <3> QED
      BY <1>1, <2>2, <3>1, ReadTyped
  <2> QED
    BY <1>3, <2>3, <2>4
<1>4. ASSUME NEW e \in Edit, BeginEdit(r, e) PROVE ReviewInv'
  <2>1. PICK l : l = [Idle EXCEPT !.edit = e]
    OBVIOUS
  <2>2. Typed(l)
    BY <1>4, <2>1, StartsTyped DEF BeginEdit
  <2>3. ReadProfile(r, "edit", "edit", l)
    BY <1>4, <2>1 DEF BeginEdit
  <2> QED
    BY <1>1, <2>2, <2>3, ReadTyped
<1> QED
  BY <1>2, <1>3, <1>4

LEMMA WriteTyped ==
    ASSUME ReviewInv, NEW r \in Request,
           ProposeWrite(r) \/ AcceptWrite(r) \/ DismissWrite(r) \/ EditWrite(r)
    PROVE  ReviewInv'
<1>1. End(r) /\ JobsMove
  BY JobsSame DEF ProposeWrite, AcceptWrite, DismissWrite, EditWrite, ghosts, Vouched
<1>2. /\ proc[r].field \in Field /\ proc[r].props \in Seq(Proposal) /\ proc[r].edit \in Edit
      /\ (proc[r].edit.label # None => proc[r].edit.field = "situation")
      /\ (proc[r].pc = "accept" => Of(proc[r].field, proc[r].seen.pending) # <<>>)
  BY Mine DEF Typed
<1>3. /\ proc[r].seen.kept \in Kept /\ Capped(proc[r].seen.kept)
      /\ proc[r].seen.pending \in Seq(Proposal) /\ Backed(proc[r].seen.kept, Vouched)
  BY Mine DEF Typed, GoodProfile, Profile, Kept
<1>4. PICK rest \in Seq(Proposal) : rest = NotOf(proc[r].field, proc[r].seen.pending)
  BY <1>3, OfIs
<1>5. ProfileMoves
  <2>1. CASE ProposeWrite(r)
    <3>1. PICK ps : ps = rest \o proc[r].props
      OBVIOUS
    <3>2. ps \in Seq(Proposal)
      BY <1>2, <3>1
    <3> QED
      BY <1>4, <2>1, <3>1, <3>2, PendingMoves DEF ProposeWrite, SetPending, ghosts, Vouched
  <2>2. CASE DismissWrite(r)
    BY <1>4, <2>2, PendingMoves DEF DismissWrite, SetPending, ghosts, Vouched
  <2>3. CASE AcceptWrite(r)
    <3>1. PICK f \in Field : f = proc[r].field
      BY <1>2
    <3>2. PICK of \in Seq(Proposal) : /\ of = Of(f, proc[r].seen.pending) /\ of # <<>>
                                      /\ ToSet(of) = {p \in ToSet(proc[r].seen.pending) : p.field = f}
      BY <1>2, <1>3, <2>3, <3>1, OfIs DEF AcceptWrite, At
    <3>3. PICK first \in Proposal : first = Head(of) /\ first.field = f
      <4>1. Head(of) \in ToSet(of)
        BY <3>2, EndsIn
      <4>2. ToSet(of) \subseteq Proposal
        BY DEF ToSet
      <4> QED
        BY <3>2, <4>1, <4>2
    <3>4. Vouched' = Vouched \cup {<<f, first.value>>}
      BY <2>3, <3>1, <3>2, <3>3 DEF AcceptWrite, Vouched
    <3>5. {<<f, first.value>>} \subseteq Field \X Value
      BY <3>3 DEF Proposal
    <3>6. Vouched \subseteq Vouched' /\ Vouched' \subseteq Field \X Value
      BY <3>4, <3>5 DEF ReviewInv
    <3>7. PICK list : list = Add(f, proc[r].seen.kept[f], first.value)
      OBVIOUS
    <3>8. /\ list \in Short(Value, Cap(f))
          /\ ToSet(list) \subseteq ToSet(proc[r].seen.kept[f]) \cup {first.value}
      <4>1. proc[r].seen.kept[f] \in Seq(Value) /\ first.value \in Value
        BY <1>3 DEF Kept, Proposal
      <4> QED
        BY <3>7, <4>1, AddKeeps
    <3>9. {f} \X ToSet(list) \subseteq Vouched'
      BY <1>3, <3>4, <3>5, <3>8 DEF Backed
    <3>10. GoodProfile(profile) /\ Backed(profile.kept, Vouched)
      BY DEF ReviewInv
    <3>11. CASE ~profile.live
      <4>1. profile' = profile
        BY <2>3, <3>11 DEF AcceptWrite
      <4> QED
        BY <3>6, <3>10, <4>1, BackedGrows DEF ProfileMoves
    <3>12. CASE profile.live
      <4>1. PICK kept : kept = [profile.kept EXCEPT ![f] = list]
        OBVIOUS
      <4>2. /\ kept = [g \in Field |-> kept[g]] /\ kept[f] = list
            /\ \A g \in Field \ {f} : kept[g] = profile.kept[g]
        BY <3>10, <4>1 DEF GoodProfile, Profile
      <4>3. \A g \in Field : profile.kept[g] \in Short(Value, Cap(g))
        BY <3>10 DEF GoodProfile, Profile, Capped, Short
      <4>4. \A g \in Field : kept[g] \in Short(Value, Cap(g))
        BY <3>8, <4>2, <4>3
      <4>5. PICK mid : mid = [profile EXCEPT !.kept = kept]
        OBVIOUS
      <4>6. GoodProfile(mid) /\ mid.kept = kept
        BY <3>10, <4>2, <4>4, <4>5, KeptSet
      <4>7. profile' = [mid EXCEPT !.pending = rest]
        <5>1. profile' = [profile EXCEPT !.kept[f] = list, !.pending = rest]
          BY <1>4, <2>3, <3>1, <3>2, <3>3, <3>7, <3>12 DEF AcceptWrite, Accepted
        <5> QED
          BY <4>1, <4>5, <5>1
      <4>8. GoodProfile(profile') /\ profile'.kept = kept
        BY <4>6, <4>7, PendingSet
      <4>9. Backed(kept, Vouched')
        <5>1. ASSUME NEW g \in Field PROVE {g} \X ToSet(kept[g]) \subseteq Vouched'
          <6>1. CASE g = f
            BY <3>9, <4>2, <6>1
          <6>2. CASE g # f
            BY <3>6, <3>10, <4>2, <6>2 DEF Backed
          <6> QED
            BY <6>1, <6>2
        <5> QED
          BY <5>1 DEF Backed
      <4> QED
        BY <3>6, <4>8, <4>9 DEF ProfileMoves
    <3> QED
      BY <3>11, <3>12
  <2>4. CASE EditWrite(r)
    <3>1. PICK e \in Edit : e = proc[r].edit /\ (e.label # None => e.field = "situation")
      BY <1>2
    <3>2. PICK f \in Field : f = e.field
      BY DEF Edit
    <3>3. proc[r].seen.kept[f] \in Short(Value, Cap(f))
      BY <1>3 DEF Kept, Capped, Short
    <3>4. PICK new : new = Edited(proc[r].seen, e)
      OBVIOUS
    <3>5. /\ new \in Short(Value, Cap(f))
          /\ ToSet(new) \subseteq ToSet(proc[r].seen.kept[f]) \cup ({e.add, e.label} \ {None})
      BY <3>1, <3>2, <3>3, <3>4, EditedIs
    <3>6. Vouched' = Vouched \cup ({f} \X ({e.add, e.label} \ {None}))
      BY <2>4, <3>1, <3>2 DEF EditWrite, review, Vouched
    <3>7. {e.add, e.label} \ {None} \subseteq Value
      BY DEF Edit
    <3>8. Vouched \subseteq Vouched' /\ Vouched' \subseteq Field \X Value
      BY <3>6, <3>7 DEF ReviewInv
    <3>9. {f} \X ToSet(new) \subseteq Vouched'
      BY <1>3, <3>5, <3>6 DEF Backed
    <3>10. PICK kept : kept = [g \in Field |-> new]
      OBVIOUS
    <3>11. profile' = Written({f}, kept)
      BY <2>4, <3>1, <3>2, <3>4, <3>10 DEF EditWrite
    <3>12. \A g \in Field : g \in {f} => /\ kept[g] \in Short(Value, Cap(g))
                                        /\ {g} \X ToSet(kept[g]) \subseteq Vouched'
      BY <3>5, <3>9, <3>10
    <3> QED
      BY <3>8, <3>11, <3>12, KeptMoves
  <2> QED
    BY <2>1, <2>2, <2>3, <2>4
<1> QED
  BY <1>1, <1>5, Stops

LEMMA AloneTyped == ASSUME ReviewInv, UNCHANGED <<job, proc>>, ProfileMoves PROVE ReviewInv'
<1>1. \A r \in Request : Backed(proc[r].seen.kept, Vouched')
  BY BackedGrows DEF ReviewInv, ProfileMoves
<1> QED
  BY <1>1 DEF ReviewInv, ProfileMoves, JobsGood, Tracked

LEMMA FormTyped ==
    ASSUME ReviewInv, NEW r \in Request,
           \/ \E f \in Field : \E list \in SeqOf(Value, Cap(f)) : PutProfile(r, f, list)
           \/ \E notes \in SeqOf(Value, NoteCap), facts \in SeqOf(Value, FactCap) :
                 CreateProfile(r, notes, facts)
           \/ DeleteProfile(r)
    PROVE  ReviewInv'
<1>1. UNCHANGED <<job, proc>>
  BY DEF PutProfile, CreateProfile, DeleteProfile, ghosts
<1>2. ASSUME NEW f \in Field, NEW list \in SeqOf(Value, Cap(f)), PutProfile(r, f, list)
      PROVE  ProfileMoves
  <2>1. list \in Seq(Value)
    BY CapIs DEF SeqOf
  <2>2. PICK kept : kept = [g \in Field |-> list]
    OBVIOUS
  <2>3. profile' = Written({f}, kept)
    <3>1. profile' = [profile EXCEPT !.kept[f] = list] /\ profile.live
      BY <1>2 DEF PutProfile
    <3>2. profile.kept = [g \in Field |-> profile.kept[g]]
      BY DEF ReviewInv, GoodProfile, Profile
    <3>3. [profile.kept EXCEPT ![f] = list] =
            [g \in Field |-> IF g \in {f} THEN kept[g] ELSE profile.kept[g]]
      BY <2>2, <3>2
    <3> QED
      BY <3>1, <3>3 DEF Written
  <2>4. Vouched' = Vouched \cup ({f} \X ToSet(list)) /\ Len(list) <= Cap(f)
    BY <1>2 DEF PutProfile, review, Vouched
  <2>5. ToSet(list) \subseteq Value
    BY <2>1 DEF ToSet
  <2>6. Vouched \subseteq Vouched' /\ Vouched' \subseteq Field \X Value
    BY <2>4, <2>5 DEF ReviewInv
  <2>7. \A g \in Field : g \in {f} => /\ kept[g] \in Short(Value, Cap(g))
                                     /\ {g} \X ToSet(kept[g]) \subseteq Vouched'
    BY <2>1, <2>2, <2>4 DEF Short
  <2> QED
    BY <2>3, <2>6, <2>7, KeptMoves
<1>3. ASSUME NEW notes \in SeqOf(Value, NoteCap), NEW facts \in SeqOf(Value, FactCap),
             CreateProfile(r, notes, facts)
      PROVE  ProfileMoves
  <2>1. notes \in Seq(Value) /\ facts \in Seq(Value)
    BY CapAssumption DEF SeqOf
  <2>2. PICK kept : kept = [f \in Field |-> IF f = "style_note" THEN notes ELSE facts]
    OBVIOUS
  <2>3. PICK names : names = UNION {{f} \X ToSet(kept[f]) : f \in Field}
    OBVIOUS
  <2>4. /\ \A f \in Field : Len(kept[f]) <= Cap(f)
        /\ profile' = [Empty EXCEPT !.kept = kept]
        /\ Vouched' = Vouched \cup names
    BY <1>3, <2>2, <2>3 DEF CreateProfile, review, Vouched
  <2>5. \A f \in Field : kept[f] \in Seq(Value) /\ ToSet(kept[f]) \subseteq Value
    BY <2>1, <2>2 DEF ToSet
  <2>6. Vouched \subseteq Vouched' /\ Vouched' \subseteq Field \X Value
    BY <2>3, <2>4, <2>5 DEF ReviewInv
  <2>7. Backed(kept, Vouched')
    BY <2>3, <2>4 DEF Backed
  <2>8. kept = [f \in Field |-> kept[f]] /\ \A f \in Field : kept[f] \in Short(Value, Cap(f))
    BY <2>2, <2>4, <2>5 DEF Short
  <2>9. GoodProfile(profile') /\ profile'.kept = kept
    BY <2>4, <2>8, IdleTyped, KeptSet
  <2> QED
    BY <2>6, <2>7, <2>9 DEF ProfileMoves
<1>4. CASE DeleteProfile(r)
  <2>1. profile' = [Empty EXCEPT !.live = FALSE] /\ UNCHANGED Vouched
    BY <1>4 DEF DeleteProfile, ghosts, Vouched
  <2>2. GoodProfile(profile') /\ profile'.kept = Empty.kept
    BY <2>1, IdleTyped DEF GoodProfile, Profile
  <2>3. ProfileMoves
    BY <2>1, <2>2, IdleTyped DEF ProfileMoves, ReviewInv
  <2> QED
    BY <1>1, <2>3, AloneTyped
<1> QED
  BY <1>1, <1>2, <1>3, <1>4, AloneTyped

LEMMA ReviewStep == ReviewInv /\ [ProfileNext]_profileVars => ReviewInv'
<1> SUFFICES ASSUME ReviewInv, [ProfileNext]_profileVars PROVE ReviewInv'
  OBVIOUS
<1>1. ASSUME NEW r \in Request, Begin(r) PROVE ReviewInv'
  <2>1. ASSUME NEW j \in Job, NEW skip \in BOOLEAN, NEW offered \in SeqOf({"good", "bad"}, MaxFiles),
               Upload(r, j, offered, skip)
        PROVE  ReviewInv'
    <3>1. offered \in Seq({"good", "bad"})
      BY CapAssumption DEF SeqOf
    <3> QED
      BY <2>1, <3>1, UploadTyped
  <2> QED
    BY <1>1, <2>1, RetryTyped, ReviewTyped, FormTyped DEF Begin
<1>2. ASSUME NEW r \in Request, Step(r) PROVE ReviewInv'
  BY <1>2, StartTyped, FileTyped, CombineTyped, SynthesizeTyped, GiveUpTyped,
     PushTyped, OwnTyped, FinishTyped, WriteTyped DEF Step
<1>3. CASE UNCHANGED profileVars
  BY <1>3, ProfileSame, AloneTyped DEF profileVars, Vouched
<1> QED
  BY <1>1, <1>2, <1>3, FaultTyped, RestartTyped DEF ProfileNext

\* The counters, each bounded by the step that counts.
LEMMA CountStep == ReviewInv /\ CountInv /\ [ProfileNext]_profileVars => CountInv'
<1> SUFFICES ASSUME ReviewInv, CountInv, [ProfileNext]_profileVars PROVE CountInv'
  OBVIOUS
<1>1. MaxCalls \in Nat /\ MaxFaults \in Nat
  BY CapAssumption
<1>2. ASSUME NEW r \in Request, NEW op, Call(r, op)
      PROVE  calls' \in 0 .. MaxCalls /\ faults' \in 0 .. MaxFaults
  BY <1>1, <1>2 DEF Call, CountInv
<1>3. ASSUME Quiet PROVE calls' \in 0 .. MaxCalls /\ faults' \in 0 .. MaxFaults
  BY <1>3 DEF Quiet, CountInv
<1>4. ASSUME UNCHANGED <<pushes, crashed>> PROVE pushes' \in [Job -> Nat] /\ crashed' \in BOOLEAN
  BY <1>4 DEF CountInv
<1>5. ASSUME NEW r \in Request, Begin(r) PROVE CountInv'
  <2>1. UNCHANGED <<pushes, crashed>>
    BY <1>5 DEF Begin, Upload, Retry, Propose, Accept, Dismiss, BeginEdit, ReadProfile,
       PutProfile, CreateProfile, DeleteProfile, ghosts
  <2>2. \E op : Call(r, op)
    BY <1>5 DEF Begin, Upload, Retry, Propose, Accept, Dismiss, BeginEdit, ReadProfile,
       PutProfile, CreateProfile, DeleteProfile
  <2> QED
    BY <1>2, <1>4, <2>1, <2>2 DEF CountInv
<1>6. ASSUME NEW r \in Request, Step(r) PROVE CountInv'
  <2>1. Quiet
    BY <1>6 DEF Step, StartExtraction, ExtractFile, RecordFailure, AllFailed, Combine, Synthesize,
       SynthesisFails, GiveUp, Push, ReadOwn, WriteOwn, Finish, Reset, ProposeWrite,
       AcceptWrite, DismissWrite, EditWrite
  <2>2. CASE Push(r)
    <3>1. pushes' = [pushes EXCEPT ![proc[r].job] = @ + 1] /\ crashed' = crashed
      BY <2>2 DEF Push
    <3>2. proc[r].job \in Job
      BY <2>2, Mine, UnderwayIs DEF Push, At
    <3>3. pushes' \in [Job -> Nat]
      BY <3>1, <3>2 DEF CountInv
    <3> QED
      BY <1>3, <2>1, <3>1, <3>3 DEF CountInv
  <2>3. CASE ~Push(r)
    <3>1. UNCHANGED <<pushes, crashed>>
      BY <1>6, <2>3 DEF Step, StartExtraction, ExtractFile, RecordFailure, AllFailed, Combine,
         Synthesize, SynthesisFails, GiveUp, ReadOwn, WriteOwn, Finish, Reset, ProposeWrite,
         AcceptWrite, DismissWrite, EditWrite, ghosts
    <3> QED
      BY <1>3, <1>4, <2>1, <3>1 DEF CountInv
  <2> QED
    BY <2>2, <2>3
<1>7. ASSUME NEW r \in Request, NEW read \in BOOLEAN, Fault(r, read) PROVE CountInv'
  BY <1>1, <1>7 DEF Fault, CountInv, ghosts, Vouched
<1>8. CASE Restart
  BY <1>3, <1>8 DEF Restart, CountInv
<1>9. CASE UNCHANGED profileVars
  BY <1>9 DEF profileVars, CountInv
<1> QED
  BY <1>5, <1>6, <1>7, <1>8, <1>9 DEF ProfileNext

LEMMA ReviewAlways == Spec => [](ReviewInv /\ CountInv)
  BY ReviewInit, ReviewStep, CountStep, PTL DEF Spec

-----------------------------------------------------------------------------
(* What was put up for review, and what accept requests took from there.   *)

Taken(f) == {v \in Value : <<f, v>> \in applied}

\* Whatever awaits review was shown, in every reading of it; one accept
\* request applies one proposal.
Reviewed ==
    /\ Names(profile.pending) \subseteq shown
    /\ \A r \in Request : Names(proc[r].seen.pending) \subseteq shown
    /\ shown \subseteq Field \X Value

Counted ==
    /\ applied \subseteq shown
    /\ accepts \in [Field -> Nat]
    /\ \A f \in Field : IsFiniteSet(Taken(f)) /\ Cardinality(Taken(f)) <= accepts[f]

ShownInv == Reviewed /\ Counted

\* What a step does with the proposals: those awaiting review after it have
\* been shown, and no request holds a reading that nobody made.
Shows ==
    /\ shown \subseteq shown' /\ shown' \subseteq Field \X Value
    /\ Names(profile'.pending) \subseteq shown'
    /\ \A r \in Request : proc'[r].seen \in {proc[r].seen, Empty, profile}

LEMMA NoNames == Names(<<>>) = {} /\ Empty.pending = <<>> /\ Idle.seen = Empty
  BY DEF Names, ToSet, Empty, Idle

LEMMA NotOfNames ==
    ASSUME NEW ps \in Seq(Proposal), NEW f PROVE Names(NotOf(f, ps)) \subseteq Names(ps)
<1>1. ToSet(NotOf(f, ps)) \subseteq ToSet(ps)
  BY ThoseFound DEF NotOf
<1> QED
  BY <1>1 DEF Names

\* One request moves: its reading stays, is dropped, or is of now.
LEMMA SeenMoves ==
    ASSUME ReviewInv, NEW r \in Request, NEW l, proc' = [proc EXCEPT ![r] = l],
           l.seen \in {proc[r].seen, Empty, profile}
    PROVE  \A q \in Request : proc'[q].seen \in {proc[q].seen, Empty, profile}
  BY DEF ReviewInv

LEMMA SeenEnds ==
    ASSUME ReviewInv, NEW r \in Request, End(r)
    PROVE  \A q \in Request : proc'[q].seen \in {proc[q].seen, Empty, profile}
  BY NoNames, SeenMoves DEF End

LEMMA SeenGoes ==
    ASSUME ReviewInv, NEW r \in Request, NEW pc, Go(r, pc)
    PROVE  \A q \in Request : proc'[q].seen \in {proc[q].seen, Empty, profile}
<1>1. IsLocals(proc[r])
  BY DEF ReviewInv, Typed
<1>2. [proc[r] EXCEPT !.pc = pc].seen = proc[r].seen
  BY <1>1 DEF IsLocals
<1>3. proc' = [proc EXCEPT ![r] = [proc[r] EXCEPT !.pc = pc]]
  BY DEF Go
<1> QED
  BY <1>2, <1>3, SeenMoves

LEMMA SeenFetched ==
    ASSUME ReviewInv, NEW r \in Request, NEW op, NEW pc, NEW fields, IsLocals(fields),
           ReadProfile(r, op, pc, fields)
    PROVE  \A q \in Request : proc'[q].seen \in {proc[q].seen, Empty, profile}
<1>1. proc' = [proc EXCEPT ![r] = [fields EXCEPT !.pc = pc, !.seen = profile]]
  BY DEF ReadProfile
<1>2. [fields EXCEPT !.pc = pc, !.seen = profile].seen = profile
  BY DEF IsLocals
<1> QED
  BY <1>1, <1>2, SeenMoves

LEMMA SeenBegins ==
    ASSUME ReviewInv, NEW r \in Request, Begin(r)
    PROVE  \A q \in Request : proc'[q].seen \in {proc[q].seen, Empty, profile}
<1>1. IsLocals(proc[r])
  BY DEF ReviewInv, Typed
<1>2. ASSUME NEW f, NEW ps, NEW e
      PROVE  /\ IsLocals([Idle EXCEPT !.props = ps, !.field = f])
             /\ IsLocals([Idle EXCEPT !.field = f]) /\ IsLocals([Idle EXCEPT !.edit = e])
  <2>1. PICK l : l = [Idle EXCEPT !.props = ps] /\ IsLocals(l)
    BY IdleLocals, LocalsProps
  <2>2. [l EXCEPT !.field = f] = [Idle EXCEPT !.props = ps, !.field = f]
    BY <2>1
  <2> QED
    BY <2>1, <2>2, IdleLocals, LocalsField, LocalsEdit
<1>3. ASSUME NEW j, NEW pc,
             proc' = [proc EXCEPT ![r] = [proc[r] EXCEPT !.pc = pc, !.job = j]]
      PROVE  \A q \in Request : proc'[q].seen \in {proc[q].seen, Empty, profile}
  <2>1. [proc[r] EXCEPT !.pc = pc, !.job = j].seen = proc[r].seen
    BY <1>1 DEF IsLocals
  <2> QED
    BY <1>3, <2>1, SeenMoves
<1>4. ASSUME NEW j, NEW skip, NEW offered, Upload(r, j, offered, skip)
      PROVE  \A q \in Request : proc'[q].seen \in {proc[q].seen, Empty, profile}
  <2>1. proc' = [proc EXCEPT ![r] = [proc[r] EXCEPT !.pc = "queued", !.job = j]]
    BY <1>4 DEF Upload
  <2> QED
    BY <1>3, <2>1
<1>5. ASSUME NEW j, Retry(r, j)
      PROVE  \A q \in Request : proc'[q].seen \in {proc[q].seen, Empty, profile}
  <2>1. proc' = [proc EXCEPT ![r] = [proc[r] EXCEPT !.pc = "reset", !.job = j]]
    BY <1>5 DEF Retry
  <2> QED
    BY <1>3, <2>1
<1>6. CASE UNCHANGED proc
  BY <1>6
<1>7. ASSUME NEW op, NEW pc, NEW fields, IsLocals(fields), ReadProfile(r, op, pc, fields)
      PROVE  \A q \in Request : proc'[q].seen \in {proc[q].seen, Empty, profile}
  BY <1>7, SeenFetched
<1>8. \/ UNCHANGED proc
      \/ \E j, skip, offered : Upload(r, j, offered, skip)
      \/ \E j : Retry(r, j)
      \/ \E op, pc, fields : IsLocals(fields) /\ ReadProfile(r, op, pc, fields)
  BY <1>2 DEF Begin, Propose, Accept, Dismiss, BeginEdit, PutProfile,
     CreateProfile, DeleteProfile
<1> QED
  BY <1>4, <1>5, <1>6, <1>7, <1>8

LEMMA SeenSteps ==
    ASSUME ReviewInv, NEW r \in Request, Step(r)
    PROVE  \A q \in Request : proc'[q].seen \in {proc[q].seen, Empty, profile}
<1>1. IsLocals(proc[r])
  BY DEF ReviewInv, Typed
<1>2. ASSUME NEW l, proc' = [proc EXCEPT ![r] = l], l.seen \in {proc[r].seen, Empty, profile}
      PROVE  \A q \in Request : proc'[q].seen \in {proc[q].seen, Empty, profile}
  BY <1>2, SeenMoves
<1>3. CASE StartExtraction(r)
  <2>1. proc' = [proc EXCEPT ![r] = [proc[r] EXCEPT !.pc = "file", !.file = 1]]
    BY <1>3 DEF StartExtraction
  <2>2. [proc[r] EXCEPT !.pc = "file", !.file = 1].seen = proc[r].seen
    BY <1>1 DEF IsLocals
  <2> QED
    BY <1>2, <2>1, <2>2
<1>4. PICK next : next = NextFile(r)
  OBVIOUS
<1>5. CASE (\E ok \in BOOLEAN : ExtractFile(r, ok)) \/ RecordFailure(r)
  <2>0. IsLocals(next) /\ next.seen = proc[r].seen
    <3>1. PICK pc, i : next = [proc[r] EXCEPT !.pc = pc, !.file = i]
      BY <1>4 DEF NextFile
    <3>2. PICK l : l = proc[r]
      OBVIOUS
    <3>3. next = [pc |-> pc, job |-> l.job, field |-> l.field, file |-> i, texts |-> l.texts,
                  props |-> l.props, seen |-> l.seen, edit |-> l.edit]
      BY <1>1, <3>1, <3>2 DEF IsLocals
    <3> QED
      BY <3>2, <3>3 DEF IsLocals
  <2>1. PICK l : l = [next EXCEPT !.texts = @ \cup {proc[r].file}] /\ l.seen = proc[r].seen
    <3>1. [next EXCEPT !.texts = @ \cup {proc[r].file}].seen = next.seen
      BY <2>0 DEF IsLocals
    <3> QED
      BY <2>0, <3>1
  <2>2. proc' = [proc EXCEPT ![r] = l] \/ proc' = [proc EXCEPT ![r] = next]
    BY <1>4, <1>5, <2>1 DEF ExtractFile, RecordFailure
  <2> QED
    BY <1>2, <2>0, <2>1, <2>2
<1>6. CASE \E drawn \in Answers : Synthesize(r, drawn)
  <2>1. PICK ps, pc : proc' = [proc EXCEPT ![r] = [proc[r] EXCEPT !.props = ps, !.pc = pc]]
    BY <1>6 DEF Synthesize
  <2>2. [proc[r] EXCEPT !.props = ps, !.pc = pc].seen = proc[r].seen
    BY <1>1 DEF IsLocals
  <2> QED
    BY <1>2, <2>1, <2>2
<1>7. CASE ReadOwn(r)
  <2>1. PICK pc : proc' = [proc EXCEPT ![r] = [proc[r] EXCEPT !.pc = pc, !.seen = profile]]
    BY <1>7 DEF ReadOwn
  <2>2. [proc[r] EXCEPT !.pc = pc, !.seen = profile].seen = profile
    BY <1>1 DEF IsLocals
  <2> QED
    BY <1>2, <2>1, <2>2
<1>8. CASE WriteOwn(r)
  <2>1. proc' = [proc EXCEPT ![r] = [proc[r] EXCEPT !.pc = "finish", !.seen = Empty]]
    BY <1>8 DEF WriteOwn
  <2>2. [proc[r] EXCEPT !.pc = "finish", !.seen = Empty].seen = Empty
    BY <1>1 DEF IsLocals
  <2> QED
    BY <1>2, <2>1, <2>2
<1>9. CASE Combine(r) \/ SynthesisFails(r) \/ Push(r) \/ Reset(r)
  BY <1>9, SeenGoes DEF Combine, SynthesisFails, Push, Reset
<1>10. CASE \/ AllFailed(r) \/ GiveUp(r) \/ Finish(r)
            \/ ProposeWrite(r) \/ AcceptWrite(r) \/ DismissWrite(r) \/ EditWrite(r)
  BY <1>10, SeenEnds DEF AllFailed, GiveUp, Finish, ProposeWrite, AcceptWrite, DismissWrite,
     EditWrite
<1> QED
  BY <1>3, <1>5, <1>6, <1>7, <1>8, <1>9, <1>10 DEF Step

LEMMA SeenFaults ==
    ASSUME ReviewInv, NEW r \in Request, NEW read \in BOOLEAN, Fault(r, read)
    PROVE  \A q \in Request : proc'[q].seen \in {proc[q].seen, Empty, profile}
<1>1. IsLocals(proc[r])
  BY DEF ReviewInv, Typed
<1>2. PICK next, texts :
         proc' = [proc EXCEPT ![r] =
                    IF next = "idle" THEN Idle
                    ELSE IF next = "refile" THEN [proc[r] EXCEPT !.pc = next, !.texts = texts]
                    ELSE [Idle EXCEPT !.pc = next, !.job = proc[r].job]]
  BY DEF Fault
<1>3. /\ [proc[r] EXCEPT !.pc = next, !.texts = texts].seen = proc[r].seen
      /\ [Idle EXCEPT !.pc = next, !.job = proc[r].job].seen = Empty
  BY <1>1 DEF IsLocals, Idle
<1> QED
  BY <1>2, <1>3, NoNames, SeenMoves

LEMMA SeenAlways ==
    ASSUME ReviewInv, [ProfileNext]_profileVars
    PROVE  \A q \in Request : proc'[q].seen \in {proc[q].seen, Empty, profile}
<1>1. CASE Restart
  BY <1>1, NoNames DEF Restart
<1>2. CASE UNCHANGED profileVars
  BY <1>2 DEF profileVars
<1> QED
  BY <1>1, <1>2, SeenBegins, SeenSteps, SeenFaults DEF ProfileNext

\* The steps that leave the queue as it is, or empty it.
LEMMA ShownStays ==
    ASSUME ReviewInv, ShownInv, [ProfileNext]_profileVars, UNCHANGED shown,
           profile'.pending \in {profile.pending, <<>>}
    PROVE  Shows
  BY SeenAlways, NoNames DEF Shows, ShownInv, Reviewed

LEMMA WrittenPending ==
    ASSUME GoodProfile(profile), NEW fields, NEW kept, profile' = Written(fields, kept)
    PROVE  profile'.pending = profile.pending
  BY DEF Written, GoodProfile, Profile

LEMMA BeginShows ==
    ASSUME ReviewInv, ShownInv, NEW r \in Request, Begin(r) PROVE Shows /\ UNCHANGED review
<1>1. [ProfileNext]_profileVars
  BY DEF ProfileNext
<1>2. GoodProfile(profile)
  BY DEF ReviewInv
<1>3. UNCHANGED review
  BY DEF Begin, Upload, Retry, Propose, Accept, Dismiss, BeginEdit, ReadProfile,
     PutProfile, CreateProfile, DeleteProfile, ghosts, review
<1>4. profile'.pending \in {profile.pending, <<>>}
  <2>1. CASE UNCHANGED profile
    BY <2>1
  <2>2. ASSUME NEW f, NEW list, PutProfile(r, f, list) PROVE profile'.pending = profile.pending
    BY <1>2, <2>2 DEF PutProfile, GoodProfile, Profile
  <2>3. CASE (\E notes, facts : CreateProfile(r, notes, facts)) \/ DeleteProfile(r)
    BY <2>3 DEF CreateProfile, DeleteProfile, Empty
  <2> QED
    BY <2>1, <2>2, <2>3 DEF Begin, Upload, Retry, Propose, Accept, Dismiss, BeginEdit,
       ReadProfile
<1> QED
  BY <1>1, <1>3, <1>4, ShownStays DEF review

LEMMA StepShows ==
    ASSUME ReviewInv, ShownInv, NEW r \in Request, Step(r) PROVE Shows
<1>1. [ProfileNext]_profileVars
  BY DEF ProfileNext
<1>2. GoodProfile(profile) /\ GoodProfile(profile')
  BY <1>1, ReviewStep DEF ReviewInv
<1>3. profile'.pending \in Seq(Proposal)
  BY <1>2 DEF GoodProfile, Profile
<1>4. CASE Push(r) \/ ProposeWrite(r)
  <2>1. shown' = shown \cup Names(profile'.pending)
    BY <1>4 DEF Push, ProposeWrite, Show
  <2>2. Names(profile'.pending) \subseteq Field \X Value
    BY <1>3, NamesIn
  <2> QED
    BY <1>1, <2>1, <2>2, SeenAlways DEF Shows, ShownInv, Reviewed
<1>5. CASE Finish(r)
  <2>1. profile' = profile /\ shown' = shown \cup Names(proc[r].props)
    BY <1>5 DEF Finish, Show
  <2>2. Names(proc[r].props) \subseteq Field \X Value
    BY Mine, NamesIn DEF Typed
  <2> QED
    BY <1>1, <2>1, <2>2, SeenAlways DEF Shows, ShownInv, Reviewed
<1>6. CASE AcceptWrite(r) \/ DismissWrite(r)
  <2>1. PICK ps \in Seq(Proposal) : ps = proc[r].seen.pending
    BY Mine DEF Typed, GoodProfile, Profile
  <2>f. PICK f : f = proc[r].field
    OBVIOUS
  <2>2. shown' = shown
    BY <1>6 DEF AcceptWrite, DismissWrite, ghosts
  <2>3. profile'.pending = profile.pending \/ profile'.pending = NotOf(f, ps)
    <3>1. CASE DismissWrite(r)
      BY <1>2, <2>1, <2>f, <3>1 DEF DismissWrite, SetPending, GoodProfile, Profile
    <3>2. CASE AcceptWrite(r)
      BY <1>2, <2>1, <2>f, <3>2 DEF AcceptWrite, GoodProfile, Profile
    <3> QED
      BY <1>6, <3>1, <3>2
  <2>4. Names(NotOf(f, ps)) \subseteq shown
    BY <2>1, NotOfNames DEF ShownInv, Reviewed
  <2> QED
    BY <1>1, <2>2, <2>3, <2>4, SeenAlways DEF Shows, ShownInv, Reviewed
<1>7. CASE WriteOwn(r) \/ EditWrite(r)
  <2>1. PICK fields, kept : profile' = Written(fields, kept)
    BY <1>7 DEF WriteOwn, EditWrite
  <2>2. UNCHANGED shown
    BY <1>7 DEF WriteOwn, EditWrite, review
  <2> QED
    BY <1>1, <1>2, <2>1, <2>2, WrittenPending, ShownStays
<1>8. CASE UNCHANGED <<profile, ghosts>>
  BY <1>1, <1>8, ShownStays DEF ghosts
<1> QED
  BY <1>4, <1>5, <1>6, <1>7, <1>8 DEF Step, StartExtraction, ExtractFile, RecordFailure,
     AllFailed, Combine, Synthesize, SynthesisFails, GiveUp, ReadOwn, Reset

\* One proposal at most, shown before, and one more request.
LEMMA CountMoves ==
    ASSUME ReviewInv, ShownInv, Shows, NEW f \in Field, NEW v \in Value, <<f, v>> \in shown,
           applied' = applied \cup {<<f, v>>}, accepts' = [accepts EXCEPT ![f] = @ + 1]
    PROVE  Counted'
<1>1. applied' \subseteq shown' /\ accepts' \in [Field -> Nat]
  BY DEF Shows, ShownInv, Counted
<1>2. ASSUME NEW g \in Field
      PROVE  IsFiniteSet(Taken(g)') /\ Cardinality(Taken(g)') <= accepts'[g]
  <2>1. IsFiniteSet(Taken(g)) /\ Cardinality(Taken(g)) <= accepts[g] /\ accepts[g] \in Nat
    BY DEF ShownInv, Counted
  <2>2. Cardinality(Taken(g)) \in Nat
    BY <2>1, FS_CardinalityType
  <2>3. CASE g = f
    <3>1. Taken(g)' = Taken(g) \cup {v}
      BY <2>3 DEF Taken
    <3>2. accepts'[g] = accepts[g] + 1
      BY <2>3 DEF ShownInv, Counted
    <3>3. /\ IsFiniteSet(Taken(g) \cup {v})
          /\ Cardinality(Taken(g) \cup {v}) = IF v \in Taken(g) THEN Cardinality(Taken(g))
                                              ELSE Cardinality(Taken(g)) + 1
      BY <2>1, FS_AddElement
    <3> QED
      BY <2>1, <2>2, <3>1, <3>2, <3>3
  <2>4. CASE g # f
    <3>1. Taken(g)' = Taken(g)
      BY <2>4 DEF Taken
    <3>2. accepts'[g] = accepts[g]
      BY <2>4 DEF ShownInv, Counted
    <3> QED
      BY <2>1, <3>1, <3>2
  <2> QED
    BY <2>3, <2>4
<1> QED
  BY <1>1, <1>2 DEF Counted

LEMMA CountStays ==
    ASSUME ShownInv, Shows, UNCHANGED <<applied, accepts>> PROVE Counted'
<1>1. \A f \in Field : Taken(f)' = Taken(f)
  BY DEF Taken
<1> QED
  BY <1>1 DEF Counted, ShownInv, Shows

LEMMA AcceptCounts ==
    ASSUME ReviewInv, ShownInv, Shows, NEW r \in Request, AcceptWrite(r) PROVE Counted'
<1>1. PICK f \in Field, ps \in Seq(Proposal) :
         f = proc[r].field /\ ps = proc[r].seen.pending /\ Of(f, ps) # <<>>
  BY Mine DEF Typed, GoodProfile, Profile, AcceptWrite, At
<1>2. PICK first : first = Head(Of(f, ps))
  OBVIOUS
<1>3. first \in Proposal /\ first \in ToSet(ps) /\ first.field = f
  <2>1. Head(Of(f, ps)) \in ToSet(Of(f, ps))
    BY <1>1, OfIs, EndsIn
  <2>2. ToSet(ps) \subseteq Proposal
    BY DEF ToSet
  <2> QED
    BY <1>2, <2>1, <2>2, OfIs
<1>4. <<f, first.value>> \in shown
  <2>1. <<first.field, first.value>> \in Names(ps)
    BY <1>3 DEF Names
  <2>2. Names(ps) \subseteq shown
    BY <1>1 DEF ShownInv, Reviewed
  <2> QED
    BY <1>3, <2>1, <2>2
<1>5. /\ applied' = applied \cup {<<f, first.value>>}
      /\ accepts' = [accepts EXCEPT ![f] = @ + 1]
  BY <1>1, <1>2 DEF AcceptWrite
<1>6. first.value \in Value
  BY <1>3 DEF Proposal
<1> QED
  BY <1>4, <1>5, <1>6, CountMoves

LEMMA ShownStep == ReviewInv /\ ShownInv /\ [ProfileNext]_profileVars => ShownInv'
<1> SUFFICES ASSUME ReviewInv, ShownInv, [ProfileNext]_profileVars PROVE ShownInv'
  OBVIOUS
<1>1. ASSUME Shows PROVE Reviewed'
  BY <1>1, NoNames DEF Shows, ShownInv, Reviewed
<1>2. ASSUME NEW r \in Request, Begin(r) PROVE ShownInv'
  BY <1>1, <1>2, BeginShows, CountStays DEF ShownInv, review
<1>3. ASSUME NEW r \in Request, Step(r) PROVE ShownInv'
  <2>1. Shows
    BY <1>3, StepShows
  <2>2. CASE AcceptWrite(r)
    BY <1>1, <2>1, <2>2, AcceptCounts DEF ShownInv
  <2>3. CASE ~AcceptWrite(r)
    <3>1. UNCHANGED <<applied, accepts>>
      BY <1>3, <2>3 DEF Step, StartExtraction, ExtractFile, RecordFailure, AllFailed, Combine,
         Synthesize, SynthesisFails, GiveUp, Push, ReadOwn, WriteOwn, Finish, Reset,
         ProposeWrite, DismissWrite, EditWrite, ghosts, review
    <3> QED
      BY <1>1, <2>1, <3>1, CountStays DEF ShownInv
  <2> QED
    BY <2>2, <2>3
<1>4. CASE UNCHANGED <<profile, ghosts>>
  <2>1. Shows
    BY <1>4, ShownStays DEF ghosts
  <2> QED
    BY <1>1, <1>4, <2>1, CountStays DEF ShownInv, ghosts
<1>5. ASSUME NEW r \in Request, NEW read \in BOOLEAN, Fault(r, read) PROVE ShownInv'
  BY <1>4, <1>5 DEF Fault
<1>6. CASE Restart
  <2>1. Shows
    BY <1>6, ShownStays DEF Restart, review
  <2> QED
    BY <1>1, <1>6, <2>1, CountStays DEF ShownInv, Restart, review
<1>7. CASE UNCHANGED profileVars
  BY <1>4, <1>7 DEF profileVars, ghosts
<1> QED
  BY <1>2, <1>3, <1>5, <1>6, <1>7 DEF ProfileNext

LEMMA ShownInit == Init => ShownInv
<1> SUFFICES ASSUME Init PROVE ShownInv
  OBVIOUS
<1>1. Reviewed
  BY NoNames DEF Init, Reviewed
<1>2. \A f \in Field : Taken(f) = {}
  BY DEF Init, Taken
<1>3. Counted
  BY <1>2, FS_EmptySet DEF Init, Counted
<1> QED
  BY <1>1, <1>3 DEF ShownInv

LEMMA ShownAlways == Spec => []ShownInv
  BY ReviewAlways, ShownInit, ShownStep, PTL DEF Spec

\* Whatever the LLM answers and however the readings and the writings of
\* reviews, edits, uploads and the form interleave, the lists of the profile
\* keep their caps and every document its type (profile.py, memory_editor.py,
\* document_pipeline.py).
THEOREM CapsKept == Spec => []TypeOK
<1>1. ASSUME ReviewInv, CountInv, ShownInv PROVE TypeOK
  <2>1. /\ profile \in Profile /\ Capped(profile.kept) /\ job \in [Job -> JobDoc]
        /\ granted \cup applied \subseteq Field \X Value
    BY <1>1 DEF ReviewInv, GoodProfile, JobsGood, Vouched
  <2>2. shown \subseteq Field \X Value /\ accepts \in [Field -> Nat]
    BY <1>1 DEF ShownInv, Reviewed, Counted
  <2>3. /\ Len(profile.kept["style_note"]) <= NoteCap
        /\ Len(profile.kept["situation"]) <= FactCap
    BY <2>1 DEF Capped, Cap, Field
  <2> QED
    BY <1>1, <2>1, <2>2, <2>3 DEF CountInv, Profile, TypeOK
<1> QED
  BY <1>1, ReviewAlways, ShownAlways, PTL

\* What the user did not type or let in unseen gets into the profile by way of
\* the review only, and at most one entry for each accept carried out, in
\* every interleaving of reviews, edits, uploads and the form, although lists
\* are written back from readings that may be out of date.  It does not say
\* that the entry is the one clicked (accept_pending_change and the others).
THEOREM NothingAutoApplied == Spec => []NeverAutoApplied
<1>1. ASSUME ReviewInv, ShownInv, NEW f \in Field
      PROVE  {f} \X Unasked(f) \subseteq shown /\ Cardinality(Unasked(f)) <= accepts[f]
  <2>1. Unasked(f) \subseteq Taken(f)
    <3>1. ToSet(profile.kept[f]) \subseteq Value
      BY <1>1 DEF ReviewInv, GoodProfile, Profile, ToSet
    <3>2. {f} \X ToSet(profile.kept[f]) \subseteq granted \cup applied
      BY <1>1 DEF ReviewInv, Backed, Vouched
    <3> QED
      BY <3>1, <3>2 DEF Unasked, Taken
  <2>2. IsFiniteSet(Taken(f)) /\ Cardinality(Taken(f)) <= accepts[f] /\ accepts[f] \in Nat
    BY <1>1 DEF ShownInv, Counted
  <2>3. IsFiniteSet(Unasked(f)) /\ Cardinality(Unasked(f)) <= Cardinality(Taken(f))
    BY <2>1, <2>2, FS_Subset
  <2>4. Cardinality(Unasked(f)) \in Nat /\ Cardinality(Taken(f)) \in Nat
    BY <2>2, <2>3, FS_CardinalityType
  <2>5. {f} \X Taken(f) \subseteq shown
    BY <1>1 DEF ShownInv, Counted, Taken
  <2> QED
    BY <2>1, <2>2, <2>3, <2>4, <2>5
<1>2. ReviewInv /\ ShownInv => NeverAutoApplied
  BY <1>1 DEF NeverAutoApplied
<1> QED
  BY <1>2, ReviewAlways, ShownAlways, PTL

-----------------------------------------------------------------------------
(* What a resumed request writes.                                          *)

Others(r) == \A q \in Request \ {r} : proc'[q] = proc[q]

LEMMA OthersStay ==
    ASSUME proc = [q \in Request |-> proc[q]], NEW r \in Request, NEW l,
           proc' = [proc EXCEPT ![r] = l]
    PROVE  Others(r)
  BY DEF Others

\* A step is of one request.
LEMMA StepOthers ==
    ASSUME ReviewInv, NEW r \in Request, Step(r) PROVE Others(r)
<1>0. proc = [q \in Request |-> proc[q]]
  BY DEF ReviewInv
<1>1. CASE StartExtraction(r)
  <2>1. \E l : proc' = [proc EXCEPT ![r] = l]
    BY <1>0, <1>1 DEF StartExtraction
  <2> QED
    BY <1>0, <2>1, OthersStay
<1>2. ASSUME NEW ok \in BOOLEAN, ExtractFile(r, ok) PROVE Others(r)
  BY <1>0, <1>2, OthersStay DEF ExtractFile
<1>3. CASE RecordFailure(r)
  BY <1>0, <1>3, OthersStay DEF RecordFailure
<1>4. ASSUME NEW pc, Go(r, pc) PROVE Others(r)
  <2>1. \E l : proc' = [proc EXCEPT ![r] = l]
    BY <1>4 DEF Go
  <2> QED
    BY <1>0, <2>1, OthersStay
<1>5. CASE End(r)
  BY <1>0, <1>5, OthersStay DEF End
<1>6. ASSUME NEW drawn \in Answers, Synthesize(r, drawn) PROVE Others(r)
  <2>1. PICK ps, pc : proc' = [proc EXCEPT ![r].props = ps, ![r].pc = pc]
    BY <1>6 DEF Synthesize
  <2>2. \E l : proc' = [proc EXCEPT ![r] = l]
    BY <1>0, <2>1
  <2> QED
    BY <1>0, <2>2, OthersStay
<1>7. CASE ReadOwn(r) \/ WriteOwn(r)
  <2>1. PICK p, pc : proc' = [proc EXCEPT ![r].pc = pc, ![r].seen = p]
    BY <1>7 DEF ReadOwn, WriteOwn
  <2>2. \E l : proc' = [proc EXCEPT ![r] = l]
    BY <1>0, <2>1
  <2> QED
    BY <1>0, <2>2, OthersStay
<1> QED
  BY <1>1, <1>2, <1>3, <1>4, <1>5, <1>6, <1>7 DEF Step, AllFailed, Combine, SynthesisFails,
     GiveUp, Push, Finish, Reset, ProposeWrite, AcceptWrite, DismissWrite, EditWrite

LEMMA BeginOthers ==
    ASSUME ReviewInv, NEW r \in Request, Begin(r) PROVE Others(r) /\ At(r, "idle")
<1>0. proc = [q \in Request |-> proc[q]]
  BY DEF ReviewInv
<1>1. ASSUME NEW op, NEW pc, NEW fields, ReadProfile(r, op, pc, fields) PROVE Others(r) /\ At(r, "idle")
  BY <1>0, <1>1, OthersStay DEF ReadProfile, Call
<1>2. ASSUME NEW j \in Job, NEW skip \in BOOLEAN, NEW offered, Upload(r, j, offered, skip)
      PROVE  Others(r) /\ At(r, "idle")
  <2>1. \E l : proc' = [proc EXCEPT ![r] = l]
    BY <1>0, <1>2 DEF Upload
  <2> QED
    BY <1>0, <1>2, <2>1, OthersStay DEF Upload, Call
<1>3. ASSUME NEW j \in Job, Retry(r, j) PROVE Others(r) /\ At(r, "idle")
  <2>1. \E l : proc' = [proc EXCEPT ![r] = l]
    BY <1>0, <1>3 DEF Retry
  <2> QED
    BY <1>0, <1>3, <2>1, OthersStay DEF Retry, Call
<1>4. ASSUME \/ (\E f, list : PutProfile(r, f, list)) \/ DeleteProfile(r)
             \/ \E notes, facts : CreateProfile(r, notes, facts)
      PROVE  Others(r) /\ At(r, "idle")
  BY <1>4 DEF PutProfile, CreateProfile, DeleteProfile, Call, Others
<1> QED
  BY <1>1, <1>2, <1>3, <1>4 DEF Begin, Propose, Accept, Dismiss, BeginEdit

\* A request that was not idle resumes by a step of its own, or by a failure.
LEMMA Resumed ==
    ASSUME ReviewInv, [ProfileNext]_profileVars, NEW r \in Request, Resumes(r),
           proc[r].pc # "idle"
    PROVE  Step(r) \/ \E read \in BOOLEAN : Fault(r, read)
<1>1. proc'[r].pc # proc[r].pc /\ crashed' = crashed
  BY DEF Resumes
<1>2. ASSUME NEW q \in Request, NEW read \in BOOLEAN, Fault(q, read) PROVE Others(q)
  <2>1. \E l : proc' = [proc EXCEPT ![q] = l]
    BY <1>2 DEF Fault
  <2> QED
    BY <2>1, OthersStay DEF ReviewInv
<1>3. ~Restart /\ ~UNCHANGED profileVars
  BY <1>1 DEF Restart, profileVars
<1>4. PICK q \in Request : Begin(q) \/ Step(q) \/ \E read \in BOOLEAN : Fault(q, read)
  BY <1>3 DEF ProfileNext
<1>5. Others(q)
  BY <1>2, <1>4, StepOthers, BeginOthers
<1>6. q = r
  BY <1>1, <1>5 DEF Others
<1> QED
  BY <1>4, <1>6, BeginOthers DEF At

LEMMA ResumedWrites ==
    ASSUME ReviewInv, [ProfileNext]_profileVars, NEW r \in Request, Resumes(r)
    PROVE  /\ proc[r].pc = "accept" => AcceptWrite(r)
           /\ proc[r].pc = "edit" => EditWrite(r)
           /\ proc[r].pc = "writeown" => WriteOwn(r) \/ UNCHANGED profile
<1>1. {"accept", "edit"} \cap Underway = {}
  BY Zenon DEF Underway, PipelineStates
<1>2. ASSUME NEW read \in BOOLEAN, Fault(r, read) PROVE proc[r].pc \in Underway /\ UNCHANGED profile
  BY <1>2 DEF Fault, Underway
<1>3. CASE Step(r)
  BY <1>3 DEF Step, StartExtraction, ExtractFile, RecordFailure, AllFailed, Combine, Synthesize,
     SynthesisFails, GiveUp, Push, ReadOwn, Finish, Reset, ProposeWrite, AcceptWrite,
     DismissWrite, EditWrite, WriteOwn, At
<1> QED
  BY <1>1, <1>2, <1>3, Resumed

AddsOnce(r) ==
    (/\ At(r, "accept") \/ At(r, "writeown")
     /\ Resumes(r)
     /\ IsInjective(proc[r].seen.kept["situation"])
     /\ profile'.kept["situation"] # profile.kept["situation"])
    => IsInjective(profile'.kept["situation"])

LEMMA AddedOnce ==
    ASSUME ReviewInv, [ProfileNext]_profileVars, NEW r \in Request
    PROVE  AddsOnce(r)
<1> SUFFICES ASSUME At(r, "accept") \/ At(r, "writeown"), Resumes(r),
                    IsInjective(proc[r].seen.kept["situation"]),
                    profile'.kept["situation"] # profile.kept["situation"]
             PROVE  IsInjective(profile'.kept["situation"])
  BY DEF AddsOnce
<1>1. AcceptWrite(r) \/ WriteOwn(r)
  BY ResumedWrites DEF At
<1>2. PICK seen \in Kept : seen = proc[r].seen.kept /\ Capped(seen)
  BY Mine DEF Typed, GoodProfile, Profile, Kept
<1>3. profile \in Profile /\ "situation" \in Field
  BY DEF ReviewInv, GoodProfile, Field
<1>4. CASE AcceptWrite(r)
  <2>1. PICK f \in Field : f = proc[r].field
    BY Mine DEF Typed
  <2>2. PICK of \in Seq(Proposal) : of = Of(f, proc[r].seen.pending) /\ of # <<>>
    <3>1. proc[r].seen.pending \in Seq(Proposal) /\ Of(f, proc[r].seen.pending) # <<>>
      BY <1>4, <2>1, Mine DEF AcceptWrite, At, Typed, GoodProfile, Profile
    <3> QED
      BY <3>1, OfIs
  <2>3. PICK first \in Proposal : first = Head(of)
    BY <2>2, EndsIn DEF ToSet
  <2>4. PICK list : list = Add(f, seen[f], first.value)
    OBVIOUS
  <2>5. PICK rest : rest = NotOf(f, proc[r].seen.pending)
    OBVIOUS
  <2>6. profile' = IF profile.live THEN [profile EXCEPT !.kept[f] = list, !.pending = rest]
                   ELSE profile
    BY <1>2, <1>4, <2>1, <2>2, <2>3, <2>4, <2>5 DEF AcceptWrite, Accepted
  <2>7. f = "situation" /\ profile'.kept["situation"] = list
    BY <1>3, <2>6 DEF Profile, Field
  <2>8. seen[f] \in Seq(Value) /\ first.value \in Value
    BY DEF Kept, Proposal
  <2>9. f = "situation" /\ IsInjective(seen[f])
    BY <1>2, <2>7
  <2>10. IsInjective(list)
    BY <2>4, <2>8, <2>9, AddKeeps
  <2> QED
    BY <2>7, <2>10
<1>5. CASE WriteOwn(r)
  <2>1. PICK ps \in Seq(Proposal) : ps = proc[r].props
    BY Mine DEF Typed
  <2>2. PICK kept : kept = Applied(seen, ps)
    OBVIOUS
  <2>3. profile' = Written(Touched(r), kept)
    BY <1>2, <1>5, <2>1, <2>2 DEF WriteOwn
  <2>4. profile'.kept["situation"] = kept["situation"]
    BY <1>3, <2>3 DEF Written, Profile
  <2> QED
    BY <1>2, <1>3, <2>2, <2>4, AppliedKeeps
<1> QED
  BY <1>1, <1>4, <1>5

\* Accepting a proposal and applying an unreviewed upload never store a fact
\* twice, whatever the list they read has become since, and however often the
\* batch names the fact (accept_pending_change, _apply_proposals_directly).
THEOREM FactsStayDistinct == Spec => FactsDistinct
<1>1. ReviewInv /\ [ProfileNext]_profileVars => \A r \in Request : AddsOnce(r)
  BY AddedOnce
<1>2. []ReviewInv /\ [][ProfileNext]_profileVars
         => [][\A r \in Request : AddsOnce(r)]_profileVars
  BY <1>1, PTL
<1> QED
  BY <1>2, ReviewAlways, PTL DEF Spec, FactsDistinct, AddsOnce

DropsNamed(r) ==
    EditWrites(r) =>
      LET e == proc[r].edit
          old == proc[r].seen.kept[e.field]
          new == profile'.kept[e.field]
      IN /\ e.drop \cap ToSet(new) \subseteq {e.add, e.label}
         /\ Len(new) < (IF e.field = "situation" THEN FactCap ELSE NoteCap) =>
               ToSet(old) \ e.drop \subseteq ToSet(new)

LEMMA DroppedNamed ==
    ASSUME "label" \notin Ops, ReviewInv, [ProfileNext]_profileVars, NEW r \in Request
    PROVE  DropsNamed(r)
<1> SUFFICES ASSUME EditWrites(r) PROVE DropsNamed(r)
  BY DEF DropsNamed
<1>1. EditWrite(r) /\ profile.live
  BY ResumedWrites DEF EditWrites, At
<1>2. PICK e \in Edit : e = proc[r].edit /\ e.label = None
  BY Mine DEF Typed
<1>3. PICK f \in Field : f = e.field
  BY DEF Edit
<1>4. PICK seen : seen = proc[r].seen /\ seen.kept[f] \in Short(Value, Cap(f))
  BY Mine DEF Typed, GoodProfile, Profile, Capped, Short
<1>5. PICK new : new = Edited(seen, e)
  OBVIOUS
<1>6. /\ e.drop \cap ToSet(new) \subseteq {e.add}
      /\ Len(new) < Cap(f) => ToSet(seen.kept[f]) \ e.drop \subseteq ToSet(new)
  BY <1>2, <1>3, <1>4, <1>5, EditedIs
<1>7. profile'.kept[f] = new
  <2>1. PICK kept : kept = [g \in Field |-> new]
    OBVIOUS
  <2>2. profile' = Written({f}, kept)
    BY <1>1, <1>2, <1>3, <1>4, <1>5, <2>1 DEF EditWrite
  <2>3. profile \in Profile
    BY DEF ReviewInv, GoodProfile
  <2> QED
    BY <1>1, <2>1, <2>2, <2>3 DEF Written, Profile
<1>8. e.drop \cap ToSet(profile'.kept[e.field]) \subseteq {e.add, e.label}
  BY <1>3, <1>6, <1>7
<1>9. Len(profile'.kept[e.field]) < (IF e.field = "situation" THEN FactCap ELSE NoteCap) =>
         ToSet(seen.kept[e.field]) \ e.drop \subseteq ToSet(profile'.kept[e.field])
  <2>1. Cap(f) = IF e.field = "situation" THEN FactCap ELSE NoteCap
    BY <1>3 DEF Cap, Field
  <2> QED
    BY <1>3, <1>6, <1>7, <2>1
<1> QED
  BY <1>2, <1>4, <1>8, <1>9 DEF DropsNamed

\* An instruction without a label leaves exactly the entries it does not name,
\* as far as the cap allows, of the list the LLM was shown
\* (apply_memory_edit).  With a label the positions address another list, and
\* what is dropped is not what was named.
THEOREM OnlyNamedAreDropped == "label" \notin Ops /\ Spec => EditDropsNamed
<1>1. ASSUME "label" \notin Ops PROVE Spec => EditDropsNamed
  <2>1. ReviewInv /\ [ProfileNext]_profileVars => \A r \in Request : DropsNamed(r)
    BY <1>1, DroppedNamed
  <2>2. []ReviewInv /\ [][ProfileNext]_profileVars
           => [][\A r \in Request : DropsNamed(r)]_profileVars
    BY <2>1, PTL
  <2> QED
    BY <2>2, ReviewAlways, PTL DEF Spec, EditDropsNamed, DropsNamed
<1> QED
  BY <1>1

-----------------------------------------------------------------------------
(* The user's answers kept in a topic's scope.                             *)

\* The entries of the scope, and of what was read of it, are lists.
IsScope(s) == /\ s = [known |-> s.known, stamp |-> s.stamp, entries |-> s.entries]
              /\ DOMAIN s.entries \subseteq Nat
ViewInv == /\ IsScope(scope) /\ view = [r \in Request |-> view[r]]
           /\ \A r \in Request : IsScope(view[r])

LEMMA UnscopedIs == IsScope(Unscoped)
<1>1. DOMAIN <<>> \subseteq Nat
  OBVIOUS
<1> QED
  BY <1>1 DEF IsScope, Unscoped

LEMMA CacheTyped ==
    ASSUME ReviewInv, NEW r \in Request,
           \/ GetQuality(r) \/ GetTopic(r) \/ CacheStep(r)
           \/ \E v \in Value : Resolve(r, v)
    PROVE  ReviewInv'
<1>1. {"judged", "topicread", "scoped", "resolve"} \cap Underway = {}
  BY Zenon DEF Underway, PipelineStates
<1>2. CASE GetQuality(r)
  <2>1. ReadProfile(r, "quality", "judged", Idle)
    BY <1>2 DEF GetQuality
  <2> QED
    BY <1>1, <2>1, IdleTyped, ReadTyped
<1>3. ASSUME NEW op, NEW l, ReadTopic(r, op, l), Typed(l), l.pc \notin Underway, l.seen = Empty
      PROVE  ReviewInv'
  <2>1. JobsMove /\ ProfileMoves
    BY <1>3, JobsSame, ProfileSame DEF ReadTopic, ghosts, Vouched
  <2>2. Tracked(l, job') /\ Backed(l.seen.kept, Vouched')
    BY <1>3, IdleTyped, OwnUnderway DEF Tracked
  <2> QED
    BY <1>3, <2>1, <2>2, ReviewMoves DEF ReadTopic
<1>4. CASE GetTopic(r)
  <2>1. PICK l : l = [Idle EXCEPT !.pc = "topicread"]
    OBVIOUS
  <2>2. Typed(l) /\ l.pc = "topicread" /\ l.seen = Empty
    <3>1. Typed(l) /\ l.pc = "topicread" /\ l.seen = Idle.seen
      BY <2>1, IdleTyped, TypedPc
    <3> QED
      BY <3>1 DEF Idle
  <2>3. ReadTopic(r, "scope", l)
    BY <1>4, <2>1 DEF GetTopic
  <2> QED
    BY <1>1, <1>3, <2>2, <2>3
<1>5. ASSUME NEW v \in Value, Resolve(r, v) PROVE ReviewInv'
  <2>1. PICK l : l = [Idle EXCEPT !.pc = "resolve", !.edit.add = v]
    OBVIOUS
  <2>2. ReadTopic(r, "resolve", l)
    BY <1>5, <2>1 DEF Resolve
  <2>3. PICK e \in Edit : e = [NoEdit EXCEPT !.add = v] /\ e.label = None
    <3>1. PICK e : e = [NoEdit EXCEPT !.add = v]
      OBVIOUS
    <3>2. e = [field |-> "situation", label |-> None, drop |-> {}, add |-> v]
      BY <3>1 DEF NoEdit
    <3>3. e \in Edit /\ e.label = None
      BY <3>2 DEF Edit, Field
    <3> QED
      BY <3>1, <3>3
  <2>4. PICK m : m = [Idle EXCEPT !.edit = e]
    OBVIOUS
  <2>5. Typed(m) /\ m.seen = Empty
    <3>1. Typed(m)
      BY <2>3, <2>4, StartsTyped
    <3> QED
      BY <2>4, <3>1 DEF Idle
  <2>6. l = [m EXCEPT !.pc = "resolve"]
    <3>1. Idle.edit = NoEdit
      BY DEF Idle
    <3>2. l = [pc |-> "resolve", job |-> Idle.job, field |-> Idle.field, file |-> Idle.file,
               texts |-> Idle.texts, props |-> Idle.props, seen |-> Idle.seen,
               edit |-> [Idle.edit EXCEPT !.add = v]]
      BY <2>1 DEF Idle
    <3>3. m = [pc |-> Idle.pc, job |-> Idle.job, field |-> Idle.field, file |-> Idle.file,
               texts |-> Idle.texts, props |-> Idle.props, seen |-> Idle.seen, edit |-> e]
      BY <2>4 DEF Idle
    <3> QED
      BY <2>3, <3>1, <3>2, <3>3
  <2>7. Typed(l) /\ l.pc = "resolve" /\ l.seen = Empty
    BY <2>5, <2>6, TypedPc
  <2> QED
    BY <1>1, <1>3, <2>2, <2>7
<1>6. ASSUME UNCHANGED <<profile, job, Vouched>> PROVE JobsMove /\ ProfileMoves
  BY <1>6, JobsSame, ProfileSame
<1>7. ASSUME End(r), UNCHANGED <<profile, job, Vouched>> PROVE ReviewInv'
  BY <1>6, <1>7, Stops
<1>8. CASE EnsureScope(r)
  <2>1. JobsMove /\ ProfileMoves
    BY <1>6, <1>8 DEF EnsureScope, ghosts, Vouched
  <2>2. CASE ~Stale(r)
    <3>1. End(r)
      BY <1>8, <2>2 DEF EnsureScope, End
    <3> QED
      BY <2>1, <3>1, Stops
  <2>3. CASE Stale(r)
    <3>1. PICK l : l = Having(proc[r], "scoped", profile)
      OBVIOUS
    <3>2. proc' = [proc EXCEPT ![r] = l]
      <4>1. proc' = [proc EXCEPT ![r] = Having(proc[r], "scoped", profile)]
        BY <1>8, <2>3 DEF EnsureScope, Having
      <4> QED
        BY <3>1, <4>1
    <3>3. GoodProfile(profile) /\ Backed(profile.kept, Vouched) /\ Typed(proc[r])
      BY DEF ReviewInv
    <3>4. Typed(l) /\ l.pc = "scoped" /\ l.seen = profile
      BY <3>1, <3>3, TypedSeen
    <3>5. Tracked(l, job')
      BY <1>1, <3>4, OwnUnderway DEF Tracked
    <3>6. Backed(l.seen.kept, Vouched')
      BY <2>1, <3>3, <3>4, BackedGrows DEF ProfileMoves
    <3> QED
      BY <2>1, <3>2, <3>4, <3>5, <3>6, ReviewMoves
  <2> QED
    BY <2>2, <2>3
<1>9. CASE CacheStep(r) /\ ~EnsureScope(r)
  <2>1. End(r) /\ UNCHANGED <<profile, job, Vouched>>
    BY <1>9 DEF CacheStep, QualityWrite, JudgeFails, ScopeWrite, ResolveWrite, ghosts, Vouched
  <2> QED
    BY <1>7, <2>1
<1> QED
  BY <1>2, <1>4, <1>5, <1>8, <1>9 DEF CacheStep

\* What is written of the scope has an entry for each fact that was read.
LEMMA MergedIs ==
    ASSUME NEW old, NEW facts \in Seq(Value), NEW verdict
    PROVE  DOMAIN Merged(old, facts, verdict) \subseteq Nat
<1>1. DOMAIN facts \subseteq Nat
  OBVIOUS
<1> QED
  BY <1>1 DEF Merged

LEMMA AnswerKept ==
    ASSUME NEW old, DOMAIN old \subseteq Nat, NamesOnce(old), NEW facts, NEW verdict,
           NEW e \in ToSet(old), e.resolved, e.fact \in ToSet(facts)
    PROVE  e \in ToSet(Merged(old, facts, verdict))
<1>1. PICK k \in DOMAIN old : e = old[k]
  BY DEF ToSet
<1>2. PICK i \in DOMAIN facts : facts[i] = e.fact
  BY DEF ToSet
<1>3. AnsweredAt(old, facts[i]) = {k}
  BY <1>1, <1>2 DEF AnsweredAt, NamesOnce
<1>4. Max({k}) = k
  <2>1. k \in Nat
    BY <1>1
  <2> QED
    BY <2>1 DEF Max
<1>5. Merged(old, facts, verdict)[i] = e /\ i \in DOMAIN Merged(old, facts, verdict)
  BY <1>1, <1>2, <1>3, <1>4 DEF Merged
<1> QED
  BY <1>5 DEF ToSet

LEMMA ViewStep ==
    ASSUME ReviewInv, ViewInv, NEW r \in Request,
           \/ GetQuality(r) \/ GetTopic(r) \/ CacheStep(r)
           \/ \E v \in Value : Resolve(r, v)
    PROVE  ViewInv'
<1>1. IsScope(scope) /\ view = [q \in Request |-> view[q]] /\ \A q \in Request : IsScope(view[q])
  BY DEF ViewInv
<1>2. ASSUME NEW s, IsScope(s), view' = [view EXCEPT ![r] = s], IsScope(scope') PROVE ViewInv'
  BY <1>1, <1>2 DEF ViewInv
<1>3. CASE GetQuality(r) \/ QualityWrite(r)
  BY <1>1, <1>3 DEF GetQuality, QualityWrite, caches, ViewInv
<1>4. ASSUME NEW op, NEW l, ReadTopic(r, op, l) PROVE ViewInv'
  BY <1>1, <1>2, <1>4 DEF ReadTopic
<1>5. CASE JudgeFails(r)
  BY <1>1, <1>2, <1>5, UnscopedIs DEF JudgeFails
<1>6. CASE EnsureScope(r)
  <2>1. PICK s : s = (IF Stale(r) THEN view[r] ELSE Unscoped) /\ IsScope(s)
    BY <1>1, UnscopedIs
  <2>2. view' = [view EXCEPT ![r] = s] /\ scope' = scope
    BY <1>6, <2>1 DEF EnsureScope
  <2> QED
    BY <1>1, <1>2, <2>1, <2>2
<1>7. ASSUME NEW verdict, ScopeWrite(r, verdict) PROVE ViewInv'
  <2>1. PICK facts \in Seq(Value) : facts = Facts(proc[r].seen)
    BY Mine DEF Typed, GoodProfile, Profile, Facts, Field
  <2>2. PICK entries : entries = Merged(view[r].entries, facts, verdict) /\ DOMAIN entries \subseteq Nat
    BY MergedIs
  <2>3. scope' = [known |-> TRUE, stamp |-> facts, entries |-> entries]
    BY <1>7, <2>1, <2>2 DEF ScopeWrite
  <2>4. IsScope(scope')
    BY <2>2, <2>3 DEF IsScope
  <2> QED
    BY <1>2, <1>7, <2>4, UnscopedIs DEF ScopeWrite
<1>8. ASSUME NEW verdict, ResolveWrite(r, verdict) PROVE ViewInv'
  <2>1. PICK first, x : scope' = [scope EXCEPT !.entries = [view[r].entries EXCEPT ![first] = x]]
    BY <1>8 DEF ResolveWrite
  <2>2. PICK entries : entries = [view[r].entries EXCEPT ![first] = x]
    OBVIOUS
  <2>3. DOMAIN entries \subseteq Nat
    BY <1>1, <2>2 DEF IsScope
  <2>4. scope' = [scope EXCEPT !.entries = entries]
    BY <2>1, <2>2
  <2>5. IsScope(scope')
    BY <1>1, <2>3, <2>4 DEF IsScope
  <2> QED
    BY <1>2, <1>8, <2>5, UnscopedIs DEF ResolveWrite
<1> QED
  BY <1>3, <1>4, <1>5, <1>6, <1>7, <1>8 DEF GetTopic, Resolve, CacheStep

CacheInv == ReviewInv /\ ViewInv

LEMMA CacheStarts == CacheInit => CacheInv
<1> SUFFICES ASSUME CacheInit PROVE CacheInv
  OBVIOUS
<1> QED
  BY ReviewInit, UnscopedIs DEF CacheInit, CacheInv, ViewInv

LEMMA CacheNextKeeps == CacheInv /\ [CacheNext]_vars => CacheInv'
<1> SUFFICES ASSUME CacheInv, [CacheNext]_vars PROVE CacheInv'
  OBVIOUS
<1>1. CASE ProfileNext /\ CachesStay
  <2>1. ViewInv'
    BY <1>1 DEF CacheInv, ViewInv, CachesStay
  <2> QED
    BY <1>1, <2>1, ReviewStep DEF CacheInv
<1>2. ASSUME NEW r \in Request, \/ GetQuality(r) \/ GetTopic(r) \/ CacheStep(r)
                                \/ \E v \in Value : Resolve(r, v)
      PROVE  CacheInv'
  BY <1>2, CacheTyped, ViewStep DEF CacheInv
<1>3. CASE UNCHANGED vars
  <2>1. UNCHANGED profileVars /\ UNCHANGED <<scope, view>>
    BY <1>3 DEF vars, profileVars
  <2> QED
    BY <2>1, ReviewStep DEF CacheInv, ViewInv
<1> QED
  BY <1>1, <1>2, <1>3 DEF CacheNext

CarriesAnswers(r) ==
    At(r, "scoped") /\ Resumes(r) /\ scope' # scope /\ NamesOnce(view[r].entries) =>
        \A e \in ToSet(view[r].entries) :
            e.resolved /\ e.fact \in ToSet(Facts(proc[r].seen)) =>
                e \in ToSet(scope'.entries)

LEMMA CarriedStep ==
    ASSUME CacheInv, [CacheNext]_vars, NEW r \in Request PROVE CarriesAnswers(r)
<1> SUFFICES ASSUME At(r, "scoped"), Resumes(r), scope' # scope, NamesOnce(view[r].entries)
             PROVE  \A e \in ToSet(view[r].entries) :
                       e.resolved /\ e.fact \in ToSet(Facts(proc[r].seen)) =>
                          e \in ToSet(scope'.entries)
  BY DEF CarriesAnswers
<1>1. PICK q \in Request : \E verdict : ScopeWrite(q, verdict) \/ ResolveWrite(q, verdict)
  BY DEF CacheNext, CachesStay, GetQuality, GetTopic, Resolve, ReadTopic, CacheStep, QualityWrite,
     JudgeFails, EnsureScope, caches, vars
<1>2. End(q)
  BY <1>1 DEF ScopeWrite, ResolveWrite
<1>3. Others(q)
  BY <1>2, OthersStay DEF End, CacheInv, ReviewInv
<1>4. q = r
  BY <1>3 DEF Others, Resumes
<1>5. PICK verdict : ScopeWrite(r, verdict)
  BY <1>1, <1>4 DEF ResolveWrite, At
<1>6. scope'.entries = Merged(view[r].entries, Facts(proc[r].seen), verdict)
  BY <1>5 DEF ScopeWrite
<1>7. DOMAIN view[r].entries \subseteq Nat
  BY DEF CacheInv, ViewInv, IsScope
<1> QED
  BY <1>6, <1>7, AnswerKept

\* An answer the user had given when a recompute of the scope began is kept
\* for every fact the recompute is about, whatever is written to the profile
\* or the topic meanwhile (_merge_l1_scope).
THEOREM AnswersAreCarried == CacheSpec => AnswersCarried
<1>1. CacheInv /\ [CacheNext]_vars => \A r \in Request : CarriesAnswers(r)
  BY CarriedStep
<1>2. []CacheInv /\ [][CacheNext]_vars => [][\A r \in Request : CarriesAnswers(r)]_vars
  BY <1>1, PTL
<1> QED
  BY <1>2, CacheStarts, CacheNextKeeps, PTL DEF CacheSpec, AnswersCarried, CarriesAnswers

=============================================================================
