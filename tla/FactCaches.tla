----------------------------- MODULE FactCaches -----------------------------
(***************************************************************************)
(* The two LLM judgments kept about the facts of the profile, composed     *)
(* with everything that changes those facts: the quality of each fact,     *)
(* kept in the profile, and its relevance to a topic (l1_scope), kept in   *)
(* the topic.  Both are recomputed when the facts they are stamped with    *)
(* are no longer the profile's; a topic's also carries the user's answers. *)
(*                                                                         *)
(* unified-backend/app/services/fact_quality.py, l1_scope.py               *)
(* unified-backend/app/services/topic_service.py   the scope of a topic    *)
(* unified-backend/app/routers/profile.py          GET situations/quality  *)
(***************************************************************************)
EXTENDS ProfileReview

VARIABLES
    quality,    \* the judgments kept in the profile, and their stamp
    scope,      \* the l1_scope of one topic, and its stamp
    view        \* what each request has read of the topic

caches == <<quality, scope, view>>
vars == <<profile, job, proc, calls, faults, granted, shown, applied, accepts, pushes,
          crashed, quality, scope, view>>

Verdict == {"relevant", "irrelevant", "uncertain"}
Entry == [fact : Value, verdict : Verdict, resolved : BOOLEAN]

\* A stamp is a hash of the list of facts: the list itself.
Unjudged == [known |-> FALSE, stamp |-> <<>>, judged |-> <<>>]
Unscoped == [known |-> FALSE, stamp |-> <<>>, entries |-> <<>>]

\* extract_situations also folds in the label of the profile, in front of the
\* facts; that label is left out.
Facts(p) == p.kept["situation"]

CacheInit ==
    /\ Init
    /\ quality = Unjudged
    /\ scope = Unscoped
    /\ view = [r \in Request |-> Unscoped]

\* The quality judgments are deleted with the profile they are kept in.
CachesStay ==
    /\ quality' = IF profile'.live THEN quality ELSE Unjudged
    /\ UNCHANGED <<scope, view>>

-----------------------------------------------------------------------------
(* GET situations/quality.                                                 *)

Hit(cache, facts) == cache.known /\ cache.stamp = facts

GetQuality(r) ==
    /\ ~Hit(quality, Facts(profile))
    /\ ReadProfile(r, "quality", "judged", Idle)
    /\ UNCHANGED caches

\* Faulty: the stamp is of the facts as they are after the LLM call.
StampedLate(facts) == [known |-> TRUE, stamp |-> Facts(profile), judged |-> facts]
Stamped(facts) == [known |-> TRUE, stamp |-> facts, judged |-> facts]

QualityWrite(r) ==
    /\ At(r, "judged")
    /\ quality' = IF profile.live THEN Stamped(Facts(proc[r].seen)) ELSE quality
    /\ End(r)
    /\ UNCHANGED <<profile, job, ghosts, scope, view>> /\ Quiet

\* The LLM fails, or answers for another number of facts.
JudgeFails(r) ==
    /\ At(r, "judged") \/ At(r, "scoped")
    /\ End(r)
    /\ view' = [view EXCEPT ![r] = Unscoped]
    /\ UNCHANGED <<profile, job, ghosts, quality, scope>> /\ Quiet

-----------------------------------------------------------------------------
(* get_topic: the topic is read, then the profile, then the LLM is asked.  *)

ReadTopic(r, op, locals) ==
    /\ Call(r, op)
    /\ proc' = [proc EXCEPT ![r] = locals]
    /\ view' = [view EXCEPT ![r] = scope]
    /\ UNCHANGED <<profile, job, ghosts, quality, scope>>

GetTopic(r) == ReadTopic(r, "scope", [Idle EXCEPT !.pc = "topicread"])

Stale(r) == profile.live /\ ~Hit(view[r], Facts(profile))

EnsureScope(r) ==
    /\ At(r, "topicread")
    /\ proc' = [proc EXCEPT ![r] =
                   IF Stale(r) THEN [@ EXCEPT !.pc = "scoped", !.seen = profile]
                   ELSE Idle]
    /\ view' = [view EXCEPT ![r] = IF Stale(r) THEN @ ELSE Unscoped]
    /\ UNCHANGED <<profile, job, ghosts, quality, scope>> /\ Quiet

\* Faulty: every entry is the LLM's fresh one.
Refreshed(old, facts, verdict) ==
    [i \in DOMAIN facts |->
        [fact |-> facts[i], verdict |-> verdict[facts[i]], resolved |-> FALSE]]

\* The user's answer for a fact is kept, by its text: the last one there.
AnsweredAt(old, v) == {i \in DOMAIN old : old[i].fact = v /\ old[i].resolved}
Merged(old, facts, verdict) ==
    [i \in DOMAIN facts |->
        IF AnsweredAt(old, facts[i]) # {}
        THEN old[Max(AnsweredAt(old, facts[i]))]
        ELSE [fact |-> facts[i], verdict |-> verdict[facts[i]], resolved |-> FALSE]]

ScopeWrite(r, verdict) ==
    LET facts == Facts(proc[r].seen) IN
    /\ At(r, "scoped")
    /\ scope' = [known |-> TRUE, stamp |-> facts,
                 entries |-> Merged(view[r].entries, facts, verdict)]
    /\ End(r)
    /\ view' = [view EXCEPT ![r] = Unscoped]
    /\ UNCHANGED <<profile, job, ghosts, quality>> /\ Quiet

\* The user's answer for the first entry of a fact; the stamp stays.
Resolve(r, v) ==
    /\ \E e \in ToSet(scope.entries) : e.fact = v
    /\ ReadTopic(r, "resolve", [Idle EXCEPT !.pc = "resolve", !.edit.add = v])

ResolveWrite(r, verdict) ==
    LET v == proc[r].edit.add
        old == view[r].entries
        first == CHOOSE i \in DOMAIN old :
                     old[i].fact = v /\ \A k \in 1 .. i - 1 : old[k].fact # v
    IN
    /\ At(r, "resolve")
    /\ scope' = [scope EXCEPT !.entries =
                    [old EXCEPT ![first] = [fact |-> v, verdict |-> verdict,
                                            resolved |-> TRUE]]]
    /\ End(r)
    /\ view' = [view EXCEPT ![r] = Unscoped]
    /\ UNCHANGED <<profile, job, ghosts, quality>> /\ Quiet

-----------------------------------------------------------------------------

CacheStep(r) ==
    \/ QualityWrite(r) \/ JudgeFails(r) \/ EnsureScope(r)
    \/ \E verdict \in [Value -> {"relevant", "uncertain"}] : ScopeWrite(r, verdict)
    \/ \E verdict \in {"relevant", "irrelevant"} : ResolveWrite(r, verdict)

CacheNext ==
    \/ ProfileNext /\ CachesStay
    \/ \E r \in Request :
          \/ GetQuality(r) \/ GetTopic(r)
          \/ \E v \in Value : Resolve(r, v)
          \/ CacheStep(r)

CacheSpec == CacheInit /\ [][CacheNext]_vars

-----------------------------------------------------------------------------
(* Properties.                                                             *)

\* A judgment served without asking the LLM is about the facts the profile
\* has now, although they may have changed during the call that made it
\* (get_situations_quality: stamp and judgments come from one read).
QualityFresh ==
    Hit(quality, Facts(profile)) => quality.judged = Facts(profile)

\* A recompute keeps every answer the user had given when it began, for the
\* facts it is about, whatever happened to the profile and to the topic
\* since: the answer is found by its text (_merge_l1_scope).  A list that
\* names a fact twice is left out: the answer goes to one entry, and the
\* other one may win.
NamesOnce(entries) ==
    \A i, k \in DOMAIN entries : entries[i].fact = entries[k].fact => i = k
AnswersCarried ==
    [][\A r \in Request :
          At(r, "scoped") /\ Resumes(r) /\ scope' # scope /\ NamesOnce(view[r].entries) =>
              \A e \in ToSet(view[r].entries) :
                  e.resolved /\ e.fact \in ToSet(Facts(proc[r].seen)) =>
                      e \in ToSet(scope'.entries)]_vars

=============================================================================
