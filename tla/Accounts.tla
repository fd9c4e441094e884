------------------------------- MODULE Accounts -------------------------------
(***************************************************************************)
(* Accounts and refresh tokens of the unified backend: registration,       *)
(* login, one-time codes, OAuth, token rotation, logout and deactivation,  *)
(* interleaved between any two calls to the database.                      *)
(*                                                                         *)
(* unified-backend/app/auth/router.py, token_manager.py, otp_service.py,   *)
(*     rate_limiter.py, oauth_handler.py, admin_router.py, indexes.py      *)
(*                                                                         *)
(* A Request is a slot for one HTTP request.  The collections are shared   *)
(* by all.  Emails, passwords and codes are told apart, not spelled out.   *)
(***************************************************************************)
EXTENDS Integers, FiniteSets

CONSTANTS
    Request,        \* requests that may be under way at once
    Email,
    UserId,         \* ids that uuid4 may return
    Token,          \* refresh tokens that token_urlsafe may return
    Code,           \* one-time codes
    State,          \* OAuth states
    Provider,       \* "google" and "github"
    MaxAttempts,    \* max_attempts of a rate limiter (5)
    Ops,            \* operations and faults of this instance
    MaxCalls,       \* bound: requests started
    MaxFaults       \* bound: failing calls

ASSUME AccountsAssumption ==
    /\ MaxAttempts \in Nat \ {0} /\ MaxCalls \in Nat /\ MaxFaults \in Nat
    /\ IsFiniteSet(Request)

VARIABLES
    users,      \* the accounts
    tokens,     \* the refresh token documents
    codes,      \* the one-time codes, by email
    states,     \* the OAuth states not yet redeemed
    attempts,   \* rate_limits: attempts in the window, by email and action
    req,        \* locals of each request
    issued,     \* refresh tokens handed out so far
    rotated,    \* tokens that were exchanged for a new one
    lost,       \* tokens whose exchange was interrupted
    calls, faults

vars == <<users, tokens, codes, states, attempts, req, issued, rotated, lost, calls, faults>>
history == <<issued, rotated, lost>>

Limited == {"login", "otp_request", "otp_verify"}
NoToken == [there |-> FALSE, owner |-> "none", used |-> FALSE, expired |-> FALSE]
Idle == [pc |-> "idle", kind |-> "none", email |-> "none", user |-> "none", token |-> "none",
         linked |-> {}]

Init ==
    /\ users = {}
    /\ tokens = [t \in Token |-> NoToken]
    /\ codes = [e \in Email |-> {}]
    /\ states = {}
    /\ attempts = [e \in Email |-> [a \in Limited |-> 0]]
    /\ req = [r \in Request |-> Idle]
    /\ issued = {} /\ rotated = {} /\ lost = {}
    /\ calls = 0 /\ faults = 0

-----------------------------------------------------------------------------
(* Shorthands.                                                             *)

At(r, pc) == req[r].pc = pc
Goto(r, pc) == req' = [req EXCEPT ![r].pc = pc]
Over(r) == req' = [req EXCEPT ![r] = Idle]
Account(e) == {u \in users : u.email = e}
Start(r, op) == op \in Ops /\ At(r, "idle") /\ calls < MaxCalls /\ calls' = calls + 1
Begin(r, locals) == req' = [req EXCEPT ![r] = locals]
Running == UNCHANGED <<calls, faults>>

-----------------------------------------------------------------------------
(* Attempts: counted, then recorded.                                       *)

\* Faulty: the attempt that reaches the limit passes.
HasRoomAtLimit(count) == count <= MaxAttempts
HasRoom(count) == count < MaxAttempts

Attempt(r, action, e) ==
    /\ Start(r, action)
    /\ HasRoom(attempts[e][action])
    /\ Begin(r, [Idle EXCEPT !.pc = "record", !.kind = action, !.email = e])
    /\ UNCHANGED <<users, tokens, codes, states, attempts, faults>> /\ UNCHANGED history

Record(r) ==
    /\ At(r, "record")
    /\ attempts' = [attempts EXCEPT ![req[r].email][req[r].kind] = @ + 1]
    /\ Goto(r, req[r].kind)
    /\ UNCHANGED <<users, tokens, codes, states>> /\ UNCHANGED history /\ Running

\* An attempt leaves the window.
Forget(e, action) ==
    /\ "time" \in Ops /\ attempts[e][action] > 0
    /\ attempts' = [attempts EXCEPT ![e][action] = @ - 1]
    /\ UNCHANGED <<users, tokens, codes, states, req>> /\ UNCHANGED history /\ Running

-----------------------------------------------------------------------------
(* Accounts.                                                               *)

\* POST /register, up to the insert: an email that has an account is refused.
Register(r, e) ==
    /\ Start(r, "register")
    /\ Account(e) = {}
    /\ Begin(r, [Idle EXCEPT !.pc = "create", !.kind = "email", !.email = e])
    /\ UNCHANGED <<users, tokens, codes, states, attempts, faults>> /\ UNCHANGED history

\* Faulty: an index on the email that is not unique.
RefusedNever(e) == FALSE
\* The unique index on the email refuses a second account.
Refused(e) == Account(e) # {}

Create(r) ==
    LET e == req[r].email IN
    /\ At(r, "create")
    /\ IF Refused(e) THEN Over(r) /\ UNCHANGED users
       ELSE \E id \in UserId \ {u.id : u \in users} :
              /\ users' = users \cup {[id |-> id, email |-> e, method |-> req[r].kind,
                                       active |-> TRUE, linked |-> req[r].linked]}
              /\ req' = [req EXCEPT ![r].pc = "issue", ![r].user = id]
    /\ UNCHANGED <<tokens, codes, states, attempts>> /\ UNCHANGED history /\ Running

\* POST /login after the limiter: only an account made with a password can
\* match one.
Login(r) ==
    /\ At(r, "login")
    /\ \/ Over(r)
       \/ \E u \in Account(req[r].email) :
             /\ u.method = "email" /\ u.active
             /\ req' = [req EXCEPT ![r].pc = "reset", ![r].user = u.id]
    /\ UNCHANGED <<users, tokens, codes, states, attempts>> /\ UNCHANGED history /\ Running

Reset(r) ==
    /\ At(r, "reset")
    /\ attempts' = [attempts EXCEPT ![req[r].email]["login"] = 0]
    /\ Goto(r, "issue")
    /\ UNCHANGED <<users, tokens, codes, states>> /\ UNCHANGED history /\ Running

\* A new account, or the tokens of the one there is.
FindOrCreate(r, e, kind) ==
    IF Account(e) = {}
    THEN req' = [req EXCEPT ![r].pc = "create", ![r].kind = kind, ![r].email = e]
    ELSE \E u \in Account(e) : req' = [req EXCEPT ![r].pc = "issue", ![r].user = u.id]

-----------------------------------------------------------------------------
(* One-time codes.                                                         *)

\* generate_and_send: the codes there are go first.
Invalidate(r) ==
    /\ At(r, "otp_request")
    /\ codes' = [codes EXCEPT ![req[r].email] = {}]
    /\ Goto(r, "send")
    /\ UNCHANGED <<users, tokens, states, attempts>> /\ UNCHANGED history /\ Running

Send(r) ==
    /\ At(r, "send")
    /\ \E c \in Code : codes' = [codes EXCEPT ![req[r].email] = @ \cup {c}]
    /\ Over(r)
    /\ UNCHANGED <<users, tokens, states, attempts>> /\ UNCHANGED history /\ Running

\* find_one_and_delete: a code is good for one verification.
Verify(r) ==
    LET e == req[r].email IN
    /\ At(r, "otp_verify")
    /\ \/ Over(r) /\ UNCHANGED codes
       \/ \E c \in codes[e] : codes' = [codes EXCEPT ![e] = @ \ {c}] /\ Goto(r, "find")
    /\ UNCHANGED <<users, tokens, states, attempts>> /\ UNCHANGED history /\ Running

FindVerified(r) ==
    /\ At(r, "find")
    /\ FindOrCreate(r, req[r].email, "otp")
    /\ UNCHANGED <<users, tokens, codes, states, attempts>> /\ UNCHANGED history /\ Running

ExpireCode(e) ==
    /\ "time" \in Ops
    /\ \E c \in codes[e] : codes' = [codes EXCEPT ![e] = @ \ {c}]
    /\ UNCHANGED <<users, tokens, states, attempts, req>> /\ UNCHANGED history /\ Running

-----------------------------------------------------------------------------
(* OAuth.                                                                  *)

Initiate(r, s, p) ==
    /\ Start(r, "oauth")
    /\ s \notin {x.state : x \in states}
    /\ states' = states \cup {[state |-> s, provider |-> p]}
    /\ UNCHANGED <<users, tokens, codes, attempts, req, faults>> /\ UNCHANGED history

\* The callback redeems its state, whatever comes of it.
Callback(r, x) ==
    /\ Start(r, "oauth")
    /\ x \in states /\ states' = states \ {x}
    /\ Begin(r, [Idle EXCEPT !.pc = "exchange", !.kind = x.provider])
    /\ UNCHANGED <<users, tokens, codes, attempts, faults>> /\ UNCHANGED history

\* The provider names the email; without one the browser goes back to login.
\* The link of an account that has none to this provider is written after.
Exchange(r) ==
    LET p == req[r].kind IN
    /\ At(r, "exchange")
    /\ \/ Over(r)
       \/ \E e \in Email :
             \/ /\ Account(e) = {}
                /\ req' = [req EXCEPT ![r].pc = "create", ![r].email = e, ![r].linked = {p}]
             \/ \E u \in Account(e) :
                   req' = [req EXCEPT ![r].pc = IF p \in u.linked THEN "issue" ELSE "link",
                                      ![r].user = u.id, ![r].linked = {p}]
    /\ UNCHANGED <<users, tokens, codes, states, attempts>> /\ UNCHANGED history /\ Running

\* The identities are told apart by provider; pushing one twice is pushing it.
Link(r) ==
    /\ At(r, "link")
    /\ users' = {IF u.id = req[r].user THEN [u EXCEPT !.linked = @ \cup req[r].linked] ELSE u :
                 u \in users}
    /\ Goto(r, "issue")
    /\ UNCHANGED <<tokens, codes, states, attempts>> /\ UNCHANGED history /\ Running

ExpireState(x) ==
    /\ "time" \in Ops /\ x \in states
    /\ states' = states \ {x}
    /\ UNCHANGED <<users, tokens, codes, attempts, req>> /\ UNCHANGED history /\ Running

-----------------------------------------------------------------------------
(* Refresh tokens.                                                         *)

Issue(r) ==
    /\ At(r, "issue")
    /\ \E t \in Token \ issued :
          /\ tokens' = [tokens EXCEPT ![t] = [NoToken EXCEPT !.there = TRUE, !.owner = req[r].user]]
          /\ issued' = issued \cup {t}
    /\ rotated' = rotated \cup ({req[r].token} \cap Token)
    /\ Over(r)
    /\ UNCHANGED <<users, codes, states, attempts, lost>> /\ Running

\* POST /refresh: a token that was exchanged before revokes all of its owner's.
Rotate(r, t) ==
    /\ Start(r, "refresh")
    /\ tokens[t].there /\ ~tokens[t].expired
    /\ Begin(r, [Idle EXCEPT !.pc = IF tokens[t].used THEN "revoke" ELSE "mark",
                             !.user = tokens[t].owner, !.token = t])
    /\ UNCHANGED <<users, tokens, codes, states, attempts, faults>> /\ UNCHANGED history

\* The document may be gone by now: then nothing is marked, and the exchange
\* goes on.
Mark(r) ==
    LET t == req[r].token IN
    /\ At(r, "mark")
    /\ tokens' = IF tokens[t].there THEN [tokens EXCEPT ![t].used = TRUE] ELSE tokens
    /\ Goto(r, "issue")
    /\ UNCHANGED <<users, codes, states, attempts>> /\ UNCHANGED history /\ Running

Revoke(r) ==
    /\ At(r, "revoke")
    /\ tokens' = [t \in Token |-> IF tokens[t].owner = req[r].user THEN NoToken ELSE tokens[t]]
    /\ Over(r)
    /\ UNCHANGED <<users, codes, states, attempts>> /\ UNCHANGED history /\ Running

\* Faulty: a token that is logged out stays, marked as used.
RevokedUsed(doc) == [doc EXCEPT !.used = doc.there]
Revoked(doc) == NoToken

\* POST /logout: the owner is looked up before the token is deleted.
Logout(r, t) ==
    /\ Start(r, "logout")
    /\ t \in issued
    /\ Begin(r, [Idle EXCEPT !.pc = "logout", !.user = tokens[t].owner, !.token = t])
    /\ UNCHANGED <<users, tokens, codes, states, attempts, faults>> /\ UNCHANGED history

DeleteToken(r) ==
    /\ At(r, "logout")
    /\ tokens' = [tokens EXCEPT ![req[r].token] = Revoked(@)]
    /\ Over(r)
    /\ UNCHANGED <<users, codes, states, attempts>> /\ UNCHANGED history /\ Running

\* Past its time a token is refused; later the database removes it.
Expire(t) ==
    /\ "time" \in Ops /\ tokens[t].there
    /\ tokens' = [tokens EXCEPT ![t] = IF @.expired THEN NoToken ELSE [@ EXCEPT !.expired = TRUE]]
    /\ UNCHANGED <<users, codes, states, attempts, req>> /\ UNCHANGED history /\ Running

-----------------------------------------------------------------------------
(* Administration.                                                         *)

Deactivate(r, u) ==
    /\ Start(r, "admin")
    /\ u \in users
    /\ users' = (users \ {u}) \cup {[u EXCEPT !.active = FALSE]}
    /\ Begin(r, [Idle EXCEPT !.pc = "revoke", !.user = u.id])
    /\ UNCHANGED <<tokens, codes, states, attempts, faults>> /\ UNCHANGED history

Activate(r, u) ==
    /\ Start(r, "admin")
    /\ u \in users /\ ~u.active
    /\ users' = (users \ {u}) \cup {[u EXCEPT !.active = TRUE]}
    /\ UNCHANGED <<tokens, codes, states, attempts, req, faults>> /\ UNCHANGED history

-----------------------------------------------------------------------------
(* A call fails, or the process dies.  A call that was applied and whose    *)
(* answer was lost is its step and then the failure.                       *)

Exchanged(r) == IF At(r, "mark") \/ At(r, "issue") THEN {req[r].token} \cap Token ELSE {}

Fail(r) ==
    /\ "fault" \in Ops /\ ~At(r, "idle")
    /\ faults < MaxFaults /\ faults' = faults + 1
    /\ lost' = lost \cup Exchanged(r)
    /\ Over(r)
    /\ UNCHANGED <<users, tokens, codes, states, attempts, issued, rotated, calls>>

Restart ==
    /\ "restart" \in Ops /\ \E r \in Request : ~At(r, "idle")
    /\ faults < MaxFaults /\ faults' = faults + 1
    /\ req' = [r \in Request |-> Idle]
    /\ lost' = lost \cup UNION {Exchanged(r) : r \in Request}
    /\ UNCHANGED <<users, tokens, codes, states, attempts, issued, rotated, calls>>

-----------------------------------------------------------------------------
Call(r) ==
    \/ \E e \in Email : Register(r, e) \/ (\E action \in Limited : Attempt(r, action, e))
    \/ \E s \in State, p \in Provider : Initiate(r, s, p)
    \/ \E x \in states : Callback(r, x)
    \/ \E t \in Token : Rotate(r, t) \/ Logout(r, t)
    \/ \E u \in users : Deactivate(r, u) \/ Activate(r, u)

Step(r) ==
    \/ Record(r) \/ Create(r) \/ Login(r) \/ Reset(r)
    \/ Invalidate(r) \/ Send(r) \/ Verify(r) \/ FindVerified(r)
    \/ Exchange(r) \/ Link(r)
    \/ Issue(r) \/ Mark(r) \/ Revoke(r) \/ DeleteToken(r)

Time ==
    \/ \E e \in Email : ExpireCode(e) \/ (\E action \in Limited : Forget(e, action))
    \/ \E x \in states : ExpireState(x)
    \/ \E t \in Token : Expire(t)

Next == (\E r \in Request : Call(r) \/ Step(r) \/ Fail(r)) \/ Time \/ Restart

Spec == Init /\ [][Next]_vars

-----------------------------------------------------------------------------
(* Properties.                                                             *)

\* One email has one account, and every refresh token belongs to an account
\* that exists: registrations, first verifications and first OAuth logins look
\* for the account in one call and insert it in another.
OneAccount ==
    /\ \A u, v \in users : u.email = v.email => u = v
    /\ \A t \in Token : tokens[t].there => \E u \in users : u.id = tokens[t].owner

\* The limiter counts in one call and records in the next, so requests that run
\* side by side may all pass at the limit: it is exceeded by the others under
\* way at most.
AttemptsBounded ==
    \A e \in Email, a \in Limited : attempts[e][a] < MaxAttempts + Cardinality(Request)

\* A token that is marked as used has been exchanged, is being exchanged, or its
\* exchange was interrupted: reuse, which revokes every session of the user, is
\* never seen in a token nobody exchanged.
UsedIsExchanged ==
    \A t \in Token :
        tokens[t].used =>
            \/ t \in rotated \cup lost
            \/ \E r \in Request : At(r, "issue") /\ req[r].token = t

=============================================================================
