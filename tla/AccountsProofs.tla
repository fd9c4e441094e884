---------------------------- MODULE AccountsProofs ----------------------------
(***************************************************************************)
(* Accounts for any number of requests, emails and tokens, and any bounds: *)
(* one account per email, the limiter's bound, and a used token is one     *)
(* that was exchanged.                                                     *)
(***************************************************************************)
EXTENDS Accounts, FiniteSetTheorems, TLAPS

Kind == Limited \cup Provider \cup {"none", "email", "otp"}
AccountDoc ==
    [id : UserId, email : Email, method : Kind, active : BOOLEAN, linked : SUBSET Provider]
TokenDoc ==
    [there : BOOLEAN, owner : UserId \cup {"none"}, used : BOOLEAN, expired : BOOLEAN]
ByEmail == {"record", "create", "login", "reset", "otp_request", "send", "otp_verify", "find"}
Pc == ByEmail \cup {"idle", "exchange", "link", "issue", "mark", "revoke", "logout"}
Locals ==
    [pc : Pc, kind : Kind, email : Email \cup {"none"}, user : UserId \cup {"none"},
     token : Token \cup {"none"}, linked : SUBSET Provider]

\* A request past its first await knows what that await found.
Placed(l) ==
    /\ l.pc \in ByEmail => l.email \in Email
    /\ l.pc = "record" => l.kind \in Limited
    /\ l.pc = "exchange" => l.kind \in Provider
    /\ l.pc \in {"mark", "logout"} => l.token \in Token
RequestState == {l \in Locals : Placed(l)}

TypeInv ==
    /\ users \subseteq AccountDoc
    /\ tokens \in [Token -> TokenDoc]
    /\ codes \in [Email -> SUBSET Code]
    /\ states \subseteq [state : State, provider : Provider]
    /\ attempts \in [Email -> [Limited -> Nat]]
    /\ req \in [Request -> RequestState]
    /\ issued \subseteq Token /\ rotated \subseteq Token /\ lost \subseteq Token

LEMMA IdlePlaced == Idle \in RequestState
<1>1. Idle \in Locals
  BY DEF Locals, Idle, Kind, Pc
<1>2. Placed(Idle)
  <2>1. Idle.pc = "idle"
    BY DEF Idle
  <2>2. Idle.pc \notin ByEmail /\ Idle.pc \notin {"record", "exchange", "mark", "logout"}
    BY ONLY <2>1, Zenon DEF ByEmail
  <2> QED
    BY <2>2 DEF Placed
<1> QED
  BY <1>1, <1>2 DEF RequestState

LEMMA TypeInit == Init => TypeInv
  BY IdlePlaced DEF Init, TypeInv, TokenDoc, NoToken

\* A request moves on: what it found before, it keeps.
LEMMA GotoPlaced ==
    ASSUME TypeInv, NEW r \in Request, NEW pc \in Pc, Goto(r, pc),
           Placed([req[r] EXCEPT !.pc = pc])
    PROVE req' \in [Request -> RequestState]
<1>1. req[r] \in Locals
  BY DEF TypeInv, RequestState
<1>2. [req[r] EXCEPT !.pc = pc] \in RequestState
  BY <1>1 DEF RequestState, Locals
<1> QED
  BY <1>2 DEF Goto, TypeInv

LEMMA OverPlaced ==
    ASSUME TypeInv, NEW r \in Request, Over(r) PROVE req' \in [Request -> RequestState]
  BY IdlePlaced DEF Over, TypeInv

LEMMA BeginPlaced ==
    ASSUME TypeInv, NEW r \in Request, NEW l \in RequestState, Begin(r, l)
    PROVE req' \in [Request -> RequestState]
  BY DEF Begin, TypeInv

LEMMA TypeStep == TypeInv /\ [Next]_vars => TypeInv'
<1> SUFFICES ASSUME TypeInv, [Next]_vars PROVE TypeInv'
  OBVIOUS
<1>1. ASSUME NEW r \in Request, NEW e \in Email, Register(r, e) PROVE TypeInv'
  <2> DEFINE l == [Idle EXCEPT !.pc = "create", !.kind = "email", !.email = e]
  <2>1. l \in RequestState
    BY <1>1 DEF RequestState, Locals, Placed, Kind, Pc, ByEmail, Idle
  <2>2. Begin(r, l)
    BY <1>1 DEF Register
  <2>3. req' \in [Request -> RequestState]
    BY <2>1, <2>2, BeginPlaced
  <2> QED
    BY <1>1, <2>3 DEF Register, TypeInv, Start, Running, history
<1>2. ASSUME NEW r \in Request, NEW e \in Email, NEW action \in Limited, Attempt(r, action, e) PROVE TypeInv'
  <2> DEFINE l == [Idle EXCEPT !.pc = "record", !.kind = action, !.email = e]
  <2>1. l \in RequestState
    BY <1>2 DEF RequestState, Locals, Placed, Kind, Pc, ByEmail, Idle
  <2>2. Begin(r, l)
    BY <1>2 DEF Attempt
  <2>3. req' \in [Request -> RequestState]
    BY <2>1, <2>2, BeginPlaced
  <2> QED
    BY <1>2, <2>3 DEF Attempt, TypeInv, Start, Running, history
<1>3. ASSUME NEW r \in Request, NEW s \in State, NEW p \in Provider, Initiate(r, s, p) PROVE TypeInv'
  BY <1>3 DEF Initiate, TypeInv, Start, Running, history
<1>4. ASSUME NEW r \in Request, NEW x \in states, Callback(r, x) PROVE TypeInv'
  <2> DEFINE l == [Idle EXCEPT !.pc = "exchange", !.kind = x.provider]
  <2>1. l \in RequestState
    BY <1>4 DEF RequestState, Locals, Placed, Kind, Pc, ByEmail, Idle, TypeInv
  <2>2. Begin(r, l)
    BY <1>4 DEF Callback
  <2>3. req' \in [Request -> RequestState]
    BY <2>1, <2>2, BeginPlaced
  <2> QED
    BY <1>4, <2>3 DEF Callback, TypeInv, Start, Running, history
<1>5. ASSUME NEW r \in Request, NEW t \in Token, Rotate(r, t) PROVE TypeInv'
  <2> DEFINE l == [Idle EXCEPT !.pc = IF tokens[t].used THEN "revoke" ELSE "mark", !.user = tokens[t].owner, !.token = t]
  <2>1. l \in RequestState
    BY <1>5 DEF RequestState, Locals, Placed, Kind, Pc, ByEmail, Idle, TypeInv, TokenDoc
  <2>2. Begin(r, l)
    BY <1>5 DEF Rotate
  <2>3. req' \in [Request -> RequestState]
    BY <2>1, <2>2, BeginPlaced
  <2> QED
    BY <1>5, <2>3 DEF Rotate, TypeInv, Start, Running, history
<1>6. ASSUME NEW r \in Request, NEW t \in Token, Logout(r, t) PROVE TypeInv'
  <2> DEFINE l == [Idle EXCEPT !.pc = "logout", !.user = tokens[t].owner, !.token = t]
  <2>1. l \in RequestState
    BY <1>6 DEF RequestState, Locals, Placed, Kind, Pc, ByEmail, Idle, TypeInv, TokenDoc
  <2>2. Begin(r, l)
    BY <1>6 DEF Logout
  <2>3. req' \in [Request -> RequestState]
    BY <2>1, <2>2, BeginPlaced
  <2> QED
    BY <1>6, <2>3 DEF Logout, TypeInv, Start, Running, history
<1>7. ASSUME NEW r \in Request, NEW u \in users, Deactivate(r, u) PROVE TypeInv'
  <2> DEFINE l == [Idle EXCEPT !.pc = "revoke", !.user = u.id]
  <2>1. l \in RequestState
    BY <1>7 DEF RequestState, Locals, Placed, Kind, Pc, ByEmail, Idle, TypeInv, AccountDoc
  <2>2. Begin(r, l)
    BY <1>7 DEF Deactivate
  <2>3. req' \in [Request -> RequestState]
    BY <2>1, <2>2, BeginPlaced
  <2> QED
    BY <1>7, <2>3 DEF Deactivate, TypeInv, Start, Running, history, AccountDoc
<1>8. ASSUME NEW r \in Request, NEW u \in users, Activate(r, u) PROVE TypeInv'
  BY <1>8 DEF Activate, TypeInv, Start, Running, history, AccountDoc
<1>9. ASSUME NEW r \in Request, Reset(r) PROVE TypeInv'
  <2>1. req[r] \in RequestState
    BY DEF TypeInv
  <2>2. Placed([req[r] EXCEPT !.pc = "issue"])
    BY <1>9, <2>1 DEF Reset, At, RequestState, Locals, Placed, ByEmail
  <2>3. Goto(r, "issue")
    BY <1>9 DEF Reset
  <2>4. req' \in [Request -> RequestState]
    BY <2>2, <2>3, GotoPlaced DEF Pc, ByEmail
  <2> QED
    BY <1>9, <2>1, <2>4 DEF Reset, TypeInv, At, RequestState, Placed, ByEmail, Locals,
       Running, history, Limited
<1>10. ASSUME NEW r \in Request, Invalidate(r) PROVE TypeInv'
  <2>1. req[r] \in RequestState
    BY DEF TypeInv
  <2>2. Placed([req[r] EXCEPT !.pc = "send"])
    BY <1>10, <2>1 DEF Invalidate, At, RequestState, Locals, Placed, ByEmail
  <2>3. Goto(r, "send")
    BY <1>10 DEF Invalidate
  <2>4. req' \in [Request -> RequestState]
    BY <2>2, <2>3, GotoPlaced DEF Pc, ByEmail
  <2> QED
    BY <1>10, <2>1, <2>4 DEF Invalidate, TypeInv, At, RequestState, Placed, ByEmail,
       Locals, Running, history
<1>11. ASSUME NEW r \in Request, Send(r) PROVE TypeInv'
  <2>1. req' \in [Request -> RequestState]
    BY <1>11, OverPlaced DEF Send
  <2>2. req[r] \in RequestState
    BY DEF TypeInv
  <2> QED
    BY <1>11, <2>1, <2>2 DEF Send, TypeInv, At, RequestState, Placed, ByEmail, Locals,
       Running, history
<1>12. ASSUME NEW r \in Request, Link(r) PROVE TypeInv'
  <2>1. req[r] \in RequestState
    BY DEF TypeInv
  <2>2. Placed([req[r] EXCEPT !.pc = "issue"])
    BY <1>12, <2>1 DEF Link, At, RequestState, Locals, Placed, ByEmail
  <2>3. Goto(r, "issue")
    BY <1>12 DEF Link
  <2>4. req' \in [Request -> RequestState]
    BY <2>2, <2>3, GotoPlaced DEF Pc, ByEmail
  <2>5. ASSUME NEW u \in users
        PROVE (IF u.id = req[r].user THEN [u EXCEPT !.linked = @ \cup req[r].linked] ELSE u) \in AccountDoc
    BY <2>1 DEF TypeInv, AccountDoc, RequestState, Locals
  <2>6. users' \subseteq AccountDoc
    BY <1>12, <2>5, Zenon DEF Link
  <2> QED
    BY <1>12, <2>4, <2>6 DEF Link, TypeInv, Running, history
<1>13. ASSUME NEW r \in Request, Issue(r) PROVE TypeInv'
  <2>1. req' \in [Request -> RequestState]
    BY <1>13, OverPlaced DEF Issue
  <2>2. req[r] \in RequestState
    BY DEF TypeInv
  <2>3. tokens' \in [Token -> TokenDoc]
    <3>1. PICK t \in Token :
              tokens' = [tokens EXCEPT ![t] = [NoToken EXCEPT !.there = TRUE, !.owner = req[r].user]]
      BY <1>13 DEF Issue
    <3>2. [NoToken EXCEPT !.there = TRUE, !.owner = req[r].user] \in TokenDoc
      BY <2>2 DEF RequestState, Locals, TokenDoc, NoToken
    <3> QED
      BY <3>1, <3>2 DEF TypeInv
  <2> QED
    BY <1>13, <2>1, <2>3 DEF Issue, TypeInv, Running, history
<1>14. ASSUME NEW r \in Request, Mark(r) PROVE TypeInv'
  <2>1. req[r] \in RequestState
    BY DEF TypeInv
  <2>2. Placed([req[r] EXCEPT !.pc = "issue"])
    BY <1>14, <2>1 DEF Mark, At, RequestState, Locals, Placed, ByEmail
  <2>3. Goto(r, "issue")
    BY <1>14 DEF Mark
  <2>4. req' \in [Request -> RequestState]
    BY <2>2, <2>3, GotoPlaced DEF Pc, ByEmail
  <2>5. tokens' \in [Token -> TokenDoc]
    <3>1. req[r].token \in Token
      BY <1>14, <2>1 DEF Mark, At, RequestState, Placed
    <3>2. [tokens[req[r].token] EXCEPT !.used = TRUE] \in TokenDoc
      BY <3>1 DEF TypeInv, TokenDoc
    <3> QED
      BY <1>14, <3>2 DEF Mark, TypeInv
  <2> QED
    BY <1>14, <2>4, <2>5 DEF Mark, TypeInv, Running, history
<1>15. ASSUME NEW r \in Request, Revoke(r) PROVE TypeInv'
  <2>1. req' \in [Request -> RequestState]
    BY <1>15, OverPlaced DEF Revoke
  <2>2. req[r] \in RequestState
    BY DEF TypeInv
  <2> QED
    BY <1>15, <2>1, <2>2 DEF Revoke, TypeInv, At, RequestState, Placed, ByEmail,
       Locals, Running, history, NoToken, TokenDoc
<1>16. ASSUME NEW r \in Request, DeleteToken(r) PROVE TypeInv'
  <2>1. req' \in [Request -> RequestState]
    BY <1>16, OverPlaced DEF DeleteToken
  <2>2. req[r] \in RequestState
    BY DEF TypeInv
  <2> QED
    BY <1>16, <2>1, <2>2 DEF DeleteToken, TypeInv, At, RequestState, Placed, ByEmail,
       Locals, Running, history, Revoked, NoToken, TokenDoc
<1>17. ASSUME NEW r \in Request, Fail(r) PROVE TypeInv'
  <2>1. req' \in [Request -> RequestState]
    BY <1>17, OverPlaced DEF Fail
  <2>2. req[r] \in RequestState
    BY DEF TypeInv
  <2> QED
    BY <1>17, <2>1, <2>2 DEF Fail, TypeInv, At, RequestState, Placed, ByEmail, Locals,
       Running, history, Exchanged
<1>18. ASSUME NEW e \in Email, ExpireCode(e) PROVE TypeInv'
  BY <1>18 DEF ExpireCode, TypeInv, Start, Running, history
<1>19. ASSUME NEW e \in Email, NEW action \in Limited, Forget(e, action) PROVE TypeInv'
  BY <1>19 DEF Forget, TypeInv, Start, Running, history
<1>20. ASSUME NEW x \in states, ExpireState(x) PROVE TypeInv'
  BY <1>20 DEF ExpireState, TypeInv, Start, Running, history
<1>21. ASSUME NEW t \in Token, Expire(t) PROVE TypeInv'
  BY <1>21 DEF Expire, TypeInv, Start, Running, history, NoToken, TokenDoc
<1>22. ASSUME NEW r \in Request, Record(r) PROVE TypeInv'
  <2>1. req[r] \in Locals /\ req[r].email \in Email /\ req[r].kind \in Limited
    BY <1>22 DEF Record, TypeInv, RequestState, At, Placed, ByEmail
  <2>2. /\ req[r].kind \in Pc
        /\ req[r].kind \notin {"record", "exchange", "mark", "logout"}
    BY <2>1, Zenon DEF Limited, Pc, ByEmail
  <2> DEFINE l == [req[r] EXCEPT !.pc = req[r].kind]
  <2>3. l.pc = req[r].kind /\ l.email \in Email
    BY <2>1 DEF Locals
  <2>4. Placed(l)
    BY <2>2, <2>3, Zenon DEF Placed
  <2>5. req' \in [Request -> RequestState]
    BY <1>22, <2>2, <2>4, GotoPlaced DEF Record
  <2> QED
    BY <1>22, <2>1, <2>5 DEF Record, TypeInv, Running, history
<1>23. ASSUME NEW r \in Request, Create(r) PROVE TypeInv'
  <2>1. req[r] \in Locals /\ req[r].email \in Email
    BY <1>23 DEF Create, TypeInv, RequestState, At, Placed, ByEmail
  <2>2. CASE Over(r) /\ UNCHANGED users
    BY <1>23, <2>2, OverPlaced DEF Create, TypeInv, Running, history
  <2>3. ASSUME NEW id \in UserId,
               users' = users \cup {[id |-> id, email |-> req[r].email, method |-> req[r].kind,
                                     active |-> TRUE, linked |-> req[r].linked]},
               req' = [req EXCEPT ![r].pc = "issue", ![r].user = id]
        PROVE TypeInv'
    <3> DEFINE l == [req[r] EXCEPT !.pc = "issue", !.user = id]
    <3>1. l \in RequestState
      BY <2>1 DEF RequestState, Locals, Placed, Pc, ByEmail
    <3>2. Begin(r, l)
      BY <2>1, <2>3 DEF Begin, TypeInv, Locals
    <3>3. req' \in [Request -> RequestState]
      BY <3>1, <3>2, BeginPlaced
    <3>4. users' \subseteq AccountDoc
      <4>1. [id |-> id, email |-> req[r].email, method |-> req[r].kind,
             active |-> TRUE, linked |-> req[r].linked] \in AccountDoc
        BY <2>1 DEF AccountDoc, Locals
      <4> QED
        BY <2>3, <4>1 DEF TypeInv
    <3> QED
      BY <1>23, <3>3, <3>4 DEF Create, TypeInv, Running, history
  <2> QED
    BY <1>23, <2>2, <2>3 DEF Create
<1>24. ASSUME NEW r \in Request, Login(r) PROVE TypeInv'
  <2>1. req[r] \in Locals /\ req[r].email \in Email
    BY <1>24 DEF Login, TypeInv, RequestState, At, Placed, ByEmail
  <2>2. req' \in [Request -> RequestState]
    <3>1. CASE Over(r)
      BY <3>1, OverPlaced
    <3>2. ASSUME NEW u \in users, req' = [req EXCEPT ![r].pc = "reset", ![r].user = u.id]
          PROVE req' \in [Request -> RequestState]
      <4> DEFINE l == [req[r] EXCEPT !.pc = "reset", !.user = u.id]
      <4>1. l \in RequestState
        BY <2>1 DEF RequestState, Locals, Placed, Pc, ByEmail, TypeInv, AccountDoc
      <4>2. Begin(r, l)
        BY <2>1, <3>2 DEF Begin, TypeInv, Locals
      <4> QED
        BY <4>1, <4>2, BeginPlaced
    <3> QED
      BY <1>24, <3>1, <3>2 DEF Login, Account
  <2> QED
    BY <1>24, <2>2 DEF Login, TypeInv, Running, history
<1>25. ASSUME NEW r \in Request, Verify(r) PROVE TypeInv'
  <2>1. req[r] \in Locals /\ req[r].email \in Email
    BY <1>25 DEF Verify, TypeInv, RequestState, At, Placed, ByEmail
  <2>2. req' \in [Request -> RequestState]
    <3>1. CASE Over(r)
      BY <3>1, OverPlaced
    <3>2. CASE Goto(r, "find")
      <4>1. Placed([req[r] EXCEPT !.pc = "find"])
        BY <2>1 DEF Placed, Locals
      <4> QED
        BY <3>2, <4>1, GotoPlaced DEF Pc, ByEmail
    <3> QED
      BY <1>25, <3>1, <3>2 DEF Verify
  <2>3. codes' \in [Email -> SUBSET Code]
    BY <1>25, <2>1 DEF Verify, TypeInv
  <2> QED
    BY <1>25, <2>2, <2>3 DEF Verify, TypeInv, Running, history
<1>26. ASSUME NEW r \in Request, FindVerified(r) PROVE TypeInv'
  <2>1. req[r] \in Locals /\ req[r].email \in Email
    BY <1>26 DEF FindVerified, TypeInv, RequestState, At, Placed, ByEmail
  <2>2. req' \in [Request -> RequestState]
    <3>1. ASSUME req' = [req EXCEPT ![r].pc = "create", ![r].kind = "otp", ![r].email = req[r].email]
          PROVE req' \in [Request -> RequestState]
      <4> DEFINE l == [req[r] EXCEPT !.pc = "create", !.kind = "otp", !.email = req[r].email]
      <4>1. l \in RequestState
        BY <2>1 DEF RequestState, Locals, Placed, Pc, ByEmail, Kind
      <4>2. Begin(r, l)
        BY <2>1, <3>1 DEF Begin, TypeInv, Locals
      <4> QED
        BY <4>1, <4>2, BeginPlaced
    <3>2. ASSUME NEW u \in users, req' = [req EXCEPT ![r].pc = "issue", ![r].user = u.id]
          PROVE req' \in [Request -> RequestState]
      <4> DEFINE l == [req[r] EXCEPT !.pc = "issue", !.user = u.id]
      <4>1. l \in RequestState
        BY <2>1 DEF RequestState, Locals, Placed, Pc, ByEmail, TypeInv, AccountDoc
      <4>2. Begin(r, l)
        BY <2>1, <3>2 DEF Begin, TypeInv, Locals
      <4> QED
        BY <4>1, <4>2, BeginPlaced
    <3> QED
      BY <1>26, <3>1, <3>2 DEF FindVerified, FindOrCreate, Account
  <2> QED
    BY <1>26, <2>2 DEF FindVerified, TypeInv, Running, history
<1>27. ASSUME NEW r \in Request, Exchange(r) PROVE TypeInv'
  <2>1. req[r] \in Locals /\ req[r].kind \in Provider
    BY <1>27 DEF Exchange, TypeInv, RequestState, At, Placed
  <2>2. req' \in [Request -> RequestState]
    <3>1. CASE Over(r)
      BY <3>1, OverPlaced
    <3>2. ASSUME NEW e \in Email,
                 req' = [req EXCEPT ![r].pc = "create", ![r].email = e, ![r].linked = {req[r].kind}]
          PROVE req' \in [Request -> RequestState]
      <4> DEFINE l == [req[r] EXCEPT !.pc = "create", !.email = e, !.linked = {req[r].kind}]
      <4>1. l \in RequestState
        BY <2>1 DEF RequestState, Locals, Placed, Pc, ByEmail
      <4>2. Begin(r, l)
        BY <2>1, <3>2 DEF Begin, TypeInv, Locals
      <4> QED
        BY <4>1, <4>2, BeginPlaced
    <3>3. ASSUME NEW u \in users, NEW pc \in {"issue", "link"},
                 req' = [req EXCEPT ![r].pc = pc, ![r].user = u.id, ![r].linked = {req[r].kind}]
          PROVE req' \in [Request -> RequestState]
      <4> DEFINE l == [req[r] EXCEPT !.pc = pc, !.user = u.id, !.linked = {req[r].kind}]
      <4>1. l \in RequestState
        BY <2>1 DEF RequestState, Locals, Placed, Pc, ByEmail, TypeInv, AccountDoc
      <4>2. Begin(r, l)
        BY <2>1, <3>3 DEF Begin, TypeInv, Locals
      <4> QED
        BY <4>1, <4>2, BeginPlaced
    <3> QED
      BY <1>27, <3>1, <3>2, <3>3, Zenon DEF Exchange, Account
  <2> QED
    BY <1>27, <2>2 DEF Exchange, TypeInv, Running, history
<1>28. ASSUME Restart PROVE TypeInv'
  <2>1. req' \in [Request -> RequestState]
    BY <1>28, IdlePlaced DEF Restart
  <2> QED
    BY <1>28, <2>1 DEF Restart, TypeInv, Exchanged
<1>29. CASE UNCHANGED vars
  BY <1>29 DEF vars, TypeInv
<1> QED
  BY <1>1, <1>2, <1>3, <1>4, <1>5, <1>6, <1>7, <1>8, <1>9, <1>10, <1>11, <1>12, <1>13,
     <1>14, <1>15, <1>16, <1>17, <1>18, <1>19, <1>20, <1>21, <1>22, <1>23, <1>24,
     <1>25, <1>26, <1>27, <1>28, <1>29
     DEF Next, Call, Step, Time

\* What each document and each request holds, whatever the interleaving
\* (router.py, token_manager.py).
THEOREM Typed == Spec => []TypeInv
  BY TypeInit, TypeStep, PTL DEF Spec

-----------------------------------------------------------------------------
\* A request changes nothing of another one's locals.
Alone(r) == \A q \in Request \ {r} : req'[q] = req[q]

LEMMA CallAlone == ASSUME TypeInv, NEW r \in Request, Call(r) PROVE Alone(r)
<1> USE DEF Alone, TypeInv, Begin
<1>1. ASSUME NEW e \in Email, Register(r, e) PROVE Alone(r)
  BY <1>1 DEF Register
<1>2. ASSUME NEW e \in Email, NEW action \in Limited, Attempt(r, action, e) PROVE Alone(r)
  BY <1>2 DEF Attempt
<1>3. ASSUME NEW s \in State, NEW p \in Provider, Initiate(r, s, p) PROVE Alone(r)
  BY <1>3 DEF Initiate
<1>4. ASSUME NEW x \in states, Callback(r, x) PROVE Alone(r)
  BY <1>4 DEF Callback
<1>5. ASSUME NEW t \in Token, Rotate(r, t) \/ Logout(r, t) PROVE Alone(r)
  BY <1>5 DEF Rotate, Logout
<1>6. ASSUME NEW u \in users, Deactivate(r, u) \/ Activate(r, u) PROVE Alone(r)
  BY <1>6 DEF Deactivate, Activate
<1> QED
  BY <1>1, <1>2, <1>3, <1>4, <1>5, <1>6, Zenon DEF Call

LEMMA StepAlone == ASSUME TypeInv, NEW r \in Request, Step(r) \/ Fail(r) PROVE Alone(r)
<1> USE DEF Alone, TypeInv, Goto, Over
<1>1. CASE Record(r)
  BY <1>1 DEF Record
<1>2. CASE Create(r)
  BY <1>2 DEF Create
<1>3. CASE Login(r)
  BY <1>3 DEF Login
<1>4. CASE Reset(r)
  BY <1>4 DEF Reset
<1>5. CASE Invalidate(r)
  BY <1>5 DEF Invalidate
<1>6. CASE Send(r)
  BY <1>6 DEF Send
<1>7. CASE Verify(r)
  BY <1>7 DEF Verify
<1>8. CASE FindVerified(r)
  BY <1>8 DEF FindVerified, FindOrCreate
<1>9. CASE Exchange(r)
  BY <1>9 DEF Exchange
<1>10. CASE Link(r)
  BY <1>10 DEF Link
<1>11. CASE Issue(r)
  BY <1>11 DEF Issue
<1>12. CASE Mark(r)
  BY <1>12 DEF Mark
<1>13. CASE Revoke(r)
  BY <1>13 DEF Revoke
<1>14. CASE DeleteToken(r)
  BY <1>14 DEF DeleteToken
<1>15. CASE Fail(r)
  BY <1>15 DEF Fail
<1> QED
  BY <1>1, <1>2, <1>3, <1>4, <1>5, <1>6, <1>7, <1>8, <1>9, <1>10, <1>11, <1>12, <1>13,
     <1>14, <1>15, Zenon DEF Step

-----------------------------------------------------------------------------
\* The exchange of a used token is over, lost, or at its last call.
LEMMA UsedElsewhere ==
    ASSUME TypeInv, UsedIsExchanged, NEW r \in Request, Alone(r), ~At(r, "issue"),
           \A t \in Token : tokens'[t].used => tokens[t].used,
           rotated \subseteq rotated', lost \subseteq lost'
    PROVE UsedIsExchanged'
<1> SUFFICES ASSUME NEW t \in Token, tokens'[t].used
             PROVE \/ t \in rotated' \cup lost'
                   \/ \E q \in Request : At(q, "issue")' /\ req'[q].token = t
  BY DEF UsedIsExchanged, At
<1>1. CASE t \in rotated \cup lost
  BY <1>1
<1>2. ASSUME NEW q \in Request, At(q, "issue"), req[q].token = t
      PROVE \E p \in Request : At(p, "issue")' /\ req'[p].token = t
  BY <1>2 DEF Alone, At
<1> QED
  BY <1>1, <1>2 DEF UsedIsExchanged

LEMMA UsedCall ==
    ASSUME TypeInv, UsedIsExchanged, NEW r \in Request, Call(r) PROVE UsedIsExchanged'
<1>1. At(r, "idle") /\ UNCHANGED <<tokens, rotated, lost>>
  <2> USE DEF Start, history
  <2>1. ASSUME NEW e \in Email, Register(r, e)
        PROVE At(r, "idle") /\ UNCHANGED <<tokens, rotated, lost>>
    BY <2>1 DEF Register
  <2>2. ASSUME NEW e \in Email, NEW action \in Limited, Attempt(r, action, e)
        PROVE At(r, "idle") /\ UNCHANGED <<tokens, rotated, lost>>
    BY <2>2 DEF Attempt
  <2>3. ASSUME NEW s \in State, NEW p \in Provider, Initiate(r, s, p)
        PROVE At(r, "idle") /\ UNCHANGED <<tokens, rotated, lost>>
    BY <2>3 DEF Initiate
  <2>4. ASSUME NEW x \in states, Callback(r, x)
        PROVE At(r, "idle") /\ UNCHANGED <<tokens, rotated, lost>>
    BY <2>4 DEF Callback
  <2>5. ASSUME NEW t \in Token, Rotate(r, t) \/ Logout(r, t)
        PROVE At(r, "idle") /\ UNCHANGED <<tokens, rotated, lost>>
    BY <2>5 DEF Rotate, Logout
  <2>6. ASSUME NEW u \in users, Deactivate(r, u) \/ Activate(r, u)
        PROVE At(r, "idle") /\ UNCHANGED <<tokens, rotated, lost>>
    BY <2>6 DEF Deactivate, Activate
  <2> QED
    BY <2>1, <2>2, <2>3, <2>4, <2>5, <2>6, Zenon DEF Call
<1> QED
  BY <1>1, CallAlone, UsedElsewhere DEF At

\* Only an exchange disturbs it: its mark, its last call, its failure.
LEMMA UsedStep ==
    ASSUME TypeInv, UsedIsExchanged, NEW r \in Request, Step(r) PROVE UsedIsExchanged'
<1> USE DEF Running, history, At
<1>1. Alone(r)
  BY StepAlone
<1>2. CASE \/ Record(r) \/ Create(r) \/ Login(r) \/ Reset(r) \/ Invalidate(r) \/ Send(r)
           \/ Verify(r) \/ FindVerified(r) \/ Exchange(r) \/ Link(r)
  <2>1. req[r].pc # "issue" /\ UNCHANGED <<tokens, rotated, lost>>
    BY <1>2 DEF Record, Create, Login, Reset, Invalidate, Send, Verify, FindVerified,
                Exchange, Link
  <2> QED
    BY <1>1, <2>1, UsedElsewhere
<1>3. CASE Issue(r)
  <2> SUFFICES ASSUME NEW t \in Token, tokens'[t].used
               PROVE \/ t \in rotated' \cup lost'
                     \/ \E q \in Request : At(q, "issue")' /\ req'[q].token = t
    BY DEF UsedIsExchanged
  <2>1. tokens[t].used
    BY <1>3 DEF Issue, TypeInv, NoToken
  <2>2. rotated' = rotated \cup ({req[r].token} \cap Token) /\ lost' = lost
    BY <1>3 DEF Issue
  <2>3. CASE t \in rotated \cup lost
    BY <2>2, <2>3
  <2>4. ASSUME NEW q \in Request, At(q, "issue"), req[q].token = t
        PROVE t \in rotated' \/ (At(q, "issue")' /\ req'[q].token = t)
    BY <1>1, <2>2, <2>4 DEF Alone
  <2> QED
    BY <2>1, <2>3, <2>4 DEF UsedIsExchanged
<1>4. CASE Mark(r)
  <2> SUFFICES ASSUME NEW t \in Token, tokens'[t].used
               PROVE \/ t \in rotated' \cup lost'
                     \/ \E q \in Request : At(q, "issue")' /\ req'[q].token = t
    BY DEF UsedIsExchanged
  <2>1. req[r] \in RequestState /\ req[r].pc = "mark" /\ UNCHANGED <<rotated, lost>>
    BY <1>4 DEF Mark, TypeInv
  <2>2. CASE t = req[r].token
    <3>1. At(r, "issue")' /\ req'[r].token = t
      BY <1>4, <2>1, <2>2 DEF Mark, Goto, TypeInv, RequestState, Locals
    <3> QED
      BY <3>1
  <2>3. CASE t # req[r].token
    <3>1. tokens[t].used
      BY <1>4, <2>3 DEF Mark, TypeInv
    <3>2. CASE t \in rotated \cup lost
      BY <2>1, <3>2
    <3>3. ASSUME NEW q \in Request, At(q, "issue"), req[q].token = t
          PROVE At(q, "issue")' /\ req'[q].token = t
      BY <1>1, <2>1, <3>3 DEF Alone
    <3> QED
      BY <3>1, <3>2, <3>3 DEF UsedIsExchanged
  <2> QED
    BY <2>2, <2>3
<1>5. CASE Revoke(r) \/ DeleteToken(r)
  <2>1. req[r].pc # "issue" /\ UNCHANGED <<rotated, lost>>
    BY <1>5 DEF Revoke, DeleteToken
  <2>2. \A t \in Token : tokens'[t].used => tokens[t].used
    BY <1>5 DEF Revoke, DeleteToken, Revoked, NoToken, TypeInv
  <2> QED
    BY <1>1, <2>1, <2>2, UsedElsewhere
<1> QED
  BY <1>2, <1>3, <1>4, <1>5 DEF Step

LEMMA UsedFault ==
    ASSUME TypeInv, UsedIsExchanged, (\E r \in Request : Fail(r)) \/ Restart
    PROVE UsedIsExchanged'
<1> SUFFICES ASSUME NEW t \in Token, tokens'[t].used
             PROVE \/ t \in rotated' \cup lost'
                   \/ \E q \in Request : At(q, "issue")' /\ req'[q].token = t
  BY DEF UsedIsExchanged
<1>1. tokens' = tokens /\ rotated' = rotated /\ lost \subseteq lost'
  BY DEF Fail, Restart
<1>2. CASE t \in rotated \cup lost
  BY <1>1, <1>2
<1>3. ASSUME NEW q \in Request, At(q, "issue"), req[q].token = t
      PROVE t \in lost' \/ (At(q, "issue")' /\ req'[q].token = t)
  <2>1. t \in Exchanged(q)
    BY <1>3 DEF Exchanged
  <2>2. CASE Restart
    BY <2>1, <2>2 DEF Restart
  <2>3. ASSUME NEW r \in Request, Fail(r)
        PROVE t \in lost' \/ (At(q, "issue")' /\ req'[q].token = t)
    <3>1. CASE q = r
      BY <2>1, <2>3, <3>1 DEF Fail
    <3>2. CASE q # r
      BY <1>3, <2>3, <3>2, StepAlone DEF Alone, At
    <3> QED
      BY <3>1, <3>2
  <2> QED
    BY <2>2, <2>3
<1> QED
  BY <1>1, <1>2, <1>3 DEF UsedIsExchanged

LEMMA UsedTime == ASSUME TypeInv, UsedIsExchanged, Time PROVE UsedIsExchanged'
<1> USE DEF Running, history
<1>1. UNCHANGED <<req, rotated, lost>>
  BY DEF Time, ExpireCode, Forget, ExpireState, Expire
<1>2. \A t \in Token : tokens'[t].used => tokens[t].used
  <2>1. CASE tokens' = tokens
    BY <2>1
  <2>2. ASSUME NEW t \in Token, Expire(t)
        PROVE \A u \in Token : tokens'[u].used => tokens[u].used
    <3>1. tokens \in [Token -> TokenDoc]
      BY DEF TypeInv
    <3>2. ASSUME NEW u \in Token, u # t PROVE tokens'[u] = tokens[u]
      BY <2>2, <3>1, <3>2 DEF Expire
    <3>3. tokens'[t].used => tokens[t].used
      BY <2>2, <3>1 DEF Expire, NoToken, TokenDoc
    <3> QED
      BY <3>2, <3>3
  <2> QED
    BY <2>1, <2>2 DEF Time, ExpireCode, Forget, ExpireState
<1> QED
  BY <1>1, <1>2 DEF UsedIsExchanged, At

\* The reuse of a refresh token, which ends every session of its owner, is never
\* seen in a token that nobody exchanged (token_manager.py, rotate).
THEOREM UsedTokenWasExchanged == Spec => []UsedIsExchanged
<1>1. Init => UsedIsExchanged
  BY DEF Init, UsedIsExchanged, NoToken
<1>2. TypeInv /\ UsedIsExchanged /\ [Next]_vars => UsedIsExchanged'
  <2> SUFFICES ASSUME TypeInv, UsedIsExchanged, [Next]_vars PROVE UsedIsExchanged'
    OBVIOUS
  <2>1. CASE UNCHANGED vars
    BY <2>1 DEF vars, UsedIsExchanged, At
  <2>2. CASE Next
    BY <2>2, UsedCall, UsedStep, UsedFault, UsedTime DEF Next
  <2> QED
    BY <2>1, <2>2
<1> QED
  BY <1>1, <1>2, Typed, PTL DEF Spec

-----------------------------------------------------------------------------
\* Accounts are never removed, so what a request found stays true.
Unique == \A u, v \in users : u.email = v.email => u = v
HasAccount(id) == \E u \in users : u.id = id
TokensOwned == \A t \in Token : tokens[t].there => HasAccount(tokens[t].owner)
Owned(l) == l.pc \in {"reset", "link", "issue", "mark"} => HasAccount(l.user)
OwnerInv == Unique /\ TokensOwned /\ \A r \in Request : Owned(req[r])

LEMMA Replaced ==
    ASSUME TypeInv, Unique, NEW u \in users, NEW w, w.id = u.id, w.email = u.email,
           users' = (users \ {u}) \cup {w}
    PROVE Unique' /\ \A id : HasAccount(id) => HasAccount(id)'
<1>1. Unique'
  <2> SUFFICES ASSUME NEW v1 \in users', NEW v2 \in users', v1.email = v2.email PROVE v1 = v2
    BY DEF Unique
  <2>1. CASE v1 = w /\ v2 = w
    BY <2>1
  <2>2. CASE v1 = w /\ v2 # w
    BY <2>2 DEF Unique
  <2>3. CASE v1 # w /\ v2 = w
    BY <2>3 DEF Unique
  <2>4. CASE v1 # w /\ v2 # w
    BY <2>4 DEF Unique
  <2> QED
    BY <2>1, <2>2, <2>3, <2>4
<1>2. ASSUME NEW id, NEW v \in users, v.id = id PROVE HasAccount(id)'
  <2>1. CASE v = u
    BY <1>2, <2>1 DEF HasAccount
  <2>2. CASE v # u
    BY <1>2, <2>2 DEF HasAccount
  <2> QED
    BY <2>1, <2>2
<1> QED
  BY <1>1, <1>2 DEF HasAccount

LEMMA UsersKept ==
    ASSUME TypeInv, Unique, [Next]_vars
    PROVE Unique' /\ \A id : HasAccount(id) => HasAccount(id)'
<1> DEFINE Goal == Unique' /\ \A id : HasAccount(id) => HasAccount(id)'
<1>1. CASE UNCHANGED users
  BY <1>1 DEF Unique, HasAccount
<1>2. ASSUME NEW r \in Request, NEW u \in users, Deactivate(r, u) PROVE Goal
  <2>1. [u EXCEPT !.active = FALSE].id = u.id /\ [u EXCEPT !.active = FALSE].email = u.email
    BY DEF TypeInv, AccountDoc
  <2> QED
    BY <1>2, <2>1, Replaced DEF Deactivate
<1>3. ASSUME NEW r \in Request, NEW u \in users, Activate(r, u) PROVE Goal
  <2>1. [u EXCEPT !.active = TRUE].id = u.id /\ [u EXCEPT !.active = TRUE].email = u.email
    BY DEF TypeInv, AccountDoc
  <2> QED
    BY <1>3, <2>1, Replaced DEF Activate
<1>4. ASSUME NEW r \in Request, Create(r) PROVE Goal
  <2>1. CASE UNCHANGED users
    BY <1>1, <2>1
  <2>2. ASSUME Account(req[r].email) = {}, NEW new, new.email = req[r].email,
               users' = users \cup {new}
        PROVE Goal
    <3>1. \A u \in users : u.email # new.email
      BY <2>2 DEF Account
    <3>2. Unique'
      BY <2>2, <3>1, Zenon DEF Unique
    <3>3. \A id : HasAccount(id) => HasAccount(id)'
      BY <2>2 DEF HasAccount
    <3> QED
      BY <3>2, <3>3
  <2>3. CASE ~Refused(req[r].email)
    <3>1. PICK id \in UserId :
            users' = users \cup {[id |-> id, email |-> req[r].email, method |-> req[r].kind,
                                  active |-> TRUE, linked |-> req[r].linked]}
      BY <1>4, <2>3, Zenon DEF Create
    <3> DEFINE new == [id |-> id, email |-> req[r].email, method |-> req[r].kind,
                       active |-> TRUE, linked |-> req[r].linked]
    <3>2. new.email = req[r].email
      OBVIOUS
    <3>3. Account(req[r].email) = {}
      BY <2>3 DEF Refused
    <3> HIDE DEF new
    <3> QED
      BY <2>2, <3>1, <3>2, <3>3 DEF new
  <2> QED
    BY <1>4, <2>1, <2>3, Zenon DEF Create
<1>5. ASSUME NEW r \in Request, Link(r) PROVE Goal
  <2> DEFINE After(u) == IF u.id = req[r].user THEN [u EXCEPT !.linked = @ \cup req[r].linked]
                         ELSE u
  <2>1. \A u \in users : After(u).id = u.id /\ After(u).email = u.email
    BY DEF TypeInv, AccountDoc
  <2>2. users' = {After(u) : u \in users}
    BY <1>5 DEF Link
  <2> HIDE DEF After
  <2>3. Unique'
    BY <2>1, <2>2 DEF Unique
  <2>4. \A id : HasAccount(id) => HasAccount(id)'
    BY <2>1, <2>2 DEF HasAccount
  <2> QED
    BY <2>3, <2>4
<1>6. CASE Time \/ Restart \/ UNCHANGED vars
  <2>1. UNCHANGED users
    BY <1>6 DEF Time, ExpireCode, Forget, ExpireState, Expire, Restart, vars
  <2> QED
    BY <1>1, <2>1
<1>7. ASSUME NEW r \in Request, Call(r) PROVE Goal
  <2>1. CASE \E u \in users : Deactivate(r, u) \/ Activate(r, u)
    BY <1>2, <1>3, <2>1
  <2>2. CASE ~ \E u \in users : Deactivate(r, u) \/ Activate(r, u)
    <3>1. UNCHANGED users
      BY <1>7, <2>2 DEF Call, Register, Attempt, Initiate, Callback, Rotate, Logout
    <3> QED
      BY <1>1, <3>1
  <2> QED
    BY <2>1, <2>2
<1>8. ASSUME NEW r \in Request, Step(r) \/ Fail(r) PROVE Goal
  <2>1. CASE Create(r) \/ Link(r)
    BY <1>4, <1>5, <2>1
  <2>2. CASE ~Create(r) /\ ~Link(r)
    <3>1. UNCHANGED users
      BY <1>8, <2>2 DEF Step, Record, Login, Reset, Invalidate, Send, Verify,
         FindVerified,
                        Exchange, Issue, Mark, Revoke, DeleteToken, Fail
    <3> QED
      BY <1>1, <3>1
  <2> QED
    BY <2>1, <2>2
<1> QED
  BY <1>6, <1>7, <1>8 DEF Next

\* A new token goes to the user of a request that found the account.
LEMMA TokensKept ==
    ASSUME TypeInv, OwnerInv, [Next]_vars
    PROVE \A t \in Token : tokens'[t].there => HasAccount(tokens'[t].owner)
<1> DEFINE Goal == \A t \in Token : tokens'[t].there => HasAccount(tokens'[t].owner)
<1> USE DEF OwnerInv, TokensOwned
<1>1. CASE UNCHANGED tokens
  BY <1>1
<1>2. ASSUME NEW s \in Token, NEW doc \in TokenDoc, tokens' = [tokens EXCEPT ![s] = doc],
             doc.there => HasAccount(doc.owner)
      PROVE Goal
  BY <1>2, Zenon DEF TypeInv
<1>3. ASSUME NEW s \in Token, tokens' = [tokens EXCEPT ![s] = NoToken] PROVE Goal
  <2>1. NoToken \in TokenDoc /\ ~NoToken.there
    BY DEF NoToken, TokenDoc
  <2> QED
    BY <1>2, <1>3, <2>1
<1>4. ASSUME NEW r \in Request, Issue(r) PROVE Goal
  <2>1. req[r] \in RequestState /\ HasAccount(req[r].user)
    BY <1>4 DEF Issue, At, Owned, TypeInv
  <2> DEFINE doc == [NoToken EXCEPT !.there = TRUE, !.owner = req[r].user]
  <2>2. doc \in TokenDoc /\ doc.owner = req[r].user
    BY <2>1 DEF RequestState, Locals, TokenDoc, NoToken
  <2>3. PICK s \in Token : tokens' = [tokens EXCEPT ![s] = doc]
    BY <1>4 DEF Issue
  <2> HIDE DEF doc
  <2> QED
    BY <1>2, <2>1, <2>2, <2>3
<1>5. ASSUME NEW r \in Request, Mark(r) PROVE Goal
  <2>1. req[r].token \in Token
    BY <1>5 DEF Mark, At, TypeInv, RequestState, Placed
  <2> DEFINE doc == [tokens[req[r].token] EXCEPT !.used = TRUE]
  <2>2. doc \in TokenDoc /\ doc.owner = tokens[req[r].token].owner
                         /\ doc.there = tokens[req[r].token].there
    BY <2>1 DEF TypeInv, TokenDoc
  <2>3. tokens' = [tokens EXCEPT ![req[r].token] = doc] \/ UNCHANGED tokens
    BY <1>5 DEF Mark
  <2> HIDE DEF doc
  <2> QED
    BY <1>1, <1>2, <2>1, <2>2, <2>3
<1>6. ASSUME NEW r \in Request, Revoke(r) PROVE Goal
  BY <1>6 DEF Revoke, NoToken
<1>7. ASSUME NEW r \in Request, DeleteToken(r) PROVE Goal
  <2>1. req[r].token \in Token
    BY <1>7 DEF DeleteToken, At, TypeInv, RequestState, Placed
  <2> QED
    BY <1>3, <1>7, <2>1 DEF DeleteToken, Revoked
<1>8. ASSUME NEW s \in Token, Expire(s) PROVE Goal
  <2> DEFINE doc == [tokens[s] EXCEPT !.expired = TRUE]
  <2>1. doc \in TokenDoc /\ doc.owner = tokens[s].owner /\ doc.there = tokens[s].there
    BY DEF TypeInv, TokenDoc
  <2>2. \/ tokens' = [tokens EXCEPT ![s] = doc]
        \/ tokens' = [tokens EXCEPT ![s] = NoToken]
    BY <1>8 DEF Expire
  <2> HIDE DEF doc
  <2> QED
    BY <1>2, <1>3, <2>1, <2>2
<1>9. CASE Restart \/ UNCHANGED vars
  BY <1>1, <1>9 DEF Restart, vars
<1>10. CASE Time
  <2>1. (\E s \in Token : Expire(s)) \/ UNCHANGED tokens
    BY <1>10 DEF Time, ExpireCode, Forget, ExpireState
  <2> QED
    BY <1>1, <1>8, <2>1
<1>11. ASSUME NEW r \in Request, Call(r) PROVE Goal
  <2>1. UNCHANGED tokens
    BY <1>11 DEF Call, Register, Attempt, Initiate, Callback, Rotate, Logout,
       Deactivate, Activate
  <2> QED
    BY <1>1, <2>1
<1>12. ASSUME NEW r \in Request, Step(r) \/ Fail(r) PROVE Goal
  <2>1. \/ Issue(r) \/ Mark(r) \/ Revoke(r) \/ DeleteToken(r)
        \/ UNCHANGED tokens
    BY <1>12 DEF Step, Record, Create, Login, Reset, Invalidate, Send, Verify,
       FindVerified,
                 Exchange, Link, Fail
  <2> QED
    BY <1>1, <1>4, <1>5, <1>6, <1>7, <2>1
<1> QED
  BY <1>9, <1>10, <1>11, <1>12 DEF Next

\* A request takes up a user it has just found, or has just created.
Found(l) == l.pc \in {"reset", "link", "issue", "mark"} =>
                HasAccount(l.user) \/ \E u \in users' : u.id = l.user

LEMMA CallOwned ==
    ASSUME TypeInv, OwnerInv, NEW r \in Request, Call(r) PROVE Found(req'[r])
<1> USE DEF Start
<1>1. ASSUME NEW e \in Email, Register(r, e) PROVE Found(req'[r])
  <2>1. req'[r].pc = "create"
    BY <1>1 DEF Register, Begin, TypeInv, Idle
  <2> QED
    BY <2>1 DEF Found
<1>2. ASSUME NEW e \in Email, NEW action \in Limited, Attempt(r, action, e)
      PROVE Found(req'[r])
  <2>1. req'[r].pc = "record"
    BY <1>2 DEF Attempt, Begin, TypeInv, Idle
  <2> QED
    BY <2>1 DEF Found
<1>3. ASSUME NEW x \in states, Callback(r, x) PROVE Found(req'[r])
  <2>1. req'[r].pc = "exchange"
    BY <1>3 DEF Callback, Begin, TypeInv, Idle
  <2> QED
    BY <2>1 DEF Found
<1>4. ASSUME NEW t \in Token, Rotate(r, t) PROVE Found(req'[r])
  <2>1. req'[r].user = tokens[t].owner /\ tokens[t].there
    BY <1>4 DEF Rotate, Begin, TypeInv, Idle
  <2>2. HasAccount(req'[r].user)
    BY <2>1 DEF OwnerInv, TokensOwned
  <2> QED
    BY <2>2 DEF Found
<1>5. ASSUME NEW t \in Token, Logout(r, t) PROVE Found(req'[r])
  <2>1. req'[r].pc = "logout"
    BY <1>5 DEF Logout, Begin, TypeInv, Idle
  <2> QED
    BY <2>1 DEF Found
<1>6. ASSUME NEW u \in users, Deactivate(r, u) PROVE Found(req'[r])
  <2>1. req'[r].pc = "revoke"
    BY <1>6 DEF Deactivate, Begin, TypeInv, Idle
  <2> QED
    BY <2>1 DEF Found
<1>7. CASE UNCHANGED req /\ At(r, "idle")
  BY <1>7 DEF Found, At
<1> QED
  BY <1>1, <1>2, <1>3, <1>4, <1>5, <1>6, <1>7 DEF Call, Initiate, Activate

LEMMA StepOwned ==
    ASSUME TypeInv, OwnerInv, NEW r \in Request, Step(r) \/ Fail(r) PROVE Found(req'[r])
<1>1. req[r] \in RequestState /\ req[r] \in Locals
  BY DEF TypeInv, RequestState
<1>2. CASE Over(r)
  <2>1. req'[r].pc = "idle"
    BY <1>2 DEF Over, TypeInv, Idle
  <2> QED
    BY <2>1 DEF Found
<1>3. ASSUME NEW pc, Goto(r, pc), pc \notin {"reset", "link", "issue", "mark"}
      PROVE Found(req'[r])
  <2>1. req'[r].pc = pc
    BY <1>1, <1>3 DEF Goto, TypeInv, Locals
  <2> QED
    BY <1>3, <2>1 DEF Found
<1>4. ASSUME NEW pc, Goto(r, pc), req[r].pc \in {"reset", "link", "mark"}
      PROVE Found(req'[r])
  <2>1. req'[r].user = req[r].user
    BY <1>1, <1>4 DEF Goto, TypeInv, Locals
  <2>2. HasAccount(req[r].user)
    BY <1>4 DEF OwnerInv, Owned
  <2> QED
    BY <2>1, <2>2 DEF Found
<1>5. ASSUME NEW u \in users, req'[r].user = u.id PROVE Found(req'[r])
  BY <1>5 DEF Found, HasAccount
<1>6. CASE Record(r)
  <2>1. Goto(r, req[r].kind) /\ req[r].kind \in Limited
    BY <1>1, <1>6 DEF Record, At, RequestState, Placed
  <2>2. req[r].kind \notin {"reset", "link", "issue", "mark"}
    BY <2>1, Zenon DEF Limited
  <2> QED
    BY <1>3, <2>1, <2>2
<1>7. CASE Create(r)
  <2>1. ASSUME NEW id \in UserId, req' = [req EXCEPT ![r].pc = "issue", ![r].user = id],
               users' = users \cup {[id |-> id, email |-> req[r].email, method |-> req[r].kind,
                                     active |-> TRUE, linked |-> req[r].linked]}
        PROVE Found(req'[r])
    <3>1. req'[r].user = id
      BY <1>1, <2>1 DEF TypeInv, Locals
    <3> DEFINE new == [id |-> id, email |-> req[r].email, method |-> req[r].kind,
                       active |-> TRUE, linked |-> req[r].linked]
    <3>2. new \in users' /\ new.id = id
      BY <2>1
    <3> HIDE DEF new
    <3> QED
      BY <3>1, <3>2, Zenon DEF Found
  <2> QED
    BY <1>2, <1>7, <2>1, Zenon DEF Create
<1>8. CASE Login(r)
  <2>1. ASSUME NEW u \in users, req' = [req EXCEPT ![r].pc = "reset", ![r].user = u.id]
        PROVE Found(req'[r])
    BY <1>1, <1>5, <2>1 DEF TypeInv, Locals
  <2> QED
    BY <1>2, <1>8, <2>1 DEF Login, Account
<1>9. CASE FindVerified(r)
  <2>1. ASSUME NEW u \in users, req' = [req EXCEPT ![r].pc = "issue", ![r].user = u.id]
        PROVE Found(req'[r])
    BY <1>1, <1>5, <2>1 DEF TypeInv, Locals
  <2>2. ASSUME req' = [req EXCEPT ![r].pc = "create", ![r].kind = "otp", ![r].email = req[r].email]
        PROVE Found(req'[r])
    <3>1. req'[r].pc = "create"
      BY <1>1, <2>2 DEF TypeInv, Locals
    <3> QED
      BY <3>1 DEF Found
  <2> QED
    BY <1>9, <2>1, <2>2 DEF FindVerified, FindOrCreate, Account
<1>10. CASE Exchange(r)
  <2>1. ASSUME NEW u \in users, NEW pc,
               req' = [req EXCEPT ![r].pc = pc, ![r].user = u.id, ![r].linked = {req[r].kind}]
        PROVE Found(req'[r])
    BY <1>1, <1>5, <2>1 DEF TypeInv, Locals
  <2>2. ASSUME NEW e \in Email,
               req' = [req EXCEPT ![r].pc = "create", ![r].email = e, ![r].linked = {req[r].kind}]
        PROVE Found(req'[r])
    <3>1. req'[r].pc = "create"
      BY <1>1, <2>2 DEF TypeInv, Locals
    <3> QED
      BY <3>1 DEF Found
  <2> QED
    BY <1>2, <1>10, <2>1, <2>2, Zenon DEF Exchange, Account
<1>11. CASE Reset(r) \/ Link(r) \/ Mark(r)
  BY <1>4, <1>11 DEF Reset, Link, Mark, At
<1>12. CASE Invalidate(r)
  BY <1>3, <1>12 DEF Invalidate
<1>13. CASE Verify(r)
  BY <1>2, <1>3, <1>13 DEF Verify
<1> QED
  BY <1>2, <1>6, <1>7, <1>8, <1>9, <1>10, <1>11, <1>12, <1>13
     DEF Step, Send, Issue, Revoke, DeleteToken, Fail

LEMMA OwnerStep == TypeInv /\ OwnerInv /\ [Next]_vars => OwnerInv'
<1> SUFFICES ASSUME TypeInv, OwnerInv, [Next]_vars PROVE OwnerInv'
  OBVIOUS
<1>1. Unique' /\ \A id : HasAccount(id) => HasAccount(id)'
  BY UsersKept DEF OwnerInv
<1>2. TokensOwned'
  <2> SUFFICES ASSUME NEW t \in Token, tokens'[t].there PROVE HasAccount(tokens[t].owner)'
    BY DEF TokensOwned
  <2>1. HasAccount(tokens'[t].owner)
    BY TokensKept
  <2> QED
    BY <1>1, <2>1 DEF HasAccount
<1>3. ASSUME NEW q \in Request PROVE Owned(req[q])'
  <2>1. CASE req'[q] = req[q]
    <3>1. Owned(req[q])
      BY DEF OwnerInv
    <3> QED
      BY <1>1, <2>1, <3>1 DEF Owned, HasAccount
  <2>2. CASE Found(req'[q])
    BY <1>1, <2>2 DEF Found, Owned, HasAccount
  <2>3. ASSUME NEW r \in Request, Call(r) \/ Step(r) \/ Fail(r) PROVE Owned(req[q])'
    <3>1. CASE q = r
      BY <2>2, <2>3, <3>1, CallOwned, StepOwned
    <3>2. CASE q # r
      BY <2>1, <2>3, <3>2, CallAlone, StepAlone DEF Alone
    <3> QED
      BY <3>1, <3>2
  <2>4. CASE Restart
    <3>1. req'[q].pc = "idle"
      BY <2>4 DEF Restart, Idle
    <3> QED
      BY <3>1 DEF Owned
  <2>5. CASE Time \/ UNCHANGED vars
    <3>1. UNCHANGED req
      BY <2>5 DEF Time, ExpireCode, Forget, ExpireState, Expire, vars
    <3> QED
      BY <2>1, <3>1
  <2> QED
    BY <2>3, <2>4, <2>5 DEF Next
<1> QED
  BY <1>1, <1>2, <1>3 DEF OwnerInv

\* However registrations, first verifications and first OAuth logins interleave,
\* an email has one account and a token an owner that exists (indexes.py, router.py).
THEOREM EmailHasOneAccount == Spec => []OneAccount
<1>1. Init => OwnerInv
  BY DEF Init, OwnerInv, Unique, TokensOwned, Owned, NoToken, Idle
<1>2. OwnerInv => OneAccount
  BY DEF OwnerInv, Unique, TokensOwned, HasAccount, OneAccount
<1> QED
  BY <1>1, <1>2, OwnerStep, Typed, PTL DEF Spec

-----------------------------------------------------------------------------
\* What was let past the limit and is not yet recorded counts as well.
Recording(e, a) == {r \in Request : req[r].pc = "record" /\ req[r].email = e /\ req[r].kind = a}
AttemptsInv ==
    \A e \in Email, a \in Limited :
        attempts[e][a] + Cardinality(Recording(e, a)) < MaxAttempts + Cardinality(Request)

LEMMA RecordingFinite ==
    \A S \in SUBSET Request : IsFiniteSet(S) /\ Cardinality(S) \in Nat
                              /\ Cardinality(S) <= Cardinality(Request)
  BY AccountsAssumption, FS_Subset, FS_CardinalityType

LEMMA CardinalityNat == Cardinality(Request) \in Nat
  BY AccountsAssumption, FS_CardinalityType

\* A step that records nothing and lets nobody past keeps the bound.
LEMMA AttemptsFewer ==
    ASSUME TypeInv, TypeInv', AttemptsInv,
           \A e \in Email, a \in Limited : attempts'[e][a] <= attempts[e][a],
           \A q \in Request : req'[q].pc = "record" => req'[q] = req[q]
    PROVE AttemptsInv'
<1> SUFFICES ASSUME NEW e \in Email, NEW a \in Limited
             PROVE attempts'[e][a] + Cardinality(Recording(e, a)')
                       < MaxAttempts + Cardinality(Request)
  BY DEF AttemptsInv
<1>1. Recording(e, a)' \subseteq Recording(e, a)
  BY DEF Recording
<1>2. IsFiniteSet(Recording(e, a)) /\ Cardinality(Recording(e, a)) \in Nat
  BY RecordingFinite DEF Recording
<1>3. Cardinality(Recording(e, a)') \in Nat
      /\ Cardinality(Recording(e, a)') <= Cardinality(Recording(e, a))
  BY <1>1, <1>2, FS_Subset, FS_CardinalityType
<1>4. attempts[e][a] \in Nat /\ attempts'[e][a] \in Nat /\ attempts'[e][a] <= attempts[e][a]
  BY DEF TypeInv
<1>5. attempts[e][a] + Cardinality(Recording(e, a)) < MaxAttempts + Cardinality(Request)
  BY DEF AttemptsInv
<1> QED
  BY <1>2, <1>3, <1>4, <1>5, AccountsAssumption, CardinalityNat

LEMMA AttemptKeeps ==
    ASSUME TypeInv, TypeInv', AttemptsInv, NEW r \in Request, NEW f \in Email,
           NEW action \in Limited, Attempt(r, action, f)
    PROVE AttemptsInv'
<1> SUFFICES ASSUME NEW e \in Email, NEW a \in Limited
             PROVE attempts'[e][a] + Cardinality(Recording(e, a)')
                       < MaxAttempts + Cardinality(Request)
  BY DEF AttemptsInv
<1>1. attempts' = attempts /\ attempts[e][a] \in Nat
  BY DEF Attempt, TypeInv
<1>2. req'[r].email = f /\ req'[r].kind = action
  BY DEF Attempt, Begin, TypeInv, Idle
<1>3. Alone(r)
  BY DEF Attempt, Begin, TypeInv, Alone
<1>4. CASE e = f /\ a = action
  <2>1. attempts[e][a] < MaxAttempts
    BY <1>4 DEF Attempt, HasRoom
  <2>2. Recording(e, a)' \in SUBSET Request
    BY DEF Recording
  <2>3. Cardinality(Recording(e, a)') \in Nat
        /\ Cardinality(Recording(e, a)') <= Cardinality(Request)
    BY <2>2, RecordingFinite
  <2> QED
    BY <1>1, <2>1, <2>3, AccountsAssumption, CardinalityNat
<1>5. CASE ~(e = f /\ a = action)
  <2>1. Recording(e, a)' \subseteq Recording(e, a)
    BY <1>2, <1>3, <1>5 DEF Recording, Alone
  <2>2. IsFiniteSet(Recording(e, a)) /\ Cardinality(Recording(e, a)) \in Nat
    BY RecordingFinite DEF Recording
  <2>3. Cardinality(Recording(e, a)') \in Nat
        /\ Cardinality(Recording(e, a)') <= Cardinality(Recording(e, a))
    BY <2>1, <2>2, FS_Subset, FS_CardinalityType
  <2>4. attempts[e][a] + Cardinality(Recording(e, a)) < MaxAttempts + Cardinality(Request)
    BY DEF AttemptsInv
  <2> QED
    BY <1>1, <2>2, <2>3, <2>4, AccountsAssumption, CardinalityNat
<1> QED
  BY <1>4, <1>5

LEMMA RecordKeeps ==
    ASSUME TypeInv, TypeInv', AttemptsInv, NEW r \in Request, Record(r)
    PROVE AttemptsInv'
<1> SUFFICES ASSUME NEW e \in Email, NEW a \in Limited
             PROVE attempts'[e][a] + Cardinality(Recording(e, a)')
                       < MaxAttempts + Cardinality(Request)
  BY DEF AttemptsInv
<1>1. /\ req[r] \in RequestState /\ req[r].pc = "record"
      /\ req[r].email \in Email /\ req[r].kind \in Limited
  BY DEF Record, At, TypeInv, RequestState, Placed, ByEmail
<1>2. Alone(r)
  BY StepAlone DEF Step
<1>3. req'[r].pc # "record"
  <2>1. req'[r].pc = req[r].kind
    BY <1>1 DEF Record, Goto, TypeInv, RequestState, Locals
  <2> QED
    BY <1>1, <2>1, Zenon DEF Limited
<1>4. Recording(e, a)' \subseteq Recording(e, a) \ {r}
  BY <1>2, <1>3 DEF Recording, Alone
<1>5. IsFiniteSet(Recording(e, a)) /\ Cardinality(Recording(e, a)) \in Nat
  BY RecordingFinite DEF Recording
<1>6. IsFiniteSet(Recording(e, a) \ {r})
      /\ Cardinality(Recording(e, a) \ {r}) =
             IF r \in Recording(e, a) THEN Cardinality(Recording(e, a)) - 1
             ELSE Cardinality(Recording(e, a))
  BY <1>5, FS_RemoveElement
<1>7. Cardinality(Recording(e, a)') \in Nat
      /\ Cardinality(Recording(e, a)') <= Cardinality(Recording(e, a) \ {r})
  BY <1>4, <1>6, FS_Subset, FS_CardinalityType
<1>8. attempts[e][a] \in Nat
      /\ attempts[e][a] + Cardinality(Recording(e, a)) < MaxAttempts + Cardinality(Request)
  BY DEF AttemptsInv, TypeInv
<1>9. CASE e = req[r].email /\ a = req[r].kind
  <2>1. r \in Recording(e, a)
    BY <1>1, <1>9 DEF Recording
  <2>2. attempts'[e][a] = attempts[e][a] + 1
    BY <1>1, <1>9 DEF Record, TypeInv
  <2> QED
    BY <1>5, <1>6, <1>7, <1>8, <2>1, <2>2, AccountsAssumption, CardinalityNat
<1>10. CASE ~(e = req[r].email /\ a = req[r].kind)
  <2>1. attempts'[e][a] = attempts[e][a]
    BY <1>1, <1>10 DEF Record, TypeInv
  <2>2. Cardinality(Recording(e, a) \ {r}) <= Cardinality(Recording(e, a))
    BY <1>5, <1>6
  <2>3. Cardinality(Recording(e, a) \ {r}) \in Nat
    BY <1>6, FS_CardinalityType
  <2> QED
    BY <1>5, <1>7, <1>8, <2>1, <2>2, <2>3, AccountsAssumption, CardinalityNat
<1> QED
  BY <1>9, <1>10

\* No other step of a request leaves it at the record of an attempt.
LEMMA CallRecords ==
    ASSUME TypeInv, NEW r \in Request, Call(r)
    PROVE \/ req'[r].pc # "record" \/ UNCHANGED req
          \/ \E e \in Email, action \in Limited : Attempt(r, action, e)
<1>1. ASSUME NEW e \in Email, Register(r, e) PROVE req'[r].pc # "record"
  BY <1>1 DEF Register, Begin, TypeInv, Idle
<1>2. ASSUME NEW x \in states, Callback(r, x) PROVE req'[r].pc # "record"
  BY <1>2 DEF Callback, Begin, TypeInv, Idle
<1>3. ASSUME NEW t \in Token, Rotate(r, t) PROVE req'[r].pc # "record"
  BY <1>3 DEF Rotate, Begin, TypeInv, Idle
<1>4. ASSUME NEW t \in Token, Logout(r, t) PROVE req'[r].pc # "record"
  BY <1>4 DEF Logout, Begin, TypeInv, Idle
<1>5. ASSUME NEW u \in users, Deactivate(r, u) PROVE req'[r].pc # "record"
  BY <1>5 DEF Deactivate, Begin, TypeInv, Idle
<1> QED
  BY <1>1, <1>2, <1>3, <1>4, <1>5 DEF Call, Initiate, Activate

LEMMA StepRecords ==
    ASSUME TypeInv, NEW r \in Request, Step(r) \/ Fail(r) PROVE req'[r].pc # "record"
<1>1. req[r] \in RequestState /\ req[r] \in Locals
  BY DEF TypeInv, RequestState
<1>2. CASE Over(r)
  BY <1>2 DEF Over, TypeInv, Idle
<1>3. ASSUME NEW pc, Goto(r, pc), pc # "record" PROVE req'[r].pc # "record"
  BY <1>1, <1>3 DEF Goto, TypeInv, Locals
<1>4. CASE Record(r)
  <2>1. Goto(r, req[r].kind) /\ req[r].kind \in Limited
    BY <1>1, <1>4 DEF Record, At, RequestState, Placed
  <2>2. req[r].kind # "record"
    BY <2>1, Zenon DEF Limited
  <2> QED
    BY <1>3, <2>1, <2>2
<1>5. CASE Create(r)
  BY <1>1, <1>2, <1>5 DEF Create, TypeInv, Locals
<1>6. CASE Login(r)
  <2>1. ASSUME NEW u \in users, req' = [req EXCEPT ![r].pc = "reset", ![r].user = u.id]
        PROVE req'[r].pc # "record"
    BY <1>1, <2>1 DEF TypeInv, Locals
  <2> QED
    BY <1>2, <1>6, <2>1, Zenon DEF Login, Account
<1>7. CASE FindVerified(r)
  BY <1>1, <1>2, <1>7 DEF FindVerified, FindOrCreate, TypeInv, Locals
<1>8. CASE Exchange(r)
  <2>1. ASSUME NEW u \in users, NEW pc \in {"issue", "link"},
               req' = [req EXCEPT ![r].pc = pc, ![r].user = u.id, ![r].linked = {req[r].kind}]
        PROVE req'[r].pc # "record"
    BY <1>1, <2>1 DEF TypeInv, Locals
  <2>2. ASSUME NEW e \in Email,
               req' = [req EXCEPT ![r].pc = "create", ![r].email = e, ![r].linked = {req[r].kind}]
        PROVE req'[r].pc # "record"
    BY <1>1, <2>2 DEF TypeInv, Locals
  <2> QED
    BY <1>2, <1>8, <2>1, <2>2, Zenon DEF Exchange, Account
<1>9. CASE Verify(r)
  BY <1>2, <1>3, <1>9 DEF Verify
<1>10. CASE Reset(r) \/ Invalidate(r) \/ Link(r) \/ Mark(r)
  BY <1>3, <1>10 DEF Reset, Invalidate, Link, Mark
<1> QED
  BY <1>2, <1>4, <1>5, <1>6, <1>7, <1>8, <1>9, <1>10
     DEF Step, Send, Issue, Revoke, DeleteToken, Fail

\* Only a record adds to what was counted.
LEMMA AttemptsCounted ==
    ASSUME TypeInv, [Next]_vars, ~ \E r \in Request : Record(r)
    PROVE \A e \in Email, a \in Limited : attempts'[e][a] <= attempts[e][a]
<1> DEFINE Goal == \A e \in Email, a \in Limited : attempts'[e][a] <= attempts[e][a]
<1>1. CASE UNCHANGED attempts
  BY <1>1 DEF TypeInv
<1>2. ASSUME NEW r \in Request, Reset(r) PROVE Goal
  <2>1. req[r].email \in Email
    BY <1>2 DEF Reset, At, TypeInv, RequestState, Placed, ByEmail
  <2> QED
    BY <1>2, <2>1 DEF Reset, TypeInv, Limited
<1>3. ASSUME NEW e \in Email, NEW action \in Limited, Forget(e, action) PROVE Goal
  BY <1>3 DEF Forget, TypeInv
<1>4. CASE Restart \/ UNCHANGED vars
  BY <1>1, <1>4 DEF Restart, vars
<1>5. CASE Time
  BY <1>1, <1>3, <1>5 DEF Time, ExpireCode, ExpireState, Expire
<1>6. ASSUME NEW r \in Request, Call(r) PROVE Goal
  BY <1>1, <1>6 DEF Call, Register, Attempt, Initiate, Callback, Rotate, Logout,
     Deactivate,
                    Activate
<1>7. ASSUME NEW r \in Request, Step(r) \/ Fail(r) PROVE Goal
  BY <1>1, <1>2, <1>7
     DEF Step, Create, Login, Invalidate, Send, Verify, FindVerified, Exchange, Link, Issue,
         Mark, Revoke, DeleteToken, Fail
<1> QED
  BY <1>4, <1>5, <1>6, <1>7 DEF Next

LEMMA AttemptsStep == TypeInv /\ AttemptsInv /\ [Next]_vars => AttemptsInv'
<1> SUFFICES ASSUME TypeInv, AttemptsInv, [Next]_vars PROVE AttemptsInv'
  OBVIOUS
<1>1. TypeInv'
  BY TypeStep
<1>2. CASE \E r \in Request : Record(r)
  BY <1>1, <1>2, RecordKeeps
<1>3. CASE \E r \in Request, e \in Email, action \in Limited : Attempt(r, action, e)
  BY <1>1, <1>3, AttemptKeeps
<1>4. CASE /\ ~ \E r \in Request : Record(r)
           /\ ~ \E r \in Request, e \in Email, action \in Limited : Attempt(r, action, e)
  <2>1. \A e \in Email, a \in Limited : attempts'[e][a] <= attempts[e][a]
    BY <1>4, AttemptsCounted
  <2>2. ASSUME NEW q \in Request, req'[q].pc = "record" PROVE req'[q] = req[q]
    <3>1. ASSUME NEW r \in Request, Call(r) PROVE req'[q] = req[q]
      <4>1. req'[r].pc # "record" \/ UNCHANGED req
        BY <1>4, <3>1, CallRecords
      <4>2. Alone(r)
        BY <3>1, CallAlone
      <4> QED
        BY <2>2, <4>1, <4>2 DEF Alone
    <3>2. ASSUME NEW r \in Request, Step(r) \/ Fail(r) PROVE req'[q] = req[q]
      BY <2>2, <3>2, StepRecords, StepAlone DEF Alone
    <3>3. CASE Restart
      BY <2>2, <3>3 DEF Restart, Idle
    <3>4. CASE Time \/ UNCHANGED vars
      BY <3>4 DEF Time, ExpireCode, Forget, ExpireState, Expire, vars
    <3> QED
      BY <3>1, <3>2, <3>3, <3>4 DEF Next
  <2> QED
    BY <1>1, <2>1, <2>2, AttemptsFewer
<1> QED
  BY <1>2, <1>3, <1>4

\* The limiter reads and records in two calls: it is exceeded by at most the
\* requests that run side by side, however many they are (rate_limiter.py).
THEOREM LimiterExceededBySideBySide == Spec => []AttemptsBounded
<1>1. Init => AttemptsInv
  <2> SUFFICES ASSUME Init, NEW e \in Email, NEW a \in Limited
               PROVE attempts[e][a] + Cardinality(Recording(e, a))
                         < MaxAttempts + Cardinality(Request)
    BY DEF AttemptsInv
  <2>1. attempts[e][a] = 0 /\ Recording(e, a) = {}
    BY DEF Init, Idle, Recording
  <2>2. Cardinality(Recording(e, a)) = 0
    BY <2>1, FS_EmptySet
  <2> QED
    BY <2>1, <2>2, AccountsAssumption, CardinalityNat
<1>2. TypeInv /\ AttemptsInv => AttemptsBounded
  <2> SUFFICES ASSUME TypeInv, AttemptsInv, NEW e \in Email, NEW a \in Limited
               PROVE attempts[e][a] < MaxAttempts + Cardinality(Request)
    BY DEF AttemptsBounded
  <2>1. attempts[e][a] \in Nat /\ Cardinality(Recording(e, a)) \in Nat
    BY RecordingFinite DEF TypeInv, Recording
  <2>2. attempts[e][a] + Cardinality(Recording(e, a)) < MaxAttempts + Cardinality(Request)
    BY DEF AttemptsInv
  <2> QED
    BY <2>1, <2>2, AccountsAssumption, CardinalityNat
<1> QED
  BY <1>1, <1>2, AttemptsStep, Typed, PTL DEF Spec

=============================================================================
