---------------------------- MODULE BrowserSession ----------------------------
(***************************************************************************)
(* The session of a browser tab (frontend/src/services/session.js) and the *)
(* protected requests sent under it (protectedRequest.js): renewal of the  *)
(* credentials, sign-in and sign-out, replay after a verifier's rejection. *)
(* JavaScript runs to its next await; between two awaits anything happens. *)
(***************************************************************************)
EXTENDS Naturals

CONSTANTS
  Owners,
  Stored,      \* the accounts whose credentials the storage may hold at the page load
  Requests,
  Replayable,  \* the requests on protectedRequest's allowlist
  Changes,     \* bound on sign-ins and sign-outs
  Troubles,    \* bound on tokens that age or are rejected and on renewals that fail
  Null

Token == [serial : Nat, owner : Owners, signin : Nat]
Session == [generation : Nat, owner : Owners \cup {Null}]
Renewal == [serial : Nat, generation : Nat, owner : Owners \cup {Null}, refresh : Token]

ASSUME SessionAssumption ==
  /\ Null \notin Owners \cup Token \cup Renewal /\ Stored \subseteq Owners
  /\ Replayable \subseteq Requests
  /\ Changes \in Nat /\ Troubles \in Nat

VARIABLES
  generation, status,
  owner,       \* of the stored tokens, else the stored sessionOwner, else Null
  access,      \* the stored access and id tokens, written together, or Null
  stale,       \* access is too old to be used: expired or, where it can be renewed, in its last 30 s
  refresh,     \* the stored refresh token, or Null
  renewal,     \* the shared renewal operation, or Null
  renewals,    \* renewals whose answer is awaited
  cooling,     \* Date.now() < retryAfter
  signing,     \* sign-ins in flight: the session they began in and the account
  req,         \* the protected requests
  refused,     \* access tokens the verifier no longer accepts
  issued,      \* counts tokens and renewals
  work,        \* history: how often a request's work was performed
  signin,      \* history: the sign-in the session stems from, 0 when it ended
  changed, troubled

store == <<generation, status, owner, access, stale, refresh, renewal, cooling>>
vars == <<store, renewals, signing, req, refused, issued, work, signin, changed, troubled>>

getSession == [generation |-> generation, owner |-> owner]
Idle == [pc |-> "idle", started |-> [generation |-> 0, owner |-> Null], data |-> Null,
         token |-> Null, again |-> FALSE, on |-> Null, reply |-> Null]

\* A request that has ended keeps nothing.
Ended(pc) == [Idle EXCEPT !.pc = pc]

\* A page load: the storage holds what an earlier load of the tab left.
Init ==
  /\ generation = 0 /\ status = "idle" /\ cooling = FALSE /\ renewal = Null
  /\ \E o \in Stored, a, r \in BOOLEAN :
       LET token(n) == [serial |-> n, owner |-> o, signin |-> 1]
       IN /\ owner \in IF a THEN {o} ELSE {o, Null}
          /\ access = IF a THEN token(1) ELSE Null
          /\ refresh = IF r THEN token(2) ELSE Null
          /\ stale \in {FALSE, a}
          /\ signin = IF a \/ r THEN 1 ELSE 0
  /\ renewals = {} /\ signing = {} /\ refused = {} /\ issued = 2
  /\ req = [r \in Requests |-> Idle] /\ work = [r \in Requests |-> 0]
  /\ changed = 0 /\ troubled = 0

Change == changed < Changes /\ changed' = changed + 1
Trouble == troubled < Troubles /\ troubled' = troubled + 1

\* Seeded bug: the account alone is compared.
isCurrentOwner(s) == s.owner \in {Null, owner}

isCurrentSession(s) == generation = s.generation /\ s.owner \in {Null, owner}

-----------------------------------------------------------------------------
(* Sign-in and sign-out *)

SignIn(o) ==
  /\ Change
  /\ signing' = signing \cup {[session |-> getSession, account |-> o]}
  /\ UNCHANGED <<store, renewals, req, refused, issued, work, signin, troubled>>

acceptSignIn(o) ==
  /\ generation' = generation + 1 /\ status' = "ready" /\ owner' = o
  /\ renewal' = Null /\ cooling' = FALSE /\ stale' = FALSE
  /\ access' = [serial |-> issued + 1, owner |-> o, signin |-> changed + 1]
  /\ refresh' \in {Null, [serial |-> issued + 2, owner |-> o, signin |-> changed + 1]}
  /\ signin' = changed + 1 /\ issued' = issued + 2

\* Cognito answers a sign-in: it counts in the session it began in only.
SignInAnswered(s) ==
  /\ s \in signing
  /\ signing' = signing \ {s}
  /\ \/ isCurrentSession(s.session) /\ acceptSignIn(s.account)
     \/ UNCHANGED <<store, issued, signin>>          \* refused, or another session by now
  /\ UNCHANGED <<renewals, req, refused, work, changed, troubled>>

signOut ==
  /\ Change
  /\ generation' = generation + 1
  /\ access' = Null /\ refresh' = Null /\ owner' = Null /\ stale' = FALSE
  /\ renewal' = Null /\ cooling' = FALSE /\ status' = "signed-out" /\ signin' = 0
  /\ UNCHANGED <<renewals, signing, req, refused, issued, work, troubled>>

\* requireSignIn() of a current session.  Owner, cooldown and shared renewal stay.
requireSignIn ==
  /\ IF status = "signin-required"
     THEN UNCHANGED <<generation, status, access, stale, refresh, signin>>
     ELSE /\ generation' = generation + 1 /\ status' = "signin-required"
          /\ access' = Null /\ stale' = FALSE /\ refresh' = Null /\ signin' = 0
  /\ UNCHANGED <<owner, cooling>>

-----------------------------------------------------------------------------
(* ensureSession *)

\* Seeded bug: a rejected token forces a renewal even if it has been replaced since.
forcedAlways(rejected) == rejected # Null

forced(rejected) == rejected # Null /\ access = rejected

usable(rejected) ==
  /\ ~forced(rejected) /\ access # Null /\ ~stale

joined == renewal # Null /\ renewal.generation = generation

Operation == [serial |-> issued + 1, generation |-> generation, owner |-> owner, refresh |-> refresh]

\* What ensureSession gives its caller at its first await.
outcome(rejected) ==
  IF usable(rejected) THEN "ensured"
  ELSE IF refresh # Null /\ (joined \/ ~cooling) THEN "renewing"
  ELSE "failed"

\* What it does until then: nothing, a renewal, or the demand to sign in.
ensureSession(rejected) ==
  IF usable(rejected) THEN UNCHANGED <<store, renewals, issued, signin>>
  ELSE IF refresh = Null THEN requireSignIn /\ UNCHANGED <<renewal, renewals, issued>>
  ELSE IF joined \/ cooling THEN UNCHANGED <<store, renewals, issued, signin>>
  ELSE /\ renewal' = Operation /\ renewals' = renewals \cup {Operation} /\ issued' = issued + 1
       /\ UNCHANGED <<generation, status, owner, access, stale, refresh, cooling, signin>>

\* watchSession: the page gets the focus.
Restore ==
  /\ access # Null \/ refresh # Null
  /\ ensureSession(Null)
  /\ UNCHANGED <<signing, req, refused, work, changed, troubled>>

Cooled ==
  /\ cooling /\ cooling' = FALSE
  /\ UNCHANGED <<generation, status, owner, access, stale, refresh, renewal,
                 renewals, signing, req, refused, issued, work, signin, changed, troubled>>

\* Seeded bug: only callers of the present session hear of a renewal's end.
WaitsNow(r, op) == req[r].pc = "renewing" /\ req[r].on = op /\ req[r].started.generation = generation

Waits(r, op) == req[r].pc = "renewing" /\ req[r].on = op

\* The callers of a renewal that ends: to their next step with its token, or failed.
Settle(op, token) ==
  req' = [r \in Requests |->
    IF ~Waits(r, op) THEN req[r]
    ELSE IF token = Null THEN Ended("failed")
    ELSE [req[r] EXCEPT !.pc = "ensured", !.on = Null, !.token = token]]

finally(op) == renewal' = IF renewal = op THEN Null ELSE renewal

\* Seeded bug: a renewal is taken for the present session's whenever it ends.
SameAlways(op) == TRUE

Same(op) == isCurrentSession(op)

\* Seeded bug: a renewal's tokens are stored whatever happened meanwhile.
InForceAnyway(op) == TRUE

InForce(op) == Same(op) /\ refresh = op.refresh

\* Cognito answers a renewal with valid tokens of the owner; a rotated refresh token or not.
Renewed(op) ==
  /\ op \in renewals /\ InForce(op)
  /\ LET token == [serial |-> op.serial, owner |-> op.refresh.owner, signin |-> op.refresh.signin]
     IN /\ access' = token
        /\ refresh' \in {op.refresh, token}
        /\ owner' = token.owner
        /\ Settle(op, token)
  /\ stale' = FALSE /\ status' = "ready" /\ cooling' = FALSE
  /\ finally(op) /\ renewals' = renewals \ {op}
  /\ UNCHANGED <<generation, signing, refused, issued, work, signin, changed, troubled>>

\* NotAuthorizedException, UserNotFoundException.
RenewalRefused(op) ==
  /\ Trouble
  /\ op \in renewals /\ Same(op)
  /\ requireSignIn
  /\ Settle(op, Null)
  /\ finally(op) /\ renewals' = renewals \ {op}
  /\ UNCHANGED <<signing, refused, issued, work, changed>>

\* No answer within 15 seconds, any other error or an invalid result: credentials are kept.
RenewalUnavailable(op) ==
  /\ Trouble
  /\ op \in renewals /\ Same(op)
  /\ status' = "unavailable" /\ cooling' = TRUE
  /\ Settle(op, Null)
  /\ finally(op) /\ renewals' = renewals \ {op}
  /\ UNCHANGED <<generation, owner, access, stale, refresh,
                 signing, refused, issued, work, signin, changed>>

\* Whatever comes of a renewal of an earlier session is dropped.
RenewalLate(op) ==
  /\ op \in renewals /\ ~Same(op)
  /\ Settle(op, Null)
  /\ finally(op) /\ renewals' = renewals \ {op}
  /\ UNCHANGED <<generation, status, owner, access, stale, refresh, cooling,
                 signing, refused, issued, work, signin, changed, troubled>>

RenewalEnds(op) == Renewed(op) \/ RenewalRefused(op) \/ RenewalUnavailable(op) \/ RenewalLate(op)

-----------------------------------------------------------------------------
(* protectedRequest *)

Ensuring(call, rejected) ==
  LET pc == outcome(rejected)
  IN IF pc = "failed" THEN Ended(pc) ELSE [call EXCEPT !.pc = pc,
        !.token = IF pc = "ensured" THEN access ELSE Null,
        !.on = IF pc # "renewing" THEN Null ELSE IF joined THEN renewal ELSE Operation]

\* It carries the data of the account its closure knows, else of the present one.
Call(supplied) == [Idle EXCEPT !.started = getSession, !.data = IF supplied = Null THEN owner ELSE supplied]

\* A request begins, with data or headers that name an account (supplied) or none.
Request(r, supplied) ==
  /\ req[r].pc = "idle"
  /\ IF supplied \in {Null, owner}
     THEN req' = [req EXCEPT ![r] = Ensuring(Call(supplied), Null)] /\ ensureSession(Null)
     ELSE req' = [req EXCEPT ![r] = Ended("failed")] /\ UNCHANGED <<store, renewals, issued, signin>>
  /\ UNCHANGED <<signing, refused, work, changed, troubled>>

\* ensureSession has returned: the request goes out with its credentials in the session
\* it started in, and not at all in another.
Dispatch(r) ==
  /\ req[r].pc = "ensured"
  /\ req' = [req EXCEPT ![r] = IF isCurrentSession(req[r].started) THEN [@ EXCEPT !.pc = "sent"] ELSE Ended("failed")]
  /\ UNCHANGED <<store, renewals, signing, refused, issued, work, signin, changed, troubled>>

Answer(r, reply) == req' = [req EXCEPT ![r].pc = "answered", ![r].reply = reply]

\* The API.  Its verifier comes before the work of the allowlisted endpoints; nothing is
\* assumed of the others.  Work done may be answered by an error, or not at all.
Serve(r) ==
  /\ req[r].pc = "sent"
  /\ \/ /\ req[r].token.serial \in refused
        /\ Answer(r, "rejected") /\ UNCHANGED work
     \/ /\ req[r].token.serial \notin refused
        /\ work' = [work EXCEPT ![r] = @ + 1]
        /\ \E reply \in {"ok", "error"} \cup IF r \in Replayable THEN {} ELSE {"rejected"} :
             Answer(r, reply)
     \/ /\ Answer(r, "error") /\ UNCHANGED work       \* the request never arrived
  /\ UNCHANGED <<store, renewals, signing, refused, issued, signin, changed, troubled>>

\* Seeded bug: the allowlist is left out.
replayableAll(r) == req[r].reply = "rejected"

\* isAuthRejection and replayable.
replayable(r) == r \in Replayable /\ req[r].reply = "rejected"

\* The answer: returned, thrown, or a verifier's rejection, for which the request is
\* replayed once with other credentials; the second one demands to sign in.
Receive(r) ==
  /\ req[r].pc = "answered"
  /\ LET call == req[r]
         End(pc) == req' = [req EXCEPT ![r] = Ended(pc)] /\ UNCHANGED <<renewal, renewals, issued>>
     IN IF ~isCurrentSession(call.started) \/ (call.reply # "ok" /\ ~replayable(r))
        THEN End("failed") /\ UNCHANGED <<store, signin>>
        ELSE IF call.reply = "ok" THEN End("done") /\ UNCHANGED <<store, signin>>
        ELSE IF call.again THEN End("failed") /\ requireSignIn
        ELSE /\ req' = [req EXCEPT ![r] = Ensuring([call EXCEPT !.again = TRUE, !.reply = Null], call.token)]
             /\ ensureSession(call.token)
  /\ UNCHANGED <<signing, refused, work, changed, troubled>>

-----------------------------------------------------------------------------
(* Time and the verifier *)

\* The access token comes near enough to its expiry.
Ages ==
  /\ Trouble
  /\ access # Null /\ ~stale /\ stale' = TRUE
  /\ UNCHANGED <<generation, status, owner, access, refresh, renewal, cooling,
                 renewals, signing, req, refused, issued, work, signin, changed>>

\* The verifier stops accepting a token: it expired, was revoked or its key is gone.
Refuse ==
  /\ Trouble
  /\ \E t \in ({access} \cup {req[r].token : r \in Requests}) \ {Null} :
       t.serial \notin refused /\ refused' = refused \cup {t.serial}
  /\ UNCHANGED <<store, renewals, signing, req, issued, work, signin, changed>>

Next ==
  \/ \E o \in Owners : SignIn(o)
  \/ \E s \in signing : SignInAnswered(s)
  \/ signOut \/ Restore \/ Cooled \/ Ages \/ Refuse
  \/ \E op \in renewals : RenewalEnds(op)
  \/ \E r \in Requests :
       \/ \E supplied \in Owners \cup {Null} : Request(r, supplied)
       \/ Dispatch(r) \/ Serve(r) \/ Receive(r)

Spec == Init /\ [][Next]_vars

\* Promise callbacks run; a renewal ends within its 15 seconds; HTTP requests end.
Fairness ==
  /\ WF_vars(\E op \in renewals : RenewalEnds(op))
  /\ \A r \in Requests : WF_vars(Dispatch(r)) /\ WF_vars(Serve(r)) /\ WF_vars(Receive(r))

FairSpec == Spec /\ Fairness

-----------------------------------------------------------------------------
(* Properties *)

Calls == [pc : {"idle", "ensured", "renewing", "sent", "answered", "done", "failed"},
         started : Session, data : Owners \cup {Null}, token : Token \cup {Null},
         again : BOOLEAN, on : Renewal \cup {Null},
         reply : {Null, "ok", "rejected", "error"}]

\* Types; a request that goes out has credentials.
TypeOK ==
  /\ generation \in Nat /\ cooling \in BOOLEAN
  /\ status \in {"idle", "ready", "signed-out", "signin-required", "unavailable"}
  /\ owner \in Owners \cup {Null}
  /\ access \in Token \cup {Null} /\ refresh \in Token \cup {Null}
  /\ stale \in BOOLEAN
  /\ renewal \in Renewal \cup {Null} /\ renewals \in SUBSET Renewal
  /\ signing \in SUBSET [session : Session, account : Owners]
  /\ req \in [Requests -> Calls] /\ \A r \in Requests : req[r].pc = "sent" => req[r].token # Null
  /\ refused \in SUBSET Nat /\ issued \in Nat
  /\ work \in [Requests -> Nat]
  /\ signin \in Nat /\ changed \in 0..Changes /\ troubled \in 0..Troubles

\* session.js: stored credentials descend from the sign-in that is in force, so nothing
\* that was under way when it ended (a renewal, another sign-in) brings back old ones.
CredentialsInForce == \A t \in {access, refresh} \ {Null} : t.signin = signin /\ owner \in {Null, t.owner}

\* The status the pages follow agrees with the credentials, whatever answers come late.
StatusHonest ==
  /\ status \in {"signed-out", "signin-required"} => access = Null /\ refresh = Null
  /\ status = "ready" => access # Null
  /\ status = "unavailable" => refresh # Null

\* A refresh token that rotates must not be used twice, and not without need: a renewal is
\* sent when the token is missing, old or rejected and no other one of the session is under
\* way.  The late rejection of a token replaced since is no reason.
RenewedOnceForCause ==
  [][\A op \in renewals' \ renewals :
       /\ access = Null \/ stale \/ access.serial \in refused
       /\ \A other \in renewals : other.generation # generation]_vars

\* protectedRequest.js: no request does its work twice, replayed or not.
AtMostOnce == \A r \in Requests : work[r] <= 1

\* docs/session-refresh.md: a request's work is done for the account it was made by and
\* whose data it carries, whoever signs in while it waits; an answer reaches its caller
\* only in the session of the account it was computed for.
AccountsApart ==
  [][\A r \in Requests :
       /\ work'[r] # work[r] =>
            req[r].token.owner = req[r].data \/ (req[r].data = Null /\ req[r].started.owner = Null)
       /\ req[r].pc # "done" /\ req'[r].pc = "done" =>
            req[r].token.owner = owner /\ req[r].token.signin = signin]_vars

\* Every protected request ends, in whatever session it wakes up.
RequestsEnd == \A r \in Requests : req[r].pc # "idle" ~> req[r].pc \in {"done", "failed"}
=============================================================================
