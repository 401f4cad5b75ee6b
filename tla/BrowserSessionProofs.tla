------------------------- MODULE BrowserSessionProofs -------------------------
(***************************************************************************)
(* Proofs about BrowserSession, for any accounts, requests and bounds.     *)
(***************************************************************************)
EXTENDS BrowserSession, TLAPS

\* The operations whose answers somebody awaits.
Operations == renewals \cup ({renewal} \ {Null})

(***************************************************************************)
(* What relates credentials, generations and renewals.  A renewal of the   *)
(* present generation was begun with a refresh token of the account that   *)
(* is stored now; whatever ends a session begins a generation.             *)
(***************************************************************************)
SessionInv ==
  /\ access # Null => access.signin = signin /\ owner = access.owner
  /\ refresh # Null => refresh.signin = signin /\ owner \in {Null, refresh.owner}
  /\ \A op \in Operations :
       /\ op.generation <= generation
       /\ op.generation = generation => refresh # Null /\ refresh.owner = op.refresh.owner
  /\ StatusHonest

\* What a request under way may carry, and what it has done.
CallInv(r) ==
  /\ req[r].pc \in {"renewing", "ensured", "sent", "answered"} =>
       req[r].data = req[r].started.owner /\ req[r].started.generation <= generation
  /\ req[r].pc = "renewing" =>
       req[r].on # Null /\ (req[r].data = Null \/ req[r].on.refresh.owner = req[r].data)
  /\ req[r].pc \in {"ensured", "sent", "answered"} =>
       /\ req[r].token # Null
       /\ req[r].data = Null \/ req[r].token.owner = req[r].data
       /\ req[r].started.generation = generation =>
            req[r].token.owner = owner /\ req[r].token.signin = signin
  /\ work[r] <= 1
  /\ req[r].pc \in {"idle", "renewing", "ensured", "sent"} => work[r] = 0
  /\ req[r].pc = "answered" /\ replayable(r) => work[r] = 0

IInv == TypeOK /\ SessionInv /\ \A r \in Requests : CallInv(r)

\* Sessions, tokens and operations are not Null.
LEMMA NullIsApart == Null \notin Owners /\ Null \notin Token /\ Null \notin Renewal
  BY SessionAssumption

\* The page load establishes the invariant.
LEMMA InitInv == Init => IInv
<1> SUFFICES ASSUME Init PROVE IInv
  OBVIOUS
<1>1. PICK o \in Stored, a \in BOOLEAN, r \in BOOLEAN :
        /\ owner \in IF a THEN {o} ELSE {o, Null}
        /\ access = IF a THEN [serial |-> 1, owner |-> o, signin |-> 1] ELSE Null
        /\ refresh = IF r THEN [serial |-> 2, owner |-> o, signin |-> 1] ELSE Null
        /\ stale \in {FALSE, a}
        /\ signin = IF a \/ r THEN 1 ELSE 0
  BY DEF Init
<1>2. o \in Owners
  BY SessionAssumption
<1>3. TypeOK
  <2>1. access \in Token \cup {Null} /\ refresh \in Token \cup {Null}
    BY <1>1, <1>2 DEF Token
  <2>2. Idle \in Calls /\ Idle.pc = "idle"
    BY DEF Idle, Calls, Session
  <2>3. req \in [Requests -> Calls] /\ \A q \in Requests : req[q].pc # "sent"
    BY <2>2 DEF Init
  <2>4. changed \in 0..Changes /\ troubled \in 0..Troubles /\ signin \in Nat
    BY <1>1, SessionAssumption DEF Init
  <2>6. stale \in BOOLEAN
    BY <1>1, Zenon
  <2>5. owner \in Owners \cup {Null} /\ work \in [Requests -> Nat]
    BY <1>1, <1>2 DEF Init
  <2> QED BY <2>1, <2>3, <2>4, <2>5, <2>6 DEF Init, TypeOK
<1>4. SessionInv
  BY <1>1, <1>2, NullIsApart DEF Init, SessionInv, Operations, StatusHonest, Token
<1>5. \A q \in Requests : CallInv(q)
  BY DEF Init, CallInv, Idle, replayable
<1> QED BY <1>3, <1>4, <1>5 DEF IInv

-----------------------------------------------------------------------------
(* The parts of a step: what changes the session, and what becomes of a call. *)

\* The session goes on for its account, or ends and another generation begins.
Held == generation' = generation /\ signin' = signin /\ (owner # Null => owner' = owner)
Ends == generation' = generation + 1

\* A request that a step leaves alone keeps its invariant.
LEMMA CallKept ==
  ASSUME IInv, NEW r \in Requests, req'[r] = req[r], work'[r] = work[r], Held \/ Ends
  PROVE  CallInv(r)'
<1>1. /\ req[r] \in Calls /\ generation \in Nat
      /\ req[r].token # Null => req[r].token.owner \in Owners
  BY DEF IInv, TypeOK, Calls, Token
<1>2. req[r].started.generation \in Nat
  BY <1>1 DEF Calls, Session
<1>3. CallInv(r)
  BY DEF IInv
<1> QED BY <1>1, <1>2, <1>3, NullIsApart DEF CallInv, Held, Ends, replayable

\* A request that has ended has the invariant if it worked at most once.
LEMMA CallEnded ==
  ASSUME NEW r \in Requests, NEW pc \in {"failed", "done"}, req'[r] = Ended(pc), work'[r] <= 1
  PROVE  CallInv(r)'
  BY DEF CallInv, Ended, Idle, replayable

\* requireSignIn keeps the invariant of the session, and ends the session or has no effect.
LEMMA RequireSignIn ==
  ASSUME TypeOK, SessionInv, requireSignIn, renewal' \in {renewal, Null}, renewals' \subseteq renewals
  PROVE  SessionInv' /\ (Held \/ Ends) /\ UNCHANGED owner
<1>1. generation \in Nat /\ \A op \in Operations : op.generation \in Nat
  BY DEF TypeOK, Operations, Renewal
<1>2. Operations' \subseteq Operations
  BY DEF Operations
<1> QED BY <1>1, <1>2 DEF requireSignIn, SessionInv, Held, Ends, StatusHonest

\* ensureSession keeps the invariant of the session as well, and the account's identity.
LEMMA EnsureSession ==
  ASSUME TypeOK, SessionInv, NEW x, ensureSession(x)
  PROVE  SessionInv' /\ (Held \/ Ends) /\ UNCHANGED owner
<1>1. CASE UNCHANGED <<store, renewals, issued, signin>>
  BY <1>1 DEF SessionInv, store, Operations, Held, StatusHonest
<1>2. CASE requireSignIn /\ UNCHANGED <<renewal, renewals, issued>>
  BY <1>2, RequireSignIn
<1>3. CASE /\ refresh # Null
           /\ renewal' = Operation /\ renewals' = renewals \cup {Operation}
           /\ UNCHANGED <<generation, status, owner, access, stale, refresh, cooling, signin>>
  <2>1. Operations' \subseteq Operations \cup {Operation}
    BY <1>3 DEF Operations
  <2>2. Operation.generation = generation /\ Operation.refresh = refresh /\ generation \in Nat
    BY DEF Operation, TypeOK
  <2>3. \A op \in Operations' :
          /\ op.generation <= generation'
          /\ op.generation = generation' => refresh' # Null /\ refresh'.owner = op.refresh.owner
    BY <1>3, <2>1, <2>2 DEF SessionInv
  <2> QED BY <1>3, <2>3 DEF SessionInv, Held, StatusHonest
<1> QED BY <1>1, <1>2, <1>3 DEF ensureSession

-----------------------------------------------------------------------------
(* Types *)

\* The conjuncts of TypeOK that ensureSession and requireSignIn may disturb.
StoreOK ==
  /\ generation \in Nat /\ cooling \in BOOLEAN
  /\ status \in {"idle", "ready", "signed-out", "signin-required", "unavailable"}
  /\ owner \in Owners \cup {Null}
  /\ access \in Token \cup {Null} /\ refresh \in Token \cup {Null}
  /\ stale \in BOOLEAN
  /\ renewal \in Renewal \cup {Null} /\ renewals \in SUBSET Renewal
  /\ issued \in Nat /\ signin \in Nat

\* requireSignIn keeps the types of what it may change.
LEMMA RequireTypes ==
  ASSUME TypeOK, requireSignIn, renewal' \in {renewal, Null}, renewals' \subseteq renewals, issued' = issued
  PROVE  StoreOK'
<1>1. generation' \in Nat /\ signin' \in Nat /\ issued' \in Nat
  BY DEF TypeOK, requireSignIn
<1>2. stale' \in BOOLEAN /\ cooling' \in BOOLEAN
  BY DEF TypeOK, requireSignIn
<1>3. /\ access' \in Token \cup {Null} /\ refresh' \in Token \cup {Null} /\ owner' = owner
      /\ status' \in {status, "signin-required"}
  BY DEF TypeOK, requireSignIn
<1> QED BY <1>1, <1>2, <1>3 DEF TypeOK, StoreOK

\* A renewal that starts is an operation with the stored refresh token.
LEMMA OperationType ==
  ASSUME TypeOK, refresh # Null
  PROVE  Operation \in Renewal
  BY DEF TypeOK, Operation, Renewal

\* ensureSession keeps the types of the session.
LEMMA EnsureTypes ==
  ASSUME TypeOK, NEW x, ensureSession(x)
  PROVE  StoreOK'
<1>1. CASE UNCHANGED <<store, renewals, issued, signin>>
  BY <1>1 DEF TypeOK, StoreOK, store
<1>2. CASE requireSignIn /\ UNCHANGED <<renewal, renewals, issued>>
  BY <1>2, RequireTypes
<1>3. CASE /\ refresh # Null
           /\ renewal' = Operation /\ renewals' = renewals \cup {Operation} /\ issued' = issued + 1
           /\ UNCHANGED <<generation, status, owner, access, stale, refresh, cooling, signin>>
  BY <1>3, OperationType DEF TypeOK, StoreOK
<1> QED BY <1>1, <1>2, <1>3 DEF ensureSession

\* A request keeps its type when its session is ensured, and then has a token, a renewal
\* to wait for or nothing.
LEMMA EnsuringType ==
  ASSUME TypeOK, NEW call \in Calls, NEW x
  PROVE  /\ Ensuring(call, x) \in Calls
         /\ Ensuring(call, x).pc \in {"ensured", "renewing", "failed"}
<1>1. CASE outcome(x) = "failed"
  BY <1>1 DEF Ensuring, Ended, Idle, Calls, Session
<1>2. CASE outcome(x) = "ensured"
  BY <1>2 DEF Ensuring, Calls, TypeOK
<1>3. CASE outcome(x) = "renewing"
  <2>1. refresh # Null
    BY <1>3 DEF outcome
  <2>2. (IF joined THEN renewal ELSE Operation) \in Renewal
    BY <2>1, OperationType DEF TypeOK, joined
  <2> QED BY <1>3, <2>2 DEF Ensuring, Calls
<1> QED BY <1>1, <1>2, <1>3 DEF outcome

\* The callers of a renewal keep their types.
LEMMA SettleType ==
  ASSUME TypeOK, NEW op, NEW token \in Token \cup {Null}, Settle(op, token)
  PROVE  req' \in [Requests -> Calls] /\ \A r \in Requests : req'[r].pc = "sent" => req'[r] = req[r]
<1>1. ASSUME NEW r \in Requests
      PROVE  /\ [req[r] EXCEPT !.pc = "ensured", !.on = Null, !.token = token] \in Calls
             /\ [req[r] EXCEPT !.pc = "ensured", !.on = Null, !.token = token].pc = "ensured"
             /\ Ended("failed") \in Calls /\ Ended("failed").pc = "failed"
  <2>1. req[r] \in Calls
    BY DEF TypeOK
  <2> QED BY <2>1 DEF Calls, Ended, Idle, Session
<1> QED BY <1>1 DEF Settle, Waits, TypeOK

\* Every step keeps the types.
LEMMA TypeStep ==
  ASSUME IInv, [Next]_vars
  PROVE  TypeOK'
<1> USE DEF IInv
<1>e. ASSUME NEW pc \in {"failed", "done"} PROVE Ended(pc) \in Calls /\ Ended(pc).pc = pc
  BY DEF Ended, Idle, Calls, Session
<1>1. ASSUME NEW o \in Owners, SignIn(o) PROVE TypeOK'
  <2>1. [session |-> getSession, account |-> o] \in [session : Session, account : Owners]
    BY DEF getSession, Session, TypeOK
  <2> QED BY <1>1, <2>1, SessionAssumption DEF SignIn, Change, TypeOK, store
<1>2. ASSUME NEW s \in signing, SignInAnswered(s) PROVE TypeOK'
  <2>1. s.account \in Owners /\ changed + 1 \in Nat /\ issued + 1 \in Nat /\ issued + 2 \in Nat
    BY DEF TypeOK
  <2>2. CASE acceptSignIn(s.account)
    <3>1. /\ [serial |-> issued + 1, owner |-> s.account, signin |-> changed + 1] \in Token
          /\ [serial |-> issued + 2, owner |-> s.account, signin |-> changed + 1] \in Token
      BY <2>1 DEF Token
    <3>2. /\ access' \in Token /\ refresh' \in Token \cup {Null} /\ stale' = FALSE /\ cooling' = FALSE
          /\ generation' \in Nat /\ status' = "ready" /\ owner' \in Owners /\ renewal' = Null
          /\ issued' \in Nat /\ signin' \in Nat
      BY <2>1, <2>2, <3>1 DEF acceptSignIn, TypeOK
    <3> QED BY <1>2, <3>2 DEF SignInAnswered, TypeOK
  <2>3. CASE UNCHANGED <<store, issued, signin>>
    BY <1>2, <2>3 DEF SignInAnswered, TypeOK, store
  <2> QED BY <1>2, <2>2, <2>3 DEF SignInAnswered
<1>3. CASE signOut
  <2>1. changed' \in 0..Changes
    BY <1>3, SessionAssumption DEF signOut, Change, TypeOK
  <2>2. /\ access' = Null /\ refresh' = Null /\ owner' = Null /\ stale' = FALSE /\ cooling' = FALSE
        /\ generation' \in Nat /\ status' = "signed-out" /\ renewal' = Null /\ signin' \in Nat
    BY <1>3 DEF signOut, TypeOK
  <2> QED BY <1>3, <2>1, <2>2 DEF signOut, TypeOK
<1>4. CASE Restore
  BY <1>4, EnsureTypes DEF Restore, TypeOK, StoreOK
<1>5. CASE Cooled \/ Ages
  <2>1. cooling' \in BOOLEAN /\ stale' \in BOOLEAN
    BY <1>5 DEF Cooled, Ages, TypeOK
  <2>2. changed' \in 0..Changes /\ troubled' \in 0..Troubles
    BY <1>5, SessionAssumption DEF Cooled, Ages, Trouble, TypeOK
  <2> QED BY <1>5, <2>1, <2>2 DEF Cooled, Ages, TypeOK
<1>6. CASE Refuse
  <2>1. PICK t \in ({access} \cup {req[r].token : r \in Requests}) \ {Null} : refused' = refused \cup {t.serial}
    BY <1>6 DEF Refuse
  <2>2. t \in Token
    BY <2>1 DEF TypeOK, Calls
  <2> QED BY <1>6, <2>1, <2>2, SessionAssumption DEF Refuse, Trouble, TypeOK, Token, store
<1>7. ASSUME NEW op \in renewals, RenewalEnds(op) PROVE TypeOK'
  <2>1. op \in Renewal /\ op.refresh \in Token
    BY DEF TypeOK, Renewal
  <2>2. CASE Renewed(op)
    <3>1. [serial |-> op.serial, owner |-> op.refresh.owner, signin |-> op.refresh.signin] \in Token
      BY <2>1 DEF Renewal, Token
    <3> QED BY <2>2, <3>1, SettleType DEF Renewed, InForce, TypeOK, finally, Token
  <2>3. CASE RenewalRefused(op)
    BY <2>3, SettleType, RequireTypes, SessionAssumption DEF RenewalRefused, Trouble, TypeOK, StoreOK, finally
  <2>4. CASE RenewalUnavailable(op)
    BY <2>4, SettleType, SessionAssumption DEF RenewalUnavailable, Trouble, TypeOK, finally
  <2>5. CASE RenewalLate(op)
    BY <2>5, SettleType DEF RenewalLate, TypeOK, finally
  <2> QED BY <1>7, <2>2, <2>3, <2>4, <2>5 DEF RenewalEnds
<1>8. ASSUME NEW r \in Requests, NEW supplied \in Owners \cup {Null}, Request(r, supplied) PROVE TypeOK'
  <2>1. Call(supplied) \in Calls
    BY DEF Call, Idle, Calls, Session, getSession, TypeOK
  <2>2. CASE req' = [req EXCEPT ![r] = Ensuring(Call(supplied), Null)] /\ ensureSession(Null)
    BY <1>8, <2>1, <2>2, EnsuringType, EnsureTypes DEF Request, TypeOK, StoreOK
  <2>3. CASE req' = [req EXCEPT ![r] = Ended("failed")] /\ UNCHANGED <<store, renewals, issued, signin>>
    BY <1>8, <1>e, <2>3 DEF Request, TypeOK, store
  <2> QED BY <1>8, <2>2, <2>3 DEF Request
<1>9. ASSUME NEW r \in Requests, Dispatch(r) PROVE TypeOK'
  <2>1. req[r].token # Null /\ [req[r] EXCEPT !.pc = "sent"] \in Calls
    BY <1>9 DEF Dispatch, CallInv, TypeOK, Calls
  <2> QED BY <1>9, <1>e, <2>1 DEF Dispatch, TypeOK, Calls, store
<1>10. ASSUME NEW r \in Requests, Serve(r) PROVE TypeOK'
  <2>1. PICK reply \in {"ok", "error", "rejected"} : Answer(r, reply)
    BY <1>10 DEF Serve
  <2>2. [req[r] EXCEPT !.pc = "answered", !.reply = reply] \in Calls
    BY ZenonT(60) DEF TypeOK, Calls
  <2>3. work' \in [Requests -> Nat]
    BY <1>10 DEF Serve, TypeOK
  <2>4. req' = [req EXCEPT ![r] = [req[r] EXCEPT !.pc = "answered", !.reply = reply]]
    BY <2>1 DEF Answer
  <2>5. req' \in [Requests -> Calls] /\ \A q \in Requests : req'[q].pc = "sent" => req'[q] = req[q]
    BY <2>2, <2>4 DEF TypeOK, Calls
  <2> QED BY <1>10, <2>3, <2>5 DEF Serve, TypeOK, store
<1>11. ASSUME NEW r \in Requests, Receive(r) PROVE TypeOK'
  <2>1. CASE \E pc \in {"failed", "done"} :
               /\ req' = [req EXCEPT ![r] = Ended(pc)] /\ UNCHANGED <<renewal, renewals, issued>>
               /\ UNCHANGED <<store, signin>>
    BY <1>11, <1>e, <2>1 DEF Receive, TypeOK, store
  <2>2. CASE /\ req' = [req EXCEPT ![r] = Ended("failed")] /\ UNCHANGED <<renewal, renewals, issued>>
             /\ requireSignIn
    BY <1>11, <1>e, <2>2, RequireTypes DEF Receive, TypeOK, StoreOK
  <2>3. CASE /\ req' = [req EXCEPT ![r] =
                   Ensuring([req[r] EXCEPT !.again = TRUE, !.reply = Null], req[r].token)]
             /\ ensureSession(req[r].token)
    <3>1. [req[r] EXCEPT !.again = TRUE, !.reply = Null] \in Calls
      BY ZenonT(60) DEF TypeOK, Calls
    <3> QED BY <1>11, <2>3, <3>1, EnsuringType, EnsureTypes DEF Receive, TypeOK, StoreOK
  <2> QED BY <1>11, <2>1, <2>2, <2>3 DEF Receive
<1>12. CASE UNCHANGED vars
  BY <1>12 DEF vars, store, TypeOK
<1> QED BY <1>1, <1>2, <1>3, <1>4, <1>5, <1>6, <1>7, <1>8, <1>9, <1>10, <1>11, <1>12 DEF Next

-----------------------------------------------------------------------------
(* The session *)

\* A step that changes neither credentials nor renewals keeps the session's invariant.
LEMMA SessionKept ==
  ASSUME SessionInv, UNCHANGED <<generation, status, owner, access, refresh, renewal, renewals, signin>>
  PROVE  SessionInv' /\ Held
  BY DEF SessionInv, Operations, StatusHonest, Held

\* Every step keeps the session's invariant, and goes on with the account or ends the session.
LEMMA SessionStep ==
  ASSUME IInv, [Next]_vars
  PROVE  SessionInv' /\ (Held \/ Ends)
<1> USE DEF IInv
<1>t. /\ generation \in Nat
      /\ \A op \in Operations : op \in Renewal /\ op.generation \in Nat /\ op.refresh \in Token
  BY DEF TypeOK, Operations, Renewal
<1>1. ASSUME NEW o \in Owners, SignIn(o) PROVE SessionInv' /\ Held
  BY <1>1, SessionKept DEF SignIn, store
<1>2. ASSUME NEW s \in signing, SignInAnswered(s) PROVE SessionInv' /\ (Held \/ Ends)
  <2>1. CASE acceptSignIn(s.account)
    <3>1. s.account \in Owners /\ issued \in Nat /\ changed \in Nat
      BY DEF TypeOK
    <3>2. /\ [serial |-> issued + 1, owner |-> s.account, signin |-> changed + 1] \in Token
          /\ [serial |-> issued + 2, owner |-> s.account, signin |-> changed + 1] \in Token
      BY <3>1 DEF Token
    <3>3. Operations' \subseteq Operations
      BY <1>2, <2>1 DEF SignInAnswered, acceptSignIn, Operations
    <3>4. generation' = generation + 1 /\ access' # Null /\ status' = "ready"
      BY <2>1, <3>2, NullIsApart DEF acceptSignIn
    <3>5. \A op \in Operations' : op.generation <= generation' /\ op.generation # generation'
      BY <1>t, <3>3, <3>4 DEF SessionInv
    <3>6. /\ access'.signin = signin' /\ owner' = access'.owner
          /\ refresh' # Null => refresh'.signin = signin' /\ owner' = refresh'.owner
      BY <2>1 DEF acceptSignIn
    <3> QED BY <3>4, <3>5, <3>6 DEF SessionInv, StatusHonest, Ends
  <2>2. CASE UNCHANGED <<store, issued, signin>>
    BY <1>2, <2>2, SessionKept DEF SignInAnswered, store
  <2> QED BY <1>2, <2>1, <2>2 DEF SignInAnswered
<1>3. CASE signOut
  <2>1. Operations' \subseteq Operations
    BY <1>3 DEF signOut, Operations
  <2> QED BY <1>3, <1>t, <2>1 DEF signOut, SessionInv, StatusHonest, Ends
<1>4. CASE Restore
  BY <1>4, EnsureSession DEF Restore
<1>5. CASE Cooled \/ Ages \/ Refuse
  BY <1>5, SessionKept DEF Cooled, Ages, Refuse, store
<1>6. ASSUME NEW op \in renewals, RenewalEnds(op) PROVE SessionInv' /\ (Held \/ Ends)
  <2>1. op \in Operations
    BY DEF Operations, SessionInv
  <2>2. CASE Renewed(op)
    <3>1. Operations' \subseteq Operations
      BY <2>2 DEF Renewed, InForce, finally, Operations
    <3>2. refresh # Null /\ refresh = op.refresh /\ signin = refresh.signin /\ owner \in {Null, refresh.owner}
      BY <1>t, <2>1, <2>2, NullIsApart DEF Renewed, InForce, SessionInv
    <3>3. [serial |-> op.serial, owner |-> op.refresh.owner, signin |-> op.refresh.signin] \in Token
      BY <1>t, <2>1 DEF Renewal, Token
    <3>4. /\ access' # Null /\ access'.signin = signin /\ access'.owner = refresh.owner
          /\ refresh' # Null /\ refresh'.signin = signin /\ refresh'.owner = refresh.owner
          /\ owner' = refresh.owner
      BY <2>2, <3>2, <3>3, NullIsApart DEF Renewed, InForce
    <3>5. generation' = generation /\ signin' = signin /\ status' = "ready"
      BY <2>2 DEF Renewed, InForce
    <3> QED BY <3>1, <3>2, <3>4, <3>5 DEF SessionInv, StatusHonest, Held
  <2>3. CASE RenewalRefused(op)
    BY <2>3, RequireSignIn DEF RenewalRefused, finally
  <2>4. CASE RenewalUnavailable(op)
    <3>1. Operations' \subseteq Operations
      BY <2>4 DEF RenewalUnavailable, finally, Operations
    <3>2. refresh # Null
      BY <2>1, <2>4 DEF RenewalUnavailable, Same, isCurrentSession, SessionInv
    <3> QED BY <2>4, <3>1, <3>2 DEF RenewalUnavailable, SessionInv, StatusHonest, Held
  <2>5. CASE RenewalLate(op)
    <3>1. Operations' \subseteq Operations
      BY <2>5 DEF RenewalLate, finally, Operations
    <3> QED BY <2>5, <3>1 DEF RenewalLate, SessionInv, StatusHonest, Held
  <2> QED BY <1>6, <2>2, <2>3, <2>4, <2>5 DEF RenewalEnds
<1>7. ASSUME NEW r \in Requests, NEW supplied, Request(r, supplied) PROVE SessionInv' /\ (Held \/ Ends)
  BY <1>7, EnsureSession, SessionKept DEF Request, store
<1>8. ASSUME NEW r \in Requests, Dispatch(r) \/ Serve(r) PROVE SessionInv' /\ Held
  BY <1>8, SessionKept DEF Dispatch, Serve, store
<1>9. ASSUME NEW r \in Requests, Receive(r) PROVE SessionInv' /\ (Held \/ Ends)
  <2>1. CASE UNCHANGED <<store, renewals, signin>>
    BY <2>1, SessionKept DEF store
  <2>2. CASE requireSignIn /\ UNCHANGED <<renewal, renewals>>
    BY <2>2, RequireSignIn
  <2>3. CASE ensureSession(req[r].token)
    BY <2>3, EnsureSession
  <2> QED BY <1>9, <2>1, <2>2, <2>3 DEF Receive
<1>10. CASE UNCHANGED vars
  BY <1>10, SessionKept DEF vars, store
<1> QED BY <1>1, <1>2, <1>3, <1>4, <1>5, <1>6, <1>7, <1>8, <1>9, <1>10 DEF Next

-----------------------------------------------------------------------------
(* The requests *)

\* A request of the present session whose session is ensured gets the account's token, waits
\* for a renewal for the account, or fails.
LEMMA EnsuringInv ==
  ASSUME IInv, NEW r \in Requests, NEW call \in Calls, NEW x,
         call.data = call.started.owner, call.started.generation = generation,
         call.data \in {Null, owner}, work[r] = 0, work'[r] = work[r],
         req'[r] = Ensuring(call, x), ensureSession(x)
  PROVE  CallInv(r)'
<1>1. CASE outcome(x) = "failed"
  BY <1>1, CallEnded DEF Ensuring
<1>2. CASE outcome(x) = "ensured"
  <2>1. usable(x)
    BY <1>2 DEF outcome
  <2>2. access # Null /\ UNCHANGED <<generation, owner, access, signin>>
    BY <2>1 DEF usable, ensureSession, store
  <2>3. access.signin = signin /\ owner = access.owner
    BY <2>2 DEF IInv, SessionInv
  <2>4. req'[r] = [call EXCEPT !.pc = "ensured", !.token = access, !.on = Null]
    BY <1>2 DEF Ensuring
  <2>5. /\ req'[r].pc = "ensured" /\ req'[r].token = access /\ req'[r].data = call.data
        /\ req'[r].started = call.started
    BY <2>4 DEF Calls
  <2> QED BY <2>2, <2>3, <2>5 DEF CallInv, replayable, IInv, TypeOK
<1>3. CASE outcome(x) = "renewing"
  <2> DEFINE on == IF joined THEN renewal ELSE Operation
  <2>1. refresh # Null /\ ~usable(x)
    BY <1>3 DEF outcome
  <2>2. UNCHANGED <<generation, owner>>
    BY <2>1 DEF ensureSession, store
  <2>3. on # Null /\ on.refresh.owner = refresh.owner
    <3>1. CASE joined
      BY <3>1 DEF joined, IInv, SessionInv, Operations
    <3>2. CASE ~joined
      <4>1. Operation # Null
        BY <2>1, OperationType, NullIsApart DEF IInv
      <4> QED BY <3>2, <4>1 DEF Operation
    <3> QED BY <3>1, <3>2
  <2>4. owner \in {Null, refresh.owner}
    BY <2>1 DEF IInv, SessionInv
  <2>5. req'[r] = [call EXCEPT !.pc = "renewing", !.token = Null, !.on = on]
    BY <1>3 DEF Ensuring
  <2>6. /\ req'[r].pc = "renewing" /\ req'[r].on = on /\ req'[r].data = call.data
        /\ req'[r].started = call.started
    BY <2>5 DEF Calls
  <2> HIDE DEF on
  <2> QED BY <2>2, <2>3, <2>4, <2>6 DEF CallInv, replayable, IInv, TypeOK
<1> QED BY <1>1, <1>2, <1>3 DEF outcome

\* The callers of a renewal that brought no token fail; with one for the account in whose
\* session it ended they go on.
LEMMA SettleInv ==
  ASSUME IInv, NEW op \in renewals, NEW token \in Token \cup {Null}, Settle(op, token),
         UNCHANGED work, Held \/ Ends,
         token # Null =>
           /\ UNCHANGED generation
           /\ token.owner = op.refresh.owner
           /\ token.owner = owner' /\ token.signin = signin'
  PROVE  \A r \in Requests : CallInv(r)'
<1> SUFFICES ASSUME NEW r \in Requests PROVE CallInv(r)'
  OBVIOUS
<1>1. CASE req[r].pc # "renewing" \/ req[r].on # op
  BY <1>1, CallKept DEF Settle, Waits
<1>2. CASE req[r].pc = "renewing" /\ req[r].on = op /\ token = Null
  <2>1. req'[r] = Ended("failed") /\ work'[r] <= 1
    BY <1>2 DEF Settle, Waits, IInv, CallInv
  <2> QED BY <2>1, CallEnded
<1>3. CASE req[r].pc = "renewing" /\ req[r].on = op /\ token # Null
  <2>1. req'[r] = [req[r] EXCEPT !.pc = "ensured", !.on = Null, !.token = token]
    BY <1>3 DEF Settle, Waits
  <2>2. /\ req'[r].pc = "ensured" /\ req'[r].token = token /\ req'[r].data = req[r].data
        /\ req'[r].started = req[r].started
    BY <2>1 DEF IInv, TypeOK, Calls
  <2> QED BY <1>3, <2>2 DEF CallInv, replayable, IInv
<1> QED BY <1>1, <1>2, <1>3

\* Every step keeps what requests carry and have done.
LEMMA CallStep ==
  ASSUME IInv, [Next]_vars
  PROVE  \A r \in Requests : CallInv(r)'
<1>h. Held \/ Ends
  BY SessionStep
<1>k. ASSUME NEW q \in Requests, req'[q] = req[q], work'[q] = work[q] PROVE CallInv(q)'
  BY <1>h, <1>k, CallKept
<1>t. TypeOK /\ SessionInv /\ \A q \in Requests : req[q] \in Calls /\ CallInv(q) /\ work[q] \in Nat
  BY DEF IInv, TypeOK
<1>1. CASE \/ UNCHANGED <<req, work>>
           \/ (\E o \in Owners : SignIn(o)) \/ (\E s \in signing : SignInAnswered(s))
           \/ signOut \/ Restore \/ Cooled \/ Ages \/ Refuse \/ UNCHANGED vars
  <2>1. UNCHANGED <<req, work>>
    BY <1>1 DEF SignIn, SignInAnswered, signOut, Restore, Cooled, Ages, Refuse, vars
  <2> QED BY <1>k, <2>1
<1>2. ASSUME NEW op \in renewals, RenewalEnds(op) PROVE \A q \in Requests : CallInv(q)'
  <2>1. CASE Renewed(op)
    <3> DEFINE token == [serial |-> op.serial, owner |-> op.refresh.owner, signin |-> op.refresh.signin]
    <3>1. op \in Renewal /\ op.refresh \in Token /\ token \in Token
      BY <1>t DEF TypeOK, Renewal, Token
    <3>2. token # Null /\ refresh # Null /\ refresh = op.refresh
      BY <2>1, <3>1, NullIsApart DEF Renewed, InForce
    <3>3. token.signin = signin
      BY <1>t, <3>2 DEF SessionInv
    <3>4. /\ Settle(op, token) /\ UNCHANGED <<generation, signin, work>>
          /\ owner' = token.owner /\ token.owner = op.refresh.owner
      BY <2>1 DEF Renewed, InForce
    <3> HIDE DEF token
    <3> QED BY <1>h, <3>1, <3>3, <3>4, SettleInv
  <2>2. CASE RenewalRefused(op) \/ RenewalUnavailable(op) \/ RenewalLate(op)
    <3>1. Settle(op, Null) /\ UNCHANGED work
      BY <2>2 DEF RenewalRefused, RenewalUnavailable, RenewalLate
    <3> QED BY <1>h, <3>1, SettleInv
  <2> QED BY <1>2, <2>1, <2>2 DEF RenewalEnds
<1>3. ASSUME NEW r \in Requests, NEW supplied \in Owners \cup {Null}, Request(r, supplied)
      PROVE  \A q \in Requests : CallInv(q)'
  <2>1. UNCHANGED work /\ (\A q \in Requests : q # r => req'[q] = req[q]) /\ work[r] = 0
    BY <1>3, <1>t DEF Request, CallInv, TypeOK
  <2>2. CASE /\ req' = [req EXCEPT ![r] = Ensuring(Call(supplied), Null)] /\ ensureSession(Null)
             /\ supplied \in {Null, owner}
    <3>1. Call(supplied) \in Calls
      BY <1>t DEF Call, Idle, Calls, Session, getSession, TypeOK
    <3>2. /\ Call(supplied).started = getSession /\ Call(supplied).data = owner
      BY <2>2 DEF Call, Idle
    <3>3. req'[r] = Ensuring(Call(supplied), Null)
      BY <1>t, <2>2 DEF TypeOK
    <3>4. CallInv(r)'
      BY <2>1, <2>2, <3>1, <3>2, <3>3, EnsuringInv DEF getSession
    <3> QED BY <1>k, <2>1, <3>4
  <2>3. CASE req' = [req EXCEPT ![r] = Ended("failed")]
    <3>1. req'[r] = Ended("failed") /\ work'[r] <= 1
      BY <1>t, <2>1, <2>3 DEF TypeOK
    <3> QED BY <1>k, <2>1, <3>1, CallEnded
  <2> QED BY <1>3, <2>2, <2>3 DEF Request
<1>4. ASSUME NEW r \in Requests, Dispatch(r) PROVE \A q \in Requests : CallInv(q)'
  <2>1. /\ req[r].pc = "ensured" /\ UNCHANGED <<work, generation, owner, signin>>
        /\ \A q \in Requests : q # r => req'[q] = req[q]
    BY <1>4 DEF Dispatch, store, TypeOK
  <2>2. CASE req'[r] = Ended("failed")
    BY <1>k, <1>t, <2>1, <2>2, CallEnded DEF CallInv
  <2>3. CASE req'[r] = [req[r] EXCEPT !.pc = "sent"]
    <3>1. /\ req'[r].pc = "sent" /\ req'[r].token = req[r].token /\ req'[r].data = req[r].data
          /\ req'[r].started = req[r].started
      BY <1>t, <2>3 DEF Calls
    <3>2. CallInv(r)'
      BY <1>t, <2>1, <3>1 DEF CallInv, replayable
    <3> QED BY <1>k, <2>1, <3>2
  <2> QED BY <1>4, <1>t, <2>2, <2>3 DEF Dispatch, TypeOK
<1>5. ASSUME NEW r \in Requests, Serve(r) PROVE \A q \in Requests : CallInv(q)'
  <2>1. PICK reply \in {"ok", "error", "rejected"} :
          /\ Answer(r, reply)
          /\ \/ UNCHANGED work
             \/ /\ work' = [work EXCEPT ![r] = @ + 1]
                /\ reply = "rejected" => r \notin Replayable
    BY <1>5 DEF Serve
  <2>2. /\ req[r].pc = "sent" /\ UNCHANGED <<generation, owner, signin>>
        /\ \A q \in Requests : q # r => req'[q] = req[q] /\ work'[q] = work[q]
    BY <1>5, <1>t, <2>1 DEF Serve, store, Answer, TypeOK
  <2>3. req'[r] = [req[r] EXCEPT !.pc = "answered", !.reply = reply]
    BY <1>t, <2>1 DEF Answer, TypeOK
  <2>4. /\ req'[r].pc = "answered" /\ req'[r].token = req[r].token /\ req'[r].data = req[r].data
        /\ req'[r].started = req[r].started /\ req'[r].reply = reply
    BY <1>t, <2>3 DEF Calls
  <2>5. work[r] = 0 /\ work'[r] <= 1 /\ (reply = "rejected" /\ r \in Replayable => work'[r] = 0)
    BY <1>t, <2>1, <2>2 DEF CallInv, TypeOK
  <2>6. CallInv(r)'
    BY <1>t, <2>2, <2>4, <2>5 DEF CallInv, replayable
  <2> QED BY <1>k, <2>2, <2>6
<1>6. ASSUME NEW r \in Requests, Receive(r) PROVE \A q \in Requests : CallInv(q)'
  <2>1. UNCHANGED work /\ req[r].pc = "answered" /\ \A q \in Requests : q # r => req'[q] = req[q]
    <3>1. \E c : req' = [req EXCEPT ![r] = c]
      BY <1>6, Zenon DEF Receive
    <3> QED BY <1>6, <1>t, <3>1 DEF Receive, TypeOK
  <2>2. CASE \E pc \in {"failed", "done"} : req'[r] = Ended(pc)
    BY <1>k, <1>t, <2>1, <2>2, CallEnded DEF CallInv
  <2>3. CASE /\ isCurrentSession(req[r].started) /\ replayable(r)
             /\ req'[r] = Ensuring([req[r] EXCEPT !.again = TRUE, !.reply = Null], req[r].token)
             /\ ensureSession(req[r].token)
    <3> DEFINE call == [req[r] EXCEPT !.again = TRUE, !.reply = Null]
    <3>1. call \in Calls /\ call.data = req[r].data /\ call.started = req[r].started
      BY <1>t DEF Calls
    <3>2. req[r].data = req[r].started.owner /\ work[r] = 0
      BY <1>t, <2>1, <2>3 DEF CallInv
    <3>3. call.started.generation = generation /\ call.data \in {Null, owner}
      BY <2>3, <3>1, <3>2 DEF isCurrentSession
    <3>4. req'[r] = Ensuring(call, req[r].token) /\ ensureSession(req[r].token)
      BY <2>3
    <3> HIDE DEF call
    <3>5. CallInv(r)'
      BY <2>1, <3>1, <3>2, <3>3, <3>4, EnsuringInv
    <3> QED BY <1>k, <2>1, <3>5
  <2> QED BY <1>6, <1>t, <2>2, <2>3 DEF Receive, TypeOK
<1> QED BY <1>1, <1>2, <1>3, <1>4, <1>5, <1>6 DEF Next

-----------------------------------------------------------------------------
(* Renewals *)

\* A renewal of the present generation is the shared one, so whoever begins one without
\* joining finds no other; and only tokens the verifier refused are reported as rejected.
SoleInv ==
  /\ \A op \in renewals : op.generation = generation => renewal = op
  /\ \A r \in Requests : req[r].pc = "answered" /\ replayable(r) => req[r].token.serial \in refused

\* What may force a renewal: nothing, or the token of a request the verifier rejected.
Causes == {Null} \cup {req[r].token : r \in {q \in Requests : req[q].pc = "answered" /\ replayable(q)}}

\* What a step may do to the renewals.
Begins(x) ==
  /\ ~usable(x) /\ ~joined
  /\ renewal' = Operation /\ renewals' = renewals \cup {Operation} /\ UNCHANGED generation

Finishes(op) ==
  /\ renewal' = IF renewal = op THEN Null ELSE renewal
  /\ renewals' = renewals \ {op} /\ UNCHANGED generation

RenewalsKept == UNCHANGED <<generation, renewal, renewals>>

\* The session ends, and nothing is renewed.
Superseded == Ends /\ renewals' \subseteq renewals

\* ensureSession leaves the renewals alone, ends the session or begins one renewal.
LEMMA EnsureRenews ==
  ASSUME NEW x, ensureSession(x)
  PROVE  RenewalsKept \/ Superseded \/ Begins(x)
<1>1. CASE requireSignIn /\ UNCHANGED <<renewal, renewals, issued>>
  BY <1>1 DEF requireSignIn, RenewalsKept, Superseded, Ends
<1>2. CASE UNCHANGED <<store, renewals, issued, signin>>
  BY <1>2 DEF store, RenewalsKept
<1> QED BY <1>1, <1>2 DEF ensureSession, Begins

\* Every step keeps the renewals, ends the session, ends one renewal or begins one for a cause.
LEMMA RenewalStep ==
  ASSUME [Next]_vars
  PROVE  \/ RenewalsKept \/ Superseded
         \/ \E op \in renewals : Finishes(op)
         \/ \E x \in Causes : Begins(x)
<1>1. CASE (\E o \in Owners : SignIn(o)) \/ Cooled \/ Ages \/ Refuse \/ UNCHANGED vars
  BY <1>1 DEF SignIn, Cooled, Ages, Refuse, vars, store, RenewalsKept
<1>2. ASSUME NEW s \in signing, SignInAnswered(s) PROVE RenewalsKept \/ Superseded
  BY <1>2 DEF SignInAnswered, acceptSignIn, store, RenewalsKept, Superseded, Ends
<1>3. CASE signOut
  BY <1>3 DEF signOut, Superseded, Ends
<1>4. CASE Restore
  BY <1>4, EnsureRenews DEF Restore, Causes
<1>5. ASSUME NEW op \in renewals, RenewalEnds(op) PROVE Finishes(op) \/ Superseded
  BY <1>5 DEF RenewalEnds, Renewed, RenewalRefused, RenewalUnavailable, RenewalLate, requireSignIn,
     finally, Finishes, Superseded, Ends
<1>6. ASSUME NEW r \in Requests, \E supplied \in Owners \cup {Null} : Request(r, supplied)
      PROVE  RenewalsKept \/ Superseded \/ \E x \in Causes : Begins(x)
  <2>1. CASE ensureSession(Null)
    BY <2>1, EnsureRenews DEF Causes
  <2> QED BY <1>6, <2>1 DEF Request, store, RenewalsKept
<1>7. ASSUME NEW r \in Requests, Dispatch(r) \/ Serve(r) PROVE RenewalsKept
  BY <1>7 DEF Dispatch, Serve, store, RenewalsKept
<1>8. ASSUME NEW r \in Requests, Receive(r)
      PROVE  RenewalsKept \/ Superseded \/ \E x \in Causes : Begins(x)
  <2>1. CASE UNCHANGED <<store, renewals>>
    BY <2>1 DEF store, RenewalsKept
  <2>2. CASE requireSignIn /\ UNCHANGED <<renewal, renewals>>
    BY <2>2 DEF requireSignIn, RenewalsKept, Superseded, Ends
  <2>3. CASE ensureSession(req[r].token) /\ req[r].pc = "answered" /\ replayable(r)
    <3>1. req[r].token \in Causes
      BY <2>3 DEF Causes
    <3> QED BY <2>3, <3>1, EnsureRenews
  <2> QED BY <1>8, <2>1, <2>2, <2>3 DEF Receive
<1> QED BY <1>1, <1>2, <1>3, <1>4, <1>5, <1>6, <1>7, <1>8 DEF Next

\* A rejection is reported of a token the verifier refused, and it stays refused.
LEMMA RejectionStep ==
  ASSUME IInv, SoleInv, [Next]_vars, NEW r \in Requests,
         req'[r].pc = "answered", r \in Replayable, req'[r].reply = "rejected"
  PROVE  req'[r].token.serial \in refused'
<1>t. TypeOK /\ req[r] \in Calls
  BY DEF IInv, TypeOK
<1>0. refused \subseteq refused'
  BY DEF Next, SignIn, SignInAnswered, signOut, Restore, Cooled, Ages, Refuse, RenewalEnds, Renewed,
     RenewalRefused, RenewalUnavailable, RenewalLate, Request, Dispatch, Serve, Receive, vars
<1>k. CASE req'[r] = req[r]
  BY <1>0, <1>k DEF SoleInv, replayable
<1>s. CASE Serve(r)
  <2>1. PICK reply : Answer(r, reply) /\ (reply = "rejected" => req[r].token.serial \in refused)
    BY <1>s DEF Serve
  <2>2. req'[r] = [req[r] EXCEPT !.pc = "answered", !.reply = reply]
    BY <1>t, <2>1 DEF Answer, TypeOK
  <2>3. req'[r].reply = reply /\ req'[r].token = req[r].token
    BY <1>t, <2>2 DEF Calls
  <2> QED BY <1>0, <2>1, <2>3
<1>1. ASSUME NEW supplied \in Owners \cup {Null}, Request(r, supplied) PROVE req'[r].pc # "answered"
  <2>1. Call(supplied) \in Calls
    BY <1>t, ZenonT(60) DEF Call, Idle, Calls, Session, getSession, TypeOK
  <2> QED BY <1>t, <1>1, <2>1, EnsuringType DEF Request, TypeOK, Ended, Idle
<1>2. ASSUME Dispatch(r) PROVE req'[r].pc # "answered"
  BY <1>t, <1>2 DEF Dispatch, TypeOK, Calls, Ended, Idle
<1>3. ASSUME Receive(r) PROVE req'[r].pc # "answered"
  <2>1. CASE \E pc \in {"failed", "done"} : req' = [req EXCEPT ![r] = Ended(pc)]
    BY <1>t, <2>1 DEF TypeOK, Ended, Idle
  <2>2. CASE req' = [req EXCEPT ![r] =
                Ensuring([req[r] EXCEPT !.again = TRUE, !.reply = Null], req[r].token)]
    <3>1. [req[r] EXCEPT !.again = TRUE, !.reply = Null] \in Calls
      BY <1>t DEF Calls
    <3> QED BY <1>t, <2>2, <3>1, EnsuringType DEF TypeOK
  <2> QED BY <1>3, <2>1, <2>2 DEF Receive
<1>4. ASSUME NEW op \in renewals, RenewalEnds(op) PROVE req'[r] = req[r] \/ req'[r].pc # "answered"
  <2>1. \E token : Settle(op, token)
    BY <1>4 DEF RenewalEnds, Renewed, RenewalRefused, RenewalUnavailable, RenewalLate
  <2>2. CASE Waits(r, op)
    <3>1. PICK token : Settle(op, token)
      BY <2>1
    <3>2. req'[r] = Ended("failed") \/ req'[r] = [req[r] EXCEPT !.pc = "ensured", !.on = Null, !.token = token]
      BY <2>2, <3>1 DEF Settle
    <3>3. [req[r] EXCEPT !.pc = "ensured", !.on = Null, !.token = token].pc = "ensured"
      BY <1>t DEF Calls
    <3>4. Ended("failed").pc = "failed"
      BY DEF Ended, Idle
    <3> QED BY <3>2, <3>3, <3>4
  <2>3. CASE ~Waits(r, op)
    BY <2>1, <2>3 DEF Settle
  <2> QED BY <2>2, <2>3
<1>5. ASSUME NEW q \in Requests, q # r,
             \/ \E supplied \in Owners \cup {Null} : Request(q, supplied)
             \/ Dispatch(q) \/ Serve(q) \/ Receive(q)
      PROVE  req'[r] = req[r]
  BY <1>t, <1>5 DEF Request, Dispatch, Serve, Receive, Answer, TypeOK
<1>6. CASE \/ (\E o \in Owners : SignIn(o)) \/ (\E s \in signing : SignInAnswered(s))
           \/ signOut \/ Restore \/ Cooled \/ Ages \/ Refuse \/ UNCHANGED vars
  BY <1>k, <1>6 DEF SignIn, SignInAnswered, signOut, Restore, Cooled, Ages, Refuse, vars
<1> QED BY <1>k, <1>s, <1>1, <1>2, <1>3, <1>4, <1>5, <1>6 DEF Next

\* Every step keeps the one renewal of a generation the shared one.
LEMMA SoleStep ==
  ASSUME IInv, SoleInv, [Next]_vars
  PROVE  SoleInv'
<1>1. generation \in Nat /\ \A op \in renewals : op \in Renewal /\ op.generation <= generation
  BY DEF IInv, TypeOK, SessionInv, Operations
<1>2. \A op \in renewals' : op.generation = generation' => renewal' = op
  <2>1. CASE RenewalsKept
    BY <2>1 DEF RenewalsKept, SoleInv
  <2>2. CASE Superseded
    BY <1>1, <2>2 DEF Superseded, Ends, Renewal
  <2>3. ASSUME NEW op \in renewals, Finishes(op)
        PROVE  \A p \in renewals' : p.generation = generation' => renewal' = p
    BY <2>3 DEF Finishes, SoleInv
  <2>4. ASSUME NEW x \in Causes, Begins(x)
        PROVE  \A p \in renewals' : p.generation = generation' => renewal' = p
    <3>1. ASSUME NEW p \in renewals, p.generation = generation PROVE FALSE
      BY <1>1, <2>4, <3>1, NullIsApart DEF Begins, joined, SoleInv
    <3> QED BY <2>4, <3>1 DEF Begins
  <2> QED BY <2>1, <2>2, <2>3, <2>4, RenewalStep
<1>3. \A r \in Requests : req'[r].pc = "answered" /\ replayable(r)' => req'[r].token.serial \in refused'
  BY RejectionStep DEF replayable
<1> QED BY <1>2, <1>3 DEF SoleInv

-----------------------------------------------------------------------------
(* The theorems *)

\* The inductive invariant holds in every reachable state.
LEMMA Invariance == Spec => []IInv
<1>1. IInv /\ [Next]_vars => IInv'
  BY TypeStep, SessionStep, CallStep DEF IInv
<1> QED BY <1>1, InitInv, PTL DEF Spec

\* Every variable keeps its type, and a request that goes out has credentials.
THEOREM TypeCorrect == Spec => []TypeOK
<1>1. IInv => TypeOK
  BY DEF IInv
<1> QED BY <1>1, Invariance, PTL

\* session.js: whatever answers come late, the credentials stored are those of the sign-in in
\* force, for any number of accounts, renewals and sign-ins.
THEOREM NoRevival == Spec => []CredentialsInForce
<1>1. IInv => CredentialsInForce
  BY DEF IInv, SessionInv, CredentialsInForce
<1> QED BY <1>1, Invariance, PTL

\* The status the pages follow agrees with the stored credentials.
THEOREM HonestStatus == Spec => []StatusHonest
<1>1. IInv => StatusHonest
  BY DEF IInv, SessionInv
<1> QED BY <1>1, Invariance, PTL

\* protectedRequest.js: no request, replayed or not, does its work twice.
THEOREM WorksOnce == Spec => []AtMostOnce
<1>1. IInv => AtMostOnce
  BY DEF IInv, CallInv, AtMostOnce
<1> QED BY <1>1, Invariance, PTL

\* A request works for the account whose data it carries, and its answer reaches its caller
\* only in the session it was computed for.
THEOREM Apart == Spec => AccountsApart
<1> DEFINE A(r) ==
      /\ work'[r] # work[r] =>
           req[r].token.owner = req[r].data \/ (req[r].data = Null /\ req[r].started.owner = Null)
      /\ req[r].pc # "done" /\ req'[r].pc = "done" =>
           req[r].token.owner = owner /\ req[r].token.signin = signin
<1>1. ASSUME IInv, [Next]_vars, NEW r \in Requests PROVE A(r)
  <2>t. TypeOK /\ req[r] \in Calls /\ CallInv(r)
    BY <1>1 DEF IInv, TypeOK
  <2>1. CASE work'[r] # work[r]
    <3>1. PICK q \in Requests : Serve(q)
      BY <1>1, <2>1 DEF Next, SignIn, SignInAnswered, signOut, Restore, Cooled, Ages, Refuse,
         RenewalEnds, Renewed, RenewalRefused, RenewalUnavailable, RenewalLate, Request, Dispatch,
         Receive, vars
    <3>2. q = r
      BY <2>1, <2>t, <3>1 DEF Serve, TypeOK
    <3>3. req[r].pc = "sent" /\ req'[r].pc # "done"
      BY <3>1, <3>2, <2>t DEF Serve, Answer, TypeOK, Calls
    <3> QED BY <2>t, <3>3 DEF CallInv
  <2>2. CASE req[r].pc # "done" /\ req'[r].pc = "done"
    <3>1. req[r].pc = "answered" /\ isCurrentSession(req[r].started) /\ UNCHANGED work
      <4>1. ASSUME Receive(r) PROVE req[r].pc = "answered" /\ isCurrentSession(req[r].started) /\ UNCHANGED work
        <5>1. CASE req' = [req EXCEPT ![r] = Ended("failed")]
          BY <2>t, <2>2, <5>1 DEF Ended, Idle, TypeOK
        <5>2. CASE req' = [req EXCEPT ![r] =
                     Ensuring([req[r] EXCEPT !.again = TRUE, !.reply = Null], req[r].token)]
          <6>1. [req[r] EXCEPT !.again = TRUE, !.reply = Null] \in Calls
            BY <2>t DEF Calls
          <6> QED BY <2>t, <2>2, <5>2, <6>1, EnsuringType DEF TypeOK
        <5> QED BY <4>1, <5>1, <5>2 DEF Receive
      <4>2. ASSUME NEW supplied \in Owners \cup {Null}, Request(r, supplied) PROVE req'[r].pc # "done"
        <5>1. Call(supplied) \in Calls
          BY <2>t, ZenonT(60) DEF Call, Idle, Calls, Session, getSession, TypeOK
        <5> QED BY <2>t, <4>2, <5>1, EnsuringType DEF Request, TypeOK, Ended, Idle
      <4>3. ASSUME NEW op \in renewals, NEW token \in Token \cup {Null}, Settle(op, token)
            PROVE  req'[r].pc # "done"
        BY <2>t, <2>2, <4>3 DEF Settle, Waits, Ended, Idle, Calls
      <4>4. ASSUME NEW op \in renewals, RenewalEnds(op) PROVE req'[r].pc # "done"
        <5>1. op \in Renewal /\ Null \in Token \cup {Null}
          BY <2>t DEF TypeOK
        <5>2. [serial |-> op.serial, owner |-> op.refresh.owner, signin |-> op.refresh.signin] \in Token
          BY <5>1 DEF Renewal, Token
        <5>3. \E token \in Token \cup {Null} : Settle(op, token)
          BY <4>4, <5>2 DEF RenewalEnds, Renewed, InForce, RenewalRefused, RenewalUnavailable, RenewalLate
        <5> QED BY <4>3, <5>3
      <4>5. ASSUME Dispatch(r) \/ Serve(r) PROVE req'[r].pc # "done"
        BY <2>t, <4>5 DEF Dispatch, Serve, Answer, TypeOK, Calls, Ended, Idle
      <4>6. ASSUME NEW q \in Requests, q # r,
                   \/ \E supplied \in Owners \cup {Null} : Request(q, supplied)
                   \/ Dispatch(q) \/ Serve(q) \/ Receive(q)
            PROVE  req'[r] = req[r]
        BY <2>t, <4>6 DEF Request, Dispatch, Serve, Receive, Answer, TypeOK
      <4>7. CASE \/ (\E o \in Owners : SignIn(o)) \/ (\E s \in signing : SignInAnswered(s))
                 \/ signOut \/ Restore \/ Cooled \/ Ages \/ Refuse \/ UNCHANGED vars
        BY <2>2, <4>7 DEF SignIn, SignInAnswered, signOut, Restore, Cooled, Ages, Refuse, vars
      <4> QED BY <1>1, <2>2, <4>1, <4>2, <4>4, <4>5, <4>6, <4>7 DEF Next
    <3> QED BY <2>t, <2>2, <3>1 DEF CallInv, isCurrentSession
  <2> QED BY <2>1, <2>2
<1>2. IInv /\ [Next]_vars => [\A r \in Requests : A(r)]_vars
  BY <1>1
<1> QED BY <1>2, Invariance, PTL DEF Spec, AccountsApart

\* session.js: for any number of pages' events and requests, a renewal is sent only when the
\* stored access token is missing, old or refused, and no other one of its session is awaited.
THEOREM RenewedForCause == Spec => RenewedOnceForCause
<1> DEFINE A ==
      \A op \in renewals' \ renewals :
        /\ access = Null \/ stale \/ access.serial \in refused
        /\ \A other \in renewals : other.generation # generation
<1>1. ASSUME IInv, SoleInv, [Next]_vars PROVE A
  <2>1. CASE renewals' \subseteq renewals
    BY <2>1
  <2>2. ASSUME NEW x \in Causes, Begins(x) PROVE A
    <3>1. access = Null \/ stale \/ (x # Null /\ access = x)
      BY <2>2 DEF Begins, usable, forced
    <3>2. x # Null => x.serial \in refused
      BY <1>1 DEF Causes, SoleInv
    <3>3. ASSUME NEW other \in renewals, other.generation = generation PROVE FALSE
      <4>1. other # Null /\ renewal = other
        BY <1>1, <3>3, NullIsApart DEF IInv, TypeOK, SoleInv
      <4> QED BY <2>2, <3>3, <4>1 DEF Begins, joined
    <3> QED BY <3>1, <3>2, <3>3
  <2> QED BY <1>1, <2>1, <2>2, RenewalStep DEF RenewalsKept, Superseded, Finishes
<1>2. IInv /\ SoleInv /\ [Next]_vars => [A]_vars
  BY <1>1
<1>3. Init => SoleInv
  BY DEF Init, SoleInv, Idle
<1>4. IInv /\ SoleInv /\ [Next]_vars => SoleInv'
  BY SoleStep
<1> QED BY <1>2, <1>3, <1>4, Invariance, PTL DEF Spec, RenewedOnceForCause
=============================================================================
