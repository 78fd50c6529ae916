------------------------- MODULE SessionProofs -----------------------------
(***************************************************************************)
(* Type correctness of Sessions, for every number of sessions, threads and *)
(* passwords. Typed strengthens TypeOK by the requests that name a session: *)
(* an action indexes rows and cache by that session.                       *)
(***************************************************************************)
EXTENDS Sessions, TLAPS

\* Most leaves are first-order reasoning; the others name their prover.
USE Zenon

Pcs == {"idle", "totp", "issue", "cache", "commit", "mode", "insert", "validate", "load", "persist",
        "auth", "handle", "verified", "set", "destroyAll", "destroy"}

\* Where a request works on a session.
WithId == {"cache", "validate", "load", "persist", "auth", "handle", "verified", "set",
           "destroyAll", "destroy"}

HasId == \A t \in Threads : req[t].pc \in WithId => req[t].id \in Ids

Typed == TypeOK /\ HasId

\* Values keep their types: times, sessions, requests and the credential.
LEMMA Rounding == ASSUME NEW x \in 0 .. MaxTime PROVE rfc3339(x) \in 0 .. MaxTime
<1>1. x % SECOND \in 0 .. SECOND - 1
  BY SMT, SessionAssumption
<1>2. x % SECOND <= x
  BY SMT, SessionAssumption
<1> QED  BY SMT, <1>1, <1>2, SessionAssumption DEF rfc3339

LEMMA StoredType == ASSUME NEW s \in Session PROVE Stored(s) \in Session
BY Zenon, Rounding DEF Stored, Session

LEMMA NoRowType == NoRow \in Session
BY SMT, SessionAssumption DEF NoRow, Session

LEMMA NoRowGen == NoRow.gen = 0
BY DEF NoRow

LEMMA NoRequestIs ==
  NoRequest.pc = "idle" /\ NoRequest.gen = 0 /\ NoRequest.session = NoRow /\ NoRequest.session.gen = 0
BY DEF NoRequest, NoRow

LEMMA NoRequestType == NoRequest \in Request
BY SMT, NoRowType, SessionAssumption DEF NoRequest, Request

LEMMA ReqPc == ASSUME NEW r \in Request, NEW pc \in Pcs PROVE [r EXCEPT !.pc = pc] \in Request
BY DEF Request, Pcs

LEMMA ReqPcSession ==
  ASSUME NEW r \in Request, NEW pc \in Pcs, NEW s \in Session
  PROVE  [r EXCEPT !.pc = pc, !.session = s] \in Request
BY Zenon DEF Request, Pcs

LEMMA ReqPcTotp ==
  ASSUME NEW r \in Request, NEW pc \in Pcs, NEW b \in BOOLEAN
  PROVE  [r EXCEPT !.pc = pc, !.totp = b] \in Request
BY Zenon DEF Request, Pcs

LEMMA ReqIssued ==
  ASSUME NEW r \in Request, NEW i \in Ids, NEW s \in Session
  PROVE  [r EXCEPT !.pc = "cache", !.id = i, !.session = s] \in Request
BY Zenon DEF Request

LEMMA ReqSetup ==
  ASSUME NEW r \in Request, NEW p \in Passwords
  PROVE  [r EXCEPT !.pc = "commit", !.kind = "setup", !.pw = p] \in Request
BY Zenon DEF Request

LEMMA ReqReceived ==
  ASSUME NEW r \in Request, NEW i \in Ids, NEW kind \in Kinds
  PROVE  [r EXCEPT !.pc = "validate", !.kind = kind, !.id = i] \in Request
BY Zenon DEF Request

LEMMA ReqPcGen ==
  ASSUME NEW r \in Request, NEW pc \in Pcs, NEW g \in 0 .. MaxGeneration
  PROVE  [r EXCEPT !.pc = pc, !.gen = g] \in Request
BY Zenon DEF Request, Pcs

Cred == [password : Passwords \cup {NoPassword}, totp : BOOLEAN, gen : 0 .. MaxGeneration]

LEMMA CredPasswordGen ==
  ASSUME NEW c \in Cred, NEW p \in Passwords \cup {NoPassword}, NEW g \in 0 .. MaxGeneration
  PROVE  [c EXCEPT !.password = p, !.gen = g] \in Cred
BY Zenon DEF Cred

LEMMA SessionSeen ==
  ASSUME NEW s \in Session, NEW x \in 0 .. MaxTime PROVE [s EXCEPT !.seen = x] \in Session
BY DEF Session

LEMMA NoTimeType == -1 \in -1 .. MaxTime
BY SMT, SessionAssumption

LEMMA CredNat == ASSUME Typed PROVE cred.gen \in Nat
BY SMT, SessionAssumption DEF Typed, TypeOK

LEMMA RequestTyped == ASSUME Typed, NEW t \in Threads PROVE req[t] \in Request
BY DEF Typed, TypeOK

\* The two ways most steps leave a request.
LEMMA FinishTyped == ASSUME Typed, NEW t \in Threads, Finish(t)
  PROVE /\ req' \in [Threads -> Request]
        /\ HasId'
<1>1. req' \in [Threads -> Request]
  BY NoRequestType DEF Typed, TypeOK, Finish
<1>2. HasId'
  BY DEF Typed, TypeOK, HasId, Finish, NoRequest, WithId
<1> QED  BY <1>1, <1>2

LEMMA GotoTyped ==
  ASSUME Typed, NEW t \in Threads, NEW pc \in Pcs, Goto(t, pc), pc \in WithId => req[t].id \in Ids
  PROVE /\ req' \in [Threads -> Request]
        /\ HasId'
<1>1. req[t] \in Request
  BY DEF Typed, TypeOK
<1>2. req' \in [Threads -> Request]
  BY <1>1, ReqPc DEF Typed, TypeOK, Goto
<1>3. HasId'
  BY SMT DEF Typed, TypeOK, HasId, Goto, Request
<1> QED  BY <1>2, <1>3

USE DEF store, memory, history

\* Typed holds at the start and is kept by each action.
LEMMA InitTyped == Init => Typed
<1> SUFFICES ASSUME Init PROVE Typed
  OBVIOUS
<1>1. rows \in [Ids -> Session] /\ cache \in [Ids -> Session]
  BY NoRowType DEF Init
<1>2. req \in [Threads -> Request] /\ HasId
  BY NoRequestType DEF Init, HasId, WithId, NoRequest
<1>3. cred \in [password : Passwords \cup {NoPassword}, totp : BOOLEAN, gen : 0 .. MaxGeneration]
  <2>1. CASE cred = [password |-> NoPassword, totp |-> FALSE, gen |-> 0]
    BY SMT, <2>1, SessionAssumption
  <2>2. CASE cred \in [password : Passwords, totp : BOOLEAN, gen : {1}]
    BY SMT, <2>2, SessionAssumption
  <2> QED  BY <2>1, <2>2 DEF Init
<1>4. proof \in [Ids -> Proof]
  BY DEF Init, Proof, NoProof
<1> QED  BY SMT, <1>1, <1>2, <1>3, <1>4, SessionAssumption DEF Typed, TypeOK, Init

LEMMA LoginTyped ==
  ASSUME Typed, NEW t \in Threads, NEW p \in Passwords, handle_login(t, p) PROVE Typed'
<1> DEFINE r == [NoRequest EXCEPT !.pc = "totp", !.kind = "login", !.gen = cred.gen, !.pw = p]
<1>1. r \in Request /\ r.pc = "totp"
  BY Zenon, NoRowType, SessionAssumption DEF NoRequest, Request, Typed, TypeOK
<1>2. req' = [req EXCEPT ![t] = r]
  BY DEF handle_login
<1> HIDE DEF r
<1>3. req' \in [Threads -> Request] /\ HasId'
  BY <1>1, <1>2 DEF Typed, TypeOK, HasId, WithId
<1> QED  BY <1>3 DEF handle_login, Typed, TypeOK

LEMMA LoginTotpTyped ==
  ASSUME Typed, NEW t \in Threads, NEW code \in BOOLEAN, LoginTotp(t, code) PROVE Typed'
<1>1. req' \in [Threads -> Request] /\ HasId'
  <2>1. CASE Finish(t)
    BY <2>1, FinishTyped
  <2>2. CASE req' = [req EXCEPT ![t].pc = "issue", ![t].totp = cred.totp]
    <3> DEFINE b == cred.totp
    <3>1. b \in BOOLEAN
      BY DEF Typed, TypeOK
    <3> HIDE DEF b
    <3>2. [req[t] EXCEPT !.pc = "issue", !.totp = b] \in Request
      BY Zenon, <3>1, ReqPcTotp DEF Typed, TypeOK, Pcs
    <3>3. req' = [req EXCEPT ![t] = [req[t] EXCEPT !.pc = "issue", !.totp = b]]
      BY Zenon, <2>2 DEF b, Typed, TypeOK
    <3> QED  BY SMT, <3>2, <3>3 DEF Typed, TypeOK, HasId, WithId, Request
  <2> QED  BY <2>1, <2>2 DEF LoginTotp
<1> QED  BY <1>1 DEF LoginTotp, Typed, TypeOK

LEMMA NewSessionType ==
  ASSUME Typed, NEW ro \in BOOLEAN, NEW g \in 0 .. MaxGeneration PROVE NewSession(ro, g) \in Session
BY DEF NewSession, Session, Typed, TypeOK

LEMMA IssueTyped ==
  ASSUME Typed, NEW t \in Threads, NEW ro \in BOOLEAN, create_session_with_generation(t, ro) PROVE Typed'
<1>1. CASE Finish(t) /\ UNCHANGED <<rows, proof, activity>>
  BY <1>1, FinishTyped DEF create_session_with_generation, Typed, TypeOK
<1>2. ASSUME NEW i \in Fresh,
        rows' = [rows EXCEPT ![i] = Stored(NewSession(ro, cred.gen))],
        proof' = [proof EXCEPT ![i] = [by |-> "login", password |-> req[t].pw, totp |-> req[t].totp]],
        activity' = [activity EXCEPT ![i] = now],
        req' = [req EXCEPT ![t].pc = "cache", ![t].id = i, ![t].session = NewSession(ro, cred.gen)]
      PROVE Typed'
  <2> DEFINE s == NewSession(ro, cred.gen)
             pf == [by |-> "login", password |-> req[t].pw, totp |-> req[t].totp]
  <2>1. i \in Ids
    BY DEF Fresh
  <2>2. s \in Session /\ Stored(s) \in Session
    BY NewSessionType, StoredType DEF Typed, TypeOK
  <2>3. pf \in Proof
    BY DEF Proof, Typed, TypeOK, Request
  <2> HIDE DEF s, pf
  <2>4. [req[t] EXCEPT !.pc = "cache", !.id = i, !.session = s] \in Request
    BY Zenon, <2>1, <2>2, ReqIssued DEF Typed, TypeOK
  <2>5. req' = [req EXCEPT ![t] = [req[t] EXCEPT !.pc = "cache", !.id = i, !.session = s]]
    BY Zenon, <1>2 DEF s, Typed, TypeOK
  <2>6. req' \in [Threads -> Request] /\ HasId'
    BY SMT, <2>1, <2>4, <2>5 DEF Typed, TypeOK, HasId, Request
  <2>7. rows' \in [Ids -> Session] /\ proof' \in [Ids -> Proof] /\ activity' \in [Ids -> 0 .. MaxTime]
    BY <1>2, <2>1, <2>2, <2>3 DEF Typed, TypeOK, s, pf
  <2> QED  BY Zenon, <2>6, <2>7 DEF create_session_with_generation, Typed, TypeOK
<1> QED  BY Zenon, <1>1, <1>2 DEF create_session_with_generation

LEMMA CacheIssuedTyped ==
  ASSUME Typed, NEW t \in Threads, CacheIssued(t) PROVE Typed'
<1>1. req[t].id \in Ids /\ req[t].session \in Session
  BY DEF CacheIssued, Typed, TypeOK, HasId, WithId, Request
<1>2. cache' \in [Ids -> Session] /\ persisted' \in [Ids -> -1 .. MaxTime]
  BY SMT, <1>1, SessionAssumption DEF CacheIssued, Typed, TypeOK, Session
<1>3. req' \in [Threads -> Request] /\ HasId'
  BY FinishTyped DEF CacheIssued
<1> QED  BY <1>1, <1>2, <1>3 DEF CacheIssued, Typed, TypeOK

LEMMA SetupTyped ==
  ASSUME Typed, NEW t \in Threads, NEW p \in Passwords, handle_setup_apply(t, p) PROVE Typed'
<1> DEFINE r == [NoRequest EXCEPT !.pc = "commit", !.kind = "setup", !.pw = p]
<1>1. r \in Request /\ r.pc = "commit"
  BY Zenon, NoRequestType, ReqSetup DEF NoRequest
<1>2. req' = [req EXCEPT ![t] = r]
  BY DEF handle_setup_apply
<1> HIDE DEF r
<1>3. req' \in [Threads -> Request] /\ HasId'
  BY <1>1, <1>2 DEF Typed, TypeOK, HasId, WithId
<1> QED  BY <1>3 DEF handle_setup_apply, Typed, TypeOK

LEMMA NoSessionsType == NoSessions \in [Ids -> Session]
BY NoRowType DEF NoSessions

LEMMA CommitSetupTyped ==
  ASSUME Typed, NEW t \in Threads, commit_initial_setup(t) PROVE Typed'
<1>1. CASE Finish(t) /\ UNCHANGED <<cred, rows>>
  BY <1>1, FinishTyped DEF commit_initial_setup, Typed, TypeOK
<1>2. CASE /\ cred' = [cred EXCEPT !.password = req[t].pw, !.gen = 1]
           /\ rows' = NoSessions /\ Goto(t, "mode")
  <2>1. cred' \in [password : Passwords \cup {NoPassword}, totp : BOOLEAN, gen : 0 .. MaxGeneration]
    <3>1. req[t].pw \in Passwords \cup {NoPassword}
      BY DEF Typed, TypeOK, Request
    <3>2. cred \in Cred
      BY DEF Typed, TypeOK, Cred
    <3>3. 1 \in 0 .. MaxGeneration
      BY SMT, SessionAssumption
    <3>4. cred' \in Cred
      BY Zenon, <1>2, <3>1, <3>2, <3>3, CredPasswordGen
    <3> QED  BY <3>4 DEF Cred
  <2>2. req' \in [Threads -> Request] /\ HasId'
    BY <1>2, GotoTyped DEF Pcs, WithId
  <2> QED  BY <1>2, <2>1, <2>2, NoSessionsType DEF commit_initial_setup, Typed, TypeOK
<1> QED  BY <1>1, <1>2 DEF commit_initial_setup

LEMMA ModeTyped ==
  ASSUME Typed, NEW t \in Threads, create_session_with_mode(t) PROVE Typed'
<1>1. CASE Finish(t) /\ UNCHANGED lock
  BY <1>1, FinishTyped DEF create_session_with_mode, Typed, TypeOK
<1>2. CASE lock' = t /\ req' = [req EXCEPT ![t].pc = "insert", ![t].gen = cred.gen]
  <2>1. [req[t] EXCEPT !.pc = "insert", !.gen = cred.gen] \in Request
    BY Zenon, ReqPcGen DEF Typed, TypeOK, Pcs
  <2>2. req' = [req EXCEPT ![t] = [req[t] EXCEPT !.pc = "insert", !.gen = cred.gen]]
    BY Zenon, <1>2 DEF Typed, TypeOK
  <2>3. req' \in [Threads -> Request] /\ HasId'
    BY SMT, <2>1, <2>2 DEF Typed, TypeOK, HasId, Request, WithId
  <2> QED  BY <1>2, <2>3 DEF create_session_with_mode, Typed, TypeOK
<1> QED  BY <1>1, <1>2 DEF create_session_with_mode

LEMMA CreateTyped ==
  ASSUME Typed, NEW t \in Threads, create_session(t) PROVE Typed'
<1>1. req' \in [Threads -> Request] /\ HasId'
  BY FinishTyped DEF create_session
<1>2. CASE UNCHANGED <<rows, cache, persisted, proof, known, activity>>
  BY <1>1, <1>2 DEF create_session, Typed, TypeOK
<1>3. ASSUME NEW i \in Fresh,
        rows' = [rows EXCEPT ![i] = Stored(NewSession(FALSE, req[t].gen))],
        cache' = [cache EXCEPT ![i] = NewSession(FALSE, req[t].gen)],
        persisted' = [persisted EXCEPT ![i] = now],
        proof' = [proof EXCEPT ![i] = [by |-> "setup", password |-> req[t].pw, totp |-> FALSE]],
        known' = known \cup {i},
        activity' = [activity EXCEPT ![i] = now]
      PROVE Typed'
  <2> DEFINE s == NewSession(FALSE, req[t].gen)
             pf == [by |-> "setup", password |-> req[t].pw, totp |-> FALSE]
  <2>1. i \in Ids
    BY DEF Fresh
  <2>2. s \in Session /\ Stored(s) \in Session
    BY Zenon, NewSessionType, StoredType DEF Typed, TypeOK, Request
  <2>3. pf \in Proof
    BY DEF Proof, Typed, TypeOK, Request
  <2> HIDE DEF s, pf
  <2>4. rows' \in [Ids -> Session] /\ cache' \in [Ids -> Session]
    BY Zenon, <1>3, <2>1, <2>2 DEF Typed, TypeOK, s
  <2>5. proof' \in [Ids -> Proof]
    BY <1>3, <2>1, <2>3 DEF Typed, TypeOK, pf
  <2>6. persisted' \in [Ids -> -1 .. MaxTime] /\ activity' \in [Ids -> 0 .. MaxTime]
    BY SMT, <1>3, <2>1 DEF Typed, TypeOK
  <2> QED  BY ZenonT(30), <1>1, <1>3, <2>1, <2>4, <2>5, <2>6 DEF create_session, Typed, TypeOK
<1> QED  BY Zenon, <1>2, <1>3 DEF create_session

LEMMA ReceiveTyped ==
  ASSUME Typed, NEW t \in Threads, NEW i \in Ids, NEW kind \in Kinds, Receive(t, i, kind) PROVE Typed'
<1> DEFINE r == [NoRequest EXCEPT !.pc = "validate", !.kind = kind, !.id = i]
<1>1. r \in Request /\ r.id = i
  BY Zenon, NoRequestType, ReqReceived DEF NoRequest
<1>2. req' = [req EXCEPT ![t] = r]
  BY DEF Receive
<1> HIDE DEF r
<1>3. req' \in [Threads -> Request] /\ HasId'
  BY <1>1, <1>2 DEF Typed, TypeOK, HasId
<1> QED  BY <1>3 DEF Receive, Typed, TypeOK

LEMMA AcceptTyped ==
  ASSUME Typed, NEW t \in Threads, req[t].id \in Ids, NEW s \in Session, NEW last \in -1 .. MaxTime,
         Accept(t, s, last)
  PROVE /\ req' \in [Threads -> Request] /\ HasId'
        /\ cache' \in [Ids -> Session]
        /\ persisted' \in [Ids -> -1 .. MaxTime]
        /\ activity' \in [Ids -> 0 .. MaxTime]
<1> DEFINE u == [s EXCEPT !.seen = now]
           due == reserve_last_seen_persistence(last)
           pc == IF due THEN "persist" ELSE "auth"
           at == IF due THEN now ELSE last
<1>1. u \in Session
  BY DEF Session, Typed, TypeOK
<1>2. pc \in Pcs
  BY DEF Pcs
<1>3. at \in -1 .. MaxTime
  BY SMT DEF Typed, TypeOK
<1>4. /\ cache' = [cache EXCEPT ![req[t].id] = u]
      /\ persisted' = [persisted EXCEPT ![req[t].id] = at]
      /\ activity' = [activity EXCEPT ![req[t].id] = now]
      /\ req' = [req EXCEPT ![t].pc = pc, ![t].session = u]
  BY DEF Accept
<1> HIDE DEF u, due, pc, at
<1>5. [req[t] EXCEPT !.pc = pc, !.session = u] \in Request
  BY Zenon, <1>1, <1>2, ReqPcSession DEF Typed, TypeOK
<1>6. req' = [req EXCEPT ![t] = [req[t] EXCEPT !.pc = pc, !.session = u]]
  BY Zenon, <1>4 DEF Typed, TypeOK
<1>7. req' \in [Threads -> Request] /\ HasId'
  BY <1>5, <1>6 DEF Typed, TypeOK, HasId, Request
<1> QED  BY <1>1, <1>3, <1>4, <1>7 DEF Typed, TypeOK

LEMMA ValidateTyped ==
  ASSUME Typed, NEW t \in Threads, validate_locked(t) PROVE Typed'
<1> DEFINE i == req[t].id
<1>1. i \in Ids
  BY DEF validate_locked, Typed, HasId, WithId
<1>2. cache[i] \in Session /\ persisted[i] \in -1 .. MaxTime
  BY <1>1 DEF Typed, TypeOK
<1>3. CASE Finish(t) /\ UNCHANGED <<rows, cache, persisted, activity>>
  BY <1>3, FinishTyped DEF validate_locked, Typed, TypeOK
<1>4. CASE /\ Finish(t) /\ UNCHANGED activity
           /\ cache' = [cache EXCEPT ![i] = NoRow]
           /\ persisted' = [persisted EXCEPT ![i] = -1]
           /\ rows' \in {rows, [rows EXCEPT ![i] = NoRow]}
  <2>0. rows \in [Ids -> Session] /\ cache \in [Ids -> Session]
    BY DEF Typed, TypeOK
  <2>1. cache' \in [Ids -> Session]
    BY Zenon, <1>4, <2>0, NoRowType
  <2>2. persisted' \in [Ids -> -1 .. MaxTime]
    BY Zenon, <1>4, NoTimeType DEF Typed, TypeOK
  <2>3. rows' \in [Ids -> Session]
    BY <1>4, <2>0, NoRowType
  <2> QED  BY <1>4, <2>1, <2>2, <2>3, FinishTyped DEF validate_locked, Typed, TypeOK
<1>5. CASE Accept(t, cache[i], persisted[i]) /\ UNCHANGED rows
  BY <1>1, <1>2, <1>5, AcceptTyped DEF validate_locked, Typed, TypeOK
<1> QED  BY <1>3, <1>4, <1>5 DEF validate_locked

LEMMA GetTyped ==
  ASSUME Typed, NEW t \in Threads, get_session(t) PROVE Typed'
<1>1. CASE Finish(t) /\ UNCHANGED lock
  BY <1>1, FinishTyped DEF get_session, Typed, TypeOK
<1>2. CASE lock' = t /\ req' = [req EXCEPT ![t].pc = "load", ![t].session = rows[req[t].id]]
  <2>1. req[t].id \in Ids
    BY DEF get_session, Typed, HasId, WithId
  <2>2. [req[t] EXCEPT !.pc = "load", !.session = rows[req[t].id]] \in Request
    BY Zenon, <2>1, ReqPcSession DEF Typed, TypeOK, Pcs
  <2>3. req' = [req EXCEPT ![t] = [req[t] EXCEPT !.pc = "load", !.session = rows[req[t].id]]]
    BY Zenon, <1>2 DEF Typed, TypeOK
  <2>4. req' \in [Threads -> Request] /\ HasId'
    BY <2>1, <2>2, <2>3 DEF Typed, TypeOK, HasId, Request
  <2> QED  BY <1>2, <2>4 DEF get_session, Typed, TypeOK
<1> QED  BY <1>1, <1>2 DEF get_session

LEMMA LoadedTyped ==
  ASSUME Typed, NEW t \in Threads, validate_loaded(t) PROVE Typed'
<1> DEFINE i == req[t].id
           s == req[t].session
<1>1. i \in Ids
  BY DEF validate_loaded, Typed, HasId, WithId
<1>2. s \in Session /\ s.seen \in -1 .. MaxTime
  BY SMT DEF Typed, TypeOK, Request, Session
<1>3. CASE Finish(t) /\ rows' \in {rows, [rows EXCEPT ![i] = NoRow]} /\ UNCHANGED <<cache, persisted, activity>>
  <2>1. rows' \in [Ids -> Session]
    BY <1>3, NoRowType DEF Typed, TypeOK
  <2> QED  BY <1>3, <2>1, FinishTyped DEF validate_loaded, Typed, TypeOK
<1>4. CASE Accept(t, s, s.seen) /\ UNCHANGED rows
  BY <1>1, <1>2, <1>4, AcceptTyped DEF validate_loaded, Typed, TypeOK
<1> QED  BY <1>3, <1>4 DEF validate_loaded

LEMMA PersistTyped ==
  ASSUME Typed, NEW t \in Threads, persist_last_seen(t) PROVE Typed'
<1> DEFINE i == req[t].id
           at == req[t].session.seen
<1>1. i \in Ids /\ at \in 0 .. MaxTime
  BY DEF persist_last_seen, Typed, TypeOK, HasId, WithId, Request, Session
<1>2. req' \in [Threads -> Request] /\ HasId'
  BY <1>1, GotoTyped DEF persist_last_seen, Pcs
<1>3. rows' \in [Ids -> Session]
  <2>1. [rows[i] EXCEPT !.seen = rfc3339(at)] \in Session
    BY <1>1, Rounding, SessionSeen DEF Typed, TypeOK
  <2>2. rows' = rows \/ rows' = [rows EXCEPT ![i] = [rows[i] EXCEPT !.seen = rfc3339(at)]]
    BY DEF persist_last_seen
  <2> QED  BY <2>1, <2>2 DEF Typed, TypeOK
<1>4. persisted' \in [Ids -> -1 .. MaxTime]
  BY SMT, <1>1, SessionAssumption DEF persist_last_seen, Typed, TypeOK
<1> QED  BY <1>2, <1>3, <1>4 DEF persist_last_seen, Typed, TypeOK

LEMMA AuthenticateTyped ==
  ASSUME Typed, NEW t \in Threads, authenticate(t) PROVE Typed'
<1>1. req[t].id \in Ids
  BY DEF authenticate, Typed, HasId, WithId
<1>2. CASE Finish(t)
  BY <1>2, FinishTyped DEF authenticate, Typed, TypeOK
<1>3. CASE Goto(t, "destroy")
  BY <1>1, <1>3, GotoTyped DEF authenticate, Pcs, Typed, TypeOK
<1>4. CASE Goto(t, "handle")
  BY <1>1, <1>4, GotoTyped DEF authenticate, Pcs, Typed, TypeOK
<1> QED  BY <1>2, <1>3, <1>4 DEF authenticate

LEMMA VerifyTyped ==
  ASSUME Typed, NEW t \in Threads, NEW p \in Passwords, verify_current_password(t, p) PROVE Typed'
<1>1. req[t].id \in Ids
  BY DEF verify_current_password, Typed, HasId, WithId
<1>2. CASE Finish(t)
  BY <1>2, FinishTyped DEF verify_current_password, Typed, TypeOK
<1>3. CASE Goto(t, "verified")
  BY <1>1, <1>3, GotoTyped DEF verify_current_password, Pcs, Typed, TypeOK
<1> QED  BY <1>2, <1>3 DEF verify_current_password

LEMMA ChangePasswordTyped ==
  ASSUME Typed, NEW t \in Threads, NEW p \in Passwords, handle_change_password(t, p) PROVE Typed'
<1>1. req[t].id \in Ids /\ req[t] \in Request
  BY DEF handle_change_password, Typed, TypeOK, HasId, WithId
<1>2. CASE Finish(t)
  BY <1>2, FinishTyped DEF handle_change_password, Typed, TypeOK
<1>3. CASE req' = [req EXCEPT ![t].pc = "set", ![t].pw = p]
  <2>1. [req[t] EXCEPT !.pc = "set", !.pw = p] \in Request
    BY Zenon, <1>1 DEF Request
  <2>2. req' = [req EXCEPT ![t] = [req[t] EXCEPT !.pc = "set", !.pw = p]]
    BY Zenon, <1>3 DEF Typed, TypeOK
  <2>3. req' \in [Threads -> Request] /\ HasId'
    BY <1>1, <2>1, <2>2 DEF Typed, TypeOK, HasId, Request
  <2> QED  BY <2>3 DEF handle_change_password, Typed, TypeOK
<1> QED  BY <1>2, <1>3 DEF handle_change_password

LEMMA QrTyped ==
  ASSUME Typed, NEW t \in Threads, handle_totp_qr(t) PROVE Typed'
<1>1. req[t].id \in Ids
  BY DEF handle_totp_qr, Typed, HasId, WithId
<1>2. pending' \subseteq Ids
  BY <1>1 DEF handle_totp_qr, Typed, TypeOK
<1> QED  BY <1>2, FinishTyped DEF handle_totp_qr, Typed, TypeOK

LEMMA DisableTyped ==
  ASSUME Typed, NEW t \in Threads, NEW code \in BOOLEAN, handle_totp_disable(t, code) PROVE Typed'
<1>1. req[t].id \in Ids
  BY DEF handle_totp_disable, Typed, HasId, WithId
<1>2. CASE Finish(t)
  BY <1>2, FinishTyped DEF handle_totp_disable, Typed, TypeOK
<1>3. CASE Goto(t, "set")
  BY <1>1, <1>3, GotoTyped DEF handle_totp_disable, Pcs, Typed, TypeOK
<1> QED  BY <1>2, <1>3 DEF handle_totp_disable

LEMMA EnableTyped ==
  ASSUME Typed, NEW t \in Threads, NEW code \in BOOLEAN, handle_totp_enable(t, code) PROVE Typed'
<1>1. req[t].id \in Ids
  BY DEF handle_totp_enable, Typed, HasId, WithId
<1>2. CASE Goto(t, "set") /\ UNCHANGED pending
  BY <1>1, <1>2, GotoTyped DEF handle_totp_enable, Pcs, Typed, TypeOK
<1>3. CASE Finish(t) /\ pending' \in {pending, pending \ {req[t].id}}
  <2>1. pending' \subseteq Ids
    BY <1>3 DEF Typed, TypeOK
  <2> QED  BY <1>3, <2>1, FinishTyped DEF handle_totp_enable, Typed, TypeOK
<1> QED  BY <1>2, <1>3 DEF handle_totp_enable

LEMMA UpdateTyped ==
  ASSUME Typed, NEW t \in Threads, update_authentication(t) PROVE Typed'
<1>1. req[t].id \in Ids
  BY DEF update_authentication, Typed, HasId, WithId
<1>2. CASE Finish(t) /\ UNCHANGED <<cred, rows, pending>>
  BY <1>2, FinishTyped DEF update_authentication, Typed, TypeOK
<1>3. CASE /\ cred.gen < MaxGeneration /\ cred' = Changed(req[t]) /\ rows' = NoSessions
           /\ pending' = IF req[t].kind = "enable" THEN pending \ {req[t].id} ELSE pending
           /\ Goto(t, "destroyAll")
  <2> DEFINE p == IF req[t].kind = "password" THEN req[t].pw ELSE cred.password
             b == IF req[t].kind = "password" THEN cred.totp ELSE req[t].kind = "enable"
             g == cred.gen + 1
  <2>1. p \in Passwords \cup {NoPassword}
    BY DEF Typed, TypeOK, Request
  <2>2. b \in BOOLEAN
    BY Zenon DEF Typed, TypeOK
  <2>3. g \in 0 .. MaxGeneration
    BY SMT, <1>3, SessionAssumption DEF Typed, TypeOK
  <2>4. cred' = [password |-> p, totp |-> b, gen |-> g]
    BY <1>3 DEF Changed
  <2> HIDE DEF p, b, g
  <2>5. cred' \in Cred
    BY <2>1, <2>2, <2>3, <2>4 DEF Cred
  <2>6. req' \in [Threads -> Request] /\ HasId'
    BY <1>1, <1>3, GotoTyped DEF Pcs
  <2>7. pending' \subseteq Ids
    BY <1>3 DEF Typed, TypeOK
  <2> QED  BY <1>3, <2>5, <2>6, <2>7, NoSessionsType DEF update_authentication, Typed, TypeOK, Cred
<1> QED  BY <1>2, <1>3 DEF update_authentication

LEMMA DestroyAllTyped ==
  ASSUME Typed, NEW t \in Threads, destroy_all_sessions(t) PROVE Typed'
<1>1. req[t].id \in Ids
  BY DEF destroy_all_sessions, Typed, HasId, WithId
<1>2. CASE Finish(t) /\ UNCHANGED <<rows, cache, persisted>>
  BY <1>2, FinishTyped DEF destroy_all_sessions, Typed, TypeOK
<1>3. CASE /\ rows' = NoSessions /\ cache' = NoSessions /\ persisted' = [i \in Ids |-> -1]
           /\ Goto(t, "destroy")
  <2>1. persisted' \in [Ids -> -1 .. MaxTime]
    BY <1>3, NoTimeType
  <2>2. req' \in [Threads -> Request] /\ HasId'
    BY <1>1, <1>3, GotoTyped DEF Pcs
  <2> QED  BY <1>3, <2>1, <2>2, NoSessionsType DEF destroy_all_sessions, Typed, TypeOK
<1> QED  BY <1>2, <1>3 DEF destroy_all_sessions

LEMMA DestroyTyped ==
  ASSUME Typed, NEW t \in Threads, destroy_session(t) PROVE Typed'
<1> DEFINE i == req[t].id
<1>1. i \in Ids
  BY DEF destroy_session, Typed, HasId, WithId
<1>2. req' \in [Threads -> Request] /\ HasId'
  BY FinishTyped DEF destroy_session
<1>3. CASE UNCHANGED <<rows, cache, persisted, gone>>
  BY <1>2, <1>3 DEF destroy_session, Typed, TypeOK
<1>4. CASE /\ rows' = [rows EXCEPT ![i] = NoRow] /\ cache' = [cache EXCEPT ![i] = NoRow]
           /\ persisted' = [persisted EXCEPT ![i] = -1] /\ gone' = gone \cup {i}
  <2>1. rows' \in [Ids -> Session] /\ cache' \in [Ids -> Session]
    BY Zenon, <1>4, NoRowType DEF Typed, TypeOK
  <2>2. persisted' \in [Ids -> -1 .. MaxTime]
    BY Zenon, <1>4, NoTimeType DEF Typed, TypeOK
  <2> QED  BY <1>1, <1>2, <1>4, <2>1, <2>2 DEF destroy_session, Typed, TypeOK
<1> QED  BY <1>3, <1>4 DEF destroy_session

LEMMA CleanTyped == ASSUME Typed, CleanCache \/ clean_expired_sessions PROVE Typed'
<1>1. CASE CleanCache
  <2>1. cache' \in [Ids -> Session]
    BY <1>1, NoRowType DEF CleanCache, Typed, TypeOK
  <2>2. persisted' \in [Ids -> -1 .. MaxTime]
    BY <1>1, NoTimeType DEF CleanCache, Typed, TypeOK
  <2> QED  BY <1>1, <2>1, <2>2 DEF CleanCache, Typed, TypeOK, HasId
<1>2. CASE clean_expired_sessions
  <2>1. rows' \in [Ids -> Session]
    BY <1>2, NoRowType DEF clean_expired_sessions, Typed, TypeOK
  <2> QED  BY <1>2, <2>1 DEF clean_expired_sessions, Typed, TypeOK, HasId
<1> QED  BY <1>1, <1>2

LEMMA ResetTyped ==
  ASSUME Typed, NEW p \in Passwords, NEW d \in BOOLEAN, recovery_reset_authentication(p, d) PROVE Typed'
<1> DEFINE b == cred.totp /\ ~d
           g == cred.gen + 1
<1>1. b \in BOOLEAN
  OBVIOUS
<1>2. g \in 0 .. MaxGeneration
  BY SMT, SessionAssumption DEF recovery_reset_authentication, Typed, TypeOK
<1>3. cred' = [password |-> p, totp |-> b, gen |-> g]
  BY DEF recovery_reset_authentication
<1> HIDE DEF b, g
<1>4. cred' \in Cred
  BY <1>1, <1>2, <1>3 DEF Cred
<1> QED  BY <1>4, NoSessionsType DEF recovery_reset_authentication, Typed, TypeOK, HasId, Cred

LEMMA RestartTyped == ASSUME Typed, Restart PROVE Typed'
<1>1. req' \in [Threads -> Request] /\ HasId'
  BY NoRequestType DEF Restart, HasId, WithId, NoRequest
<1>2. persisted' \in [Ids -> -1 .. MaxTime]
  BY NoTimeType DEF Restart
<1>3. gone' \subseteq Ids
  BY DEF Restart, Typed, TypeOK
<1> QED  BY <1>1, <1>2, <1>3, NoSessionsType DEF Restart, Typed, TypeOK

LEMMA OtherTyped == ASSUME Typed, recovery_save_config \/ Tick \/ UNCHANGED vars PROVE Typed'
<1>1. CASE recovery_save_config
  BY <1>1, NoSessionsType DEF recovery_save_config, Typed, TypeOK, HasId
<1>2. CASE Tick
  BY SMT, <1>2, SessionAssumption DEF Tick, Typed, TypeOK, HasId
<1>3. CASE UNCHANGED vars
  BY <1>3 DEF vars, Typed, TypeOK, HasId
<1> QED  BY <1>1, <1>2, <1>3

LEMMA NextTyped == Typed /\ [Next]_vars => Typed'
<1> SUFFICES ASSUME Typed, [Next]_vars PROVE Typed'
  OBVIOUS
<1>1. ASSUME NEW t \in Threads, Step(t) PROVE Typed'
  BY <1>1, LoginTotpTyped, DisableTyped, EnableTyped, IssueTyped, CacheIssuedTyped, CommitSetupTyped,
     ModeTyped, CreateTyped, ValidateTyped, GetTyped, LoadedTyped, PersistTyped, AuthenticateTyped,
     VerifyTyped, ChangePasswordTyped, QrTyped, UpdateTyped, DestroyAllTyped, DestroyTyped DEF Step
<1>2. ASSUME NEW t \in Threads, Arrive(t) PROVE Typed'
  BY <1>2, LoginTyped, SetupTyped, ReceiveTyped DEF Arrive
<1> QED  BY <1>1, <1>2, CleanTyped, ResetTyped, RestartTyped, OtherTyped DEF Next

\* Credentials, rows, cache, lock, requests and histories keep their types
\* for every set of sessions, passwords and threads, every clock and every
\* time-out.
THEOREM SessionsTypeCorrect == Spec => []TypeOK
<1>1. Typed => TypeOK
  BY DEF Typed
<1> QED  BY <1>1, InitTyped, NextTyped, PTL DEF Spec

-----------------------------------------------------------------------------
(***************************************************************************)
(* Theorems about Sessions, for every number of sessions, threads and      *)
(* passwords. Backed carries what a login verified from the password check *)
(* to the row, the cache and every copy a request holds: what bears the    *)
(* current generation was issued for the current credential, and nothing   *)
(* bears a later one, so a credential change outdates every copy at once.  *)
(***************************************************************************)

\* No copy is of a generation that is still to come.
Older ==
  /\ \A i \in Ids : rows[i].gen <= cred.gen /\ cache[i].gen <= cred.gen
  /\ \A t \in Threads : req[t].gen <= cred.gen /\ req[t].session.gen <= cred.gen

\* The login of i verified the credential in force.
Matches(i) == proof[i].by = "login" => proof[i].password = cred.password /\ (cred.totp => proof[i].totp)

CacheProves == \A i \in Ids : cache[i].gen = cred.gen /\ cred.gen # 0 => Matches(i)

HeldProves ==
  \A t \in Threads : req[t].session.gen = cred.gen /\ cred.gen # 0 /\ req[t].id \in Ids => Matches(req[t].id)

\* A login under way that the insertion would let through has verified the
\* credential in force.
Sound(r) ==
  /\ r.pc \in {"totp", "issue"} /\ r.gen = cred.gen => r.pw = cred.password
  /\ r.pc = "issue" /\ r.gen = cred.gen /\ cred.totp => r.totp
  /\ r.pc = "load" => r.session.gen # 0

RequestsSound == \A t \in Threads : Sound(req[t])

Backed == Older /\ RowsProveCredential /\ CacheProves /\ HeldProves /\ RequestsSound

\* What a step does that leaves credential and proofs alone: rows, entries
\* and copies go, stay, or come from one another.
KeptRow(i) == rows'[i].gen = 0 \/ rows'[i].gen = rows[i].gen

KeptEntry(i) ==
  \/ cache'[i].gen = 0 \/ cache'[i].gen = cache[i].gen
  \/ \E t \in Threads : req[t].id = i /\ cache'[i].gen = req[t].session.gen

KeptRequest(t) ==
  /\ req'[t].gen <= cred.gen
  /\ Sound(req'[t])
  /\ \/ req'[t].session.gen = 0
     \/ req'[t].id = req[t].id /\ req'[t].session.gen = req[t].session.gen
     \/ /\ req'[t].id = req[t].id /\ req[t].id \in Ids
        /\ req'[t].session.gen \in {rows[req[t].id].gen, cache[req[t].id].gen}

\* Such a step keeps Backed.
LEMMA Keep ==
  ASSUME Typed, Typed', Backed, UNCHANGED <<cred, proof>>,
         \A i \in Ids : KeptRow(i) /\ KeptEntry(i), \A t \in Threads : KeptRequest(t)
  PROVE  Backed'
<1>0. cred.gen \in Nat
  BY CredNat
<1>1. Older'
  <2>1. \A i \in Ids : rows'[i].gen <= cred.gen
    BY SMT, <1>0 DEF Backed, Older, KeptRow
  <2>2. \A i \in Ids : cache'[i].gen <= cred.gen
    BY SMT, <1>0 DEF Backed, Older, KeptEntry
  <2>3. \A t \in Threads : req'[t].gen <= cred.gen /\ req'[t].session.gen <= cred.gen
    BY SMT, <1>0 DEF Backed, Older, KeptRequest
  <2> QED  BY <2>1, <2>2, <2>3 DEF Older
<1>2. RowsProveCredential'
  BY DEF Backed, RowsProveCredential, KeptRow
<1>3. \A i \in Ids : Matches(i)' = Matches(i)
  BY DEF Matches
<1>4. \A i \in Ids : rows[i].gen = cred.gen /\ cred.gen # 0 => Matches(i)
  BY DEF Backed, RowsProveCredential, Matches
<1> HIDE DEF Matches
<1>5. CacheProves'
  BY SMT, <1>3 DEF Backed, CacheProves, HeldProves, KeptEntry
<1>6. HeldProves'
  BY <1>3, <1>4 DEF Backed, CacheProves, HeldProves, KeptRequest
<1>7. RequestsSound'
  BY DEF RequestsSound, KeptRequest, Sound
<1> QED  BY <1>1, <1>2, <1>5, <1>6, <1>7 DEF Backed

\* A credential change deletes the rows and outdates everything else.
SameHold(t) ==
  /\ req'[t].gen = req[t].gen /\ req'[t].session = req[t].session
  /\ req'[t].pc = "load" => req[t].pc = "load"

LEMMA NewGeneration ==
  ASSUME Typed, Typed', Backed, cred'.gen > cred.gen, rows' = NoSessions, UNCHANGED <<cache, proof>>,
         \A t \in Threads : SameHold(t)
  PROVE  Backed'
<1>0. cred.gen \in Nat /\ cred'.gen \in Nat
  BY SMT, SessionAssumption DEF Typed, TypeOK
<1>1. \A i \in Ids : cache[i].gen \in Nat /\ rows'[i].gen = 0
  BY SMT, SessionAssumption DEF Typed, TypeOK, Session, NoSessions, NoRow
<1>2. \A t \in Threads : req[t].gen \in Nat /\ req[t].session.gen \in Nat
  BY SMT, SessionAssumption DEF Typed, TypeOK, Session, Request
<1>3. Older'
  <2>1. \A i \in Ids : rows'[i].gen <= cred'.gen
    BY SMT, <1>0, <1>1
  <2>2. \A i \in Ids : cache'[i].gen <= cred'.gen
    BY SMT, <1>0, <1>1 DEF Backed, Older
  <2>3. \A t \in Threads : req'[t].gen <= cred'.gen /\ req'[t].session.gen <= cred'.gen
    BY SMT, <1>0, <1>2 DEF Backed, Older, SameHold
  <2> QED  BY <2>1, <2>2, <2>3 DEF Older
<1>4. RowsProveCredential'
  BY <1>1 DEF RowsProveCredential
<1>5. CacheProves' /\ HeldProves'
  BY SMT, <1>0, <1>1, <1>2 DEF Backed, Older, CacheProves, HeldProves, SameHold
<1>6. RequestsSound'
  BY SMT, <1>0, <1>2 DEF Backed, Older, RequestsSound, Sound, SameHold
<1> QED  BY <1>3, <1>4, <1>5, <1>6 DEF Backed

\* Requests that stay, end, move on or are accepted.
LEMMA KeptUnchanged == ASSUME Typed, Backed, NEW t \in Threads, req'[t] = req[t] PROVE KeptRequest(t)
BY DEF Backed, Older, RequestsSound, KeptRequest

LEMMA KeptNew ==
  ASSUME NEW t \in Threads, req'[t].gen <= cred.gen, Sound(req'[t]), req'[t].session.gen = 0
  PROVE  KeptRequest(t)
BY DEF KeptRequest

LEMMA KeptRows ==
  ASSUME NEW i \in Ids, rows'[i] = rows[i] \/ rows'[i] = NoRow PROVE KeptRow(i)
BY NoRowGen DEF KeptRow

LEMMA KeptEntries ==
  ASSUME NEW i \in Ids, cache'[i] = cache[i] \/ cache'[i] = NoRow PROVE KeptEntry(i)
BY NoRowGen DEF KeptEntry

LEMMA KeptFinish ==
  ASSUME Typed, Backed, NEW t \in Threads, Finish(t) PROVE \A u \in Threads : KeptRequest(u)
<1>1. req'[t] = NoRequest /\ \A u \in Threads \ {t} : req'[u] = req[u]
  BY DEF Finish, Typed, TypeOK
<1>2. Sound(req'[t])
  BY <1>1, NoRequestIs DEF Sound
<1>3. KeptRequest(t)
  BY SMT, <1>1, <1>2, CredNat, NoRequestIs, KeptNew
<1> QED  BY <1>1, <1>3, KeptUnchanged

LEMMA KeptGoto ==
  ASSUME Typed, Backed, NEW t \in Threads, NEW pc \in Pcs \ {"totp", "issue", "load"}, Goto(t, pc)
  PROVE  \A u \in Threads : KeptRequest(u)
<1>1. req[t] \in Request /\ req'[t] = [req[t] EXCEPT !.pc = pc] /\ \A u \in Threads \ {t} : req'[u] = req[u]
  BY DEF Goto, Typed, TypeOK
<1>2. KeptRequest(t)
  BY <1>1 DEF Backed, Older, KeptRequest, Sound, Request
<1> QED  BY <1>1, <1>2, KeptUnchanged

LEMMA KeptAll == ASSUME Typed, Backed, UNCHANGED req PROVE \A u \in Threads : KeptRequest(u)
BY KeptUnchanged

LEMMA KeptAccept ==
  ASSUME Typed, Backed, NEW t \in Threads, req[t].id \in Ids, NEW s \in Session, NEW last,
         s = cache[req[t].id] \/ s = req[t].session, Accept(t, s, last)
  PROVE  (\A u \in Threads : KeptRequest(u)) /\ (\A i \in Ids : KeptEntry(i))
<1> DEFINE v == [s EXCEPT !.seen = now]
           pc == IF reserve_last_seen_persistence(last) THEN "persist" ELSE "auth"
<1>1. v.gen = s.gen
  BY DEF Session
<1>2. pc \in {"persist", "auth"}
  OBVIOUS
<1>3. cache' = [cache EXCEPT ![req[t].id] = v] /\ req' = [req EXCEPT ![t].pc = pc, ![t].session = v]
  BY DEF Accept
<1> HIDE DEF v, pc
<1>4. /\ req[t] \in Request /\ \A u \in Threads \ {t} : req'[u] = req[u]
      /\ req'[t] = [req[t] EXCEPT !.pc = pc, !.session = v]
  BY <1>3 DEF Typed, TypeOK
<1>5. KeptRequest(t)
  BY <1>1, <1>2, <1>4 DEF Backed, Older, KeptRequest, Sound, Request
<1>6. ASSUME NEW i \in Ids PROVE KeptEntry(i)
  BY <1>1, <1>3 DEF KeptEntry, Typed, TypeOK
<1> QED  BY <1>4, <1>5, <1>6, KeptUnchanged

\* Backed holds at the start and is kept by each action.
LEMMA InitBacked == Init => Backed
<1> SUFFICES ASSUME Init PROVE Backed
  OBVIOUS
<1>1. cred.gen \in Nat
  BY SMT, InitTyped, SessionAssumption DEF Typed, TypeOK
<1>2. \A i \in Ids : rows[i] = NoRow /\ cache[i] = NoRow
  BY Zenon DEF Init
<1>3. \A t \in Threads : req[t] = NoRequest
  BY DEF Init
<1>4. NoRow.gen = 0 /\ NoRequest.gen = 0 /\ NoRequest.session = NoRow /\ NoRequest.pc = "idle"
  BY DEF NoRow, NoRequest
<1>5. Older
  BY SMT, <1>1, <1>2, <1>3, <1>4 DEF Older
<1>6. RowsProveCredential /\ CacheProves /\ HeldProves
  BY <1>2, <1>3, <1>4 DEF RowsProveCredential, CacheProves, HeldProves
<1>7. RequestsSound
  BY <1>3, <1>4 DEF RequestsSound, Sound
<1> QED  BY <1>5, <1>6, <1>7 DEF Backed

LEMMA LoginBacked ==
  ASSUME Typed, Typed', Backed, NEW t \in Threads, NEW p \in Passwords, handle_login(t, p) PROVE Backed'
<1> DEFINE r == [NoRequest EXCEPT !.pc = "totp", !.kind = "login", !.gen = cred.gen, !.pw = p]
<1>1. r.pc = "totp" /\ r.gen = cred.gen /\ r.pw = cred.password /\ r.session.gen = 0
  BY DEF NoRequest, NoRow, handle_login
<1>2. req'[t] = r /\ \A u \in Threads \ {t} : req'[u] = req[u]
  BY DEF handle_login, Typed, TypeOK
<1> HIDE DEF r
<1>3. KeptRequest(t)
  <2>1. Sound(req'[t])
    BY <1>1, <1>2 DEF Sound
  <2> QED  BY SMT, <1>1, <1>2, <2>1, CredNat, KeptNew
<1>4. \A u \in Threads : KeptRequest(u)
  BY <1>2, <1>3, KeptUnchanged
<1>5. \A i \in Ids : KeptRow(i) /\ KeptEntry(i)
  BY DEF handle_login, KeptRow, KeptEntry
<1> QED  BY <1>4, <1>5, Keep DEF handle_login

LEMMA LoginTotpBacked ==
  ASSUME Typed, Typed', Backed, NEW t \in Threads, NEW code \in BOOLEAN, LoginTotp(t, code) PROVE Backed'
<1>1. CASE Finish(t)
  BY <1>1, KeptFinish, Keep DEF LoginTotp, KeptRow, KeptEntry
<1>2. CASE req' = [req EXCEPT ![t].pc = "issue", ![t].totp = cred.totp]
  <2> DEFINE b == cred.totp
  <2>1. /\ req[t] \in Request /\ \A u \in Threads \ {t} : req'[u] = req[u]
        /\ req'[t] = [req[t] EXCEPT !.pc = "issue", !.totp = b]
    BY <1>2 DEF Typed, TypeOK
  <2>2. b = cred.totp
    OBVIOUS
  <2> HIDE DEF b
  <2>3. /\ req'[t].gen = req[t].gen /\ req'[t].pw = req[t].pw /\ req'[t].session = req[t].session
        /\ req'[t].pc = "issue" /\ req'[t].totp = b /\ req'[t].id = req[t].id
    BY <2>1 DEF Request
  <2>4. Sound(req'[t])
    BY <2>2, <2>3 DEF LoginTotp, Backed, RequestsSound, Sound
  <2>5. KeptRequest(t)
    BY <2>3, <2>4 DEF KeptRequest, Backed, Older
  <2>6. \A u \in Threads : KeptRequest(u)
    BY <2>1, <2>5, KeptUnchanged
  <2>7. \A i \in Ids : KeptRow(i) /\ KeptEntry(i)
    BY DEF LoginTotp, KeptRow, KeptEntry
  <2> QED  BY <2>6, <2>7, Keep DEF LoginTotp
<1> QED  BY <1>1, <1>2 DEF LoginTotp

LEMMA IssueBacked ==
  ASSUME Typed, Typed', Backed, NEW t \in Threads, NEW ro \in BOOLEAN, create_session_with_generation(t, ro)
  PROVE  Backed'
<1>1. CASE Finish(t) /\ UNCHANGED <<rows, proof, activity>>
  BY <1>1, KeptFinish, Keep DEF create_session_with_generation, KeptRow, KeptEntry
<1>2. ASSUME NEW i \in Fresh, cred.gen = req[t].gen,
        rows' = [rows EXCEPT ![i] = Stored(NewSession(ro, cred.gen))],
        proof' = [proof EXCEPT ![i] = [by |-> "login", password |-> req[t].pw, totp |-> req[t].totp]],
        req' = [req EXCEPT ![t].pc = "cache", ![t].id = i, ![t].session = NewSession(ro, cred.gen)]
      PROVE Backed'
  <2> DEFINE s == NewSession(ro, cred.gen)
             pw == req[t].pw
             b == req[t].totp
  <2>1. i \in Ids /\ req[t] \in Request /\ UNCHANGED <<cred, cache>> /\ req[t].pc = "issue"
    BY Zenon DEF Fresh, Typed, TypeOK, create_session_with_generation
  <2>2. s.gen = cred.gen /\ Stored(s).gen = cred.gen
    BY DEF NewSession, Stored
  <2>3. pw = cred.password /\ (cred.totp => b)
    BY <1>2, <2>1 DEF Backed, RequestsSound, Sound
  <2>4. rows' = [rows EXCEPT ![i] = Stored(s)] /\ proof' = [proof EXCEPT ![i] = [by |-> "login", password |-> pw, totp |-> b]]
    BY <1>2
  <2>5. req' = [req EXCEPT ![t].pc = "cache", ![t].id = i, ![t].session = s]
    BY <1>2
  <2> HIDE DEF s, pw, b
  <2>6. /\ req'[t].pc = "cache" /\ req'[t].id = i /\ req'[t].session = s /\ req'[t].gen = req[t].gen
        /\ \A u \in Threads \ {t} : req'[u] = req[u]
    BY SMT, <2>1, <2>5 DEF Typed, TypeOK, Request
  <2>7. rows'[i].gen = cred.gen /\ \A j \in Ids \ {i} : rows'[j] = rows[j] /\ proof'[j] = proof[j]
    BY <2>1, <2>2, <2>4 DEF Typed, TypeOK
  <2>8. proof'[i].password = pw /\ proof'[i].totp = b
    BY <2>1, <2>4 DEF Typed, TypeOK
  <2>9. Matches(i)'
    BY <2>1, <2>3, <2>8 DEF Matches
  <2>10. \A j \in Ids : Matches(j) => Matches(j)'
    BY <2>1, <2>7, <2>9 DEF Matches
  <2>11. Older'
    <3>1. cred.gen \in Nat
      BY CredNat
    <3>2. \A j \in Ids : rows'[j].gen <= cred.gen /\ cache'[j].gen <= cred.gen
      BY SMT, <2>1, <2>7, <3>1 DEF Backed, Older
    <3>3. \A u \in Threads : req'[u].gen <= cred.gen /\ req'[u].session.gen <= cred.gen
      BY SMT, <2>2, <2>6, <3>1 DEF Backed, Older
    <3> QED  BY <2>1, <3>2, <3>3 DEF Older
  <2>12. RowsProveCredential'
    BY SMT, <2>1, <2>7, <2>9 DEF Backed, RowsProveCredential, Matches
  <2>13. CacheProves'
    BY <2>1, <2>10 DEF Backed, CacheProves
  <2>14. HeldProves'
    BY <2>1, <2>6, <2>9, <2>10 DEF Backed, HeldProves
  <2>15. RequestsSound'
    BY SMT, <2>1, <2>6 DEF Backed, RequestsSound, Sound
  <2> QED  BY <2>11, <2>12, <2>13, <2>14, <2>15 DEF Backed
<1> QED  BY Zenon, <1>1, <1>2 DEF create_session_with_generation

LEMMA CacheIssuedBacked ==
  ASSUME Typed, Typed', Backed, NEW t \in Threads, CacheIssued(t) PROVE Backed'
<1>1. \A u \in Threads : KeptRequest(u)
  BY KeptFinish DEF CacheIssued
<1>2. ASSUME NEW i \in Ids PROVE KeptRow(i) /\ KeptEntry(i)
  BY DEF CacheIssued, KeptRow, KeptEntry, Typed, TypeOK
<1> QED  BY <1>1, <1>2, Keep DEF CacheIssued

LEMMA SetupBacked ==
  ASSUME Typed, Typed', Backed, NEW t \in Threads, NEW p \in Passwords, handle_setup_apply(t, p) PROVE Backed'
<1> DEFINE r == [NoRequest EXCEPT !.pc = "commit", !.kind = "setup", !.pw = p]
<1>1. r.pc = "commit" /\ r.gen = 0 /\ r.session.gen = 0
  BY DEF NoRequest, NoRow
<1>2. req'[t] = r /\ \A u \in Threads \ {t} : req'[u] = req[u]
  BY DEF handle_setup_apply, Typed, TypeOK
<1> HIDE DEF r
<1>3. KeptRequest(t)
  <2>1. Sound(req'[t])
    BY <1>1, <1>2 DEF Sound
  <2> QED  BY SMT, <1>1, <1>2, <2>1, CredNat, KeptNew
<1>4. \A u \in Threads : KeptRequest(u)
  BY <1>2, <1>3, KeptUnchanged
<1>5. \A i \in Ids : KeptRow(i) /\ KeptEntry(i)
  BY DEF handle_setup_apply, KeptRow, KeptEntry
<1> QED  BY <1>4, <1>5, Keep DEF handle_setup_apply

LEMMA CommitSetupBacked ==
  ASSUME Typed, Typed', Backed, NEW t \in Threads, commit_initial_setup(t) PROVE Backed'
<1>1. CASE Finish(t) /\ UNCHANGED <<cred, rows>>
  BY <1>1, KeptFinish, Keep DEF commit_initial_setup, KeptRow, KeptEntry
<1>2. CASE /\ cred.gen = 0 /\ cred' = [cred EXCEPT !.password = req[t].pw, !.gen = 1]
           /\ rows' = NoSessions /\ Goto(t, "mode")
  <2>1. cred'.gen > cred.gen
    BY SMT, <1>2 DEF Typed, TypeOK
  <2>2. \A u \in Threads : SameHold(u)
    BY SMT, <1>2 DEF Goto, Typed, TypeOK, Request, SameHold
  <2>3. rows' = NoSessions /\ UNCHANGED <<cache, proof>>
    BY <1>2 DEF commit_initial_setup
  <2> QED  BY <2>1, <2>2, <2>3, NewGeneration
<1> QED  BY <1>1, <1>2 DEF commit_initial_setup

LEMMA ModeBacked ==
  ASSUME Typed, Typed', Backed, NEW t \in Threads, create_session_with_mode(t) PROVE Backed'
<1>1. \A i \in Ids : KeptRow(i) /\ KeptEntry(i)
  BY DEF create_session_with_mode, KeptRow, KeptEntry
<1>2. CASE Finish(t)
  BY <1>1, <1>2, KeptFinish, Keep DEF create_session_with_mode
<1>3. CASE req' = [req EXCEPT ![t].pc = "insert", ![t].gen = cred.gen]
  <2>1. /\ req'[t].pc = "insert" /\ req'[t].gen = cred.gen /\ req'[t].id = req[t].id
        /\ req'[t].session = req[t].session /\ \A u \in Threads \ {t} : req'[u] = req[u]
    BY SMT, <1>3 DEF Typed, TypeOK, Request
  <2>2. KeptRequest(t)
    BY SMT, <2>1, CredNat DEF KeptRequest, Sound
  <2>3. \A u \in Threads : KeptRequest(u)
    BY <2>1, <2>2, KeptUnchanged
  <2> QED  BY <1>1, <2>3, Keep DEF create_session_with_mode
<1> QED  BY <1>2, <1>3 DEF create_session_with_mode

LEMMA CreateBacked ==
  ASSUME Typed, Typed', Backed, NEW t \in Threads, create_session(t) PROVE Backed'
<1>1. \A u \in Threads : KeptRequest(u)
  BY KeptFinish DEF create_session
<1>2. CASE UNCHANGED <<rows, cache, persisted, proof, known, activity>>
  BY <1>1, <1>2, Keep DEF create_session, KeptRow, KeptEntry
<1>3. ASSUME NEW i \in Fresh,
        rows' = [rows EXCEPT ![i] = Stored(NewSession(FALSE, req[t].gen))],
        cache' = [cache EXCEPT ![i] = NewSession(FALSE, req[t].gen)],
        proof' = [proof EXCEPT ![i] = [by |-> "setup", password |-> req[t].pw, totp |-> FALSE]]
      PROVE Backed'
  <2> DEFINE s == NewSession(FALSE, req[t].gen)
  <2>1. i \in Ids /\ UNCHANGED cred
    BY DEF Fresh, create_session
  <2>2. s.gen = req[t].gen /\ Stored(s).gen = req[t].gen
    BY DEF NewSession, Stored
  <2>3. rows' = [rows EXCEPT ![i] = Stored(s)] /\ cache' = [cache EXCEPT ![i] = s]
    BY <1>3
  <2> HIDE DEF s
  <2>4. /\ rows'[i].gen = req[t].gen /\ cache'[i].gen = req[t].gen /\ proof'[i].by = "setup"
        /\ \A j \in Ids \ {i} : rows'[j] = rows[j] /\ cache'[j] = cache[j] /\ proof'[j] = proof[j]
    BY Zenon, <1>3, <2>1, <2>2, <2>3 DEF Typed, TypeOK
  <2>5. Matches(i)' /\ \A j \in Ids : Matches(j) => Matches(j)'
    BY <2>1, <2>4 DEF Matches
  <2>6. \A u \in Threads : req'[u] = req[u] \/ req'[u] = NoRequest
    BY SMT DEF create_session, Finish, Typed, TypeOK
  <2>7. NoRequest.gen = 0 /\ NoRequest.session.gen = 0 /\ NoRequest.pc = "idle" /\ cred.gen \in Nat
    BY CredNat, NoRequestIs
  <2>8. Older'
    <3>1. \A j \in Ids : rows'[j].gen <= cred.gen /\ cache'[j].gen <= cred.gen
      BY <2>4 DEF Backed, Older
    <3>2. \A u \in Threads : req'[u].gen <= cred.gen /\ req'[u].session.gen <= cred.gen
      BY SMT, <2>6, <2>7 DEF Backed, Older
    <3> QED  BY <2>1, <3>1, <3>2 DEF Older
  <2>9. RowsProveCredential'
    <3> SUFFICES ASSUME NEW j \in Ids, rows'[j].gen # 0, proof'[j].by = "login"
                 PROVE  /\ rows'[j].gen = cred'.gen /\ proof'[j].password = cred'.password
                        /\ cred'.totp => proof'[j].totp
      BY DEF RowsProveCredential
    <3>1. j # i
      BY <2>4
    <3>2. rows'[j] = rows[j] /\ proof'[j] = proof[j]
      BY <2>4, <3>1
    <3> QED  BY <2>1, <3>2 DEF Backed, RowsProveCredential
  <2>10. CacheProves'
    BY <2>1, <2>4, <2>5 DEF Backed, CacheProves
  <2>11. HeldProves'
    BY <2>1, <2>5, <2>6, <2>7 DEF Backed, HeldProves
  <2>12. RequestsSound'
    BY SMT, <2>1, <2>6, <2>7 DEF Backed, RequestsSound, Sound
  <2> QED  BY <2>8, <2>9, <2>10, <2>11, <2>12 DEF Backed
<1> QED  BY Zenon, <1>2, <1>3 DEF create_session

LEMMA ReceiveBacked ==
  ASSUME Typed, Typed', Backed, NEW t \in Threads, NEW i \in Ids, NEW kind \in Kinds, Receive(t, i, kind)
  PROVE  Backed'
<1> DEFINE r == [NoRequest EXCEPT !.pc = "validate", !.kind = kind, !.id = i]
<1>1. r.pc = "validate" /\ r.gen = 0 /\ r.session.gen = 0
  BY DEF NoRequest, NoRow
<1>2. req'[t] = r /\ \A u \in Threads \ {t} : req'[u] = req[u]
  BY DEF Receive, Typed, TypeOK
<1> HIDE DEF r
<1>3. KeptRequest(t)
  <2>1. Sound(req'[t])
    BY <1>1, <1>2 DEF Sound
  <2> QED  BY SMT, <1>1, <1>2, <2>1, CredNat, KeptNew
<1>4. \A u \in Threads : KeptRequest(u)
  BY <1>2, <1>3, KeptUnchanged
<1>5. \A j \in Ids : KeptRow(j) /\ KeptEntry(j)
  BY Zenon DEF Receive, KeptRow, KeptEntry
<1> QED  BY <1>4, <1>5, Keep DEF Receive

LEMMA ValidateBacked ==
  ASSUME Typed, Typed', Backed, NEW t \in Threads, validate_locked(t) PROVE Backed'
<1> DEFINE i == req[t].id
<1>1. i \in Ids /\ cache[i] \in Session
  BY DEF validate_locked, Typed, TypeOK, HasId, WithId
<1>2. UNCHANGED <<cred, proof>>
  BY Zenon DEF validate_locked
<1>3. CASE Finish(t) /\ UNCHANGED <<rows, cache, persisted, activity>>
  BY <1>2, <1>3, KeptFinish, Keep DEF KeptRow, KeptEntry
<1>4. CASE Finish(t) /\ cache' = [cache EXCEPT ![i] = NoRow] /\ rows' \in {rows, [rows EXCEPT ![i] = NoRow]}
  <2>1. ASSUME NEW j \in Ids PROVE KeptRow(j) /\ KeptEntry(j)
    <3>1. rows'[j] = rows[j] \/ rows'[j] = NoRow
      BY <1>4 DEF Typed, TypeOK
    <3>2. cache'[j] = cache[j] \/ cache'[j] = NoRow
      BY <1>4 DEF Typed, TypeOK
    <3> QED  BY <3>1, <3>2, KeptRows, KeptEntries
  <2> QED  BY <1>2, <1>4, <2>1, KeptFinish, Keep
<1>5. CASE Accept(t, cache[i], persisted[i]) /\ UNCHANGED rows
  <2>1. \A j \in Ids : KeptRow(j)
    BY <1>5 DEF KeptRow
  <2>2. Accept(t, cache[i], persisted[i])
    BY <1>5
  <2>3. (\A u \in Threads : KeptRequest(u)) /\ (\A j \in Ids : KeptEntry(j))
    BY <1>1, <2>2, KeptAccept
  <2> QED  BY <1>2, <2>1, <2>3, Keep
<1> QED  BY <1>3, <1>4, <1>5 DEF validate_locked

LEMMA GetBacked ==
  ASSUME Typed, Typed', Backed, NEW t \in Threads, get_session(t) PROVE Backed'
<1>1. \A j \in Ids : KeptRow(j) /\ KeptEntry(j)
  BY DEF get_session, KeptRow, KeptEntry
<1>2. CASE Finish(t)
  BY <1>1, <1>2, KeptFinish, Keep DEF get_session
<1>3. CASE rows[req[t].id].gen # 0 /\ req' = [req EXCEPT ![t].pc = "load", ![t].session = rows[req[t].id]]
  <2>1. req[t].id \in Ids
    BY DEF get_session, Typed, HasId, WithId
  <2>2. /\ req'[t].pc = "load" /\ req'[t].gen = req[t].gen /\ req'[t].id = req[t].id
        /\ req'[t].session = rows[req[t].id] /\ \A u \in Threads \ {t} : req'[u] = req[u]
    BY SMT, <1>3 DEF Typed, TypeOK, Request
  <2>3. KeptRequest(t)
    BY <1>3, <2>1, <2>2 DEF KeptRequest, Sound, Backed, Older
  <2>4. \A u \in Threads : KeptRequest(u)
    BY <2>2, <2>3, KeptUnchanged
  <2> QED  BY <1>1, <2>4, Keep DEF get_session
<1> QED  BY <1>2, <1>3 DEF get_session

LEMMA LoadedBacked ==
  ASSUME Typed, Typed', Backed, NEW t \in Threads, validate_loaded(t) PROVE Backed'
<1> DEFINE i == req[t].id
           s == req[t].session
<1>1. i \in Ids /\ s \in Session
  BY DEF validate_loaded, Typed, TypeOK, HasId, WithId, Request
<1>2. UNCHANGED <<cred, proof>>
  BY Zenon DEF validate_loaded
<1>3. CASE Finish(t) /\ rows' \in {rows, [rows EXCEPT ![i] = NoRow]} /\ UNCHANGED <<cache, persisted, activity>>
  <2>1. ASSUME NEW j \in Ids PROVE KeptRow(j) /\ KeptEntry(j)
    <3>1. rows'[j] = rows[j] \/ rows'[j] = NoRow
      BY <1>3 DEF Typed, TypeOK
    <3> QED  BY <1>3, <3>1, KeptRows, KeptEntries
  <2> QED  BY <1>2, <1>3, <2>1, KeptFinish, Keep
<1>4. CASE Accept(t, s, s.seen) /\ UNCHANGED rows
  <2>1. \A j \in Ids : KeptRow(j)
    BY <1>4 DEF KeptRow
  <2>2. Accept(t, s, s.seen)
    BY <1>4
  <2>3. (\A u \in Threads : KeptRequest(u)) /\ (\A j \in Ids : KeptEntry(j))
    BY <1>1, <2>2, KeptAccept
  <2> QED  BY <1>2, <2>1, <2>3, Keep
<1> QED  BY <1>3, <1>4 DEF validate_loaded

LEMMA PersistBacked ==
  ASSUME Typed, Typed', Backed, NEW t \in Threads, persist_last_seen(t) PROVE Backed'
<1>1. \A u \in Threads : KeptRequest(u)
  BY KeptGoto DEF persist_last_seen, Pcs
<1>2. ASSUME NEW j \in Ids PROVE KeptRow(j) /\ KeptEntry(j)
  <2> DEFINE i == req[t].id
             r == [rows[i] EXCEPT !.seen = rfc3339(req[t].session.seen)]
  <2>0. i \in Ids /\ rows[i] \in Session
    BY DEF persist_last_seen, Typed, TypeOK, HasId, WithId
  <2>1. rows' = rows \/ rows' = [rows EXCEPT ![i] = r]
    BY DEF persist_last_seen
  <2>3. r.gen = rows[i].gen
    BY <2>0 DEF Session
  <2> HIDE DEF r
  <2>2. KeptRow(j)
    BY <2>0, <2>1, <2>3 DEF KeptRow, Typed, TypeOK
  <2> QED  BY <2>2 DEF persist_last_seen, KeptEntry
<1> QED  BY <1>1, <1>2, Keep DEF persist_last_seen

LEMMA HandlerBacked ==
  ASSUME Typed, Typed', Backed, NEW t \in Threads,
         \/ authenticate(t) \/ handle_totp_qr(t)
         \/ \E p \in Passwords : verify_current_password(t, p)
         \/ \E code \in BOOLEAN : handle_totp_disable(t, code) \/ handle_totp_enable(t, code)
  PROVE  Backed'
<1>1. UNCHANGED <<cred, proof, rows, cache>>
  BY Zenon DEF authenticate, handle_totp_qr, verify_current_password, handle_totp_disable, handle_totp_enable
<1>2. \/ Finish(t)
      \/ \E pc \in {"destroy", "handle", "verified", "set"} : Goto(t, pc)
  BY Zenon DEF authenticate, handle_totp_qr, verify_current_password, handle_totp_disable, handle_totp_enable
<1>3. \A u \in Threads : KeptRequest(u)
  BY <1>2, KeptFinish, KeptGoto DEF Pcs
<1> QED  BY Zenon, <1>1, <1>3, Keep DEF KeptRow, KeptEntry

LEMMA ChangePasswordBacked ==
  ASSUME Typed, Typed', Backed, NEW t \in Threads, NEW p \in Passwords, handle_change_password(t, p)
  PROVE  Backed'
<1>1. UNCHANGED <<cred, proof, rows, cache>>
  BY DEF handle_change_password
<1>2. CASE Finish(t)
  BY <1>1, <1>2, KeptFinish, Keep DEF KeptRow, KeptEntry
<1>3. CASE req' = [req EXCEPT ![t].pc = "set", ![t].pw = p]
  <2>1. /\ req'[t].pc = "set" /\ req'[t].gen = req[t].gen /\ req'[t].id = req[t].id
        /\ req'[t].session = req[t].session /\ \A u \in Threads \ {t} : req'[u] = req[u]
    BY SMT, <1>3 DEF Typed, TypeOK, Request
  <2>2. KeptRequest(t)
    BY <2>1 DEF KeptRequest, Sound, Backed, Older
  <2>3. \A u \in Threads : KeptRequest(u)
    BY <2>1, <2>2, KeptUnchanged
  <2> QED  BY <1>1, <2>3, Keep DEF KeptRow, KeptEntry
<1> QED  BY <1>2, <1>3 DEF handle_change_password

LEMMA UpdateBacked ==
  ASSUME Typed, Typed', Backed, NEW t \in Threads, update_authentication(t) PROVE Backed'
<1>1. UNCHANGED <<cache, proof>>
  BY DEF update_authentication
<1>2. CASE Finish(t) /\ UNCHANGED <<cred, rows>>
  BY <1>1, <1>2, KeptFinish, Keep DEF KeptRow, KeptEntry
<1>3. CASE cred' = Changed(req[t]) /\ rows' = NoSessions /\ Goto(t, "destroyAll")
  <2>1. cred'.gen > cred.gen
    <3>1. cred'.gen = cred.gen + 1
      BY <1>3 DEF Changed
    <3> QED  BY SMT, <3>1, CredNat
  <2>2. \A u \in Threads : SameHold(u)
    BY SMT, <1>3 DEF Goto, Typed, TypeOK, Request, SameHold
  <2> QED  BY <1>1, <1>3, <2>1, <2>2, NewGeneration
<1> QED  BY <1>2, <1>3 DEF update_authentication

LEMMA ResetBacked ==
  ASSUME Typed, Typed', Backed, NEW p \in Passwords, NEW d \in BOOLEAN, recovery_reset_authentication(p, d)
  PROVE  Backed'
<1>1. cred'.gen > cred.gen
  <2>1. cred'.gen = cred.gen + 1
    BY DEF recovery_reset_authentication
  <2> QED  BY SMT, <2>1, CredNat
<1>2. \A u \in Threads : SameHold(u)
  BY DEF recovery_reset_authentication, SameHold
<1> QED  BY <1>1, <1>2, NewGeneration DEF recovery_reset_authentication

LEMMA DestroyBacked ==
  ASSUME Typed, Typed', Backed, NEW t \in Threads, destroy_all_sessions(t) \/ destroy_session(t)
  PROVE  Backed'
<1>1. UNCHANGED <<cred, proof>>
  BY DEF destroy_all_sessions, destroy_session
<1>2. \A u \in Threads : KeptRequest(u)
  BY KeptFinish, KeptGoto DEF destroy_all_sessions, destroy_session, Pcs
<1>3. ASSUME NEW j \in Ids PROVE KeptRow(j) /\ KeptEntry(j)
  <2>1. rows'[j] = rows[j] \/ rows'[j] = NoRow
    BY DEF destroy_all_sessions, destroy_session, NoSessions, Typed, TypeOK
  <2>2. cache'[j] = cache[j] \/ cache'[j] = NoRow
    BY DEF destroy_all_sessions, destroy_session, NoSessions, Typed, TypeOK
  <2> QED  BY <2>1, <2>2, KeptRows, KeptEntries
<1> QED  BY <1>1, <1>2, <1>3, Keep

LEMMA OthersBacked ==
  ASSUME Typed, Typed', Backed,
         CleanCache \/ clean_expired_sessions \/ recovery_save_config \/ Tick \/ UNCHANGED vars
  PROVE  Backed'
<1>1. UNCHANGED <<cred, proof, req>>
  BY DEF CleanCache, clean_expired_sessions, recovery_save_config, Tick, vars
<1>2. ASSUME NEW j \in Ids PROVE KeptRow(j) /\ KeptEntry(j)
  <2>1. rows'[j] = rows[j] \/ rows'[j] = NoRow
    BY DEF CleanCache, clean_expired_sessions, recovery_save_config, Tick, vars, NoSessions
  <2>2. cache'[j] = cache[j] \/ cache'[j] = NoRow
    BY DEF CleanCache, clean_expired_sessions, recovery_save_config, Tick, vars
  <2> QED  BY <2>1, <2>2, KeptRows, KeptEntries
<1> QED  BY <1>1, <1>2, KeptAll, Keep

LEMMA RestartBacked == ASSUME Typed, Typed', Backed, Restart PROVE Backed'
<1>1. \A u \in Threads : req'[u] = NoRequest
  BY Zenon DEF Restart
<1>2. ASSUME NEW u \in Threads PROVE KeptRequest(u)
  <2>1. Sound(req'[u])
    BY <1>1, NoRequestIs DEF Sound
  <2> QED  BY SMT, <1>1, <2>1, CredNat, NoRequestIs, KeptNew
<1>3. \A j \in Ids : KeptRow(j) /\ KeptEntry(j)
  BY Zenon DEF Restart, KeptRow, KeptEntry, NoSessions, NoRow
<1> QED  BY Zenon, <1>2, <1>3, Keep DEF Restart

LEMMA NextBacked == Typed /\ Backed /\ [Next]_vars => Backed'
<1> SUFFICES ASSUME Typed, Backed, [Next]_vars PROVE Backed'
  OBVIOUS
<1>0. Typed'
  BY NextTyped
<1>1. ASSUME NEW t \in Threads, Step(t) PROVE Backed'
  BY <1>0, <1>1, LoginTotpBacked, HandlerBacked, IssueBacked, CacheIssuedBacked, CommitSetupBacked,
     ModeBacked, CreateBacked, ValidateBacked, GetBacked, LoadedBacked, PersistBacked,
     ChangePasswordBacked, UpdateBacked, DestroyBacked DEF Step
<1>2. ASSUME NEW t \in Threads, Arrive(t) PROVE Backed'
  BY <1>0, <1>2, LoginBacked, SetupBacked, ReceiveBacked DEF Arrive
<1> QED  BY <1>0, <1>1, <1>2, ResetBacked, OthersBacked, RestartBacked DEF Next

-----------------------------------------------------------------------------
(* The theorems.                                                           *)

\* The strengthened invariant of every behaviour.
LEMMA BackedInvariant == Spec => [](Typed /\ Backed)
BY InitTyped, InitBacked, NextTyped, NextBacked, PTL DEF Spec

\* Every row of a login is of the current generation and was issued for the
\* credential in force, for any number of threads and credential changes:
\* create_session_if_generation_current closes the window between the
\* password check and the insertion.
THEOREM RowsProve == Spec => []RowsProveCredential
<1>1. Backed => RowsProveCredential
  BY DEF Backed
<1> QED  BY <1>1, BackedInvariant, PTL

\* A request changes by its own thread only.
LEMMA Local ==
  ASSUME Typed, NEW t \in Threads, NEW u \in Threads, t # u, Step(u) \/ Arrive(u)
  PROVE  req'[t] = req[t]
<1>1. Finish(u) => req'[t] = req[t]
  BY DEF Finish, Typed, TypeOK
<1>2. \A pc \in Pcs : Goto(u, pc) => req'[t] = req[t]
  BY DEF Goto, Typed, TypeOK
<1>3. CASE \/ CacheIssued(u) \/ create_session(u) \/ handle_totp_qr(u) \/ destroy_session(u)
           \/ authenticate(u) \/ update_authentication(u) \/ destroy_all_sessions(u)
           \/ commit_initial_setup(u) \/ persist_last_seen(u)
  BY Zenon, <1>1, <1>2, <1>3 DEF CacheIssued, create_session, handle_totp_qr, destroy_session, authenticate,
     update_authentication, destroy_all_sessions, commit_initial_setup, persist_last_seen, Pcs
<1>4. ASSUME NEW code \in BOOLEAN, LoginTotp(u, code) \/ handle_totp_disable(u, code) \/ handle_totp_enable(u, code)
      PROVE  req'[t] = req[t]
  BY <1>1, <1>2, <1>4 DEF LoginTotp, handle_totp_disable, handle_totp_enable, Pcs, Typed, TypeOK
<1>5. ASSUME NEW p \in Passwords,
        \/ verify_current_password(u, p) \/ handle_change_password(u, p)
        \/ handle_login(u, p) \/ handle_setup_apply(u, p)
      PROVE  req'[t] = req[t]
  BY <1>1, <1>2, <1>5 DEF verify_current_password, handle_change_password, handle_login,
     handle_setup_apply, Pcs, Typed, TypeOK
<1>6. ASSUME NEW ro \in BOOLEAN, create_session_with_generation(u, ro) PROVE req'[t] = req[t]
  BY Zenon, <1>1, <1>6 DEF create_session_with_generation, Typed, TypeOK
<1>7. CASE \/ create_session_with_mode(u) \/ get_session(u) \/ validate_locked(u) \/ validate_loaded(u)
  BY <1>1, <1>7 DEF create_session_with_mode, get_session, validate_locked, validate_loaded, Accept,
     Typed, TypeOK
<1>8. ASSUME NEW i \in Ids, NEW kind \in Kinds, Receive(u, i, kind) PROVE req'[t] = req[t]
  BY <1>8 DEF Receive, Typed, TypeOK
<1> QED  BY Zenon, <1>3, <1>4, <1>5, <1>6, <1>7, <1>8 DEF Step, Arrive

\* A cookie is accepted from the cache or from the row, nowhere else.
LEMMA AcceptedBy ==
  ASSUME Typed, [Next]_vars, NEW t \in Threads, Accepted(t)
  PROVE  validate_locked(t) \/ validate_loaded(t)
<1>1. req'[t] # req[t] /\ req'[t].pc # "idle" /\ req'[t].pc # "load"
  BY DEF Accepted
<1>2. PICK u \in Threads : Step(u) \/ Arrive(u)
  <2>1. ~(CleanCache \/ clean_expired_sessions \/ recovery_save_config \/ Tick \/ UNCHANGED vars)
    BY <1>1 DEF CleanCache, clean_expired_sessions, recovery_save_config, Tick, vars
  <2>2. ~\E p \in Passwords, d \in BOOLEAN : recovery_reset_authentication(p, d)
    BY Zenon, <1>1 DEF recovery_reset_authentication
  <2>3. ~Restart
    BY <1>1, NoRequestIs DEF Restart
  <2> QED  BY <2>1, <2>2, <2>3 DEF Next
<1>3. u = t
  BY <1>1, <1>2, Local
<1>4. ~get_session(t)
  BY SMT, <1>1 DEF get_session, Finish, NoRequest, Typed, TypeOK, Request
<1>5. req[t].pc \in {"validate", "load"}
  BY DEF Accepted
<1>6. ~Arrive(t)
  BY Zenon, <1>5 DEF Arrive, handle_login, handle_setup_apply, Receive
<1> QED  BY ZenonT(30), <1>2, <1>3, <1>4, <1>5, <1>6 DEF Step, LoginTotp, handle_totp_disable, handle_totp_enable,
     create_session_with_generation, CacheIssued, commit_initial_setup, create_session_with_mode,
     create_session, persist_last_seen, authenticate, verify_current_password, handle_change_password,
     handle_totp_qr, update_authentication, destroy_all_sessions, destroy_session

\* Both ways compare the generation, which Backed turns into the credential.
LEMMA AcceptedMatches ==
  ASSUME Typed, Backed, [Next]_vars, NEW t \in Threads, Accepted(t)
  PROVE  Matches(req[t].id)
<1>1. ~Finish(t)
  BY SMT DEF Accepted, Finish, NoRequest, Typed, TypeOK
<1>2. req[t].id \in Ids
  BY DEF Accepted, Typed, HasId, WithId
<1>3. CASE validate_locked(t)
  BY Zenon, <1>1, <1>2, <1>3 DEF validate_locked, Backed, CacheProves
<1>4. CASE validate_loaded(t)
  BY <1>1, <1>2, <1>4 DEF validate_loaded, Backed, HeldProves, RequestsSound, Sound
<1> QED  BY <1>3, <1>4, AcceptedBy

\* Whoever is accepted proved the credential in force: no interleaving of
\* logins, changes by an administrator or by the recovery console, misses,
\* restarts and failed calls lets an older session through.
THEOREM AcceptedProve == Spec => AcceptedProveCredential
<1>1. ASSUME Typed, Backed, [Next]_vars
      PROVE  [\A t \in Threads : Accepted(t) =>
                LET pf == proof[req[t].id] IN
                pf.by = "login" => pf.password = cred.password /\ (cred.totp => pf.totp)]_vars
  BY <1>1, AcceptedMatches DEF Matches
<1> QED  BY <1>1, BackedInvariant, PTL DEF Spec, AcceptedProveCredential

-----------------------------------------------------------------------------
(***************************************************************************)
(* Revoked sessions and the idle time-out. What must not come back may     *)
(* still be on its way: a copy that a request holds, a time-stamp that is  *)
(* saved late, a session that is being issued. Traced says where such      *)
(* copies can be (LockKept, Issued, Revoked) and that none carries a time  *)
(* later than the last acceptance (Timed).                                 *)
(***************************************************************************)

\* A request that came with a cookie.
Serving == WithId \ {"cache"}

\* Who reads a row, or inserts one, keeps the lock until it is done.
LockKept == \A t \in Threads : req[t].pc \in {"load", "insert"} => lock = t

\* A session that is being issued is not known yet, and is issued by one
\* thread; a request's cookie was sent to a client before.
Issued ==
  /\ \A t \in Threads : req[t].pc = "cache" =>
       req[t].id \notin known /\ req[t].id \notin gone /\ proof[req[t].id].by # "none"
  /\ \A t, u \in Threads : req[t].pc = "cache" /\ req[u].pc = "cache" /\ req[t].id = req[u].id => t = u
  /\ \A t \in Threads : req[t].pc \in Serving => req[t].id \in known
  /\ \A i \in known : proof[i].by # "none"

\* A revoked session has no row, no entry and no copy on its way to one.
Revoked ==
  \A i \in gone :
    /\ rows[i].gen = 0 /\ cache[i].gen = 0 /\ proof[i].by # "none"
    /\ \A t \in Threads : req[t].pc = "load" => req[t].id # i

\* No time-stamp of a session is later than its last acceptance.
Timed ==
  /\ \A i \in Ids : activity[i] <= now /\ rows[i].seen <= activity[i] /\ cache[i].seen <= activity[i]
  /\ \A t \in Threads : req[t].id \in Ids => req[t].session.seen <= activity[req[t].id]

Traced == LockKept /\ Issued /\ Revoked /\ Timed

\* What a request does that neither reads, issues nor accepts a session.
Still(t) ==
  /\ \/ req'[t].session = NoRow
     \/ req'[t].session = req[t].session /\ req'[t].id = req[t].id
  /\ \/ req'[t].pc \notin WithId
     \/ req'[t] = req[t]
     \/ req[t].pc \in Serving /\ req'[t].pc \in Serving \ {"load"} /\ req'[t].id = req[t].id

LEMMA NoRowSeen == NoRow.seen = 0
BY DEF NoRow

LEMMA NoRequestId == NoRequest.id = NoId
BY DEF NoRequest

LEMMA Times ==
  ASSUME Typed
  PROVE  /\ now \in Nat
         /\ \A i \in Ids : activity[i] \in Nat /\ rows[i].seen \in Nat /\ cache[i].seen \in Nat
         /\ \A t \in Threads : req[t].session.seen \in Nat
<1>1. \A s \in Session : s.seen \in Nat
  BY SMTT(30), SessionAssumption DEF Session
<1>2. \A t \in Threads : req[t].session \in Session
  BY DEF Typed, TypeOK, Request
<1> QED  BY SMTT(30), <1>1, <1>2, SessionAssumption DEF Typed, TypeOK

LEMMA Named ==
  ASSUME Typed
  PROVE  /\ known \subseteq Ids /\ gone \subseteq Ids
         /\ \A t \in Threads : req[t].pc \in WithId => req[t].id \in Ids
BY DEF Typed, TypeOK, HasId

\* A request that issues no session leaves the issued ones as they are.
LEMMA NoneIssued ==
  ASSUME Issued, known' = known, proof' = proof, gone' \subseteq gone \cup known,
         NEW t \in Threads, \A u \in Threads \ {t} : req'[u] = req[u],
         req'[t].pc # "cache", req'[t].pc \in Serving => req'[t].id \in known
  PROVE  Issued'
<1>1. \A u \in Threads : req'[u].pc = "cache" => req'[u] = req[u]
  OBVIOUS
<1>2. \A u \in Threads : req'[u].pc = "cache" =>
        req'[u].id \notin known' /\ req'[u].id \notin gone' /\ proof'[req'[u].id].by # "none"
  BY <1>1 DEF Issued
<1>3. \A u, v \in Threads : req'[u].pc = "cache" /\ req'[v].pc = "cache" /\ req'[u].id = req'[v].id => u = v
  BY <1>1 DEF Issued
<1>4. \A u \in Threads : req'[u].pc \in Serving => req'[u].id \in known'
  BY DEF Issued
<1>5. \A i \in known' : proof'[i].by # "none"
  BY DEF Issued
<1> QED  BY <1>2, <1>3, <1>4, <1>5 DEF Issued

\* No copy of a revoked session is made.
LEMMA NoneRevived ==
  ASSUME Revoked, gone' = gone,
         \A j \in gone : rows'[j].gen = 0 /\ cache'[j].gen = 0 /\ proof'[j].by # "none",
         NEW t \in Threads, \A u \in Threads \ {t} : req'[u] = req[u],
         req'[t].pc = "load" => req'[t].id \notin gone
  PROVE  Revoked'
<1>1. ASSUME NEW j \in gone, NEW u \in Threads, req'[u].pc = "load" PROVE req'[u].id # j
  <2>1. CASE u = t
    BY <1>1, <2>1
  <2>2. CASE u # t
    <3>1. req'[u] = req[u]
      BY <2>2
    <3> QED  BY <1>1, <3>1 DEF Revoked
  <2> QED  BY <2>1, <2>2
<1> QED  BY <1>1 DEF Revoked

\* No time-stamp becomes later than the last acceptance.
LEMMA NoneLater ==
  ASSUME Typed, Timed, now' = now, \A j \in Ids : activity'[j] \in {activity[j], now},
         \A j \in Ids : rows'[j].seen \in {0, rows[j].seen} \/ rows'[j].seen <= activity'[j],
         \A j \in Ids : cache'[j].seen \in {0, cache[j].seen} \/ cache'[j].seen <= activity'[j],
         NEW t \in Threads, \A u \in Threads \ {t} : req'[u] = req[u],
         req'[t].id \in Ids => req'[t].session.seen = 0 \/ req'[t].session.seen <= activity'[req'[t].id]
  PROVE  Timed'
<1>1. /\ now \in Nat
      /\ \A j \in Ids : /\ activity[j] \in Nat /\ rows[j].seen \in Nat /\ cache[j].seen \in Nat
                        /\ activity[j] <= now /\ rows[j].seen <= activity[j] /\ cache[j].seen <= activity[j]
  BY Times DEF Timed
<1>2. \A j \in Ids : activity'[j] \in Nat /\ activity'[j] <= now' /\ activity[j] <= activity'[j]
  BY SMTT(30), <1>1
<1>3. \A j \in Ids : rows'[j].seen <= activity'[j]
  BY SMTT(30), <1>1, <1>2
<1>4. \A j \in Ids : cache'[j].seen <= activity'[j]
  BY SMTT(30), <1>1, <1>2
<1>5. ASSUME NEW u \in Threads, req'[u].id \in Ids PROVE req'[u].session.seen <= activity'[req'[u].id]
  <2>1. CASE u = t
    BY SMTT(30), <1>2, <1>5, <2>1
  <2>2. CASE u # t
    <3>1. req'[u] = req[u] /\ req[u].session.seen <= activity[req[u].id] /\ req[u].session.seen \in Nat
      BY <1>5, <2>2, Times DEF Timed
    <3> QED  BY SMTT(30), <1>1, <1>2, <1>5, <3>1
  <2> QED  BY <2>1, <2>2
<1> QED  BY <1>2, <1>3, <1>4, <1>5 DEF Timed

LEMMA RoundedDown == ASSUME NEW x \in 0 .. MaxTime PROVE rfc3339(x) \in Nat /\ rfc3339(x) <= x
<1>1. x % SECOND \in 0 .. SECOND - 1
  BY SMT, SessionAssumption
<1>2. x % SECOND <= x
  BY SMT, SessionAssumption
<1> QED  BY SMTT(30), <1>1, <1>2, SessionAssumption DEF rfc3339

\* Such steps of requests, with rows and entries that stay or go, keep Traced.
LEMMA StillKeeps ==
  ASSUME Typed, Typed', Traced, UNCHANGED history, now' = now \/ now' = now + 1,
         \A i \in Ids : rows'[i] \in {rows[i], NoRow} /\ cache'[i] \in {cache[i], NoRow},
         \A t \in Threads : Still(t),
         \A t \in Threads : req'[t].pc \in {"load", "insert"} => lock' = t
  PROVE  Traced'
<1>1. LockKept'
  BY DEF LockKept
<1>2. Issued'
  BY SMTT(30) DEF Traced, Issued, Still, WithId, Serving
<1>3. Revoked'
  <2>1. \A t \in Threads : req'[t].pc = "load" => req[t].pc = "load" /\ req'[t].id = req[t].id
    BY DEF Still, WithId
  <2>2. gone \subseteq Ids
    BY DEF Typed, TypeOK
  <2> QED  BY SMTT(30), <2>1, <2>2, NoRowGen DEF Traced, Revoked
<1>4. Timed'
  <2>4. now' \in Nat
    BY SMTT(30), SessionAssumption DEF Typed, TypeOK
  <2>1. \A i \in Ids : activity'[i] = activity[i] /\ activity'[i] <= now'
    BY SMTT(30), <2>4, Times DEF Traced, Timed
  <2>2. \A i \in Ids : rows'[i].seen <= activity'[i] /\ cache'[i].seen <= activity'[i]
    BY SMTT(30), <2>1, Times, NoRowSeen DEF Traced, Timed
  <2>3. \A t \in Threads : req'[t].id \in Ids => req'[t].session.seen <= activity'[req'[t].id]
    BY SMTT(30), <2>1, Times, NoRowSeen DEF Traced, Timed, Still
  <2> QED  BY <2>1, <2>2, <2>3 DEF Timed
<1> QED  BY <1>1, <1>2, <1>3, <1>4 DEF Traced

\* Requests that stay, end or move on.
LEMMA StillSame == ASSUME NEW t \in Threads, req'[t] = req[t] PROVE Still(t)
BY DEF Still

LEMMA StillFinish ==
  ASSUME Typed, NEW t \in Threads, Finish(t)
  PROVE  /\ \A u \in Threads : Still(u)
         /\ \A u \in Threads : req'[u].pc \in {"load", "insert"} => u # t /\ req'[u] = req[u]
<1>1. req'[t] = NoRequest /\ \A u \in Threads \ {t} : req'[u] = req[u]
  BY DEF Finish, Typed, TypeOK
<1>2. Still(t)
  BY <1>1, NoRequestIs DEF Still, WithId
<1> QED  BY <1>1, <1>2, NoRequestIs, StillSame

LEMMA StillGoto ==
  ASSUME Typed, NEW t \in Threads, NEW pc \in Pcs \ {"load", "insert", "cache"}, Goto(t, pc),
         pc \in WithId => req[t].pc \in Serving
  PROVE  /\ \A u \in Threads : Still(u)
         /\ \A u \in Threads : req'[u].pc \in {"load", "insert"} => u # t /\ req'[u] = req[u]
<1>1. req[t] \in Request /\ req'[t] = [req[t] EXCEPT !.pc = pc] /\ \A u \in Threads \ {t} : req'[u] = req[u]
  BY DEF Goto, Typed, TypeOK
<1>2. req'[t].pc = pc /\ req'[t].id = req[t].id /\ req'[t].session = req[t].session
  BY <1>1 DEF Request
<1>3. Still(t)
  BY <1>2 DEF Still, Serving, WithId
<1> QED  BY <1>1, <1>2, <1>3, StillSame

\* A step of requests only, with the lock where it was.
LEMMA StillAlone ==
  ASSUME Typed, Typed', Traced, UNCHANGED <<history, lock>>, now' = now \/ now' = now + 1,
         \A i \in Ids : rows'[i] \in {rows[i], NoRow} /\ cache'[i] \in {cache[i], NoRow},
         \A t \in Threads : Still(t),
         \A t \in Threads : req'[t].pc \in {"load", "insert"} => req'[t] = req[t]
  PROVE  Traced'
<1>1. \A t \in Threads : req'[t].pc \in {"load", "insert"} => lock' = t
  BY DEF Traced, LockKept
<1> QED  BY <1>1, StillKeeps

LEMMA NoSessionsRows == \A i \in Ids : NoSessions[i] = NoRow
BY DEF NoSessions

LEMMA InitTraced == Init => Traced
<1> SUFFICES ASSUME Init PROVE Traced
  OBVIOUS
<1>1. \A t \in Threads : req[t] = NoRequest
  BY DEF Init
<1>2. LockKept /\ Issued /\ Revoked
  BY <1>1, NoRequestIs DEF Init, LockKept, Issued, Revoked, Serving, WithId
<1>3. Timed
  BY SMTT(30), <1>1, NoRequestIs, NoRequestId, NoRowSeen, SessionAssumption DEF Init, Timed
<1> QED  BY <1>2, <1>3 DEF Traced

\* Handlers that only move on.
LEMMA LoginTraced ==
  ASSUME Typed, Typed', Traced, NEW t \in Threads, NEW p \in Passwords,
         handle_login(t, p) \/ handle_setup_apply(t, p)
  PROVE  Traced'
<1>1. /\ req'[t].pc \in {"totp", "commit"} /\ req'[t].session = NoRow
      /\ \A u \in Threads \ {t} : req'[u] = req[u]
  <2>1. CASE handle_login(t, p)
    BY <2>1 DEF handle_login, NoRequest, Typed, TypeOK
  <2>2. CASE handle_setup_apply(t, p)
    BY <2>2 DEF handle_setup_apply, NoRequest, Typed, TypeOK
  <2> QED  BY <2>1, <2>2
<1>2. \A u \in Threads : Still(u)
  BY <1>1, StillSame DEF Still, WithId
<1> QED  BY <1>1, <1>2, StillAlone DEF handle_login, handle_setup_apply

LEMMA LoginTotpTraced ==
  ASSUME Typed, Typed', Traced, NEW t \in Threads, NEW code \in BOOLEAN, LoginTotp(t, code)
  PROVE  Traced'
<1>1. CASE Finish(t)
  BY <1>1, StillFinish, StillAlone DEF LoginTotp
<1>2. CASE req' = [req EXCEPT ![t].pc = "issue", ![t].totp = cred.totp]
  <2>1. /\ req'[t].pc = "issue" /\ req'[t].session = req[t].session /\ req'[t].id = req[t].id
        /\ \A u \in Threads \ {t} : req'[u] = req[u]
    BY SMTT(30), <1>2 DEF Typed, TypeOK, Request
  <2>2. \A u \in Threads : Still(u)
    BY <2>1, StillSame DEF Still, WithId
  <2> QED  BY <2>1, <2>2, StillAlone DEF LoginTotp
<1> QED  BY <1>1, <1>2 DEF LoginTotp

LEMMA HandlerTraced ==
  ASSUME Typed, Typed', Traced, NEW t \in Threads,
         \/ authenticate(t) \/ handle_totp_qr(t)
         \/ \E p \in Passwords : verify_current_password(t, p)
         \/ \E code \in BOOLEAN : handle_totp_disable(t, code) \/ handle_totp_enable(t, code)
  PROVE  Traced'
<1>1. \/ Finish(t)
      \/ \E pc \in {"destroy", "handle", "verified", "set"} : Goto(t, pc)
  BY Zenon DEF authenticate, verify_current_password, handle_totp_qr, handle_totp_disable, handle_totp_enable
<1>2. req[t].pc \in Serving
  BY DEF authenticate, verify_current_password, handle_totp_qr, handle_totp_disable, handle_totp_enable,
     Serving, WithId
<1>3. UNCHANGED <<store, cache, lock, now, history>>
  BY Zenon DEF authenticate, verify_current_password, handle_totp_qr, handle_totp_disable, handle_totp_enable
<1>4. /\ \A u \in Threads : Still(u)
      /\ \A u \in Threads : req'[u].pc \in {"load", "insert"} => req'[u] = req[u]
  BY <1>1, <1>2, StillFinish, StillGoto DEF Pcs
<1> QED  BY <1>3, <1>4, StillAlone

LEMMA ChangePasswordTraced ==
  ASSUME Typed, Typed', Traced, NEW t \in Threads, NEW p \in Passwords, handle_change_password(t, p)
  PROVE  Traced'
<1>1. CASE Finish(t)
  BY <1>1, StillFinish, StillAlone DEF handle_change_password
<1>2. CASE req' = [req EXCEPT ![t].pc = "set", ![t].pw = p]
  <2>1. /\ req'[t].pc = "set" /\ req'[t].session = req[t].session /\ req'[t].id = req[t].id
        /\ \A u \in Threads \ {t} : req'[u] = req[u]
    BY SMTT(30), <1>2 DEF Typed, TypeOK, Request
  <2>2. \A u \in Threads : Still(u)
    BY <2>1, StillSame DEF Still, WithId, Serving, handle_change_password
  <2> QED  BY <2>1, <2>2, StillAlone DEF handle_change_password
<1> QED  BY <1>1, <1>2 DEF handle_change_password

\* A change of the credential, by a handler or by the console, only deletes.
LEMMA ChangeTraced ==
  ASSUME Typed, Typed', Traced, NEW t \in Threads, update_authentication(t) \/ commit_initial_setup(t)
  PROVE  Traced'
<1>1. \/ Finish(t) \/ Goto(t, "mode")
      \/ Goto(t, "destroyAll") /\ req[t].pc \in Serving
  BY Zenon DEF update_authentication, commit_initial_setup, Serving, WithId
<1>2. /\ \A u \in Threads : Still(u)
      /\ \A u \in Threads : req'[u].pc \in {"load", "insert"} => req'[u] = req[u]
  BY <1>1, StillFinish, StillGoto DEF Pcs, WithId
<1>3. rows' = rows \/ rows' = NoSessions
  BY Zenon DEF update_authentication, commit_initial_setup
<1>4. UNCHANGED <<cache, lock, now, history>>
  BY Zenon DEF update_authentication, commit_initial_setup
<1> QED  BY <1>2, <1>3, <1>4, NoSessionsRows, StillAlone

LEMMA ModeTraced ==
  ASSUME Typed, Typed', Traced, NEW t \in Threads, create_session_with_mode(t)
  PROVE  Traced'
<1>1. CASE Finish(t) /\ UNCHANGED lock
  BY <1>1, StillFinish, StillAlone DEF create_session_with_mode
<1>2. CASE lock' = t /\ req' = [req EXCEPT ![t].pc = "insert", ![t].gen = cred.gen]
  <2>1. /\ req'[t].pc = "insert" /\ req'[t].session = req[t].session /\ req'[t].id = req[t].id
        /\ \A u \in Threads \ {t} : req'[u] = req[u]
    BY SMTT(30), <1>2 DEF Typed, TypeOK, Request
  <2>2. \A u \in Threads : Still(u)
    BY <2>1, StillSame DEF Still, WithId
  <2>3. lock = Free /\ Free \notin Threads
    BY SessionAssumption DEF create_session_with_mode
  <2>4. \A u \in Threads : req'[u].pc \in {"load", "insert"} => lock' = u
    BY <1>2, <2>1, <2>3 DEF Traced, LockKept
  <2> QED  BY <2>2, <2>4, StillKeeps DEF create_session_with_mode
<1> QED  BY <1>1, <1>2 DEF create_session_with_mode

\* A login's row: a new session, which nobody else has a copy of.
LEMMA IssueTraced ==
  ASSUME Typed, Typed', Traced, NEW t \in Threads, NEW ro \in BOOLEAN, create_session_with_generation(t, ro)
  PROVE  Traced'
<1>1. CASE Finish(t) /\ UNCHANGED <<rows, proof, activity>>
  BY <1>1, StillFinish, StillAlone DEF create_session_with_generation
<1>2. CASE ~(Finish(t) /\ UNCHANGED <<rows, proof, activity>>)
  <2> DEFINE s == NewSession(ro, cred.gen)
  <2>1. PICK i \in Fresh :
          /\ rows' = [rows EXCEPT ![i] = Stored(s)]
          /\ proof' = [proof EXCEPT ![i] = [by |-> "login", password |-> req[t].pw, totp |-> req[t].totp]]
          /\ activity' = [activity EXCEPT ![i] = now]
          /\ req' = [req EXCEPT ![t].pc = "cache", ![t].id = i, ![t].session = s]
    BY Zenon, <1>2 DEF create_session_with_generation
  <2>2. UNCHANGED <<cache, lock, now, known, gone>>
    BY DEF create_session_with_generation
  <2>3. s.seen = now /\ Stored(s).seen = rfc3339(now)
    BY DEF NewSession, Stored
  <2> HIDE DEF s
  <2>4. i \in Ids /\ proof[i].by = "none" /\ proof'[i].by = "login"
    BY <2>1 DEF Fresh, Typed, TypeOK
  <2>5. /\ req'[t].pc = "cache" /\ req'[t].id = i /\ req'[t].session = s
        /\ \A u \in Threads \ {t} : req'[u] = req[u]
    BY SMTT(30), <2>1 DEF Typed, TypeOK, Request
  <2>6. \A j \in Ids \ {i} : rows'[j] = rows[j] /\ proof'[j] = proof[j] /\ activity'[j] = activity[j]
    BY <2>1, <2>4 DEF Typed, TypeOK
  <2>7. rows'[i] = Stored(s) /\ activity'[i] = now
    BY <2>1, <2>4 DEF Typed, TypeOK
  <2>8. i \notin known /\ i \notin gone
    BY <2>4 DEF Traced, Issued, Revoked
  <2>9. \A u \in Threads : req[u].pc = "cache" => req[u].id # i
    BY <2>4 DEF Traced, Issued
  <2>10. LockKept'
    BY <2>2, <2>5 DEF Traced, LockKept
  <2>11. Issued'
    BY SMTT(30), <2>2, <2>4, <2>5, <2>6, <2>8, <2>9, Named DEF Traced, Issued, Serving, WithId
  <2>12. Revoked'
    <3>1. \A j \in gone : j \in Ids \ {i}
      BY <2>8, Named
    <3>2. \A j \in gone : rows'[j].gen = 0 /\ cache'[j].gen = 0 /\ proof'[j].by # "none"
      BY <2>2, <2>6, <3>1 DEF Traced, Revoked
    <3> QED  BY <2>2, <2>5, <3>2, NoneRevived DEF Traced
  <2>13. Timed'
    <3>1. rfc3339(now) <= now /\ now <= now
      BY RoundedDown, SMT DEF Typed, TypeOK
    <3>2. \A j \in Ids : activity'[j] \in {activity[j], now}
      BY <2>6, <2>7
    <3>3. \A j \in Ids : rows'[j].seen = rows[j].seen \/ rows'[j].seen <= activity'[j]
      BY <2>3, <2>6, <2>7, <3>1
    <3> QED  BY <2>2, <2>3, <2>5, <2>7, <3>1, <3>2, <3>3, NoneLater DEF Traced
  <2> QED  BY <2>10, <2>11, <2>12, <2>13 DEF Traced
<1> QED  BY <1>1, <1>2

\* The entry of a new session, and its cookie on the way to the client.
LEMMA CacheIssuedTraced ==
  ASSUME Typed, Typed', Traced, NEW t \in Threads, CacheIssued(t)
  PROVE  Traced'
<1> DEFINE i == req[t].id
<1>1. /\ req[t].pc = "cache" /\ lock' = lock /\ known' = known \cup {i} /\ cache' = [cache EXCEPT ![i] = req[t].session]
      /\ UNCHANGED <<rows, now, proof, activity, gone>>
  BY DEF CacheIssued
<1>2. i \in Ids
  BY <1>1 DEF Typed, HasId, WithId
<1>3. req'[t] = NoRequest /\ \A u \in Threads \ {t} : req'[u] = req[u]
  BY SMT DEF CacheIssued, Finish, Typed, TypeOK
<1>4. i \notin gone /\ proof[i].by # "none" /\ \A u \in Threads \ {t} : req[u].pc = "cache" => req[u].id # i
  BY <1>1 DEF Traced, Issued
<1>5. cache'[i] = req[t].session /\ \A j \in Ids \ {i} : cache'[j] = cache[j]
  BY <1>1, <1>2 DEF Typed, TypeOK
<1> HIDE DEF i
<1>6. LockKept'
  BY <1>1, <1>3, NoRequestIs DEF Traced, LockKept
<1>7. Issued'
  BY SMTT(30), <1>1, <1>3, <1>4, NoRequestIs DEF Traced, Issued, Serving, WithId
<1>8. Revoked'
  <2>1. \A j \in gone : j \in Ids \ {i}
    BY <1>4, Named
  <2>2. \A j \in gone : rows'[j].gen = 0 /\ cache'[j].gen = 0 /\ proof'[j].by # "none"
    BY <1>1, <1>5, <2>1 DEF Traced, Revoked
  <2> QED  BY <1>1, <1>3, NoRequestIs, <2>2, NoneRevived DEF Traced
<1>9. Timed'
  <2>1. req[t].session.seen <= activity[i]
    BY <1>2 DEF Traced, Timed, i
  <2>2. \A j \in Ids : cache'[j].seen = cache[j].seen \/ cache'[j].seen <= activity'[j]
    BY <1>1, <1>5, <2>1
  <2> QED  BY <1>1, <1>3, <2>2, NoRequestId, NoneLater, SessionAssumption DEF Traced
<1> QED  BY <1>6, <1>7, <1>8, <1>9 DEF Traced

\* The session of the first-run setup, inserted under the lock.
LEMMA CreateTraced ==
  ASSUME Typed, Typed', Traced, NEW t \in Threads, create_session(t)
  PROVE  Traced'
<1>0. req[t].pc = "insert" /\ lock' = Free /\ Finish(t) /\ UNCHANGED <<now, gone>>
  BY DEF create_session
<1>1. req'[t] = NoRequest /\ \A u \in Threads \ {t} : req'[u] = req[u]
  BY <1>0 DEF Finish, Typed, TypeOK
<1>2. \A u \in Threads : req'[u].pc \notin {"load", "insert"}
  BY <1>0, <1>1, NoRequestIs DEF Traced, LockKept
<1>3. CASE UNCHANGED <<rows, cache, persisted, proof, known, activity>>
  BY <1>0, <1>2, <1>3, StillFinish, StillKeeps
<1>4. CASE ~UNCHANGED <<rows, cache, persisted, proof, known, activity>>
  <2> DEFINE s == NewSession(FALSE, req[t].gen)
  <2>1. PICK i \in Fresh :
          /\ rows' = [rows EXCEPT ![i] = Stored(s)]
          /\ cache' = [cache EXCEPT ![i] = s]
          /\ proof' = [proof EXCEPT ![i] = [by |-> "setup", password |-> req[t].pw, totp |-> FALSE]]
          /\ known' = known \cup {i}
          /\ activity' = [activity EXCEPT ![i] = now]
    BY Zenon, <1>4 DEF create_session
  <2>2. s.seen = now /\ Stored(s).seen = rfc3339(now)
    BY DEF NewSession, Stored
  <2> HIDE DEF s
  <2>3. i \in Ids /\ proof[i].by = "none" /\ proof'[i].by = "setup"
    BY <2>1 DEF Fresh, Typed, TypeOK
  <2>4. \A j \in Ids \ {i} : /\ rows'[j] = rows[j] /\ cache'[j] = cache[j]
                             /\ proof'[j] = proof[j] /\ activity'[j] = activity[j]
    BY <2>1, <2>3 DEF Typed, TypeOK
  <2>5. rows'[i] = Stored(s) /\ cache'[i] = s /\ activity'[i] = now
    BY <2>1, <2>3 DEF Typed, TypeOK
  <2>6. i \notin gone /\ \A u \in Threads : req[u].pc = "cache" => req[u].id # i
    BY <2>3 DEF Traced, Issued, Revoked
  <2>7. LockKept'
    BY <1>2 DEF LockKept
  <2>8. Issued'
    BY SMTT(30), <1>1, <2>1, <2>3, <2>4, <2>6, <1>0, NoRequestIs, Named DEF Traced, Issued, Serving, WithId
  <2>9. Revoked'
    <3>1. \A j \in gone : j \in Ids \ {i}
      BY <2>6, Named
    <3>2. \A j \in gone : rows'[j].gen = 0 /\ cache'[j].gen = 0 /\ proof'[j].by # "none"
      BY <2>4, <3>1 DEF Traced, Revoked
    <3> QED  BY <1>0, <1>1, <1>2, <3>2, NoneRevived DEF Traced
  <2>10. Timed'
    <3>1. rfc3339(now) <= now /\ now <= now
      BY RoundedDown, SMT DEF Typed, TypeOK
    <3>2. \A j \in Ids : activity'[j] \in {activity[j], now}
      BY <2>4, <2>5
    <3>3. \A j \in Ids : /\ rows'[j].seen = rows[j].seen \/ rows'[j].seen <= activity'[j]
                         /\ cache'[j].seen = cache[j].seen \/ cache'[j].seen <= activity'[j]
      BY <2>2, <2>4, <2>5, <3>1
    <3> QED  BY <1>0, <1>1, <3>2, <3>3, NoRequestId, NoneLater, SessionAssumption DEF Traced
  <2> QED  BY <2>7, <2>8, <2>9, <2>10 DEF Traced
<1> QED  BY <1>3, <1>4

\* A cookie arrives that a client was sent.
LEMMA ReceiveTraced ==
  ASSUME Typed, Typed', Traced, NEW t \in Threads, NEW i \in Ids, NEW kind \in Kinds, Receive(t, i, kind)
  PROVE  Traced'
<1>1. /\ req'[t].pc = "validate" /\ req'[t].id = i /\ req'[t].session = NoRow
      /\ \A u \in Threads \ {t} : req'[u] = req[u]
  BY DEF Receive, NoRequest, Typed, TypeOK
<1>2. i \in known /\ UNCHANGED <<rows, cache, lock, now, proof, known, activity, gone>>
  BY DEF Receive
<1>3. LockKept'
  BY <1>1, <1>2 DEF Traced, LockKept
<1>4. Issued'
  BY <1>1, <1>2, NoneIssued DEF Traced
<1>5. Revoked'
  BY <1>1, <1>2, NoneRevived DEF Traced, Revoked
<1>6. Timed'
  BY <1>1, <1>2, NoRowSeen, NoneLater DEF Traced
<1> QED  BY <1>3, <1>4, <1>5, <1>6 DEF Traced

\* A miss reads the row, so the session is not revoked.
LEMMA GetTraced ==
  ASSUME Typed, Typed', Traced, NEW t \in Threads, get_session(t)
  PROVE  Traced'
<1> DEFINE i == req[t].id
<1>1. CASE Finish(t) /\ UNCHANGED lock
  BY <1>1, StillFinish, StillAlone DEF get_session
<1>2. CASE rows[i].gen # 0 /\ lock' = t /\ req' = [req EXCEPT ![t].pc = "load", ![t].session = rows[i]]
  <2>1. /\ req'[t].pc = "load" /\ req'[t].id = i /\ req'[t].session = rows[i]
        /\ \A u \in Threads \ {t} : req'[u] = req[u]
    BY SMTT(30), <1>2 DEF Typed, TypeOK, Request
  <2>2. req[t].pc = "validate" /\ lock = Free /\ UNCHANGED <<rows, cache, now, proof, known, activity, gone>>
    BY DEF get_session
  <2>3. i \in known /\ i \in Ids /\ i \notin gone
    BY <1>2, <2>2 DEF Traced, Issued, Revoked, Serving, WithId, Typed, HasId
  <2> HIDE DEF i
  <2>4. LockKept'
    BY <1>2, <2>1, <2>2, SessionAssumption DEF Traced, LockKept
  <2>5. Issued'
    BY <2>1, <2>2, <2>3, NoneIssued DEF Traced
  <2>6. Revoked'
    BY <2>1, <2>2, <2>3, NoneRevived DEF Traced, Revoked
  <2>7. Timed'
    BY <2>1, <2>2, <2>3 DEF Traced, Timed
  <2> QED  BY <2>4, <2>5, <2>6, <2>7 DEF Traced
<1> QED  BY <1>1, <1>2 DEF get_session

\* An acceptance dates the session, its entry and the request's copy by now.
LEMMA AcceptTraced ==
  ASSUME Typed, Typed', Traced, NEW t \in Threads, NEW s \in Session, NEW last, Accept(t, s, last),
         req[t].pc \in Serving, req[t].id \in Ids \ gone, UNCHANGED <<rows, proof, known, gone, now>>,
         \A u \in Threads \ {t} : req[u].pc \in {"load", "insert"} => lock' = u
  PROVE  Traced'
<1> DEFINE i == req[t].id
           touched == [s EXCEPT !.seen = now]
           pc == IF reserve_last_seen_persistence(last) THEN "persist" ELSE "auth"
<1>1. /\ cache' = [cache EXCEPT ![i] = touched] /\ activity' = [activity EXCEPT ![i] = now]
      /\ req' = [req EXCEPT ![t].pc = pc, ![t].session = touched]
  BY DEF Accept
<1>2. touched.seen = now
  BY DEF Session
<1>3. pc \in {"persist", "auth"}
  OBVIOUS
<1> HIDE DEF touched, pc
<1>4. /\ req'[t].pc = pc /\ req'[t].id = i /\ req'[t].session = touched
      /\ \A u \in Threads \ {t} : req'[u] = req[u]
  BY SMTT(30), <1>1 DEF Typed, TypeOK, Request
<1>5. /\ cache'[i] = touched /\ activity'[i] = now
      /\ \A j \in Ids \ {i} : cache'[j] = cache[j] /\ activity'[j] = activity[j]
  BY <1>1 DEF Typed, TypeOK
<1>6. i \in known /\ i \in Ids /\ i \notin gone
  BY DEF Traced, Issued
<1> HIDE DEF i
<1>7. LockKept'
  BY <1>3, <1>4 DEF LockKept
<1>8. Issued'
  BY <1>3, <1>4, <1>6, NoneIssued DEF Traced
<1>9. Revoked'
  <2>1. \A j \in gone : cache'[j] = cache[j]
    BY <1>5, <1>6, Named
  <2> QED  BY <1>3, <1>4, <2>1, NoneRevived DEF Traced, Revoked
<1>10. Timed'
  <2>1. now <= now
    BY SMT, Times
  <2>2. \A j \in Ids : /\ activity'[j] \in {activity[j], now}
                       /\ cache'[j].seen = cache[j].seen \/ cache'[j].seen <= activity'[j]
    BY <1>2, <1>5, <2>1
  <2>3. req'[t].session.seen <= activity'[req'[t].id]
    BY <1>2, <1>4, <1>5, <2>1
  <2> QED  BY <1>4, <2>2, <2>3, NoneLater DEF Traced
<1> QED  BY <1>7, <1>8, <1>9, <1>10 DEF Traced

LEMMA ValidateTraced ==
  ASSUME Typed, Typed', Traced, NEW t \in Threads, validate_locked(t)
  PROVE  Traced'
<1> DEFINE i == req[t].id
<1>1. /\ req[t].pc = "validate" /\ lock = Free /\ cache[i].gen # 0
      /\ UNCHANGED <<cred, lock, pending, janitor, now, proof, known, gone>>
  BY DEF validate_locked
<1>2. i \in Ids \ gone
  BY <1>1 DEF Typed, HasId, WithId, Traced, Revoked
<1>3. CASE /\ Finish(t) /\ UNCHANGED activity
           /\ rows' \in {rows, [rows EXCEPT ![i] = NoRow]} /\ cache' \in {cache, [cache EXCEPT ![i] = NoRow]}
  <2>1. \A j \in Ids : rows'[j] \in {rows[j], NoRow} /\ cache'[j] \in {cache[j], NoRow}
    BY <1>2, <1>3 DEF Typed, TypeOK
  <2> QED  BY <1>1, <1>3, <2>1, StillFinish, StillAlone
<1>4. CASE Accept(t, cache[i], persisted[i]) /\ UNCHANGED rows
  <2>1. cache[i] \in Session /\ req[t].pc \in Serving
    BY <1>1, <1>2 DEF Typed, TypeOK, Serving, WithId
  <2>2. \A u \in Threads : req[u].pc \in {"load", "insert"} => lock' = u
    BY <1>1 DEF Traced, LockKept
  <2> QED  BY <1>1, <1>2, <1>4, <2>1, <2>2, AcceptTraced
<1> QED  BY Zenon, <1>3, <1>4 DEF validate_locked

LEMMA LoadedTraced ==
  ASSUME Typed, Typed', Traced, NEW t \in Threads, validate_loaded(t)
  PROVE  Traced'
<1> DEFINE i == req[t].id
           s == req[t].session
<1>1. /\ req[t].pc = "load" /\ lock' = Free /\ UNCHANGED <<cred, pending, janitor, now, proof, known, gone>>
  BY DEF validate_loaded
<1>2. i \in Ids \ gone
  BY <1>1 DEF Typed, HasId, WithId, Traced, Revoked
<1>3. \A u \in Threads \ {t} : req[u].pc \notin {"load", "insert"}
  BY <1>1 DEF Traced, LockKept
<1>4. CASE /\ Finish(t) /\ UNCHANGED <<cache, persisted, activity>>
           /\ rows' \in {rows, [rows EXCEPT ![i] = NoRow]}
  <2>1. \A j \in Ids : rows'[j] \in {rows[j], NoRow} /\ cache'[j] \in {cache[j], NoRow}
    BY <1>2, <1>4 DEF Typed, TypeOK
  <2>2. \A u \in Threads : req'[u].pc \notin {"load", "insert"}
    BY <1>3, <1>4, StillFinish
  <2> QED  BY <1>1, <1>4, <2>1, <2>2, StillFinish, StillKeeps
<1>5. CASE Accept(t, s, s.seen) /\ UNCHANGED rows
  <2>1. s \in Session /\ req[t].pc \in Serving
    BY <1>1 DEF Typed, TypeOK, Request, Serving, WithId
  <2> QED  BY <1>1, <1>2, <1>3, <1>5, <2>1, AcceptTraced
<1> QED  BY Zenon, <1>4, <1>5 DEF validate_loaded

\* A late time-stamp never makes a row, and is not later than the acceptance.
LEMMA PersistTraced ==
  ASSUME Typed, Typed', Traced, NEW t \in Threads, persist_last_seen(t)
  PROVE  Traced'
<1> DEFINE i == req[t].id
           at == req[t].session.seen
<1>1. /\ req[t].pc = "persist" /\ Goto(t, "auth")
      /\ UNCHANGED <<cred, cache, lock, pending, janitor, now, proof, known, activity, gone>>
  BY DEF persist_last_seen
<1>2. i \in Ids /\ req[t].pc \in Serving
  BY <1>1 DEF Typed, HasId, Serving, WithId
<1>3. /\ \A u \in Threads : Still(u)
      /\ \A u \in Threads : req'[u].pc \in {"load", "insert"} => req'[u] = req[u]
  BY <1>1, <1>2, StillGoto DEF Pcs
<1>4. CASE UNCHANGED rows
  BY <1>1, <1>3, <1>4, StillAlone
<1>5. CASE rows[i].gen # 0 /\ rows' = [rows EXCEPT ![i].seen = rfc3339(at)]
  <2>1. /\ rows'[i].seen = rfc3339(at) /\ rows'[i].gen = rows[i].gen
        /\ \A j \in Ids \ {i} : rows'[j] = rows[j]
    BY SMTT(30), <1>2, <1>5 DEF Typed, TypeOK, Session
  <2>2. rfc3339(at) \in Nat /\ rfc3339(at) <= at
    BY RoundedDown DEF Typed, TypeOK, Request, Session
  <2>3. at <= activity[i] /\ at \in Nat /\ activity[i] \in Nat
    BY <1>2, Times DEF Traced, Timed
  <2>4. req'[t].id = i /\ req'[t].session = req[t].session /\ req'[t].pc = "auth"
        /\ \A u \in Threads \ {t} : req'[u] = req[u]
    BY SMTT(30), <1>1 DEF Goto, Typed, TypeOK, Request
  <2> HIDE DEF i, at
  <2>5. LockKept'
    BY <1>1, <2>4 DEF Traced, LockKept
  <2>6. Issued'
    <3>1. i \in known
      BY <1>2 DEF Traced, Issued, i
    <3> QED  BY <1>1, <2>4, <3>1, NoneIssued DEF Traced
  <2>7. Revoked'
    <3>1. \A j \in gone : j \in Ids
      BY <1>1, Named
    <3>2. \A j \in gone : rows'[j].gen = 0 /\ cache'[j].gen = 0 /\ proof'[j].by # "none"
      BY <1>1, <2>1, <3>1 DEF Traced, Revoked
    <3> QED  BY <1>1, <2>4, <3>2, NoneRevived DEF Traced
  <2>8. Timed'
    <3>1. rfc3339(at) <= activity[i]
      BY SMT, <2>2, <2>3
    <3>2. \A j \in Ids : rows'[j].seen = rows[j].seen \/ rows'[j].seen <= activity'[j]
      BY <1>1, <2>1, <3>1
    <3>3. req'[t].session.seen <= activity'[req'[t].id]
      BY <1>1, <2>3, <2>4 DEF at
    <3> QED  BY <1>1, <2>4, <3>2, <3>3, NoneLater DEF Traced
  <2> QED  BY <2>5, <2>6, <2>7, <2>8 DEF Traced
<1> QED  BY Zenon, <1>4, <1>5 DEF persist_last_seen

LEMMA DestroyAllTraced ==
  ASSUME Typed, Typed', Traced, NEW t \in Threads, destroy_all_sessions(t)
  PROVE  Traced'
<1>4. req[t].pc \in Serving
  BY DEF destroy_all_sessions, Serving, WithId
<1>1. Finish(t) \/ Goto(t, "destroy")
  BY Zenon DEF destroy_all_sessions
<1>2. /\ \A u \in Threads : Still(u)
      /\ \A u \in Threads : req'[u].pc \in {"load", "insert"} => req'[u] = req[u]
  BY <1>1, <1>4, StillFinish, StillGoto DEF Pcs
<1>3. (rows' = rows /\ cache' = cache) \/ (rows' = NoSessions /\ cache' = NoSessions)
  <2>1. CASE UNCHANGED <<rows, cache, persisted>>
    BY <2>1
  <2>2. CASE rows' = NoSessions /\ cache' = NoSessions
    BY <2>2
  <2> QED  BY Zenon, <2>1, <2>2 DEF destroy_all_sessions
<1> QED  BY <1>2, <1>3, NoSessionsRows, StillAlone DEF destroy_all_sessions

\* A logout finds no copy on its way: the lock is free, and the cookie was sent.
LEMMA DestroyTraced ==
  ASSUME Typed, Typed', Traced, NEW t \in Threads, destroy_session(t)
  PROVE  Traced'
<1> DEFINE i == req[t].id
<1>1. /\ req[t].pc = "destroy" /\ lock = Free /\ Finish(t)
      /\ UNCHANGED <<cred, lock, pending, janitor, now, proof, known, activity>>
  BY DEF destroy_session
<1>2. CASE UNCHANGED <<rows, cache, persisted, gone>>
  BY <1>1, <1>2, StillFinish, StillAlone
<1>3. CASE /\ rows' = [rows EXCEPT ![i] = NoRow] /\ cache' = [cache EXCEPT ![i] = NoRow]
           /\ gone' = gone \cup {i}
  <2>1. i \in Ids /\ i \in known /\ proof[i].by # "none"
    BY <1>1 DEF Typed, HasId, WithId, Traced, Issued, Serving
  <2>2. rows'[i] = NoRow /\ cache'[i] = NoRow /\ \A j \in Ids \ {i} : rows'[j] = rows[j] /\ cache'[j] = cache[j]
    BY <1>3, <2>1 DEF Typed, TypeOK
  <2>3. req'[t] = NoRequest /\ \A u \in Threads \ {t} : req'[u] = req[u]
    BY <1>1 DEF Finish, Typed, TypeOK
  <2>4. \A u \in Threads : req'[u].pc \notin {"load", "insert"}
    BY <1>1, <2>3, NoRequestIs, SessionAssumption DEF Traced, LockKept
  <2> HIDE DEF i
  <2>5. LockKept'
    BY <2>4 DEF LockKept
  <2>6. Issued'
    <3>1. gone' \subseteq gone \cup known
      BY <1>3, <2>1
    <3>2. req'[t].pc # "cache" /\ req'[t].pc \notin Serving
      BY <2>3, NoRequestIs DEF Serving, WithId
    <3> QED  BY <1>1, <2>3, <3>1, <3>2, NoneIssued DEF Traced
  <2>7. Revoked'
    BY ZenonT(30), <1>1, <1>3, <2>1, <2>2, <2>4, NoRowGen DEF Traced, Revoked, Typed, TypeOK
  <2>8. Timed'
    <3>1. \A j \in Ids : rows'[j].seen \in {0, rows[j].seen} /\ cache'[j].seen \in {0, cache[j].seen}
      BY <2>2, NoRowSeen
    <3> QED  BY <1>1, <2>3, <3>1, NoRequestId, NoneLater, SessionAssumption DEF Traced
  <2> QED  BY <2>5, <2>6, <2>7, <2>8 DEF Traced
<1> QED  BY Zenon, <1>2, <1>3 DEF destroy_session

\* The other actors delete, and a restart forgets every copy in memory.
LEMMA OthersTraced ==
  ASSUME Typed, Typed', Traced,
         \/ CleanCache \/ clean_expired_sessions \/ recovery_save_config \/ Tick \/ UNCHANGED vars
         \/ \E p \in Passwords, d \in BOOLEAN : recovery_reset_authentication(p, d)
  PROVE  Traced'
<1>1. UNCHANGED <<req, lock, history>>
  BY Zenon DEF CleanCache, clean_expired_sessions, recovery_save_config, Tick, vars, recovery_reset_authentication
<1>2. \A i \in Ids : rows'[i] \in {rows[i], NoRow}
  BY NoSessionsRows DEF CleanCache, clean_expired_sessions, recovery_save_config, Tick, vars,
     recovery_reset_authentication
<1>3. \A i \in Ids : cache'[i] \in {cache[i], NoRow}
  BY DEF CleanCache, clean_expired_sessions, recovery_save_config, Tick, vars, recovery_reset_authentication
<1>4. now' = now \/ now' = now + 1
  BY DEF CleanCache, clean_expired_sessions, recovery_save_config, Tick, vars, recovery_reset_authentication
<1>5. \A t \in Threads : Still(t)
  BY <1>1, StillSame
<1> QED  BY <1>1, <1>2, <1>3, <1>4, <1>5, StillAlone

LEMMA RestartTraced == ASSUME Typed, Typed', Traced, Restart PROVE Traced'
<1>1. /\ \A t \in Threads : req'[t] = NoRequest
      /\ \A i \in Ids : cache'[i] = NoRow
      /\ gone' = gone \cup {i \in Ids : proof[i].by # "none" /\ rows[i].gen = 0}
      /\ UNCHANGED <<rows, now, proof, known, activity>>
  BY NoSessionsRows DEF Restart
<1>2. LockKept' /\ Issued'
  BY <1>1, NoRequestIs DEF Traced, LockKept, Issued, Serving, WithId
<1>3. Revoked'
  BY ZenonT(30), <1>1, NoRequestIs, NoRowGen DEF Traced, Revoked, Typed, TypeOK
<1>4. Timed'
  BY SMTT(30), <1>1, NoRowSeen, NoRequestId, Times, SessionAssumption DEF Traced, Timed
<1> QED  BY <1>2, <1>3, <1>4 DEF Traced

LEMMA NextTraced == Typed /\ Traced /\ [Next]_vars => Traced'
<1> SUFFICES ASSUME Typed, Traced, [Next]_vars PROVE Traced'
  OBVIOUS
<1>0. Typed'
  BY NextTyped
<1>1. ASSUME NEW t \in Threads, Step(t) PROVE Traced'
  BY Zenon, <1>0, <1>1, LoginTotpTraced, HandlerTraced, ChangePasswordTraced, ChangeTraced, ModeTraced,
     IssueTraced, CacheIssuedTraced, CreateTraced, ValidateTraced, GetTraced, LoadedTraced, PersistTraced,
     DestroyAllTraced, DestroyTraced DEF Step
<1>2. ASSUME NEW t \in Threads, Arrive(t) PROVE Traced'
  BY Zenon, <1>0, <1>2, LoginTraced, ReceiveTraced DEF Arrive
<1> QED  BY Zenon, <1>0, <1>1, <1>2, OthersTraced, RestartTraced DEF Next

LEMMA TracedInvariant == Spec => [](Typed /\ Traced)
BY InitTyped, NextTyped, InitTraced, NextTraced, PTL DEF Spec

\* Whoever is accepted has an entry or a row, no later than the time-out.
LEMMA AcceptedTraced ==
  ASSUME Typed, Traced, [Next]_vars, NEW t \in Threads, Accepted(t)
  PROVE  req[t].id \notin gone /\ now - activity[req[t].id] <= IDLE_TIMEOUT
<1>1. ~Finish(t)
  BY SMTT(30) DEF Accepted, Finish, NoRequest, Typed, TypeOK
<1>2. req[t].id \in Ids
  BY DEF Accepted, Typed, HasId, WithId
<1>3. CASE validate_locked(t)
  <2>1. cache[req[t].id].gen # 0 /\ now - cache[req[t].id].seen <= IDLE_TIMEOUT
    BY SMTT(30), <1>1, <1>2, <1>3, Times, SessionAssumption DEF validate_locked, expired
  <2>2. req[t].id \notin gone
    BY <2>1 DEF Traced, Revoked
  <2>3. cache[req[t].id].seen <= activity[req[t].id]
    BY <1>2 DEF Traced, Timed
  <2> QED  BY SMTT(30), <1>2, <2>1, <2>2, <2>3, Times, SessionAssumption
<1>4. CASE validate_loaded(t)
  <2>1. req[t].pc = "load" /\ now - req[t].session.seen <= IDLE_TIMEOUT
    BY SMTT(30), <1>1, <1>4, Times, SessionAssumption DEF validate_loaded, expired
  <2>2. req[t].id \notin gone
    BY <2>1 DEF Traced, Revoked
  <2>3. req[t].session.seen <= activity[req[t].id]
    BY <1>2 DEF Traced, Timed
  <2> QED  BY SMTT(30), <1>2, <2>1, <2>2, <2>3, Times, SessionAssumption
<1> QED  BY <1>3, <1>4, AcceptedBy

\* A session whose logout was answered, or whose row was gone at a restart of
\* routerd, is never accepted again: no late time-stamp, miss or cached copy
\* brings it back, for any number of threads and sessions.
THEOREM RevokedStay == Spec => RevokedForGood
<1>1. ASSUME Typed, Traced, [Next]_vars
      PROVE  [\A t \in Threads : Accepted(t) => req[t].id \notin gone]_vars
  BY <1>1, AcceptedTraced
<1> QED  BY <1>1, TracedInvariant, PTL DEF Spec, RevokedForGood

\* A session is accepted only within the idle time-out of its last acceptance,
\* whichever time-stamp survived: stored ones may be rounded, late, out of
\* order or lost, for every time-out and every persistence interval.
THEOREM IdleBoundHolds == Spec => IdleBound
<1>1. ASSUME Typed, Traced, [Next]_vars
      PROVE  [\A t \in Threads : Accepted(t) => now - activity[req[t].id] <= IDLE_TIMEOUT]_vars
  BY <1>1, AcceptedTraced
<1> QED  BY <1>1, TracedInvariant, PTL DEF Spec, IdleBound
=============================================================================
