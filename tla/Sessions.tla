------------------------------ MODULE Sessions ------------------------------
(***************************************************************************)
(* Administrator credentials and sessions: the SQLite rows, the session    *)
(* cache of routerd, the request threads that log in, validate, log out    *)
(* and change credentials, the clean-up thread, the local recovery console *)
(* (another process on the same database), restarts and the clock.         *)
(*                                                                         *)
(* A store call may fail, a password check may find the derivation slot    *)
(* busy and a client may send a wrong password or code: where the handler  *)
(* then changes nothing, the thread just ends its request.                 *)
(***************************************************************************)
EXTENDS Integers

CONSTANTS
  Ids,                \* random session tokens, each issued once
  Passwords,
  Threads,
  Kinds,              \* requests that clients send
  NoId, NoPassword, Free,
  MaxGeneration,      \* bound on credential changes
  MaxTime,            \* bound on the clock
  SECOND,             \* clock ticks of a second, the unit of stored times
  IDLE_TIMEOUT,
  ABSOLUTE_TIMEOUT,
  PERSIST_INTERVAL    \* SESSION_LAST_SEEN_PERSIST_INTERVAL

ASSUME SessionAssumption ==
  /\ Kinds \subseteq {"get", "logout", "password", "qr", "enable", "disable"}
  /\ NoId \notin Ids /\ NoPassword \notin Passwords /\ Free \notin Threads
  /\ MaxGeneration \in Nat \ {0} /\ MaxTime \in Nat /\ SECOND \in Nat \ {0}
  /\ IDLE_TIMEOUT \in Nat /\ ABSOLUTE_TIMEOUT \in Nat /\ PERSIST_INTERVAL \in Nat

VARIABLES
  cred,       \* admin_credentials; generation 0 is a database without one
  rows,       \* the sessions table; generation 0 is no row
  cache,      \* State.sessions
  persisted,  \* State.last_persisted; -1 is no entry
  lock,       \* the mutex of State
  pending,    \* pending_totp: sessions that were shown a TOTP secret
  req,        \* what each thread is doing
  janitor,    \* the clean-up thread
  now,
  proof,      \* history: what was verified when the session was issued
  known,      \* history: sessions whose cookie was sent to the client
  activity,   \* history: when the session was last accepted
  gone        \* history: sessions revoked for good

store == <<cred, rows>>
memory == <<cache, persisted, lock, pending>>
history == <<proof, known, activity, gone>>
vars == <<cred, rows, cache, persisted, lock, pending, req, janitor, now, proof, known, activity, gone>>

Verified == {"password", "qr", "disable"}
NoRow == [ro |-> FALSE, gen |-> 0, created |-> 0, seen |-> 0]
NoProof == [by |-> "none", password |-> NoPassword, totp |-> FALSE]
NoRequest == [pc |-> "idle", kind |-> "none", id |-> NoId, gen |-> 0, pw |-> NoPassword,
              totp |-> FALSE, session |-> NoRow]

Session == [ro : BOOLEAN, gen : 0 .. MaxGeneration, created : 0 .. MaxTime, seen : 0 .. MaxTime]
Proof == [by : {"none", "login", "setup"}, password : Passwords \cup {NoPassword}, totp : BOOLEAN]
Request == [pc : {"idle", "totp", "issue", "cache", "commit", "mode", "insert", "validate", "load", "persist",
                  "auth", "handle", "verified", "set", "destroyAll", "destroy"},
            kind : Kinds \cup {"none", "login", "setup"}, id : Ids \cup {NoId}, gen : 0 .. MaxGeneration,
            pw : Passwords \cup {NoPassword}, totp : BOOLEAN, session : Session]

TypeOK ==
  /\ cred \in [password : Passwords \cup {NoPassword}, totp : BOOLEAN, gen : 0 .. MaxGeneration]
  /\ rows \in [Ids -> Session] /\ cache \in [Ids -> Session]
  /\ persisted \in [Ids -> -1 .. MaxTime]
  /\ lock \in Threads \cup {Free} /\ pending \subseteq Ids
  /\ req \in [Threads -> Request] /\ janitor \in {"sleep", "clean"} /\ now \in 0 .. MaxTime
  /\ proof \in [Ids -> Proof] /\ known \subseteq Ids /\ gone \subseteq Ids
  /\ activity \in [Ids -> 0 .. MaxTime]

\* routerd starts on a new database or on a configured one, without sessions.
Init ==
  /\ cred \in {[password |-> NoPassword, totp |-> FALSE, gen |-> 0]}
             \cup [password : Passwords, totp : BOOLEAN, gen : {1}]
  /\ rows = [i \in Ids |-> NoRow] /\ cache = [i \in Ids |-> NoRow]
  /\ persisted = [i \in Ids |-> -1] /\ lock = Free /\ pending = {}
  /\ req = [t \in Threads |-> NoRequest] /\ janitor = "sleep" /\ now = 0
  /\ proof = [i \in Ids |-> NoProof] /\ known = {} /\ gone = {}
  /\ activity = [i \in Ids |-> 0]

-----------------------------------------------------------------------------
(* Helpers.                                                                *)

\* A time as the database keeps it: RFC 3339 in whole seconds.
rfc3339(t) == t - (t % SECOND)

Stored(s) == [s EXCEPT !.created = rfc3339(s.created), !.seen = rfc3339(s.seen)]

expired(s) == now - s.created > ABSOLUTE_TIMEOUT \/ now - s.seen > IDLE_TIMEOUT

Fresh == {i \in Ids : proof[i].by = "none"}

Goto(t, pc) == req' = [req EXCEPT ![t].pc = pc]

Finish(t) == req' = [req EXCEPT ![t] = NoRequest]

NewSession(ro, gen) == [ro |-> ro, gen |-> gen, created |-> now, seen |-> now]

NoSessions == [i \in Ids |-> NoRow]

reserve_last_seen_persistence(last) == ~(last # -1 /\ now >= last /\ now - last < PERSIST_INTERVAL)

-----------------------------------------------------------------------------
(* Login: the hash and the generation are one read; the TOTP secret and    *)
(* the insertion come later.                                               *)

handle_login(t, p) ==
  /\ req[t].pc = "idle" /\ cred.gen > 0 /\ p = cred.password
  /\ req' = [req EXCEPT ![t] = [NoRequest EXCEPT !.pc = "totp", !.kind = "login", !.gen = cred.gen, !.pw = p]]
  /\ UNCHANGED <<store, memory, janitor, now, history>>

LoginTotp(t, code) ==
  /\ req[t].pc = "totp"
  /\ \/ Finish(t)
     \/ (cred.totp => code) /\ req' = [req EXCEPT ![t].pc = "issue", ![t].totp = cred.totp]
  /\ UNCHANGED <<store, memory, janitor, now, history>>

create_session_unbound(t, ro) ==
  /\ req[t].pc = "issue"
  /\ \/ Finish(t) /\ UNCHANGED <<rows, proof, activity>>
     \/ \E i \in Fresh :
          /\ rows' = [rows EXCEPT ![i] = Stored(NewSession(ro, cred.gen))]
          /\ proof' = [proof EXCEPT ![i] = [by |-> "login", password |-> req[t].pw, totp |-> req[t].totp]]
          /\ activity' = [activity EXCEPT ![i] = now]
          /\ req' = [req EXCEPT ![t].pc = "cache", ![t].id = i, ![t].session = NewSession(ro, cred.gen)]
  /\ UNCHANGED <<cred, memory, janitor, now, known, gone>>

\* ErrGenerationChanged and a failed transaction end the login.
create_session_with_generation(t, ro) ==
  /\ req[t].pc = "issue"
  /\ \/ Finish(t) /\ UNCHANGED <<rows, proof, activity>>
     \/ /\ cred.gen = req[t].gen
        /\ \E i \in Fresh :
             /\ rows' = [rows EXCEPT ![i] = Stored(NewSession(ro, cred.gen))]
             /\ proof' = [proof EXCEPT ![i] = [by |-> "login", password |-> req[t].pw, totp |-> req[t].totp]]
             /\ activity' = [activity EXCEPT ![i] = now]
             /\ req' = [req EXCEPT ![t].pc = "cache", ![t].id = i, ![t].session = NewSession(ro, cred.gen)]
  /\ UNCHANGED <<cred, memory, janitor, now, known, gone>>

\* The row is committed before the cache is told, and the lock is only taken now.
CacheIssued(t) ==
  /\ req[t].pc = "cache" /\ lock = Free
  /\ cache' = [cache EXCEPT ![req[t].id] = req[t].session]
  /\ persisted' = [persisted EXCEPT ![req[t].id] = req[t].session.created]
  /\ known' = known \cup {req[t].id}
  /\ Finish(t)
  /\ UNCHANGED <<store, lock, pending, janitor, now, proof, activity, gone>>

-----------------------------------------------------------------------------
(* First-run setup: check, apply the network, commit the credential, then  *)
(* issue a session under the generation current at that moment.            *)

handle_setup_apply(t, p) ==
  /\ req[t].pc = "idle" /\ cred.gen = 0
  /\ req' = [req EXCEPT ![t] = [NoRequest EXCEPT !.pc = "commit", !.kind = "setup", !.pw = p]]
  /\ UNCHANGED <<store, memory, janitor, now, history>>

commit_initial_setup(t) ==
  /\ req[t].pc = "commit"
  /\ \/ Finish(t) /\ UNCHANGED store
     \/ /\ cred.gen = 0
        /\ cred' = [cred EXCEPT !.password = req[t].pw, !.gen = 1]
        /\ rows' = NoSessions
        /\ Goto(t, "mode")
  /\ UNCHANGED <<memory, janitor, now, history>>

create_session_with_mode(t) ==
  /\ req[t].pc = "mode" /\ lock = Free
  /\ \/ Finish(t) /\ UNCHANGED lock
     \/ lock' = t /\ req' = [req EXCEPT ![t].pc = "insert", ![t].gen = cred.gen]
  /\ UNCHANGED <<store, cache, persisted, pending, janitor, now, history>>

create_session(t) ==
  /\ req[t].pc = "insert" /\ lock' = Free /\ Finish(t)
  /\ \/ UNCHANGED <<rows, cache, persisted, proof, known, activity>>
     \/ \E i \in Fresh :
          /\ rows' = [rows EXCEPT ![i] = Stored(NewSession(FALSE, req[t].gen))]
          /\ cache' = [cache EXCEPT ![i] = NewSession(FALSE, req[t].gen)]
          /\ persisted' = [persisted EXCEPT ![i] = now]
          /\ proof' = [proof EXCEPT ![i] = [by |-> "setup", password |-> req[t].pw, totp |-> FALSE]]
          /\ known' = known \cup {i}
          /\ activity' = [activity EXCEPT ![i] = now]
  /\ UNCHANGED <<cred, pending, janitor, now, gone>>

-----------------------------------------------------------------------------
(* Validation of a request's cookie, by the cache or by the durable row.   *)

Receive(t, i, kind) ==
  /\ req[t].pc = "idle" /\ i \in known
  /\ req' = [req EXCEPT ![t] = [NoRequest EXCEPT !.pc = "validate", !.kind = kind, !.id = i]]
  /\ UNCHANGED <<store, memory, janitor, now, history>>

\* Both paths end here: the session is touched and its time-stamp possibly saved.
Accept(t, s, last) ==
  LET i == req[t].id
      touched == [s EXCEPT !.seen = now]
      due == reserve_last_seen_persistence(last)
  IN /\ cache' = [cache EXCEPT ![i] = touched]
     /\ persisted' = [persisted EXCEPT ![i] = IF due THEN now ELSE last]
     /\ activity' = [activity EXCEPT ![i] = now]
     /\ req' = [req EXCEPT ![t].pc = IF due THEN "persist" ELSE "auth", ![t].session = touched]

validate_any_generation(t) ==
  LET i == req[t].id IN
  /\ req[t].pc = "validate" /\ lock = Free /\ cache[i].gen # 0
  /\ \/ Finish(t) /\ UNCHANGED <<rows, cache, persisted, activity>>
     \/ ~expired(cache[i]) /\ Accept(t, cache[i], persisted[i]) /\ UNCHANGED rows
  /\ UNCHANGED <<cred, lock, pending, janitor, now, proof, known, gone>>

\* The cached session, checked against the generation in the database.
validate_locked(t) ==
  LET i == req[t].id
      stale == cache[i].gen # cred.gen \/ expired(cache[i])
  IN /\ req[t].pc = "validate" /\ lock = Free /\ cache[i].gen # 0
     /\ \/ Finish(t) /\ UNCHANGED <<rows, cache, persisted, activity>>
        \/ /\ stale /\ Finish(t)
           /\ cache' = [cache EXCEPT ![i] = NoRow]
           /\ persisted' = [persisted EXCEPT ![i] = -1]
           /\ rows' \in {rows, [rows EXCEPT ![i] = NoRow]}
           /\ UNCHANGED activity
        \/ ~stale /\ Accept(t, cache[i], persisted[i]) /\ UNCHANGED rows
     /\ UNCHANGED <<cred, lock, pending, janitor, now, proof, known, gone>>

\* A miss reads the row and then the generation, under the lock.
get_session(t) ==
  LET i == req[t].id IN
  /\ req[t].pc = "validate" /\ lock = Free /\ cache[i].gen = 0
  /\ \/ Finish(t) /\ UNCHANGED lock
     \/ rows[i].gen # 0 /\ lock' = t /\ req' = [req EXCEPT ![t].pc = "load", ![t].session = rows[i]]
  /\ UNCHANGED <<store, cache, persisted, pending, janitor, now, history>>

validate_forgiving(t) ==
  LET s == req[t].session IN
  /\ req[t].pc = "load" /\ lock' = Free
  /\ s.gen = cred.gen /\ now - s.created <= ABSOLUTE_TIMEOUT
  /\ Accept(t, s, s.seen)
  /\ UNCHANGED <<store, pending, janitor, now, proof, known, gone>>

\* An unreadable generation refuses and deletes as a changed one does.
validate_loaded(t) ==
  LET i == req[t].id
      s == req[t].session
  IN /\ req[t].pc = "load" /\ lock' = Free
     /\ \/ /\ Finish(t)
           /\ rows' \in {rows, [rows EXCEPT ![i] = NoRow]}
           /\ UNCHANGED <<cache, persisted, activity>>
        \/ s.gen = cred.gen /\ ~expired(s) /\ Accept(t, s, s.seen) /\ UNCHANGED rows
     /\ UNCHANGED <<cred, pending, janitor, now, proof, known, gone>>

persist_upsert(t) ==
  LET i == req[t].id IN
  /\ req[t].pc = "persist" /\ Goto(t, "auth")
  /\ rows' = [rows EXCEPT ![i] = Stored(req[t].session)]
  /\ UNCHANGED <<cred, memory, janitor, now, history>>

\* The time-stamp is saved after the unlock; a failure lets the next request
\* retry unless a newer reservation was made.
persist_last_seen(t) ==
  LET i == req[t].id
      at == req[t].session.seen
  IN /\ req[t].pc = "persist" /\ Goto(t, "auth")
     /\ \/ /\ rows' = IF rows[i].gen # 0 THEN [rows EXCEPT ![i].seen = rfc3339(at)] ELSE rows
           /\ UNCHANGED persisted
        \/ /\ lock = Free
           /\ persisted' = [persisted EXCEPT ![i] = IF @ = at THEN -1 ELSE @]
           /\ UNCHANGED rows
     /\ UNCHANGED <<cred, cache, lock, pending, janitor, now, history>>

-----------------------------------------------------------------------------
(* What the accepted request does.                                         *)

\* Read-only, cross-site, origin and CSRF checks, then the handler.
authenticate(t) ==
  LET r == req[t] IN
  /\ r.pc = "auth"
  /\ \/ Finish(t)
     \/ r.kind = "logout" /\ Goto(t, "destroy")
     \/ r.kind \in Kinds \ {"get", "logout"} /\ ~r.session.ro /\ Goto(t, "handle")
  /\ UNCHANGED <<store, memory, janitor, now, history>>

verify_current_password(t, p) ==
  /\ req[t].pc = "handle" /\ req[t].kind \in Verified
  /\ \/ Finish(t)
     \/ p = cred.password /\ Goto(t, "verified")
  /\ UNCHANGED <<store, memory, janitor, now, history>>

\* hash_password takes its time between the check and the change.
handle_change_password(t, new) ==
  /\ req[t].pc = "verified" /\ req[t].kind = "password"
  /\ \/ Finish(t)
     \/ req' = [req EXCEPT ![t].pc = "set", ![t].pw = new]
  /\ UNCHANGED <<store, memory, janitor, now, history>>

handle_totp_qr(t) ==
  /\ req[t].pc = "verified" /\ req[t].kind = "qr"
  /\ Finish(t)
  /\ pending' = IF cred.totp THEN pending ELSE pending \cup {req[t].id}
  /\ UNCHANGED <<store, cache, persisted, lock, janitor, now, history>>

handle_totp_disable(t, code) ==
  /\ req[t].pc = "verified" /\ req[t].kind = "disable"
  /\ IF cred.totp /\ code THEN Goto(t, "set") ELSE Finish(t)
  /\ UNCHANGED <<store, memory, janitor, now, history>>

\* An enrolment that has expired is forgotten.
handle_totp_enable(t, code) ==
  /\ req[t].pc = "handle" /\ req[t].kind = "enable"
  /\ \/ req[t].id \in pending /\ code /\ Goto(t, "set") /\ UNCHANGED pending
     \/ Finish(t) /\ pending' \in {pending, pending \ {req[t].id}}
  /\ UNCHANGED <<store, cache, persisted, lock, janitor, now, history>>

Changed(r) ==
  [password |-> IF r.kind = "password" THEN r.pw ELSE cred.password,
   totp |-> IF r.kind = "password" THEN cred.totp ELSE r.kind = "enable",
   gen |-> cred.gen + 1]

\* One transaction: the credential, the next generation, no sessions.
update_authentication(t) ==
  /\ req[t].pc = "set"
  /\ \/ Finish(t) /\ UNCHANGED <<store, pending>>
     \/ /\ cred.gen < MaxGeneration
        /\ cred' = Changed(req[t])
        /\ rows' = NoSessions
        /\ pending' = IF req[t].kind = "enable" THEN pending \ {req[t].id} ELSE pending
        /\ Goto(t, "destroyAll")
  /\ UNCHANGED <<cache, persisted, lock, janitor, now, history>>

\* revoke_after_credential_change: every session, then the caller's own.
destroy_all_sessions(t) ==
  /\ req[t].pc = "destroyAll" /\ lock = Free
  /\ \/ Finish(t) /\ UNCHANGED <<rows, cache, persisted>>
     \/ /\ rows' = NoSessions /\ cache' = NoSessions /\ persisted' = [i \in Ids |-> -1]
        /\ Goto(t, "destroy")
  /\ UNCHANGED <<cred, lock, pending, janitor, now, history>>

\* The row first: a failed delete leaves the cache for a retry of the logout.
destroy_session(t) ==
  LET i == req[t].id IN
  /\ req[t].pc = "destroy" /\ lock = Free /\ Finish(t)
  /\ \/ UNCHANGED <<rows, cache, persisted, gone>>
     \/ /\ rows' = [rows EXCEPT ![i] = NoRow]
        /\ cache' = [cache EXCEPT ![i] = NoRow]
        /\ persisted' = [persisted EXCEPT ![i] = -1]
        /\ gone' = gone \cup {i}
  /\ UNCHANGED <<cred, lock, pending, janitor, now, proof, known, activity>>

-----------------------------------------------------------------------------
(* The other actors.                                                       *)

Outdated(s) == s.seen < rfc3339(now - IDLE_TIMEOUT) \/ s.created < rfc3339(now - ABSOLUTE_TIMEOUT)

\* The clean-up thread: expired cache entries under the lock, then expired
\* rows. A pass that finds nothing to remove is left out.
CleanCache ==
  LET stale == {i \in Ids : cache[i].gen # 0 /\ expired(cache[i])} IN
  /\ janitor = "sleep" /\ lock = Free /\ janitor' = "clean"
  /\ stale # {} \/ \E i \in Ids : rows[i].gen # 0 /\ Outdated(rows[i])
  /\ cache' = [i \in Ids |-> IF i \in stale THEN NoRow ELSE cache[i]]
  /\ persisted' = [i \in Ids |-> IF i \in stale THEN -1 ELSE persisted[i]]
  /\ UNCHANGED <<store, lock, pending, req, now, history>>

clean_expired_sessions ==
  /\ janitor = "clean" /\ janitor' = "sleep"
  /\ \/ UNCHANGED rows
     \/ rows' = [i \in Ids |-> IF Outdated(rows[i]) THEN NoRow ELSE rows[i]]
  /\ UNCHANGED <<cred, memory, req, now, history>>

\* The console's reset-auth and factory-reset; the latter clears TOTP.
recovery_reset_authentication(p, disable_totp) ==
  /\ cred.gen < MaxGeneration
  /\ cred' = [password |-> p, totp |-> cred.totp /\ ~disable_totp, gen |-> cred.gen + 1]
  /\ rows' = NoSessions
  /\ UNCHANGED <<memory, req, janitor, now, history>>

\* The console's configuration changes without a new password.
recovery_save_config ==
  /\ rows # NoSessions /\ rows' = NoSessions
  /\ UNCHANGED <<cred, memory, req, janitor, now, history>>

\* routerd stops and starts: what has no row by now can never come back.
Restart ==
  /\ cache' = NoSessions /\ persisted' = [i \in Ids |-> -1] /\ lock' = Free /\ pending' = {}
  /\ req' = [t \in Threads |-> NoRequest] /\ janitor' = "sleep"
  /\ gone' = gone \cup {i \in Ids : proof[i].by # "none" /\ rows[i].gen = 0}
  /\ UNCHANGED <<store, now, proof, known, activity>>

Tick ==
  /\ now < MaxTime /\ now' = now + 1
  /\ UNCHANGED <<store, memory, req, janitor, history>>

Step(t) ==
  \/ \E code \in BOOLEAN : LoginTotp(t, code) \/ handle_totp_disable(t, code) \/ handle_totp_enable(t, code)
  \/ \E ro \in BOOLEAN : create_session_with_generation(t, ro)
  \/ CacheIssued(t)
  \/ commit_initial_setup(t) \/ create_session_with_mode(t) \/ create_session(t)
  \/ validate_locked(t) \/ get_session(t) \/ validate_loaded(t) \/ persist_last_seen(t)
  \/ authenticate(t)
  \/ \E p \in Passwords : verify_current_password(t, p) \/ handle_change_password(t, p)
  \/ handle_totp_qr(t) \/ update_authentication(t)
  \/ destroy_all_sessions(t) \/ destroy_session(t)

Arrive(t) ==
  \/ \E p \in Passwords : handle_login(t, p) \/ handle_setup_apply(t, p)
  \/ \E i \in Ids, kind \in Kinds : Receive(t, i, kind)

Next ==
  \/ \E t \in Threads : Step(t) \/ Arrive(t)
  \/ CleanCache \/ clean_expired_sessions
  \/ \E p \in Passwords, disable_totp \in BOOLEAN : recovery_reset_authentication(p, disable_totp)
  \/ recovery_save_config \/ Restart \/ Tick

Spec == Init /\ [][Next]_vars

-----------------------------------------------------------------------------
(* Properties.                                                             *)

\* The row of a login is of the current generation and was issued for the
\* password that is now the administrator's, with TOTP checked if it is now
\* required: a login that raced a credential change leaves nothing behind.
RowsProveCredential ==
  \A i \in Ids : rows[i].gen # 0 /\ proof[i].by = "login" =>
    /\ rows[i].gen = cred.gen /\ proof[i].password = cred.password
    /\ cred.totp => proof[i].totp

Accepted(t) == req[t].pc \in {"validate", "load"} /\ req'[t].pc \in {"persist", "auth"}

\* No step accepts a cookie whose login verified another credential than the
\* one in force: a password or TOTP change revokes every older session, from
\* the cache, from the row and after a restart.
AcceptedProveCredential ==
  [][\A t \in Threads : Accepted(t) =>
       LET pf == proof[req[t].id] IN
       pf.by = "login" => pf.password = cred.password /\ (cred.totp => pf.totp)]_vars

\* A session whose logout was answered, or whose row was gone at a restart, is
\* never accepted again: no late time-stamp, miss or cached copy restores it.
RevokedForGood ==
  [][\A t \in Threads : Accepted(t) => req[t].id \notin gone]_vars

\* A session is accepted only within the idle time-out of its last acceptance,
\* whichever of the two time-stamps survived: stored times may be rounded,
\* late, out of order or lost, and only ever expire a session early.
IdleBound ==
  [][\A t \in Threads : Accepted(t) => now - activity[req[t].id] <= IDLE_TIMEOUT]_vars
=============================================================================
