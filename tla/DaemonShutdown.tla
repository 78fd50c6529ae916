--------------------------- MODULE DaemonShutdown ---------------------------
(***************************************************************************)
(* How routerd stops: the process-wide Shutdown that must wake threads      *)
(* blocked on condition variables and in poll(2) (shutdown.rs), the Wake    *)
(* that buffers one notification, the accept loop of the HTTP server with   *)
(* its connection limit and drain (server.rs), and main's order of          *)
(* draining, joining and releasing the daemon guard (routerd.rs).           *)
(*                                                                         *)
(* Threads: signal (trigger_on_signals), sleeper (a worker in               *)
(* Shutdown::sleep), waiter (a worker in Wake::wait), notifier (a handler   *)
(* in Wake::notify), main.  A step lies between two points where another    *)
(* thread can see the difference; a check made under a mutex and the wait   *)
(* that releases it are two steps.                                          *)
(***************************************************************************)
EXTENDS Integers, FiniteSets

CONSTANTS
    MAX_CONNECTIONS,   \* ServerOptions.max_connections
    MaxBacklog         \* bound: connections not yet accepted

ASSUME ShutdownAssumption == MAX_CONNECTIONS \in Nat \ {0} /\ MaxBacklog \in Nat

VARIABLES
    at,          \* what each thread is doing
    triggered,   \* Shutdown.triggered
    lock,        \* who holds the mutex of the sleep, of the wake and of the wakers
    wakers,      \* registered wakers
    dueWakers,         \* wakers trigger has still to run
    runs,        \* history: how often a waker was run
    pending,     \* Wake.pending
    registered,  \* Wake.registered
    backlog,     \* connections the listener holds
    active,      \* InFlight.count: connections being served
    guarded      \* main holds the daemon guard

threadVars == <<triggered, lock, wakers, dueWakers, runs, pending, registered>>
serverVars == <<backlog, active, guarded>>
shutdownVars == <<at, threadVars, serverVars>>

Wakers == {"wake", "pipe"}
Free(l) == lock[l] = "free"
Go(t, place) == at' = [at EXCEPT ![t] = place]
Take(l, t) == Free(l) /\ lock' = [lock EXCEPT ![l] = t]
Release(l) == lock' = [lock EXCEPT ![l] = "free"]

(* notify_all: whoever sleeps looks again. *)
Notify(t, place, sleeping) ==
    at' = [at EXCEPT ![t] = place, ![sleeping] = IF @ = "asleep" THEN "want" ELSE @]

ShutdownInit ==
    /\ at = [signal |-> "blocked", sleeper |-> "unborn", waiter |-> "unborn",
             notifier |-> "idle", main |-> "starting"]
    /\ triggered = FALSE
    /\ lock = [sleep |-> "free", wake |-> "free", wakers |-> "free"]
    /\ wakers = {} /\ dueWakers = {} /\ runs = [w \in Wakers |-> 0]
    /\ pending = FALSE /\ registered = FALSE
    /\ backlog = 0 /\ active = 0 /\ guarded = TRUE

-----------------------------------------------------------------------------
(* Shutdown::trigger, in the signal thread. *)

trigger_on_signals ==
    /\ at.signal = "blocked"
    /\ triggered' = TRUE
    /\ Go("signal", "flagged")
    /\ UNCHANGED <<lock, wakers, dueWakers, runs, pending, registered, serverVars>>

(* Mutant: the notification is not ordered after a sleeper's check. *)
OrderAfterNothing ==
    /\ at.signal = "flagged"
    /\ Go("signal", "ordered")
    /\ UNCHANGED <<threadVars, serverVars>>

(* drop(lock(&self.inner.lock)) *)
OrderAfterCheck ==
    /\ at.signal = "flagged"
    /\ Free("sleep")
    /\ Go("signal", "ordered")
    /\ UNCHANGED <<threadVars, serverVars>>

NotifySleepers ==
    /\ at.signal = "ordered"
    /\ Notify("signal", "notified", "sleeper")
    /\ UNCHANGED <<threadVars, serverVars>>

LockWakers ==
    /\ at.signal = "notified"
    /\ Take("wakers", "signal")
    /\ dueWakers' = wakers
    /\ Go("signal", "waking")
    /\ UNCHANGED <<triggered, wakers, runs, pending, registered, serverVars>>

(* The acceptor's waker writes to its pipe; the wake's takes and drops its
   mutex, then notifies. *)
RunWaker ==
    \E w \in dueWakers :
        /\ at.signal = "waking"
        /\ w = "wake" => Free("wake")
        /\ dueWakers' = dueWakers \ {w}
        /\ runs' = [runs EXCEPT ![w] = @ + 1]
        /\ Go("signal", IF w = "wake" THEN "interrupting" ELSE "waking")
        /\ UNCHANGED <<triggered, lock, wakers, pending, registered, serverVars>>

interrupt ==
    /\ at.signal = "interrupting"
    /\ Notify("signal", "waking", "waiter")
    /\ UNCHANGED <<threadVars, serverVars>>

TriggerReturns ==
    /\ at.signal = "waking" /\ dueWakers = {}
    /\ Release("wakers")
    /\ Go("signal", "done")
    /\ UNCHANGED <<triggered, wakers, dueWakers, runs, pending, registered, serverVars>>

-----------------------------------------------------------------------------
(* Shutdown::on_trigger: thread t registers the waker w and goes on. *)

LockForWaker(t) ==
    /\ at[t] = "register"
    /\ Take("wakers", t)
    /\ Go(t, "registering")
    /\ UNCHANGED <<triggered, wakers, dueWakers, runs, pending, registered, serverVars>>

(* Mutant: the flag is read before the mutex is taken. *)
on_trigger_unlocked(t, w, next) ==
    \/ /\ at[t] = "registering" /\ Release("wakers")
       /\ Go(t, IF triggered THEN "late" ELSE "pushing")
       /\ UNCHANGED <<triggered, wakers, dueWakers, runs, pending, registered, serverVars>>
    \/ /\ at[t] = "pushing" /\ Free("wakers")
       /\ wakers' = wakers \union {w}
       /\ Go(t, next)
       /\ UNCHANGED <<triggered, lock, dueWakers, runs, pending, registered, serverVars>>

on_trigger(t, w, next) ==
    /\ at[t] = "registering"
    /\ Release("wakers")
    /\ IF triggered THEN Go(t, "late") /\ UNCHANGED wakers
       ELSE Go(t, next) /\ wakers' = wakers \union {w}
    /\ UNCHANGED <<triggered, dueWakers, runs, pending, registered, serverVars>>

(* The shutdown has begun: the caller runs its waker. *)
RunLateWaker(t, w, next) ==
    /\ at[t] = "late"
    /\ w = "wake" => Free("wake")
    /\ runs' = [runs EXCEPT ![w] = @ + 1]
    /\ Go(t, next)
    /\ UNCHANGED <<triggered, lock, wakers, dueWakers, pending, registered, serverVars>>

Registers(t, w, next) == LockForWaker(t) \/ on_trigger(t, w, next) \/ RunLateWaker(t, w, next)

-----------------------------------------------------------------------------
(* Shutdown::sleep, in a worker that works and sleeps by turns. *)

CallSleep ==
    /\ at.sleeper = "work"
    /\ Go("sleeper", "want")
    /\ UNCHANGED <<threadVars, serverVars>>

sleep ==
    /\ at.sleeper \in {"want", "expired"}
    /\ IF triggered THEN Free("sleep") /\ Go("sleeper", "ended") /\ UNCHANGED lock
       ELSE IF at.sleeper = "expired" THEN Free("sleep") /\ Go("sleeper", "work") /\ UNCHANGED lock
       ELSE Take("sleep", "sleeper") /\ Go("sleeper", "checked")
    /\ UNCHANGED <<triggered, wakers, dueWakers, runs, pending, registered, serverVars>>

SleepBlocks ==
    /\ at.sleeper = "checked"
    /\ Release("sleep")
    /\ Go("sleeper", "asleep")
    /\ UNCHANGED <<triggered, wakers, dueWakers, runs, pending, registered, serverVars>>

(* The condition variable's timeout, up to an hour, or a spurious wake-up. *)
TimesOut(t) ==
    /\ at[t] = "asleep"
    /\ \E place \in {"expired", "want"} : Go(t, place)
    /\ UNCHANGED <<threadVars, serverVars>>

-----------------------------------------------------------------------------
(* Wake::wait, in a worker's loop that ends with the shutdown. *)

CallWait ==
    /\ at.waiter = "work"
    /\ registered' = (registered \/ ~triggered)
    /\ Go("waiter", IF triggered THEN "ended" ELSE IF registered THEN "want" ELSE "register")
    /\ UNCHANGED <<triggered, lock, wakers, dueWakers, runs, pending, serverVars>>

wait ==
    /\ at.waiter \in {"want", "expired"}
    /\ Free("wake")
    /\ pending' = FALSE
    /\ IF pending \/ triggered \/ at.waiter = "expired" THEN Go("waiter", "work") /\ UNCHANGED lock
       ELSE Take("wake", "waiter") /\ Go("waiter", "checked")
    /\ UNCHANGED <<triggered, wakers, dueWakers, runs, registered, serverVars>>

WaitBlocks ==
    /\ at.waiter = "checked"
    /\ Release("wake")
    /\ Go("waiter", "asleep")
    /\ UNCHANGED <<triggered, wakers, dueWakers, runs, pending, registered, serverVars>>

(* Wake::notify, by a connection's handler. *)
notify ==
    /\ at.notifier = "idle" /\ active > 0
    /\ Free("wake")
    /\ pending' = TRUE
    /\ Go("notifier", "set")
    /\ UNCHANGED <<triggered, lock, wakers, dueWakers, runs, registered, serverVars>>

NotifyWaiter ==
    /\ at.notifier = "set"
    /\ Notify("notifier", "idle", "waiter")
    /\ UNCHANGED <<threadVars, serverVars>>

-----------------------------------------------------------------------------
(* main: start, serve, drain, join. *)

(* Workers::spawn, up to the listener. *)
StartWorkers ==
    /\ at.main = "starting"
    /\ at' = [at EXCEPT !.main = "register", !.sleeper = "work", !.waiter = "work"]
    /\ UNCHANGED <<threadVars, serverVars>>

(* fatal: the process exits, and its threads with it. *)
fatal ==
    /\ at.main = "starting"
    /\ at' = [t \in DOMAIN at |-> "dead"]
    /\ guarded' = FALSE
    /\ UNCHANGED <<threadVars, backlog, active>>

(* Acceptor::next *)
CheckStop ==
    /\ at.main = "next"
    /\ Go("main", IF triggered THEN "drain" ELSE "accept")
    /\ UNCHANGED <<threadVars, serverVars>>

(* A connection above the limit is dropped at once. *)
Accept ==
    /\ at.main = "accept" /\ backlog > 0
    /\ backlog' = backlog - 1
    /\ active' = IF active >= MAX_CONNECTIONS THEN active ELSE active + 1
    /\ Go("main", "next")
    /\ UNCHANGED <<threadVars, guarded>>

(* WouldBlock leads to poll(2), any other error to a short sleep. *)
AcceptFails ==
    /\ at.main = "accept"
    /\ \/ backlog = 0 /\ Go("main", "poll")
       \/ Go("main", "backoff")
    /\ UNCHANGED <<threadVars, serverVars>>

PollReturns ==
    /\ at.main = "poll"
    /\ backlog > 0 \/ runs["pipe"] > 0
    /\ Go("main", "next")
    /\ UNCHANGED <<threadVars, serverVars>>

BackoffEnds ==
    /\ at.main = "backoff"
    /\ Go("main", "next")
    /\ UNCHANGED <<threadVars, serverVars>>

(* wait_idle returns when nothing is in flight or shutdown_drain has passed. *)
Drained ==
    /\ at.main = "drain"
    /\ Go("main", "join")
    /\ UNCHANGED <<threadVars, serverVars>>

(* Workers::join, filter.close, drop(guard).  Its trigger finds the flag set. *)
join ==
    /\ at.main = "join"
    /\ at.sleeper = "ended" /\ at.waiter = "ended"
    /\ guarded' = FALSE
    /\ Go("main", "stopped")
    /\ UNCHANGED <<threadVars, backlog, active>>

-----------------------------------------------------------------------------
(* Clients. *)

Connect ==
    /\ backlog < MaxBacklog /\ at.main \notin {"stopped", "dead"}
    /\ backlog' = backlog + 1
    /\ UNCHANGED <<at, threadVars, active, guarded>>

(* InFlightGuard::drop *)
ConnectionCloses ==
    /\ active > 0 /\ at.main # "stopped"
    /\ active' = active - 1
    /\ UNCHANGED <<at, threadVars, backlog, guarded>>

SignalStep ==
    \/ OrderAfterCheck \/ NotifySleepers \/ LockWakers
    \/ RunWaker \/ interrupt \/ TriggerReturns

SleeperStep == CallSleep \/ sleep \/ SleepBlocks

WaiterStep == CallWait \/ Registers("waiter", "wake", "want") \/ wait \/ WaitBlocks

MainStep ==
    \/ StartWorkers \/ fatal \/ Registers("main", "pipe", "next")
    \/ CheckStop \/ Accept \/ AcceptFails \/ PollReturns \/ BackoffEnds \/ Drained \/ join

ShutdownNext ==
    \/ trigger_on_signals \/ SignalStep
    \/ SleeperStep \/ TimesOut("sleeper")
    \/ WaiterStep \/ TimesOut("waiter")
    \/ notify \/ NotifyWaiter
    \/ MainStep
    \/ Connect \/ ConnectionCloses

(* Threads run; nothing is assumed of clients, of the signal or of the long
   timeouts of the condition variables. *)
ShutdownFairness ==
    /\ WF_shutdownVars(SignalStep) /\ WF_shutdownVars(SleeperStep)
    /\ WF_shutdownVars(WaiterStep) /\ WF_shutdownVars(NotifyWaiter)
    /\ WF_shutdownVars(MainStep)

ShutdownSpec == ShutdownInit /\ [][ShutdownNext]_shutdownVars /\ ShutdownFairness

-----------------------------------------------------------------------------
(* Properties. *)

(* Types and the limit on connections. *)
ShutdownTypeOK ==
    /\ {triggered, pending, registered, guarded} \subseteq BOOLEAN
    /\ \A l \in DOMAIN lock : lock[l] \in {"free"} \union DOMAIN at
    /\ wakers \subseteq Wakers /\ dueWakers \subseteq wakers
    /\ backlog \in 0 .. MaxBacklog /\ active \in 0 .. MAX_CONNECTIONS

(* on_trigger: "Runs `waker` when the shutdown starts, or now if it already
   has": a waker is never run twice, and once trigger has returned every
   thread that got past its registration has had its waker run. *)
WakersRunOnce ==
    /\ \A w \in Wakers : runs[w] <= 1
    /\ at.signal = "done" =>
          /\ at.main \in {"next", "accept", "poll", "backoff", "drain", "join", "stopped"} => runs["pipe"] = 1
          /\ at.waiter \in {"want", "checked", "asleep", "expired"} => runs["wake"] = 1

(* The daemon guard, which keeps offline tools away from the store, is held
   as long as a worker can use it. *)
GuardCoversWorkers ==
    ~guarded => at.sleeper \in {"ended", "dead"} /\ at.waiter \in {"ended", "dead"}

(* A signal stops the process whatever its threads are blocked in and at
   whatever point of their registration it arrives: no wake-up is lost, and
   no hourly timeout is needed. *)
StopsOnSignal == triggered ~> at.main \in {"stopped", "dead"}

(* A notification is consumed without waiting for the timeout, also when it
   arrives between the worker's check and its wait. *)
NotificationConsumed == pending ~> (~pending \/ triggered)

\* A shutdown runs every waker, also one registered while it runs, and none twice,
\* and the daemon's guard outlives the workers that rely on it.
ShutdownSound ==
  /\ ShutdownTypeOK /\ WakersRunOnce /\ GuardCoversWorkers
=============================================================================
