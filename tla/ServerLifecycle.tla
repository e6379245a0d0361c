-------------------------- MODULE ServerLifecycle --------------------------
(***************************************************************************)
(* One server process from main() to its exit: configuration, connection   *)
(* pool, startup sweep, reconciliation worker, request handlers, and the   *)
(* shutdown of Server.Start.  What the statements do to the tables is the  *)
(* subject of PaymentService and CreatePayment; here they only take a      *)
(* connection, use it and give it back.                                    *)
(*                                                                         *)
(* The pool (pgxpool), net/http's Shutdown and the signals are modelled    *)
(* from how the code uses them: a closed pool refuses Acquire, and Close   *)
(* waits until every connection has been given back.                       *)
(***************************************************************************)
EXTENDS Integers, FiniteSets

CONSTANTS Requests,       \* requests the process may receive
          Envs,           \* environments it may be started in
          DefaultConns,   \* default of DB_MAX_CONNS
          HalfWord,       \* an int32 lies in -HalfWord..HalfWord-1
          MaxStatements   \* statements of a handler, or of one sweep

ASSUME LifecycleAssumption ==
  /\ Requests \cap {"startup", "worker"} = {}
  /\ HalfWord \in Nat \ {0}
  /\ DefaultConns \in 1..HalfWord - 1
  /\ MaxStatements \in Nat
  /\ \A e \in Envs : e.conns \subseteq Int

VARIABLES env,       \* the environment variables
          phase,     \* where the main goroutine is
          code,      \* how the process ended
          maxConns,  \* the size of the pool
          pool,      \* "none", "open" or "closed"
          doing,     \* doing[u]: what each user of the pool is doing
          lent,      \* users to whom the pool has lent a connection
          left,      \* left[u]: statements it may still run
          refused    \* users whose Acquire met a closed pool

vars == <<env, phase, code, maxConns, pool, doing, lent, left, refused>>

Users == Requests \cup {"startup", "worker"}

\* Opening: listening, but before signal.Notify.
Phases == {"starting", "sweeping", "opening", "serving", "draining", "closing",
           "exited"}

InFlight == {"run", "want", "hold"}

-----------------------------------------------------------------------------
(* Configuration *)

\* getInt: conns is the set of numbers DB_MAX_CONNS can be read as, which is
\* empty when it is not set or no number; either gives the default.
getInt(numbers) ==
  CHOOSE n \in (IF numbers = {} THEN {DefaultConns} ELSE numbers) : TRUE

\* MUTANT of int32: no bits are lost.
int32Unbounded(n) == n

\* The conversion int32(n).
int32(n) == ((n + HalfWord) % (2 * HalfWord)) - HalfWord

\* Load fails without DATABASE_URL or a key of 64 hexadecimal characters.
Loads(e) == e.url /\ e.key

\* pgxpool refuses a pool of no connections; the database must answer a Ping.
Connects(e) == int32(getInt(e.conns)) > 0 /\ e.reachable

\* The process ends: whoever is in a statement is torn out of it.
Exit(c) ==
  /\ phase' = "exited"
  /\ code' = c
  /\ doing' = [u \in Users |-> CASE doing[u] = "hold" -> "torn"
                                 [] doing[u] \in {"run", "want"} -> "cut"
                                 [] OTHER -> doing[u]]
  /\ UNCHANGED <<env, maxConns, pool, lent, left, refused>>

-----------------------------------------------------------------------------

Init ==
  /\ env \in Envs
  /\ phase = "starting" /\ code = "none"
  /\ maxConns = 0 /\ pool = "none"
  /\ doing = [u \in Users |-> "off"]
  /\ lent = {} /\ left = [u \in Users |-> MaxStatements]
  /\ refused = {}

(* main *)

FailToStart ==
  /\ phase = "starting"
  /\ ~(Loads(env) /\ Connects(env))
  /\ Exit("error")

\* Load and Connect succeed; the worker starts, then the startup sweep.
Begin ==
  /\ phase = "starting"
  /\ Loads(env) /\ Connects(env)
  /\ maxConns' = int32(getInt(env.conns))
  /\ pool' = "open"
  /\ phase' = "sweeping"
  /\ doing' = [doing EXCEPT !["startup"] = "run", !["worker"] = "run"]
  /\ UNCHANGED <<env, code, lent, left, refused>>

\* The startup sweep is over, with or without an error; Start listens.
StartListening ==
  /\ phase = "sweeping"
  /\ doing["startup"] = "returned"
  /\ phase' = "opening"
  /\ UNCHANGED <<env, code, maxConns, pool, doing, lent, left, refused>>

Notify ==
  /\ phase = "opening"
  /\ phase' = "serving"
  /\ UNCHANGED <<env, code, maxConns, pool, doing, lent, left, refused>>

\* ListenAndServe fails: Start returns the error without draining.
ListenFails ==
  /\ phase = "serving"
  /\ Exit("error")

\* MUTANT of Terminate: the pool is closed before the server.
TerminateClosingPool ==
  /\ phase = "serving"
  /\ phase' = "draining"
  /\ pool' = "closed"
  /\ UNCHANGED <<env, code, maxConns, doing, lent, left, refused>>

\* The first SIGTERM or SIGINT after Notify: httpServer.Shutdown stops
\* listening.  Later ones find the channel full and do nothing.
Terminate ==
  /\ phase = "serving"
  /\ phase' = "draining"
  /\ UNCHANGED <<env, code, maxConns, pool, doing, lent, left, refused>>

\* A signal before Notify, or SIGKILL at any time.
Kill ==
  /\ phase # "exited"
  /\ Exit("killed")

\* MUTANT of Drained: Shutdown is not waited for.
DrainedAtOnce ==
  /\ phase = "draining"
  /\ phase' = "closing"
  /\ pool' = "closed"
  /\ UNCHANGED <<env, code, maxConns, doing, lent, left, refused>>

\* Shutdown has seen every connection idle; db.Close begins.
Drained ==
  /\ phase = "draining"
  /\ \A r \in Requests : doing[r] \notin InFlight
  /\ phase' = "closing"
  /\ pool' = "closed"
  /\ UNCHANGED <<env, code, maxConns, doing, lent, left, refused>>

\* ShutdownTimeout ends before that: the pool is not closed.
DrainTimesOut ==
  /\ phase = "draining"
  /\ Exit("error")

\* db.Close returns once every connection is back, and so does main.
Closed ==
  /\ phase = "closing"
  /\ lent = {}
  /\ Exit("ok")

-----------------------------------------------------------------------------
(* Handlers and sweeps *)

Step(u, from, to) ==
  /\ phase # "exited"
  /\ doing[u] = from
  /\ doing' = [doing EXCEPT ![u] = to]
  /\ UNCHANGED <<env, phase, code, maxConns, pool>>

\* MUTANT of Accept: the listener stays open while the server drains.
AcceptWhileDraining(r) ==
  /\ phase \in {"opening", "serving", "draining"}
  /\ Step(r, "off", "run")
  /\ UNCHANGED <<lent, left, refused>>

\* A request arrives while the server listens.
Accept(r) ==
  /\ phase \in {"opening", "serving"}
  /\ Step(r, "off", "run")
  /\ UNCHANGED <<lent, left, refused>>

\* The next statement needs a connection.
Want(u) ==
  /\ left[u] > 0
  /\ left' = [left EXCEPT ![u] = @ - 1]
  /\ Step(u, "run", "want")
  /\ UNCHANGED <<lent, refused>>

Acquire(u) ==
  /\ pool = "open"
  /\ Cardinality(lent) < maxConns
  /\ Step(u, "want", "hold")
  /\ lent' = lent \cup {u}
  /\ UNCHANGED <<left, refused>>

\* A closed pool fails the statement.
Refuse(u) ==
  /\ pool = "closed"
  /\ Step(u, "want", "run")
  /\ refused' = refused \cup {u}
  /\ UNCHANGED <<lent, left>>

\* MUTANT of Release: an error path does not close its rows or roll back.
ReleaseOrLeak(u) ==
  /\ Step(u, "hold", "run")
  /\ lent' \in {lent, lent \ {u}}
  /\ UNCHANGED <<left, refused>>

\* The statement or the transaction ends, one way or the other, and its
\* connection goes back.
Release(u) ==
  /\ Step(u, "hold", "run")
  /\ lent' = lent \ {u}
  /\ UNCHANGED <<left, refused>>

\* The client hangs up: the request's context is cancelled, which ends its
\* waiting or its statement and fails every later one.
ClientGone(r) ==
  /\ \E from \in {"want", "hold"} : Step(r, from, "run")
  /\ lent' = lent \ {r}
  /\ left' = [left EXCEPT ![r] = 0]
  /\ UNCHANGED refused

\* A handler, or the startup sweep, comes to its end.
Return(u) ==
  /\ u # "worker"
  /\ Step(u, "run", "returned")
  /\ UNCHANGED <<lent, left, refused>>

\* The worker ends a sweep, and starts the next when its ticker says so.
EndSweep ==
  /\ Step("worker", "run", "off")
  /\ left' = [left EXCEPT !["worker"] = MaxStatements]
  /\ UNCHANGED <<lent, refused>>

Tick ==
  /\ pool # "none"
  /\ Step("worker", "off", "run")
  /\ UNCHANGED <<lent, left, refused>>

-----------------------------------------------------------------------------

Work(u) == Want(u) \/ Refuse(u) \/ Release(u) \/ Return(u)

Main ==
  \/ FailToStart \/ Begin \/ StartListening \/ Notify
  \/ Drained \/ DrainTimesOut \/ Closed

Next ==
  \/ Main \/ ListenFails \/ Terminate \/ Kill
  \/ \E r \in Requests : Accept(r) \/ ClientGone(r)
  \/ \E u \in Users : Work(u) \/ Acquire(u)
  \/ EndSweep \/ Tick

Fairness ==
  /\ WF_vars(Main)
  /\ \A u \in Users : WF_vars(Work(u)) /\ SF_vars(Acquire(u))
  /\ WF_vars(EndSweep)

Spec == Init /\ [][Next]_vars /\ Fairness

-----------------------------------------------------------------------------
(* Properties *)

\* Type correctness of the process's phase, its pool and the users of it.
TypeOK ==
  /\ env \in Envs
  /\ phase \in Phases
  /\ code \in {"none", "ok", "error", "killed"}
  /\ maxConns \in 0..HalfWord - 1
  /\ pool \in {"none", "open", "closed"}
  /\ doing \in [Users -> InFlight \cup {"off", "returned", "cut", "torn"}]
  /\ lent \subseteq Users
  /\ left \in [Users -> 0..MaxStatements]
  /\ refused \subseteq Users

\* When the process exits with code 0, every request it accepted has been
\* answered, and nothing, the worker's sweep included, was torn out of a
\* statement.
OrderlyExit ==
  code = "ok" =>
    /\ \A r \in Requests : doing[r] \in {"off", "returned"}
    /\ \A u \in Users : doing[u] # "torn"

\* Only the worker, which nobody stops or waits for, ever finds the pool
\* closed: handlers and the startup sweep do not.
OnlyWorkerIsRefused == refused \subseteq {"worker"}

\* The process and its requests as clients see them.
SeenServer ==
  CASE phase \in {"starting", "sweeping"} -> "down"
    [] phase \in {"opening", "serving"} -> "up"
    [] phase \in {"draining", "closing"} -> "stopping"
    [] phase = "exited" -> "gone"

SeenAs(what) ==
  CASE what = "off" -> "none"
    [] what \in InFlight -> "taken"
    [] what = "returned" -> "answered"
    [] what \in {"cut", "torn"} -> "lost"

SeenRequest == [r \in Requests |-> SeenAs(doing[r])]

\* With its pool, its sweeps and every way it can end, the process implements
\* GracefulServer.
Server == INSTANCE GracefulServer WITH
  server <- SeenServer, request <- SeenRequest, orderly <- code = "ok"
ServerSpec == Server!Spec

\* Once Shutdown has begun the process ends, with or without its clients: Close
\* waits for the worker's connection without a deadline, which only ends
\* because every user gives its connection back.
ShutdownCompletes == (phase = "draining") ~> (phase = "exited")

\* An accepted request is answered or dies with the process: with fewer
\* connections than users, nobody waits for one for ever, since nobody holds
\* one while it waits for another, and no pool has size zero.
RequestsEnd ==
  \A r \in Requests :
    (doing[r] \in InFlight) ~> (doing[r] \in {"returned", "cut", "torn"})

=============================================================================
