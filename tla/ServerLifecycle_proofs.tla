----------------------- MODULE ServerLifecycle_proofs -----------------------
(***************************************************************************)
(* Proofs about ServerLifecycle, for any requests, environments and sizes. *)
(*                                                                         *)
(* The order of the shutdown is the argument: the pool is closed only in   *)
(* phase closing, which begins when no handler is in flight and the        *)
(* startup sweep is long over (Order), and the process leaves it for exit  *)
(* code 0 only when the pool has every connection back (Lending).          *)
(***************************************************************************)
EXTENDS ServerLifecycle, TLAPS

\* Who can be in flight in which phase.
Order ==
  /\ phase = "starting" => pool = "none"
  /\ pool = "closed" => phase \in {"closing", "exited"}
  /\ phase = "starting" => \A u \in Users : doing[u] = "off"
  /\ phase \in {"starting", "sweeping"} => \A r \in Requests : doing[r] = "off"
  /\ phase \in {"opening", "serving", "draining", "closing"} =>
       doing["startup"] = "returned"
  /\ phase = "closing" => \A r \in Requests : doing[r] \notin InFlight
  /\ phase # "exited" => /\ code = "none"
                         /\ \A u \in Users : doing[u] \notin {"cut", "torn"}

\* While the process lives, a connection is lent to whoever is in a statement.
Lending ==
  phase # "exited" => \A u \in Users : doing[u] = "hold" => u \in lent

IInv == TypeOK /\ Order /\ Lending /\ OrderlyExit /\ OnlyWorkerIsRefused

-----------------------------------------------------------------------------

\* The range of a remainder.
LEMMA Remainder == \A n, d \in Int : d > 0 => n % d \in 0..d - 1
OBVIOUS

\* A pool that Connect accepts has a size of the type int32, and not zero.
LEMMA PoolSize ==
  ASSUME NEW e \in Envs, Connects(e)
  PROVE  int32(getInt(e.conns)) \in 1..HalfWord - 1
<1>1. getInt(e.conns) \in Int
  BY LifecycleAssumption DEF getInt
<1>2. \A n \in Int : (n % (2 * HalfWord)) \in 0..(2 * HalfWord) - 1
  <2>1. 2 * HalfWord \in Int /\ 2 * HalfWord > 0
    BY LifecycleAssumption
  <2> QED
    BY <2>1, Remainder
<1>3. int32(getInt(e.conns)) \in -HalfWord..HalfWord - 1
  <2>1. HalfWord \in Int /\ getInt(e.conns) + HalfWord \in Int
    BY <1>1, LifecycleAssumption
  <2>2. ((getInt(e.conns) + HalfWord) % (2 * HalfWord)) \in 0..(2 * HalfWord) - 1
    BY <1>2, <2>1
  <2> QED
    BY <2>1, <2>2 DEF int32
<1> QED
  BY <1>3, LifecycleAssumption DEF Connects

\* Only who is in a statement is torn out of it.
LEMMA ExitFacts ==
  ASSUME IInv, NEW c \in {"ok", "error", "killed"}, Exit(c)
  PROVE  /\ TypeOK' /\ Order' /\ Lending' /\ OnlyWorkerIsRefused'
         /\ \A u \in Users : /\ doing[u] \in {"off", "returned"} => doing'[u] = doing[u]
                             /\ doing'[u] = "torn" => doing[u] \in {"hold", "torn"}
BY DEF IInv, TypeOK, Order, Lending, OnlyWorkerIsRefused, Exit, Phases, InFlight

\* A process that ends otherwise than by closing its pool has another code.
LEMMA OtherExit ==
  ASSUME IInv, NEW c \in {"error", "killed"}, Exit(c)
  PROVE  IInv'
<1>1. OrderlyExit'
  BY DEF Exit, OrderlyExit
<1> QED
  BY <1>1, ExitFacts DEF IInv

\* Connections go out and come back.
LEMMA StepFacts ==
  ASSUME IInv, NEW u \in Users,
         NEW from \in {"off", "run", "want", "hold"},
         NEW to \in {"off", "run", "want", "hold", "returned"},
         Step(u, from, to),
         to = "hold" => u \in lent', lent' \subseteq Users,
         \A v \in Users \ {u} : v \in lent => v \in lent',
         left' \in [Users -> 0..MaxStatements],
         refused' \subseteq {"worker"},
         u \in Requests =>
           from # "off" \/ phase \in {"opening", "serving"},
         u = "startup" => from # "off",
         u = "worker" => from # "off" \/ phase # "starting"
  PROVE  IInv'
<1> USE DEF IInv, TypeOK, Step, Users, InFlight
<1>1. TypeOK'
  OBVIOUS
<1>2. Lending'
  BY DEF Lending
<1>3. phase # "starting" /\ (u \in Requests => phase \notin {"sweeping", "closing"})
  BY LifecycleAssumption DEF Order
<1>4. u = "startup" => phase = "sweeping"
  BY DEF Order, Phases
<1>5. u # "startup" => doing'["startup"] = doing["startup"]
  OBVIOUS
<1>6. Order'
  BY <1>3, <1>4, <1>5, LifecycleAssumption DEF Order
<1>7. OrderlyExit' /\ OnlyWorkerIsRefused'
  BY DEF Order, OrderlyExit, OnlyWorkerIsRefused
<1> QED
  BY <1>1, <1>2, <1>6, <1>7

\* Only the worker is in flight when the pool is closed.
LEMMA RefusedWorker ==
  ASSUME IInv, NEW u \in Users, Refuse(u)
  PROVE  u = "worker"
BY DEF IInv, Order, Refuse, Step, Users, InFlight

\* The steps of the main goroutine.
LEMMA MainStep ==
  ASSUME IInv, Main \/ ListenFails \/ Terminate \/ Kill
  PROVE  IInv'
<1> USE DEF IInv
<1>1. CASE FailToStart \/ ListenFails \/ DrainTimesOut \/ Kill
  BY <1>1, OtherExit DEF FailToStart, ListenFails, DrainTimesOut, Kill
<1>2. CASE Begin
  <2>1. maxConns' \in 0..HalfWord - 1
    BY <1>2, PoolSize DEF Begin, TypeOK
  <2>2. TypeOK'
    BY <1>2, <2>1 DEF Begin, TypeOK, Phases, InFlight
  <2>3. Order' /\ Lending'
    BY <1>2, LifecycleAssumption DEF Begin, TypeOK, Order, Lending, Users, InFlight
  <2> QED
    BY <1>2, <2>2, <2>3 DEF Begin, Order, OrderlyExit, OnlyWorkerIsRefused
<1>3. CASE StartListening \/ Notify \/ Terminate
  <2>1. TypeOK' /\ Order' /\ Lending'
    BY <1>3 DEF StartListening, Notify, Terminate, TypeOK, Order, Lending, Phases
  <2> QED
    BY <1>3, <2>1
       DEF StartListening, Notify, Terminate, Order, OrderlyExit, OnlyWorkerIsRefused
<1>4. CASE Drained
  <2>1. TypeOK' /\ Order' /\ Lending'
    BY <1>4 DEF Drained, TypeOK, Order, Lending, Phases
  <2> QED
    BY <1>4, <2>1 DEF Drained, Order, OrderlyExit, OnlyWorkerIsRefused
<1>5. CASE Closed
  <2>1. Exit("ok") /\ phase = "closing" /\ lent = {}
    BY <1>5 DEF Closed
  <2>2. /\ TypeOK' /\ Order' /\ Lending' /\ OnlyWorkerIsRefused'
        /\ \A u \in Users : /\ doing[u] \in {"off", "returned"} => doing'[u] = doing[u]
                            /\ doing'[u] = "torn" => doing[u] \in {"hold", "torn"}
    BY <2>1, ExitFacts
  <2>3. /\ \A r \in Requests : doing[r] \in {"off", "returned"}
        /\ \A u \in Users : doing[u] \notin {"hold", "torn"}
    BY <2>1 DEF TypeOK, Order, Lending, Users, InFlight
  <2>4. OrderlyExit'
    BY <2>2, <2>3 DEF OrderlyExit, Users
  <2> QED
    BY <2>2, <2>4
<1> QED
  BY <1>1, <1>2, <1>3, <1>4, <1>5 DEF Main

\* The steps of a handler or a sweep.
LEMMA UserStep ==
  ASSUME IInv, NEW u \in Users,
         \/ Work(u) \/ Acquire(u)
         \/ u \in Requests /\ (Accept(u) \/ ClientGone(u))
         \/ u = "worker" /\ (EndSweep \/ Tick)
  PROVE  IInv'
<1>0. /\ lent \subseteq Users /\ left \in [Users -> 0..MaxStatements]
      /\ refused \subseteq {"worker"} /\ MaxStatements \in Nat
      /\ u \in Requests => u # "startup" /\ u # "worker"
      /\ phase = "starting" => pool = "none"
  BY LifecycleAssumption DEF IInv, TypeOK, OnlyWorkerIsRefused, Order
<1>1. CASE Want(u)
  <2>1. left' \in [Users -> 0..MaxStatements]
    BY <1>0, <1>1 DEF Want
  <2> QED
    BY <1>0, <1>1, <2>1, StepFacts DEF Want
<1>2. CASE Refuse(u)
  BY <1>0, <1>2, RefusedWorker, StepFacts DEF Refuse
<1>3. CASE Release(u)
  BY <1>0, <1>3, StepFacts DEF Release
<1>4. CASE Return(u)
  BY <1>0, <1>4, StepFacts DEF Return
<1>5. CASE Acquire(u)
  BY <1>0, <1>5, StepFacts DEF Acquire
<1>6. CASE u \in Requests /\ Accept(u)
  BY <1>0, <1>6, StepFacts DEF Accept
<1>7. CASE u \in Requests /\ ClientGone(u)
  <2>1. left' \in [Users -> 0..MaxStatements]
    BY <1>0, <1>7 DEF ClientGone
  <2>2. PICK from \in {"want", "hold"} : Step(u, from, "run")
    BY <1>7 DEF ClientGone
  <2> QED
    BY <1>0, <1>7, <2>1, <2>2, StepFacts DEF ClientGone
<1>8. CASE u = "worker" /\ EndSweep
  <2>1. left' \in [Users -> 0..MaxStatements]
    BY <1>0, <1>8 DEF EndSweep
  <2> QED
    BY <1>0, <1>8, <2>1, StepFacts DEF EndSweep
<1>9. CASE u = "worker" /\ Tick
  BY <1>0, <1>9, StepFacts DEF Tick
<1> QED
  BY <1>1, <1>2, <1>3, <1>4, <1>5, <1>6, <1>7, <1>8, <1>9 DEF Work

\* The inductive invariant.
LEMMA Invariance == Spec => []IInv
<1>1. Init => IInv
  BY LifecycleAssumption
     DEF Init, IInv, TypeOK, Order, Lending, OrderlyExit, OnlyWorkerIsRefused, Phases,
         InFlight, Users
<1>2. IInv /\ [Next]_vars => IInv'
  <2> SUFFICES ASSUME IInv, [Next]_vars PROVE IInv'
    OBVIOUS
  <2>1. CASE Main \/ ListenFails \/ Terminate \/ Kill
    BY <2>1, MainStep
  <2>2. CASE \E r \in Requests : Accept(r) \/ ClientGone(r)
    BY <2>2, UserStep DEF Users
  <2>3. CASE \E u \in Users : Work(u) \/ Acquire(u)
    BY <2>3, UserStep
  <2>4. CASE EndSweep \/ Tick
    BY <2>4, UserStep DEF Users
  <2>5. CASE UNCHANGED vars
    BY <2>5 DEF vars, IInv, TypeOK, Order, Lending, OrderlyExit, OnlyWorkerIsRefused
  <2> QED
    BY <2>1, <2>2, <2>3, <2>4, <2>5 DEF Next
<1> QED
  BY <1>1, <1>2, PTL DEF Spec

-----------------------------------------------------------------------------
(* Theorems *)

\* The pool has the size of a positive int32 and the process one of its phases,
\* whatever DB_MAX_CONNS says.
THEOREM TypeCorrect == Spec => []TypeOK
<1>1. IInv => TypeOK
  BY DEF IInv
<1> QED
  BY <1>1, Invariance, PTL

\* A process that exits with code 0 has answered every request it accepted
\* and interrupted no statement.
THEOREM ExitIsOrderly == Spec => []OrderlyExit
<1>1. IInv => OrderlyExit
  BY DEF IInv
<1> QED
  BY <1>1, Invariance, PTL

\* No handler and no startup sweep ever finds the pool closed.
THEOREM HandlersKeepPool == Spec => []OnlyWorkerIsRefused
<1>1. IInv => OnlyWorkerIsRefused
  BY DEF IInv
<1> QED
  BY <1>1, Invariance, PTL

-----------------------------------------------------------------------------
(* Refinement of GracefulServer *)

\* What clients see of a request, case by case.
LEMMA SeenCases ==
  /\ SeenAs("off") = "none"
  /\ SeenAs("returned") = "answered"
  /\ SeenAs("cut") = "lost" /\ SeenAs("torn") = "lost"
  /\ \A what \in InFlight : SeenAs(what) = "taken"
BY DEF SeenAs, InFlight

\* Only a request that is in flight is lost at the exit.
LEMMA ExitSeen ==
  ASSUME IInv, NEW c \in {"ok", "error", "killed"}, Exit(c)
  PROVE  /\ SeenServer' = "gone"
         /\ SeenRequest' = [r \in Requests |->
              IF SeenRequest[r] = "taken" THEN "lost" ELSE SeenRequest[r]]
<1>1. SeenServer' = "gone"
  BY DEF Exit, SeenServer
<1>2. ASSUME NEW r \in Requests
      PROVE  SeenRequest'[r] = IF SeenRequest[r] = "taken" THEN "lost" ELSE SeenRequest[r]
  <2>1. /\ doing[r] \in InFlight \cup {"off", "returned", "cut", "torn"}
        /\ doing'[r] = CASE doing[r] = "hold" -> "torn"
                         [] doing[r] \in {"run", "want"} -> "cut"
                         [] OTHER -> doing[r]
    BY DEF IInv, TypeOK, Users, Exit
  <2> QED
    BY <2>1, SeenCases DEF SeenRequest, InFlight
<1>3. SeenRequest' = [r \in Requests |-> SeenRequest'[r]]
  BY DEF SeenRequest
<1> QED
  BY <1>1, <1>2, <1>3

\* A process that exits with another code than 0 dies.
LEMMA ExitDies ==
  ASSUME IInv, phase # "exited", NEW c \in {"error", "killed"}, Exit(c)
  PROVE  Server!Die
<1>1. SeenServer # "gone"
  BY DEF IInv, TypeOK, Phases, SeenServer
<1>2. (code = "ok") = FALSE /\ (code' = "ok") = FALSE
  BY DEF IInv, Order, Exit
<1> QED
  BY <1>1, <1>2, ExitSeen DEF Server!Die

\* The main goroutine comes up, stops, leaves, dies, or does what clients
\* cannot tell.
LEMMA MainSeen ==
  ASSUME IInv, Main \/ ListenFails \/ Terminate \/ Kill
  PROVE  Server!Next \/ UNCHANGED Server!service
<1>1. CASE FailToStart \/ ListenFails \/ DrainTimesOut \/ Kill
  BY <1>1, ExitDies DEF FailToStart, ListenFails, DrainTimesOut, Kill, Server!Next
<1>2. CASE Begin
  <2>1. SeenServer' = SeenServer /\ code' = code
    BY <1>2 DEF Begin, SeenServer
  <2>2. SeenRequest' = SeenRequest
    BY <1>2, LifecycleAssumption DEF Begin, SeenRequest, IInv, TypeOK, Users
  <2> QED
    BY <2>1, <2>2 DEF Server!service
<1>3. CASE StartListening
  <2>1. SeenServer = "down" /\ SeenServer' = "up"
    BY <1>3 DEF StartListening, SeenServer
  <2>2. SeenRequest' = SeenRequest /\ code' = code
    BY <1>3 DEF StartListening, SeenRequest
  <2>3. Server!ComeUp
    BY <2>1, <2>2 DEF Server!ComeUp
  <2> QED
    BY <2>3 DEF Server!Next
<1>4. CASE Notify \/ Drained
  <2>1. SeenServer' = SeenServer
    BY <1>4 DEF Notify, Drained, SeenServer
  <2>2. SeenRequest' = SeenRequest /\ code' = code
    BY <1>4 DEF Notify, Drained, SeenRequest
  <2> QED
    BY <2>1, <2>2 DEF Server!service
<1>5. CASE Terminate
  <2>1. SeenServer = "up" /\ SeenServer' = "stopping"
    BY <1>5 DEF Terminate, SeenServer
  <2>2. SeenRequest' = SeenRequest /\ code' = code
    BY <1>5 DEF Terminate, SeenRequest
  <2>3. Server!Stop
    BY <2>1, <2>2 DEF Server!Stop
  <2> QED
    BY <2>3 DEF Server!Next
<1>6. CASE Closed
  <2>1. phase = "closing" /\ Exit("ok") /\ code' = "ok"
    BY <1>6 DEF Closed, Exit
  <2>2. SeenServer = "stopping"
    BY <2>1 DEF SeenServer
  <2>3. \A r \in Requests : SeenRequest[r] # "taken"
    BY <2>1, SeenCases DEF IInv, TypeOK, Order, Users, SeenRequest
  <2>4. SeenServer' = "gone" /\ SeenRequest' = SeenRequest
    <3>1. \A r \in Requests :
            (IF SeenRequest[r] = "taken" THEN "lost" ELSE SeenRequest[r]) = SeenRequest[r]
      BY <2>3
    <3> QED
      BY <2>1, <3>1, ExitSeen DEF SeenRequest
  <2>5. Server!Leave
    BY <2>1, <2>2, <2>3, <2>4 DEF Server!Leave
  <2> QED
    BY <2>5 DEF Server!Next
<1> QED
  BY <1>1, <1>2, <1>3, <1>4, <1>5, <1>6 DEF Main

\* A handler is seen when it takes its request and when it answers it.
LEMMA UserSeen ==
  ASSUME IInv, NEW u \in Users, NEW from, NEW to, Step(u, from, to),
         \/ u \in Requests /\ from = "off" /\ to = "run" /\ phase \in {"opening", "serving"}
         \/ u \in Requests /\ from = "run" /\ to = "returned"
         \/ from \in InFlight /\ to \in InFlight
         \/ u \notin Requests
  PROVE  Server!Next \/ UNCHANGED Server!service
<1>1. /\ SeenServer' = SeenServer /\ code' = code
      /\ doing[u] = from /\ doing' = [doing EXCEPT ![u] = to]
      /\ doing \in [Users -> InFlight \cup {"off", "returned", "cut", "torn"}]
      /\ phase # "exited"
  BY DEF Step, SeenServer, IInv, TypeOK
<1>2. CASE u \notin Requests \/ (from \in InFlight /\ to \in InFlight)
  <2>1. ASSUME NEW r \in Requests
        PROVE  SeenRequest'[r] = SeenRequest[r]
    BY <1>1, <1>2, SeenCases DEF SeenRequest, InFlight, Users
  <2>2. SeenRequest' = SeenRequest
    BY <2>1 DEF SeenRequest
  <2> QED
    BY <1>1, <2>2 DEF Server!service
<1>3. CASE u \in Requests /\ from = "off" /\ to = "run" /\ phase \in {"opening", "serving"}
  <2>0. SeenServer = "up"
    BY <1>3 DEF SeenServer
  <2>1. SeenRequest[u] = "none"
    BY <1>1, <1>3, SeenCases DEF SeenRequest
  <2>2. SeenRequest' = [SeenRequest EXCEPT ![u] = "taken"]
    BY <1>1, <1>3, SeenCases DEF SeenRequest, InFlight, Users
  <2>3. Server!Take(u)
    BY <1>1, <2>0, <2>1, <2>2 DEF Server!Take
  <2> QED
    BY <1>3, <2>3 DEF Server!Next
<1>4. CASE u \in Requests /\ from = "run" /\ to = "returned"
  <2>1. SeenServer \in {"up", "stopping"} /\ SeenRequest[u] = "taken"
    BY <1>1, <1>4, LifecycleAssumption, SeenCases
       DEF SeenServer, SeenRequest, InFlight, IInv, TypeOK, Order, Phases
  <2>2. SeenRequest' = [SeenRequest EXCEPT ![u] = "answered"]
    BY <1>1, <1>4, SeenCases DEF SeenRequest, InFlight, Users
  <2>3. Server!Answer(u)
    BY <1>1, <2>1, <2>2 DEF Server!Answer
  <2> QED
    BY <1>4, <2>3 DEF Server!Next
<1> QED
  BY <1>2, <1>3, <1>4

\* Every step is a step of GracefulServer or leaves it alone.
LEMMA ServerStep == IInv /\ [Next]_vars => [Server!Next]_(Server!service)
<1> SUFFICES ASSUME IInv, [Next]_vars PROVE Server!Next \/ UNCHANGED Server!service
  OBVIOUS
<1>1. CASE Main \/ ListenFails \/ Terminate \/ Kill
  BY <1>1, MainSeen
<1>2. ASSUME NEW r \in Requests, Accept(r) \/ ClientGone(r)
      PROVE  Server!Next \/ UNCHANGED Server!service
  BY <1>2, UserSeen DEF Accept, ClientGone, Users, InFlight
<1>3. ASSUME NEW u \in Users, Work(u) \/ Acquire(u)
      PROVE  Server!Next \/ UNCHANGED Server!service
  BY <1>3, UserSeen DEF Work, Want, Refuse, Release, Return, Acquire, InFlight
<1>4. CASE EndSweep \/ Tick
  <2>1. "worker" \in Users /\ "worker" \notin Requests
    BY LifecycleAssumption DEF Users
  <2> QED
    BY <1>4, <2>1, UserSeen DEF EndSweep, Tick
<1>5. CASE UNCHANGED vars
  <2>1. SeenServer' = SeenServer
    BY <1>5 DEF vars, SeenServer
  <2>2. SeenRequest' = SeenRequest /\ code' = code
    BY <1>5 DEF vars, SeenRequest
  <2> QED
    BY <2>1, <2>2 DEF Server!service
<1> QED
  BY <1>1, <1>2, <1>3, <1>4, <1>5 DEF Next

\* The process, with its pool, its sweeps and every way it can end, is to its
\* clients a server that stops gracefully or says that it did not.
THEOREM ImplementsServer == Spec => ServerSpec
<1>1. Init => Server!Init
  <2> SUFFICES ASSUME Init PROVE Server!Init
    OBVIOUS
  <2>1. SeenServer = "down" /\ (code = "ok") = FALSE
    BY DEF Init, SeenServer
  <2>2. SeenRequest = [r \in Requests |-> "none"]
    BY SeenCases DEF Init, SeenRequest, Users
  <2> QED
    BY <2>1, <2>2 DEF Server!Init
<1> QED
  BY <1>1, ServerStep, Invariance, PTL DEF Spec, ServerSpec, Server!Spec

=============================================================================
