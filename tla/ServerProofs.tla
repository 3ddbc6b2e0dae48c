---------------------------- MODULE ServerProofs ----------------------------
(***************************************************************************)
(* Theorems about Server for any requests and any finite set of tasks.     *)
(* The invariant says what each phase of the shutdown goroutine has        *)
(* already secured: the listener is closed, then nothing is left to serve, *)
(* then nothing is left running.                                           *)
(***************************************************************************)
EXTENDS Server, FiniteSetTheorems, TLAPS

Running == {t \in Tasks : task[t] = "running"}

PhaseInv ==
  /\ stopper # "signal" => ~ open
  /\ main = "serving" => stopper = "signal"
  /\ stopper = "reported" => ~ Alive
  /\ stopper \in {"tasks", "again"} \/ main = "stopped" => Quiet
  /\ stopper = "again" \/ main = "stopped" => Running = {}

IInv == TypeOK /\ CounterIsRunning /\ PhaseInv

LEMMA RunningFinite == IsFiniteSet(Running)
  BY TasksAssumption, FS_Subset DEF Running

LEMMA InitInv == Init => IInv
<1> SUFFICES ASSUME Init PROVE IInv
  OBVIOUS
<1>1. Running = {}
  BY DEF Init, Running
<1>2. CounterIsRunning
  BY <1>1, FS_EmptySet DEF Init, CounterIsRunning, Running
<1>. QED
  BY <1>1, <1>2 DEF Init, IInv, TypeOK, PhaseInv, Alive, ConnStates, TaskStates, StopperPhases,
                    MainPhases

(* Starting and ending a task move the counter with the set it counts.     *)
LEMMA CounterStep ==
  ASSUME IInv, [Next]_vars
  PROVE  CounterIsRunning'
<1>1. wg = Cardinality(Running) /\ TypeOK
  BY DEF IInv, CounterIsRunning, Running
<1>2. ASSUME NEW t \in Tasks, StartTask(t) PROVE CounterIsRunning'
  <2>1. Running' = Running \cup {t} /\ t \notin Running
    BY <1>1, <1>2 DEF StartTask, Running, TypeOK
  <2>2. Cardinality(Running \cup {t}) = Cardinality(Running) + 1
    BY <2>1, RunningFinite, FS_AddElement
  <2>. QED
    BY <1>1, <1>2, <2>1, <2>2 DEF StartTask, Counted, CounterIsRunning, Running
<1>3. ASSUME NEW t \in Tasks, NEW panics \in BOOLEAN, TaskEnds(t, panics)
      PROVE  CounterIsRunning'
  <2>1. Running' = Running \ {t} /\ t \in Running
    BY <1>1, <1>3 DEF TaskEnds, Running, TypeOK
  <2>2. Cardinality(Running \ {t}) = Cardinality(Running) - 1
    BY <2>1, RunningFinite, FS_RemoveElement
  <2>. QED
    BY <1>1, <1>3, <2>1, <2>2 DEF TaskEnds, DoneDeferred, CounterIsRunning, Running
<1>4. CASE UNCHANGED <<task, wg>>
  BY <1>1, <1>4 DEF CounterIsRunning, Running
<1>. QED
  BY <1>2, <1>3, <1>4 DEF Next, Serve, Stopper, Accept, Read, CloseUnread, Respond,
     ListenFails, Signal, Drained, DrainTimesOut, TasksOver, Report, Kill, Gone, vars

LEMMA TypeStep ==
  ASSUME IInv, [Next]_vars
  PROVE  TypeOK'
<1> USE DEF IInv, TypeOK
<1>1. ASSUME NEW r \in Requests, Accept(r) \/ Serve(r) PROVE TypeOK'
  BY <1>1 DEF Accept, Serve, Read, CloseUnread, Respond, ConnStates
<1>2. ASSUME NEW t \in Tasks, StartTask(t) PROVE TypeOK'
  BY <1>2 DEF StartTask, Counted, TaskStates
<1>3. ASSUME NEW t \in Tasks, NEW panics \in BOOLEAN, TaskEnds(t, panics) PROVE TypeOK'
  <2>1. t \in Running
    BY <1>3 DEF TaskEnds, Running
  <2>2. wg # 0
    BY <2>1, RunningFinite, FS_EmptySet DEF CounterIsRunning, Running
  <2>. QED
    BY <1>3, <2>2 DEF TaskEnds, DoneDeferred, TaskStates
<1>4. CASE ListenFails \/ Signal \/ Stopper \/ Kill \/ Gone
  BY <1>4 DEF ListenFails, Signal, Stopper, Drained, DrainTimesOut, TasksOver, Report, Kill, Gone,
              vars, StopperPhases, MainPhases
<1>5. CASE UNCHANGED vars
  BY <1>5 DEF vars
<1>. QED
  BY <1>1, <1>2, <1>3, <1>4, <1>5 DEF Next

LEMMA PhaseStep ==
  ASSUME IInv, [Next]_vars
  PROVE  PhaseInv'
<1> USE DEF IInv, TypeOK, PhaseInv, Quiet, Running, Alive
<1>1. ASSUME NEW r \in Requests, Accept(r) \/ Serve(r) PROVE PhaseInv'
  BY <1>1 DEF Accept, Serve, Read, CloseUnread, Respond
<1>2. ASSUME NEW t \in Tasks, StartTask(t) PROVE PhaseInv'
  <2>1. conn[Starter[t]] = "active" /\ Starter[t] \in Requests
    BY <1>2, TasksAssumption DEF StartTask
  <2>. QED
    BY <1>2, <2>1 DEF StartTask
<1>3. ASSUME NEW t \in Tasks, NEW panics \in BOOLEAN, TaskEnds(t, panics) PROVE PhaseInv'
  BY <1>3 DEF TaskEnds
<1>4. CASE TasksOver
  <2>1. Cardinality(Running) = 0
    BY <1>4 DEF TasksOver, WaitOver, CounterIsRunning
  <2>2. Running = {}
    BY <2>1, RunningFinite, FS_EmptySet
  <2>. QED
    BY <1>4, <2>2 DEF TasksOver
<1>5. CASE ListenFails \/ Signal \/ Drained \/ DrainTimesOut \/ Report \/ Kill \/ Gone
  BY <1>5 DEF ListenFails, Signal, Drained, ShutdownReturned, DrainTimesOut, Report, Kill, Gone, vars
<1>6. CASE UNCHANGED vars
  BY <1>6 DEF vars
<1>. QED
  BY <1>1, <1>2, <1>3, <1>4, <1>5, <1>6 DEF Next, Stopper

(* What each phase has secured holds initially and survives every step.    *)
THEOREM Invariance == Spec => []IInv
<1>1. IInv /\ [Next]_vars => IInv'
  BY CounterStep, TypeStep, PhaseStep DEF IInv
<1>. QED
  BY <1>1, InitInv, PTL DEF Spec

(* The types, hence a counter of app.wg that never falls below zero.       *)
THEOREM TypeCorrect == Spec => []TypeOK
<1>1. IInv => TypeOK
  BY DEF IInv
<1>. QED
  BY <1>1, Invariance, PTL

(* app.wg counts exactly the running tasks, whether they return or panic.  *)
THEOREM CounterIsRunningThm == Spec => []CounterIsRunning
<1>1. IInv => CounterIsRunning
  BY DEF IInv
<1>. QED
  BY <1>1, Invariance, PTL

(* A clean exit has answered every request and finished every task.        *)
THEOREM CleanExitLosesNothingThm == Spec => []CleanExitLosesNothing
<1>1. IInv => CleanExitLosesNothing
  BY DEF IInv, TypeOK, PhaseInv, CleanExitLosesNothing, Quiet, Running, ConnStates
<1>. QED
  BY <1>1, Invariance, PTL

(* No task escapes app.wg.Wait().                                          *)
THEOREM NoTaskStartsLateThm == Spec => NoTaskStartsLate
<1> DEFINE OnTime == \A t \in Tasks : task[t] = "none" /\ task'[t] = "running"
                       => stopper \in {"signal", "drain"}
<1>1. ASSUME IInv, Next PROVE OnTime
  <2> SUFFICES ASSUME NEW t \in Tasks, task[t] = "none", task'[t] = "running"
               PROVE  stopper \in {"signal", "drain"}
    OBVIOUS
  <2>1. StartTask(t)
    BY <1>1 DEF Next, Accept, Serve, Read, CloseUnread, Respond, StartTask, TaskEnds,
       ListenFails, Signal, Stopper, Drained, DrainTimesOut, TasksOver, Report, Kill, Gone, vars,
       IInv, TypeOK
  <2>2. conn[Starter[t]] = "active" /\ Starter[t] \in Requests /\ Alive
    BY <2>1, TasksAssumption DEF StartTask
  <2>. QED
    BY <1>1, <2>2 DEF IInv, PhaseInv, Quiet, TypeOK, StopperPhases, Alive
<1>2. IInv /\ [Next]_vars => [OnTime]_vars
  BY <1>1
<1>. QED
  BY <1>2, Invariance, PTL DEF Spec, NoTaskStartsLate
=============================================================================
