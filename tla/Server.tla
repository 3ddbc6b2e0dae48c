------------------------------- MODULE Server -------------------------------
(***************************************************************************)
(* One process of the API from its start to its exit: app.server()         *)
(* (cmd/api/server.go), the background tasks of app.background()           *)
(* (cmd/api/helpers.go) and the part of net/http it relies on.             *)
(*                                                                         *)
(* A goroutine waits for SIGINT or SIGTERM, calls srv.Shutdown with a 20 s *)
(* context, then app.wg.Wait(), then srv.Shutdown again, and reports to    *)
(* the main goroutine over an unbuffered channel; main is blocked on that  *)
(* channel from the moment Shutdown has closed the listener.  Once main    *)
(* has left app.server() the process is gone, whatever was still running.  *)
(***************************************************************************)
EXTENDS Integers, FiniteSets

CONSTANTS Requests,  \* the requests clients may send, each on a connection
          Tasks,     \* the background tasks they may start
          Starter    \* the request whose handler starts each task

ASSUME TasksAssumption == IsFiniteSet(Tasks) /\ Starter \in [Tasks -> Requests]

VARIABLES
  open,     \* the listener accepts connections
  conn,     \* http.ConnState of the connection of each request
  task,     \* what has become of each background task
  wg,       \* the counter of app.wg
  stopper,  \* where the shutdown goroutine stands
  main      \* where app.server() stands

vars == <<open, conn, task, wg, stopper, main>>

ConnStates    == {"none", "new", "active", "answered", "closed"}
TaskStates    == {"none", "running", "ended"}
StopperPhases == {"signal", "drain", "tasks", "again", "reported"}
MainPhases    == {"serving", "waiting", "stopped", "failed", "killed"}

TypeOK ==
  /\ open \in BOOLEAN
  /\ conn \in [Requests -> ConnStates]
  /\ task \in [Tasks -> TaskStates]
  /\ wg \in Nat
  /\ stopper \in StopperPhases
  /\ main \in MainPhases

Init ==
  /\ open = TRUE
  /\ conn = [r \in Requests |-> "none"]
  /\ task = [t \in Tasks |-> "none"]
  /\ wg = 0
  /\ stopper = "signal"
  /\ main = "serving"

Alive == main \in {"serving", "waiting"}

TasksOf(r) == {t \in Tasks : Starter[t] = r}

-----------------------------------------------------------------------------
(* Connections and handlers.                                               *)

Accept(r) ==
  /\ Alive /\ open
  /\ conn[r] = "none"
  /\ conn' = [conn EXCEPT ![r] = "new"]
  /\ UNCHANGED <<open, task, wg, stopper, main>>

(* The request arrives and its handler runs; a connection accepted before  *)
(* the shutdown may still get its request during it.                       *)
Read(r) ==
  /\ Alive
  /\ conn[r] = "new"
  /\ conn' = [conn EXCEPT ![r] = "active"]
  /\ UNCHANGED <<open, task, wg, stopper, main>>

(* No request within the ReadTimeout, or within 5 s of a Shutdown.         *)
CloseUnread(r) ==
  /\ Alive
  /\ conn[r] = "new"
  /\ conn' = [conn EXCEPT ![r] = "closed"]
  /\ UNCHANGED <<open, task, wg, stopper, main>>

(* app.background: the counter is raised before the goroutine is started.  *)
Counted(n) == n + 1

StartTask(t) ==
  /\ Alive
  /\ conn[Starter[t]] = "active"
  /\ task[t] = "none"
  /\ task' = [task EXCEPT ![t] = "running"]
  /\ wg' = Counted(wg)
  /\ UNCHANGED <<open, conn, stopper, main>>

(* A handler answers after it has started all its tasks, or, when it has   *)
(* met an error or recoverPanic speaks for it, having started none.        *)
Respond(r) ==
  /\ Alive
  /\ conn[r] = "active"
  /\ \/ \A t \in TasksOf(r) : task[t] # "none"
     \/ \A t \in TasksOf(r) : task[t] = "none"
  /\ conn' = [conn EXCEPT ![r] = "answered"]
  /\ UNCHANGED <<open, task, wg, stopper, main>>

(* The function returns or panics; Done is deferred and runs either way.   *)
DoneOnReturn(panics) == IF panics THEN wg ELSE wg - 1
DoneDeferred(panics) == wg - 1

TaskEnds(t, panics) ==
  /\ Alive
  /\ task[t] = "running"
  /\ task' = [task EXCEPT ![t] = "ended"]
  /\ wg' = DoneDeferred(panics)
  /\ UNCHANGED <<open, conn, stopper, main>>

-----------------------------------------------------------------------------
(* ListenAndServe returns another error (no port, a broken listener): the  *)
(* process ends at once.                                                   *)
ListenFails ==
  /\ main = "serving"
  /\ open' = FALSE
  /\ main' = "failed"
  /\ UNCHANGED <<conn, task, wg, stopper>>

(* The shutdown goroutine.                                                 *)

(* A signal: Shutdown closes the listener, ListenAndServe returns          *)
(* ErrServerClosed and main waits for the report.                          *)
Signal ==
  /\ main = "serving"
  /\ stopper = "signal"
  /\ open' = FALSE
  /\ stopper' = "drain"
  /\ main' = "waiting"
  /\ UNCHANGED <<conn, task, wg>>

(* What net/http waits for: connections idle or closed.                    *)
Quiet == \A r \in Requests : conn[r] \notin {"new", "active"}

(* The goroutine goes on to the tasks when Shutdown has returned nil.      *)
ShutdownNotAwaited == TRUE
ShutdownReturned == Quiet

Drained ==
  /\ main = "waiting"
  /\ stopper = "drain"
  /\ ShutdownReturned
  /\ stopper' = "tasks"
  /\ UNCHANGED <<open, conn, task, wg, main>>

(* Shutdown returns the context's error after 20 s (it polls, so perhaps   *)
(* just after the last request has ended): the error is reported, and main *)
(* fails without waiting for requests or tasks.                            *)
DrainTimesOut ==
  /\ main = "waiting"
  /\ stopper = "drain"
  /\ stopper' = "reported"
  /\ main' = "failed"
  /\ UNCHANGED <<open, conn, task, wg>>

(* app.wg.Wait() returns.                                                  *)
WaitForNobody == TRUE
WaitOver == wg = 0

TasksOver ==
  /\ main = "waiting"
  /\ stopper = "tasks"
  /\ WaitOver
  /\ stopper' = "again"
  /\ UNCHANGED <<open, conn, task, wg, main>>

(* The second Shutdown looks at the connections before it looks at its     *)
(* context, which may have expired meanwhile.                              *)
Report ==
  /\ main = "waiting"
  /\ stopper = "again"
  /\ stopper' = "reported"
  /\ main' = IF Quiet THEN "stopped" ELSE "failed"
  /\ UNCHANGED <<open, conn, task, wg>>

(* SIGKILL, or the machine fails.                                          *)
Kill ==
  /\ Alive
  /\ main' = "killed"
  /\ UNCHANGED <<open, conn, task, wg, stopper>>

Gone == ~ Alive /\ UNCHANGED vars

Stopper == Drained \/ DrainTimesOut \/ TasksOver \/ Report

Serve(r) == Read(r) \/ CloseUnread(r) \/ Respond(r)

Next ==
  \/ \E r \in Requests : Accept(r) \/ Serve(r)
  \/ \E t \in Tasks : StartTask(t) \/ \E panics \in BOOLEAN : TaskEnds(t, panics)
  \/ ListenFails \/ Signal \/ Stopper \/ Kill \/ Gone

Spec == Init /\ [][Next]_vars

(* The shutdown goroutine runs, and its 20 s pass; a task ends since every *)
(* attempt of the mailer and of the SMS client has a timeout.  No handler  *)
(* has to return (the sign-in's calls to the identity provider have no     *)
(* timeout), no connection has to be read and nobody has to send a signal. *)
FairSpec ==
  /\ Spec
  /\ WF_vars(Stopper)
  /\ \A t \in Tasks : WF_vars(\E panics \in BOOLEAN : TaskEnds(t, panics))

-----------------------------------------------------------------------------
(* When app.server() returns nil, every request that was read has been     *)
(* answered and every background task that was started has ended.          *)
CleanExitLosesNothing ==
  main = "stopped" =>
    /\ \A r \in Requests : conn[r] \in {"none", "answered", "closed"}
    /\ \A t \in Tasks : task[t] # "running"

(* No task is started once app.wg.Wait() may be running: it would be       *)
(* missed by the wait (and break the contract of sync.WaitGroup).          *)
NoTaskStartsLate ==
  [][\A t \in Tasks : task[t] = "none" /\ task'[t] = "running"
       => stopper \in {"signal", "drain"}]_vars

(* app.wg counts the running tasks, also after panics.                     *)
CounterIsRunning == wg = Cardinality({t \in Tasks : task[t] = "running"})

(* A signal is followed by the exit, whatever handlers and clients do.     *)
SignalEndsServer == (main = "waiting") ~> ~ Alive
=============================================================================
