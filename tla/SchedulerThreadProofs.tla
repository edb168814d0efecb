------------------------- MODULE SchedulerThreadProofs -------------------------
(***************************************************************************)
(* Theorems about SchedulerThread, for any number of saved configurations  *)
(* and restarts of both tasks.  What the invariant says of the threads is  *)
(* said as long as no two restarts have overlapped.                        *)
(***************************************************************************)
EXTENDS SchedulerThread, FiniteSetTheorems, TLAPS

CallerPlaces == {"idle", "server", "load", "validate", "stop"} \cup Stopped
WorkerPlaces == {"none", "check", "plan", "lock", "wait", "locked", "execute", "done"}

\* The types the invariant needs; t and threads may leave Threads, which no run does.
TypeOK ==
    /\ stopRequest \in BOOLEAN
    /\ overlapped \in BOOLEAN
    /\ threads \in Nat
    /\ t \in 0 .. threads
    /\ worker \in [Threads -> WorkerPlaces]
    /\ caller \in [Callers -> CallerPlaces]
    /\ joins \in [Callers -> Nat]

\* At most one of the tasks is between its request to stop and run.
OneCaller == \A c, d \in Callers : caller[c] \in Stopped /\ caller[d] \in Stopped => c = d

\* The only thread that may be alive is the one of the thread object, whom a caller joins,
\* and who is gone before another is made.
OnlyT ==
    /\ \A w \in Threads : worker[w] \notin {"none", "done"} => w = t
    /\ \A w \in Threads : w > threads => worker[w] = "none"
    /\ \A c \in Callers : At(c, "joining") => joins[c] = t
    /\ \A c \in Callers : At(c, "restart") => t = Nobody

\* Who has the mutex, and what the request to stop means.
StopInv ==
    /\ \A w \in Threads : worker[w] \in {"locked", "execute"} => mutex = w
    /\ (\E c \in Callers : caller[c] \in Stopped) =>
          stopRequest /\ \A w \in Threads : worker[w] # "execute"
    /\ (\A c \in Callers : caller[c] \notin Stopped) =>
          /\ stopRequest /\ t \in Threads => t \in refused
          /\ \A w \in Threads : worker[w] = "done" /\ w = t => w \in refused

Alone == TypeOK /\ OneCaller /\ OnlyT /\ StopInv

Inv == TypeOK /\ (~ overlapped => Alone)

\* A device that has just started.
Fresh ==
    /\ stopRequest = FALSE
    /\ overlapped = FALSE
    /\ threads \in {0, 1}
    /\ t = threads
    /\ worker = NewWorker(threads)
    /\ caller = NoCaller
    /\ joins = NoJoins

------------------------------------------------------------------------------
LEMMA ThreadsAreNats == \A w \in Threads : w \in Nat /\ w # Nobody
  BY BoundAssumption DEF Threads, Nobody

LEMMA FreshAlone == Fresh => Inv
<1> SUFFICES ASSUME Fresh PROVE Inv
  OBVIOUS
<1>1. /\ threads \in {0, 1} /\ t = threads
      /\ worker = [w \in Threads |-> IF w <= threads THEN "check" ELSE "none"]
      /\ caller = [c \in Callers |-> "idle"] /\ joins = [c \in Callers |-> Nobody]
  BY DEF Fresh, NewWorker, NoCaller, NoJoins
<1>2. TypeOK
  <2>1. worker \in [Threads -> WorkerPlaces]
    BY <1>1 DEF WorkerPlaces
  <2>2. caller \in [Callers -> CallerPlaces] /\ joins \in [Callers -> Nat]
    BY <1>1 DEF CallerPlaces, Nobody
  <2>3. threads \in Nat /\ t \in 0 .. threads
    BY <1>1
  <2>4. stopRequest \in BOOLEAN /\ overlapped \in BOOLEAN
    BY DEF Fresh
  <2> QED
    BY <2>1, <2>2, <2>3, <2>4 DEF TypeOK
<1>3. \A c \in Callers : caller[c] = "idle"
  BY <1>1
<1>4. \A w \in Threads : worker[w] = IF w <= threads THEN "check" ELSE "none"
  BY <1>1
<1>5. OnlyT
  BY <1>1, <1>3, <1>4, ThreadsAreNats DEF OnlyT, At, Nobody
<1>6. OneCaller /\ StopInv
  BY <1>3, <1>4 DEF Fresh, OneCaller, StopInv, Stopped
<1> QED
  BY <1>2, <1>5, <1>6 DEF Inv, Alone

LEMMA InvInit == Init => Inv
<1>1. Init => Fresh
  BY DEF Init, Fresh, Started
<1> QED
  BY <1>1, FreshAlone

\* Of the types alone, which no restart disturbs.
LEMMA TypeStep == TypeOK /\ [Next]_vars => TypeOK'
<1> SUFFICES ASSUME TypeOK, [Next]_vars PROVE TypeOK'
  OBVIOUS
<1> DEFINE Moves(w) == \E to \in WorkerPlaces : worker' = [worker EXCEPT ![w] = to]
           Goes(c) == \E to \in CallerPlaces : caller' = [caller EXCEPT ![c] = to]
<1>1. ASSUME NEW w \in Threads, Moves(w) PROVE worker' \in [Threads -> WorkerPlaces]
  BY <1>1 DEF TypeOK
<1>2. ASSUME NEW c \in Callers, Goes(c) PROVE caller' \in [Callers -> CallerPlaces]
  BY <1>2 DEF TypeOK
<1>3. ASSUME NEW w \in Threads, Worker(w) PROVE TypeOK'
  <2>1. worker' = worker \/ Moves(w)
    BY <1>3 DEF Worker, CheckStop, PlanRun, RefuseRun, WaitFor, WakeUp, Relock, StartExecute,
         EndIteration, Step, WorkerPlaces
  <2>2. UNCHANGED <<t, threads, caller, joins, overlapped>> /\ stopRequest' \in BOOLEAN
    BY <1>3 DEF Worker, CheckStop, PlanRun, RefuseRun, WaitFor, WakeUp, Relock, StartExecute,
         EndIteration, objectVars, callerVars, TypeOK
  <2> QED
    BY <1>1, <2>1, <2>2 DEF TypeOK
<1>4. ASSUME NEW c \in Callers, Caller(c) PROVE TypeOK'
  <2>1. CASE LoadConfig(c) \/ ValidateConfig(c) \/ JoinNothing(c)
    <3>1. Goes(c) /\ UNCHANGED <<stopRequest, worker, t, threads, joins, overlapped>>
      BY <2>1 DEF LoadConfig, ValidateConfig, JoinNothing, Go, CallerPlaces, Stopped,
           threadVars, objectVars
    <3> QED
      BY <1>2, <3>1 DEF TypeOK
  <2>2. CASE StopThread(c)
    <3>1. /\ Goes(c) /\ UNCHANGED <<worker, t, threads, joins>> /\ stopRequest' = TRUE
          /\ overlapped' \in BOOLEAN
      BY <2>2 DEF StopThread, Requested, Go, CallerPlaces, Stopped, objectVars
    <3> QED
      BY <1>2, <3>1 DEF TypeOK
  <2>3. CASE JoinThread(c)
    <3>1. /\ Goes(c) /\ UNCHANGED <<stopRequest, worker, t, threads, overlapped>>
          /\ joins' = [joins EXCEPT ![c] = t]
      BY <2>3 DEF JoinThread, Go, CallerPlaces, Stopped, threadVars, objectVars
    <3> QED
      BY <1>2, <3>1 DEF TypeOK
  <2>4. CASE Joined(c)
    <3>1. /\ Goes(c) /\ UNCHANGED <<stopRequest, worker, threads, overlapped>>
          /\ joins' = [joins EXCEPT ![c] = 0] /\ t' = 0
      BY <2>4 DEF Joined, Go, CallerPlaces, Stopped, threadVars, Nobody
    <3> QED
      BY <1>2, <3>1 DEF TypeOK
  <2>5. CASE Run(c)
    <3>1. /\ Goes(c) /\ UNCHANGED <<joins, overlapped>> /\ stopRequest' = FALSE
          /\ threads' = threads + 1 /\ t' = threads + 1
          /\ worker' = [worker EXCEPT ![threads + 1] = "check"]
      BY <2>5 DEF Run, Go, CallerPlaces
    <3>2. worker' \in [Threads -> WorkerPlaces]
      BY <3>1 DEF TypeOK, WorkerPlaces
    <3>3. threads' \in Nat /\ t' \in 0 .. threads'
      BY <3>1 DEF TypeOK
    <3> QED
      BY <1>2, <3>1, <3>2, <3>3 DEF TypeOK
  <2>6. CASE Panic(c)
    <3>1. Fresh'
      BY <2>6 DEF Panic, Fresh, Started
    <3>2. Inv'
      BY <3>1, FreshAlone, PTL
    <3> QED
      BY <3>2 DEF Inv
  <2> QED
    BY <1>4, <2>1, <2>2, <2>3, <2>4, <2>5, <2>6 DEF Caller
<1>5. CASE ReconfigureHttp \/ RestartServer \/ RestartSchedule
  <2>1. "main" \in Callers /\ "httpd" \in Callers
    BY DEF Callers
  <2>2. /\ Goes("main") \/ Goes("httpd")
        /\ UNCHANGED <<stopRequest, worker, t, threads, joins, overlapped>>
    BY <1>5 DEF ReconfigureHttp, RestartServer, RestartSchedule, Go, CallerPlaces, threadVars,
         objectVars
  <2>3. caller' \in [Callers -> CallerPlaces]
    BY <1>2, <2>1, <2>2
  <2> QED
    BY <2>2, <2>3 DEF TypeOK
<1>6. CASE (\E new \in Configs : SaveConfig(new)) \/ UNCHANGED vars
  BY <1>6 DEF SaveConfig, vars, threadVars, objectVars, callerVars, TypeOK
<1> QED
  BY <1>3, <1>4, <1>5, <1>6 DEF Next, MainLoop, Callers

\* A step of a thread changes the place of this thread only.
LEMMA WorkerStep ==
    ASSUME Alone, NEW w \in Threads, Worker(w)
    PROVE  Alone'
<1>0. UNCHANGED <<t, threads, caller, joins, overlapped>>
  BY DEF Worker, CheckStop, PlanRun, RefuseRun, WaitFor, WakeUp, Relock, StartExecute,
         EndIteration, objectVars, callerVars
<1>1. OneCaller'
  BY <1>0 DEF Alone, OneCaller
<1> DEFINE Moves(from, to) == /\ worker[w] = from
                              /\ worker' = [worker EXCEPT ![w] = to]
<1>2. ASSUME NEW from \in WorkerPlaces \ {"none", "done"}, NEW to \in WorkerPlaces, Moves(from, to)
      PROVE  /\ worker' \in [Threads -> WorkerPlaces] /\ OnlyT' /\ w = t
             /\ \A v \in Threads : worker'[v] = IF v = w THEN to ELSE worker[v]
  <2>1. \A v \in Threads : worker'[v] = IF v = w THEN to ELSE worker[v]
    BY <1>2 DEF Alone, TypeOK
  <2>2. w = t /\ ~ (w > threads)
    BY <1>2 DEF Alone, OnlyT
  <2>3. OnlyT'
    BY <1>0, <2>1, <2>2 DEF Alone, OnlyT, At
  <2> QED
    BY <1>2, <2>1, <2>2, <2>3 DEF Alone, TypeOK
<1>3. CASE CheckStop(w)
  <2> DEFINE to == IF stopRequest THEN "done" ELSE "plan"
  <2>1. Moves("check", to) /\ UNCHANGED <<stopRequest, mutex, refused>>
    BY <1>3 DEF CheckStop, Step
  <2>2. to \in WorkerPlaces
    BY DEF WorkerPlaces
  <2>3. /\ worker' \in [Threads -> WorkerPlaces] /\ OnlyT' /\ w = t
        /\ \A v \in Threads : worker'[v] = IF v = w THEN to ELSE worker[v]
    BY <1>2, <2>1, <2>2 DEF WorkerPlaces
  <2> QED
    BY <1>0, <1>1, <2>1, <2>3 DEF Alone, TypeOK, StopInv
<1>4. CASE RefuseRun(w)
  <2>1. Moves("plan", "check") /\ stopRequest' = TRUE /\ refused' = refused \cup {w}
        /\ UNCHANGED mutex
    BY <1>4 DEF RefuseRun, Step
  <2>2. /\ worker' \in [Threads -> WorkerPlaces] /\ OnlyT' /\ w = t
        /\ \A v \in Threads : worker'[v] = IF v = w THEN "check" ELSE worker[v]
    BY <1>2, <2>1 DEF WorkerPlaces
  <2> QED
    BY <1>0, <1>1, <2>1, <2>2 DEF Alone, TypeOK, StopInv
<1>5. CASE PlanRun(w) \/ WaitFor(w)
  <2>1. PICK from \in {"plan", "lock"}, to \in {"lock", "wait"} :
           Moves(from, to) /\ UNCHANGED <<stopRequest, mutex, refused>>
    BY <1>5 DEF PlanRun, WaitFor, Step
  <2>2. /\ worker' \in [Threads -> WorkerPlaces] /\ OnlyT'
        /\ \A v \in Threads : worker'[v] = IF v = w THEN to ELSE worker[v]
    BY <1>2, <2>1 DEF WorkerPlaces
  <2> QED
    BY <1>0, <1>1, <2>1, <2>2 DEF Alone, TypeOK, StopInv
<1>6. CASE WakeUp(w)
  BY <1>0, <1>1, <1>6 DEF WakeUp, Alone, TypeOK, OnlyT, At, StopInv
<1>7. CASE Relock(w)
  <2>1. Moves("wait", "locked") /\ mutex = Nobody /\ mutex' = w
        /\ UNCHANGED <<stopRequest, refused>>
    BY <1>7 DEF Relock, Step
  <2>2. /\ worker' \in [Threads -> WorkerPlaces] /\ OnlyT'
        /\ \A v \in Threads : worker'[v] = IF v = w THEN "locked" ELSE worker[v]
    BY <1>2, <2>1 DEF WorkerPlaces
  <2> QED
    BY <1>0, <1>1, <2>1, <2>2, ThreadsAreNats DEF Alone, TypeOK, StopInv
<1>8. CASE StartExecute(w)
  <2>1. Moves("locked", "execute") /\ ~ stopRequest /\ UNCHANGED <<stopRequest, mutex, refused>>
    BY <1>8 DEF StartExecute, MayExecute, Step
  <2>2. /\ worker' \in [Threads -> WorkerPlaces] /\ OnlyT'
        /\ \A v \in Threads : worker'[v] = IF v = w THEN "execute" ELSE worker[v]
    BY <1>2, <2>1 DEF WorkerPlaces
  <2> QED
    BY <1>0, <1>1, <2>1, <2>2 DEF Alone, TypeOK, StopInv
<1>9. CASE EndIteration(w)
  <2>1. PICK from \in {"execute", "locked"} :
           Moves(from, "check") /\ mutex' = Nobody /\ UNCHANGED <<stopRequest, refused>>
    BY <1>9 DEF EndIteration, Step
  <2>2. /\ worker' \in [Threads -> WorkerPlaces] /\ OnlyT'
        /\ \A v \in Threads : worker'[v] = IF v = w THEN "check" ELSE worker[v]
    BY <1>2, <2>1 DEF WorkerPlaces
  <2>3. mutex = w
    BY <2>1 DEF Alone, StopInv
  <2>4. \A v \in Threads : worker'[v] \notin {"locked", "execute"}
    BY <2>2, <2>3 DEF Alone, StopInv
  <2> QED
    BY <1>0, <1>1, <2>1, <2>2, <2>4 DEF Alone, TypeOK, StopInv
<1> QED
  BY <1>3, <1>4, <1>5, <1>6, <1>7, <1>8, <1>9 DEF Worker

\* Every step but the request to stop moves a caller that is already between it and run, or
\* one that is nowhere near; in both cases it stays the only one.
LEMMA CallerStep ==
    ASSUME Alone, NEW c \in Callers, Caller(c), ~ overlapped'
    PROVE  Alone'
<1> DEFINE Goes(from, to) == /\ caller[c] = from
                             /\ caller' = [caller EXCEPT ![c] = to]
<1>0. TypeOK'
  BY TypeStep DEF Alone, Next, MainLoop, Callers
<1>1. ASSUME NEW from, NEW to, Goes(from, to)
      PROVE  \A d \in Callers : caller'[d] = IF d = c THEN to ELSE caller[d]
  BY <1>1 DEF Alone, TypeOK
<1>2. ASSUME NEW from \in Stopped, NEW to, Goes(from, to)
      PROVE  OneCaller' /\ \A d \in Callers : d # c => caller[d] \notin Stopped
  <2>1. \A d \in Callers : d # c => caller[d] \notin Stopped
    BY <1>2 DEF Alone, OneCaller
  <2> QED
    BY <1>1, <1>2, <2>1 DEF OneCaller
<1>3. CASE LoadConfig(c) \/ ValidateConfig(c)
  <2>1. PICK from \in {"load", "validate"}, to \in {"validate", "stop", "idle"} :
           Goes(from, to) /\ UNCHANGED <<stopRequest, mutex, worker, refused, t, threads, joins>>
    BY <1>3 DEF LoadConfig, ValidateConfig, Go, At, threadVars, objectVars
  <2>2. \A d \in Callers : caller'[d] = IF d = c THEN to ELSE caller[d]
    BY <1>1, <2>1
  <2>3. OneCaller'
    BY <2>2 DEF Alone, OneCaller, Stopped
  <2>4. OnlyT'
    BY <2>1, <2>2 DEF Alone, OnlyT, At
  <2>5. StopInv'
    BY <2>1, <2>2 DEF Alone, StopInv, Stopped
  <2> QED
    BY <1>0, <2>3, <2>4, <2>5 DEF Alone
<1>4. CASE StopThread(c)
  <2>1. /\ Goes("stop", "join") /\ mutex = Nobody /\ stopRequest' = TRUE
        /\ UNCHANGED <<mutex, worker, refused, t, threads, joins>>
        /\ \A d \in Callers : caller[d] \notin Stopped
    BY <1>4 DEF StopThread, Requested, Go, At, objectVars
  <2>2. \A d \in Callers : caller'[d] = IF d = c THEN "join" ELSE caller[d]
    BY <1>1, <2>1
  <2>3. OneCaller'
    BY <2>1, <2>2 DEF OneCaller
  <2>4. \A w \in Threads : worker[w] \notin {"locked", "execute"}
    BY <2>1, ThreadsAreNats DEF Alone, StopInv
  <2>5. OnlyT'
    BY <2>1, <2>2 DEF Alone, OnlyT, At
  <2>6. StopInv'
    BY <2>1, <2>2, <2>4 DEF StopInv, Stopped
  <2> QED
    BY <1>0, <2>3, <2>5, <2>6 DEF Alone
<1>5. CASE JoinNothing(c) \/ JoinThread(c)
  <2>1. PICK to \in {"restart", "joining"} :
        /\ Goes("join", to)
        /\ to = "restart" => t = Nobody /\ joins' = joins
        /\ to = "joining" => joins' = [joins EXCEPT ![c] = t]
        /\ UNCHANGED <<stopRequest, mutex, worker, refused, t, threads>>
    BY <1>5 DEF JoinNothing, JoinThread, Go, At, threadVars, objectVars
  <2>2. \A d \in Callers : caller'[d] = IF d = c THEN to ELSE caller[d]
    BY <1>1, <2>1
  <2>3. OneCaller' /\ \A d \in Callers : d # c => caller[d] \notin Stopped
    BY <1>2, <2>1 DEF Stopped
  <2>4. OnlyT'
    BY <2>1, <2>2, <2>3 DEF Alone, OnlyT, TypeOK, At, Stopped
  <2>5. StopInv'
    BY <2>1, <2>2 DEF Alone, StopInv, Stopped
  <2> QED
    BY <1>0, <2>3, <2>4, <2>5 DEF Alone
<1>6. CASE Joined(c)
  <2>1. /\ Goes("joining", "restart") /\ worker[joins[c]] = "done" /\ t' = Nobody
        /\ joins' = [joins EXCEPT ![c] = Nobody]
        /\ UNCHANGED <<stopRequest, mutex, worker, refused, threads>>
    BY <1>6 DEF Joined, Ended, Go, At, threadVars
  <2>2. \A d \in Callers : caller'[d] = IF d = c THEN "restart" ELSE caller[d]
    BY <1>1, <2>1
  <2>3. OneCaller' /\ \A d \in Callers : d # c => caller[d] \notin Stopped
    BY <1>2, <2>1 DEF Stopped
  <2>4. joins[c] = t
    BY <2>1 DEF Alone, OnlyT, At
  <2>5. \A w \in Threads : worker[w] \in {"none", "done"}
    BY <2>1, <2>4 DEF Alone, OnlyT
  <2>6. OnlyT'
    BY <2>1, <2>2, <2>3, <2>5 DEF Alone, OnlyT, At, Stopped
  <2>7. StopInv'
    BY <2>1, <2>2 DEF Alone, StopInv, Stopped
  <2> QED
    BY <1>0, <2>3, <2>6, <2>7 DEF Alone
<1>7. CASE Panic(c)
  <2>1. Fresh'
    BY <1>7 DEF Panic, Fresh, Started
  <2>2. Inv'
    BY <2>1, FreshAlone, PTL
  <2> QED
    BY <2>2 DEF Inv
<1>8. CASE Run(c)
  <2>1. /\ Goes("restart", "idle") /\ stopRequest' = FALSE /\ threads' = threads + 1
        /\ t' = threads + 1 /\ worker' = [worker EXCEPT ![threads + 1] = "check"]
        /\ UNCHANGED <<mutex, refused, joins>>
    BY <1>8 DEF Run, Go, At
  <2>2. \A d \in Callers : caller'[d] = IF d = c THEN "idle" ELSE caller[d]
    BY <1>1, <2>1
  <2>3. OneCaller' /\ \A d \in Callers : d # c => caller[d] \notin Stopped
    BY <1>2, <2>1 DEF Stopped
  <2>4. t = Nobody
    BY <2>1 DEF Alone, OnlyT, At
  <2>5. \A w \in Threads : worker'[w] = IF w = threads + 1 THEN "check" ELSE worker[w]
    BY <2>1 DEF Alone, TypeOK
  <2>6. \A w \in Threads : worker[w] \in {"none", "done"}
    BY <2>4, ThreadsAreNats DEF Alone, OnlyT
  <2>7. OnlyT'
    BY <2>1, <2>2, <2>3, <2>5, <2>6, ThreadsAreNats DEF Alone, OnlyT, TypeOK, At, Stopped
  <2>8. StopInv'
    BY <2>1, <2>2, <2>3, <2>5, <2>6, ThreadsAreNats DEF Alone, StopInv, Stopped
  <2> QED
    BY <1>0, <2>3, <2>7, <2>8 DEF Alone
<1> QED
  BY <1>3, <1>4, <1>5, <1>6, <1>7, <1>8 DEF Caller

\* overlapped goes back to FALSE only when the device starts again.
LEMMA InvInductive == Inv /\ [Next]_vars => Inv'
<1> SUFFICES ASSUME Inv, [Next]_vars, ~ overlapped' PROVE Alone'
  BY TypeStep DEF Inv
<1>0. TypeOK'
  BY TypeStep DEF Inv
<1>1. ASSUME NEW w \in Threads, Worker(w) PROVE Alone'
  <2>1. ~ overlapped
    BY <1>1 DEF Worker, CheckStop, PlanRun, RefuseRun, WaitFor, WakeUp, Relock, StartExecute,
         EndIteration, callerVars
  <2> QED
    BY <1>1, <2>1, WorkerStep DEF Inv
<1>2. ASSUME NEW c \in Callers, Caller(c) PROVE Alone'
  <2>1. CASE Panic(c)
    <3>1. Fresh'
      BY <2>1 DEF Panic, Fresh, Started
    <3>2. Inv'
      BY <3>1, FreshAlone, PTL
    <3> QED
      BY <3>2 DEF Inv
  <2>2. CASE ~ Panic(c)
    <3>1. ~ overlapped
      BY <1>2, <2>2 DEF Caller, LoadConfig, ValidateConfig, StopThread, JoinNothing,
           JoinThread, Joined, Run
    <3> QED
      BY <1>2, <3>1, CallerStep DEF Inv
  <2> QED
    BY <2>1, <2>2
<1>3. CASE ReconfigureHttp \/ RestartServer \/ RestartSchedule
  <2>1. PICK c \in Callers, from \in {"idle", "server"}, to \in {"server", "load"} :
           /\ caller[c] = from /\ caller' = [caller EXCEPT ![c] = to]
           /\ UNCHANGED <<stopRequest, mutex, worker, refused, t, threads, joins, overlapped>>
    <3>1. "main" \in Callers /\ "httpd" \in Callers
      BY DEF Callers
    <3> QED
      BY <1>3, <3>1 DEF ReconfigureHttp, RestartServer, RestartSchedule, Go, At, threadVars,
           objectVars
  <2>2. Alone
    BY <2>1 DEF Inv
  <2>3. \A d \in Callers : caller'[d] = IF d = c THEN to ELSE caller[d]
    BY <2>1, <2>2 DEF Alone, TypeOK
  <2>4. OneCaller'
    BY <2>2, <2>3 DEF Alone, OneCaller, Stopped
  <2>5. OnlyT'
    BY <2>1, <2>2, <2>3 DEF Alone, OnlyT, At
  <2>6. StopInv'
    BY <2>1, <2>2, <2>3 DEF Alone, StopInv, Stopped
  <2> QED
    BY <1>0, <2>4, <2>5, <2>6 DEF Alone
<1>4. CASE (\E new \in Configs : SaveConfig(new)) \/ UNCHANGED vars
  BY <1>0, <1>4 DEF SaveConfig, vars, threadVars, objectVars, callerVars, Inv, Alone, OneCaller,
     OnlyT, StopInv, At
<1> QED
  BY <1>1, <1>2, <1>3, <1>4 DEF Next, MainLoop, Callers

------------------------------------------------------------------------------
\* When stopThread has returned nothing is executed until the next run, whatever the
\* thread was doing: as long as no two restarts have overlapped since the device started.
THEOREM NoneRunsStopped == Spec => []NoRunOnceStopped
<1>1. Inv => NoRunOnceStopped
  BY DEF Inv, Alone, StopInv, NoRunOnceStopped
<1> QED
  BY <1>1, InvInit, InvInductive, PTL DEF Spec

\* However often the scheduler is restarted, by either task, the old thread is gone before
\* the new one is made: as long as no two restarts have overlapped.
THEOREM OnlyOneThread == Spec => []OneThread
<1>1. ASSUME Inv, ~ overlapped PROVE Cardinality(Alive) <= 1
  <2>1. Alive \in SUBSET {t}
    BY <1>1 DEF Inv, Alone, OnlyT, Alive
  <2>2. IsFiniteSet({t}) /\ Cardinality({t}) = 1
    BY FS_Singleton
  <2>3. Cardinality(Alive) <= Cardinality({t})
    BY <2>1, <2>2, FS_Subset
  <2> QED
    BY <2>2, <2>3
<1>2. Inv => OneThread
  BY <1>1 DEF OneThread
<1> QED
  BY <1>2, InvInit, InvInductive, PTL DEF Spec

\* The request that stopped one thread never ends its successor: as long as no two restarts
\* have overlapped.
THEOREM EndsByItself == Spec => []EndsOnlyByItself
<1>1. Inv => EndsOnlyByItself
  BY DEF Inv, Alone, StopInv, EndsOnlyByItself
<1> QED
  BY <1>1, InvInit, InvInductive, PTL DEF Spec

=============================================================================
