---------------------------- MODULE SchedulerThread ----------------------------
(***************************************************************************)
(* The life of the scheduler thread: Scheduler::run, executeLocal,         *)
(* stopThread and joinThread of lib/scheduler/scheduler.cpp, and the two   *)
(* tasks that restart it.  The main loop does after a configuration was    *)
(* saved; the task of the web server does when the page asks for           *)
(* api/restartSchedule.  Neither knows of the other, and both may restart  *)
(* it at once.                                                             *)
(*                                                                         *)
(* The scheduler has no configuration of its own: its members are          *)
(* references into main.cpp's cfg.  When a run is due is left open here    *)
(* (see ScheduleLoop), what a run does too (see PCScheduler).  A saved     *)
(* configuration is one whose broker answered within a second.             *)
(***************************************************************************)
EXTENDS Integers, FiniteSets

CONSTANTS
    Configs,        \* configurations
    ValidConfigs,   \* those checkConfiguration accepts
    BootConfigs,    \* those the device may boot with
    EmptyConfig,    \* what a flash that cannot be read gives
    MaxSaves,       \* bound: configurations saved while it runs
    MaxRestarts     \* bound: requests to restart the schedule

ASSUME ConfigAssumption ==
    ValidConfigs \subseteq Configs /\ BootConfigs \subseteq Configs /\ EmptyConfig \notin Configs
ASSUME BoundAssumption == MaxSaves \in Nat /\ MaxRestarts \in Nat

Callers == {"main", "httpd"}
Threads == 1 .. 1 + MaxSaves + MaxRestarts
Nobody == 0

VARIABLES
    saved,              \* the configuration in the flash
    reconfigureRequest, \* it was saved and the main loop has not seen it yet
    cfg,                \* main.cpp's configuration, the scheduler's as well
    applied,            \* the configuration maxWaitTime was computed for
    stopRequest,
    mutex,              \* the thread that holds cv_m
    waiting,            \* the threads that wait for cv
    t,                  \* the thread object run made, Nobody for NULL
    threads,            \* how many run has made
    worker,             \* where a thread is in executeLocal
    caller,             \* where a caller is in reconfigurePcScheduler
    joins,              \* the thread a caller waits for
    refused,            \* history: threads that stopped because of their schedule
    overlapped,         \* history: a task made its request to stop between another's and
                        \* the run that follows it
    saves, restarts     \* how many there were

threadVars == <<stopRequest, mutex, waiting, worker, refused>>
objectVars == <<t, threads>>
callerVars == <<caller, joins, overlapped>>
configVars == <<saved, reconfigureRequest, cfg, applied, saves, restarts>>
vars == <<threadVars, objectVars, callerVars, configVars>>

\* getConfig(getJson()): an error while the flash is read is not told to the caller.
NotReloaded == cfg                             \* mutant: what reconfigureHttp loaded
Reloaded == saved
Loaded == {Reloaded, EmptyConfig}

\* app_main starts the scheduler when its configuration is complete.
Started(config) == IF config \in ValidConfigs THEN 1 ELSE 0
NewWorker(n) == [w \in Threads |-> IF w <= n THEN "check" ELSE "none"]
NoCaller == [c \in Callers |-> "idle"]
NoJoins == [c \in Callers |-> Nobody]

Init ==
    /\ saved \in BootConfigs
    /\ cfg \in {saved, EmptyConfig}
    /\ applied = cfg
    /\ reconfigureRequest = FALSE
    /\ stopRequest = FALSE
    /\ mutex = Nobody
    /\ waiting = {}
    /\ threads = Started(cfg)
    /\ t = threads
    /\ worker = NewWorker(threads)
    /\ caller = NoCaller
    /\ joins = NoJoins
    /\ refused = {}
    /\ overlapped = FALSE
    /\ saves = 0
    /\ restarts = 0
-----------------------------------------------------------------------------
(* The thread: executeLocal                                                 *)

Step(w, from, to) == worker[w] = from /\ worker' = [worker EXCEPT ![w] = to]

\* The loop reads stopRequest without the mutex.
CheckStop(w) ==
    /\ Step(w, "check", IF stopRequest THEN "done" ELSE "plan")
    /\ UNCHANGED <<stopRequest, mutex, waiting, refused, objectVars, callerVars, configVars>>

PlanRun(w) ==
    /\ Step(w, "plan", "lock")
    /\ UNCHANGED <<stopRequest, mutex, waiting, refused, objectVars, callerVars, configVars>>

\* The schedule gave no waiting time: the thread ends itself.
RefuseRun(w) ==
    /\ Step(w, "plan", "check")
    /\ stopRequest' = TRUE
    /\ refused' = refused \cup {w}
    /\ UNCHANGED <<mutex, waiting, objectVars, callerVars, configVars>>

\* wait_for gives the mutex back while it waits.
WaitFor(w) ==
    /\ mutex = Nobody
    /\ Step(w, "lock", "wait")
    /\ waiting' = waiting \cup {w}
    /\ UNCHANGED <<stopRequest, mutex, refused, objectVars, callerVars, configVars>>

\* The time is over, or the wait ends for no reason.
WakeUp(w) ==
    /\ w \in waiting
    /\ waiting' = waiting \ {w}
    /\ UNCHANGED <<stopRequest, mutex, worker, refused, objectVars, callerVars, configVars>>

Relock(w) ==
    /\ w \notin waiting
    /\ mutex = Nobody
    /\ mutex' = w
    /\ Step(w, "wait", "locked")
    /\ UNCHANGED <<stopRequest, waiting, refused, objectVars, callerVars, configVars>>

\* Under the mutex, after the wait: is there a request to stop?
LooksNot == TRUE                               \* mutant: it runs anyway
MayExecute == ~ stopRequest

StartExecute(w) ==
    /\ MayExecute
    /\ Step(w, "locked", "execute")
    /\ UNCHANGED <<stopRequest, mutex, waiting, refused, objectVars, callerVars, configVars>>

\* execute is over, or was not begun; the mutex goes.
EndIteration(w) ==
    /\ \/ Step(w, "execute", "check")
       \/ ~ MayExecute /\ Step(w, "locked", "check")
    /\ mutex' = Nobody
    /\ UNCHANGED <<stopRequest, waiting, refused, objectVars, callerVars, configVars>>

Worker(w) ==
    \/ CheckStop(w) \/ PlanRun(w) \/ RefuseRun(w) \/ WaitFor(w)
    \/ WakeUp(w) \/ Relock(w) \/ StartExecute(w) \/ EndIteration(w)
-----------------------------------------------------------------------------
(* The web server and the main loop                                         *)

At(c, place) == caller[c] = place
Go(c, from, to) == At(c, from) /\ caller' = [caller EXCEPT ![c] = to]

\* startValidationMqttClient: a posted configuration was stored within its second.
SaveConfig(new) ==
    /\ At("httpd", "idle")
    /\ saves < MaxSaves
    /\ saves' = saves + 1
    /\ saved' = new
    /\ reconfigureRequest' = TRUE
    /\ UNCHANGED <<cfg, applied, restarts, threadVars, objectVars, callerVars>>

\* The main loop, once a second: reconfigureHttp, which loads the configuration, ...
ReconfigureHttp ==
    /\ reconfigureRequest
    /\ Go("main", "idle", "server")
    /\ cfg' \in {saved, EmptyConfig}
    /\ UNCHANGED <<saved, reconfigureRequest, applied, saves, restarts, joins, overlapped,
                   threadVars, objectVars>>

\* ... stops the web server, which ends the request it handles, and starts it again.
RestartServer ==
    /\ At("httpd", "idle")
    /\ Go("main", "server", "load")
    /\ reconfigureRequest' = FALSE
    /\ UNCHANGED <<saved, cfg, applied, saves, restarts, joins, overlapped, threadVars,
                   objectVars>>

\* The web server's task: api/restartSchedule.  Nothing keeps it out while the main loop,
\* which has just started the server again, is still restarting the scheduler.
RestartSchedule ==
    /\ restarts < MaxRestarts
    /\ restarts' = restarts + 1
    /\ Go("httpd", "idle", "load")
    /\ UNCHANGED <<saved, reconfigureRequest, cfg, applied, saves, joins, overlapped,
                   threadVars, objectVars>>

(* reconfigurePcScheduler, Scheduler::setConfig                              *)

LoadConfig(c) ==
    /\ Go(c, "load", "validate")
    /\ cfg' \in Loaded
    /\ UNCHANGED <<saved, reconfigureRequest, applied, saves, restarts, joins, overlapped,
                   threadVars, objectVars>>

ValidateConfig(c) ==
    /\ Go(c, "validate", IF cfg \in ValidConfigs THEN "stop" ELSE "idle")
    /\ UNCHANGED <<joins, overlapped, threadVars, objectVars, configVars>>

\* From stopThread to run.
Stopped == {"join", "joining", "restart"}

\* stopThread: under the mutex, the request and a notify_one.
NoRequest == stopRequest                       \* mutant: only the notification
Requested == TRUE

StopThread(c) ==
    /\ mutex = Nobody
    /\ Go(c, "stop", "join")
    /\ stopRequest' = Requested
    /\ \/ waiting = {} /\ UNCHANGED waiting
       \/ \E w \in waiting : waiting' = waiting \ {w}
    /\ overlapped' = (overlapped \/ \E d \in Callers : caller[d] \in Stopped)
    /\ UNCHANGED <<mutex, worker, refused, joins, objectVars, configVars>>

\* joinThread: nothing to do without a thread; else wait for it, then forget it.
JoinNothing(c) ==
    /\ t = Nobody
    /\ Go(c, "join", "restart")
    /\ UNCHANGED <<joins, overlapped, threadVars, objectVars, configVars>>

JoinThread(c) ==
    /\ t # Nobody
    /\ joins' = [joins EXCEPT ![c] = t]
    /\ Go(c, "join", "joining")
    /\ UNCHANGED <<overlapped, threadVars, objectVars, configVars>>

NoJoin(w) == TRUE                              \* mutant: it does not wait
Ended(w) == worker[w] = "done"

Joined(c) ==
    /\ Go(c, "joining", "restart")
    /\ Ended(joins[c])
    /\ t \in {joins[c], Nobody}
    /\ joins' = [joins EXCEPT ![c] = Nobody]
    /\ t' = Nobody
    /\ UNCHANGED <<threads, overlapped, threadVars, configVars>>

\* A thread that two tasks join (undefined: it may also be an error nobody catches), or a
\* thread object that is deleted while its thread, which the other task has run, is not
\* joined: the device starts again.
Fatal(c) ==
    \/ At(c, "join") /\ \E d \in Callers : At(d, "joining") /\ joins[d] = t
    \/ At(c, "joining") /\ Ended(joins[c]) /\ t \notin {joins[c], Nobody}

Panic(c) ==
    /\ Fatal(c)
    /\ cfg' \in {saved, EmptyConfig}
    /\ applied' = cfg'
    /\ reconfigureRequest' = FALSE
    /\ stopRequest' = FALSE
    /\ mutex' = Nobody
    /\ waiting' = {}
    /\ threads' = Started(cfg')
    /\ t' = threads'
    /\ worker' = NewWorker(threads')
    /\ caller' = NoCaller
    /\ joins' = NoJoins
    /\ refused' = {}
    /\ overlapped' = FALSE
    /\ UNCHANGED <<saved, saves, restarts>>

\* maxWaitTime for the new schedule, then run.
Run(c) ==
    /\ Go(c, "restart", "idle")
    /\ applied' = cfg
    /\ stopRequest' = FALSE
    /\ threads' = threads + 1
    /\ t' = threads'
    /\ worker' = [worker EXCEPT ![threads'] = "check"]
    /\ UNCHANGED <<mutex, waiting, refused, joins, overlapped, saved, reconfigureRequest, cfg,
                   saves, restarts>>

Caller(c) ==
    \/ LoadConfig(c) \/ ValidateConfig(c) \/ StopThread(c)
    \/ JoinNothing(c) \/ JoinThread(c) \/ Joined(c) \/ Panic(c) \/ Run(c)
-----------------------------------------------------------------------------
MainLoop == ReconfigureHttp \/ RestartServer \/ Caller("main")

Next ==
    \/ \E w \in Threads : Worker(w)
    \/ \E new \in Configs : SaveConfig(new)
    \/ RestartSchedule
    \/ MainLoop
    \/ Caller("httpd")

\* The tasks are scheduled, the waits of executeLocal end, and a lock that is free again
\* and again is got in the end; nothing else a task or a thread does can be taken from it.
Fairness ==
    /\ \A w \in Threads : SF_vars(Worker(w))
    /\ \A c \in Callers : SF_vars(Caller(c))
    /\ WF_vars(ReconfigureHttp \/ RestartServer)

Spec == Init /\ [][Next]_vars
FairSpec == Spec /\ Fairness
-----------------------------------------------------------------------------
Alive == {w \in Threads : worker[w] \notin {"none", "done"}}

(* The two tasks restart the scheduler without a lock.  What follows holds   *)
(* as long as neither asks the thread to stop between the other's request    *)
(* to stop and the run after it; when they do overlap, until the device      *)
(* starts again nothing is said: the run of one task may clear the request   *)
(* of the other (scheduler.cpp:28, 81), which then joins a thread that goes  *)
(* on for ever.                                                              *)

\* From the moment stopThread returns until run nothing is executed, whatever the thread
\* was doing when it was stopped: a run in progress has ended, none begins.  As long as no
\* two restarts overlap.
NoRunOnceStopped ==
    ~ overlapped /\ (\E c \in Callers : caller[c] \in Stopped) =>
        \A w \in Threads : worker[w] # "execute"

\* As long as no two restarts overlap, however many there are and whichever task begins
\* them, a restart never leaves the old thread behind: two threads would publish every
\* result twice.
OneThread == ~ overlapped => Cardinality(Alive) <= 1

\* A thread that was started ends only when it is told to or when it refuses its schedule:
\* the request that stopped its predecessor does not reach it.  As long as no two restarts
\* overlap.
EndsOnlyByItself ==
    ~ overlapped /\ (\A c \in Callers : caller[c] \notin Stopped) =>
        \A w \in Threads : worker[w] = "done" /\ w = t => w \in refused

\* joinThread returns, unless two restarts overlap: a thread that is waiting wakes, one that
\* is between two looks at stopRequest sees it after its wait at the latest.
JoinReturns == \A c \in Callers : At(c, "joining") ~> ~ At(c, "joining") \/ overlapped

\* A saved configuration that is complete is the one the scheduler is set to in the end,
\* also when it is saved while the one before is being applied or while the page restarts
\* the schedule.  Exceptions are two restarts that overlap, and a flash that could not be
\* read when it was looked at last.
SavedIsApplied ==
    <>[](saved \in ValidConfigs => applied = saved \/ overlapped \/ cfg = EmptyConfig)
=============================================================================
