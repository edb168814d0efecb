------------------------------ MODULE ConfigUpdate ------------------------------
(***************************************************************************)
(* How a posted configuration reaches the flash and the scheduler:         *)
(* postConfigHandler and ValidationMqttClient of websrvplscount.cpp in the *)
(* web server's task and the tasks of the MQTT library, reconfigureHttp    *)
(* and reconfigurePcScheduler of main.cpp in the main loop.                *)
(*                                                                         *)
(* A configuration is the number of the post that brought it, 0 the one of *)
(* the boot, Empty what a flash that cannot be read gives.  A client       *)
(* connects as soon as its broker can be reached, and again whenever the   *)
(* connection was lost, as long as it exists.                              *)
(*                                                                         *)
(* Left out: the answers to the page.  api/restartSchedule is in           *)
(* SchedulerThread.                                                        *)
(***************************************************************************)
EXTENDS Integers

CONSTANTS
    ValidConfigs,       \* the configurations checkConfiguration accepts
    MaxPosts            \* bound: posts

Posts == 1 .. MaxPosts
Configs == 0 .. MaxPosts
Empty == -1

ASSUME PostAssumption ==
    /\ MaxPosts \in Nat
    /\ ValidConfigs \subseteq Configs

VARIABLES
    flash,              \* the configuration in the NVS
    theConfiguration,   \* Config's global: what getConfig parsed last
    cfg,                \* main.cpp's configuration
    applied,            \* what the scheduler was last set to
    post,               \* posts begun
    handler,            \* where the web server's task is in postConfigHandler
    clients,            \* validation clients that exist
    asked,              \* the configuration whose broker the client of a post connects to
    validated,          \* those whose reconfigureRequest is set
    reconfigureRequest, \* the web server's
    main,               \* where the main loop is
    button,             \* reconfigureHttp runs because the reset button is pressed
    stored,             \* history: configurations that were in the flash
    strays,             \* history: posts parsed between the main loop's load for the
                        \* scheduler and the copy of it
    requested           \* history: the last one a request was made for while it was in the
                        \* flash, 0 when that request is lost

mainVars == <<theConfiguration, cfg, applied, main, button>>
postVars == <<post, handler, clients, asked, strays>>
flashVars == <<flash, stored, validated>>
vars == <<mainVars, postVars, flashVars, reconfigureRequest, requested>>

Init ==
    /\ flash = 0
    /\ theConfiguration \in {0, Empty}
    /\ cfg = theConfiguration
    /\ applied = 0
    /\ post = 0
    /\ handler = "idle"
    /\ clients = {}
    /\ asked = [c \in Posts |-> Empty]
    /\ validated = {}
    /\ reconfigureRequest = FALSE
    /\ main = "idle"
    /\ button = FALSE
    /\ stored = {0}
    /\ strays = {}
    /\ requested = 0
-----------------------------------------------------------------------------
(* The web server's task                                                    *)

\* The main loop has stopped the server.
ServerRuns == main # "start"

BeginPost ==
    /\ handler = "idle"
    /\ ServerRuns
    /\ post < MaxPosts
    /\ post' = post + 1
    /\ handler' = "receive"
    /\ UNCHANGED <<clients, asked, strays, mainVars, flashVars, reconfigureRequest, requested>>

\* A timeout is tried again, any other error ends the post.
ReceiveFails ==
    /\ handler = "receive"
    /\ handler' = "idle"
    /\ UNCHANGED <<post, clients, asked, strays, mainVars, flashVars, reconfigureRequest,
                   requested>>

\* The peer closes the connection: each receive returns 0 bytes from now on, which is neither
\* an error nor progress, and the loop never ends.
ReceiveClosed ==
    /\ handler = "receive"
    /\ handler' = "closed"
    /\ UNCHANGED <<post, clients, asked, strays, mainVars, flashVars, reconfigureRequest,
                   requested>>

\* When the configuration the main loop works with is no longer the flash's, it sets the
\* scheduler to something else; a request that is still pending brings it back here.
Lost == IF reconfigureRequest THEN requested ELSE 0

\* The body is complete: getConfig parses it into the global configuration, validated or
\* not, whatever the main loop is doing with it.
ParsePost ==
    /\ handler = "receive"
    /\ theConfiguration' = post
    /\ handler' = "validate"
    /\ IF main = "copyScheduler"
       THEN strays' = strays \cup {post} /\ requested' = Lost
       ELSE UNCHANGED <<strays, requested>>
    /\ UNCHANGED <<post, clients, asked, cfg, applied, main, button, flashVars,
                   reconfigureRequest>>

\* startValidationMqttClient: the client of the post before is deleted.  What the new one
\* connects with are references into the global configuration.
Older == clients                               \* mutant: it is not
Deleted == {}

StartClient ==
    /\ handler = "validate"
    /\ clients' = Deleted \cup {post}
    /\ asked' = [asked EXCEPT ![post] = theConfiguration]
    /\ handler' = "wait"
    /\ UNCHANGED <<post, strays, mainVars, flashVars, reconfigureRequest, requested>>

\* After its second the handler looks whether the broker has answered.
LatestOnly == post \in validated               \* mutant: a failed post takes the request back
Request == reconfigureRequest \/ post \in validated

EndPost ==
    /\ handler = "wait"
    /\ reconfigureRequest' = Request
    /\ requested' = IF post \in validated /\ flash = post THEN post ELSE requested
    /\ handler' = "idle"
    /\ UNCHANGED <<post, clients, asked, strays, mainVars, flashVars>>

(* A task of the MQTT library                                               *)

\* setJson of what was posted; it may fail, which nobody is told.
OnConnected(c) ==
    /\ c \in clients
    /\ asked[c] # Empty
    /\ validated' = validated \cup {c}
    /\ \/ flash' = c /\ stored' = stored \cup {c}
       \/ UNCHANGED <<flash, stored>>
    /\ UNCHANGED <<mainVars, postVars, reconfigureRequest, requested>>
-----------------------------------------------------------------------------
(* The main loop                                                            *)

\* cfg = getConfig(getJson()): the flash is parsed into the global configuration, or what
\* an error gives, which the caller cannot tell from a configuration, ...
Remembered == theConfiguration                 \* mutant: the flash is not read
FromFlash == flash

Load(from, to) ==
    /\ main = from
    /\ theConfiguration' \in {FromFlash, Empty}
    /\ main' = to
    /\ requested' = IF to = "copyScheduler" /\ theConfiguration' = Empty THEN Lost ELSE requested
    /\ UNCHANGED <<cfg, applied, postVars, flashVars, reconfigureRequest>>

\* ... which is then copied.
Copy(from, to) ==
    /\ main = from
    /\ cfg' = theConfiguration
    /\ main' = to
    /\ UNCHANGED <<theConfiguration, applied, button, postVars, flashVars, reconfigureRequest,
                   requested>>

\* The loop looks at the button first, then at the request.
PressButton == button' = TRUE /\ Load("idle", "copyHttp")
TakeRequest == reconfigureRequest /\ button' = FALSE /\ Load("idle", "copyHttp")

\* reconfigureHttp, which calls configureLogging.
ReconfigureHttp ==
    \/ Copy("copyHttp", "logging")
    \/ button' = button /\ Load("logging", "copyLogging")
    \/ Copy("copyLogging", "stop")

\* httpd_stop returns when the request in progress has been handled.
StopServer ==
    /\ main = "stop"
    /\ handler = "idle"
    /\ main' = "start"
    /\ UNCHANGED <<theConfiguration, cfg, applied, button, postVars, flashVars,
                   reconfigureRequest, requested>>

\* start clears the request; only the loop's own branch for it goes on to the scheduler.
StartServer ==
    /\ main = "start"
    /\ reconfigureRequest' = FALSE
    /\ main' = IF button THEN "idle" ELSE "scheduler"
    /\ requested' = IF button /\ reconfigureRequest THEN 0 ELSE requested
    /\ UNCHANGED <<theConfiguration, cfg, applied, button, postVars, flashVars>>

\* The configuration is set if it is complete.
SetScheduler ==
    /\ main = "check"
    /\ applied' = IF cfg \in ValidConfigs THEN cfg ELSE applied
    /\ main' = "idle"
    /\ UNCHANGED <<theConfiguration, cfg, button, postVars, flashVars, reconfigureRequest,
                   requested>>

ReconfigurePcScheduler ==
    \/ button' = button /\ Load("scheduler", "copyScheduler")
    \/ Copy("copyScheduler", "check")
    \/ SetScheduler

MainLoop == TakeRequest \/ ReconfigureHttp \/ StopServer \/ StartServer \/ ReconfigurePcScheduler
Handler == ReceiveFails \/ ReceiveClosed \/ ParsePost \/ StartClient \/ EndPost
-----------------------------------------------------------------------------
Next ==
    \/ BeginPost
    \/ Handler
    \/ \E c \in Posts : OnConnected(c)
    \/ PressButton
    \/ MainLoop

\* Both tasks go on; a post is received or fails, or its peer goes away. No broker has to
\* answer, nor is the button ever pressed.
Fairness == WF_vars(Handler) /\ WF_vars(MainLoop)

Spec == Init /\ [][Next]_vars
FairSpec == Spec /\ Fairness
-----------------------------------------------------------------------------
\* A broker that answers late, or again after a broken connection, never puts the
\* configuration of an earlier post back over that of a later one.
NeverBackwards == [][flash' >= flash]_vars

\* What reaches the scheduler was in the flash, so a broker answered for it: the post's own
\* or, when the main loop loads before the client is made, that of a configuration that was
\* in the flash before; never the broker of a post that was not validated itself.  The
\* exception are posts that were parsed while the main loop was between the load for the
\* scheduler and its copy.
OnlyStored ==
    /\ applied \in stored \cup strays
    /\ \A n \in stored \ {0} : asked[n] \in stored \cup {n}

\* A configuration that was stored in time reaches the scheduler, whatever is posted or
\* stored meanwhile and although restarting the web server clears the request, unless
\*   - a later one takes its place in the flash,
\*   - the button is pressed before the main loop gets to the request,
\*   - the flash cannot be read when it is loaded for the scheduler, or another post is
\*     parsed between that load and its copy, and no request has come meanwhile, or
\*   - a peer goes away in the middle of its post: the server that is to be restarted then
\*     never stops, and the main loop waits for it for ever.
RequestedIsApplied ==
    \A n \in Posts \cap ValidConfigs :
        requested = n ~> applied >= n \/ flash > n \/ requested # n \/ handler = "closed"

Register == INSTANCE ConfigRegister WITH
    Accepted <- ValidConfigs, stored <- flash, held <- stored

\* All three tasks together are one register: only a newer configuration replaces the one
\* in the flash, and the scheduler moves forward along those that were there, although
\* the posted one passes through the same global and clients answer when they like.  Only
\* by one of the strays it may be taken off that way, until its next load.
KeepsRegister == Register!Spec
=============================================================================
