---------------------------------- MODULE Boot ----------------------------------
(***************************************************************************)
(* What runs on the device: app_main and the main loop of src/main.cpp,    *)
(* Ethernet::init and waitForConnection of lib/hardware/src/network.cpp    *)
(* with the events and the DNS answer that wake it, the NTP service of     *)
(* lib/hardware/src/ntp.cpp, and the restarts of the web server.           *)
(*                                                                         *)
(* app_main waits twice for twenty seconds.  Only the answer of a DNS      *)
(* server, asked once, decides whether the scheduler and the web server    *)
(* are started.  The reader thread runs as soon as the I2C bus does; it is *)
(* left out, as are logging, and how a configuration gets into the flash   *)
(* (ConfigUpdate) and into the scheduler (SchedulerThread).                *)
(***************************************************************************)
EXTENDS Integers

CONSTANTS
    Configs,        \* configurations the page may save
    ValidConfigs,   \* those checkConfiguration accepts
    Unread,         \* what getConfig makes of a flash that cannot be read
    MaxRestarts     \* bound: restarts of the device

ASSUME BootAssumption ==
    /\ Unread \in Configs \ ValidConfigs
    /\ ValidConfigs \subseteq Configs
    /\ MaxRestarts \in Nat

Bits == {"network", "tcpip", "dns"}     \* s_network_event_group
Connected == {"network", "tcpip"}

VARIABLES
    flash,              \* the configuration in the NVS
    cfg,                \* main.cpp's configuration
    ethernet,           \* "off", "installed", "started", or "failed" when init returned a message
    ntp,                \* "none", "configured", "started", or "synced" when the clock was set
    group,              \* the bits that are set
    query,              \* the DNS query: "none", "asked" or "over"
    main,               \* where app_main is
    button,             \* the reset button is held down
    webserver,          \* its handle: "none", "running", or "failed" after a start
    reconfigureRequest,
    scheduler,          \* its thread has been started
    restarts,           \* how often the device restarted
    inTime,             \* history: the name was resolved while app_main waited for it
    changed             \* history: the loop has restarted something since the boot

networkVars == <<ethernet, ntp, group, query, inTime>>
serviceVars == <<webserver, scheduler, reconfigureRequest>>
vars == <<flash, cfg, main, button, restarts, changed, networkVars, serviceVars>>

Init ==
    /\ flash \in Configs
    /\ cfg \in {flash, Unread}
    /\ button \in BOOLEAN
    /\ restarts = 0
    /\ ethernet = "off"
    /\ ntp = "none"
    /\ group = {}
    /\ query = "none"
    /\ main = "bus"
    /\ webserver = "none"
    /\ reconfigureRequest = FALSE
    /\ scheduler = FALSE
    /\ inTime = FALSE
    /\ changed = FALSE
-----------------------------------------------------------------------------
(* The network: the tasks of the event loop and of the TCP/IP stack         *)

\* eth_event_handler; no event comes before esp_eth_start.
LinkUp ==
    /\ ethernet = "started"
    /\ "network" \notin group
    /\ group' = group \cup {"network"}
    /\ UNCHANGED <<flash, cfg, main, button, restarts, changed, ethernet, ntp, query, inTime,
                   serviceVars>>

LinkDown ==
    /\ "network" \in group
    /\ group' = group \ {"network"}
    /\ UNCHANGED <<flash, cfg, main, button, restarts, changed, ethernet, ntp, query, inTime,
                   serviceVars>>

\* got_ip_event_handler: the lease, with a DNS server. Its bit is never cleared.
GotIp ==
    /\ "network" \in group
    /\ "tcpip" \notin group
    /\ group' = group \cup {"tcpip"}
    /\ UNCHANGED <<flash, cfg, main, button, restarts, changed, ethernet, ntp, query, inTime,
                   serviceVars>>

\* dns_found_cb: with an address, or with NULL when no server answered.
AnyAnswer(address) == group \cup {"dns"}       \* mutant: NULL is not looked at
OnlyAddress(address) == IF address THEN group \cup {"dns"} ELSE group

DnsFound(address) ==
    /\ query = "asked"
    /\ address => Connected \subseteq group
    /\ query' = "over"
    /\ group' = OnlyAddress(address)
    /\ inTime' = (inTime \/ (address /\ main = "resolve"))
    /\ UNCHANGED <<flash, cfg, main, button, restarts, changed, ethernet, ntp, serviceVars>>

\* A time server answers, one of the configuration or of the lease.
TimeSync ==
    /\ ntp = "started"
    /\ Connected \subseteq group
    /\ ntp' = "synced"
    /\ UNCHANGED <<flash, cfg, main, button, restarts, changed, ethernet, group, query, inTime,
                   serviceVars>>

Network ==
    LinkUp \/ LinkDown \/ GotIp \/ (\E address \in BOOLEAN : DnsFound(address)) \/ TimeSync
-----------------------------------------------------------------------------
(* app_main                                                                 *)

\* Neither the parameters nor the driver of the bus need be accepted.
InitBus == BOOLEAN

\* I2c::get: the bus, or a null pointer through which app_main writes to the outputs.
GetI2c(initialized) == IF initialized THEN "init" ELSE "panic"

\* The first access to the bus; then the reader is started and the button's pin set up.
StartReader ==
    /\ main = "bus"
    /\ \E initialized \in InitBus : main' = GetI2c(initialized)
    /\ UNCHANGED <<flash, cfg, button, restarts, changed, networkVars, serviceVars>>

\* NtpService's constructor: nobody looks at what esp_netif_sntp_init returns.
NtpService == {"configured", "none"}
NtpStarted == IF ntp = "configured" THEN "started" ELSE ntp
NtpRestarted == IF ntp = "synced" THEN "started" ELSE ntp

\* Ethernet::init may give up at any of its steps; app_main does not look at what it returns.
\* eth_init_internal leaves no driver behind when its installation fails.
InstallDriver ==
    /\ main = "init"
    /\ ntp' \in NtpService
    /\ \/ ethernet' = "installed" /\ main' = "attach"
       \/ ethernet' = "failed" /\ main' = "connect"
    /\ UNCHANGED <<flash, cfg, button, restarts, changed, group, query, inTime, serviceVars>>

InitEthernet ==
    /\ main = "attach"
    /\ \/ ethernet' = "started" /\ ntp' = NtpStarted
       \/ ethernet' = "failed" /\ UNCHANGED ntp
    /\ main' = "connect"
    /\ UNCHANGED <<flash, cfg, button, restarts, changed, group, query, inTime, serviceVars>>

\* xEventGroupWaitBits ends with the bits, or at any time with its timeout.
Never == FALSE                                 \* mutant: portMAX_DELAY
TimedOut == TRUE
Waited(bits) == bits \subseteq group \/ TimedOut

\* The first wait's result is ignored; dns_gethostbyname without a DNS server fails at once
\* and calls nobody.
AskName ==
    /\ main = "connect"
    /\ Waited(Connected)
    /\ query' = IF "tcpip" \in group THEN "asked" ELSE "none"
    /\ main' = "resolve"
    /\ UNCHANGED <<flash, cfg, button, restarts, changed, ethernet, ntp, group, inTime,
                   serviceVars>>

IsOnline == "dns" \in group

WaitForName ==
    /\ main = "resolve"
    /\ Waited({"dns"})
    /\ main' = IF IsOnline THEN "logging" ELSE "loop"
    /\ ntp' = NtpRestarted
    /\ UNCHANGED <<flash, cfg, button, restarts, changed, ethernet, group, query, inTime,
                   serviceVars>>

\* getConfig(getJson()): the configuration, or an empty one when the NVS cannot be read.
LoadConfig(from, to) ==
    /\ main = from
    /\ cfg' \in {flash, Unread}
    /\ main' = to
    /\ UNCHANGED <<flash, button, restarts, networkVars, serviceVars>>

ConfigureLogging == changed' = changed /\ LoadConfig("logging", "schedule")

\* checkConfiguration, run.
StartScheduler ==
    /\ main = "schedule"
    /\ scheduler' = (cfg \in ValidConfigs)
    /\ main' = "serve"
    /\ UNCHANGED <<flash, cfg, button, restarts, changed, networkVars, webserver,
                   reconfigureRequest>>

\* WebserverPulsecounter::setConfig: stop, forget the request, start, which may fail.
RestartServer(from, to) ==
    /\ main = from
    /\ webserver' \in {"running", "failed"}
    /\ reconfigureRequest' = FALSE
    /\ main' = to
    /\ UNCHANGED <<flash, cfg, button, restarts, changed, networkVars, scheduler>>

(* The loop, once a second                                                  *)

OnlyWithServer == button /\ webserver = "running" \* mutant: there is nothing to restart
Pressed == button

LookAtButton ==
    /\ main = "loop"
    /\ main' = IF Pressed THEN "httpButton" ELSE "request"
    /\ UNCHANGED <<flash, cfg, button, restarts, changed, networkVars, serviceVars>>

LookAtRequest ==
    /\ main = "request"
    /\ main' = IF reconfigureRequest THEN "httpRequest" ELSE "loop"
    /\ UNCHANGED <<flash, cfg, button, restarts, changed, networkVars, serviceVars>>

SchedulerForgotten == "loop"                   \* mutant: only the web server is restarted
AfterServer == "reload"

\* reconfigureHttp reads the configuration twice, the second time in configureLogging.
ReconfigureHttp ==
    \/ changed' = TRUE /\ LoadConfig("httpButton", "serverButton")
    \/ changed' = TRUE /\ LoadConfig("httpRequest", "serverRequest")
    \/ RestartServer("serverButton", "request")
    \/ RestartServer("serverRequest", AfterServer)

\* reconfigurePcScheduler: an incomplete configuration leaves the scheduler as it is.
ReconfigurePcScheduler ==
    \/ changed' = changed /\ LoadConfig("reload", "setConfig")
    \/ /\ main = "setConfig"
       /\ scheduler' = (scheduler \/ cfg \in ValidConfigs)
       /\ main' = "loop"
       /\ UNCHANGED <<flash, cfg, button, restarts, changed, networkVars, webserver,
                      reconfigureRequest>>

MainLoop ==
    \/ StartReader \/ InstallDriver \/ InitEthernet \/ AskName \/ WaitForName
    \/ ConfigureLogging \/ StartScheduler
    \/ RestartServer("serve", "loop")
    \/ LookAtButton \/ LookAtRequest \/ ReconfigureHttp \/ ReconfigurePcScheduler
-----------------------------------------------------------------------------
(* The user                                                                 *)

UseButton ==
    /\ button' = ~ button
    /\ UNCHANGED <<flash, cfg, main, restarts, changed, networkVars, serviceVars>>

\* A configuration is posted and its broker answers.
SaveConfig(c) ==
    /\ webserver = "running"
    /\ Connected \subseteq group
    /\ flash' = c
    /\ reconfigureRequest' = TRUE
    /\ UNCHANGED <<cfg, main, button, restarts, changed, networkVars, webserver, scheduler>>

\* An update has been installed, the program panics, or the power fails: everything but the
\* flash is gone.
Restart ==
    /\ restarts < MaxRestarts
    /\ restarts' = restarts + 1
    /\ cfg' \in {flash, Unread}
    /\ ethernet' = "off"
    /\ ntp' = "none"
    /\ group' = {}
    /\ query' = "none"
    /\ main' = "bus"
    /\ webserver' = "none"
    /\ reconfigureRequest' = FALSE
    /\ scheduler' = FALSE
    /\ inTime' = FALSE
    /\ changed' = FALSE
    /\ UNCHANGED <<flash, button>>
-----------------------------------------------------------------------------
Next ==
    \/ Network
    \/ MainLoop
    \/ UseButton
    \/ \E c \in Configs \ {Unread} : SaveConfig(c)
    \/ Restart

\* app_main goes on: its waits and its sleep end. Nothing else has to happen.
Spec == Init /\ [][Next]_vars
FairSpec == Spec /\ WF_vars(MainLoop)
-----------------------------------------------------------------------------
TypeOK ==
    /\ flash \in Configs
    /\ cfg \in Configs
    /\ ethernet \in {"off", "installed", "started", "failed"}
    /\ ntp \in {"none", "configured", "started", "synced"}
    /\ group \subseteq Bits
    /\ query \in {"none", "asked", "over"}
    /\ main \in {"bus", "panic", "init", "attach", "connect", "resolve", "logging", "schedule",
                "serve", "loop", "request", "httpButton", "serverButton", "httpRequest",
                "serverRequest", "reload", "setConfig"}
    /\ webserver \in {"none", "running", "failed"}
    /\ restarts \in 0 .. MaxRestarts
    /\ button \in BOOLEAN
    /\ reconfigureRequest \in BOOLEAN
    /\ scheduler \in BOOLEAN
    /\ inTime \in BOOLEAN
    /\ changed \in BOOLEAN

\* Until the loop restarts something, the device runs what the boot decided: both services
\* were started if the name was resolved while it waited, the scheduler with a complete
\* configuration only, and nothing at all otherwise, neither for a link without an answer
\* nor for a refused or late one, and whichever step of init failed. What was started asks for
\* the time, unless the NTP service could not be set up.
BootFollowsAnswer ==
    ~ changed =>
        IF inTime
        THEN main \in {"loop", "request"} =>
                webserver # "none" /\ (scheduler <=> cfg \in ValidConfigs) /\ ntp # "configured"
        ELSE webserver = "none" /\ ~ scheduler

\* Without a link, without a lease, without an answer: app_main reaches the loop in which the
\* reset button is looked at, if it can open the bus.
EveryBootEnds == main = "init" ~> main \in {"loop", "panic"}

\* Whatever the boot made of the network, a button that is held brings up the web server (or
\* httpd_start fails) of a device that can open its bus.
ButtonBringsServer == button ~> webserver # "none" \/ ~ button \/ main = "panic"

\* A complete configuration that is saved starts the scheduler of a device that runs none, also
\* if the web server does not come up again after it, unless the button, a later configuration,
\* the flash or a restart comes in between.
SavedStartsScheduler ==
    \A c \in ValidConfigs :
        reconfigureRequest /\ flash = c /\ main \notin {"httpButton", "serverButton"} ~>
            scheduler \/ button \/ flash # c \/ cfg = Unread \/ main = "bus"
=============================================================================
