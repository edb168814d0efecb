------------------------------- MODULE BootProofs -------------------------------
(***************************************************************************)
(* What the boot starts, for every set of configurations and any number of *)
(* restarts.                                                               *)
(***************************************************************************)
EXTENDS Boot, TLAPS

\* The flags, which Zenon handles better than SMT, and the rest.
Flags == {button, reconfigureRequest, scheduler, inTime, changed} \subseteq BOOLEAN

Values ==
    /\ flash \in Configs
    /\ cfg \in Configs
    /\ ethernet \in {"off", "installed", "started", "failed"}
    /\ ntp \in {"none", "configured", "started", "synced"}
    /\ group \subseteq Bits
    /\ query \in {"none", "asked", "over"}
    /\ main \in {"bus", "panic", "init", "attach", "connect", "resolve", "logging", "schedule",
                "serve", "loop", "request", "httpButton", "serverButton", "httpRequest",
                "serverRequest", "reload", "setConfig"}
    /\ webserver \in {"none", "running", "failed"}
    /\ restarts \in 0 .. MaxRestarts

LEMMA FlagsStep ==
    ASSUME Flags, [Next]_vars
    PROVE  Flags'
<1> USE DEF Flags
<1>1. CASE Network
  BY <1>1, Zenon DEF Network, LinkUp, LinkDown, GotIp, DnsFound, TimeSync, serviceVars
<1>2. CASE MainLoop
  <2> USE DEF networkVars, serviceVars
  <2>1. CASE \/ StartReader \/ InstallDriver \/ InitEthernet \/ AskName \/ WaitForName
             \/ LookAtButton \/ LookAtRequest
    BY <2>1, Zenon DEF StartReader, InitBus, GetI2c, InstallDriver, NtpService, InitEthernet,
       NtpStarted, NtpRestarted, AskName, WaitForName, LookAtButton, LookAtRequest
  <2>2. CASE ConfigureLogging
    BY <2>2, Zenon DEF ConfigureLogging, LoadConfig
  <2>3. CASE StartScheduler
    <3>1. scheduler' \in BOOLEAN
      BY <2>3 DEF StartScheduler
    <3> QED
      BY <2>3, <3>1, Zenon DEF StartScheduler
  <2>4. ASSUME NEW from, NEW to, RestartServer(from, to) PROVE Flags'
    BY <2>4, Zenon DEF RestartServer
  <2>5. CASE ReconfigureHttp
    BY <2>4, <2>5, Zenon DEF ReconfigureHttp, LoadConfig
  <2>6. CASE ReconfigurePcScheduler
    BY <2>6, Zenon DEF ReconfigurePcScheduler, LoadConfig
  <2> QED
    BY <1>2, <2>1, <2>2, <2>3, <2>4, <2>5, <2>6 DEF MainLoop
<1>3. CASE UseButton
  BY <1>3, Zenon DEF UseButton, networkVars, serviceVars
<1>4. ASSUME NEW c \in Configs \ {Unread}, SaveConfig(c) PROVE Flags'
  BY <1>4, Zenon DEF SaveConfig, networkVars
<1>5. CASE Restart
  BY <1>5, Zenon DEF Restart
<1>6. CASE UNCHANGED vars
  BY <1>6, Zenon DEF vars, networkVars, serviceVars
<1> QED
  BY <1>1, <1>2, <1>3, <1>4, <1>5, <1>6 DEF Next

LEMMA ValuesStep ==
    ASSUME Values, [Next]_vars
    PROVE  Values'
<1> USE DEF Values
<1>1. CASE Network
  <2> USE DEF serviceVars
  <2>1. CASE LinkUp \/ LinkDown \/ GotIp
    <3>1. group' \subseteq Bits
      BY <2>1 DEF LinkUp, LinkDown, GotIp, Bits
    <3>2. UNCHANGED <<flash, cfg, ethernet, ntp, query, main, webserver, restarts>>
      BY <2>1, Zenon DEF LinkUp, LinkDown, GotIp
    <3> QED
      BY <3>1, <3>2
  <2>2. ASSUME NEW address \in BOOLEAN, DnsFound(address) PROVE Values'
    BY <2>2 DEF DnsFound, OnlyAddress, Bits
  <2>3. CASE TimeSync
    BY <2>3 DEF TimeSync
  <2> QED
    BY <1>1, <2>1, <2>2, <2>3 DEF Network
<1>2. CASE MainLoop
  <2> USE BootAssumption DEF networkVars, serviceVars
  <2>1. CASE \/ StartReader \/ InstallDriver \/ InitEthernet \/ AskName \/ WaitForName
             \/ LookAtButton \/ LookAtRequest
    BY <2>1 DEF StartReader, InitBus, GetI2c, InstallDriver, NtpService, InitEthernet,
       NtpStarted, NtpRestarted, AskName, WaitForName, LookAtButton, LookAtRequest
  <2>2. CASE ConfigureLogging \/ StartScheduler \/ RestartServer("serve", "loop")
    BY <2>2 DEF ConfigureLogging, StartScheduler, RestartServer, LoadConfig
  <2>3. CASE ReconfigureHttp
    BY <2>3 DEF ReconfigureHttp, RestartServer, LoadConfig, AfterServer
  <2>4. CASE ReconfigurePcScheduler
    BY <2>4 DEF ReconfigurePcScheduler, LoadConfig
  <2> QED
    BY <1>2, <2>1, <2>2, <2>3, <2>4 DEF MainLoop
<1>3. CASE UseButton
  BY <1>3 DEF UseButton, networkVars, serviceVars
<1>4. ASSUME NEW c \in Configs \ {Unread}, SaveConfig(c) PROVE Values'
  BY <1>4 DEF SaveConfig, networkVars
<1>5. CASE Restart
  BY <1>5, BootAssumption DEF Restart
<1>6. CASE UNCHANGED vars
  BY <1>6 DEF vars, networkVars, serviceVars
<1> QED
  BY <1>1, <1>2, <1>3, <1>4, <1>5, <1>6 DEF Next

\* Every variable of the boot keeps its type.
THEOREM TypeCorrect == Spec => []TypeOK
<1>1. Init => Flags
  BY Zenon DEF Init, Flags
<1>2. Init => Values
  BY BootAssumption DEF Init, Values
<1>3. Flags /\ Values => TypeOK
  BY Zenon DEF Flags, Values, TypeOK
<1> QED
  BY <1>1, <1>2, <1>3, FlagsStep, ValuesStep, PTL DEF Spec
-----------------------------------------------------------------------------
\* The DNS bit, the query and the history say the same, until app_main has looked. There are
\* events only of a started driver, and with it the time was asked for.
AnswerInv ==
    /\ main \in {"bus", "panic", "init", "attach", "connect"} => query = "none"
    /\ main \in {"bus", "panic", "init", "attach"} => ethernet # "started"
    /\ query # "none" \/ group # {} => ethernet = "started"
    /\ ethernet = "started" => ntp # "configured"
    /\ query # "over" => "dns" \notin group
    /\ inTime => "dns" \in group
    /\ main = "resolve" /\ "dns" \in group => inTime
    /\ main \in {"logging", "schedule", "serve"} => inTime

\* What has been started at each place of app_main.
ServiceInv ==
    /\ main \in {"bus", "panic", "init", "attach", "connect", "resolve", "logging", "schedule"} =>
          webserver = "none" /\ ~ scheduler
    /\ main = "serve" => (scheduler <=> cfg \in ValidConfigs)
    /\ main \in {"serverButton", "serverRequest", "reload", "setConfig"} => changed
    /\ ~ changed /\ ~ inTime => webserver = "none" /\ ~ scheduler
    /\ ~ changed /\ inTime /\ main \in {"loop", "request"} =>
          webserver # "none" /\ (scheduler <=> cfg \in ValidConfigs)

Inv == TypeOK /\ AnswerInv /\ ServiceInv

\* What waitForConnection returns is whether the name was resolved while app_main waited: the
\* bit is set by an address only, and never before the query is made.
LEMMA AnswerStep ==
    ASSUME Inv, [Next]_vars
    PROVE  AnswerInv'
<1> USE DEF Inv, AnswerInv
<1>1. CASE Network
  BY <1>1 DEF Network, LinkUp, LinkDown, GotIp, DnsFound, TimeSync, OnlyAddress, Connected, TypeOK
<1>2. CASE MainLoop
  <2> USE DEF networkVars
  <2>1. CASE StartReader \/ InstallDriver \/ InitEthernet \/ AskName \/ WaitForName
    BY <2>1 DEF StartReader, InitBus, GetI2c, InstallDriver, NtpService, InitEthernet,
       NtpStarted, NtpRestarted, AskName, WaitForName, IsOnline
  <2>2. CASE ConfigureLogging \/ StartScheduler \/ RestartServer("serve", "loop")
    BY <2>2 DEF ConfigureLogging, StartScheduler, RestartServer, LoadConfig
  <2>3. CASE LookAtButton \/ LookAtRequest
    BY <2>3 DEF LookAtButton, LookAtRequest
  <2>4. CASE ReconfigureHttp \/ ReconfigurePcScheduler
    BY <2>4 DEF ReconfigureHttp, ReconfigurePcScheduler, RestartServer, LoadConfig, AfterServer
  <2> QED
    BY <1>2, <2>1, <2>2, <2>3, <2>4 DEF MainLoop
<1>3. CASE UseButton
  BY <1>3 DEF UseButton, networkVars
<1>4. ASSUME NEW c \in Configs \ {Unread}, SaveConfig(c) PROVE AnswerInv'
  BY <1>4 DEF SaveConfig, networkVars
<1>5. CASE Restart
  BY <1>5 DEF Restart
<1>6. CASE UNCHANGED vars
  BY <1>6 DEF vars, networkVars
<1> QED
  BY <1>1, <1>2, <1>3, <1>4, <1>5, <1>6 DEF Next

LEMMA ServiceStep ==
    ASSUME Inv, [Next]_vars
    PROVE  ServiceInv'
<1> USE DEF Inv, AnswerInv, ServiceInv
<1>1. CASE Network
  <2>1. UNCHANGED <<main, cfg, changed, webserver, scheduler>>
    BY <1>1, Zenon DEF Network, LinkUp, LinkDown, GotIp, DnsFound, TimeSync, serviceVars
  <2>2. inTime => inTime'
    BY <1>1, Zenon DEF Network, LinkUp, LinkDown, GotIp, DnsFound, TimeSync
  <2>3. inTime' => inTime \/ main = "resolve"
    BY <1>1, Zenon DEF Network, LinkUp, LinkDown, GotIp, DnsFound, TimeSync
  <2> QED
    BY <2>1, <2>2, <2>3
<1>2. CASE MainLoop
  <2> USE DEF networkVars, serviceVars
  <2>1. CASE StartReader \/ InstallDriver \/ InitEthernet \/ AskName \/ WaitForName
    BY <2>1 DEF StartReader, InitBus, GetI2c, InstallDriver, NtpService, InitEthernet,
       NtpStarted, NtpRestarted, AskName, WaitForName, IsOnline
  <2>2. CASE ConfigureLogging
    BY <2>2 DEF ConfigureLogging, LoadConfig
  <2>3. CASE StartScheduler
    <3>1. /\ main' = "serve" /\ inTime
          /\ (scheduler' <=> cfg' \in ValidConfigs)
      BY <2>3 DEF StartScheduler
    <3>2. UNCHANGED <<inTime, changed>>
      BY <2>3 DEF StartScheduler
    <3> QED
      BY <3>1, <3>2
  <2>4. CASE RestartServer("serve", "loop")
    BY <2>4 DEF RestartServer
  <2>5. CASE LookAtButton \/ LookAtRequest
    BY <2>5 DEF LookAtButton, LookAtRequest
  <2>6. CASE ReconfigureHttp
    BY <2>6 DEF ReconfigureHttp, RestartServer, LoadConfig, AfterServer
  <2>7. CASE ReconfigurePcScheduler
    BY <2>7 DEF ReconfigurePcScheduler, LoadConfig
  <2> QED
    BY <1>2, <2>1, <2>2, <2>3, <2>4, <2>5, <2>6, <2>7 DEF MainLoop
<1>3. CASE UseButton
  BY <1>3 DEF UseButton, networkVars, serviceVars
<1>4. ASSUME NEW c \in Configs \ {Unread}, SaveConfig(c) PROVE ServiceInv'
  BY <1>4 DEF SaveConfig, networkVars
<1>5. CASE Restart
  BY <1>5 DEF Restart
<1>6. CASE UNCHANGED vars
  BY <1>6 DEF vars, networkVars, serviceVars
<1> QED
  BY <1>1, <1>2, <1>3, <1>4, <1>5, <1>6 DEF Next

\* Until the main loop restarts something, the services that run are those the DNS answer
\* called for.
THEOREM BootAnswered == Spec => []BootFollowsAnswer
<1>1. Init => AnswerInv /\ ServiceInv
  BY DEF Init, AnswerInv, ServiceInv
<1>2. Inv /\ [Next]_vars => (AnswerInv /\ ServiceInv)'
  BY AnswerStep, ServiceStep
<1>3. Inv => BootFollowsAnswer
  BY DEF Inv, AnswerInv, ServiceInv, BootFollowsAnswer
<1> QED
  BY TypeCorrect, <1>1, <1>2, <1>3, PTL DEF Spec, Inv
=============================================================================
