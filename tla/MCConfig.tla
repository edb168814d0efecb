------------------------------- MODULE MCConfig -------------------------------
(* The posts of ConfigUpdate with what is in them: each comes from the page as   *)
(* the one before left it, with some fields changed.                             *)
EXTENDS ConfigUpdate, ConfigForm

\* What is typed or chosen in a field of the page.
TypeText(page, f, v) == [page EXCEPT !.input[f] = v]
TypeList(page, f, v) == [page EXCEPT !.list[f] = v]
ChooseMethod(page, v) == [page EXCEPT !.method = v]
ChooseType(page, o, v) == [page EXCEPT !.type[o] = v]
TypeName(page, p, v) == [page EXCEPT !.name[p] = v]
TypeDivider(page, p, v) == [page EXCEPT !.divider[p] = v]

\* A device in use; one more EMeter; certificates without their key; another method and
\* schedule, a third meter of the matrix and a direct one less.
Bath(page) == TypeDivider(TypeName(page, <<0, 1>>, "bath"), <<0, 1>>, 400)
Sun(page) == TypeDivider(TypeName(page, <<NoOutput, 1>>, "sun"), <<NoOutput, 1>>, 1000)
Broker(page) == ChooseMethod(TypeText(page, "mqtturl", "broker"), 2)
Certificates(page) == TypeText(TypeText(ChooseMethod(page, SSL), "sslca", "ca"), "sslhost", "cert")
Login(page) == TypeText(TypeText(ChooseMethod(page, userPassword), "username", "me"), "password", "secret")

Page0 == Sun(Bath(ChooseType(Broker(BuildConfigHtml(EmptyJson)), 0, 1)))
Page1 == TypeName(ChooseType(Page0, 1, EMeterType), <<1, 0>>, "flat")
Page2 == TypeText(Certificates(Page1), "topic", "")
Minutes(page) == TypeList(page, "minute", Parts(<<<<12>>, <<50, 53>>>>))
Page3 == TypeName(TypeName(Minutes(Login(Page2)), <<0, 0>>, "kitchen"), <<NoOutput, 1>>, "")
Pages == <<Page1, Page2, Page3>>

ASSUME PagesAssumption == MaxPosts <= Len(Pages)

Json(n) == BuildJsonFromHtml(IF n = 0 THEN Page0 ELSE Pages[n])
Config == [n \in Configs |-> ConfigLoad(Json(n))]
MCValidConfigs == UNION {IF CheckConfiguration(Config[n]) THEN {n} ELSE {} : n \in Configs}

\* What is typed as a text, and as a list of the schedule.
Names == {"", "x"}
Typed == {Star, Parts(<<>>), Parts(<<<<0>>, <<20, 23>>>>), Parts(<<<<5, 6>>, <<9>>>>)}

\* The page that was opened with a configuration, with one field changed.
EditedPages(page) ==
    {TypeText(page, f, v) : f \in PageTexts, v \in Names}
    \cup {ChooseMethod(page, v) : v \in 0 .. 2}
    \cup {ChooseType(page, o, v) : o \in Outs, v \in -1 .. 1}
    \cup {TypeName(page, p, v) : p \in Ports, v \in Names}
    \cup {TypeDivider(page, p, v) : p \in Ports, v \in {Blank, 0, 400, INT_MAX + 1}}
    \cup {TypeList(page, f, v) : f \in DOMAIN Sizes, v \in Typed}
OpenedAndEdited(n) == EditedPages(Opened(<<>>, Json(n)))
-----------------------------------------------------------------------------
\* The verdicts on the configurations are sets of constants, computed once.

Read(page, f) == BuildTimeArray(page.list[f], Sizes[f])

\* A divider without a name is not kept, nor a schedule whose text cannot be read back.
\* Nothing is said of the NTP server, nor of a divider that is blank or 0.
SameFields(page, other) ==
    /\ \A f \in SavedTexts : page.input[f] = other.input[f]
    /\ page.method = other.method /\ page.type = other.type /\ page.name = other.name
    /\ \A p \in Ports : page.name[p] = "" => page.divider[p] = Blank
    /\ \A p \in Ports :
          page.name[p] # "" /\ other.divider[p] > 0 => page.divider[p] = other.divider[p]
    /\ \A f \in DOMAIN Sizes :
          LET a == Read(other, f) IN Read(page, f) = a <=> Len(a) = Sizes[f] \/ ~RunBeforeOther(a)

ShownAgainFor(n) ==
    \A page \in OpenedAndEdited(n) :
        /\ SameFields(SendConfig(page, 200, BuildJsonFromHtml(page)), page)
        /\ SameFields(Opened(ImportConfig(DownloadConfiguration(page)), Json(n)), page)
        /\ Opened(ImportConfig(<<>>), Json(n)) = BuildConfigHtml(Json(n))
ShownAgainIn == {<<n, ShownAgainFor(n)>> : n \in Configs}

(* Whatever field is changed in the page of the configuration in the flash   *)
(* (pulse.js:364, 125), the page that is opened after it was saved, or       *)
(* imported from its download, shows the fields as they were left, and       *)
(* nothing appears that was not typed, like the counters that saving adds    *)
(* itself.  A file that is no configuration changes nothing.  What is not    *)
(* shown again: the name of the NTP server, which buildJsonFromHtml does not *)
(* save, the divider of a meter without a name, the lists of ResaveKeeps;    *)
(* nothing is said of a divider that is blank or 0.                          *)
ShownAgain == <<flash, TRUE>> \in ShownAgainIn

\* The meters a device with this page should have, with their names.
MetersOf(page) ==
    {<<p, page.name[p]>> : p \in {q \in Ports : page.name[q] # ""}}
    \cup {<<p, Unknown(p)>> : p \in {q \in Ports : page.name[q] = "" /\ Direct(q)}}

CountersAsShown(counters, page) ==
    /\ {<<PortsOf(counters[i]), counters[i].mqttname>> : i \in DOMAIN counters} = MetersOf(page)
    /\ \A i \in DOMAIN counters : \A p \in {PortsOf(counters[i])} :
          page.name[p] # "" /\ page.divider[p] \in 1 .. INT_MAX =>
              counters[i].divider = page.divider[p]

IsAsShown(config, page) ==
    /\ CountersAsShown(config.counters, page)
    /\ \A i \in DOMAIN config.outputs :
          config.outputs[i].port \in Outs =>
              config.outputs[i].type = page.type[config.outputs[i].port]
    /\ \A f \in SavedTexts \ {"topic"} : config.text[f] = page.input[f]
    /\ config.method = page.method
    /\ \A f \in DOMAIN Sizes : config.schedule[f] = Read(page, f)
    /\ CheckConfiguration(config) <=>
          /\ "" \notin {config.text[f] : f \in {"mqtturl", "topic"}}
          /\ "" \notin {Credentials(config)[f] : f \in DOMAIN Credentials(config)}

DeviceAsShownFor(n) ==
    \A page \in OpenedAndEdited(n) :
        IsAsShown(ConfigLoad(AddBuildDate(BuildJsonFromHtml(page))), page)
DeviceAsShownIn == {<<n, DeviceAsShownFor(n)>> : n \in Configs}

(* What a device makes of a posted page (config.cpp:117) is what the page    *)
(* shows: exactly the named meters, each with its divider if that is a       *)
(* positive int, a direct meter without a name as unknown, the types, the    *)
(* texts but the NTP server's, and the schedule.  And the texts without      *)
(* which the scheduler does not start (pcscheduler.cpp:266) are those the    *)
(* MQTT client logs in with (mqtt.cpp:64).                                   *)
DeviceAsShown == theConfiguration = Empty \/ <<theConfiguration, TRUE>> \in DeviceAsShownIn

Served(page) ==
    LET counters == ConfigLoad(BuildJsonFromHtml(page)).counters
        without == DOMAIN counters \ WithSlot(ConfigLoad(BuildJsonFromHtml(page)))
        named == Cardinality({p \in Ports : ~Direct(p) /\ page.name[p] # ""})
    IN  /\ \A i \in without :
              counters[i].outputPort = NoOutput => page.name[PortsOf(counters[i])] = ""
        /\ named <= Slots - NumIns => without = {}

SlotsServeFor(n) == \A page \in OpenedAndEdited(n) : Served(page)
SlotsServeIn == {<<n, SlotsServeFor(n)>> : n \in Configs}

(* After a restart the table of the pulse counter (pulsecounter.cpp:216) has *)
(* a slot for every direct meter that has a name in the page in the flash,   *)
(* and for every meter as long as no more are named in the matrix than the   *)
(* direct lines, which are always there, leave room for.  Nothing is said of *)
(* a matrix with more of them.                                               *)
SlotsServe == <<flash, TRUE>> \in SlotsServeIn

\* What the user can do: click a button that is there, or choose a type.
NextPanels(panels) ==
    {Toggle(panels, b) :
        b \in {Configuration} \cup {Out(o) : o \in {q \in Outs : panels[q].button}}}
    \cup {CategoryHeaderUpdateActive(panels, o, type) : o \in Outs, type \in -1 .. 1}

PanelsFollow(panels) ==
    /\ \A o \in Outs : panels[o].button <=> panels[o].type # NoType
    /\ \A o \in Outs : panels[o].open => panels[o].type # NoType
    /\ Cardinality({o \in Outs : panels[o].open}) <= 1

OutputsReachableFor(n) ==
    \A first \in {NewPanels(BuildConfigHtml(Json(n)))} :
        \A second \in NextPanels(first) : \A third \in NextPanels(second) :
            \A panels \in {first, second, third} \cup NextPanels(third) : PanelsFollow(panels)
OutputsReachableIn == {<<n, OutputsReachableFor(n)>> : n \in Configs}

(* Whatever is clicked and chosen in the page of the configuration in the    *)
(* flash (pulse.js:5, 231), at most one output shows its meters, only one    *)
(* that has a type, and each that has a type has the button to show them:    *)
(* none is lost behind a hidden body.                                        *)
OutputsReachable == <<flash, TRUE>> \in OutputsReachableIn
=============================================================================
