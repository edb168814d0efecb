------------------------------ MODULE ConfigForm ------------------------------
(***************************************************************************)
(* What becomes of a configuration on its way through the page and back:   *)
(* buildConfigHtml and buildJsonFromHtml of lib/common/html/pulse.js, and  *)
(* Config::getConfig of lib/config, which parses the same JSON for the     *)
(* device.                                                                 *)
(*                                                                         *)
(* The page's fields are `input` (texts), `list` (a schedule's texts), the *)
(* selections `method` and `type`, and for each counter `name` and         *)
(* `divider`, a number or Blank.  In the JSON a text may be missing.  The  *)
(* name of the NTP server is a field of the page that is neither saved nor *)
(* shown again.                                                            *)
(***************************************************************************)
EXTENDS ScheduleText

CONSTANTS
    NumOuts,    \* the output ports, 8
    NumIns,     \* the input ports, 16
    Slots,      \* the size of Pulsecounter's pulseCounters, 128
    INT_MAX

NoOutput == 255
Outs == 0 .. NumOuts - 1
Ins == 0 .. NumIns - 1
Ports == (Outs \cup {NoOutput}) \X Ins
Direct(p) == p[1] = NoOutput

ASSUME FormAssumption ==
    /\ NumOuts \in 0 .. NoOutput /\ NumIns \in 0 .. NoOutput
    /\ Slots \in Nat /\ Slots >= NumIns
    /\ INT_MAX \in Nat /\ INT_MAX >= NoOutput

NetworkTexts == {"hostname", "sslhost", "sslhostkey", "sslca", "logdestination", "logdebugtags"}
MqttTexts == {"mqtturl", "username", "password", "topic"}
SavedTexts == NetworkTexts \cup MqttTexts
PageTexts == SavedTexts \cup {"ntpserver"}
Blank == -1
Sizes == [hour |-> 24, minute |-> 60, second |-> 60]

\* The names of buttons.
Configuration == <<"configuration">>
Out(o) == <<"out", o>>
SSL == 0
userPassword == 1
NoType == -1
EMeterType == 0
-----------------------------------------------------------------------------
(* The page's fields as JSON: buildJsonFromHtml                             *)

Unknown(p) == "unknown_" \o ToString(p[2])

\* Number() of what is in the field.
NumberOf(divider) == IF divider = Blank THEN 0 ELSE divider

\* A direct line is always counted, a place in the matrix only if it has a name.
Counter(page, p) ==
    LET named == page.name[p] # ""
    IN  [outputPort |-> p[1], inputPort |-> p[2],
         divider |-> IF named THEN NumberOf(page.divider[p]) ELSE 100,
         mqttname |-> IF named THEN page.name[p] ELSE Unknown(p),
         unconfigured |-> ~named]

Pushed(counters, page, p) ==
    IF page.name[p] # "" \/ Direct(p) THEN Append(counters, Counter(page, p)) ELSE counters

\* The inputs of one output, and those of all outputs: the document begins with the direct
\* lines.
Inputs(counters, page, o) ==
    LET after[i \in 0 .. NumIns] ==
            IF i = 0 THEN counters ELSE Pushed(after[i - 1], page, <<o, i - 1>>)
    IN  after[NumIns]

DirectLast(page) ==    \* mutant: it ends with them
    LET after[o \in 0 .. NumOuts] ==
            IF o = 0 THEN <<>> ELSE Inputs(after[o - 1], page, o - 1)
    IN  Inputs(after[NumOuts], page, NoOutput)
Counters(page) ==
    LET after[o \in 0 .. NumOuts] ==
            IF o = 0 THEN Inputs(<<>>, page, NoOutput) ELSE Inputs(after[o - 1], page, o - 1)
    IN  after[NumOuts]

AddOutput(page, o) == [port |-> o, type |-> page.type[o]]
NoOutputs == [port |-> NoOutput, type |-> EMeterType]

BuildJsonFromHtml(page) ==
    [text |-> [f \in SavedTexts |-> page.input[f]], method |-> page.method,
     schedule |-> [f \in DOMAIN Sizes |-> BuildTimeArray(page.list[f], Sizes[f])],
     counters |-> Counters(page),
     outputs |-> <<NoOutputs>> \o [i \in 1 .. NumOuts |-> AddOutput(page, i - 1)],
     builddate |-> ""]
-----------------------------------------------------------------------------
(* The JSON in the page: buildConfigHtml                                    *)

Text(json, f) == IF f \in DOMAIN json.text THEN json.text[f] ELSE ""

\* copyInputHtml: the first counter of these ports, unless the page has added it itself.
PortsOf(counter) == <<counter.outputPort, counter.inputPort>>
CountersAt(json, p) == {i \in DOMAIN json.counters : PortsOf(json.counters[i]) = p}
FirstAt(json, p) == json.counters[Min(CountersAt(json, p))]
AnyCounter(json, p) == CountersAt(json, p) # {}    \* mutant: those as well
Shows(json, p) == CountersAt(json, p) # {} /\ ~FirstAt(json, p).unconfigured

\* copyOutputsHtml takes the first output of a port, what is set afterwards is the last.
TypeOf(json, o) ==
    LET at == {i \in DOMAIN json.outputs : json.outputs[i].port = o}
    IN  IF at = {} THEN NoType ELSE json.outputs[Max(at)].type

BuildConfigHtml(json) ==
    [input |-> [f \in PageTexts |-> IF f \in SavedTexts THEN Text(json, f) ELSE ""],
     list |-> [f \in DOMAIN Sizes |-> BuildScheduleString(json.schedule[f], Sizes[f])],
     method |-> json.method,
     type |-> [o \in Outs |-> TypeOf(json, o)],
     name |-> [p \in Ports |-> IF Shows(json, p) THEN FirstAt(json, p).mqttname ELSE ""],
     divider |-> [p \in Ports |->
         IF Shows(json, p) /\ FirstAt(json, p).divider # 0 THEN FirstAt(json, p).divider ELSE Blank]]
-----------------------------------------------------------------------------
(* Opening, saving, downloading and importing.  A file is a sequence: empty *)
(* when it is no configuration that has a network.                          *)

DownloadConfiguration(page) == <<BuildJsonFromHtml(page)>>
ImportConfig(file) == <<file>>

\* What the device sends of its configuration; the page only displays the date.
AddBuildDate(json) == [json EXCEPT !.builddate = "today"]

\* The file in localStorage is removed before it is read: one that cannot be shown is
\* answered with an alert and the page is opened again without it.
Opened(importJSON, inFlash) ==
    BuildConfigHtml(IF importJSON # <<>> /\ Head(importJSON) # <<>> THEN Head(Head(importJSON))
                    ELSE AddBuildDate(inFlash))

\* Anything but 200 gives an alert, and the page stays.
SendConfig(page, status, inFlash) ==
    IF status = 200 THEN Opened(<<>>, inFlash) ELSE page
-----------------------------------------------------------------------------
(* What is visible of the outputs: a panel has a type, a body that is open  *)
(* or not, and a button that is there or hidden.                            *)

NewPanels(page) ==
    [o \in Outs |->
        [type |-> page.type[o], open |-> FALSE, button |-> page.type[o] # NoType]]

ChangeVisibility(panel, show) ==
    [type |-> panel.type, open |-> show, button |-> panel.type # NoType]

\* The button of the Configuration is none of the outputs': its own category has no type
\* and is never closed.
Toggle(panels, clicked) ==
    [o \in Outs |-> ChangeVisibility(panels[o], Out(o) = clicked /\ ~panels[o].open)]

ButtonOnly(panel) == [panel EXCEPT !.button = FALSE]    \* mutant: the body stays
Inactive(panel) == ChangeVisibility(panel, FALSE)

CategoryHeaderUpdateActive(panels, o, type) ==
    [panels EXCEPT ![o] =
        IF type # NoType THEN [type |-> type, open |-> panels[o].open, button |-> TRUE]
        ELSE Inactive([panels[o] EXCEPT !.type = type])]
-----------------------------------------------------------------------------
(* The JSON in the device: Config::getConfig                                *)

\* A number that the type cannot hold is read as 0.
AsInt(n) == IF n <= INT_MAX THEN n ELSE 0
Signed(n) == IF n <= 127 THEN n ELSE 0               \* mutant: of a signed output port
Unsigned(n) == IF n \in 0 .. 255 THEN n ELSE 0

CounterConfigLoad(source) ==
    [mqttname |-> source.mqttname, outputPort |-> Unsigned(source.outputPort),
     inputPort |-> source.inputPort, divider |-> AsInt(source.divider)]
OutputConfigLoad(source) == [type |-> AsInt(source.type), port |-> AsInt(source.port)]
NetworkConfigLoad(json) == [f \in NetworkTexts \cup {"ntpserver"} |-> Text(json, f)]
MqttConfigLoad(json) ==
    [f \in MqttTexts |->
        IF f = "topic" /\ Text(json, f) = "" THEN "plscount" ELSE Text(json, f)]
ScheduleConfigLoad(source) ==
    [f \in DOMAIN Sizes |-> [i \in DOMAIN source[f] |-> AsInt(source[f][i])]]

ConfigLoad(json) ==
    [counters |-> [i \in DOMAIN json.counters |-> CounterConfigLoad(json.counters[i])],
     outputs |-> [i \in DOMAIN json.outputs |-> OutputConfigLoad(json.outputs[i])],
     text |-> [f \in PageTexts |->
                 IF f \in MqttTexts THEN MqttConfigLoad(json)[f] ELSE NetworkConfigLoad(json)[f]],
     method |-> json.method,
     schedule |-> ScheduleConfigLoad(json.schedule)]

\* What the flash gives as long as nothing was stored; a missing method is read as 0.
EmptyJson ==
    [counters |-> <<>>, outputs |-> <<>>, builddate |-> "",
     text |-> [hostname |-> "plscount", topic |-> "plscount"],
     method |-> SSL,
     schedule |-> [hour |-> [i \in 1 .. Sizes.hour |-> i - 1], minute |-> <<0>>, second |-> <<0>>]]

\* What an MQTT client needs with this method.
Required(method) ==
    CASE method = userPassword -> {"username", "password"}
      [] method = SSL -> {"sslca", "sslhost", "sslhostkey"}
      [] OTHER -> {}
CheckConfiguration(config) ==
    \A f \in {"mqtturl", "topic"} \cup Required(config.method) : config.text[f] # ""

\* MqttClient::init: what the client is given to log in with.
Credentials(config) ==
    [f \in CASE config.method = userPassword -> {"username", "password"}
             [] config.method = SSL -> {"sslca", "sslhost", "sslhostkey"}
             [] OTHER -> {} |-> config.text[f]]

\* Each counter takes the next slot of the pulse counter while there is one: the loop that
\* would find a counter of the same ports never runs.
WithSlot(config) == {i \in DOMAIN config.counters : i <= Slots}
=============================================================================
