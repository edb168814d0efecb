------------------------------ MODULE StatusPage ------------------------------
(***************************************************************************)
(* What the page shows of a device that runs: getHandler of                *)
(* src/websrvplscount.cpp, getStatusJson and resetLastSeconds of           *)
(* lib/pulsecounter, and updateLastCount of lib/common/html/pulse.js,      *)
(* which asks for the status every five seconds.                           *)
(*                                                                         *)
(* A response is [status, json]: json is a sequence with the value that    *)
(* was parsed, and empty when the body is no JSON.                         *)
(***************************************************************************)
EXTENDS Integers, Sequences, FiniteSetsExt

NoInputPort == 255

PageFiles == {"pulse.js", "ota.js", "pulse.css"}
PageRequests == {"api/config", "api/status", "api/restartSchedule", "api/resetTicks"}
PagePosts == {"api/config", "api/update"}

\* The first handler whose pattern the request matches.
UriHandlers ==
    <<[method |-> "GET", uris |-> PageFiles \cup PageRequests \cup PagePosts,
       handler |-> "getHandler"],
      [method |-> "POST", uris |-> {"api/config"}, handler |-> "postConfigHandler"],
      [method |-> "POST", uris |-> {"api/update"}, handler |-> "postUpdateHandler"]>>
Matching(method, uri) ==
    {i \in DOMAIN UriHandlers : UriHandlers[i].method = method /\ uri \in UriHandlers[i].uris}
HandlerOf(method, uri) == UriHandlers[Min(Matching(method, uri))].handler

\* What getHandler sends, one after the other; after pulse.js it does not stop.
GetHandler(uri) ==
    (IF uri = "pulse.js" THEN <<uri>> ELSE <<>>)
    \o <<IF uri \in PageRequests \cup (PageFiles \ {"pulse.js"}) THEN uri ELSE "index.html">>
-----------------------------------------------------------------------------
(* The device                                                               *)

ResetLastSeconds(slots) == [i \in DOMAIN slots |-> [slots[i] EXCEPT !.lastSecond = 0]]

Only(present, item) == IF present THEN <<item>> ELSE <<>>
Item(slot) ==
    [input |-> slot.numInputPort, output |-> slot.numOutPort,
     last |-> slot.counter, lastSecond |-> slot.lastSecond]
InUse(slot) == slot.numInputPort # NoInputPort
Items(slots) ==
    LET after[i \in 0 .. Len(slots)] ==
            IF i = 0 THEN <<>>
            ELSE IF InUse(slots[i]) THEN Append(after[i - 1], Item(slots[i]))
            ELSE after[i - 1]
    IN  after[Len(slots)]

\* The text of an error lacks the quote that ends its message, and nothing after it can be
\* read (getErrorsString).
GetStatusJson(device) ==
    IF device.errors THEN <<>>
    ELSE <<Only(device.mqttStatus # 0, [lastPublished |-> device.mqttStatus])
           \o Only(device.schedulerRunTime # 0, [nextRunTime |-> device.schedulerRunTime])
           \o Items(device.slots)>>
-----------------------------------------------------------------------------
(* The page                                                                 *)

\* A request that is lost calls nobody back.
Lost == [status |-> 0, json |-> <<>>]
GetJSON(response) == IF response.status = 200 THEN response.json ELSE <<>>

Blank == [last |-> 0, unit |-> "none", ago |-> 0]

\* The count is shown for an hour after its last pulse.
Ago(s, now) ==
    LET minutes == (now - s.lastSecond) \div 60
    IN  IF minutes = 0 THEN [last |-> s.last, unit |-> "seconds", ago |-> 0]
        ELSE IF minutes < 60 THEN [last |-> s.last, unit |-> "minutes", ago |-> minutes]
        ELSE [last |-> 0, unit |-> "hours", ago |-> minutes \div 60]

LastCount(s, now) == IF s.lastSecond # 0 THEN Ago(s, now) ELSE Blank

\* The page's meters whose divisions have these names; an item of no meter finds none.
ItemsOf(result, d) ==
    {i \in DOMAIN result : "last" \in DOMAIN result[i] /\ <<result[i].output, result[i].input>> = d}
Published(result) == {i \in DOMAIN result : "lastPublished" \in DOMAIN result[i]}

\* Each item overwrites what one before it has shown.  The errors' division is emptied
\* whenever there are any items, since it has no paragraphs.
Text(page, result) ==
    IF Published(result) # {} THEN result[Max(Published(result))].lastPublished
    ELSE IF result # <<>> THEN 0 ELSE page.text
Meter(page, result, d, now) ==
    IF ItemsOf(result, d) # {} THEN LastCount(result[Max(ItemsOf(result, d))], now)
    ELSE page.meter[d]

Show(page, result, now) ==
    [page EXCEPT !.text = Text(page, result),
                 !.meter = [d \in DOMAIN page.meter |-> Meter(page, result, d, now)]]

\* One request at a time: while lastCountIsRunning the timer does nothing.
UpdateLastCount(page, response, now) ==
    IF page.lastCountIsRunning THEN page
    ELSE IF response = Lost THEN [page EXCEPT !.lastCountIsRunning = TRUE]
    ELSE IF GetJSON(response) = <<>> THEN page
    ELSE Show(page, Head(GetJSON(response)), now)
=============================================================================
