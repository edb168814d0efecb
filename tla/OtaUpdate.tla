------------------------------ MODULE OtaUpdate ------------------------------
(***************************************************************************)
(* The over-the-air update: the page (ota.js) cuts a file into chunks and  *)
(* posts one after the other, each when the one before was answered; the   *)
(* handler (otaHandler.cpp) writes what it receives to the other partition *)
(* and, when as much came as the page announced, lets the library validate *)
(* the image, makes it the boot partition and restarts the device.         *)
(*                                                                         *)
(* The handler's globals live from one request to the next and are only    *)
(* set back by a restart.  The task of the web server serves one request   *)
(* at a time.  A byte is a pair <<page, position>> of the file of a page.  *)
(*                                                                         *)
(* External: httpd_req_recv and its errors, the OTA functions of ESP-IDF.  *)
(***************************************************************************)
EXTENDS Integers, Sequences

CONSTANTS
    Pages,          \* open pages, each with a file of its own
    NoPage,
    Size,           \* file.size
    NumChunks,      \* chunks the page cuts a file into
    BufferSize,     \* ota_buff_size
    MaxUploads,     \* bound: uploads the users start
    MaxFaults       \* bound: timeouts, errors of the network or the flash, closed pages,
                    \* power failures

ASSUME OtaAssumption ==
    /\ NoPage \notin Pages
    /\ Size \in [Pages -> Nat \ {0}]
    /\ NumChunks \in Nat \ {0}
    /\ BufferSize \in Nat \ {0}
    /\ MaxUploads \in Nat
    /\ MaxFaults \in Nat

AtMost(a, b) == IF a <= b THEN a ELSE b
Bytes == Pages \X (Nat \ {0})

\* The slice of a file that is a chunk's content; the last ones may be short or empty.
Floor(p) == Size[p] \div NumChunks             \* mutant: the rest of the file is forgotten
ChunkSize(p) == (Size[p] + NumChunks - 1) \div NumChunks
Offset(p, c) == AtMost(c * ChunkSize(p), Size[p])
ContentLength(p, c) == Offset(p, c + 1) - Offset(p, c)
-----------------------------------------------------------------------------
VARIABLES
    \* the pages
    status,             \* of a page: nothing yet, request sent, answered with 200, ...
    chunk,              \* currentChunk
    \* the globals of the handler
    otaStarted, otaSize, otaReceived,
    otaBuffer,          \* what the pointer points to
    handleOpen,         \* otaHandle names an update that was begun and not ended
    \* the request being served
    pc,
    request,            \* its page and chunk, content_received, and whether the page is still there
    \* the flash
    partition,          \* bytes written to otaUpdatePartition
    bootPartition,      \* the bytes of the image that boots next, << >> for the one delivered
    \* history and bounds
    uploads, faults

globals == <<otaStarted, otaSize, otaReceived, otaBuffer, handleOpen>>
pageVars == <<status, chunk>>
vars == <<pageVars, globals, pc, request, partition, bootPartition, uploads, faults>>

Statuses == {"idle", "sent", "answered", "reboot", "stuck"}
Requests == [page : Pages \cup {NoPage}, chunk : Nat, received : Nat, connected : BOOLEAN]
NoRequest == [page |-> NoPage, chunk |-> 0, received |-> 0, connected |-> FALSE]

TypeOK ==
    /\ status \in [Pages -> Statuses]
    /\ chunk \in [Pages -> Nat]
    /\ otaStarted \in BOOLEAN
    /\ otaSize \in Nat
    /\ otaReceived \in Nat
    /\ otaBuffer \in {"null", "allocated", "freed"}
    /\ handleOpen \in BOOLEAN
    /\ pc \in {"idle", "receive", "answer"}
    /\ request \in Requests
    /\ pc # "idle" => request.page \in Pages
    /\ partition \in Seq(Bytes)
    /\ bootPartition \in Seq(Bytes)
    /\ uploads \in Nat
    /\ faults \in Nat

Init ==
    /\ status = [p \in Pages |-> "idle"]
    /\ chunk = [p \in Pages |-> 0]
    /\ otaStarted = FALSE
    /\ otaSize = 0
    /\ otaReceived = 0
    /\ otaBuffer = "null"
    /\ handleOpen = FALSE
    /\ pc = "idle"
    /\ request = NoRequest
    /\ partition = << >>
    /\ bootPartition = << >>
    /\ uploads = 0
    /\ faults = 0

Fault ==
    /\ faults < MaxFaults
    /\ faults' = faults + 1
-----------------------------------------------------------------------------
(* The page                                                                 *)

\* The upload button, which stays disabled until the page is loaded again.
StartUpload(p) ==
    /\ status[p] = "idle"
    /\ uploads < MaxUploads
    /\ status' = [status EXCEPT ![p] = "sent"]
    /\ chunk' = [chunk EXCEPT ![p] = 0]
    /\ uploads' = uploads + 1
    /\ UNCHANGED <<globals, pc, request, partition, bootPartition, faults>>

\* 10 ms after an answer of 200 the page sends the next chunk; it waits for the
\* reboot when there is none left.
SendFileSlice(p) ==
    /\ status[p] = "answered"
    /\ chunk' = [chunk EXCEPT ![p] = @ + 1]
    /\ status' = [status EXCEPT ![p] = IF chunk[p] + 1 < NumChunks THEN "sent" ELSE "reboot"]
    /\ UNCHANGED <<globals, pc, request, partition, bootPartition, uploads, faults>>

\* The user loads the page again, whatever it was doing.
Reload(p) ==
    /\ status[p] # "idle"
    /\ Fault
    /\ status' = [status EXCEPT ![p] = "idle"]
    /\ request' = IF request.page = p THEN [request EXCEPT !.connected = FALSE] ELSE request
    /\ UNCHANGED <<chunk, globals, pc, partition, bootPartition, uploads>>
-----------------------------------------------------------------------------
(* The handler: postUpdateHandler                                           *)

\* What becomes of the page whose request is over; without an answer of 200 it does
\* nothing any more.
Over(newStatus) ==
    status' = IF request.connected THEN [status EXCEPT ![request.page] = newStatus] ELSE status

Done ==
    /\ pc' = "idle"
    /\ request' = NoRequest

Requested(p) ==
    /\ pc = "idle"
    /\ status[p] = "sent"

\* content_length < 1: ESP_OK without an answer.
ServeEmpty(p) ==
    /\ Requested(p)
    /\ ContentLength(p, chunk[p]) = 0
    /\ status' = [status EXCEPT ![p] = "stuck"]
    /\ UNCHANGED <<chunk, globals, pc, request, partition, bootPartition, uploads, faults>>

ServedRequest(p) == [page |-> p, chunk |-> chunk[p], received |-> 0, connected |-> TRUE]

\* The first chunk: a buffer, the announced size, a new update of the other partition.
ServeFirst(p) ==
    /\ Requested(p)
    /\ ContentLength(p, chunk[p]) > 0
    /\ ~ otaStarted
    /\ otaStarted' = TRUE
    /\ otaBuffer' = "allocated"
    /\ otaSize' = Size[p]
    /\ handleOpen' = TRUE
    /\ partition' = << >>
    /\ pc' = "receive"
    /\ request' = ServedRequest(p)
    /\ UNCHANGED <<pageVars, otaReceived, bootPartition, uploads, faults>>

\* No partition, or esp_ota_begin fails: ESP_FAIL closes the connection, but otaStarted is set.
BeginFails(p) ==
    /\ Requested(p)
    /\ ContentLength(p, chunk[p]) > 0
    /\ ~ otaStarted
    /\ Fault
    /\ otaStarted' = TRUE
    /\ otaBuffer' = "allocated"
    /\ otaSize' = Size[p]
    /\ status' = [status EXCEPT ![p] = "stuck"]
    /\ UNCHANGED <<chunk, otaReceived, handleOpen, pc, request, partition, bootPartition, uploads>>

ServeNext(p) ==
    /\ Requested(p)
    /\ ContentLength(p, chunk[p]) > 0
    /\ otaStarted
    /\ pc' = "receive"
    /\ request' = ServedRequest(p)
    /\ UNCHANGED <<pageVars, globals, partition, bootPartition, uploads, faults>>

Expected == ContentLength(request.page, request.chunk)
Piece(n) ==
    [i \in 1 .. n |-> <<request.page, Offset(request.page, request.chunk) + request.received + i>>]

\* httpd_req_recv gives some of the bytes that are left.  A write without an open
\* update fails, which nobody looks at: the bytes count all the same.
Receive(n) ==
    /\ pc = "receive"
    /\ request.connected
    /\ n <= AtMost(BufferSize, Expected - request.received)
    /\ partition' = IF handleOpen THEN partition \o Piece(n) ELSE partition
    /\ otaReceived' = otaReceived + n
    /\ request' = [request EXCEPT !.received = @ + n]
    /\ pc' = IF request.received + n < Expected THEN "receive" ELSE "answer"
    /\ UNCHANGED <<pageVars, otaStarted, otaSize, otaBuffer, handleOpen, bootPartition,
                   uploads, faults>>

\* A flash write that fails is not noticed either.
WriteFails(n) ==
    /\ pc = "receive"
    /\ request.connected
    /\ n <= AtMost(BufferSize, Expected - request.received)
    /\ Fault
    /\ otaReceived' = otaReceived + n
    /\ request' = [request EXCEPT !.received = @ + n]
    /\ pc' = IF request.received + n < Expected THEN "receive" ELSE "answer"
    /\ UNCHANGED <<pageVars, otaStarted, otaSize, otaBuffer, handleOpen, partition,
                   bootPartition, uploads>>

\* continue goes to the condition of the do-while, where recv_len is negative: the loop
\* ends, and the chunk counts as far as it came.
ReceiveTimeout ==
    /\ pc = "receive"
    /\ Fault
    /\ pc' = "answer"
    /\ UNCHANGED <<pageVars, globals, request, partition, bootPartition, uploads>>

\* The page closed the connection: httpd_req_recv returns 0.
ReceiveClosed ==
    /\ pc = "receive"
    /\ ~ request.connected
    /\ pc' = "answer"
    /\ UNCHANGED <<pageVars, globals, request, partition, bootPartition, uploads, faults>>

\* Any other error: ESP_FAIL.
ReceiveError ==
    /\ pc = "receive"
    /\ \/ Fault
       \/ ~ request.connected /\ UNCHANGED faults
    /\ Over("stuck")
    /\ Done
    /\ UNCHANGED <<chunk, globals, partition, bootPartition, uploads>>

Answer ==
    /\ pc = "answer"
    /\ otaReceived < otaSize
    /\ Over("answered")
    /\ Done
    /\ UNCHANGED <<chunk, globals, partition, bootPartition, uploads, faults>>

\* esp_ota_end takes the length of the image from its header and verifies its hash.
Whole(bytes, p) ==
    /\ Len(bytes) >= Size[p]
    /\ \A i \in 1 .. Size[p] : bytes[i] = <<p, i>>
IsImage(bytes) == \E p \in Pages : Whole(bytes, p)

Unchecked(ok) == TRUE                          \* mutant: the result of esp_ota_end is not used
Bootable(ok) == ok

Kept(started) == started                       \* mutant: otaStarted stays set
Cleared(started) == FALSE

\* As much came as was announced, and the update is over without a restart.
EndsWithoutRestart ==
    /\ pc = "answer"
    /\ otaReceived >= otaSize
    /\ otaBuffer' = "freed"
    /\ otaStarted' = Cleared(otaStarted)
    /\ handleOpen' = FALSE
    /\ Over("answered")
    /\ Done
    /\ UNCHANGED <<chunk, otaSize, otaReceived, partition, bootPartition, uploads>>

\* It is no image.
EndFails ==
    /\ ~ Bootable(handleOpen /\ IsImage(partition))
    /\ EndsWithoutRestart
    /\ UNCHANGED faults

\* The image is valid, but esp_ota_set_boot_partition fails.
BootNotSet ==
    /\ Bootable(handleOpen /\ IsImage(partition))
    /\ EndsWithoutRestart
    /\ Fault

\* A restart clears the globals and loses the requests that are not answered.
Restarted(newStatus) ==
    /\ otaStarted' = FALSE
    /\ otaSize' = 0
    /\ otaReceived' = 0
    /\ otaBuffer' = "null"
    /\ handleOpen' = FALSE
    /\ Done
    /\ status' = [p \in Pages |->
                     IF p = request.page /\ request.connected THEN newStatus
                     ELSE IF status[p] = "sent" THEN "stuck" ELSE status[p]]

\* The image is valid: boot partition, esp_restart.  The next update goes to the other partition.
EndAndRestart ==
    /\ pc = "answer"
    /\ otaReceived >= otaSize
    /\ Bootable(handleOpen /\ IsImage(partition))
    /\ bootPartition' = partition
    /\ partition' = << >>
    /\ Restarted("answered")
    /\ UNCHANGED <<chunk, uploads, faults>>

\* The device loses its power, or restarts for another reason.
PowerFailure ==
    /\ Fault
    /\ Restarted("stuck")
    /\ UNCHANGED <<chunk, partition, bootPartition, uploads>>
-----------------------------------------------------------------------------
Serve(p) == ServeEmpty(p) \/ ServeFirst(p) \/ BeginFails(p) \/ ServeNext(p)

Handler ==
    \/ \E n \in 1 .. BufferSize : Receive(n) \/ WriteFails(n)
    \/ ReceiveTimeout \/ ReceiveClosed \/ ReceiveError
    \/ Answer \/ EndFails \/ BootNotSet \/ EndAndRestart

Next ==
    \/ \E p \in Pages : StartUpload(p) \/ SendFileSlice(p) \/ Reload(p) \/ Serve(p)
    \/ Handler
    \/ PowerFailure

\* The page's timer runs out, and the web server's task serves what it was sent.
Fairness ==
    /\ \A p \in Pages : WF_vars(SendFileSlice(p)) /\ WF_vars(Serve(p))
    /\ WF_vars(Handler)

Spec == Init /\ [][Next]_vars
FairSpec == Spec /\ Fairness
-----------------------------------------------------------------------------
\* Every receive of a request goes into a buffer that is allocated, and it is freed once:
\* the pointer and otaStarted, two globals, agree whichever upload failed where.
BufferHeld ==
    /\ otaStarted <=> otaBuffer = "allocated"
    /\ pc # "idle" => otaBuffer = "allocated"

\* Chunks of two pages, a chunk that was cut short or a second upload end up in one
\* partition: the device never boots from one that is not the whole file of one page.
BootsOnlyWhole == bootPartition = << >> \/ IsImage(bootPartition)

\* The first upload since the start, if nothing disturbs it, is installed.
FirstUploadInstalls ==
    uploads = 1 /\ faults = 0 ~> bootPartition # << >> \/ uploads > 1 \/ faults > 0
=============================================================================
