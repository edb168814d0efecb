--------------------------- MODULE OtaUpdateProofs ---------------------------
(***************************************************************************)
(* What holds of the over-the-air update for every number of pages, files, *)
(* chunks, faults and restarts: the types, that the buffer is allocated    *)
(* while a request is received, and that only a whole image is booted.     *)
(***************************************************************************)
EXTENDS OtaUpdate, TLAPS

\* The chunks of a file are measured in naturals: what is expected of a request is one.
LEMMA LengthType ==
    ASSUME NEW p \in Pages, NEW c \in Nat
    PROVE  /\ ChunkSize(p) \in Nat
           /\ Offset(p, c) \in Nat
           /\ ContentLength(p, c) \in Nat
<1>1. /\ Size[p] \in Nat \ {0}
      /\ NumChunks \in Nat \ {0}
  BY OtaAssumption
<1>2. ChunkSize(p) \in Nat
  BY <1>1 DEF ChunkSize
<1>3. /\ c * ChunkSize(p) \in Nat
      /\ (c + 1) * ChunkSize(p) \in Nat
      /\ c * ChunkSize(p) <= (c + 1) * ChunkSize(p)
  BY <1>2
<1>4. /\ Offset(p, c) \in Nat
      /\ Offset(p, c + 1) \in Nat
      /\ Offset(p, c) <= Offset(p, c + 1)
  BY <1>1, <1>3 DEF Offset, AtMost
<1> QED
  BY <1>2, <1>4 DEF ContentLength

\* A piece that is received is a sequence of bytes of the requesting page's file.
LEMMA PieceType ==
    ASSUME TypeOK, pc = "receive", NEW n \in Nat
    PROVE  Piece(n) \in Seq(Bytes)
<1>1. request.page \in Pages /\ request.chunk \in Nat /\ request.received \in Nat
  BY DEF TypeOK, Requests
<1>2. Offset(request.page, request.chunk) \in Nat
  BY <1>1, LengthType
<1>3. \A i \in 1 .. n :
         <<request.page, Offset(request.page, request.chunk) + request.received + i>> \in Bytes
  BY <1>1, <1>2 DEF Bytes
<1> QED
  BY <1>3 DEF Piece

LEMMA RequestType ==
    ASSUME TypeOK, NEW p \in Pages
    PROVE  ServedRequest(p) \in Requests /\ ServedRequest(p).page = p
BY DEF ServedRequest, Requests, TypeOK

LEMMA NoRequestType == NoRequest \in Requests
BY DEF NoRequest, Requests

\* More of a request was received, or its page is gone.
LEMMA RequestUpdated ==
    ASSUME NEW r \in Requests, NEW n \in Nat
    PROVE  /\ [r EXCEPT !.received = @ + n] \in Requests
           /\ [r EXCEPT !.received = @ + n].page = r.page
           /\ [r EXCEPT !.connected = FALSE] \in Requests
           /\ [r EXCEPT !.connected = FALSE].page = r.page
<1>1. /\ [r EXCEPT !.received = @ + n] \in Requests
      /\ [r EXCEPT !.received = @ + n].page = r.page
  <2>1. r.received + n \in Nat
    BY DEF Requests
  <2> QED
    BY <2>1 DEF Requests
<1>2. [r EXCEPT !.connected = FALSE] \in Requests
  BY DEF Requests
<1>3. [r EXCEPT !.connected = FALSE].page = r.page
  BY DEF Requests
<1> QED
  BY <1>1, <1>2, <1>3

LEMMA OverType ==
    ASSUME TypeOK, NEW s \in Statuses, Over(s)
    PROVE  status' \in [Pages -> Statuses]
BY DEF Over, TypeOK

LEMMA RestartedType ==
    ASSUME TypeOK, NEW s \in Statuses, Restarted(s)
    PROVE  /\ status' \in [Pages -> Statuses]
           /\ otaStarted' = FALSE /\ otaSize' = 0 /\ otaReceived' = 0
           /\ otaBuffer' = "null" /\ handleOpen' = FALSE
           /\ pc' = "idle" /\ request' = NoRequest
BY DEF Restarted, Done, TypeOK, Statuses

\* One page's own steps and the serving of its request keep the types.
LEMMA PageTyped ==
    ASSUME TypeOK, NEW p \in Pages,
           StartUpload(p) \/ SendFileSlice(p) \/ Reload(p) \/ Serve(p)
    PROVE  TypeOK'
<1> USE DEF TypeOK, Statuses
<1>1. CASE StartUpload(p)
  BY <1>1 DEF StartUpload, globals
<1>2. CASE SendFileSlice(p)
  BY <1>2 DEF SendFileSlice, globals
<1>3. CASE Reload(p)
  <2>1. request' \in Requests
    BY <1>3, RequestUpdated DEF Reload
  <2>2. request'.page = request.page
    BY <1>3, RequestUpdated DEF Reload
  <2> QED
    BY <1>3, <2>1, <2>2 DEF Reload, Fault, globals
<1>4. CASE ServeEmpty(p)
  BY <1>4 DEF ServeEmpty, globals
<1>5. CASE ServeFirst(p)
  BY <1>5, RequestType, OtaAssumption DEF ServeFirst, pageVars
<1>6. CASE BeginFails(p)
  <2>1. status' \in [Pages -> Statuses] /\ Size[p] \in Nat /\ faults' \in Nat
    <3>1. status' \in [Pages -> Statuses]
      BY <1>6 DEF BeginFails
    <3>2. Size[p] \in Nat
      BY OtaAssumption
    <3>3. faults' \in Nat
      BY <1>6 DEF BeginFails, Fault
    <3> QED
      BY <3>1, <3>2, <3>3
  <2> QED
    BY <1>6, <2>1 DEF BeginFails
<1>7. CASE ServeNext(p)
  BY <1>7, RequestType DEF ServeNext, pageVars, globals
<1> QED
  BY <1>1, <1>2, <1>3, <1>4, <1>5, <1>6, <1>7 DEF Serve

\* Every step of the handler on the request it serves keeps the types.
LEMMA HandlerTyped == ASSUME TypeOK, Handler PROVE TypeOK'
<1>1. ASSUME NEW n \in 1 .. BufferSize, Receive(n) \/ WriteFails(n)
      PROVE  TypeOK'
  <2>1. pc = "receive" /\ n \in Nat /\ request.page \in Pages
    BY <1>1, OtaAssumption DEF Receive, WriteFails, TypeOK
  <2>2. Piece(n) \in Seq(Bytes)
    BY <2>1, PieceType
  <2>3. partition' \in Seq(Bytes)
    <3>1. partition \in Seq(Bytes)
      BY DEF TypeOK
    <3>2. partition \o Piece(n) \in Seq(Bytes)
      BY <2>2, <3>1
    <3> QED
      BY <1>1, <3>1, <3>2 DEF Receive, WriteFails
  <2>4. request' \in Requests /\ request'.page = request.page
    BY <1>1, <2>1, RequestUpdated DEF Receive, WriteFails, TypeOK
  <2>5. pc' \in {"idle", "receive", "answer"}
    BY <1>1 DEF Receive, WriteFails
  <2>6. faults' \in Nat /\ otaReceived' \in Nat
    BY <1>1, <2>1 DEF Receive, WriteFails, Fault, TypeOK
  <2> QED
    BY <1>1, <2>1, <2>3, <2>4, <2>5, <2>6 DEF Receive, WriteFails, TypeOK, pageVars
<1>2. CASE ReceiveTimeout
  BY <1>2 DEF ReceiveTimeout, Fault, TypeOK, pageVars, globals
<1>3. CASE ReceiveClosed
  BY <1>3 DEF ReceiveClosed, TypeOK, pageVars, globals
<1>4. Done => pc' = "idle" /\ request' \in Requests
  BY NoRequestType DEF Done
<1>5. "stuck" \in Statuses /\ "answered" \in Statuses
  BY DEF Statuses
<1>6. CASE ReceiveError
  BY <1>4, <1>5, <1>6, OverType DEF ReceiveError, Fault, TypeOK, globals
<1>7. CASE Answer
  BY <1>4, <1>5, <1>7, OverType DEF Answer, TypeOK, globals
<1>8. CASE EndFails \/ BootNotSet
  <2>1. EndsWithoutRestart /\ faults' \in Nat
    BY <1>8 DEF EndFails, BootNotSet, Fault, TypeOK
  <2> QED
    BY <1>4, <1>5, <2>1, OverType DEF EndsWithoutRestart, Cleared, TypeOK
<1>9. CASE EndAndRestart
  <2>1. << >> \in Seq(Bytes)
    OBVIOUS
  <2>2. Restarted("answered")
    BY <1>9 DEF EndAndRestart
  <2>3. status' \in [Pages -> Statuses] /\ request' \in Requests
    BY <1>5, <2>2, RestartedType, NoRequestType
  <2> QED
    BY <1>9, <2>1, <2>3 DEF EndAndRestart, Restarted, Done, TypeOK
<1> QED
  BY <1>1, <1>2, <1>3, <1>6, <1>7, <1>8, <1>9 DEF Handler

\* Every variable of the update keeps its type, whatever is uploaded and whatever fails.
THEOREM TypeCorrect == Spec => []TypeOK
<1>1. Init => TypeOK
  <2> SUFFICES ASSUME Init PROVE TypeOK
    OBVIOUS
  <2>1. status \in [Pages -> Statuses] /\ chunk \in [Pages -> Nat]
    BY DEF Init, Statuses
  <2>2. partition \in Seq(Bytes) /\ bootPartition \in Seq(Bytes)
    BY DEF Init
  <2> QED
    BY <2>1, <2>2, NoRequestType DEF Init, TypeOK
<1>2. TypeOK /\ [Next]_vars => TypeOK'
  <2> SUFFICES ASSUME TypeOK, [Next]_vars PROVE TypeOK'
    OBVIOUS
  <2>1. CASE PowerFailure
    <3>1. "stuck" \in Statuses
      BY DEF Statuses
    <3>2. Restarted("stuck")
      BY <2>1 DEF PowerFailure
    <3>3. status' \in [Pages -> Statuses] /\ request' \in Requests
      BY <3>1, <3>2, RestartedType, NoRequestType
    <3>4. faults' \in Nat
      BY <2>1 DEF PowerFailure, Fault, TypeOK
    <3>5. /\ otaStarted' = FALSE /\ otaSize' = 0 /\ otaReceived' = 0
          /\ otaBuffer' = "null" /\ handleOpen' = FALSE /\ pc' = "idle"
      BY <3>1, <3>2, RestartedType
    <3> QED
      BY <2>1, <3>3, <3>4, <3>5 DEF PowerFailure, TypeOK
  <2>2. CASE UNCHANGED vars
    BY <2>2 DEF TypeOK, vars, pageVars, globals
  <2> QED
    BY <2>1, <2>2, PageTyped, HandlerTyped DEF Next
<1> QED
  BY <1>1, <1>2, PTL DEF Spec

\* The receive buffer of postUpdateHandler is allocated whenever a request is received,
\* and freed once: otaBuffer and otaStarted agree, also after an update that failed to
\* begin, was cut off, was rejected, or was taken up by another page's request.
THEOREM BufferAlwaysHeld == Spec => []BufferHeld
<1>1. Init => BufferHeld
  BY DEF Init, BufferHeld
<1>2. BufferHeld /\ [Next]_vars => BufferHeld'
  <2> SUFFICES ASSUME BufferHeld, [Next]_vars PROVE BufferHeld'
    OBVIOUS
  <2> USE DEF BufferHeld
  <2>1. ASSUME NEW p \in Pages, StartUpload(p) \/ SendFileSlice(p) \/ Reload(p) \/ ServeEmpty(p)
        PROVE  BufferHeld'
    BY <2>1 DEF StartUpload, SendFileSlice, Reload, ServeEmpty, globals
  <2>2. ASSUME NEW p \in Pages, ServeFirst(p) \/ BeginFails(p)
        PROVE  BufferHeld'
    BY <2>2 DEF ServeFirst, BeginFails
  <2>3. ASSUME NEW p \in Pages, ServeNext(p)
        PROVE  BufferHeld'
    BY <2>3 DEF ServeNext, globals
  <2>4. ASSUME NEW n \in 1 .. BufferSize, Receive(n) \/ WriteFails(n)
        PROVE  BufferHeld'
    BY <2>4 DEF Receive, WriteFails
  <2>5. CASE ReceiveTimeout \/ ReceiveClosed
    BY <2>5 DEF ReceiveTimeout, ReceiveClosed, globals
  <2>6. CASE ReceiveError \/ Answer
    BY <2>6 DEF ReceiveError, Answer, Done, globals
  <2>7. CASE EndFails \/ BootNotSet
    BY <2>7 DEF EndFails, BootNotSet, EndsWithoutRestart, Done, Cleared
  <2>8. CASE EndAndRestart \/ PowerFailure
    BY <2>8 DEF EndAndRestart, PowerFailure, Restarted, Done
  <2>9. CASE UNCHANGED vars
    BY <2>9 DEF vars, globals
  <2> QED
    BY <2>1, <2>2, <2>3, <2>4, <2>5, <2>6, <2>7, <2>8, <2>9 DEF Next, Serve, Handler
<1> QED
  BY <1>1, <1>2, PTL DEF Spec

\* The device never boots from a partition that is not the whole file of one page, however
\* many pages upload at once and whichever chunks are cut short, lost or written twice.
THEOREM WholeImagesOnly == Spec => []BootsOnlyWhole
<1>1. Init => BootsOnlyWhole
  BY DEF Init, BootsOnlyWhole
<1>2. BootsOnlyWhole /\ [Next]_vars => BootsOnlyWhole'
  <2> SUFFICES ASSUME BootsOnlyWhole, [Next]_vars PROVE BootsOnlyWhole'
    OBVIOUS
  <2>1. CASE EndAndRestart
    BY <2>1 DEF EndAndRestart, Bootable, BootsOnlyWhole, IsImage, Whole
  <2>2. CASE bootPartition' = bootPartition
    BY <2>2 DEF BootsOnlyWhole, IsImage, Whole
  <2>3. ASSUME NEW p \in Pages, StartUpload(p) \/ SendFileSlice(p) \/ Reload(p) \/ Serve(p)
        PROVE  bootPartition' = bootPartition
    BY <2>3 DEF StartUpload, SendFileSlice, Reload, Serve, ServeEmpty, ServeFirst, BeginFails,
                ServeNext
  <2>4. CASE Handler
    BY <2>1, <2>2, <2>4 DEF Handler, Receive, WriteFails, ReceiveTimeout, ReceiveClosed,
                            ReceiveError, Answer, EndFails, BootNotSet,
                            EndsWithoutRestart
  <2>5. CASE PowerFailure \/ UNCHANGED vars
    BY <2>2, <2>5 DEF PowerFailure, vars
  <2> QED
    BY <2>2, <2>3, <2>4, <2>5 DEF Next
<1> QED
  BY <1>1, <1>2, PTL DEF Spec
=============================================================================
