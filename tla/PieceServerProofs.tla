------------------------- MODULE PieceServerProofs -------------------------
(***************************************************************************)
(* Safety of PieceServer for any number of clients, interfaces and pieces: *)
(* first the invariants of the locks and of the wakeups; then the account  *)
(* of every piece of a request while it goes through the callback table,   *)
(* the download thread and the worker, so that no client is sent a piece   *)
(* twice or let go with one missing; and that what the threads do is what  *)
(* PieceService promises.                                                  *)
(***************************************************************************)
EXTENDS PieceServer, TLAPS

USE DEF Step, Go, DlStep, storeVars, arbiterVars, taskVars, vars

\* A worker that walks over its request is looking at one of the file's pieces.
LEMMA WantedIsPiece ==
  ASSUME TypeOK, NEW c \in Clients, pc[c] \in {"send", "register"}
  PROVE  Wanted(c) \in Pieces
<1>1. Requests[c] \in Seq(Pieces)
  BY RequestAssumption
<1>2. next[c] \in 1 .. Len(Requests[c])
  BY DEF TypeOK
<1>3. QED
  BY <1>1, <1>2 DEF Wanted

\* The walk over a request goes on inside it, or is over.
LEMMA AfterPieceFacts ==
  ASSUME TypeOK, NEW c \in Clients, pc[c] \in {"send", "register"}
  PROVE  /\ next[c] + 1 \in Nat \ {0}
         /\ \/ AfterPiece(c) = "wait"
            \/ /\ AfterPiece(c) = "send"
               /\ next[c] + 1 \in 1 .. Len(Requests[c])
<1>1. Requests[c] \in Seq(Pieces) /\ next[c] \in 1 .. Len(Requests[c])
  BY RequestAssumption DEF TypeOK
<1>2. Len(Requests[c]) \in Nat
  BY <1>1
<1>3. QED
  BY <1>1, <1>2 DEF AfterPiece

\* No step leaves the types, and a worker's index stays inside its request.
LEMMA TypeStep ==
  ASSUME TypeOK, WorkerInv, [Next]_vars
  PROVE  TypeOK' /\ WorkerInv'
<1>a. /\ IfaceOf \in [Clients -> Ifaces]
      /\ NoSocket \notin Clients
      /\ Requests \in [Clients -> Seq(Pieces)]
  BY IfaceAssumption, NoSocketAssumption, RequestAssumption
<1> USE <1>a DEF TypeOK, WorkerInv, DlPoints, Serving, Guarded, Holding, Busy
<1>1. CASE Download
  <2>1. CASE \E p \in Pieces : RecvHeader(p)
    BY <2>1 DEF RecvHeader
  <2>2. CASE RecvPayload
    BY <2>2 DEF RecvPayload
  <2>3. CASE StoreStatus
    BY <2>3 DEF StoreStatus
  <2>4. CASE CountPiece
    BY <2>4 DEF CountPiece
  <2>5. CASE TakeCallbacks
    BY <2>5 DEF TakeCallbacks
  <2>6. ASSUME NEW c \in Clients, RunCallback(c)
        PROVE  TypeOK' /\ WorkerInv'
    <3>1. /\ \/ pc' = pc
             \/ /\ pc[c] = "blocked"
                /\ pc' = [pc EXCEPT ![c] = "woken"]
          /\ todo' = todo \ {c}
          /\ ready' = [ready EXCEPT ![c] = @ \cup {cur}]
          /\ dl' = dl
          /\ UNCHANGED <<have, filled, avail, callbacks, cur, arbiterVars,
                          taskVars, crashed>>
      BY <2>6 DEF RunCallback, Notified
    <3>2. CASE pc' = pc
      BY <3>1, <3>2
    <3>3. CASE pc[c] = "blocked" /\ pc' = [pc EXCEPT ![c] = "woken"]
      BY <3>1, <3>3
    <3>4. QED
      BY <3>1, <3>2, <3>3
  <2>7. CASE CallbacksDone
    BY <2>7 DEF CallbacksDone
  <2>8. QED
    BY <1>1, <2>1, <2>2, <2>3, <2>4, <2>5, <2>6, <2>7 DEF Download
<1>2. ASSUME NEW c \in Clients, Serve(c)
      PROVE  TypeOK' /\ WorkerInv'
  <2>1. CASE Request(c) \/ ReplyBusy(c) \/ ReplyNotAvail(c) \/ Admit(c) \/ Block(c) \/ BatchDone(c)
    BY <2>1 DEF Request, ReplyBusy, ReplyNotAvail, Admit, Block, BatchDone
  <2>2. CASE AcquireFlag(c)
    BY <2>2 DEF AcquireFlag
  <2>3. CASE AcquireStamp(c)
    BY <2>3 DEF AcquireStamp
  <2>4. CASE SendPiece(c)
    <3>1. /\ pc[c] \in {"send", "register"} /\ Wanted(c) \in Pieces
          /\ pc' = [pc EXCEPT ![c] = AfterPiece(c)]
          /\ next' = [next EXCEPT ![c] = @ + 1]
          /\ UNCHANGED <<served, batch>>
      BY <2>4, WantedIsPiece DEF SendPiece
    <3>2. /\ pc' \in [Clients -> Holding \cup {"idle", "acquire", "done"}]
          /\ next' \in [Clients -> Nat \ {0}]
          /\ \A d \in Clients \ {c} : pc'[d] = pc[d] /\ next'[d] = next[d]
          /\ pc'[c] = "wait" \/ pc'[c] = "send"
          /\ pc'[c] = "send" => next'[c] \in 1 .. Len(Requests[c])
      BY <3>1, AfterPieceFacts
    <3>3. sent' \in [Clients -> [Pieces -> Nat]]
      BY <2>4, <3>1 DEF SendPiece
    <3>4. TypeOK'
      BY <2>4, <3>2, <3>3 DEF SendPiece
    <3>5. WorkerInv'
      BY <3>1, <3>2
    <3>6. QED
      BY <3>4, <3>5
  <2>5. CASE QueuePiece(c)
    <3>1. pc[c] = "send" /\ Wanted(c) \in Pieces
      BY <2>5, WantedIsPiece DEF QueuePiece
    <3>2. QED
      BY <2>5, <3>1 DEF QueuePiece
  <2>6. CASE Register(c)
    <3>1. /\ pc[c] \in {"send", "register"} /\ Wanted(c) \in Pieces
          /\ pc' = [pc EXCEPT ![c] = AfterPiece(c)]
          /\ next' = [next EXCEPT ![c] = @ + 1]
          /\ UNCHANGED <<served, batch>>
      BY <2>6, WantedIsPiece DEF Register
    <3>2. /\ pc' \in [Clients -> Holding \cup {"idle", "acquire", "done"}]
          /\ next' \in [Clients -> Nat \ {0}]
          /\ \A d \in Clients \ {c} : pc'[d] = pc[d] /\ next'[d] = next[d]
          /\ pc'[c] = "wait" \/ pc'[c] = "send"
          /\ pc'[c] = "send" => next'[c] \in 1 .. Len(Requests[c])
      BY <3>1, AfterPieceFacts
    <3>3. callbacks' \subseteq Pieces \X Clients
      BY <2>6, <3>1 DEF Register
    <3>4. TypeOK'
      BY <2>6, <3>2, <3>3 DEF Register
    <3>5. WorkerInv'
      BY <3>1, <3>2
    <3>6. QED
      BY <3>4, <3>5
  <2>7. CASE RegisterTooLate(c)
    BY <2>7 DEF RegisterTooLate
  <2>8. CASE FinishRequest(c)
    BY <2>8 DEF FinishRequest
  <2>9. CASE TakeAtOnce(c) \/ TakeAfterWake(c)
    <3>1. TakeReady(c, "wait") \/ TakeReady(c, "woken")
      BY <2>9 DEF TakeAtOnce, TakeAfterWake
    <3>2. CASE TakeReady(c, "wait")
      BY <3>2 DEF TakeReady
    <3>3. CASE TakeReady(c, "woken")
      BY <3>3 DEF TakeReady
    <3>4. QED
      BY <3>1, <3>2, <3>3
  <2>10. CASE \E p \in Pieces : DrainPiece(c, p)
    BY <2>10 DEF DrainPiece
  <2>11. CASE ReleaseStamp(c)
    BY <2>11 DEF ReleaseStamp
  <2>12. CASE ReleaseFlag(c)
    BY <2>12 DEF ReleaseFlag
  <2>13. QED
    BY <1>2, <2>1, <2>2, <2>3, <2>4, <2>5, <2>6, <2>7, <2>8, <2>9, <2>10, <2>11, <2>12 DEF Serve
<1>3. ASSUME NEW c \in Clients, SpuriousWake(c)
      PROVE  TypeOK' /\ WorkerInv'
  BY <1>3 DEF SpuriousWake
<1>4. CASE UNCHANGED vars
  BY <1>4
<1>5. QED
  BY <1>1, <1>2, <1>3, <1>4 DEF Next, Halted

\* Steps of the workers that leave the interfaces alone, and of the download
\* thread: nobody starts or stops holding an interface.
LEMMA ArbiterStep ==
  ASSUME TypeOK, ArbiterInv, InterfaceExclusive, [Next]_vars
  PROVE  ArbiterInv' /\ InterfaceExclusive'
<1> USE IfaceAssumption DEF TypeOK, ArbiterInv, InterfaceExclusive, Busy,
                           Serving, Guarded, Holding
<1>1. ASSUME UNCHANGED arbiterVars,
             \A c \in Clients : pc'[c] \in Holding => pc[c] \in Holding,
             \A c \in Clients : pc'[c] \in Guarded => pc[c] \in Guarded
      PROVE  ArbiterInv' /\ InterfaceExclusive'
  BY <1>1
<1>2. CASE Download
  <2>1. CASE \E c \in Clients : RunCallback(c)
    BY <1>1, <2>1 DEF RunCallback, Notified
  <2>2. CASE ~ \E c \in Clients : RunCallback(c)
    BY <1>1, <1>2, <2>2 DEF Download, RecvHeader, RecvPayload, StoreStatus,
         CountPiece, TakeCallbacks, CallbacksDone
  <2>3. QED
    BY <2>1, <2>2
<1>3. ASSUME NEW c \in Clients, Serve(c)
      PROVE  ArbiterInv' /\ InterfaceExclusive'
  <2>1. CASE AcquireFlag(c)
    BY <2>1 DEF AcquireFlag
  <2>2. CASE AcquireStamp(c)
    BY <2>2 DEF AcquireStamp
  <2>3. CASE ReleaseStamp(c)
    BY <2>3 DEF ReleaseStamp
  <2>4. CASE ReleaseFlag(c)
    BY <2>4 DEF ReleaseFlag
  <2>5. CASE SendPiece(c) \/ Register(c)
    BY <1>1, <2>5 DEF SendPiece, Register, AfterPiece
  <2>6. CASE Request(c) \/ ReplyBusy(c) \/ ReplyNotAvail(c) \/ Admit(c)
    BY <1>1, <2>6 DEF Request, ReplyBusy, ReplyNotAvail, Admit
  <2>7. CASE QueuePiece(c) \/ RegisterTooLate(c) \/ FinishRequest(c)
    BY <1>1, <2>7 DEF QueuePiece, RegisterTooLate, FinishRequest
  <2>8. CASE Block(c) \/ BatchDone(c) \/ TakeAtOnce(c) \/ TakeAfterWake(c)
    BY <1>1, <2>8 DEF Block, BatchDone, TakeAtOnce, TakeAfterWake, TakeReady
  <2>9. CASE \E p \in Pieces : DrainPiece(c, p)
    BY <1>1, <2>9 DEF DrainPiece
  <2>10. QED
    BY <1>3, <2>1, <2>2, <2>3, <2>4, <2>5, <2>6, <2>7, <2>8, <2>9 DEF Serve
<1>4. ASSUME NEW c \in Clients, SpuriousWake(c)
      PROVE  ArbiterInv' /\ InterfaceExclusive'
  BY <1>1, <1>4 DEF SpuriousWake
<1>5. CASE UNCHANGED vars
  BY <1>1, <1>5
<1>6. QED
  BY <1>2, <1>3, <1>4, <1>5 DEF Next, Halted

\* The bytes of a piece come first, its status second, its callbacks last.
LEMMA DownloadStep ==
  ASSUME TypeOK, WorkerInv, DownloadInv, NoTornPiece, QueuedAreAvailable, [Next]_vars
  PROVE  DownloadInv' /\ NoTornPiece' /\ QueuedAreAvailable'
<1> USE DEF TypeOK, DownloadInv, NoTornPiece, QueuedAreAvailable
<1>1. CASE Download
  <2>1. CASE \E p \in Pieces : RecvHeader(p)
    BY <2>1 DEF RecvHeader
  <2>2. CASE RecvPayload
    BY <2>2 DEF RecvPayload
  <2>3. CASE StoreStatus
    BY <2>3 DEF StoreStatus
  <2>4. CASE CountPiece
    BY <2>4 DEF CountPiece
  <2>5. CASE TakeCallbacks
    BY <2>5 DEF TakeCallbacks
  <2>6. CASE \E c \in Clients : RunCallback(c)
    BY <2>6 DEF RunCallback, Notified
  <2>7. CASE CallbacksDone
    BY <2>7 DEF CallbacksDone
  <2>8. QED
    BY <1>1, <2>1, <2>2, <2>3, <2>4, <2>5, <2>6, <2>7 DEF Download
<1>2. ASSUME NEW c \in Clients, Serve(c)
      PROVE  DownloadInv' /\ NoTornPiece' /\ QueuedAreAvailable'
  <2>1. CASE SendPiece(c)
    BY <2>1, WantedIsPiece DEF SendPiece, AfterPiece
  <2>2. CASE \E p \in Pieces : DrainPiece(c, p)
    BY <2>2 DEF DrainPiece
  <2>3. CASE TakeAtOnce(c) \/ TakeAfterWake(c)
    BY <2>3 DEF TakeAtOnce, TakeAfterWake, TakeReady
  <2>4. CASE AcquireFlag(c) \/ AcquireStamp(c) \/ ReleaseStamp(c) \/ ReleaseFlag(c)
    BY <2>4 DEF AcquireFlag, AcquireStamp, ReleaseStamp, ReleaseFlag
  <2>5. CASE Request(c) \/ ReplyBusy(c) \/ ReplyNotAvail(c) \/ Admit(c)
    BY <2>5 DEF Request, ReplyBusy, ReplyNotAvail, Admit
  <2>6. CASE QueuePiece(c) \/ RegisterTooLate(c) \/ FinishRequest(c)
    BY <2>6 DEF QueuePiece, RegisterTooLate, FinishRequest
  <2>7. CASE Register(c)
    BY <2>7 DEF Register, AfterPiece
  <2>8. CASE Block(c) \/ BatchDone(c)
    BY <2>8 DEF Block, BatchDone
  <2>9. QED
    BY <1>2, <2>1, <2>2, <2>3, <2>4, <2>5, <2>6, <2>7, <2>8 DEF Serve
<1>3. ASSUME NEW c \in Clients, SpuriousWake(c)
      PROVE  DownloadInv' /\ NoTornPiece' /\ QueuedAreAvailable'
  BY <1>3 DEF SpuriousWake
<1>4. CASE UNCHANGED vars
  BY <1>4
<1>5. QED
  BY <1>1, <1>2, <1>3, <1>4 DEF Next, Halted

\* A piece a worker waits for moves from the callback table to the download
\* thread's hands, to the worker's, and is never dropped in between.
LEMMA WakeupStep ==
  ASSUME TypeOK, WorkerInv, NoLostWakeup, [Next]_vars
  PROVE  NoLostWakeup'
<1> USE DEF TypeOK, NoLostWakeup, OnItsWay
\* Steps that have no part in it.
<1>a. ASSUME UNCHANGED <<have, dl, cur, todo, callbacks, ready, batch, remaining, next>>,
             \A c \in Clients : pc[c] = "register" => pc'[c] = "register"
      PROVE  NoLostWakeup'
  BY <1>a DEF Wanted
<1>1. CASE Download
  <2>1. CASE \E p \in Pieces : RecvHeader(p)
    BY <2>1 DEF RecvHeader, Wanted
  <2>2. CASE RecvPayload
    BY <2>2 DEF RecvPayload, Wanted
  <2>3. CASE StoreStatus
    BY <2>3 DEF StoreStatus, Wanted
  <2>4. CASE CountPiece
    BY <2>4 DEF CountPiece, Wanted
  <2>5. CASE TakeCallbacks
    BY <2>5 DEF TakeCallbacks, Wanted
  <2>6. CASE \E c \in Clients : RunCallback(c)
    <3>1. PICK c \in Clients : RunCallback(c)
      BY <2>6
    <3>2. /\ dl = "notify" /\ dl' = dl /\ cur' = cur /\ have' = have
          /\ UNCHANGED <<callbacks, batch, remaining, next>>
          /\ todo' = todo \ {c}
          /\ ready' = [ready EXCEPT ![c] = @ \cup {cur}]
          /\ \A d \in Clients : pc[d] = "register" => pc'[d] = "register"
      BY <3>1 DEF RunCallback, Notified
    <3>3. QED
      BY <3>2 DEF Wanted
  <2>7. CASE CallbacksDone
    BY <2>7 DEF CallbacksDone, Wanted
  <2>8. QED
    BY <1>1, <2>1, <2>2, <2>3, <2>4, <2>5, <2>6, <2>7 DEF Download
<1>2. ASSUME NEW c \in Clients, Serve(c)
      PROVE  NoLostWakeup'
  <2>1. CASE SendPiece(c)
    BY <2>1 DEF SendPiece, AfterPiece, Wanted
  <2>2. CASE QueuePiece(c)
    BY <2>2 DEF QueuePiece, Wanted
  <2>3. CASE Register(c)
    BY <2>3, WantedIsPiece DEF Register, AfterPiece, StillMissing, Wanted
  <2>4. CASE RegisterTooLate(c)
    BY <1>a, <2>4 DEF RegisterTooLate
  <2>5. CASE TakeAtOnce(c) \/ TakeAfterWake(c)
    <3>1. /\ pc[c] \in {"wait", "woken"}
          /\ batch' = [batch EXCEPT ![c] = ready[c]]
          /\ ready' = [ready EXCEPT ![c] = {}]
          /\ UNCHANGED <<have, dl, cur, todo, callbacks, remaining, next>>
          /\ \A d \in Clients : pc[d] = "register" => pc'[d] = "register"
      BY <2>5 DEF TakeAtOnce, TakeAfterWake, TakeReady
    <3>2. batch[c] = {}
      BY <3>1 DEF WorkerInv
    <3>3. QED
      BY <3>1, <3>2 DEF Wanted
  <2>6. CASE \E p \in Pieces : DrainPiece(c, p)
    <3>1. PICK p \in Pieces : DrainPiece(c, p)
      BY <2>6
    <3>2. /\ batch' = [batch EXCEPT ![c] = @ \ {p}]
          /\ remaining' = [remaining EXCEPT ![c] = @ \ {p}]
          /\ UNCHANGED <<have, dl, cur, todo, callbacks, ready, next>>
          /\ \A d \in Clients : pc[d] = "register" => pc'[d] = "register"
      BY <3>1 DEF DrainPiece
    <3>3. QED
      BY <3>2 DEF Wanted
  <2>7. CASE AcquireFlag(c) \/ AcquireStamp(c) \/ ReleaseStamp(c) \/ ReleaseFlag(c)
    BY <1>a, <2>7 DEF AcquireFlag, AcquireStamp, ReleaseStamp, ReleaseFlag
  <2>8. CASE Request(c) \/ ReplyBusy(c) \/ ReplyNotAvail(c) \/ Admit(c)
    BY <1>a, <2>8 DEF Request, ReplyBusy, ReplyNotAvail, Admit
  <2>9. CASE FinishRequest(c) \/ Block(c) \/ BatchDone(c)
    BY <1>a, <2>9 DEF FinishRequest, Block, BatchDone
  <2>10. QED
    BY <1>2, <2>1, <2>2, <2>3, <2>4, <2>5, <2>6, <2>7, <2>8, <2>9 DEF Serve
<1>3. ASSUME NEW c \in Clients, SpuriousWake(c)
      PROVE  NoLostWakeup'
  BY <1>a, <1>3 DEF SpuriousWake
<1>4. CASE UNCHANGED vars
  BY <1>a, <1>4
<1>5. QED
  BY <1>1, <1>2, <1>3, <1>4 DEF Next, Halted

\* A source with all pieces or a destination with none.
LEMMA InitInv == Init => IndInv
<1> SUFFICES ASSUME Init PROVE IndInv
  OBVIOUS
<1> USE NumPiecesAssumption, IfaceAssumption, RequestAssumption
    DEF Init, initialize_source, initialize_receiver, Pieces
<1>1. TypeOK
  <2>1. cur \in Pieces /\ avail \in Nat
    OBVIOUS
  <2>2. \A c \in Clients : pc[c] \notin {"send", "register"}
    OBVIOUS
  <2>3. sent \in [Clients -> [Pieces -> Nat]] /\ next \in [Clients -> Nat \ {0}]
    OBVIOUS
  <2>4. pc \in [Clients -> Holding \cup {"idle", "acquire", "done"}]
    BY DEF Holding
  <2>5. QED
    BY <2>1, <2>2, <2>3, <2>4 DEF TypeOK, DlPoints
<1>2. \A c \in Clients : 1 \in 1 .. Len(Requests[c])
  <2>1. ASSUME NEW c \in Clients
        PROVE  1 \in 1 .. Len(Requests[c])
    <3>1. Requests[c] \in Seq(Pieces) /\ Requests[c] # << >>
      OBVIOUS
    <3>2. QED
      BY <3>1
  <2>2. QED
    BY <2>1
<1>3. WorkerInv
  BY <1>2 DEF WorkerInv
<1>4. ArbiterInv /\ InterfaceExclusive
  BY DEF ArbiterInv, InterfaceExclusive, Holding, Guarded, Serving
<1>5. DownloadInv /\ NoTornPiece /\ QueuedAreAvailable
  BY DEF DownloadInv, NoTornPiece, QueuedAreAvailable
<1>6. NoLostWakeup
  BY DEF NoLostWakeup
<1>7. QED
  BY <1>1, <1>3, <1>4, <1>5, <1>6 DEF IndInv

\* The conjunction of all the above is inductive.
THEOREM Inductive == Spec => []IndInv
<1>1. IndInv /\ [Next]_vars => IndInv'
  BY TypeStep, ArbiterStep, DownloadStep, WakeupStep DEF IndInv
<1>2. QED
  BY InitInv, <1>1, PTL DEF Spec

\* The state of every thread stays in its type, and a worker that walks over
\* its request stays inside it.
THEOREM TypeCorrect == Spec => []TypeOK
<1>1. IndInv => TypeOK
  BY DEF IndInv
<1>2. QED
  BY Inductive, <1>1, PTL

\* acquire_inter and release_inter keep two clients off one interface, and
\* release_inter's assertion holds, for any number of clients and interfaces.
THEOREM ExclusiveInterfaces == Spec => []InterfaceExclusive
<1>1. IndInv => InterfaceExclusive
  BY DEF IndInv
<1>2. QED
  BY Inductive, <1>1, PTL

\* No client is ever sent a piece whose bytes are not all in the file.
THEOREM NothingTorn == Spec => []NoTornPiece
<1>1. IndInv => NoTornPiece
  BY DEF IndInv
<1>2. QED
  BY Inductive, <1>1, PTL

\* What a worker is handed is there to be sent, and it does not sleep over it.
THEOREM QueuedPiecesAvailable == Spec => []QueuedAreAvailable
<1>1. IndInv => QueuedAreAvailable
  BY DEF IndInv
<1>2. QED
  BY Inductive, <1>1, PTL

\* No wakeup is lost between the download thread and the workers, wherever
\* the arrival of a piece falls in a worker's registration for it.
THEOREM WakeupsKept == Spec => []NoLostWakeup
<1>1. IndInv => NoLostWakeup
  BY DEF IndInv
<1>2. QED
  BY Inductive, <1>1, PTL

-----------------------------------------------------------------------------
(* The account of a request.                                               *)

HIDE DEF Step, Go, DlStep, storeVars, arbiterVars, taskVars, vars

\* The part of c's request the worker has been over.
Walked(c) == {Requests[c][i] : i \in 1 .. next[c] - 1}

\* Where a piece that was queued for c can be on its way to c's worker: in the
\* callback table, with the download thread, in ready[c] or in batch[c].
Registered(c) == {p \in Pieces : <<p, c>> \in callbacks}
Taken(c) == IF c \in todo THEN {cur} ELSE {}

\* A piece of the request was sent once if the worker has been over it and it
\* is not among those that remain; no other piece was sent.
Ledger(c) ==
  /\ \A p \in Pieces : sent[c][p] = IF p \in Walked(c) \ remaining[c] THEN 1 ELSE 0
  /\ remaining[c] \subseteq Walked(c) \cup (IF pc[c] = "register" THEN {Wanted(c)} ELSE {})
  /\ pc[c] = "register" => Wanted(c) \in remaining[c]

\* A piece is on its way in one place only, and only while it remains.
PlacedOnce(c) ==
  /\ Registered(c) \cup Taken(c) \cup ready[c] \cup batch[c]
       \subseteq remaining[c] \cap Walked(c)
  /\ Registered(c) \cap (Taken(c) \cup ready[c] \cup batch[c]) = {}
  /\ Taken(c) \cap (ready[c] \cup batch[c]) = {}
  /\ ready[c] \cap batch[c] = {}

\* A worker waits, or is done, only past the end of its request.
WalkOver(c) ==
  /\ next[c] <= Len(Requests[c]) + 1
  /\ pc[c] \in {"wait", "blocked", "woken", "drain"} \/ c \in served
       => next[c] = Len(Requests[c]) + 1
  /\ c \in served => remaining[c] = {} /\ pc[c] \in {"unstamp", "free", "done"}

\* What the download thread handles is new until it is stored, the callbacks it
\* has taken are called before it goes on, and the counter follows the status.
ArrivalInv ==
  /\ dl \in {"payload", "status"} => cur \notin have
  /\ dl # "notify" => todo = {}
  /\ avail # 0 => have # {}

Account(c) == Ledger(c) /\ PlacedOnce(c) /\ WalkOver(c)
AccountInv == ArrivalInv /\ \A c \in Clients : Account(c)

-----------------------------------------------------------------------------
(* The walk over a request.                                                  *)

\* A step of the walk adds the piece that is looked at, which is a new one.
LEMMA WalkOn ==
  ASSUME TypeOK, NEW c \in Clients, pc[c] \in {"send", "register"},
         next'[c] = next[c] + 1
  PROVE  /\ Walked(c)' = Walked(c) \cup {Wanted(c)}
         /\ Wanted(c) \notin Walked(c) /\ Wanted(c) \in Pieces
         /\ next'[c] <= Len(Requests[c]) + 1
         /\ AfterPiece(c) = "wait" => next'[c] = Len(Requests[c]) + 1
<1>1. next[c] \in 1 .. Len(Requests[c]) /\ Len(Requests[c]) \in Nat
  BY RequestAssumption DEF TypeOK
<1>2. 1 .. next'[c] - 1 = (1 .. next[c] - 1) \cup {next[c]}
  BY <1>1
<1>3. Walked(c)' = Walked(c) \cup {Wanted(c)}
  BY <1>2 DEF Walked, Wanted
<1>4. Wanted(c) \notin Walked(c)
  <2>1. \A i \in 1 .. next[c] - 1 : i \in 1 .. Len(Requests[c]) /\ i # next[c]
    BY <1>1
  <2>2. QED
    BY <1>1, <2>1, RequestAssumption DEF Walked, Wanted
<1>5. AfterPiece(c) = "wait" => next[c] = Len(Requests[c])
  BY DEF AfterPiece
<1>6. QED
  BY <1>1, <1>3, <1>4, <1>5, WantedIsPiece

\* Only pieces of the file are walked over.
LEMMA WalkedPieces ==
  ASSUME TypeOK, NEW c \in Clients, WalkOver(c)
  PROVE  Walked(c) \subseteq {Requests[c][i] : i \in DOMAIN Requests[c]} /\ Walked(c) \subseteq Pieces
<1>1. /\ Requests[c] \in Seq(Pieces) /\ next[c] \in Nat \ {0}
      /\ next[c] <= Len(Requests[c]) + 1 /\ Len(Requests[c]) \in Nat
  BY RequestAssumption DEF TypeOK, WalkOver
<1>2. \A i \in 1 .. next[c] - 1 : i \in DOMAIN Requests[c]
  BY <1>1
<1>3. QED
  BY <1>1, <1>2 DEF Walked

\* A step that neither sends, queues nor moves a piece of c's.
LEMMA Kept ==
  ASSUME NEW c \in Clients, Account(c), WalkOver(c)',
         sent'[c] = sent[c], next'[c] = next[c], remaining'[c] = remaining[c],
         batch'[c] = batch[c], ready'[c] = ready[c],
         Registered(c)' = Registered(c), Taken(c)' = Taken(c),
         pc'[c] = "register" <=> pc[c] = "register"
  PROVE  Account(c)'
<1>1. Walked(c)' = Walked(c) /\ Wanted(c)' = Wanted(c)
  BY DEF Walked, Wanted
<1>2. Ledger(c)'
  BY <1>1 DEF Account, Ledger
<1>3. PlacedOnce(c)'
  BY <1>1 DEF Account, PlacedOnce
<1>4. QED
  BY <1>2, <1>3 DEF Account

-----------------------------------------------------------------------------
(* The account of one client.                                                *)

\* The download thread takes the callbacks of a piece and calls them.
LEMMA DownloadAccount ==
  ASSUME TypeOK, ArrivalInv, Download, NEW c \in Clients, Account(c)
  PROVE  Account(c)'
<1> USE DEF Step, Go, DlStep, storeVars, arbiterVars, taskVars
<1>1. CASE ~ (TakeCallbacks \/ \E d \in Clients : RunCallback(d))
  <2>1. /\ UNCHANGED <<callbacks, todo, pc, ready, taskVars>>
        /\ c \in todo => cur' = cur
    BY <1>1 DEF Download, RecvHeader, RecvPayload, StoreStatus, CountPiece, CallbacksDone,
       ArrivalInv
  <2>2. Registered(c)' = Registered(c) /\ Taken(c)' = Taken(c)
    BY <2>1 DEF Registered, Taken
  <2>3. QED
    BY <2>1, <2>2, Kept DEF Account, WalkOver
<1>2. CASE TakeCallbacks
  <2>1. /\ todo = {} /\ cur' = cur
        /\ c \in todo' <=> cur \in Registered(c)
        /\ Registered(c)' = Registered(c) \ {cur}
        /\ UNCHANGED <<pc, ready, taskVars>>
    BY <1>2 DEF TakeCallbacks, ArrivalInv, Registered, TypeOK
  <2>2. Taken(c) = {} /\ Taken(c)' = Registered(c) \cap {cur}
    BY <2>1 DEF Taken
  <2>3. Walked(c)' = Walked(c) /\ Wanted(c)' = Wanted(c)
    BY <2>1 DEF Walked, Wanted
  <2>4. PlacedOnce(c)'
    BY <2>1, <2>2, <2>3 DEF Account, PlacedOnce
  <2>5. QED
    BY <2>1, <2>3, <2>4 DEF Account, Ledger, WalkOver
<1>3. ASSUME NEW d \in Clients, RunCallback(d)
      PROVE  Account(c)'
  <2>1. /\ UNCHANGED <<callbacks, cur, taskVars>>
        /\ d \in todo /\ todo' = todo \ {d}
        /\ ready' = [ready EXCEPT ![d] = @ \cup {cur}]
        /\ pc'[c] = IF c = d THEN Notified(pc[c]) ELSE pc[c]
    BY <1>3 DEF RunCallback, TypeOK
  <2>2. /\ Registered(c)' = Registered(c) /\ Walked(c)' = Walked(c)
        /\ Wanted(c)' = Wanted(c)
    BY <2>1 DEF Registered, Walked, Wanted
  <2>3. WalkOver(c)' /\ (pc'[c] = "register" <=> pc[c] = "register")
    BY <2>1 DEF Account, WalkOver, Notified
  <2>4. CASE c = d
    <3>1. /\ Taken(c) = {cur} /\ Taken(c)' = {}
          /\ ready'[c] = ready[c] \cup {cur}
      BY <2>1, <2>4 DEF Taken, TypeOK
    <3>2. PlacedOnce(c)'
      BY <2>1, <2>2, <3>1 DEF Account, PlacedOnce
    <3>3. Ledger(c)'
      BY <2>1, <2>2, <2>3 DEF Account, Ledger
    <3>4. QED
      BY <2>3, <3>2, <3>3 DEF Account
  <2>5. CASE c # d
    <3>1. Taken(c)' = Taken(c) /\ ready'[c] = ready[c]
      BY <2>1, <2>5 DEF Taken, TypeOK
    <3>2. QED
      BY <2>1, <2>2, <2>3, <3>1, Kept
  <2>6. QED
    BY <2>4, <2>5
<1>4. QED
  BY <1>1, <1>2, <1>3

\* A worker leaves the accounts of other clients alone.
LEMMA OthersKept ==
  ASSUME TypeOK, NEW d \in Clients, Serve(d) \/ SpuriousWake(d),
         NEW c \in Clients, c # d, Account(c)
  PROVE  Account(c)'
<1> USE DEF Step, Go, DlStep, storeVars, arbiterVars, taskVars, TypeOK
<1>1. /\ sent'[c] = sent[c] /\ next'[c] = next[c] /\ remaining'[c] = remaining[c]
      /\ batch'[c] = batch[c] /\ ready'[c] = ready[c] /\ pc'[c] = pc[c]
      /\ c \in served' <=> c \in served
  BY DEF Serve, Request, ReplyBusy, AcquireFlag, AcquireStamp, ReplyNotAvail, Admit,
     SendPiece, QueuePiece, Register, RegisterTooLate, FinishRequest, Block, TakeAtOnce,
     TakeAfterWake, TakeReady, DrainPiece, BatchDone, ReleaseStamp, ReleaseFlag, SpuriousWake
<1>2. /\ UNCHANGED <<todo, cur>>
      /\ callbacks' = callbacks \/ callbacks' = callbacks \cup {<<Wanted(d), d>>}
  BY DEF Serve, Request, ReplyBusy, AcquireFlag, AcquireStamp, ReplyNotAvail, Admit,
     SendPiece, QueuePiece, Register, RegisterTooLate, FinishRequest, Block, TakeAtOnce,
     TakeAfterWake, TakeReady, DrainPiece, BatchDone, ReleaseStamp, ReleaseFlag, SpuriousWake
<1>3. Registered(c)' = Registered(c) /\ Taken(c)' = Taken(c)
  BY <1>2 DEF Registered, Taken
<1>4. QED
  BY <1>1, <1>3, Kept DEF Account, WalkOver

\* What a worker's step does to the account of its own client. SendPiece, the
\* callback's registration and the loop over a batch each move one piece.
LEMMA OwnAccount ==
  ASSUME TypeOK, WorkerInv, NEW c \in Clients, Serve(c) \/ SpuriousWake(c), Account(c)
  PROVE  Account(c)'
<1> USE DEF Step, Go, DlStep, storeVars, arbiterVars, taskVars, TypeOK
<1>1. CASE SendPiece(c)
  <2>1. /\ pc[c] = "send" /\ pc'[c] = AfterPiece(c) /\ AfterPiece(c) \in {"wait", "send"}
        /\ next'[c] = next[c] + 1
        /\ sent'[c] = [sent[c] EXCEPT ![Wanted(c)] = @ + 1]
        /\ UNCHANGED <<callbacks, todo, cur, remaining, ready, batch, served>>
    BY <1>1 DEF SendPiece, AfterPiece
  <2>2. /\ Walked(c)' = Walked(c) \cup {Wanted(c)}
        /\ Wanted(c) \notin Walked(c) /\ Wanted(c) \in Pieces
        /\ next'[c] <= Len(Requests[c]) + 1
        /\ AfterPiece(c) = "wait" => next'[c] = Len(Requests[c]) + 1
    BY <2>1, WalkOn
  <2>3. Wanted(c) \notin remaining[c] /\ remaining[c] \subseteq Walked(c)
    BY <2>1, <2>2 DEF Account, Ledger
  <2>4. \A p \in Pieces : sent'[c][p] = IF p \in Walked(c)' \ remaining'[c] THEN 1 ELSE 0
    <3>1. sent[c][Wanted(c)] = 0
      BY <2>2 DEF Account, Ledger
    <3>2. \A p \in Pieces : sent'[c][p] = IF p = Wanted(c) THEN 1 ELSE sent[c][p]
      BY <2>1, <2>2, <3>1
    <3>3. QED
      BY <2>1, <2>2, <2>3, <3>2 DEF Account, Ledger
  <2>5. Ledger(c)'
    BY <2>1, <2>2, <2>3, <2>4 DEF Ledger
  <2>6. PlacedOnce(c)'
    BY <2>1, <2>2 DEF Account, PlacedOnce, Registered, Taken
  <2>7. WalkOver(c)'
    BY <2>1, <2>2 DEF Account, WalkOver
  <2>8. QED
    BY <2>5, <2>6, <2>7 DEF Account
<1>2. CASE QueuePiece(c)
  <2>1. /\ pc[c] = "send" /\ pc'[c] = "register"
        /\ remaining'[c] = remaining[c] \cup {Wanted(c)}
        /\ UNCHANGED <<callbacks, todo, cur, next, ready, batch, sent, served>>
    BY <1>2 DEF QueuePiece
  <2>2. Wanted(c) \notin Walked(c)
    <3>1. next[c] \in 1 .. Len(Requests[c]) /\ Len(Requests[c]) \in Nat
      BY <2>1, RequestAssumption
    <3>2. \A i \in 1 .. next[c] - 1 : i \in 1 .. Len(Requests[c]) /\ i # next[c]
      BY <3>1
    <3>3. QED
      BY <3>1, <3>2, RequestAssumption DEF Walked, Wanted
  <2>3. Walked(c)' = Walked(c) /\ Wanted(c)' = Wanted(c)
    BY <2>1 DEF Walked, Wanted
  <2>4. Ledger(c)'
    BY <2>1, <2>2, <2>3 DEF Account, Ledger
  <2>5. PlacedOnce(c)'
    BY <2>1, <2>3 DEF Account, PlacedOnce, Registered, Taken
  <2>6. WalkOver(c)'
    BY <2>1 DEF Account, WalkOver
  <2>7. QED
    BY <2>4, <2>5, <2>6 DEF Account
<1>3. CASE Register(c)
  <2>1. /\ pc[c] = "register" /\ pc'[c] = AfterPiece(c) /\ AfterPiece(c) \in {"wait", "send"}
        /\ next'[c] = next[c] + 1
        /\ callbacks' = callbacks \cup {<<Wanted(c), c>>}
        /\ UNCHANGED <<todo, cur, remaining, ready, batch, sent, served>>
    BY <1>3 DEF Register, AfterPiece
  <2>2. /\ Walked(c)' = Walked(c) \cup {Wanted(c)}
        /\ Wanted(c) \notin Walked(c) /\ Wanted(c) \in Pieces
        /\ next'[c] <= Len(Requests[c]) + 1
        /\ AfterPiece(c) = "wait" => next'[c] = Len(Requests[c]) + 1
    BY <2>1, WalkOn
  <2>3. Wanted(c) \in remaining[c] /\ Registered(c)' = Registered(c) \cup {Wanted(c)}
    BY <2>1, <2>2 DEF Account, Ledger, Registered
  <2>4. Ledger(c)'
    BY <2>1, <2>2, <2>3 DEF Account, Ledger
  <2>5. PlacedOnce(c)'
    BY <2>1, <2>2, <2>3 DEF Account, PlacedOnce, Taken
  <2>6. WalkOver(c)'
    BY <2>1, <2>2 DEF Account, WalkOver
  <2>7. QED
    BY <2>4, <2>5, <2>6 DEF Account
<1>4. CASE TakeAtOnce(c) \/ TakeAfterWake(c)
  <2>1. /\ pc[c] \in {"wait", "woken"} /\ pc'[c] = "drain"
        /\ batch'[c] = ready[c] /\ ready'[c] = {}
        /\ UNCHANGED <<callbacks, todo, cur, next, remaining, sent, served>>
    BY <1>4 DEF TakeAtOnce, TakeAfterWake, TakeReady
  <2>2. Walked(c)' = Walked(c)
    BY <2>1 DEF Walked
  <2>3. Ledger(c)'
    BY <2>1, <2>2 DEF Account, Ledger
  <2>4. PlacedOnce(c)'
    BY <2>1, <2>2 DEF Account, PlacedOnce, Registered, Taken
  <2>5. WalkOver(c)'
    BY <2>1 DEF Account, WalkOver
  <2>6. QED
    BY <2>3, <2>4, <2>5 DEF Account
<1>5. ASSUME NEW p \in Pieces, DrainPiece(c, p)
      PROVE  Account(c)'
  <2>1. /\ pc[c] = "drain" /\ pc'[c] = "drain" /\ p \in batch[c]
        /\ sent'[c] = [sent[c] EXCEPT ![p] = @ + 1]
        /\ batch'[c] = batch[c] \ {p} /\ remaining'[c] = remaining[c] \ {p}
        /\ UNCHANGED <<callbacks, todo, cur, next, ready, served>>
    BY <1>5 DEF DrainPiece
  <2>2. Walked(c)' = Walked(c)
    BY <2>1 DEF Walked
  <2>3. p \in Walked(c) /\ sent[c][p] = 0
    BY <2>1 DEF Account, PlacedOnce, Ledger
  <2>4. Ledger(c)'
    <3>1. \A q \in Pieces : sent'[c][q] = IF q = p THEN 1 ELSE sent[c][q]
      BY <2>1, <2>3
    <3>2. QED
      BY <2>1, <2>2, <2>3, <3>1 DEF Account, Ledger
  <2>5. PlacedOnce(c)'
    BY <2>1, <2>2 DEF Account, PlacedOnce, Registered, Taken
  <2>6. WalkOver(c)'
    BY <2>1 DEF Account, WalkOver
  <2>7. QED
    BY <2>4, <2>5, <2>6 DEF Account
<1>6. CASE \/ Request(c) \/ ReplyBusy(c) \/ AcquireFlag(c) \/ AcquireStamp(c)
           \/ ReplyNotAvail(c) \/ Admit(c) \/ RegisterTooLate(c) \/ FinishRequest(c)
           \/ Block(c) \/ BatchDone(c) \/ ReleaseStamp(c) \/ ReleaseFlag(c)
           \/ SpuriousWake(c)
  <2>1. UNCHANGED <<callbacks, todo, cur, next, remaining, ready, batch, sent>>
    BY <1>6 DEF Request, ReplyBusy, AcquireFlag, AcquireStamp, ReplyNotAvail, Admit,
       RegisterTooLate, FinishRequest, Block, BatchDone, ReleaseStamp, ReleaseFlag, SpuriousWake
  <2>2. Registered(c)' = Registered(c) /\ Taken(c)' = Taken(c)
    BY <2>1 DEF Registered, Taken
  <2>3. pc'[c] = "register" <=> pc[c] = "register"
    BY <1>6 DEF Request, ReplyBusy, AcquireFlag, AcquireStamp, ReplyNotAvail, Admit,
       RegisterTooLate, FinishRequest, Block, BatchDone, ReleaseStamp, ReleaseFlag, SpuriousWake
  <2>4. WalkOver(c)'
    <3>1. CASE FinishRequest(c)
      BY <3>1 DEF FinishRequest, QueueEmpty, Account, WalkOver
    <3>2. CASE RegisterTooLate(c) \/ Block(c) \/ BatchDone(c) \/ SpuriousWake(c)
      BY <3>2 DEF RegisterTooLate, Block, BatchDone, SpuriousWake, Account, WalkOver
    <3>3. CASE ReleaseStamp(c) \/ ReleaseFlag(c)
      BY <3>3 DEF ReleaseStamp, ReleaseFlag, Account, WalkOver
    <3>4. CASE AcquireFlag(c) \/ AcquireStamp(c)
      BY <3>4 DEF AcquireFlag, AcquireStamp, Account, WalkOver
    <3>5. CASE Request(c) \/ ReplyBusy(c) \/ ReplyNotAvail(c) \/ Admit(c)
      BY <3>5 DEF Request, ReplyBusy, ReplyNotAvail, Admit, Account, WalkOver
    <3>6. QED
      BY <1>6, <3>1, <3>2, <3>3, <3>4, <3>5
  <2>5. QED
    BY <2>1, <2>2, <2>3, <2>4, Kept
<1>7. QED
  BY <1>1, <1>2, <1>3, <1>4, <1>5, <1>6 DEF Serve

-----------------------------------------------------------------------------
(* The accounts of all clients together.                                     *)

\* Only the download thread stores pieces and takes callbacks.
LEMMA ArrivalStep == TypeOK /\ DownloadInv /\ ArrivalInv /\ [Next]_vars => ArrivalInv'
<1> SUFFICES ASSUME TypeOK, DownloadInv, ArrivalInv, [Next]_vars
             PROVE  ArrivalInv'
  OBVIOUS
<1> USE DEF Step, Go, DlStep, storeVars, arbiterVars, taskVars, vars
<1>1. CASE Download
  <2>1. CASE \E d \in Clients : RunCallback(d)
    BY <2>1 DEF RunCallback, ArrivalInv
  <2>2. CASE ~ \E d \in Clients : RunCallback(d)
    BY <1>1, <2>2 DEF Download, RecvHeader, RecvPayload, StoreStatus, CountPiece,
       TakeCallbacks, CallbacksDone, ArrivalInv, DownloadInv, TypeOK
  <2>3. QED
    BY <2>1, <2>2
<1>2. ASSUME NEW c \in Clients, Serve(c) \/ SpuriousWake(c)
      PROVE  UNCHANGED storeVars
  BY <1>2 DEF Serve, Request, ReplyBusy, AcquireFlag, AcquireStamp, ReplyNotAvail, Admit,
     SendPiece, QueuePiece, Register, RegisterTooLate, FinishRequest, Block, TakeAtOnce,
     TakeAfterWake, TakeReady, DrainPiece, BatchDone, ReleaseStamp, ReleaseFlag, SpuriousWake
<1>3. CASE UNCHANGED storeVars
  BY <1>3 DEF ArrivalInv
<1>4. QED
  BY <1>1, <1>2, <1>3 DEF Next, Halted

\* Nothing is asked for, so nothing is owed.
LEMMA InitAccount == Init => AccountInv
<1> SUFFICES ASSUME Init
             PROVE  AccountInv
  OBVIOUS
<1>1. ArrivalInv
  <2>1. 0 \in Pieces
    BY NumPiecesAssumption DEF Pieces
  <2>2. avail # 0 => have # {}
    BY <2>1 DEF Init, initialize_source, initialize_receiver
  <2>3. QED
    BY <2>2 DEF Init, ArrivalInv
<1>2. ASSUME NEW c \in Clients
      PROVE  Account(c)
  <2>1. Walked(c) = {}
    BY DEF Init, Walked
  <2>2. next[c] = 1 /\ Len(Requests[c]) \in Nat
    BY RequestAssumption DEF Init
  <2>3. Ledger(c)
    BY <2>1 DEF Init, Ledger
  <2>4. PlacedOnce(c)
    BY <2>1 DEF Init, PlacedOnce, Registered, Taken
  <2>5. WalkOver(c)
    BY <2>2 DEF Init, WalkOver
  <2>6. QED
    BY <2>3, <2>4, <2>5 DEF Account
<1>3. QED
  BY <1>1, <1>2 DEF AccountInv

\* Every piece of every request stays accounted for.
THEOREM Accounted == Spec => []AccountInv
<1>1. IndInv /\ AccountInv /\ [Next]_vars => AccountInv'
  <2> SUFFICES ASSUME IndInv, AccountInv, [Next]_vars
               PROVE  AccountInv'
    OBVIOUS
  <2>1. ArrivalInv'
    BY ArrivalStep DEF IndInv, AccountInv
  <2>2. ASSUME NEW c \in Clients
        PROVE  Account(c)'
    <3>1. CASE Download
      BY <3>1, DownloadAccount DEF IndInv, AccountInv
    <3>2. ASSUME NEW d \in Clients, Serve(d) \/ SpuriousWake(d)
          PROVE  Account(c)'
      BY <3>2, OthersKept, OwnAccount DEF IndInv, AccountInv
    <3>3. CASE UNCHANGED vars
      <4>1. /\ UNCHANGED <<sent, next, remaining, batch, ready, callbacks, todo, cur, pc, served>>
            /\ Account(c)
        BY <3>3 DEF vars, storeVars, taskVars, AccountInv
      <4>2. Registered(c)' = Registered(c) /\ Taken(c)' = Taken(c)
        BY <4>1 DEF Registered, Taken
      <4>3. QED
        BY <4>1, <4>2, Kept DEF Account, WalkOver
    <3>4. QED
      BY <3>1, <3>2, <3>3 DEF Next, Halted
  <2>3. QED
    BY <2>1, <2>2 DEF AccountInv
<1>2. QED
  BY Inductive, InitAccount, <1>1, PTL DEF Spec

\* When a request is over, or nothing remains of it, all of it has been sent.
LEMMA AllSent ==
  ASSUME TypeOK, NEW c \in Clients, Account(c), remaining[c] = {},
         next[c] = Len(Requests[c]) + 1
  PROVE  /\ Walked(c) = {Requests[c][i] : i \in DOMAIN Requests[c]}
         /\ \A p \in Pieces : sent[c][p] = IF p \in Walked(c) THEN 1 ELSE 0
<1>1. Requests[c] \in Seq(Pieces) /\ Len(Requests[c]) \in Nat
  BY RequestAssumption
<1>2. 1 .. next[c] - 1 = DOMAIN Requests[c]
  BY <1>1
<1>3. QED
  BY <1>2 DEF Walked, Account, Ledger

\* No client is ever sent a piece twice, and none is let go before it was sent
\* all it asked for, wherever the arrival of each piece falls in the handling
\* of its request.
THEOREM SentOnce == Spec => []SentExactlyOnce
<1>1. IndInv /\ AccountInv => SentExactlyOnce
  <2> SUFFICES ASSUME IndInv, AccountInv, NEW c \in Clients
               PROVE  /\ \A p \in Pieces : sent[c][p] <= 1
                      /\ c \in served =>
                           \A i \in DOMAIN Requests[c] : sent[c][Requests[c][i]] = 1
    BY DEF SentExactlyOnce
  <2>1. \A p \in Pieces : sent[c][p] <= 1
    BY DEF AccountInv, Account, Ledger
  <2>2. ASSUME c \in served, NEW i \in DOMAIN Requests[c]
        PROVE  sent[c][Requests[c][i]] = 1
    <3>1. Requests[c][i] \in Walked(c)
      BY <2>2, AllSent DEF IndInv, AccountInv, Account, WalkOver
    <3>2. Requests[c][i] \in Pieces
      BY RequestAssumption
    <3>3. QED
      BY <2>2, <3>1, <3>2, AllSent DEF IndInv, AccountInv, Account, WalkOver
  <2>3. QED
    BY <2>1, <2>2
<1>2. QED
  BY Inductive, Accounted, <1>1, PTL

-----------------------------------------------------------------------------
(* The refinement.                                                           *)

\* The variables of PieceService that are not variables here, by name.
servingNow == {c \in Clients : pc[c] \in Serving}
deliveredTo == [c \in Clients |-> {p \in Pieces : sent[c][p] > 0}]

\* Steps in which PieceService has no part.
LEMMA Unseen ==
  ASSUME UNCHANGED <<have, sent, served, crashed>>,
         \A c \in Clients : pc'[c] \in Serving <=> pc[c] \in Serving
  PROVE  UNCHANGED Service!vars
<1>1. servingNow' = servingNow /\ deliveredTo' = deliveredTo
  BY DEF servingNow, deliveredTo
<1>2. QED
  BY <1>1 DEF Service!vars, servingNow, deliveredTo

\* A piece that is sent is one the client asked for and does not have yet.
LEMMA Delivery ==
  ASSUME TypeOK, NEW c \in Clients, pc[c] \in Serving, ~crashed,
         NEW p \in Pieces, p \in have, sent[c][p] = 0,
         p \in {Requests[c][i] : i \in DOMAIN Requests[c]},
         sent' = [sent EXCEPT ![c][p] = @ + 1],
         UNCHANGED <<have, served, crashed>>,
         \A d \in Clients : pc'[d] \in Serving <=> pc[d] \in Serving
  PROVE  Service!Deliver(c, p)
<1>1. \A d \in Clients, q \in Pieces :
        sent'[d][q] = IF d = c /\ q = p THEN 1 ELSE sent[d][q]
  BY DEF TypeOK
<1>2. deliveredTo' = [deliveredTo EXCEPT ![c] = @ \cup {p}]
  <2>1. \A d \in Clients, q \in Pieces :
          sent'[d][q] > 0 <=> sent[d][q] > 0 \/ (d = c /\ q = p)
    BY <1>1 DEF TypeOK
  <2>2. \A d \in Clients : {q \in Pieces : sent'[d][q] > 0}
          = IF d = c THEN {q \in Pieces : sent[d][q] > 0} \cup {p}
            ELSE {q \in Pieces : sent[d][q] > 0}
    BY <2>1
  <2>3. QED
    BY <2>2 DEF deliveredTo
<1>3. servingNow' = servingNow
  BY DEF servingNow
<1>4. QED
  BY <1>2, <1>3 DEF deliveredTo, servingNow, Service!Deliver

\* Every step of the threads is a step of PieceService, or none.
LEMMA ServiceStep == IndInv /\ AccountInv /\ [Next]_vars => [Service!Next]_Service!vars
<1> SUFFICES ASSUME IndInv, AccountInv, [Next]_vars
             PROVE  [Service!Next]_Service!vars
  OBVIOUS
<1> USE DEF Step, Go, DlStep, storeVars, arbiterVars, taskVars, vars
<1>1. TypeOK /\ \A c \in Clients : Account(c)
  BY DEF IndInv, AccountInv
<1>2. CASE Download
  <2>1. CASE StoreStatus
    <3>1. Service!Arrive(cur)
      BY <2>1 DEF StoreStatus, AccountInv, ArrivalInv, Service!Arrive
    <3>2. QED
      BY <1>1, <3>1 DEF TypeOK, Service!Next
  <2>2. CASE \E d \in Clients : RunCallback(d)
    <3>1. \A c \in Clients : pc'[c] \in Serving <=> pc[c] \in Serving
      BY <1>1, <2>2 DEF RunCallback, Notified, TypeOK, Serving
    <3>2. QED
      BY <2>2, <3>1, Unseen DEF RunCallback
  <2>3. CASE ~ StoreStatus /\ ~ \E d \in Clients : RunCallback(d)
    <3>1. UNCHANGED <<have, sent, served, crashed, pc>>
      BY <1>2, <2>3 DEF Download, RecvHeader, RecvPayload, CountPiece, TakeCallbacks,
         CallbacksDone
    <3>2. QED
      BY <3>1, Unseen
  <2>4. QED
    BY <2>1, <2>2, <2>3
<1>3. ASSUME NEW c \in Clients, Serve(c)
      PROVE  [Service!Next]_Service!vars
  <2> USE <1>1
  <2>1. CASE SendPiece(c)
    <3>1. PICK p \in Pieces : p = Wanted(c)
      BY <2>1, WantedIsPiece DEF SendPiece
    <3>2. /\ pc[c] = "send" /\ ~crashed /\ p \in have
          /\ sent' = [sent EXCEPT ![c][p] = @ + 1] /\ next'[c] = next[c] + 1
          /\ UNCHANGED <<have, served, crashed>>
      BY <2>1, <3>1 DEF SendPiece, TypeOK
    <3>3. sent[c][p] = 0 /\ p \in {Requests[c][i] : i \in DOMAIN Requests[c]}
      <4>1. next[c] \in DOMAIN Requests[c]
        BY <3>2, RequestAssumption DEF TypeOK
      <4>2. Wanted(c) \notin Walked(c)
        BY <3>2, WalkOn
      <4>3. QED
        BY <3>1, <4>1, <4>2 DEF Wanted, Account, Ledger
    <3>4. \A d \in Clients : pc'[d] \in Serving <=> pc[d] \in Serving
      BY <2>1 DEF SendPiece, AfterPiece, TypeOK, Serving
    <3>5. Service!Deliver(c, p)
      BY <3>2, <3>3, <3>4, Delivery DEF Serving
    <3>6. QED
      BY <3>5 DEF Service!Next
  <2>2. ASSUME NEW p \in Pieces, DrainPiece(c, p)
        PROVE  [Service!Next]_Service!vars
    <3>1. pc[c] = "drain" /\ p \in batch[c] /\ p \in have /\ ~crashed
      BY <2>2 DEF DrainPiece
    <3>2. p \in {Requests[c][i] : i \in DOMAIN Requests[c]} /\ sent[c][p] = 0
      BY <3>1, WalkedPieces DEF Account, PlacedOnce, Ledger
    <3>3. \A d \in Clients : pc'[d] \in Serving <=> pc[d] \in Serving
      BY <2>2 DEF DrainPiece, TypeOK, Serving
    <3>4. Service!Deliver(c, p)
      BY <2>2, <3>1, <3>2, <3>3, Delivery DEF DrainPiece, Serving
    <3>5. QED
      BY <3>4 DEF Service!Next
  <2>3. CASE Admit(c)
    <3>1. /\ pc[c] = "avail" /\ avail # 0 /\ ~crashed /\ pc' = [pc EXCEPT ![c] = "send"]
          /\ UNCHANGED <<have, sent, served, crashed>>
      BY <2>3 DEF Admit
    <3>2. c \notin servingNow /\ c \notin served /\ have # {}
      BY <3>1 DEF servingNow, Serving, Account, WalkOver, AccountInv, ArrivalInv
    <3>3. \A d \in servingNow : IfaceOf[d] # IfaceOf[c]
      BY <3>1 DEF IndInv, InterfaceExclusive, servingNow, Serving, Guarded, Holding
    <3>4. servingNow' = servingNow \cup {c} /\ deliveredTo' = deliveredTo
      BY <3>1 DEF TypeOK, servingNow, deliveredTo, Serving
    <3>5. Service!Admit(c)
      BY <3>1, <3>2, <3>3, <3>4 DEF Service!Admit, servingNow, deliveredTo
    <3>6. QED
      BY <3>5 DEF Service!Next
  <2>4. CASE FinishRequest(c)
    <3>1. /\ pc[c] = "wait" /\ remaining[c] = {} /\ ~crashed
          /\ pc' = [pc EXCEPT ![c] = "unstamp"] /\ served' = served \cup {c}
          /\ UNCHANGED <<have, sent, crashed>>
      BY <2>4 DEF FinishRequest, QueueEmpty
    <3>2. deliveredTo[c] = {Requests[c][i] : i \in DOMAIN Requests[c]}
      <4>1. next[c] = Len(Requests[c]) + 1
        BY <3>1 DEF Account, WalkOver
      <4>2. Walked(c) \subseteq Pieces
        BY WalkedPieces DEF Account
      <4>3. deliveredTo[c] = Walked(c)
        BY <3>1, <4>1, <4>2, AllSent DEF deliveredTo
      <4>4. QED
        BY <3>1, <4>1, <4>3, AllSent
    <3>3. servingNow' = servingNow \ {c} /\ deliveredTo' = deliveredTo /\ c \in servingNow
      BY <3>1 DEF TypeOK, servingNow, deliveredTo, Serving
    <3>4. Service!Finish(c)
      BY <3>1, <3>2, <3>3 DEF Service!Finish, servingNow, deliveredTo
    <3>5. QED
      BY <3>4 DEF Service!Next
  <2>5. CASE RegisterTooLate(c)
    <3>1. c \in servingNow /\ servingNow' = servingNow /\ deliveredTo' = deliveredTo
      BY <2>5 DEF RegisterTooLate, servingNow, deliveredTo, Serving
    <3>2. Service!Abort
      BY <2>5, <3>1 DEF RegisterTooLate, servingNow, deliveredTo, Service!Abort
    <3>3. QED
      BY <3>2 DEF Service!Next
  <2>6. CASE \/ Request(c) \/ ReplyBusy(c) \/ AcquireFlag(c) \/ AcquireStamp(c)
             \/ ReplyNotAvail(c) \/ QueuePiece(c) \/ Register(c)
             \/ Block(c) \/ TakeAtOnce(c) \/ TakeAfterWake(c) \/ BatchDone(c)
             \/ ReleaseStamp(c) \/ ReleaseFlag(c)
    <3>1. UNCHANGED <<have, sent, served, crashed>>
      BY <2>6 DEF Request, ReplyBusy, AcquireFlag, AcquireStamp, ReplyNotAvail, QueuePiece,
         Register, Block, TakeAtOnce, TakeAfterWake, TakeReady, BatchDone, ReleaseStamp,
         ReleaseFlag
    <3>2. /\ \A d \in Clients \ {c} : pc'[d] = pc[d]
          /\ pc'[c] \in Serving <=> pc[c] \in Serving
      BY <2>6 DEF Request, ReplyBusy, AcquireFlag, AcquireStamp, ReplyNotAvail, QueuePiece,
         Register, AfterPiece, Block, TakeAtOnce, TakeAfterWake, TakeReady, BatchDone,
         ReleaseStamp, ReleaseFlag, TypeOK, Serving
    <3>3. QED
      BY <3>1, <3>2, Unseen
  <2>7. QED
    BY <1>3, <2>1, <2>2, <2>3, <2>4, <2>5, <2>6 DEF Serve
<1>4. ASSUME NEW c \in Clients, SpuriousWake(c)
      PROVE  UNCHANGED Service!vars
  <2>1. \A d \in Clients : pc'[d] \in Serving <=> pc[d] \in Serving
    BY <1>1, <1>4 DEF SpuriousWake, TypeOK, Serving
  <2>2. QED
    BY <1>4, <2>1, Unseen DEF SpuriousWake
<1>5. ASSUME UNCHANGED vars
      PROVE  UNCHANGED Service!vars
  BY <1>5, Unseen
<1>6. QED
  BY <1>2, <1>3, <1>4, <1>5 DEF Next, Halted

\* A serving node behaves as PieceService promises its clients, whatever the
\* interleaving of its download thread and its workers.
THEOREM NodeImplementsService == Spec => ImplementsService
<1>1. Init => Service!Init
  <2> SUFFICES ASSUME Init
               PROVE  Service!Init
    OBVIOUS
  <2>1. servingNow = {} /\ deliveredTo = [c \in Clients |-> {}]
    BY DEF Init, servingNow, deliveredTo, Serving
  <2>2. QED
    BY <2>1 DEF Init, initialize_source, initialize_receiver, servingNow, deliveredTo,
       Service!Init
<1>2. QED
  BY Inductive, Accounted, <1>1, ServiceStep, PTL DEF Spec, Service!Spec, ImplementsService
=============================================================================
