------------------------------ MODULE HostLink ------------------------------
(***************************************************************************)
(* The life of a connection in the host library: IOIOThread.run and abort   *)
(* (IOIOBaseApplicationHelper), waitForConnect, disconnect and disconnected *)
(* of IOIOImpl, the connection states of IncomingState, the incoming thread  *)
(* and the disconnect watchdog, and one digital input as the resource that   *)
(* must hear of the end.                                                     *)
(*                                                                          *)
(* Threads: "app" runs IOIOThread, "in" reads the connection, "dog" is the   *)
(* watchdog; the caller of stop() and a caller of disconnect() are actions of *)
(* their own.  A synchronized block that cannot wait is one step.  The lock   *)
(* of IOIOImpl is a variable only where it is held over two steps (opening).  *)
(* A thread in wait() sleeps until notifyAll or an interrupt.                *)
(***************************************************************************)
EXTENDS Naturals, Sequences

CONSTANTS HlVersions,      \* the interfaces that are asked for: NEWEST - OLDEST + 1 (external: 5)
          HlMaxIoios,      \* bound: instances of IOIO that run() creates
          HlMaxOpens       \* bound: openings of the input, over all instances

ASSUME HlAssumption == {HlVersions, HlMaxIoios, HlMaxOpens} \subseteq Nat \ {0}

VARIABLES
  hlIo,        \* the IOIO instance: IOIOImpl and its IncomingState
  hlRes,       \* the state of the input: "NONE" before it is opened, or one of ResourceLifeCycle.State
  hlApp,       \* where IOIOThread is; hlAsleep: inside wait() there
  hlAsleep,
  hlTry,       \* the interfaces still to be asked for
  hlThread,    \* what each thread does: "none", "running", "lost", "telling", "ended"
  hlTell,      \* the listeners that the thread's handleConnectionLost still has to call
  hlAbort, hlConnected, hlIntr,   \* abort_, connected_ and the interrupt flag of IOIOThread
  hlStop,      \* where the caller of IOIOConnectionManager.stop() is
  hlLock,      \* IOIOImpl's lock is held by an opening
  hlLink,      \* the connection: "down", "up", "cut" (lost), "closed" (by disconnect)
  hlBox,       \* what the board has sent and the incoming thread has not read
  hlCount      \* instances created and inputs opened

hlVars == <<hlIo, hlRes, hlApp, hlAsleep, hlTry, hlThread, hlTell, hlAbort, hlConnected, hlIntr, hlStop, hlLock, hlLink, hlBox, hlCount>>

HlThreads == {"app", "in", "dog"}

\* new IOIOImpl(connection): nothing is connected, nobody listens.
HlNew == [state |-> "INIT", disc |-> FALSE, proto |-> FALSE, known |-> FALSE, conn |-> "INIT", done |-> FALSE, listeners |-> {}]

HlInitAt(pc) ==
  /\ hlIo = HlNew /\ hlRes = "NONE" /\ hlApp = pc /\ hlAsleep = FALSE /\ hlTry = 0
  /\ hlThread = [t \in HlThreads |-> "none"] /\ hlTell = [t \in HlThreads |-> {}]
  /\ hlAbort = FALSE /\ hlConnected = FALSE /\ hlIntr = FALSE /\ hlStop = "no" /\ hlLock = FALSE
  /\ hlLink = "down" /\ hlBox = <<>> /\ hlCount = [ioios |-> 0, opens |-> 0]
HlInit == HlInitAt("create")

---------------------------------------------------------------------------
(* Waiting.  IncomingState's monitor is waited for in three places, the       *)
(* input's in one.                                                            *)

OnIncoming == {"established", "supported", "finally", "leaving"}

\* notifyAll() of IncomingState
NotifyIncoming == hlAsleep' = (hlAsleep /\ hlApp \notin OnIncoming)

\* a blocked wait() is entered, or the interrupt flag makes it throw
Sleeps == ~hlIntr /\ hlAsleep' = TRUE
Awake(pc) == hlApp = pc /\ ~hlAsleep

\* A write reaches the connection or fails: it cannot fail while the connection is up, nor succeed after disconnect().
CanWrite == hlLink \in {"up", "cut"}
CannotWrite == hlLink # "up"

\* waitForConnect and IOIOThread: ConnectionLostException makes the instance DEAD
ConnectFails == hlIo' = [hlIo EXCEPT !.state = "DEAD"] /\ hlApp' = "finally"

---------------------------------------------------------------------------
(* IOIOThread.run                                                            *)

StopHoldsThread == hlStop \in {"aborting", "disconnecting"}

\* A new instance, unless abort() came first; with it a new connection, and the threads of the last one are no longer followed.
AppCreate ==
  /\ Awake("create") /\ ~StopHoldsThread
  /\ IF hlAbort
       THEN hlApp' = "done" /\ UNCHANGED <<hlIo, hlRes, hlTry, hlThread, hlTell, hlLink, hlBox, hlCount>>
       ELSE /\ hlCount.ioios < HlMaxIoios
            /\ hlCount' = [hlCount EXCEPT !.ioios = @ + 1]
            /\ hlIo' = [HlNew EXCEPT !.listeners = {"IOIO"}]
            /\ hlRes' = "NONE" /\ hlTry' = 0 /\ hlLink' = "down" /\ hlBox' = <<>>
            /\ hlThread' = [t \in HlThreads |-> "none"] /\ hlTell' = [t \in HlThreads |-> {}]
            /\ hlApp' = "connect"
  /\ UNCHANGED <<hlAsleep, hlAbort, hlConnected, hlIntr, hlStop, hlLock>>

\* connection_.waitForConnect() returns, or throws (always, once disconnect() has been called); the board says what it is.
AppConnects ==
  /\ Awake("connect")
  /\ \/ /\ hlLink = "down" /\ hlLink' = "up" /\ hlApp' = "protocol"
        /\ hlBox' \in {<<"board">>, <<"unknown board">>} /\ UNCHANGED hlThread
     \/ hlThread' = [hlThread EXCEPT !["app"] = "lost"] /\ hlApp' = "failing" /\ UNCHANGED <<hlLink, hlBox>>
  /\ UNCHANGED <<hlIo, hlRes, hlAsleep, hlTry, hlTell, hlAbort, hlConnected, hlIntr, hlStop, hlLock, hlCount>>

\* The synchronized block that starts the incoming thread, unless disconnect() came in between.
AppStartsProtocol ==
  /\ Awake("protocol") /\ ~hlLock
  /\ IF hlIo.disc
       THEN hlThread' = [hlThread EXCEPT !["app"] = "lost"] /\ hlApp' = "failing" /\ UNCHANGED hlIo
       ELSE /\ hlIo' = [hlIo EXCEPT !.proto = TRUE]
            /\ hlThread' = [hlThread EXCEPT !["in"] = "running"] /\ hlApp' = "established"
  /\ UNCHANGED <<hlRes, hlAsleep, hlTry, hlTell, hlAbort, hlConnected, hlIntr, hlStop, hlLock, hlLink, hlBox, hlCount>>

\* The handleConnectionLost of waitForConnect has returned.
AppFailed ==
  /\ Awake("failing") /\ hlThread["app"] = "ended"
  /\ ConnectFails
  /\ UNCHANGED <<hlRes, hlAsleep, hlTry, hlThread, hlTell, hlAbort, hlConnected, hlIntr, hlStop, hlLock, hlLink, hlBox, hlCount>>

\* waitConnectionEstablished and initBoard.  Nobody interrupts a thread whose connected_ is false.
AppEstablished ==
  /\ Awake("established")
  /\ \/ hlIo.conn = "INIT" /\ Sleeps /\ UNCHANGED <<hlIo, hlApp, hlTry>>
     \/ hlIo.conn = "DISCONNECTED" /\ ConnectFails /\ UNCHANGED <<hlTry, hlAsleep>>
     \/ /\ hlIo.conn \notin {"INIT", "DISCONNECTED"}
        /\ hlApp' = IF hlIo.known THEN "ask" ELSE "finally"
        /\ hlTry' = HlVersions /\ UNCHANGED <<hlIo, hlAsleep>>
  /\ UNCHANGED <<hlRes, hlThread, hlTell, hlAbort, hlConnected, hlIntr, hlStop, hlLock, hlLink, hlBox, hlCount>>

\* checkInterfaceVersion: CHECK_INTERFACE is written, or none is left to be asked for.
AppAsks ==
  /\ Awake("ask")
  /\ \/ hlTry = 0 /\ hlIo' = [hlIo EXCEPT !.state = "INCOMPATIBLE"] /\ hlApp' = "finally" /\ UNCHANGED <<hlTry, hlBox>>
     \/ /\ hlTry > 0 /\ CanWrite /\ hlTry' = hlTry - 1 /\ hlApp' = "supported"
        /\ IF hlLink = "up" THEN hlBox' \in {Append(hlBox, "yes"), Append(hlBox, "no")} ELSE UNCHANGED hlBox
        /\ UNCHANGED hlIo
     \/ hlTry > 0 /\ CannotWrite /\ ConnectFails /\ UNCHANGED <<hlTry, hlBox>>
  /\ UNCHANGED <<hlRes, hlAsleep, hlThread, hlTell, hlAbort, hlConnected, hlIntr, hlStop, hlLock, hlLink, hlCount>>

\* waitForInterfaceSupport, which makes room for another question.
AppSupported ==
  /\ Awake("supported")
  /\ \/ hlIo.conn = "ESTABLISHED" /\ Sleeps /\ UNCHANGED <<hlIo, hlApp>>
     \/ hlIo.conn = "DISCONNECTED" /\ ConnectFails /\ UNCHANGED hlAsleep
     \/ hlIo.conn = "UNSUPPORTED_IID" /\ hlIo' = [hlIo EXCEPT !.conn = "ESTABLISHED"] /\ hlApp' = "ask" /\ UNCHANGED hlAsleep
     \/ hlIo.conn = "CONNECTED" /\ hlApp' = "returning" /\ UNCHANGED <<hlIo, hlAsleep>>
  /\ UNCHANGED <<hlRes, hlTry, hlThread, hlTell, hlAbort, hlConnected, hlIntr, hlStop, hlLock, hlLink, hlBox, hlCount>>

\* state_ is set without a lock, whatever happened since the answer came.
AppReturns ==
  /\ Awake("returning")
  /\ hlIo' = [hlIo EXCEPT !.state = "CONNECTED"] /\ hlApp' = "connected"
  /\ UNCHANGED <<hlRes, hlAsleep, hlTry, hlThread, hlTell, hlAbort, hlConnected, hlIntr, hlStop, hlLock, hlLink, hlBox, hlCount>>

\* waitForConnect has returned: connected_ = true, then looper_.setup, which opens the input.
AppConnected ==
  /\ Awake("connected")
  /\ hlConnected' = TRUE /\ hlTry' = 0 /\ hlApp' = "open"
  /\ UNCHANGED <<hlIo, hlRes, hlAsleep, hlThread, hlTell, hlAbort, hlIntr, hlStop, hlLock, hlLink, hlBox, hlCount>>

---------------------------------------------------------------------------
(* What a client does with its input: IOIOLooper.setup and loop              *)

\* Mutant: addDisconnectListener does not look whether the connection is lost already.
AppOpensUnchecked ==
  /\ Awake("open") /\ ~hlLock
  /\ IF hlIo.state = "CONNECTED"
       THEN /\ hlIo' = [hlIo EXCEPT !.listeners = @ \cup {"input"}]
            /\ hlRes' = "OPEN" /\ hlLock' = TRUE /\ hlApp' = "opening"
            /\ hlCount' = [hlCount EXCEPT !.opens = @ + 1]
       ELSE hlApp' = "finally" /\ UNCHANGED <<hlIo, hlRes, hlLock, hlCount>>
  /\ UNCHANGED <<hlAsleep, hlTry, hlThread, hlTell, hlAbort, hlConnected, hlIntr, hlStop, hlLink, hlBox>>

\* openDigitalInput, up to its messages: checkState, and the input becomes a listener.  The lock is kept.
AppOpens ==
  /\ Awake("open") /\ ~hlLock
  /\ IF hlIo.state = "CONNECTED" /\ hlIo.conn # "DISCONNECTED"
       THEN /\ hlIo' = [hlIo EXCEPT !.listeners = @ \cup {"input"}]
            /\ hlRes' = "OPEN" /\ hlLock' = TRUE /\ hlApp' = "opening"
            /\ hlCount' = [hlCount EXCEPT !.opens = @ + 1]
       ELSE /\ hlApp' = IF hlIo.state \in {"CONNECTED", "DEAD"} THEN "finally" ELSE "crashed"
            /\ UNCHANGED <<hlIo, hlRes, hlLock, hlCount>>
  /\ UNCHANGED <<hlAsleep, hlTry, hlThread, hlTell, hlAbort, hlConnected, hlIntr, hlStop, hlLink, hlBox>>

\* close() of the input: removeDisconnectListener leaves the listeners of a lost connection alone.
InputRemoved == [hlIo EXCEPT !.listeners = IF hlIo.conn = "DISCONNECTED" THEN @ ELSE @ \ {"input"}]

\* The messages of openDigitalInput; when they cannot be sent the input is closed again.  setup may go on to wait for a value.
AppOpened ==
  /\ Awake("opening")
  /\ \/ CanWrite /\ hlApp' \in {"loop", "read"} /\ UNCHANGED <<hlIo, hlRes>>
     \/ CannotWrite /\ hlApp' = "finally" /\ hlRes' = "CLOSED" /\ hlIo' = InputRemoved
  /\ hlLock' = FALSE
  /\ UNCHANGED <<hlAsleep, hlTry, hlThread, hlTell, hlAbort, hlConnected, hlIntr, hlStop, hlLink, hlBox, hlCount>>

\* while (!abort_ && getState() == CONNECTED) loop(): the client reads, closes or opens its input, resets the board, or throws.
AppLoops ==
  /\ Awake("loop")
  /\ IF hlAbort \/ hlIo.state # "CONNECTED"
       THEN hlApp' = "finally"
       ELSE \/ hlRes # "CLOSED" /\ hlApp' \in {"read", "close"}
            \/ hlRes = "CLOSED" /\ hlCount.opens < HlMaxOpens /\ hlApp' = "open"
            \/ hlApp' \in {"reset", "crashed"}
  /\ UNCHANGED <<hlIo, hlRes, hlAsleep, hlTry, hlThread, hlTell, hlAbort, hlConnected, hlIntr, hlStop, hlLock, hlLink, hlBox, hlCount>>

\* waitForValue: safeWait sees the end of the connection and an interrupt; a value may be the one that was waited for.
AppReads ==
  /\ Awake("read")
  /\ \/ hlRes = "DISCONNECTED" /\ hlApp' = "finally" /\ UNCHANGED <<hlAsleep, hlIntr>>
     \/ hlRes = "OPEN" /\ hlIntr /\ hlIntr' = FALSE /\ hlApp' = "interrupted" /\ UNCHANGED hlAsleep
     \/ hlRes = "OPEN" /\ Sleeps /\ UNCHANGED <<hlApp, hlIntr>>
  /\ UNCHANGED <<hlIo, hlRes, hlTry, hlThread, hlTell, hlAbort, hlConnected, hlStop, hlLock, hlLink, hlBox, hlCount>>

AppCloses ==
  /\ Awake("close") /\ ~hlLock
  /\ hlRes' = "CLOSED" /\ hlIo' = InputRemoved /\ hlApp' = "loop"
  /\ UNCHANGED <<hlAsleep, hlTry, hlThread, hlTell, hlAbort, hlConnected, hlIntr, hlStop, hlLock, hlLink, hlBox, hlCount>>

\* softReset: checkState, then closeResources.
AppResets ==
  /\ Awake("reset") /\ ~hlLock
  /\ IF hlIo.state = "CONNECTED"
       THEN /\ hlApp' = "resetting"
            /\ IF "input" \in hlIo.listeners /\ hlRes # "CLOSED"
                 THEN hlRes' = "CLOSED" /\ hlIo' = InputRemoved
                 ELSE UNCHANGED <<hlRes, hlIo>>
       ELSE hlApp' = "finally" /\ UNCHANGED <<hlRes, hlIo>>
  /\ UNCHANGED <<hlAsleep, hlTry, hlThread, hlTell, hlAbort, hlConnected, hlIntr, hlStop, hlLock, hlLink, hlBox, hlCount>>

\* The SOFT_RESET message.
AppReset ==
  /\ Awake("resetting")
  /\ \/ CanWrite /\ hlApp' = "loop"
     \/ CannotWrite /\ hlApp' = "finally"
  /\ UNCHANGED <<hlIo, hlRes, hlAsleep, hlTry, hlThread, hlTell, hlAbort, hlConnected, hlIntr, hlStop, hlLock, hlLink, hlBox, hlCount>>

---------------------------------------------------------------------------
(* IOIOImpl.disconnect and the end of run                                    *)

\* Mutant: disconnect() leaves it to the incoming thread to notice.
DisconnectNoWatchdog ==
  /\ ~hlLock
  /\ IF hlIo.disc THEN UNCHANGED <<hlIo, hlLink>> ELSE hlIo' = [hlIo EXCEPT !.disc = TRUE] /\ hlLink' = "closed"
  /\ UNCHANGED hlThread

\* disconnect() under IOIOImpl's lock: SOFT_CLOSE where needed, the connection is closed, and the watchdog starts if the incoming thread has.
Disconnect ==
  /\ ~hlLock
  /\ IF hlIo.disc
       THEN UNCHANGED <<hlIo, hlLink, hlThread>>
       ELSE /\ hlIo' = [hlIo EXCEPT !.disc = TRUE]
            /\ hlLink' = "closed"
            /\ hlThread' = IF hlIo.proto THEN [hlThread EXCEPT !["dog"] = "running"] ELSE hlThread

\* InterruptedException, or any other exception of the client, which ends run().
AppDisconnects ==
  /\ Awake("interrupted") \/ Awake("crashed")
  /\ Disconnect
  /\ hlApp' = IF hlApp = "crashed" THEN "leaving" ELSE "finally"
  /\ UNCHANGED <<hlRes, hlAsleep, hlTry, hlTell, hlAbort, hlConnected, hlIntr, hlStop, hlLock, hlBox, hlCount>>

\* finally: waitForDisconnect, which an interrupt cuts short, then ioio_ = null.
AppWaitsForDisconnect ==
  /\ Awake("finally") \/ Awake("leaving")
  /\ \/ ~hlIo.done /\ Sleeps /\ UNCHANGED <<hlApp, hlIntr>>
     \/ /\ hlIo.done \/ hlIntr
        /\ ~StopHoldsThread
        /\ hlIntr' = (hlIntr /\ hlIo.done)
        /\ hlApp' = (IF hlApp = "leaving" THEN "last cleanup" ELSE "cleanup")
        /\ UNCHANGED hlAsleep
  /\ UNCHANGED <<hlIo, hlRes, hlTry, hlThread, hlTell, hlAbort, hlConnected, hlStop, hlLock, hlLink, hlBox, hlCount>>

\* looper_.disconnected(), connected_ = false, and round again.
AppCleansUp ==
  /\ Awake("cleanup") \/ Awake("last cleanup")
  /\ hlConnected' = FALSE
  /\ hlApp' = IF hlApp = "cleanup" THEN "create" ELSE "done"
  /\ UNCHANGED <<hlIo, hlRes, hlAsleep, hlTry, hlThread, hlTell, hlAbort, hlIntr, hlStop, hlLock, hlLink, hlBox, hlCount>>

HasIoio == hlApp \notin {"create", "cleanup", "last cleanup", "done"}

\* IOIOConnectionManager.stop(): abort() and join()
StopAborts ==
  /\ hlStop = "no" /\ hlAbort' = TRUE /\ hlStop' = "aborting"
  /\ UNCHANGED <<hlIo, hlRes, hlApp, hlAsleep, hlTry, hlThread, hlTell, hlConnected, hlIntr, hlLock, hlLink, hlBox, hlCount>>

StopDisconnects ==
  /\ hlStop = "aborting" /\ hlStop' = "disconnecting"
  /\ IF HasIoio THEN Disconnect ELSE UNCHANGED <<hlIo, hlLink, hlThread>>
  /\ UNCHANGED <<hlRes, hlApp, hlAsleep, hlTry, hlTell, hlAbort, hlConnected, hlIntr, hlLock, hlBox, hlCount>>

StopInterrupts ==
  /\ hlStop = "disconnecting" /\ hlStop' = "joining"
  /\ IF hlConnected THEN hlIntr' = TRUE /\ hlAsleep' = FALSE ELSE UNCHANGED <<hlIntr, hlAsleep>>
  /\ UNCHANGED <<hlIo, hlRes, hlApp, hlTry, hlThread, hlTell, hlAbort, hlConnected, hlLock, hlLink, hlBox, hlCount>>

\* Another thread of the client calls disconnect().
ClientDisconnects ==
  /\ HasIoio /\ ~hlIo.disc
  /\ Disconnect
  /\ UNCHANGED <<hlRes, hlApp, hlAsleep, hlTry, hlTell, hlAbort, hlConnected, hlIntr, hlStop, hlLock, hlBox, hlCount>>

---------------------------------------------------------------------------
(* The incoming thread and the watchdog                                      *)

\* A message of the board is handled, whatever became of the connection since it was sent.
InHandles ==
  /\ hlThread["in"] = "running" /\ hlBox # <<>>
  /\ hlBox' = Tail(hlBox)
  /\ LET m == Head(hlBox) IN
     \/ /\ m \in {"board", "unknown board"}
        /\ hlIo' = [hlIo EXCEPT !.conn = "ESTABLISHED", !.known = (m = "board")] /\ NotifyIncoming /\ UNCHANGED hlApp
     \/ /\ m \in {"yes", "no"}
        /\ hlIo' = [hlIo EXCEPT !.conn = IF m = "yes" THEN "CONNECTED" ELSE "UNSUPPORTED_IID"] /\ NotifyIncoming /\ UNCHANGED hlApp
     \/ /\ m = "value" /\ UNCHANGED hlIo
        /\ \/ hlApp = "read" /\ hlAsleep /\ hlApp' = "loop" /\ hlAsleep' = FALSE
           \/ UNCHANGED <<hlApp, hlAsleep>>
  /\ UNCHANGED <<hlRes, hlTry, hlThread, hlTell, hlAbort, hlConnected, hlIntr, hlStop, hlLock, hlLink, hlCount>>

\* The read fails: the connection was lost or closed.  It may also stay blocked for ever.
InEnds ==
  /\ hlThread["in"] = "running" /\ hlLink \in {"cut", "closed"}
  /\ hlThread' = [hlThread EXCEPT !["in"] = "lost"]
  /\ UNCHANGED <<hlIo, hlRes, hlApp, hlAsleep, hlTry, hlTell, hlAbort, hlConnected, hlIntr, hlStop, hlLock, hlLink, hlBox, hlCount>>

\* waitDisconnect(DISCONNECT_TIMEOUT_MS): somebody has dealt with the loss, or the time is up.
DogWakes ==
  /\ hlThread["dog"] = "running"
  /\ hlThread' = [hlThread EXCEPT !["dog"] = IF hlIo.done THEN "ended" ELSE "lost"]
  /\ UNCHANGED <<hlIo, hlRes, hlApp, hlAsleep, hlTry, hlTell, hlAbort, hlConnected, hlIntr, hlStop, hlLock, hlLink, hlBox, hlCount>>

\* handleConnectionLost: the listeners are taken,
LostTakes(t) ==
  /\ hlThread[t] = "lost" /\ hlThread' = [hlThread EXCEPT ![t] = "telling"]
  /\ hlTell' = [hlTell EXCEPT ![t] = hlIo.listeners]
  /\ hlIo' = [hlIo EXCEPT !.conn = "DISCONNECTED", !.listeners = {}]
  /\ UNCHANGED <<hlRes, hlApp, hlAsleep, hlTry, hlAbort, hlConnected, hlIntr, hlStop, hlLock, hlLink, hlBox, hlCount>>

\* told one by one without the lock: disconnected() of IOIOImpl closes the connection,
TellIoio(t) ==
  /\ "IOIO" \in hlTell[t] /\ ~hlLock
  /\ hlTell' = [hlTell EXCEPT ![t] = @ \ {"IOIO"}]
  /\ hlIo' = [hlIo EXCEPT !.state = "DEAD", !.disc = TRUE]
  /\ hlLink' = IF hlIo.disc THEN hlLink ELSE "closed"
  /\ UNCHANGED <<hlRes, hlApp, hlAsleep, hlTry, hlThread, hlAbort, hlConnected, hlIntr, hlStop, hlLock, hlBox, hlCount>>

\* that of the input wakes a reader,
TellInput(t) ==
  /\ "input" \in hlTell[t]
  /\ hlTell' = [hlTell EXCEPT ![t] = @ \ {"input"}]
  /\ hlRes' = IF hlRes = "CLOSED" THEN hlRes ELSE "DISCONNECTED"
  /\ hlAsleep' = (hlAsleep /\ hlApp # "read")
  /\ UNCHANGED <<hlIo, hlApp, hlTry, hlThread, hlAbort, hlConnected, hlIntr, hlStop, hlLock, hlLink, hlBox, hlCount>>

\* and then whoever waits for the end is woken.
LostEnds(t) ==
  /\ hlThread[t] = "telling" /\ hlTell[t] = {}
  /\ hlThread' = [hlThread EXCEPT ![t] = "ended"]
  /\ hlIo' = [hlIo EXCEPT !.done = TRUE] /\ NotifyIncoming
  /\ UNCHANGED <<hlRes, hlApp, hlTry, hlTell, hlAbort, hlConnected, hlIntr, hlStop, hlLock, hlLink, hlBox, hlCount>>

HandleConnectionLost(t) == LostTakes(t) \/ TellIoio(t) \/ TellInput(t) \/ LostEnds(t)

\* The physical connection breaks, and the board reports a value of the input.
LinkBreaks ==
  /\ hlLink = "up" /\ hlLink' = "cut"
  /\ UNCHANGED <<hlIo, hlRes, hlApp, hlAsleep, hlTry, hlThread, hlTell, hlAbort, hlConnected, hlIntr, hlStop, hlLock, hlBox, hlCount>>
BoardReports ==
  /\ hlLink = "up" /\ hlRes = "OPEN" /\ hlBox = <<>> /\ hlBox' = <<"value">>
  /\ UNCHANGED <<hlIo, hlRes, hlApp, hlAsleep, hlTry, hlThread, hlTell, hlAbort, hlConnected, hlIntr, hlStop, hlLock, hlLink, hlCount>>

---------------------------------------------------------------------------
\* The steps of run() that the code and its client go on with by themselves: all but connection_.waitForConnect().
AppGoesOn ==
  \/ AppCreate \/ AppStartsProtocol \/ AppFailed \/ AppEstablished \/ AppAsks \/ AppSupported \/ AppReturns \/ AppConnected
  \/ AppOpens \/ AppOpened \/ AppLoops \/ AppReads \/ AppCloses \/ AppResets \/ AppReset
  \/ AppDisconnects \/ AppWaitsForDisconnect \/ AppCleansUp
StopGoesOn == StopDisconnects \/ StopInterrupts

HlNext ==
  \/ AppGoesOn \/ AppConnects \/ StopAborts \/ StopGoesOn \/ ClientDisconnects
  \/ InHandles \/ InEnds \/ DogWakes \/ (\E t \in HlThreads : HandleConnectionLost(t))
  \/ LinkBreaks \/ BoardReports

\* Threads run, a closed connection makes connection_.waitForConnect() throw, and the watchdog's time passes.  Nothing is asked of the
\* board or of the incoming thread's read, which may block for ever.
HlFairness ==
  /\ WF_hlVars(AppGoesOn) /\ WF_hlVars(AppConnects /\ hlIo.disc) /\ WF_hlVars(StopGoesOn) /\ WF_hlVars(DogWakes)
  /\ \A t \in HlThreads : WF_hlVars(HandleConnectionLost(t))

HlSpec == HlInit /\ [][HlNext]_hlVars /\ HlFairness

---------------------------------------------------------------------------
\* Once every handleConnectionLost has returned, no input believes that it is open: whoever waits for one was woken, although inputs
\* are opened and closed while the listeners are taken and told (IncomingState.addDisconnectListener and handleConnectionLost).
LossIsTold ==
  hlIo.done /\ hlApp # "opening" /\ (\A t \in HlThreads : hlThread[t] \notin {"lost", "telling"}) => hlRes # "OPEN"

\* stop() returns, and waitForDisconnect() returns once disconnect() was called, wherever the connection was, and even if the read
\* of the incoming thread never returns (the watchdog of IOIOImpl.disconnect, abort of IOIOThread).
StopReturns ==
  /\ hlStop = "aborting" ~> hlApp = "done"
  /\ (hlApp \in {"finally", "leaving"} /\ hlIo.disc) ~> hlApp \notin {"finally", "leaving"}

\* What IncomingState.java:60 says of disconnectDone_, "The disconnect listeners have run": it does not hold when the watchdog's time
\* passes while the incoming thread is telling them (README, section 6).
DoneMeansTold == hlIo.done => \A t \in HlThreads : hlTell[t] = {}

\* DEAD is the last state of an instance: it does not hold, as waitForConnect sets CONNECTED without the lock (README, section 6).
DeadIsFinal == [][hlIo.state = "DEAD" => hlIo'.state \in {"DEAD", "INIT"}]_hlVars
=============================================================================
