----------------------------- MODULE HostLink_proofs -----------------------------
(***************************************************************************)
(* A proof about HostLink, for any number of instances, of openings and of *)
(* interfaces asked for: the end of a connection reaches the input,        *)
(* whatever the application, the incoming thread, the watchdog and a       *)
(* caller of disconnect() do meanwhile.                                    *)
(***************************************************************************)
EXTENDS HostLink, TLAPS

HlIos == [state : {"INIT", "CONNECTED", "INCOMPATIBLE", "DEAD"}, disc : BOOLEAN, proto : BOOLEAN, known : BOOLEAN,
          conn : {"INIT", "ESTABLISHED", "CONNECTED", "UNSUPPORTED_IID", "DISCONNECTED"}, done : BOOLEAN,
          listeners : SUBSET {"IOIO", "input"}]

HlTypeOK ==
  /\ hlIo \in HlIos
  /\ hlThread \in [HlThreads -> {"none", "running", "lost", "telling", "ended"}]
  /\ hlTell \in [HlThreads -> SUBSET {"IOIO", "input"}]

\* disconnect() and disconnected() close the connection, and nothing opens it again.
DisconnectedIsClosed == hlIo.disc => hlLink = "closed"

\* Which threads there can be: none before the protocol starts; waitForConnect handles the
\* loss itself only if the incoming thread was never started; the watchdog comes with disconnect().
ThreadsOfPhase ==
  /\ hlApp \in {"connect", "protocol"} => ~hlIo.proto /\ ~hlIo.done /\ \A t \in HlThreads : hlThread[t] = "none"
  /\ hlThread["app"] # "none" => hlThread["in"] = "none"
  /\ hlThread["dog"] # "none" => hlIo.disc
  /\ \A t \in HlThreads : hlThread[t] # "telling" => hlTell[t] = {}

\* handleConnectionLost has taken the listeners.
Taken == hlIo.done \/ \E t \in HlThreads : hlThread[t] = "telling"

\* Where the incoming thread has not seen the loss itself, it was the watchdog.
WatchdogTakes == Taken /\ hlThread["in"] \in {"running", "lost"} => hlIo.disc

\* After that IncomingState is DISCONNECTED; a message that the incoming thread handles late
\* overwrites it only when it was the watchdog that took them.
TakenIsLost == Taken => hlIo.disc \/ hlIo.conn = "DISCONNECTED"

\* An input that is open will hear of the loss: it is a listener, or about to be told.
OpenWillHear == hlRes = "OPEN" => "input" \in hlIo.listeners \/ \E t \in HlThreads : "input" \in hlTell[t]

\* An input that became a listener after the listeners were taken is closed again: its
\* messages cannot be written.
LateOpenFails == Taken /\ hlRes = "OPEN" /\ "input" \in hlIo.listeners => hlApp = "opening" /\ hlIo.disc

LinkInv == HlTypeOK /\ DisconnectedIsClosed /\ ThreadsOfPhase /\ WatchdogTakes /\ TakenIsLost /\ OpenWillHear /\ LateOpenFails

-----------------------------------------------------------------------------
LEMMA InitLink == HlInit => LinkInv
  <1> SUFFICES ASSUME HlInit PROVE LinkInv
    OBVIOUS
  <1> USE DEF HlInit, HlInitAt, HlNew
  <1>1. HlTypeOK
    BY DEF HlTypeOK, HlIos
  <1>2. ~Taken
    BY DEF Taken
  <1>3. QED
    BY <1>1, <1>2 DEF LinkInv, HlThreads, DisconnectedIsClosed, ThreadsOfPhase, WatchdogTakes, TakenIsLost, OpenWillHear, LateOpenFails

-----------------------------------------------------------------------------
(* A step of one thread after another.                                     *)

\* What touches neither the listeners, the threads nor the connection.
LEMMA LinkStays ==
    ASSUME LinkInv, UNCHANGED <<hlThread, hlTell, hlRes, hlLink>>,
           hlIo' \in HlIos,
           hlIo'.disc = hlIo.disc, hlIo'.proto = hlIo.proto, hlIo'.conn = hlIo.conn, hlIo'.done = hlIo.done,
           hlIo'.listeners = hlIo.listeners,
           hlApp' \notin {"connect", "protocol"} \/ hlApp' = hlApp, hlApp # "opening" \/ hlApp' = hlApp
    PROVE  LinkInv'
  BY DEF LinkInv, HlTypeOK, DisconnectedIsClosed, ThreadsOfPhase, Taken, WatchdogTakes, TakenIsLost, OpenWillHear, LateOpenFails

LEMMA CreateKeepsLink == ASSUME LinkInv, AppCreate PROVE LinkInv'
  <1>1. CASE hlAbort
    <2>1. /\ UNCHANGED <<hlIo, hlThread, hlTell, hlRes, hlLink>> /\ hlApp = "create" /\ hlApp' = "done"
      BY <1>1 DEF AppCreate, Awake
    <2>2. QED
      BY <2>1, LinkStays DEF LinkInv, HlTypeOK
  <1>2. CASE ~hlAbort
    <2>1. /\ hlIo' = [state |-> "INIT", disc |-> FALSE, proto |-> FALSE, known |-> FALSE, conn |-> "INIT", done |-> FALSE,
                       listeners |-> {"IOIO"}]
          /\ hlRes' = "NONE"
          /\ hlThread' = [t \in HlThreads |-> "none"] /\ hlTell' = [t \in HlThreads |-> {}]
      BY <1>2 DEF AppCreate, HlNew
    <2>2. HlTypeOK' /\ ~Taken'
      BY <2>1 DEF HlTypeOK, HlIos, Taken
    <2>3. QED
      BY <2>1, <2>2 DEF LinkInv, HlThreads, DisconnectedIsClosed, ThreadsOfPhase, WatchdogTakes, TakenIsLost, OpenWillHear, LateOpenFails
  <1>3. QED
    BY <1>1, <1>2

\* AppConnects and AppStartsProtocol: the threads of the protocol begin.
LEMMA ConnectKeepsLink == ASSUME LinkInv, AppConnects \/ AppStartsProtocol PROVE LinkInv'
  <1> USE DEF LinkInv, HlThreads
  <1>1. hlApp \in {"connect", "protocol"} /\ UNCHANGED <<hlTell, hlRes>>
    BY DEF AppConnects, AppStartsProtocol, Awake
  <1>a. /\ hlIo' = hlIo \/ hlIo' = [hlIo EXCEPT !.proto = TRUE]
        /\ \/ hlThread' = hlThread \/ hlThread' = [hlThread EXCEPT !["app"] = "lost"]
           \/ hlThread' = [hlThread EXCEPT !["in"] = "running"]
    BY DEF AppConnects, AppStartsProtocol
  <1>2. HlTypeOK'
    BY ZenonT(60), <1>1, <1>a DEF HlTypeOK, HlIos
  <1>3. /\ hlIo'.disc = hlIo.disc /\ hlIo'.conn = hlIo.conn /\ hlIo'.done = hlIo.done
        /\ hlIo'.listeners = hlIo.listeners
    BY <1>a DEF HlTypeOK, HlIos
  <1>4. DisconnectedIsClosed'
    BY <1>3 DEF DisconnectedIsClosed, AppConnects, AppStartsProtocol
  <1>5. ~Taken /\ ~Taken'
    BY <1>1, <1>3 DEF HlTypeOK, Taken, ThreadsOfPhase, AppConnects, AppStartsProtocol
  <1>6. ThreadsOfPhase'
    BY <1>1, <1>3 DEF HlTypeOK, ThreadsOfPhase, AppConnects, AppStartsProtocol
  <1>7. QED
    BY <1>1, <1>2, <1>3, <1>4, <1>5, <1>6 DEF WatchdogTakes, TakenIsLost, OpenWillHear, LateOpenFails

\* The rest of waitForConnect.
LEMMA HandshakeKeepsLink ==
    ASSUME LinkInv, AppFailed \/ AppEstablished \/ AppAsks \/ AppReturns \/ AppConnected PROVE LinkInv'
  <1> USE DEF AppFailed, AppEstablished, AppAsks, AppReturns, AppConnected, ConnectFails, Awake
  <1>1. UNCHANGED <<hlThread, hlTell, hlRes, hlLink>>
    OBVIOUS
  <1>2. hlIo' = hlIo \/ \E s \in {"DEAD", "INCOMPATIBLE", "CONNECTED"} : hlIo' = [hlIo EXCEPT !.state = s]
    OBVIOUS
  <1>3. /\ hlApp' \in {"finally", "established", "ask", "supported", "connected", "open"}
        /\ hlApp # "opening"
    OBVIOUS
  <1> HIDE DEF AppFailed, AppEstablished, AppAsks, AppReturns, AppConnected, ConnectFails, Awake
  <1>4. /\ hlIo' \in HlIos
        /\ hlIo'.disc = hlIo.disc /\ hlIo'.proto = hlIo.proto /\ hlIo'.conn = hlIo.conn
        /\ hlIo'.done = hlIo.done /\ hlIo'.listeners = hlIo.listeners
    BY <1>2 DEF LinkInv, HlTypeOK, HlIos
  <1>5. QED
    BY <1>1, <1>3, <1>4, LinkStays

LEMMA SupportedKeepsLink == ASSUME LinkInv, AppSupported PROVE LinkInv'
  <1>1. /\ UNCHANGED <<hlThread, hlTell, hlRes, hlLink>> /\ hlApp = "supported"
        /\ hlApp' \in {"supported", "finally", "ask", "returning"}
    BY DEF AppSupported, Awake, ConnectFails
  <1>2. CASE hlIo.conn = "UNSUPPORTED_IID" /\ hlIo' = [hlIo EXCEPT !.conn = "ESTABLISHED"]
    <2>1. HlTypeOK' /\ (Taken' => Taken)
      BY <1>1, <1>2 DEF LinkInv, HlTypeOK, HlIos, Taken
    <2>2. /\ hlIo'.disc = hlIo.disc /\ hlIo'.proto = hlIo.proto /\ hlIo'.done = hlIo.done
          /\ hlIo'.listeners = hlIo.listeners
      BY <1>2 DEF LinkInv, HlTypeOK, HlIos
    <2>3. QED
      BY <1>1, <1>2, <2>1, <2>2
      DEF LinkInv, HlThreads, DisconnectedIsClosed, ThreadsOfPhase, WatchdogTakes, TakenIsLost, OpenWillHear, LateOpenFails
  <1>3. CASE hlIo' = hlIo \/ hlIo' = [hlIo EXCEPT !.state = "DEAD"]
    <2>1. /\ hlIo' \in HlIos
          /\ hlIo'.disc = hlIo.disc /\ hlIo'.proto = hlIo.proto /\ hlIo'.conn = hlIo.conn
          /\ hlIo'.done = hlIo.done /\ hlIo'.listeners = hlIo.listeners
      BY <1>3 DEF LinkInv, HlTypeOK, HlIos
    <2>2. QED
      BY <1>1, <2>1, LinkStays
  <1>4. QED
    BY <1>2, <1>3 DEF AppSupported, ConnectFails

\* An opening that comes after the loss: only a late message can have overwritten DISCONNECTED,
\* so the connection was closed by disconnect().
LEMMA OpenKeepsLink == ASSUME LinkInv, AppOpens PROVE LinkInv'
  <1>1. CASE hlIo.state = "CONNECTED" /\ hlIo.conn # "DISCONNECTED"
    <2>1. /\ hlIo' = [hlIo EXCEPT !.listeners = @ \cup {"input"}]
          /\ hlRes' = "OPEN" /\ hlApp = "open" /\ hlApp' = "opening" /\ UNCHANGED <<hlThread, hlTell, hlLink>>
      BY <1>1 DEF AppOpens, Awake
    <2>2. HlTypeOK' /\ (Taken' => Taken)
      BY <2>1 DEF LinkInv, HlTypeOK, HlIos, Taken
    <2>3. /\ hlIo'.disc = hlIo.disc /\ hlIo'.proto = hlIo.proto /\ hlIo'.done = hlIo.done /\ hlIo'.conn = hlIo.conn
          /\ "input" \in hlIo'.listeners
      BY <2>1 DEF LinkInv, HlTypeOK, HlIos
    <2>4. Taken => hlIo.disc
      BY <1>1 DEF LinkInv, TakenIsLost
    <2>5. QED
      BY <2>1, <2>2, <2>3, <2>4
      DEF LinkInv, HlThreads, DisconnectedIsClosed, ThreadsOfPhase, WatchdogTakes, TakenIsLost, OpenWillHear, LateOpenFails
  <1>2. CASE ~(hlIo.state = "CONNECTED" /\ hlIo.conn # "DISCONNECTED")
    <2>1. /\ UNCHANGED <<hlIo, hlThread, hlTell, hlRes, hlLink>> /\ hlApp = "open"
          /\ hlApp' \in {"finally", "crashed"}
      BY <1>2 DEF AppOpens, Awake
    <2>2. QED
      BY <2>1, LinkStays DEF LinkInv, HlTypeOK
  <1>3. QED
    BY <1>1, <1>2

\* close() of the input, wherever it comes from.
LEMMA CloseKeepsLink ==
    ASSUME LinkInv, hlRes' = "CLOSED", hlIo' = InputRemoved, UNCHANGED <<hlThread, hlTell, hlLink>>,
           hlApp' \notin {"connect", "protocol"}
    PROVE  LinkInv'
  <1>1. hlIo' = hlIo \/ hlIo' = [hlIo EXCEPT !.listeners = @ \ {"input"}]
    <2>1. CASE hlIo.conn = "DISCONNECTED"
      BY <2>1 DEF InputRemoved, LinkInv, HlTypeOK, HlIos
    <2>2. CASE hlIo.conn # "DISCONNECTED"
      BY <2>2 DEF InputRemoved
    <2>3. QED
      BY <2>1, <2>2
  <1>2. HlTypeOK' /\ (Taken' => Taken)
    BY <1>1 DEF LinkInv, HlTypeOK, HlIos, Taken
  <1>3. hlIo'.disc = hlIo.disc /\ hlIo'.proto = hlIo.proto /\ hlIo'.done = hlIo.done /\ hlIo'.conn = hlIo.conn
    BY <1>1 DEF LinkInv, HlTypeOK, HlIos
  <1>4. QED
    BY <1>2, <1>3
    DEF LinkInv, HlThreads, DisconnectedIsClosed, ThreadsOfPhase, WatchdogTakes, TakenIsLost, OpenWillHear, LateOpenFails

LEMMA OpenedKeepsLink == ASSUME LinkInv, AppOpened PROVE LinkInv'
  <1>1. /\ hlApp = "opening" /\ hlApp' \in {"loop", "read", "finally"} /\ UNCHANGED <<hlThread, hlTell, hlLink>>
    BY DEF AppOpened, Awake
  <1>2. CASE CanWrite /\ UNCHANGED <<hlIo, hlRes>>
    <2>1. ~hlIo.disc
      BY <1>2 DEF CanWrite, LinkInv, DisconnectedIsClosed
    <2>2. QED
      BY <1>1, <1>2, <2>1
      DEF LinkInv, HlTypeOK, HlThreads, DisconnectedIsClosed, ThreadsOfPhase, Taken, WatchdogTakes, TakenIsLost, OpenWillHear, LateOpenFails
  <1>3. CASE hlRes' = "CLOSED" /\ hlIo' = InputRemoved
    BY <1>1, <1>3, CloseKeepsLink
  <1>4. QED
    BY <1>2, <1>3 DEF AppOpened

\* The client's loop, and the end of run().
LEMMA LoopKeepsLink ==
    ASSUME LinkInv, AppLoops \/ AppReads \/ AppReset \/ AppWaitsForDisconnect \/ AppCleansUp PROVE LinkInv'
  <1>1. UNCHANGED <<hlIo, hlThread, hlTell, hlRes, hlLink>>
    BY DEF AppLoops, AppReads, AppReset, AppWaitsForDisconnect, AppCleansUp
  <1>2. hlApp # "opening" /\ hlApp' \notin {"connect", "protocol"}
    BY DEF AppLoops, AppReads, AppReset, AppWaitsForDisconnect, AppCleansUp, Awake
  <1>3. QED
    BY <1>1, <1>2, LinkStays DEF LinkInv, HlTypeOK

LEMMA ClosesKeepLink == ASSUME LinkInv, AppCloses \/ AppResets PROVE LinkInv'
  <1>1. /\ hlApp # "opening" /\ hlApp' \in {"loop", "resetting", "finally"} /\ UNCHANGED <<hlThread, hlTell, hlLink>>
    BY DEF AppCloses, AppResets, Awake
  <1>2. CASE hlRes' = "CLOSED" /\ hlIo' = InputRemoved
    BY <1>1, <1>2, CloseKeepsLink
  <1>3. CASE UNCHANGED <<hlRes, hlIo>>
    BY <1>1, <1>3, LinkStays DEF LinkInv, HlTypeOK
  <1>4. QED
    BY <1>2, <1>3 DEF AppCloses, AppResets

LEMMA DisconnectKeepsLink ==
    ASSUME LinkInv, Disconnect, UNCHANGED <<hlTell, hlRes>>,
           hlApp' \notin {"connect", "protocol"} \/ hlApp' = hlApp, hlApp # "opening" \/ hlApp' = hlApp
    PROVE  LinkInv'
  <1>1. CASE hlIo.disc
    BY <1>1, LinkStays DEF Disconnect, LinkInv, HlTypeOK
  <1>2. CASE ~hlIo.disc
    <2>1. /\ hlIo' = [hlIo EXCEPT !.disc = TRUE] /\ hlLink' = "closed"
          /\ hlThread' = IF hlIo.proto THEN [hlThread EXCEPT !["dog"] = "running"] ELSE hlThread
      BY <1>2 DEF Disconnect
    <2>2. /\ hlIo'.disc /\ hlIo'.proto = hlIo.proto /\ hlIo'.done = hlIo.done /\ hlIo'.conn = hlIo.conn
          /\ hlIo'.listeners = hlIo.listeners
      BY <2>1 DEF LinkInv, HlTypeOK, HlIos
    <2>3. HlTypeOK'
      BY <2>1 DEF LinkInv, HlTypeOK, HlIos, HlThreads
    <2>4. hlThread["dog"] = "none"
      BY <1>2 DEF LinkInv, ThreadsOfPhase
    <2>5. Taken' => Taken
      BY <2>1, <2>2 DEF LinkInv, HlTypeOK, HlThreads, Taken
    <2>6. ThreadsOfPhase'
      BY <2>1, <2>2, <2>4 DEF LinkInv, HlTypeOK, HlThreads, ThreadsOfPhase
    <2>7. QED
      BY <2>1, <2>2, <2>3, <2>5, <2>6 DEF LinkInv, DisconnectedIsClosed, WatchdogTakes, TakenIsLost, OpenWillHear, LateOpenFails
  <1>3. QED
    BY <1>1, <1>2

LEMMA EndsKeepLink ==
    ASSUME LinkInv, AppDisconnects \/ StopAborts \/ StopDisconnects \/ StopInterrupts \/ ClientDisconnects
    PROVE  LinkInv'
  <1>1. /\ UNCHANGED <<hlTell, hlRes>>
        /\ hlApp' \notin {"connect", "protocol"} \/ hlApp' = hlApp
        /\ hlApp # "opening" \/ hlApp' = hlApp
    BY DEF AppDisconnects, StopAborts, StopDisconnects, StopInterrupts, ClientDisconnects, Awake
  <1>2. Disconnect \/ UNCHANGED <<hlIo, hlLink, hlThread>>
    BY DEF AppDisconnects, StopAborts, StopDisconnects, StopInterrupts, ClientDisconnects
  <1>3. CASE Disconnect
    BY <1>1, <1>3, DisconnectKeepsLink
  <1>4. CASE UNCHANGED <<hlIo, hlLink, hlThread>>
    BY <1>1, <1>4, LinkStays DEF LinkInv, HlTypeOK
  <1>5. QED
    BY <1>2, <1>3, <1>4

-----------------------------------------------------------------------------
(* The incoming thread and the watchdog.                                   *)

\* A message handled after the listeners were taken: the incoming thread has not seen the loss,
\* waitForConnect has not either, so it was the watchdog, which comes with disconnect().
LEMMA MessageKeepsLink == ASSUME LinkInv, InHandles PROVE LinkInv'
  <1>1. /\ hlThread["in"] = "running" /\ UNCHANGED <<hlThread, hlTell, hlRes, hlLink>>
        /\ hlApp' = hlApp \/ (hlApp = "read" /\ hlApp' = "loop")
    BY DEF InHandles
  <1>2. \/ hlIo' = hlIo
        \/ \E b \in BOOLEAN : hlIo' = [hlIo EXCEPT !.conn = "ESTABLISHED", !.known = b]
        \/ \E c \in {"CONNECTED", "UNSUPPORTED_IID"} : hlIo' = [hlIo EXCEPT !.conn = c]
    BY DEF InHandles
  <1>3. /\ hlIo' \in HlIos /\ hlIo'.disc = hlIo.disc /\ hlIo'.proto = hlIo.proto /\ hlIo'.done = hlIo.done
        /\ hlIo'.listeners = hlIo.listeners
    BY <1>2 DEF LinkInv, HlTypeOK, HlIos
  <1>4. (Taken' => Taken) /\ HlTypeOK'
    BY <1>1, <1>3 DEF LinkInv, HlTypeOK, Taken
  <1>5. Taken => hlIo.disc
    BY <1>1 DEF LinkInv, WatchdogTakes
  <1>6. QED
    BY <1>1, <1>3, <1>4, <1>5
    DEF LinkInv, HlThreads, DisconnectedIsClosed, ThreadsOfPhase, Taken, WatchdogTakes, TakenIsLost, OpenWillHear, LateOpenFails

\* InEnds and DogWakes: a thread goes on to handleConnectionLost, or leaves it to another.
LEMMA WakesKeepLink == ASSUME LinkInv, InEnds \/ DogWakes PROVE LinkInv'
  <1>1. UNCHANGED <<hlIo, hlTell, hlRes, hlLink, hlApp>>
    BY DEF InEnds, DogWakes
  <1>2. PICK t \in HlThreads, w \in {"lost", "ended"} :
            hlThread[t] = "running" /\ hlThread' = [hlThread EXCEPT ![t] = w] /\ (t = "in" => w = "lost")
    BY DEF InEnds, DogWakes, HlThreads
  <1>3. HlTypeOK' /\ (Taken' => Taken)
    BY <1>1, <1>2 DEF LinkInv, HlTypeOK, Taken
  <1>4. ThreadsOfPhase' /\ WatchdogTakes'
    BY <1>1, <1>2, <1>3 DEF LinkInv, HlTypeOK, HlThreads, ThreadsOfPhase, WatchdogTakes
  <1>5. QED
    BY <1>1, <1>3, <1>4 DEF LinkInv, DisconnectedIsClosed, TakenIsLost, OpenWillHear, LateOpenFails

LEMMA TakingKeepsLink == ASSUME LinkInv, NEW t \in HlThreads, LostTakes(t) PROVE LinkInv'
  <1>1. /\ hlThread[t] = "lost" /\ hlThread' = [hlThread EXCEPT ![t] = "telling"]
        /\ hlTell' = [hlTell EXCEPT ![t] = hlIo.listeners]
        /\ hlIo' = [hlIo EXCEPT !.conn = "DISCONNECTED", !.listeners = {}]
        /\ UNCHANGED <<hlRes, hlApp, hlLink>>
    BY DEF LostTakes
  <1>2. /\ hlIo'.conn = "DISCONNECTED" /\ hlIo'.listeners = {}
        /\ hlIo'.disc = hlIo.disc /\ hlIo'.proto = hlIo.proto /\ hlIo'.done = hlIo.done
    BY <1>1 DEF LinkInv, HlTypeOK, HlIos
  <1>3. HlTypeOK'
    BY <1>1 DEF LinkInv, HlTypeOK, HlIos
  <1>4. ThreadsOfPhase'
    BY <1>1, <1>2 DEF LinkInv, HlTypeOK, HlThreads, ThreadsOfPhase
  <1>5. WatchdogTakes'
    BY <1>1, <1>2 DEF LinkInv, HlTypeOK, HlThreads, ThreadsOfPhase, WatchdogTakes, Taken
  <1>6. OpenWillHear'
    BY <1>1, <1>2 DEF LinkInv, HlTypeOK, ThreadsOfPhase, OpenWillHear
  <1>7. QED
    BY <1>1, <1>2, <1>3, <1>4, <1>5, <1>6 DEF LinkInv, DisconnectedIsClosed, TakenIsLost, LateOpenFails

LEMMA TellingKeepsLink == ASSUME LinkInv, NEW t \in HlThreads, TellIoio(t) \/ TellInput(t) PROVE LinkInv'
  <1>1. PICK l \in {"IOIO", "input"} : l \in hlTell[t] /\ hlTell' = [hlTell EXCEPT ![t] = @ \ {l}]
                                     /\ (l = "input" => hlRes' # "OPEN")
    BY DEF TellIoio, TellInput
  <1>2. UNCHANGED <<hlThread, hlApp>> /\ (hlRes' = hlRes \/ hlRes' # "OPEN")
    BY DEF TellIoio, TellInput
  <1>3. hlIo' = hlIo \/ hlIo' = [hlIo EXCEPT !.state = "DEAD", !.disc = TRUE]
    BY DEF TellIoio, TellInput
  <1>4. hlIo' \in HlIos /\ (hlIo.disc => hlIo'.disc) /\ hlIo'.proto = hlIo.proto /\ hlIo'.done = hlIo.done
        /\ hlIo'.conn = hlIo.conn /\ hlIo'.listeners = hlIo.listeners
    BY <1>3 DEF LinkInv, HlTypeOK, HlIos
  <1>5. DisconnectedIsClosed'
    BY <1>3 DEF LinkInv, HlTypeOK, HlIos, DisconnectedIsClosed, TellIoio, TellInput
  <1>6. HlTypeOK' /\ Taken' = Taken
    BY <1>1, <1>2, <1>4 DEF LinkInv, HlTypeOK, Taken
  <1>7. ThreadsOfPhase' /\ WatchdogTakes'
    BY <1>1, <1>2, <1>4, <1>6 DEF LinkInv, HlTypeOK, ThreadsOfPhase, WatchdogTakes
  <1>8. OpenWillHear'
    BY <1>1, <1>2, <1>4 DEF LinkInv, HlTypeOK, OpenWillHear
  <1>9. QED
    BY <1>2, <1>4, <1>5, <1>6, <1>7, <1>8 DEF LinkInv, TakenIsLost, LateOpenFails

LEMMA EndingKeepsLink == ASSUME LinkInv, NEW t \in HlThreads, LostEnds(t) PROVE LinkInv'
  <1>1. /\ hlThread[t] = "telling" /\ hlTell[t] = {} /\ hlThread' = [hlThread EXCEPT ![t] = "ended"]
        /\ hlIo' = [hlIo EXCEPT !.done = TRUE] /\ UNCHANGED <<hlRes, hlApp, hlTell, hlLink>>
    BY DEF LostEnds
  <1>2. /\ hlIo'.disc = hlIo.disc /\ hlIo'.proto = hlIo.proto /\ hlIo'.conn = hlIo.conn /\ hlIo'.listeners = hlIo.listeners
    BY <1>1 DEF LinkInv, HlTypeOK, HlIos
  <1>3. HlTypeOK' /\ Taken
    BY <1>1 DEF LinkInv, HlTypeOK, HlIos, Taken
  <1>4. ThreadsOfPhase' /\ WatchdogTakes'
    BY <1>1, <1>2, <1>3 DEF LinkInv, HlTypeOK, HlThreads, ThreadsOfPhase, WatchdogTakes
  <1>5. QED
    BY <1>1, <1>2, <1>3, <1>4 DEF LinkInv, DisconnectedIsClosed, TakenIsLost, OpenWillHear, LateOpenFails

LEMMA OutsideKeepsLink == ASSUME LinkInv, LinkBreaks \/ BoardReports PROVE LinkInv'
  <1>1. /\ UNCHANGED <<hlIo, hlThread, hlTell, hlRes, hlApp>> /\ hlLink = "up"
    BY DEF LinkBreaks, BoardReports
  <1>2. QED
    BY <1>1
    DEF LinkInv, HlTypeOK, HlThreads, DisconnectedIsClosed, ThreadsOfPhase, Taken, WatchdogTakes, TakenIsLost, OpenWillHear,
        LateOpenFails

LEMMA NextLink == LinkInv /\ [HlNext]_hlVars => LinkInv'
  <1> SUFFICES ASSUME LinkInv, [HlNext]_hlVars PROVE LinkInv'
    OBVIOUS
  <1>1. CASE AppGoesOn
    BY <1>1, CreateKeepsLink, ConnectKeepsLink, HandshakeKeepsLink, SupportedKeepsLink, OpenKeepsLink, OpenedKeepsLink,
       LoopKeepsLink, ClosesKeepLink, EndsKeepLink
    DEF AppGoesOn
  <1>2. CASE AppConnects
    BY <1>2, ConnectKeepsLink
  <1>3. CASE StopAborts \/ StopGoesOn \/ ClientDisconnects
    BY <1>3, EndsKeepLink DEF StopGoesOn
  <1>4. CASE InHandles \/ InEnds \/ DogWakes
    BY <1>4, MessageKeepsLink, WakesKeepLink
  <1>5. CASE \E t \in HlThreads : HandleConnectionLost(t)
    BY <1>5, TakingKeepsLink, TellingKeepsLink, EndingKeepsLink DEF HandleConnectionLost
  <1>6. CASE LinkBreaks \/ BoardReports
    BY <1>6, OutsideKeepsLink
  <1>7. CASE UNCHANGED hlVars
    BY <1>7, LinkStays DEF LinkInv, HlTypeOK, hlVars
  <1>8. QED
    BY <1>1, <1>2, <1>3, <1>4, <1>5, <1>6, <1>7 DEF HlNext

-----------------------------------------------------------------------------
(***************************************************************************)
(* Once every handleConnectionLost has returned, no input believes that it *)
(* is open.  The argument: an open input is a listener or about to be told *)
(* (OpenWillHear); one that became a listener too late to be told can only *)
(* be in the middle of its opening (LateOpenFails), because the state it   *)
(* saw was overwritten by a late message, which takes the watchdog and     *)
(* therefore a closed connection (WatchdogTakes).                          *)
(***************************************************************************)
THEOREM LossReachesInputs == HlSpec => []LossIsTold
  <1>1. LinkInv => LossIsTold
    BY DEF LinkInv, HlTypeOK, ThreadsOfPhase, Taken, OpenWillHear, LateOpenFails, LossIsTold
  <1>2. QED
    BY <1>1, InitLink, NextLink, PTL DEF HlSpec
=============================================================================
