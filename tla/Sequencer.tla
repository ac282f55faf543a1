------------------------------- MODULE Sequencer -------------------------------
(***************************************************************************)
(* The waveform sequencer, end to end: SequencerImpl on the host,          *)
(* sequencer.c with its T2 and OC interrupt handlers on the board, the     *)
(* slot credits and the events between them, and the loss of the           *)
(* connection.                                                             *)
(*                                                                         *)
(* The application opens one sequencer after another (sessions).  What a   *)
(* cue does to the pins is left out: the_sequence is a number of cues.     *)
(* A handler that returns false is a protocol error: the board closes the  *)
(* connection and resets itself (STATE_ERROR of main.c).                   *)
(***************************************************************************)
EXTENDS Naturals, Sequences, FiniteSets

CONSTANTS SeqLen,       \* SEQUENCE_LENGTH (32)
          EvLen,        \* the length of event_queue (16)
          SizeMod,      \* sizes a STOPPED event has room for (5 bits: 32)
          MaxOcs,       \* bound on the continuous channels of a configuration
          MaxSessions,  \* bound on the number of sequencers opened
          MaxDrops,     \* bound on connections lost for an outside reason
          MaxCmds,      \* bound on commands in flight
          MaxEvents,    \* bound on events in flight
          MaxBatch,     \* bound on commands handled before SequencerTasks runs
          Careful       \* the application follows the rules of "Caution" below

ASSUME SeqAssumption == /\ SeqLen \in Nat \ {0} /\ EvLen \in Nat \ {0}
                        /\ SizeMod \in Nat \ {0} /\ MaxOcs \in Nat
                        /\ MaxSessions \in Nat /\ MaxDrops \in Nat
                        /\ MaxCmds \in Nat /\ MaxEvents \in Nat /\ MaxBatch \in Nat
                        /\ Careful \in BOOLEAN

Sessions == 1..MaxSessions

VARIABLES
    \* host: the SequencerImpl of each session, and the newest session
    cur,
    state_,           \* "NEW", "OPEN", "CLOSED", "DISCONNECTED"
    availableSlots_,
    remoteState_,
    localState_,      \* of the newest session
    blocked,          \* the sessions with a thread waiting in push()
    closing,          \* the sessions with a thread waiting in close()
    listeners_,       \* IncomingState.sequencerListeners_
    currentOpen_,
    awaiting,         \* answer a careful application waits for (history)
    \* the connection
    toBoard,          \* commands: <<command, session>>
    toHost,           \* events: <<event, size>>
    drops,            \* connections lost for an outside reason
    \* the board
    mainLoop,         \* "incoming", "pushed" (inside SequencerPush), "tasks", "error"
    batch,            \* commands handled since SequencerTasks last finished
    fault,            \* the handler that returned false, and why
    sequencer_open,   \* the session the sequencer is open for, or 0
    sequencer_running, sequencer_should_run,
    queued,           \* SequenceSize(&the_sequence)
    T2IE, PR2,
    oc_waiting_close,
    ocArmed,          \* OC interrupts that are enabled and will come
    event_queue,
    disturbed         \* what broke the slot account, if anything (history)

hostVars == <<cur, state_, availableSlots_, remoteState_, localState_, blocked,
              closing, listeners_, currentOpen_, awaiting>>
ocVars == <<oc_waiting_close, ocArmed>>
runVars == <<sequencer_running, sequencer_should_run, T2IE, PR2>>
boardVars == <<sequencer_open, runVars, queued, ocVars, event_queue>>
vars == <<hostVars, toBoard, toHost, drops, mainLoop, batch, fault, boardVars,
          disturbed>>

Init ==
    /\ cur = 0
    /\ state_ = [s \in Sessions |-> "NEW"]
    /\ availableSlots_ = [s \in Sessions |-> 0]
    /\ remoteState_ = [s \in Sessions |-> "CLOSED"]
    /\ localState_ = "IDLE"
    /\ blocked = {} /\ closing = {}
    /\ listeners_ = <<>> /\ currentOpen_ = FALSE
    /\ awaiting = "none"
    /\ toBoard = <<>> /\ toHost = <<>> /\ drops = 0
    /\ mainLoop = "incoming" /\ batch = 0 /\ fault = "none"
    /\ sequencer_open = 0
    /\ sequencer_running = FALSE /\ sequencer_should_run = FALSE
    /\ queued = 0 /\ T2IE = FALSE /\ PR2 = "1"
    /\ oc_waiting_close = 0 /\ ocArmed = 0
    /\ event_queue = <<>>
    /\ disturbed = {}

\* A bound: behaviours are followed up to the first event that breaks the slot
\* account, after which availableSlots_ may grow for ever.
Undisturbed == disturbed = {}

--------------------------------------------------------------------------------
(* Caution.  The API accepts more than the board does.  A careful           *)
(* application closes a sequencer only once it has seen it opened and no    *)
(* push() is blocked, and after pause() or stop() it waits for the event    *)
(* that answers it before it starts, pauses or plays a manual cue.          *)

Answered == Careful => awaiting = "none"
MayClose == Careful => remoteState_[cur] # "CLOSED" /\ cur \notin blocked

--------------------------------------------------------------------------------
(* The application, on the newest session.  Once it has called close() it calls nothing else. *)

Usable == /\ cur # 0 /\ state_[cur] = "OPEN" /\ cur \notin closing
          /\ Len(toBoard) < MaxCmds

Send(command) == toBoard' = Append(toBoard, <<command, cur>>)

\* new SequencerImpl: the resource is free once the last one is closed, or the
\* connection is a new one.  The listener is registered before the message goes.
openSequencer ==
    /\ Undisturbed
    /\ cur < MaxSessions
    /\ cur # 0 => state_[cur] \in {"CLOSED", "DISCONNECTED"}
    /\ Len(toBoard) < MaxCmds /\ fault = "none"
    /\ cur' = cur + 1
    /\ state_' = [state_ EXCEPT ![cur + 1] = "OPEN"]
    /\ localState_' = "IDLE"
    /\ listeners_' = Append(listeners_, cur + 1)
    /\ awaiting' = "none"
    /\ toBoard' = Append(toBoard, <<"open", cur + 1>>)
    /\ UNCHANGED <<availableSlots_, remoteState_, blocked, closing, currentOpen_,
                   toHost, drops, mainLoop, batch, fault, boardVars, disturbed>>

\* push(): takes a slot and sends, or waits for one.
push ==
    /\ Undisturbed
    /\ Usable /\ cur \notin blocked
    /\ IF availableSlots_[cur] = 0
       THEN /\ blocked' = blocked \union {cur}
            /\ UNCHANGED <<availableSlots_, toBoard>>
       ELSE /\ Send("push")
            /\ availableSlots_' = [availableSlots_ EXCEPT ![cur] = @ - 1]
            /\ UNCHANGED blocked
    /\ UNCHANGED <<cur, state_, remoteState_, localState_, closing, listeners_,
                   currentOpen_, awaiting, toHost, drops, mainLoop, batch, fault,
                   boardVars, disturbed>>

\* A waiting push() finds a slot.  It looks at neither close() nor the loss of
\* the connection, other than by failing to send.
pushWakes(s) ==
    /\ Undisturbed
    /\ s \in blocked
    /\ availableSlots_[s] # 0
    /\ blocked' = blocked \ {s}
    /\ IF state_[s] = "DISCONNECTED"
       THEN UNCHANGED <<availableSlots_, toBoard>>
       ELSE /\ Len(toBoard) < MaxCmds
            /\ toBoard' = Append(toBoard, <<"push", s>>)
            /\ availableSlots_' = [availableSlots_ EXCEPT ![s] = @ - 1]
    /\ UNCHANGED <<cur, state_, remoteState_, localState_, closing, listeners_,
                   currentOpen_, awaiting, toHost, drops, mainLoop, batch, fault,
                   boardVars, disturbed>>

\* A command that only changes localState_.
Command(command, from, to, answer) ==
    /\ Undisturbed
    /\ Usable
    /\ localState_ \in from
    /\ Send(command)
    /\ localState_' = to
    /\ awaiting' = IF answer = "" THEN awaiting ELSE answer
    /\ UNCHANGED <<cur, state_, availableSlots_, remoteState_, blocked, closing,
                   listeners_, currentOpen_, toHost, drops, mainLoop, batch, fault,
                   boardVars, disturbed>>

manualStart == Answered /\ Command("manual_start", {"IDLE", "MANUAL"}, "MANUAL", "")
manualStop == Answered /\ Command("manual_stop", {"MANUAL"}, "IDLE", "")
start == Answered /\ Command("start", {"IDLE"}, "RUNNING", "")
pause == Answered /\ Command("pause", {"RUNNING"}, "IDLE", "pause")
stop == /\ Careful => awaiting # "stop"
        /\ Command("stop", {"IDLE", "RUNNING", "MANUAL"}, "IDLE", "stop")

\* close(): sends the message, then waits for remoteState_ to become CLOSED.
close ==
    /\ Undisturbed
    /\ Usable /\ MayClose
    /\ Send("close")
    /\ closing' = closing \union {cur}
    /\ UNCHANGED <<cur, state_, availableSlots_, remoteState_, localState_, blocked,
                   listeners_, currentOpen_, awaiting, toHost, drops, mainLoop, batch,
                   fault, boardVars, disturbed>>

\* close() returns: acknowledged, or with the connection lost.
closeReturns(s) ==
    /\ Undisturbed
    /\ s \in closing
    /\ remoteState_[s] = "CLOSED" \/ state_[s] = "DISCONNECTED"
    /\ closing' = closing \ {s}
    /\ state_' = [state_ EXCEPT ![s] = IF @ = "OPEN" THEN "CLOSED" ELSE @]
    /\ UNCHANGED <<cur, availableSlots_, remoteState_, localState_, blocked,
                   listeners_, currentOpen_, awaiting, toBoard, toHost, drops,
                   mainLoop, batch, fault, boardVars, disturbed>>

--------------------------------------------------------------------------------
(* The host's incoming thread. *)

\* IncomingState.handleSequencerEvent and the SequencerImpl method it calls:
\* OPENED opens the first listener, CLOSED removes it.
Slots(slots, event, arg) == CASE event = "opened" -> arg
                              [] event = "next_cue" -> slots + 1
                              [] event = "stopped" -> slots + arg
                              [] OTHER -> slots

RemoteState(s, event) == CASE event \in {"opened", "paused", "stopped"} -> "IDLE_OR_MANUAL"
                           [] event = "stalled" -> "STALLED"
                           [] event = "closed" -> "CLOSED"
                           [] OTHER -> remoteState_[s]

handleSequencerEvent ==
    /\ Undisturbed
    /\ toHost # <<>>
    /\ toHost' = Tail(toHost)
    /\ LET event == Head(toHost)[1]
           open == currentOpen_ \/ (event = "opened" /\ listeners_ # <<>>)
           s == Head(listeners_)
       IN  /\ IF open
              THEN /\ availableSlots_' =
                          [availableSlots_ EXCEPT ![s] = Slots(@, event, Head(toHost)[2])]
                   /\ remoteState_' = [remoteState_ EXCEPT ![s] = RemoteState(s, event)]
              ELSE UNCHANGED <<availableSlots_, remoteState_>>
           /\ currentOpen_' = (open /\ event # "closed")
           /\ listeners_' = IF open /\ event = "closed" THEN Tail(listeners_) ELSE listeners_
           /\ awaiting' = IF /\ open /\ s = cur
                             /\ event = "stopped" \/ (event = "paused" /\ awaiting = "pause")
                          THEN "none" ELSE awaiting
    /\ UNCHANGED <<cur, state_, localState_, blocked, closing, toBoard, drops,
                   mainLoop, batch, fault, boardVars, disturbed>>

--------------------------------------------------------------------------------
(* The board. *)

\* PushEvent: nothing checks that event_queue has room.  Past its length a new
\* event overwrites the slot of an old one, and is read in place of both.
PushedEvent(q, e) ==
    [i \in 1 .. Len(q) + 1 |-> IF (Len(q) + 1 - i) % EvLen = 0 THEN e ELSE q[i]]

\* The history of what can break the slot account.
Overwrites == IF Len(event_queue) >= EvLen THEN {"overwrite"} ELSE {}

\* AppProtocolHandleIncoming takes the next command; one that is refused leads
\* to STATE_ERROR.
Handle(command) ==
    /\ Undisturbed
    /\ mainLoop = "incoming" /\ batch < MaxBatch
    /\ toBoard # <<>> /\ Head(toBoard)[1] = command
    /\ toBoard' = Tail(toBoard)
    /\ batch' = batch + 1
    /\ UNCHANGED <<hostVars, toHost, drops>>

Refuse(reason) ==
    /\ mainLoop' = "error" /\ fault' = reason
    /\ UNCHANGED <<boardVars, disturbed>>

Accept == mainLoop' = "incoming" /\ UNCHANGED fault

\* the_sequence (sequence.h)
SequenceFull == queued = SeqLen
SequencePush == queued' = queued + 1
SequencePull == queued' = queued - 1
SequenceClear == queued' = 0

SequencerOpen ==
    /\ Handle("open")
    /\ IF sequencer_open # 0 THEN Refuse("open_open")
       ELSE /\ Accept
            /\ sequencer_running' = FALSE /\ sequencer_should_run' = FALSE
            /\ sequencer_open' = Head(toBoard)[2]
            /\ event_queue' = PushedEvent(event_queue, <<"opened", SeqLen>>)
            /\ disturbed' = disturbed \union Overwrites
            /\ UNCHANGED <<T2IE, PR2, queued, ocVars>>

\* SequencerPush, up to SequencePush: an interrupt may come before the test
\* whether the sequencer must be restarted.
SequencerPush ==
    /\ Handle("push")
    /\ IF sequencer_open = 0 THEN Refuse("push_closed")
       ELSE IF SequenceFull THEN Refuse("push_full")
       ELSE /\ mainLoop' = "pushed"
            /\ SequencePush
            /\ disturbed' = IF Head(toBoard)[2] # sequencer_open THEN disturbed \union {"stale_push"}
                            ELSE disturbed
            /\ UNCHANGED <<fault, sequencer_open, runVars, ocVars, event_queue>>

StartEffect ==
    /\ sequencer_running' = TRUE /\ sequencer_should_run' = TRUE
    /\ T2IE' = TRUE
    /\ UNCHANGED PR2

\* Mutant of SequencerPushRestart: a stalled sequencer stays stalled.
PushWithoutRestart ==
    /\ Undisturbed
    /\ mainLoop = "pushed"
    /\ mainLoop' = "incoming"
    /\ UNCHANGED <<hostVars, toBoard, toHost, drops, batch, fault, boardVars, disturbed>>

\* The rest of SequencerPush: a stalled sequencer starts again.
SequencerPushRestart ==
    /\ Undisturbed
    /\ mainLoop = "pushed"
    /\ mainLoop' = "incoming"
    /\ IF ~sequencer_running /\ sequencer_should_run
       THEN StartEffect ELSE UNCHANGED runVars
    /\ UNCHANGED <<hostVars, toBoard, toHost, drops, batch, fault, sequencer_open,
                   queued, ocVars, event_queue, disturbed>>

SequencerStart ==
    /\ Handle("start")
    /\ IF sequencer_open = 0 THEN Refuse("start_closed")
       ELSE IF sequencer_running THEN Refuse("start_running")
       ELSE /\ Accept /\ StartEffect
            /\ UNCHANGED <<sequencer_open, queued, ocVars, event_queue, disturbed>>

SequencerPause ==
    /\ Handle("pause")
    /\ IF sequencer_open = 0 THEN Refuse("pause_closed")
       ELSE /\ Accept
            /\ sequencer_should_run' = FALSE
            /\ UNCHANGED <<sequencer_open, sequencer_running, T2IE, PR2, queued, ocVars,
                           event_queue, disturbed>>

\* Mutants of StopEffect: the queue is not cleared, the period is not reset.
StopKeepsQueue ==
    /\ T2IE' = FALSE
    /\ PR2' = IF sequencer_running THEN "1" ELSE PR2
    /\ sequencer_running' = FALSE /\ sequencer_should_run' = FALSE
    /\ UNCHANGED queued

StopKeepsPeriod ==
    /\ T2IE' = FALSE
    /\ sequencer_running' = FALSE /\ sequencer_should_run' = FALSE
    /\ queued' = 0
    /\ UNCHANGED PR2

\* What SequencerStop does, the size it reports included: queue_size << 3 in a
\* uint8_t.  Timer interrupts are off from its first statement on.
StopEffect ==
    /\ T2IE' = FALSE
    /\ PR2' = IF sequencer_running THEN "1" ELSE PR2
    /\ sequencer_running' = FALSE /\ sequencer_should_run' = FALSE
    /\ SequenceClear

StoppedEvent == <<"stopped", queued % SizeMod>>

SequencerStop ==
    /\ Handle("stop")
    /\ IF sequencer_open = 0 THEN Refuse("stop_closed")
       ELSE /\ Accept /\ StopEffect
            /\ event_queue' = PushedEvent(event_queue, StoppedEvent)
            /\ disturbed' = disturbed \union Overwrites
            /\ UNCHANGED <<sequencer_open, ocVars>>

\* SequencerClose, for a configuration with n continuous channels: their OC
\* interrupts report CLOSED when the last pulse is over.
SequencerClose(n) ==
    /\ Handle("close")
    /\ IF sequencer_open = 0 THEN Refuse("close_closed")
       ELSE /\ Accept /\ StopEffect
            /\ sequencer_open' = 0
            /\ oc_waiting_close' = oc_waiting_close + n
            /\ ocArmed' = ocArmed + n
            /\ LET stopped == PushedEvent(event_queue, StoppedEvent)
               IN  event_queue' = IF oc_waiting_close' # 0 THEN stopped
                                  ELSE PushedEvent(stopped, <<"closed", 0>>)
            /\ disturbed' = IF Len(event_queue') > EvLen
                            THEN disturbed \union {"overwrite"} ELSE disturbed

SequencerManual(command) ==
    /\ Handle(command)
    /\ IF sequencer_open = 0 THEN Refuse("manual_closed")
       ELSE IF sequencer_running THEN Refuse("manual_running")
       ELSE Accept /\ UNCHANGED <<boardVars, disturbed>>

\* Mutant of T2Interrupt: running is not cleared.
T2StaysRunning ==
    /\ Undisturbed
    /\ T2IE
    /\ ~sequencer_should_run \/ queued = 0
    /\ T2IE' = FALSE /\ PR2' = "1"
    /\ event_queue' = PushedEvent(event_queue,
           <<IF sequencer_should_run THEN "stalled" ELSE "paused", 0>>)
    /\ disturbed' = disturbed \union Overwrites
    /\ UNCHANGED <<hostVars, toBoard, toHost, drops, mainLoop, batch, fault, queued,
                   sequencer_open, sequencer_running, sequencer_should_run, ocVars>>

\* __T2Interrupt: the next cue, or freeze: paused if it was told to, else stalled.
T2Interrupt ==
    /\ Undisturbed
    /\ T2IE
    /\ IF sequencer_should_run /\ queued # 0
       THEN /\ SequencePull
            /\ PR2' = "cue"
            /\ event_queue' = PushedEvent(event_queue, <<"next_cue", 0>>)
            /\ UNCHANGED <<T2IE, sequencer_running>>
       ELSE /\ T2IE' = FALSE /\ PR2' = "1" /\ sequencer_running' = FALSE
            /\ event_queue' = PushedEvent(event_queue,
                   <<IF sequencer_should_run THEN "stalled" ELSE "paused", 0>>)
            /\ UNCHANGED queued
    /\ disturbed' = disturbed \union Overwrites
    /\ UNCHANGED <<hostVars, toBoard, toHost, drops, mainLoop, batch, fault,
                   sequencer_open, sequencer_should_run, ocVars>>

\* Mutant of OCInterrupt: the counter is tested before it is decremented.
OCInterruptLate ==
    /\ Undisturbed
    /\ ocArmed # 0
    /\ ocArmed' = ocArmed - 1
    /\ oc_waiting_close' = oc_waiting_close - 1
    /\ event_queue' = IF oc_waiting_close = 0 THEN PushedEvent(event_queue, <<"closed", 0>>)
                      ELSE event_queue
    /\ UNCHANGED <<hostVars, toBoard, toHost, drops, mainLoop, batch, fault,
                   sequencer_open, runVars, queued, disturbed>>

\* _OCnInterrupt: the last one reports CLOSED.
OCInterrupt ==
    /\ Undisturbed
    /\ ocArmed # 0
    /\ ocArmed' = ocArmed - 1
    /\ oc_waiting_close' = oc_waiting_close - 1
    /\ event_queue' = IF oc_waiting_close' = 0 THEN PushedEvent(event_queue, <<"closed", 0>>)
                      ELSE event_queue
    /\ disturbed' = IF oc_waiting_close' = 0 THEN disturbed \union Overwrites ELSE disturbed
    /\ UNCHANGED <<hostVars, toBoard, toHost, drops, mainLoop, batch, fault,
                   sequencer_open, runVars, queued>>

\* SequencerTasks empties the queue into the connection, then the main loop looks
\* for commands again.
SequencerTasks ==
    /\ Undisturbed
    /\ mainLoop \in {"incoming", "tasks"}
    /\ IF event_queue = <<>>
       THEN /\ mainLoop' = "incoming" /\ batch' = 0
            /\ UNCHANGED <<toHost, event_queue>>
       ELSE /\ Len(toHost) < MaxEvents
            /\ mainLoop' = "tasks"
            /\ toHost' = Append(toHost, Head(event_queue))
            /\ event_queue' = Tail(event_queue)
            /\ UNCHANGED batch
    /\ UNCHANGED <<hostVars, toBoard, drops, fault, sequencer_open, runVars, queued,
                   ocVars, disturbed>>

\* The connection is lost, or closed after a refused command.  What is in flight
\* is gone; the board resets itself (SequencerInit, which runs SequencerKill) and
\* every SequencerImpl is disconnected.  Kill stops the output compare units, so
\* only the k interrupts already flagged still come; oc_waiting_close stays.
ConnectionLost(k) ==
    /\ Undisturbed
    /\ k <= ocArmed
    /\ mainLoop \in {"incoming", "error"}
    /\ IF mainLoop = "error" THEN UNCHANGED drops
       ELSE drops < MaxDrops /\ drops' = drops + 1
    /\ state_' = [s \in Sessions |-> IF state_[s] = "OPEN" THEN "DISCONNECTED" ELSE state_[s]]
    /\ listeners_' = <<>> /\ currentOpen_' = FALSE
    /\ toBoard' = <<>> /\ toHost' = <<>>
    /\ mainLoop' = "incoming" /\ batch' = 0 /\ fault' = "none"
    /\ sequencer_open' = 0
    /\ sequencer_running' = FALSE /\ sequencer_should_run' = FALSE
    /\ T2IE' = FALSE /\ PR2' = "1"
    /\ SequenceClear /\ event_queue' = <<>>
    /\ ocArmed' = k
    /\ awaiting' = "none"
    /\ UNCHANGED <<cur, availableSlots_, remoteState_, localState_, blocked, closing,
                   oc_waiting_close, disturbed>>

Application == openSequencer \/ push \/ manualStart \/ manualStop \/ start \/ pause
               \/ stop \/ close

MainLoop == \/ SequencerOpen \/ SequencerPush \/ SequencerPushRestart
            \/ SequencerStart \/ SequencerPause \/ SequencerStop
            \/ \E n \in 0..MaxOcs : SequencerClose(n)
            \/ SequencerManual("manual_start") \/ SequencerManual("manual_stop")

Next ==
    \/ Application
    \/ \E s \in Sessions : pushWakes(s) \/ closeReturns(s)
    \/ handleSequencerEvent
    \/ MainLoop
    \/ SequencerTasks
    \/ T2Interrupt
    \/ OCInterrupt
    \/ \E k \in 0 .. MaxOcs * MaxSessions : ConnectionLost(k)

Spec == Init /\ [][Next]_vars

\* The board's main loop and interrupts run, a lost connection is noticed, and so
\* do the host's incoming thread and the threads waiting in push() and close().
\* The application need not do anything.
Fairness ==
    /\ WF_vars(MainLoop)
    /\ WF_vars(SequencerTasks)
    /\ WF_vars(T2Interrupt)
    /\ WF_vars(OCInterrupt)
    /\ WF_vars(handleSequencerEvent)
    /\ WF_vars(/\ mainLoop = "error"
               /\ \E k \in 0 .. MaxOcs * MaxSessions : ConnectionLost(k))
    /\ \A s \in Sessions : /\ WF_vars(pushWakes(s))
                            /\ WF_vars(closeReturns(s))

FairSpec == Spec /\ Fairness

--------------------------------------------------------------------------------
(* Properties. *)

Events == {"opened", "next_cue", "stopped", "stalled", "paused", "closed"} \X (0..SeqLen)

\* The types of both ends; the_sequence stays within its length.
TypeOK ==
    /\ cur \in 0..MaxSessions
    /\ state_ \in [Sessions -> {"NEW", "OPEN", "CLOSED", "DISCONNECTED"}]
    /\ availableSlots_ \in [Sessions -> Nat]
    /\ remoteState_ \in [Sessions -> {"IDLE_OR_MANUAL", "STALLED", "CLOSED"}]
    /\ localState_ \in {"IDLE", "RUNNING", "MANUAL"}
    /\ blocked \subseteq Sessions /\ closing \subseteq Sessions
    /\ listeners_ \in Seq(Sessions) /\ currentOpen_ \in BOOLEAN
    /\ awaiting \in {"none", "pause", "stop"}
    /\ Len(toBoard) <= MaxCmds /\ Len(toHost) <= MaxEvents
    /\ toHost \in Seq(Events) /\ event_queue \in Seq(Events)
    /\ mainLoop \in {"incoming", "pushed", "tasks", "error"}
    /\ batch \in 0..MaxBatch
    /\ sequencer_open \in 0..MaxSessions
    /\ sequencer_running \in BOOLEAN /\ sequencer_should_run \in BOOLEAN
    /\ queued \in 0..SeqLen
    /\ T2IE \in BOOLEAN /\ PR2 \in {"1", "cue"}
    /\ oc_waiting_close \in Nat /\ ocArmed \in Nat
    /\ disturbed \subseteq {"overwrite", "stale_push"}

\* What availableSlots_ will be when the events of q have been handled.
Promised(slots, q) ==
    LET after[i \in 0..Len(q)] ==
            IF i = 0 THEN slots ELSE Slots(after[i - 1], q[i][1], q[i][2])
    IN  after[Len(q)]

\* The cues of session s on their way to the board.
Pushes(s) == Cardinality({i \in DOMAIN toBoard : toBoard[i] = <<"push", s>>})

\* availableSlots_ never promises a slot that is not there, whatever is in flight
\* while cues start, stall, stop and are pushed: what the host of the open session
\* has or will hear of, the cues on their way and those that wait fit in the_sequence.
\* Only an event lost in a full event_queue, or a push of an earlier session, breaks it.
SlotBound ==
    \A s \in Sessions : sequencer_open = s /\ disturbed = {} =>
        Promised(availableSlots_[s], toHost \o event_queue) + Pushes(s) + queued <= SeqLen

\* No command of a careful application is refused by the board.
CarefulIsAccepted == disturbed = {} => fault = "none"

\* The assertion in SequencerStart holds whenever it can be reached, and the timer
\* interrupt is on exactly while the sequencer runs.
TimerFollowsRunning == /\ T2IE = sequencer_running
                       /\ ~sequencer_running => PR2 = "1"

\* A stall is never missed: an interrupt that finds the queue empty while a push is
\* under way does not leave cues behind in a sequencer that should run.
StallIsNoticed ==
    mainLoop # "pushed" /\ sequencer_should_run /\ queued # 0 => sequencer_running

\* close() returns, unless a reset has taken away OC interrupts that SequencerClose
\* of an earlier connection still waits for.
CloseReturns ==
    \A s \in Sessions :
        s \in closing ~> \/ s \notin closing
                         \/ oc_waiting_close > ocArmed \/ disturbed # {}

--------------------------------------------------------------------------------
(* What the repository says and the code does not do (README, section 6). *)

\* Sequencer.pause(): "operation can be resumed seamlessly by calling start()
\* again".
PauseThenStart == fault # "start_running"

\* "We only have 5 bits in the event queue for size": assert(queue_size < 0x1F)
\* in SequencerStop, whenever it is about to run.
StopSizeFits ==
    mainLoop = "incoming" /\ sequencer_open # 0 /\ toBoard # <<>>
        /\ Head(toBoard)[1] \in {"stop", "close"} => queued < SizeMod - 1

\* SequencerImpl.close(): "we do not want to free the resources or exit the call
\* before the close is complete".
CloseIsComplete ==
    \A s \in Sessions : state_[s] = "CLOSED" =>
        /\ sequencer_open # s
        /\ \A i \in 1..Len(toBoard) : toBoard[i] # <<"close", s>>

\* Sequencer.push(): "@throws ConnectionLostException Connection to the IOIO was
\* lost before or during this operation": a waiting push() ends when it is.
PushSeesDisconnect ==
    \A s \in Sessions : (s \in blocked /\ state_[s] = "DISCONNECTED") ~> s \notin blocked
================================================================================
