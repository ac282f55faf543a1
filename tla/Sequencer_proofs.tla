---------------------------- MODULE Sequencer_proofs ----------------------------
(***************************************************************************)
(* Proofs about Sequencer, for every length of its queues, every number of *)
(* sessions and lost connections: the board's timer and its two flags, the *)
(* slots of the_sequence that the host counts, both for every application, *)
(* and that a careful application is never refused.                        *)
(***************************************************************************)
EXTENDS Sequencer, TLAPS, FiniteSetTheorems, WellFoundedInduction, SequenceTheorems

-----------------------------------------------------------------------------
(* The timer interrupt and the two flags that SequencerPush, SequencerStart, *)
(* SequencerStop and __T2Interrupt share.                                    *)

\* A sequencer that is not open does not run: SequencerOpen resets the flags, and
\* leaves the interrupt as SequencerClose and SequencerKill left it.
ClosedIsIdle == sequencer_open = 0 => ~sequencer_running /\ ~sequencer_should_run

RunInv ==
    /\ sequencer_running \in BOOLEAN /\ T2IE \in BOOLEAN
    /\ ClosedIsIdle /\ TimerFollowsRunning /\ StallIsNoticed

\* What leaves the flags, the queue and the progress of a push alone.
LEMMA RunStays ==
    ASSUME RunInv, UNCHANGED <<sequencer_open, runVars, queued>>,
           mainLoop # "pushed" \/ mainLoop' = "pushed"
    PROVE  RunInv'
  BY DEF RunInv, ClosedIsIdle, TimerFollowsRunning, StallIsNoticed, runVars

\* The host's steps leave the board's flags alone.
LEMMA HostKeepsRun ==
    ASSUME RunInv, \/ Application \/ handleSequencerEvent
                   \/ \E s \in Sessions : pushWakes(s) \/ closeReturns(s)
    PROVE  RunInv'
  <1>1. UNCHANGED <<boardVars, mainLoop>>
    BY DEF Application, openSequencer, push, manualStart, manualStop, start, pause, stop, Command, close,
         handleSequencerEvent, pushWakes, closeReturns
  <1>2. QED
    BY <1>1, RunStays DEF boardVars

\* The handlers of the board's commands keep the flags in step.
LEMMA MainLoopKeepsRun ==
    ASSUME RunInv, MainLoop
    PROVE  RunInv'
  <1> USE DEF RunInv, ClosedIsIdle, TimerFollowsRunning, StallIsNoticed, runVars, boardVars, Handle
  <1>1. CASE mainLoop = "incoming" /\ mainLoop' = "error" /\ UNCHANGED boardVars
    BY <1>1
  <1>2. CASE SequencerOpen
    BY <1>1, <1>2 DEF SequencerOpen, Refuse, Accept
  <1>3. CASE SequencerPush
    BY <1>1, <1>3 DEF SequencerPush, SequenceFull, Refuse
  <1>4. CASE SequencerPushRestart
    BY <1>4 DEF SequencerPushRestart, StartEffect
  <1>5. CASE SequencerStart
    BY <1>1, <1>5 DEF SequencerStart, Refuse, Accept, StartEffect
  <1>6. CASE SequencerPause
    BY <1>1, <1>6 DEF SequencerPause, Refuse, Accept
  <1>7. CASE SequencerStop
    BY <1>1, <1>7 DEF SequencerStop, Refuse, Accept, StopEffect, SequenceClear
  <1>8. ASSUME NEW n \in 0..MaxOcs, SequencerClose(n) PROVE RunInv'
    BY <1>1, <1>8 DEF SequencerClose, Refuse, Accept, StopEffect, SequenceClear
  <1>9. ASSUME NEW c \in {"manual_start", "manual_stop"}, SequencerManual(c) PROVE RunInv'
    BY <1>1, <1>9 DEF SequencerManual, Refuse, Accept
  <1>10. QED
    BY <1>2, <1>3, <1>4, <1>5, <1>6, <1>7, <1>8, <1>9 DEF MainLoop

\* So do the interrupts, SequencerTasks and the loss of the connection.
LEMMA InterruptsKeepRun ==
    ASSUME RunInv, \/ SequencerTasks \/ T2Interrupt \/ OCInterrupt
                   \/ \E k \in 0 .. MaxOcs * MaxSessions : ConnectionLost(k)
    PROVE  RunInv'
  <1>1. CASE SequencerTasks
    BY <1>1, RunStays DEF SequencerTasks
  <1>2. CASE OCInterrupt
    BY <1>2, RunStays DEF OCInterrupt
  <1>3. CASE T2Interrupt
    BY <1>3 DEF T2Interrupt, RunInv, ClosedIsIdle, TimerFollowsRunning, StallIsNoticed
  <1>4. CASE \E k \in 0 .. MaxOcs * MaxSessions : ConnectionLost(k)
    BY <1>4 DEF ConnectionLost, SequenceClear, RunInv, ClosedIsIdle, TimerFollowsRunning, StallIsNoticed
  <1>5. QED
    BY <1>1, <1>2, <1>3, <1>4

\* RunInv is an invariant of the sequencer.
LEMMA SpecRun == Spec => []RunInv
  <1>1. Init => RunInv
    BY DEF Init, RunInv, ClosedIsIdle, TimerFollowsRunning, StallIsNoticed
  <1>2. RunInv /\ UNCHANGED vars => RunInv'
    BY RunStays DEF vars, boardVars
  <1>3. RunInv /\ [Next]_vars => RunInv'
    BY <1>2, HostKeepsRun, MainLoopKeepsRun, InterruptsKeepRun DEF Next
  <1>4. QED
    BY <1>1, <1>3, PTL DEF Spec

\* The assertion in SequencerStart holds: the timer interrupt is enabled exactly while
\* sequencer_running is set, and a sequencer at rest has its shortest period.
THEOREM TimerIsInStep == Spec => []TimerFollowsRunning
  <1>1. RunInv => TimerFollowsRunning
    BY DEF RunInv
  <1>2. QED
    BY <1>1, SpecRun, PTL

\* __T2Interrupt may find the queue empty between SequencePush and the test that
\* follows it in SequencerPush: the sequencer is restarted all the same.
THEOREM NoStallIsMissed == Spec => []StallIsNoticed
  <1>1. RunInv => StallIsNoticed
    BY DEF RunInv
  <1>2. QED
    BY <1>1, SpecRun, PTL

-----------------------------------------------------------------------------
(* What the events in flight make of availableSlots_.                      *)

EventKinds == {"opened", "next_cue", "stopped", "stalled", "paused", "closed"}
SlotEvents == EventKinds \X Nat

\* f follows the events of q from slots on.
FollowsEvents(f, slots, q) ==
    /\ f \in [0..Len(q) -> Nat] /\ f[0] = slots
    /\ \A i \in 1..Len(q) : f[i] = Slots(f[i - 1], q[i][1], q[i][2])

\* handleSequencerEvent makes a number of a number.
LEMMA SlotsNat == ASSUME NEW a \in Nat, NEW e \in SlotEvents PROVE Slots(a, e[1], e[2]) \in Nat
  BY DEF Slots, SlotEvents, EventKinds

\* Events can be followed to their end (by the least prefix for which they cannot).
LEMMA FollowsSomething == ASSUME NEW a \in Nat, NEW q \in Seq(SlotEvents) PROVE \E f : FollowsEvents(f, a, q)
  <1> DEFINE Part(f, n) == /\ f \in [0..n -> Nat] /\ f[0] = a
                           /\ \A i \in 1..n : f[i] = Slots(f[i - 1], q[i][1], q[i][2])
             T == {n \in Nat : n <= Len(q) /\ ~ \E f : Part(f, n)}
  <1>1. SUFFICES ASSUME T # {} PROVE FALSE
    <2>1. Len(q) \in Nat /\ Len(q) \notin T
      BY <1>1
    <2>2. PICK f : Part(f, Len(q))
      BY <2>1
    <2>3. QED
      BY <2>2 DEF FollowsEvents
  <1>2. PICK n \in T : \A m \in T : ~ (<<m, n>> \in OpToRel(<, Nat))
    BY <1>1, WFMin, NatLessThanWellFounded
  <1>3. n \in Nat /\ n <= Len(q) /\ ~ \E f : Part(f, n)
    OBVIOUS
  <1>4. \A m \in T : ~(m < n)
    BY <1>2 DEF OpToRel
  <1> HIDE DEF T
  <1>5. n # 0
    <2>1. Part([i \in 0..0 |-> a], 0)
      OBVIOUS
    <2>2. QED
      BY <1>3, <2>1
  <1>6. n - 1 \in Nat /\ n - 1 <= Len(q) /\ n - 1 \notin T
    BY <1>3, <1>4, <1>5
  <1>7. PICK f : Part(f, n - 1)
    BY <1>6 DEF T
  <1> DEFINE e == q[n]
             g == [i \in 0..n |-> IF i = n THEN Slots(f[n - 1], e[1], e[2]) ELSE f[i]]
  <1>8. e \in SlotEvents /\ f[n - 1] \in Nat
    BY <1>3, <1>5, <1>7
  <1>9. Slots(f[n - 1], e[1], e[2]) \in Nat
    BY <1>8, SlotsNat
  <1>10. Part(g, n)
    <2>1. g \in [0..n -> Nat] /\ g[0] = a
      BY <1>3, <1>5, <1>7, <1>9
    <2>2. ASSUME NEW i \in 1..n PROVE g[i] = Slots(g[i - 1], q[i][1], q[i][2])
      <3>1. CASE i = n
        BY <1>3, <1>5, <3>1
      <3>2. CASE i # n
        <4>1. i \in 1..(n - 1) /\ i - 1 \in 0..n /\ i - 1 # n /\ i \in 0..n
          BY <1>3, <3>2
        <4>2. f[i] = Slots(f[i - 1], q[i][1], q[i][2])
          BY <1>7, <4>1
        <4>3. QED
          BY <3>2, <4>1, <4>2
      <3>3. QED
        BY <3>1, <3>2
    <2>3. QED
      BY <2>1, <2>2
  <1>11. QED
    BY <1>3, <1>10

\* Whatever follows the events ends at what Promised computes.
LEMMA PromisedIs ==
    ASSUME NEW a \in Nat, NEW q \in Seq(SlotEvents), NEW f, FollowsEvents(f, a, q)
    PROVE  Promised(a, q) = f[Len(q)]
  <1> DEFINE Def(g) == g = [i \in 0..Len(q) |-> IF i = 0 THEN a ELSE Slots(g[i - 1], q[i][1], q[i][2])]
  <1>1. Def(f)
    <2> DEFINE h == [i \in 0..Len(q) |-> IF i = 0 THEN a ELSE Slots(f[i - 1], q[i][1], q[i][2])]
    <2>1. ASSUME NEW i \in 0..Len(q) PROVE f[i] = h[i]
      BY DEF FollowsEvents
    <2>2. f = h
      BY <2>1 DEF FollowsEvents
    <2>3. QED
      BY <2>2
  <1>2. ASSUME NEW g, Def(g) PROVE g = f
    <2>1. /\ g = [i \in 0..Len(q) |-> g[i]] /\ g[0] = a
          /\ \A i \in 1..Len(q) : g[i] = Slots(g[i - 1], q[i][1], q[i][2])
      BY <1>2
    <2> HIDE DEF Def
    <2> DEFINE T == {n \in Nat : n <= Len(q) /\ f[n] # g[n]}
    <2>2. SUFFICES ASSUME T # {} PROVE FALSE
      BY <2>1, <2>2 DEF FollowsEvents
    <2>3. PICK n \in T : \A m \in T : ~ (<<m, n>> \in OpToRel(<, Nat))
      BY <2>2, WFMin, NatLessThanWellFounded
    <2>4. n \in Nat /\ n <= Len(q) /\ f[n] # g[n] /\ \A m \in T : ~(m < n)
      BY <2>3 DEF OpToRel
    <2>5. n # 0
      BY <2>1, <2>4 DEF FollowsEvents
    <2>6. n - 1 \in Nat /\ n - 1 <= Len(q) /\ n - 1 \notin T /\ n \in 1..Len(q)
      BY <2>4, <2>5
    <2>7. f[n - 1] = g[n - 1]
      BY <2>6
    <2>8. f[n] = g[n]
      BY <2>1, <2>6, <2>7 DEF FollowsEvents
    <2>9. QED
      BY <2>4, <2>8
  <1>3. Promised(a, q) = (CHOOSE g : Def(g))[Len(q)]
    BY DEF Promised
  <1> HIDE DEF Def
  <1>4. (CHOOSE g : Def(g)) = f
    BY <1>1, <1>2
  <1>5. QED
    BY <1>3, <1>4

\* So what is promised may be reasoned about step by step.
LEMMA PromisedFollowed ==
    ASSUME NEW a \in Nat, NEW q \in Seq(SlotEvents)
    PROVE  \E f : FollowsEvents(f, a, q) /\ Promised(a, q) = f[Len(q)] /\ f[Len(q)] \in Nat
  <1>1. PICK f : FollowsEvents(f, a, q)
    BY FollowsSomething
  <1>2. Promised(a, q) = f[Len(q)]
    BY <1>1, PromisedIs
  <1>3. f[Len(q)] \in Nat
    BY <1>1 DEF FollowsEvents
  <1>4. QED
    BY <1>1, <1>2, <1>3

\* One more event at the end: handleSequencerEvent applied to what was promised.
LEMMA PromisedAppend ==
    ASSUME NEW a \in Nat, NEW q \in Seq(SlotEvents), NEW e \in SlotEvents
    PROVE  Promised(a, q) \in Nat /\ Promised(a, Append(q, e)) = Slots(Promised(a, q), e[1], e[2])
  <1> DEFINE r == Append(q, e)
  <1>1. PICK f : FollowsEvents(f, a, q) /\ Promised(a, q) = f[Len(q)] /\ f[Len(q)] \in Nat
    BY PromisedFollowed
  <1>2. r \in Seq(SlotEvents) /\ Len(r) = Len(q) + 1 /\ r[Len(q) + 1] = e /\ \A i \in 1..Len(q) : r[i] = q[i]
    OBVIOUS
  <1> HIDE DEF r
  <1> DEFINE v == Slots(f[Len(q)], e[1], e[2])  g == [i \in 0..Len(r) |-> IF i = Len(r) THEN v ELSE f[i]]
  <1>3. v \in Nat
    BY <1>1, SlotsNat
  <1>4. FollowsEvents(g, a, r)
    <2>1. Len(q) \in Nat
      OBVIOUS
    <2>2. g \in [0..Len(r) -> Nat] /\ g[0] = a
      BY <1>1, <1>2, <1>3, <2>1 DEF FollowsEvents
    <2>3. ASSUME NEW i \in 1..Len(r) PROVE g[i] = Slots(g[i - 1], r[i][1], r[i][2])
      <3>1. CASE i = Len(r)
        BY <1>2, <2>1, <3>1
      <3>2. CASE i # Len(r)
        <4>1. i \in 1..Len(q) /\ i - 1 \in 0..Len(r) /\ i - 1 # Len(r) /\ i \in 0..Len(r)
          BY <1>2, <2>1, <3>2
        <4>2. f[i] = Slots(f[i - 1], q[i][1], q[i][2])
          BY <1>1, <4>1 DEF FollowsEvents
        <4>3. QED
          BY <1>2, <3>2, <4>1, <4>2
      <3>3. QED
        BY <3>1, <3>2
    <2>4. QED
      BY <2>2, <2>3 DEF FollowsEvents
  <1>5. Promised(a, r) = g[Len(r)]
    BY <1>2, <1>4, PromisedIs
  <1>6. g[Len(r)] = v
    BY <1>2
  <1>7. QED
    BY <1>1, <1>5, <1>6 DEF r

\* The first event handled: the same promise from what it leaves.
LEMMA PromisedHead ==
    ASSUME NEW a \in Nat, NEW q \in Seq(SlotEvents), q # <<>>
    PROVE  Promised(a, q) = Promised(Slots(a, Head(q)[1], Head(q)[2]), Tail(q))
  <1> DEFINE r == Tail(q)  c == Slots(a, Head(q)[1], Head(q)[2])
  <1>1. PICK f : FollowsEvents(f, a, q) /\ Promised(a, q) = f[Len(q)] /\ f[Len(q)] \in Nat
    BY PromisedFollowed
  <1>2. r \in Seq(SlotEvents) /\ Len(q) = Len(r) + 1 /\ (\A i \in 1..Len(r) : r[i] = q[i + 1]) /\ Head(q) = q[1] /\ Len(r) \in Nat
    OBVIOUS
  <1>3. c \in Nat
    <2>1. Head(q) \in SlotEvents
      OBVIOUS
    <2>2. QED
      BY <2>1, SlotsNat
  <1> HIDE DEF r
  <1> DEFINE g == [i \in 0..Len(r) |-> f[i + 1]]
  <1>4. FollowsEvents(g, c, r)
    <2>1. g \in [0..Len(r) -> Nat] /\ g[0] = c
      BY <1>1, <1>2 DEF FollowsEvents
    <2>2. ASSUME NEW i \in 1..Len(r) PROVE g[i] = Slots(g[i - 1], r[i][1], r[i][2])
      <3>1. i + 1 \in 1..Len(q) /\ (i + 1) - 1 = i /\ (i - 1) + 1 = i /\ i - 1 \in 0..Len(r) /\ i \in 0..Len(r)
        BY <1>2
      <3>2. f[i + 1] = Slots(f[i], q[i + 1][1], q[i + 1][2])
        BY <1>1, <3>1 DEF FollowsEvents
      <3>3. QED
        BY <1>2, <3>1, <3>2
    <2>3. QED
      BY <2>1, <2>2 DEF FollowsEvents
  <1> HIDE DEF c
  <1>5. Promised(c, r) = g[Len(r)]
    BY <1>2, <1>3, <1>4, PromisedIs
  <1>6. g[Len(r)] = f[Len(q)]
    BY <1>2
  <1>7. QED
    BY <1>1, <1>5, <1>6 DEF r, c

\* A slot that is taken is missing at the end too, unless it is given anew.
LEMMA PromisedLess ==
    ASSUME NEW a \in Nat, NEW q \in Seq(SlotEvents), \A i \in DOMAIN q : q[i][1] # "opened"
    PROVE  Promised(a + 1, q) = Promised(a, q) + 1
  <1>1. PICK f : FollowsEvents(f, a, q) /\ Promised(a, q) = f[Len(q)] /\ f[Len(q)] \in Nat
    BY PromisedFollowed
  <1> DEFINE g == [i \in 0..Len(q) |-> f[i] + 1]
  <1>2. FollowsEvents(g, a + 1, q)
    <2>1. g \in [0..Len(q) -> Nat] /\ g[0] = a + 1
      BY <1>1 DEF FollowsEvents
    <2>2. ASSUME NEW i \in 1..Len(q) PROVE g[i] = Slots(g[i - 1], q[i][1], q[i][2])
      <3>1. i \in DOMAIN q /\ i - 1 \in 0..Len(q) /\ i \in 0..Len(q)
        OBVIOUS
      <3>2. f[i] = Slots(f[i - 1], q[i][1], q[i][2]) /\ f[i - 1] \in Nat /\ q[i][1] # "opened" /\ q[i] \in SlotEvents
        BY <1>1, <3>1 DEF FollowsEvents
      <3>3. Slots(f[i - 1] + 1, q[i][1], q[i][2]) = Slots(f[i - 1], q[i][1], q[i][2]) + 1
        <4> DEFINE x == f[i - 1]  k == q[i][1]  n == q[i][2]
        <4>1. x \in Nat /\ k \in EventKinds /\ k # "opened" /\ n \in Nat
          BY <3>2 DEF SlotEvents
        <4> HIDE DEF x, k, n
        <4>2. Slots(x + 1, k, n) = Slots(x, k, n) + 1
          BY <4>1 DEF Slots, EventKinds
        <4>3. QED
          BY <4>2 DEF x, k, n
      <3>4. QED
        BY <3>1, <3>2, <3>3
    <2>3. QED
      BY <2>1, <2>2 DEF FollowsEvents
  <1>3. Promised(a + 1, q) = g[Len(q)]
    BY <1>2, PromisedIs
  <1>4. QED
    BY <1>1, <1>3

\* More slots now never make fewer slots later.
LEMMA PromisedMono ==
    ASSUME NEW a \in Nat, NEW b \in Nat, a <= b, NEW q \in Seq(SlotEvents)
    PROVE  Promised(a, q) <= Promised(b, q)
  <1>1. PICK f : FollowsEvents(f, a, q) /\ Promised(a, q) = f[Len(q)] /\ f[Len(q)] \in Nat
    BY PromisedFollowed
  <1>2. PICK g : FollowsEvents(g, b, q) /\ Promised(b, q) = g[Len(q)] /\ g[Len(q)] \in Nat
    BY PromisedFollowed
  <1> DEFINE T == {n \in Nat : n <= Len(q) /\ ~(f[n] <= g[n])}
  <1>3. SUFFICES ASSUME T # {} PROVE FALSE
    BY <1>1, <1>2, <1>3
  <1>4. PICK n \in T : \A m \in T : ~ (<<m, n>> \in OpToRel(<, Nat))
    BY <1>3, WFMin, NatLessThanWellFounded
  <1>5. n \in Nat /\ n <= Len(q) /\ ~(f[n] <= g[n]) /\ \A m \in T : ~(m < n)
    BY <1>4 DEF OpToRel
  <1>6. n # 0
    BY <1>1, <1>2, <1>5 DEF FollowsEvents
  <1>7. n - 1 \in Nat /\ n - 1 <= Len(q) /\ n - 1 \notin T /\ n \in 1..Len(q) /\ n - 1 \in 0..Len(q) /\ n \in 0..Len(q)
    BY <1>5, <1>6
  <1>8. f[n - 1] <= g[n - 1]
    BY <1>7
  <1> DEFINE x == f[n - 1]  y == g[n - 1]  k == q[n][1]  m == q[n][2]
  <1>9. f[n] = Slots(x, k, m) /\ g[n] = Slots(y, k, m)
    BY <1>1, <1>2, <1>7 DEF FollowsEvents
  <1>10. x \in Nat /\ y \in Nat /\ k \in EventKinds /\ m \in Nat
    <2>1. q[n] \in SlotEvents
      BY <1>7
    <2>2. QED
      BY <1>1, <1>2, <1>7, <2>1 DEF FollowsEvents, SlotEvents
  <1> HIDE DEF x, y, k, m
  <1>11. Slots(x, k, m) <= Slots(y, k, m)
    BY <1>8, <1>10 DEF Slots, EventKinds, x, y
  <1>12. QED
    BY <1>5, <1>9, <1>11

-----------------------------------------------------------------------------
(* How many elements of a sequence are in S.                               *)

Count(q, S) == Cardinality({i \in DOMAIN q : q[i] \in S})

\* A count is a number, zero when nothing is counted.
LEMMA CountNat ==
    ASSUME NEW T, NEW q \in Seq(T), NEW S
    PROVE  /\ IsFiniteSet({i \in DOMAIN q : q[i] \in S}) /\ Count(q, S) \in Nat
           /\ Count(q, S) = 0 <=> \A i \in DOMAIN q : q[i] \notin S
  <1>1. IsFiniteSet(1..Len(q)) /\ DOMAIN q = 1..Len(q)
    BY FS_Interval
  <1>2. IsFiniteSet({i \in DOMAIN q : q[i] \in S})
    BY <1>1, FS_Subset
  <1>3. QED
    BY <1>2, FS_CardinalityType, FS_EmptySet DEF Count

\* An element more at the end.
LEMMA CountAppend ==
    ASSUME NEW T, NEW q \in Seq(T), NEW e \in T, NEW S
    PROVE  Count(Append(q, e), S) = Count(q, S) + IF e \in S THEN 1 ELSE 0
  <1> DEFINE r == Append(q, e)  A == {i \in DOMAIN q : q[i] \in S}  B == {i \in DOMAIN r : r[i] \in S}
  <1>1. IsFiniteSet(A) /\ Count(q, S) = Cardinality(A) /\ Cardinality(A) \in Nat /\ Count(r, S) = Cardinality(B)
    BY CountNat DEF Count
  <1>2. DOMAIN q = 1..Len(q) /\ DOMAIN r = 1..(Len(q) + 1) /\ r[Len(q) + 1] = e /\ (\A i \in 1..Len(q) : r[i] = q[i]) /\ Len(q) \in Nat
    OBVIOUS
  <1> HIDE DEF r
  <1>3. CASE e \in S
    <2>1. B = A \cup {Len(q) + 1} /\ Len(q) + 1 \notin A
      BY <1>2, <1>3
    <2> HIDE DEF A, B
    <2>2. Cardinality(B) = Cardinality(A) + 1
      BY <1>1, <2>1, FS_AddElement
    <2>3. QED
      BY <1>1, <1>3, <2>2 DEF r
  <1>4. CASE e \notin S
    <2>1. B = A
      BY <1>2, <1>4
    <2> HIDE DEF A, B
    <2>2. QED
      BY <1>1, <1>4, <2>1 DEF r
  <1>5. QED
    BY <1>3, <1>4

\* An element less at the front.
LEMMA CountTail ==
    ASSUME NEW T, NEW q \in Seq(T), NEW S, q # <<>>
    PROVE  Count(q, S) = Count(Tail(q), S) + IF Head(q) \in S THEN 1 ELSE 0
  <1> DEFINE r == Tail(q)  A == {i \in DOMAIN q : q[i] \in S}  B == {i \in DOMAIN r : r[i] \in S}  C == A \ {1}
             f == [i \in B |-> i + 1]
  <1>1. r \in Seq(T) /\ DOMAIN q = 1..Len(q) /\ DOMAIN r = 1..Len(r) /\ Len(q) = Len(r) + 1 /\ (\A i \in 1..Len(r) : r[i] = q[i + 1]) /\ Head(q) = q[1] /\ Len(r) \in Nat
    OBVIOUS
  <1>2. IsFiniteSet(A) /\ Count(q, S) = Cardinality(A) /\ Cardinality(A) \in Nat
    BY CountNat DEF Count
  <1> HIDE DEF r
  <1>3. IsFiniteSet(B) /\ Count(r, S) = Cardinality(B) /\ Cardinality(B) \in Nat
    BY <1>1, CountNat DEF Count
  <1>4. f \in Bijection(B, C)
    <2>1. ASSUME NEW i \in B PROVE i + 1 \in C /\ i \in Nat
      BY <1>1
    <2>2. f \in [B -> C]
      BY <2>1
    <2>3. \A i, j \in B : f[i] = f[j] => i = j
      BY <2>1
    <2>4. ASSUME NEW k \in C PROVE \E i \in B : f[i] = k
      <3>1. k \in 2..Len(q) /\ q[k] \in S
        BY <1>1
      <3>2. k - 1 \in 1..Len(r) /\ r[k - 1] = q[(k - 1) + 1] /\ (k - 1) + 1 = k
        BY <1>1, <3>1
      <3>3. k - 1 \in B
        BY <1>1, <3>1, <3>2
      <3>4. QED
        BY <3>2, <3>3
    <2>5. QED
      BY <2>2, <2>3, <2>4 DEF Bijection, Injection, Surjection, IsInjective
  <1>5. 1 \in A <=> Head(q) \in S
    BY <1>1
  <1> HIDE DEF A, B, f
  <1>6. IsFiniteSet(C) /\ Cardinality(C) = IF 1 \in A THEN Cardinality(A) - 1 ELSE Cardinality(A)
    BY <1>2, FS_RemoveElement
  <1> HIDE DEF C
  <1>7. ExistsBijection(B, C)
    BY <1>4 DEF ExistsBijection
  <1>8. Cardinality(B) = Cardinality(C)
    BY <1>3, <1>6, <1>7, FS_Bijection
  <1>9. QED
    BY <1>2, <1>3, <1>5, <1>6, <1>8 DEF r

-----------------------------------------------------------------------------
(* The account of the slots.  b is the newest session whose "open" the     *)
(* board has taken from the connection.                                    *)

Cmds == {"open", "push", "manual_start", "manual_stop", "start", "pause", "stop", "close"} \X Sessions
InFlight == toHost \o event_queue
\* The sessions that the board has opened and whose host has not heard of it.
Unheard == Count(InFlight, {"opened"} \X Nat)

SlotTypeOK ==
    /\ cur \in 0..MaxSessions /\ sequencer_open \in 0..MaxSessions
    /\ availableSlots_ \in [Sessions -> Nat] /\ queued \in Nat /\ currentOpen_ \in BOOLEAN
    /\ toBoard \in Seq(Cmds) /\ toHost \in Seq(SlotEvents) /\ event_queue \in Seq(SlotEvents)
    /\ mainLoop # "error" => fault = "none"
    /\ sequencer_open = 0 => queued = 0

\* The listeners are the newest sessions, in order.
Listening ==
    /\ listeners_ \in Seq(Sessions) /\ Len(listeners_) <= cur
    /\ \A i \in DOMAIN listeners_ : listeners_[i] = cur - Len(listeners_) + i

\* The sessions after b are on their way to the board, in order.
OpensInOrder(b) ==
    /\ \A i \in DOMAIN toBoard : toBoard[i][1] = "open" => toBoard[i][2] \in b + 1 .. cur
    /\ \A i, j \in DOMAIN toBoard :
           i < j /\ toBoard[i][1] = "open" /\ toBoard[j][1] = "open" => toBoard[i][2] < toBoard[j][2]
    /\ fault = "none" => \A t \in b + 1 .. cur : \E i \in DOMAIN toBoard : toBoard[i] = <<"open", t>>

\* The listeners may lag behind the events, and are never ahead of them; so a session has
\* no slots and sends no cue before the event that opens it.
SlotsFollow(b) ==
    /\ Unheard + (cur - b) + (IF currentOpen_ THEN 1 ELSE 0) <= Len(listeners_)
    /\ \A t \in Sessions : t > b - Unheard =>
           availableSlots_[t] = 0 /\ \A i \in DOMAIN toBoard : toBoard[i] # <<"push", t>>
    /\ sequencer_open \in {0, b}

Bounded ==
    sequencer_open # 0 =>
        Promised(availableSlots_[sequencer_open], InFlight) + Pushes(sequencer_open) + queued <= SeqLen

SlotFacts == SlotTypeOK /\ Listening /\ (\E b \in 0..cur : OpensInOrder(b) /\ SlotsFollow(b)) /\ Bounded
SlotInv == disturbed = {} => SlotFacts

\* What the assumptions say of the constants.
LEMMA SlotConst == /\ SeqLen \in Nat \ {0} /\ EvLen \in Nat \ {0} /\ SizeMod \in Nat \ {0} /\ MaxSessions \in Nat
                   /\ Sessions = 1..MaxSessions
  BY SeqAssumption DEF Sessions

\* PushEvent with room in the queue.
LEMMA PushedWithRoom ==
    ASSUME NEW T, NEW q \in Seq(T), NEW e \in T, Len(q) < EvLen PROVE PushedEvent(q, e) = Append(q, e)
  <1> DEFINE p == PushedEvent(q, e)
  <1>1. p = [i \in 1..Len(q) + 1 |-> IF (Len(q) + 1 - i) % EvLen = 0 THEN e ELSE q[i]]
    BY DEF PushedEvent
  <1>2. ASSUME NEW i \in 1..Len(q) + 1 PROVE p[i] = Append(q, e)[i]
    <2> DEFINE x == Len(q) + 1 - i
    <2>1. x \in 0..EvLen - 1 /\ (x = 0 <=> i = Len(q) + 1)
      BY SlotConst
    <2>2. x % EvLen = x
      BY <2>1, SlotConst
    <2>3. QED
      BY <1>1, <2>1, <2>2
  <1> DEFINE r == Append(q, e)
  <1>3. r \in Seq(T) /\ Len(r) = Len(q) + 1
    BY AppendProperties
  <1> HIDE DEF r, p
  <1>4. r = [i \in 1..Len(r) |-> r[i]]
    BY <1>3
  <1>5. QED
    BY <1>1, <1>2, <1>3, <1>4 DEF r, p

\* An event pushed to event_queue is the last one in flight.
LEMMA FlightAppend ==
    ASSUME SlotTypeOK, NEW e \in SlotEvents PROVE toHost \o Append(event_queue, e) = Append(InFlight, e)
  BY DEF SlotTypeOK, InFlight

\* SequencerTasks moves an event on and leaves those in flight as they are.
LEMMA FlightMoves ==
    ASSUME SlotTypeOK, event_queue # <<>> PROVE Append(toHost, Head(event_queue)) \o Tail(event_queue) = InFlight
  <1> DEFINE h == Head(event_queue)  r == Tail(event_queue)
  <1>1. toHost \in Seq(SlotEvents) /\ r \in Seq(SlotEvents) /\ h \in SlotEvents /\ <<h>> \in Seq(SlotEvents) /\ event_queue = <<h>> \o r
    BY DEF SlotTypeOK
  <1>2. Append(toHost, h) = toHost \o <<h>>
    BY <1>1, AppendIsConcat
  <1> HIDE DEF h, r
  <1>3. (toHost \o <<h>>) \o r = toHost \o (<<h>> \o r)
    BY <1>1, ConcatAssociative
  <1>4. QED
    BY <1>1, <1>2, <1>3 DEF InFlight, h, r

\* The host takes the first event in flight.
LEMMA FlightLands ==
    ASSUME SlotTypeOK, toHost # <<>>
    PROVE  InFlight # <<>> /\ Head(InFlight) = Head(toHost) /\ Tail(InFlight) = Tail(toHost) \o event_queue
  BY DEF SlotTypeOK, InFlight

\* The events in flight are events, and those that open a session are counted.
LEMMA FlightType ==
    ASSUME SlotTypeOK
    PROVE  InFlight \in Seq(SlotEvents) /\ Unheard \in Nat /\ (Unheard = 0 <=> \A i \in DOMAIN InFlight : InFlight[i][1] # "opened")
  <1>1. InFlight \in Seq(SlotEvents)
    BY DEF SlotTypeOK, InFlight
  <1>2. \A i \in DOMAIN InFlight : InFlight[i] \in {"opened"} \X Nat <=> InFlight[i][1] = "opened"
    <2>1. \A i \in DOMAIN InFlight : InFlight[i] \in SlotEvents
      BY <1>1
    <2>2. QED
      BY <2>1 DEF SlotEvents
  <1>3. QED
    BY <1>1, <1>2, CountNat DEF Unheard

\* Pushes counts the cues of a session on their way.
LEMMA PushesAre == ASSUME SlotTypeOK, NEW s PROVE Pushes(s) = Count(toBoard, {<<"push", s>>}) /\ Pushes(s) \in Nat
  <1>1. Pushes(s) = Count(toBoard, {<<"push", s>>})
    BY DEF Pushes, Count
  <1>2. toBoard \in Seq(Cmds)
    BY DEF SlotTypeOK
  <1>3. Count(toBoard, {<<"push", s>>}) \in Nat
    BY <1>2, CountNat
  <1>4. QED
    BY <1>1, <1>3

\* The board's half of Bounded: an event that keeps or lowers the sum.
LEMMA PromisedPushed ==
    ASSUME SlotTypeOK, NEW a \in Nat, NEW e \in SlotEvents
    PROVE  /\ Promised(a, InFlight) \in Nat
           /\ Promised(a, Append(InFlight, e)) = Slots(Promised(a, InFlight), e[1], e[2])
           /\ Count(Append(InFlight, e), {"opened"} \X Nat) = Unheard + IF e[1] = "opened" THEN 1 ELSE 0
  <1>1. InFlight \in Seq(SlotEvents) /\ (e \in {"opened"} \X Nat <=> e[1] = "opened")
    BY FlightType DEF SlotEvents
  <1>2. Promised(a, InFlight) \in Nat /\ Promised(a, Append(InFlight, e)) = Slots(Promised(a, InFlight), e[1], e[2])
    BY <1>1, PromisedAppend
  <1>3. Count(Append(InFlight, e), {"opened"} \X Nat) = Unheard + IF e \in {"opened"} \X Nat THEN 1 ELSE 0
    BY <1>1, CountAppend DEF Unheard
  <1>4. QED
    BY <1>1, <1>2, <1>3

-----------------------------------------------------------------------------
(* The host sends.                                                         *)

\* A command that is neither an open nor a push.
LEMMA SendKeeps ==
    ASSUME SlotFacts, NEW c \in Cmds, c[1] \notin {"open", "push"}, toBoard' = toBoard \/ toBoard' = Append(toBoard, c),
           UNCHANGED <<cur, availableSlots_, listeners_, currentOpen_, toHost, event_queue, sequencer_open, queued, mainLoop, fault>>
    PROVE  SlotFacts'
  <1>1. SlotTypeOK /\ Listening /\ Bounded
    BY DEF SlotFacts
  <1>2. PICK b \in 0..cur : OpensInOrder(b) /\ SlotsFollow(b)
    BY DEF SlotFacts
  <1>3. toBoard \in Seq(Cmds) /\ toBoard' \in Seq(Cmds) /\ SlotTypeOK'
    <2>1. toBoard \in Seq(Cmds)
      BY <1>1 DEF SlotTypeOK
    <2>2. toBoard' \in Seq(Cmds)
      BY <2>1
    <2>3. QED
      BY <1>1, <2>1, <2>2 DEF SlotTypeOK
  <1>4. Listening' /\ InFlight' = InFlight /\ Unheard' = Unheard
    BY <1>1 DEF Listening, InFlight, Unheard
  <1>5. /\ \A i \in DOMAIN toBoard' : (i \in DOMAIN toBoard /\ toBoard'[i] = toBoard[i]) \/ (toBoard'[i] = c)
        /\ \A i \in DOMAIN toBoard : i \in DOMAIN toBoard' /\ toBoard'[i] = toBoard[i]
    BY <1>3
  <1>6. OpensInOrder(b)'
    BY <1>2, <1>5 DEF OpensInOrder
  <1>7. SlotsFollow(b)'
    <2>1. \A t \in Sessions : c # <<"push", t>>
      OBVIOUS
    <2>2. QED
      BY <1>2, <1>4, <1>5, <2>1 DEF SlotsFollow
  <1>8. \A s : Pushes(s)' = Pushes(s)
    <2>1. SUFFICES ASSUME NEW s PROVE Pushes(s)' = Pushes(s)
      OBVIOUS
    <2>2. Pushes(s) = Count(toBoard, {<<"push", s>>}) /\ Pushes(s)' = Count(toBoard', {<<"push", s>>}) /\ Pushes(s) \in Nat
      BY <1>1, PushesAre DEF Pushes, Count
    <2>3. Count(Append(toBoard, c), {<<"push", s>>}) = Count(toBoard, {<<"push", s>>})
      <3>1. c \notin {<<"push", s>>}
        OBVIOUS
      <3>2. Count(Append(toBoard, c), {<<"push", s>>}) = Count(toBoard, {<<"push", s>>}) + IF c \in {<<"push", s>>} THEN 1 ELSE 0
        BY <1>3, CountAppend
      <3>3. QED
        BY <2>2, <3>1, <3>2
    <2>4. QED
      BY <2>2, <2>3
  <1>9. Bounded'
    BY <1>1, <1>4, <1>8 DEF Bounded
  <1>10. QED
    BY <1>2, <1>3, <1>4, <1>6, <1>7, <1>9 DEF SlotFacts

\* A push takes one of the slots the session was told of.
LEMMA PushKeeps ==
    ASSUME SlotFacts, NEW t \in Sessions, availableSlots_[t] # 0, toBoard' = Append(toBoard, <<"push", t>>),
           availableSlots_' = [availableSlots_ EXCEPT ![t] = @ - 1],
           UNCHANGED <<cur, listeners_, currentOpen_, toHost, event_queue, sequencer_open, queued, mainLoop, fault>>
    PROVE  SlotFacts'
  <1> DEFINE c == <<"push", t>>
  <1>1. SlotTypeOK /\ Listening /\ Bounded
    BY DEF SlotFacts
  <1>2. PICK b \in 0..cur : OpensInOrder(b) /\ SlotsFollow(b)
    BY DEF SlotFacts
  <1>3. toBoard \in Seq(Cmds) /\ toBoard' \in Seq(Cmds) /\ c \in Cmds
    BY <1>1 DEF SlotTypeOK, Cmds
  <1>4. availableSlots_' \in [Sessions -> Nat] /\ availableSlots_[t] \in Nat /\ availableSlots_'[t] = availableSlots_[t] - 1 /\ \A s \in Sessions : s # t => availableSlots_'[s] = availableSlots_[s]
    BY <1>1 DEF SlotTypeOK
  <1>5. SlotTypeOK' /\ Listening' /\ InFlight' = InFlight /\ Unheard' = Unheard
    BY <1>1, <1>3, <1>4 DEF Listening, InFlight, Unheard, SlotTypeOK
  <1>6. /\ \A i \in DOMAIN toBoard' : (i \in DOMAIN toBoard /\ toBoard'[i] = toBoard[i]) \/ (toBoard'[i] = c)
        /\ \A i \in DOMAIN toBoard : i \in DOMAIN toBoard' /\ toBoard'[i] = toBoard[i]
    BY <1>3
  <1>7. OpensInOrder(b)'
    BY SMTT(30), <1>2, <1>6 DEF OpensInOrder
  <1>8. ~(t > b - Unheard)
    BY <1>2 DEF SlotsFollow
  <1>9. SlotsFollow(b)'
    <2>1. ASSUME NEW u \in Sessions, u > b - Unheard PROVE availableSlots_'[u] = 0 /\ \A i \in DOMAIN toBoard' : toBoard'[i] # <<"push", u>>
      <3>1. u # t /\ availableSlots_[u] = 0 /\ \A i \in DOMAIN toBoard : toBoard[i] # <<"push", u>>
        BY <1>2, <1>8, <2>1 DEF SlotsFollow
      <3>2. c # <<"push", u>>
        BY <3>1
      <3>3. QED
        BY <1>4, <1>6, <3>1, <3>2
    <2>2. QED
      BY <1>2, <1>5, <2>1 DEF SlotsFollow
  <1>10. \A s : Pushes(s) \in Nat /\ Pushes(s)' = Pushes(s) + IF s = t THEN 1 ELSE 0
    <2>1. SUFFICES ASSUME NEW s PROVE Pushes(s) \in Nat /\ Pushes(s)' = Pushes(s) + IF s = t THEN 1 ELSE 0
      OBVIOUS
    <2>2. Pushes(s) = Count(toBoard, {<<"push", s>>}) /\ Pushes(s)' = Count(toBoard', {<<"push", s>>}) /\ Pushes(s) \in Nat
      BY <1>1, PushesAre DEF Pushes, Count
    <2>3. Count(Append(toBoard, c), {<<"push", s>>}) = Count(toBoard, {<<"push", s>>}) + IF c \in {<<"push", s>>} THEN 1 ELSE 0
      BY <1>3, CountAppend
    <2>4. c \in {<<"push", s>>} <=> s = t
      OBVIOUS
    <2>5. QED
      BY <2>2, <2>3, <2>4
  <1>11. Bounded'
    <2>1. SUFFICES ASSUME sequencer_open # 0 PROVE Bounded'
      BY DEF Bounded
    <2> DEFINE s == sequencer_open  a == availableSlots_[s]
    <2>2. s \in Sessions /\ a \in Nat /\ s = b
      BY <1>1, <1>2, <2>1, SlotConst DEF SlotTypeOK, SlotsFollow
    <2>3. CASE s # t
      BY <1>1, <1>4, <1>5, <1>10, <2>1, <2>2, <2>3 DEF Bounded
    <2>4. CASE s = t
      <3>1. InFlight \in Seq(SlotEvents) /\ Unheard \in Nat
        BY <1>1, FlightType
      <3>2. Unheard = 0
        BY <1>8, <2>2, <2>4, <3>1
      <3>3. \A i \in DOMAIN InFlight : InFlight[i][1] # "opened"
        BY <1>1, <3>2, FlightType
      <3> DEFINE x == a - 1
      <3>4. x \in Nat /\ a = x + 1
        BY <2>2, <2>4
      <3> HIDE DEF x
      <3>5. Promised(x + 1, InFlight) = Promised(x, InFlight) + 1
        BY <3>1, <3>3, <3>4, PromisedLess
      <3>6. Promised(x, InFlight) \in Nat
        BY <3>1, <3>4, PromisedFollowed
      <3>7. availableSlots_'[s] = x
        BY <1>4, <2>4, <3>4
      <3>8. Promised(a, InFlight) + Pushes(s) + queued <= SeqLen
        BY <1>1, <2>1 DEF Bounded
      <3>9. Promised(availableSlots_'[s], InFlight') + Pushes(s)' + queued' <= SeqLen
        <4>1. Pushes(s)' = Pushes(s) + 1 /\ Pushes(s) \in Nat
          BY <1>10, <2>4
        <4>2. queued' = queued /\ queued \in Nat /\ InFlight' = InFlight /\ SeqLen \in Nat
          BY <1>1, <1>5, SlotConst DEF SlotTypeOK
        <4> HIDE DEF a
        <4>3. QED
          BY SMTT(30), <3>4, <3>5, <3>6, <3>7, <3>8, <4>1, <4>2
      <3>10. QED
        BY <3>9 DEF Bounded
    <2>5. QED
      BY <2>3, <2>4
  <1>12. QED
    BY <1>2, <1>5, <1>7, <1>9, <1>11 DEF SlotFacts

\* A new session: its open is the last of the opens in order.
LEMMA OpenKeeps == ASSUME SlotFacts, openSequencer PROVE SlotFacts'
  <1> DEFINE n == cur + 1  c == <<"open", n>>
  <1>0. /\ cur < MaxSessions /\ cur' = n /\ listeners_' = Append(listeners_, n) /\ toBoard' = Append(toBoard, c)
        /\ UNCHANGED <<availableSlots_, currentOpen_, toHost, event_queue, sequencer_open, queued, mainLoop, fault>>
    BY DEF openSequencer, boardVars
  <1>1. SlotTypeOK /\ Listening /\ Bounded
    BY DEF SlotFacts
  <1>2. PICK b \in 0..cur : OpensInOrder(b) /\ SlotsFollow(b)
    BY DEF SlotFacts
  <1>3. cur \in Nat /\ n \in Sessions /\ n \in 0..MaxSessions /\ b \in Nat /\ b <= cur
    BY <1>0, <1>1, <1>2, SlotConst DEF SlotTypeOK
  <1>4. c \in Cmds
    BY <1>3 DEF Cmds
  <1>5. toBoard \in Seq(Cmds) /\ toBoard' \in Seq(Cmds)
    BY <1>0, <1>1, <1>4 DEF SlotTypeOK
  <1>6. SlotTypeOK' /\ InFlight' = InFlight /\ Unheard' = Unheard /\ Unheard \in Nat
    BY <1>0, <1>1, <1>3, <1>5, FlightType DEF SlotTypeOK, InFlight, Unheard
  <1>7. Listening'
    <2>1. listeners_ \in Seq(Sessions) /\ Len(listeners_) <= cur /\ \A i \in DOMAIN listeners_ : listeners_[i] = cur - Len(listeners_) + i
      BY <1>1 DEF Listening
    <2>2. /\ listeners_' \in Seq(Sessions) /\ Len(listeners_') = Len(listeners_) + 1 /\ listeners_'[Len(listeners_) + 1] = n
          /\ \A i \in 1..Len(listeners_) : listeners_'[i] = listeners_[i]
      BY <1>0, <1>3, <2>1
    <2>3. ASSUME NEW i \in DOMAIN listeners_' PROVE listeners_'[i] = cur' - Len(listeners_') + i
      BY <1>0, <1>3, <2>1, <2>2
    <2>4. QED
      BY <1>0, <1>3, <2>1, <2>2, <2>3 DEF Listening
  <1>8. /\ DOMAIN toBoard = 1..Len(toBoard) /\ DOMAIN toBoard' = 1..Len(toBoard) + 1 /\ toBoard'[Len(toBoard) + 1] = c /\ Len(toBoard) \in Nat
        /\ \A i \in 1..Len(toBoard) : toBoard'[i] = toBoard[i]
    BY <1>0, <1>5
  <1>9. OpensInOrder(b)'
    <2>1. \A i \in DOMAIN toBoard' : toBoard'[i][1] = "open" => toBoard'[i][2] \in b + 1 .. cur'
      BY <1>0, <1>2, <1>3, <1>8 DEF OpensInOrder
    <2>2. ASSUME NEW i \in DOMAIN toBoard', NEW j \in DOMAIN toBoard', i < j, toBoard'[i][1] = "open", toBoard'[j][1] = "open"
          PROVE  toBoard'[i][2] < toBoard'[j][2]
      <3>1. i \in 1..Len(toBoard) /\ toBoard'[i] = toBoard[i] /\ toBoard[i][2] \in b + 1 .. cur
        BY <1>2, <1>8, <2>2 DEF OpensInOrder
      <3>2. CASE j = Len(toBoard) + 1
        BY <1>3, <1>8, <3>1, <3>2
      <3>3. CASE j # Len(toBoard) + 1
        BY <1>2, <1>8, <2>2, <3>1, <3>3 DEF OpensInOrder
      <3>4. QED
        BY <3>2, <3>3
    <2>3. ASSUME fault' = "none", NEW t \in b + 1 .. cur' PROVE \E i \in DOMAIN toBoard' : toBoard'[i] = <<"open", t>>
      <3>1. CASE t = n
        BY <1>8, <3>1
      <3>2. CASE t # n
        <4>1. t \in b + 1 .. cur /\ fault = "none"
          BY <1>0, <1>3, <2>3, <3>2
        <4>2. PICK i \in DOMAIN toBoard : toBoard[i] = <<"open", t>>
          BY <1>2, <4>1 DEF OpensInOrder
        <4>3. QED
          BY <1>8, <4>2
      <3>3. QED
        BY <3>1, <3>2
    <2>4. QED
      BY <2>1, <2>2, <2>3 DEF OpensInOrder
  <1>10. SlotsFollow(b)'
    <2>1. Len(listeners_') = Len(listeners_) + 1 /\ Len(listeners_) \in Nat
      BY <1>0, <1>1, <1>3 DEF Listening
    <2>2. Unheard' + (cur' - b) + (IF currentOpen_' THEN 1 ELSE 0) <= Len(listeners_')
      BY SMTT(30), <1>0, <1>2, <1>3, <1>6, <2>1 DEF SlotsFollow
    <2>3. ASSUME NEW t \in Sessions, t > b - Unheard PROVE availableSlots_'[t] = 0 /\ \A i \in DOMAIN toBoard' : toBoard'[i] # <<"push", t>>
      <3>1. availableSlots_[t] = 0 /\ \A i \in DOMAIN toBoard : toBoard[i] # <<"push", t>>
        BY <1>2, <2>3 DEF SlotsFollow
      <3>2. c # <<"push", t>>
        OBVIOUS
      <3>3. QED
        BY <1>0, <1>8, <3>1, <3>2
    <2>4. QED
      BY <1>0, <1>2, <1>6, <2>2, <2>3 DEF SlotsFollow
  <1>11. Bounded'
    <2>1. ASSUME NEW s PROVE Pushes(s)' = Pushes(s)
      <3>1. Pushes(s) = Count(toBoard, {<<"push", s>>}) /\ Pushes(s)' = Count(toBoard', {<<"push", s>>}) /\ Pushes(s) \in Nat
        BY <1>1, PushesAre DEF Pushes, Count
      <3>2. Count(Append(toBoard, c), {<<"push", s>>}) = Count(toBoard, {<<"push", s>>}) + IF c \in {<<"push", s>>} THEN 1 ELSE 0
        BY <1>4, <1>5, CountAppend
      <3>3. c \notin {<<"push", s>>}
        OBVIOUS
      <3>4. QED
        BY <1>0, <3>1, <3>2, <3>3
    <2>2. QED
      BY <1>0, <1>1, <1>6, <2>1 DEF Bounded
  <1>12. b \in 0..cur'
    BY <1>0, <1>3
  <1>13. QED
    BY <1>6, <1>7, <1>9, <1>10, <1>11, <1>12 DEF SlotFacts

-----------------------------------------------------------------------------
(* IncomingState.handleSequencerEvent.                                     *)

\* The host handles an event: the promise stays, and an opened is heard.
LEMMA EventKeeps == ASSUME SlotFacts, handleSequencerEvent PROVE SlotFacts'
  <1> DEFINE e == Head(toHost)  open == currentOpen_ \/ (e[1] = "opened" /\ listeners_ # <<>>)  h == Head(listeners_)
             v == Slots(availableSlots_[h], e[1], e[2])
  <1>0. /\ toHost # <<>> /\ toHost' = Tail(toHost)
        /\ availableSlots_' = IF open THEN [availableSlots_ EXCEPT ![h] = v] ELSE availableSlots_
        /\ currentOpen_' = (open /\ e[1] # "closed")
        /\ listeners_' = IF open /\ e[1] = "closed" THEN Tail(listeners_) ELSE listeners_
        /\ UNCHANGED <<cur, toBoard, event_queue, sequencer_open, queued, mainLoop, fault>>
    BY DEF handleSequencerEvent, boardVars
  <1>1. SlotTypeOK /\ Listening /\ Bounded
    BY DEF SlotFacts
  <1>2. PICK b \in 0..cur : OpensInOrder(b) /\ SlotsFollow(b)
    BY DEF SlotFacts
  <1>3. cur \in Nat /\ b \in Nat /\ b <= cur /\ currentOpen_ \in BOOLEAN /\ Unheard \in Nat /\ InFlight \in Seq(SlotEvents) /\ availableSlots_ \in [Sessions -> Nat]
    BY <1>1, <1>2, SlotConst, FlightType DEF SlotTypeOK
  <1>4. e \in SlotEvents /\ e[1] \in EventKinds /\ e[2] \in Nat
    BY <1>0, <1>1 DEF SlotTypeOK, SlotEvents
  <1>5. InFlight # <<>> /\ Head(InFlight) = e /\ InFlight' = Tail(InFlight) /\ InFlight' \in Seq(SlotEvents)
    BY <1>0, <1>1, <1>3, FlightLands DEF InFlight
  <1>6. Unheard = Unheard' + (IF e[1] = "opened" THEN 1 ELSE 0) /\ Unheard' \in Nat
    <2>1. Count(InFlight, {"opened"} \X Nat) = Count(Tail(InFlight), {"opened"} \X Nat) + IF Head(InFlight) \in {"opened"} \X Nat THEN 1 ELSE 0
      BY <1>3, <1>5, CountTail
    <2>2. Count(InFlight', {"opened"} \X Nat) \in Nat
      BY <1>5, CountNat
    <2>3. e \in {"opened"} \X Nat <=> e[1] = "opened"
      BY <1>4 DEF SlotEvents
    <2>4. QED
      BY <1>5, <2>1, <2>2, <2>3 DEF Unheard
  <1>7. /\ listeners_ \in Seq(Sessions) /\ Len(listeners_) \in Nat /\ Len(listeners_) <= cur
        /\ listeners_ # <<>> => h \in Sessions /\ h = cur - Len(listeners_) + 1 /\ Len(listeners_) > 0
    BY <1>1, <1>3 DEF Listening
  <1>8. Unheard + (cur - b) + (IF currentOpen_ THEN 1 ELSE 0) <= Len(listeners_)
    BY <1>2 DEF SlotsFollow
  <1>9. open \in BOOLEAN /\ (e[1] = "opened" => open) /\ (open => listeners_ # <<>>) /\ (open => h <= b - Unheard')
    BY <1>3, <1>6, <1>7, <1>8
  <1>10. open => v \in Nat
    BY <1>3, <1>4, <1>7, <1>9, SlotsNat
  <1>b. PICK m \in Nat, n \in Nat : m = Unheard /\ n = Unheard'
    BY <1>3, <1>6
  <1>c. (e[1] = "opened" => m = n + 1) /\ (e[1] # "opened" => m = n)
    <2>1. m = n + IF e[1] = "opened" THEN 1 ELSE 0
      BY <1>6, <1>b
    <2>2. CASE e[1] = "opened"
      BY <2>1, <2>2
    <2>3. CASE e[1] # "opened"
      <3>1. m = n + 0
        BY <2>1, <2>3
      <3>2. QED
        BY <3>1, <2>3
    <2>4. QED
      BY <2>2, <2>3
  <1> HIDE DEF open, v, e, h
  <1>a. open <=> (currentOpen_ \/ e[1] = "opened")
    BY <1>9 DEF open
  <1>11. availableSlots_' \in [Sessions -> Nat] /\ \A t \in Sessions : availableSlots_'[t] = IF open /\ t = h THEN v ELSE availableSlots_[t]
    BY <1>0, <1>3, <1>7, <1>9, <1>10
  <1>12. SlotTypeOK'
    <2>1. toHost' \in Seq(SlotEvents)
      BY <1>0, <1>1 DEF SlotTypeOK
    <2>2. QED
      BY <1>0, <1>1, <1>9, <1>11, <2>1 DEF SlotTypeOK
  <1>13. Listening' /\ Len(listeners_') = IF open /\ e[1] = "closed" THEN Len(listeners_) - 1 ELSE Len(listeners_)
    <2>1. CASE open /\ e[1] = "closed"
      <3>1. /\ listeners_' \in Seq(Sessions) /\ Len(listeners_') = Len(listeners_) - 1
            /\ \A i \in 1..Len(listeners_) - 1 : listeners_'[i] = listeners_[i + 1]
        BY <1>0, <1>7, <1>9, <2>1
      <3>2. ASSUME NEW i \in DOMAIN listeners_' PROVE listeners_'[i] = cur' - Len(listeners_') + i
        <4>1. i \in 1..Len(listeners_) - 1 /\ i + 1 \in DOMAIN listeners_
          BY <1>7, <3>1
        <4>2. listeners_[i + 1] = cur - Len(listeners_) + (i + 1)
          BY <1>1, <4>1 DEF Listening
        <4>3. listeners_'[i] = listeners_[i + 1] /\ cur' = cur /\ Len(listeners_') = Len(listeners_) - 1 /\ i \in Int
          BY <1>0, <3>1, <4>1
        <4>4. cur - Len(listeners_) + (i + 1) = cur - (Len(listeners_) - 1) + i
          BY <1>3, <1>7, <4>3
        <4>5. QED
          BY <4>2, <4>3, <4>4
      <3>3. QED
        BY <1>0, <1>3, <1>7, <2>1, <3>1, <3>2 DEF Listening
    <2>2. CASE ~(open /\ e[1] = "closed")
      BY <1>0, <1>1, <2>2 DEF Listening
    <2>3. QED
      BY <2>1, <2>2
  <1>14. OpensInOrder(b)'
    BY <1>0, <1>2 DEF OpensInOrder
  <1>15. SlotsFollow(b)'
    <2>1. e[1] # "opened" \/ e[1] # "closed"
      OBVIOUS
    <2>3. n + (cur' - b) + (IF currentOpen_' THEN 1 ELSE 0) <= Len(listeners_')
      <3>1. cur' = cur /\ (currentOpen_' <=> (open /\ e[1] # "closed")) /\ m + (cur - b) + (IF currentOpen_ THEN 1 ELSE 0) <= Len(listeners_)
        BY <1>0, <1>8, <1>b
      <3>2. CASE e[1] = "opened"
        BY <1>3, <1>6, <1>7, <1>8, <1>13, <1>a, <1>b, <1>c, <3>1, <3>2
      <3>3. CASE e[1] = "closed"
        BY <1>3, <1>6, <1>7, <1>8, <1>9, <1>13, <1>a, <1>b, <1>c, <3>1, <3>3
      <3>4. CASE e[1] # "opened" /\ e[1] # "closed"
        BY <1>3, <1>6, <1>7, <1>8, <1>13, <1>a, <1>b, <1>c, <3>1, <3>4
      <3>5. QED
        BY <3>2, <3>3, <3>4
    <2>4. ASSUME NEW t \in Sessions, t > b - Unheard' PROVE availableSlots_'[t] = 0 /\ \A i \in DOMAIN toBoard' : toBoard'[i] # <<"push", t>>
      <3>1. t > b - Unheard /\ ~(open /\ t = h)
        <4>1. t \in Nat
          BY SlotConst
        <4>a. m >= n
          BY <1>c
        <4>b. t > b - n
          BY <1>b, <2>4
        <4>c. open => h <= b - n
          BY <1>9, <1>b
        <4>d. open => h \in Nat
          BY <1>7, <1>9, SlotConst
        <4>2. m >= n /\ t > b - n /\ (open => h <= b - n /\ h \in Nat)
          BY <4>a, <4>b, <4>c, <4>d
        <4>3. t > b - m /\ ~(open /\ t = h)
          BY <1>3, <4>1, <4>2
        <4>4. QED
          BY <1>b, <4>3
      <3>2. QED
        BY <1>0, <1>2, <1>11, <3>1 DEF SlotsFollow
    <2>5. QED
      BY <1>0, <1>2, <1>b, <2>3, <2>4 DEF SlotsFollow
  <1>16. Bounded'
    <2>1. SUFFICES ASSUME sequencer_open # 0 PROVE Bounded'
      BY <1>0 DEF Bounded
    <2> DEFINE s == sequencer_open  a == availableSlots_[s]  w == Slots(a, e[1], e[2])  r == Tail(InFlight)
    <2>2. s \in Sessions /\ a \in Nat /\ s = b
      BY <1>1, <1>2, <1>3, <2>1, SlotConst DEF SlotTypeOK, SlotsFollow
    <2>3. Promised(a, InFlight) = Promised(w, r)
      BY <1>3, <1>5, <2>2, PromisedHead
    <2>4. e[1] = "opened" => a = 0
      <3>1. ASSUME e[1] = "opened" PROVE b > b - Unheard
        <4>1. m = n + 1
          BY <1>c, <3>1
        <4>2. b > b - m
          BY <1>3, <4>1
        <4>3. QED
          BY <1>b, <4>2
      <3>2. QED
        BY <1>2, <2>2, <3>1 DEF SlotsFollow
    <2>5. w \in Nat /\ a <= w
      BY <1>4, <2>2, <2>4 DEF Slots, EventKinds
    <2>6. availableSlots_'[s] \in {a, w}
      BY <1>11, <2>2 DEF v
    <2>7. r \in Seq(SlotEvents)
      BY <1>5
    <2>8. Pushes(s)' = Pushes(s) /\ queued' = queued /\ sequencer_open' = s /\ Pushes(s) \in Nat /\ queued \in Nat /\ SeqLen \in Nat
      BY <1>0, <1>1, PushesAre, SlotConst DEF Pushes, SlotTypeOK
    <2>9. Promised(a, InFlight) + Pushes(s) + queued <= SeqLen
      BY <1>1, <2>1 DEF Bounded
    <2> HIDE DEF a, w, r, s
    <2>10. Promised(a, r) <= Promised(w, r) /\ Promised(a, r) \in Nat /\ Promised(w, r) \in Nat
      BY <2>2, <2>5, <2>7, PromisedMono, PromisedFollowed
    <2>11. Promised(availableSlots_'[s], r) <= Promised(w, r) /\ Promised(availableSlots_'[s], r) \in Nat
      BY <2>6, <2>10
    <2>12. Promised(availableSlots_'[s], r) + Pushes(s)' + queued' <= SeqLen
      BY <2>3, <2>8, <2>9, <2>10, <2>11
    <2>13. Promised(availableSlots_'[sequencer_open'], InFlight') + Pushes(sequencer_open)' + queued' <= SeqLen
      BY <1>5, <2>8, <2>12 DEF r, s
    <2>14. QED
      BY <2>13 DEF Bounded
  <1>17. QED
    BY <1>0, <1>2, <1>12, <1>13, <1>14, <1>15, <1>16 DEF SlotFacts

-----------------------------------------------------------------------------
(* The board takes commands and reports events.                            *)

\* A command taken from the connection.
LEMMA PushesTaken ==
    ASSUME SlotTypeOK, toBoard # <<>>, toBoard' = Tail(toBoard), NEW s
    PROVE  /\ Pushes(s) \in Nat /\ Pushes(s)' \in Nat
           /\ Pushes(s) = Pushes(s)' + IF Head(toBoard) = <<"push", s>> THEN 1 ELSE 0
  <1>1. toBoard \in Seq(Cmds) /\ Tail(toBoard) \in Seq(Cmds)
    BY DEF SlotTypeOK
  <1>2. Pushes(s) = Count(toBoard, {<<"push", s>>}) /\ Pushes(s)' = Count(Tail(toBoard), {<<"push", s>>}) /\ Pushes(s) \in Nat
    BY PushesAre DEF Pushes, Count
  <1>3. Count(toBoard, {<<"push", s>>}) = Count(Tail(toBoard), {<<"push", s>>}) + IF Head(toBoard) \in {<<"push", s>>} THEN 1 ELSE 0
    BY <1>1, CountTail
  <1>4. Count(Tail(toBoard), {<<"push", s>>}) \in Nat
    BY <1>1, CountNat
  <1>5. QED
    BY <1>2, <1>3, <1>4

\* An event pushed with room in event_queue.
LEMMA EventPushed ==
    ASSUME SlotTypeOK, NEW e \in SlotEvents, Len(event_queue) < EvLen,
           event_queue' = PushedEvent(event_queue, e), toHost' = toHost
    PROVE  /\ event_queue' \in Seq(SlotEvents) /\ InFlight' = Append(InFlight, e)
           /\ Unheard' = Unheard + IF e[1] = "opened" THEN 1 ELSE 0
  <1>1. event_queue \in Seq(SlotEvents) /\ event_queue' = Append(event_queue, e)
    BY PushedWithRoom DEF SlotTypeOK
  <1>2. InFlight' = Append(InFlight, e)
    BY <1>1, FlightAppend DEF InFlight
  <1>3. 0 \in Nat
    OBVIOUS
  <1>4. Count(Append(InFlight, e), {"opened"} \X Nat) = Unheard + IF e[1] = "opened" THEN 1 ELSE 0
    BY <1>3, PromisedPushed
  <1>5. QED
    BY <1>1, <1>2, <1>4 DEF Unheard

\* A step of the board that keeps the sum of slots, pushes and queued cues.
LEMMA BoardKeeps ==
    ASSUME SlotFacts, UNCHANGED <<cur, availableSlots_, listeners_, currentOpen_>>,
           \/ toBoard' = toBoard
           \/ toBoard # <<>> /\ toBoard' = Tail(toBoard) /\ (fault' = "none" => Head(toBoard)[1] # "open"),
           fault' = "none" => fault = "none", mainLoop' # "error" => fault' = "none",
           toHost' \in Seq(SlotEvents), event_queue' \in Seq(SlotEvents), Unheard' = Unheard,
           sequencer_open' \in {0, sequencer_open}, queued' \in Nat, sequencer_open' = 0 => queued' = 0,
           sequencer_open' # 0 =>
               Promised(availableSlots_[sequencer_open], InFlight') + Pushes(sequencer_open)' + queued' <= SeqLen
    PROVE  SlotFacts'
  <1>1. SlotTypeOK /\ Listening
    BY DEF SlotFacts
  <1>2. PICK b \in 0..cur : OpensInOrder(b) /\ SlotsFollow(b)
    BY DEF SlotFacts
  <1>3. toBoard \in Seq(Cmds) /\ toBoard' \in Seq(Cmds)
    <2>1. toBoard \in Seq(Cmds)
      BY <1>1 DEF SlotTypeOK
    <2>2. CASE toBoard' = toBoard
      BY <2>1, <2>2
    <2>3. CASE toBoard # <<>> /\ toBoard' = Tail(toBoard)
      BY <2>1, <2>3
    <2>4. QED
      BY <2>1, <2>2, <2>3
  <1>4. SlotTypeOK'
    <2>1. sequencer_open' \in 0..MaxSessions
      BY <1>1, SlotConst DEF SlotTypeOK
    <2>2. cur' \in 0..MaxSessions /\ availableSlots_' \in [Sessions -> Nat] /\ currentOpen_' \in BOOLEAN
      BY <1>1 DEF SlotTypeOK
    <2>3. QED
      BY <1>3, <2>1, <2>2 DEF SlotTypeOK
  <1>5. Listening'
    BY <1>1 DEF Listening
  <1>6. PICK d \in {0, 1} : /\ \A i \in DOMAIN toBoard' : i \in Nat /\ i + d \in DOMAIN toBoard /\ toBoard'[i] = toBoard[i + d]
                            /\ \A i \in DOMAIN toBoard : i \in Nat /\ (i - d \in DOMAIN toBoard' \/ (i = 1 /\ d = 1))
                            /\ d = 1 => (fault' = "none" => toBoard[1][1] # "open")
    <2>1. CASE toBoard' = toBoard
      <3>1. \A i \in DOMAIN toBoard : i \in Nat /\ i + 0 = i /\ i - 0 = i
        BY <1>3
      <3>2. QED
        BY <2>1, <3>1
    <2>2. CASE toBoard # <<>> /\ toBoard' = Tail(toBoard) /\ (fault' = "none" => Head(toBoard)[1] # "open")
      <3>1. DOMAIN toBoard = 1..Len(toBoard) /\ DOMAIN toBoard' = 1..Len(toBoard) - 1 /\ Len(toBoard) \in Nat /\ Head(toBoard) = toBoard[1]
            /\ \A i \in 1..Len(toBoard) - 1 : toBoard'[i] = toBoard[i + 1]
        BY <1>3, <2>2
      <3>2. \A i \in DOMAIN toBoard' : i \in Nat /\ i + 1 \in DOMAIN toBoard /\ toBoard'[i] = toBoard[i + 1]
        BY <3>1
      <3>3. \A i \in DOMAIN toBoard : i \in Nat /\ (i - 1 \in DOMAIN toBoard' \/ i = 1)
        BY <3>1
      <3>4. fault' = "none" => toBoard[1][1] # "open"
        BY <2>2, <3>1
      <3>5. QED
        BY <3>2, <3>3, <3>4
    <2>3. QED
      BY <2>1, <2>2
  <1>7. OpensInOrder(b)'
    <2>1. \A i \in DOMAIN toBoard' : toBoard'[i][1] = "open" => toBoard'[i][2] \in b + 1 .. cur'
      BY <1>2, <1>6 DEF OpensInOrder
    <2>2. ASSUME NEW i \in DOMAIN toBoard', NEW j \in DOMAIN toBoard', i < j, toBoard'[i][1] = "open", toBoard'[j][1] = "open"
          PROVE  toBoard'[i][2] < toBoard'[j][2]
      <3>1. i + d \in DOMAIN toBoard /\ j + d \in DOMAIN toBoard /\ i + d < j + d
        BY <1>6, <2>2
      <3>2. QED
        BY <1>2, <1>6, <2>2, <3>1 DEF OpensInOrder
    <2>3. ASSUME fault' = "none", NEW t \in b + 1 .. cur' PROVE \E i \in DOMAIN toBoard' : toBoard'[i] = <<"open", t>>
      <3>1. PICK i \in DOMAIN toBoard : toBoard[i] = <<"open", t>>
        BY <1>2, <2>3 DEF OpensInOrder
      <3>2. i - d \in DOMAIN toBoard' /\ i \in Nat
        BY <1>6, <2>3, <3>1
      <3>3. (i - d) + d = i
        BY <3>2
      <3>4. toBoard'[i - d] = toBoard[i]
        BY <1>6, <3>2, <3>3
      <3>5. QED
        BY <3>1, <3>2, <3>4
    <2>4. QED
      BY <2>1, <2>2, <2>3 DEF OpensInOrder
  <1>8. SlotsFollow(b)'
    <2>1. \A t \in Sessions : t > b - Unheard => \A i \in DOMAIN toBoard' : toBoard'[i] # <<"push", t>>
      BY <1>2, <1>6 DEF SlotsFollow
    <2>2. QED
      BY <1>2, <2>1 DEF SlotsFollow
  <1>9. Bounded'
    BY DEF Bounded
  <1>10. QED
    BY <1>2, <1>4, <1>5, <1>7, <1>8, <1>9 DEF SlotFacts

\* The sum, for the session that is open.
LEMMA StillBounded ==
    ASSUME SlotFacts, sequencer_open # 0
    PROVE  /\ sequencer_open \in Sessions /\ availableSlots_[sequencer_open] \in Nat
           /\ Promised(availableSlots_[sequencer_open], InFlight) \in Nat
           /\ Promised(availableSlots_[sequencer_open], InFlight) + Pushes(sequencer_open) + queued <= SeqLen
  <1>1. SlotTypeOK /\ Bounded
    BY DEF SlotFacts
  <1>2. sequencer_open \in Sessions /\ availableSlots_[sequencer_open] \in Nat
    BY <1>1, SlotConst DEF SlotTypeOK
  <1>3. InFlight \in Seq(SlotEvents)
    BY <1>1, FlightType
  <1>4. Promised(availableSlots_[sequencer_open], InFlight) \in Nat
    BY <1>2, <1>3, PromisedFollowed
  <1>5. QED
    BY <1>1, <1>2, <1>4 DEF Bounded

\* The board only takes pushes from the wire.
LEMMA PushesFewer ==
    ASSUME SlotTypeOK, toBoard' = toBoard \/ (toBoard # <<>> /\ toBoard' = Tail(toBoard)), NEW s
    PROVE  Pushes(s)' \in Nat /\ Pushes(s) \in Nat /\ Pushes(s)' <= Pushes(s)
  <1>1. CASE toBoard' = toBoard
    <2>1. Pushes(s)' = Pushes(s)
      BY <1>1 DEF Pushes
    <2>2. Pushes(s) \in Nat
      BY PushesAre
    <2>3. QED
      BY <2>1, <2>2
  <1>2. CASE toBoard # <<>> /\ toBoard' = Tail(toBoard)
    <2> DEFINE k == IF Head(toBoard) = <<"push", s>> THEN 1 ELSE 0
    <2>1. Pushes(s) \in Nat /\ Pushes(s)' \in Nat /\ Pushes(s) = Pushes(s)' + k
      BY <1>2, PushesTaken
    <2>2. k \in {0, 1}
      OBVIOUS
    <2> HIDE DEF k
    <2>3. QED
      BY <2>1, <2>2
  <1>3. QED
    BY <1>1, <1>2

\* The steps of the board that report nothing and take at most a command that is not a push.
LEMMA QuietKeeps ==
    ASSUME SlotFacts, UNCHANGED <<cur, availableSlots_, listeners_, currentOpen_, sequencer_open, queued>>,
           \/ toBoard' = toBoard
           \/ toBoard # <<>> /\ toBoard' = Tail(toBoard) /\ (fault' = "none" => Head(toBoard)[1] # "open"),
           fault' = "none" => fault = "none", mainLoop' # "error" => fault' = "none",
           toHost' \in Seq(SlotEvents), event_queue' \in Seq(SlotEvents), InFlight' = InFlight
    PROVE  SlotFacts'
  <1>1. SlotTypeOK
    BY DEF SlotFacts
  <1>2. queued \in Nat /\ (sequencer_open = 0 => queued = 0) /\ SeqLen \in Nat
    BY <1>1, SlotConst DEF SlotTypeOK
  <1>3. Unheard' = Unheard
    BY DEF Unheard
  <1>4. ASSUME sequencer_open # 0
        PROVE  Promised(availableSlots_[sequencer_open], InFlight) + Pushes(sequencer_open)' + queued <= SeqLen
    <2> DEFINE s == sequencer_open  p == Promised(availableSlots_[s], InFlight)
    <2>1. p \in Nat /\ p + Pushes(s) + queued <= SeqLen
      BY <1>4, StillBounded
    <2>2. Pushes(s)' \in Nat /\ Pushes(s) \in Nat /\ Pushes(s)' <= Pushes(s)
      <3>1. PICK t : t = sequencer_open
        OBVIOUS
      <3>2. QED
        BY <1>1, <3>1, PushesFewer
    <2> HIDE DEF p
    <2>3. p + Pushes(s)' + queued <= SeqLen
      BY <1>2, <2>1, <2>2
    <2>4. QED
      BY <2>3 DEF p
  <1>5. QED
    BY <1>2, <1>3, <1>4, BoardKeeps

\* A command that the board refuses.
LEMMA RefuseKeeps ==
    ASSUME SlotFacts, NEW command, NEW reason, reason # "none", Handle(command), Refuse(reason) PROVE SlotFacts'
  <1>1. SlotTypeOK
    BY DEF SlotFacts
  <1>2. toHost' \in Seq(SlotEvents) /\ event_queue' \in Seq(SlotEvents) /\ InFlight' = InFlight
    BY <1>1 DEF SlotTypeOK, InFlight, Handle, Refuse, boardVars
  <1>3. QED
    BY <1>2, QuietKeeps DEF Handle, Refuse, boardVars, hostVars

\* A command that changes no slot.
LEMMA AcceptKeeps ==
    ASSUME SlotFacts, NEW command, command # "open", Handle(command), Accept, UNCHANGED <<sequencer_open, queued, event_queue>>
    PROVE  SlotFacts'
  <1>1. SlotTypeOK
    BY DEF SlotFacts
  <1>2. toHost' \in Seq(SlotEvents) /\ event_queue' \in Seq(SlotEvents) /\ InFlight' = InFlight
    BY <1>1 DEF SlotTypeOK, InFlight, Handle
  <1>3. fault = "none"
    BY <1>1 DEF SlotTypeOK, Handle
  <1>4. QED
    BY <1>2, <1>3, QuietKeeps DEF Handle, Accept, hostVars

\* SequencerStart changes no slot.
LEMMA StartKeeps == ASSUME SlotFacts, SequencerStart PROVE SlotFacts'
  BY RefuseKeeps, AcceptKeeps DEF SequencerStart

\* SequencerPause changes no slot.
LEMMA PauseKeeps == ASSUME SlotFacts, SequencerPause PROVE SlotFacts'
  BY RefuseKeeps, AcceptKeeps DEF SequencerPause

\* SequencerManualStart and SequencerManualStop change no slot.
LEMMA ManualKeeps == ASSUME SlotFacts, NEW c \in {"manual_start", "manual_stop"}, SequencerManual(c) PROVE SlotFacts'
  <1>1. c # "open"
    OBVIOUS
  <1>2. QED
    BY <1>1, RefuseKeeps, AcceptKeeps DEF SequencerManual, boardVars

\* The end of SequencerPush changes no slot.
LEMMA RestartKeeps == ASSUME SlotFacts, SequencerPushRestart PROVE SlotFacts'
  <1>1. SlotTypeOK
    BY DEF SlotFacts
  <1>2. toHost' \in Seq(SlotEvents) /\ event_queue' \in Seq(SlotEvents) /\ InFlight' = InFlight /\ fault = "none"
    BY <1>1 DEF SlotTypeOK, InFlight, SequencerPushRestart
  <1>3. QED
    BY <1>2, QuietKeeps DEF SequencerPushRestart, hostVars

\* SequencerTasks sends the first event of event_queue.
LEMMA TasksKeep == ASSUME SlotFacts, SequencerTasks PROVE SlotFacts'
  <1>1. SlotTypeOK
    BY DEF SlotFacts
  <1>2. fault = "none" /\ toHost \in Seq(SlotEvents) /\ event_queue \in Seq(SlotEvents)
    BY <1>1 DEF SlotTypeOK, SequencerTasks
  <1>3. toHost' \in Seq(SlotEvents) /\ event_queue' \in Seq(SlotEvents) /\ InFlight' = InFlight
    <2>1. CASE event_queue = <<>>
      BY <1>2, <2>1 DEF SequencerTasks, InFlight
    <2>2. CASE event_queue # <<>>
      <3>1. toHost' = Append(toHost, Head(event_queue)) /\ event_queue' = Tail(event_queue)
        BY <2>2 DEF SequencerTasks
      <3>2. Append(toHost, Head(event_queue)) \o Tail(event_queue) = InFlight
        BY <1>1, <2>2, FlightMoves
      <3>3. QED
        BY <1>2, <2>2, <3>1, <3>2 DEF InFlight
    <2>3. QED
      BY <2>1, <2>2
  <1>4. UNCHANGED <<hostVars, toBoard, fault, sequencer_open, queued>> /\ mainLoop' # "error"
    BY DEF SequencerTasks
  <1>5. QED
    BY <1>2, <1>3, <1>4, QuietKeeps DEF hostVars

\* A step of the board that reports an event and gives back no more slots than it frees.
LEMMA ReportKeeps ==
    ASSUME SlotFacts, NEW e \in SlotEvents, e[1] # "opened", Len(event_queue) < EvLen,
           event_queue' = PushedEvent(event_queue, e),
           UNCHANGED <<cur, availableSlots_, listeners_, currentOpen_, toHost, fault>>,
           \/ toBoard' = toBoard
           \/ toBoard # <<>> /\ toBoard' = Tail(toBoard) /\ Head(toBoard)[1] # "open",
           mainLoop' # "error" => fault = "none",
           sequencer_open' \in {0, sequencer_open}, queued' \in Nat, sequencer_open' = 0 => queued' = 0,
           \A p \in Nat : Slots(p, e[1], e[2]) \in Nat /\ Slots(p, e[1], e[2]) + queued' <= p + queued
    PROVE  SlotFacts'
  <1>1. SlotTypeOK
    BY DEF SlotFacts
  <1>2. toHost' \in Seq(SlotEvents)
    BY <1>1 DEF SlotTypeOK
  <1>3. event_queue' \in Seq(SlotEvents) /\ InFlight' = Append(InFlight, e) /\ Unheard' = Unheard
    <2>1. event_queue' \in Seq(SlotEvents) /\ InFlight' = Append(InFlight, e) /\ Unheard' = Unheard + IF e[1] = "opened" THEN 1 ELSE 0
      BY <1>1, EventPushed
    <2>2. Unheard \in Nat
      BY <1>1, FlightType
    <2>3. Unheard + 0 = Unheard
      BY <2>2
    <2>4. QED
      BY <2>1, <2>3
  <1>4. ASSUME sequencer_open' # 0
        PROVE  Promised(availableSlots_[sequencer_open], InFlight') + Pushes(sequencer_open)' + queued' <= SeqLen
    <2>1. PICK s : s = sequencer_open /\ s = sequencer_open' /\ s # 0
      BY <1>4
    <2> DEFINE a == availableSlots_[s]  p == Promised(a, InFlight)  r == Promised(a, Append(InFlight, e))
    <2>2. p \in Nat /\ p + Pushes(s) + queued <= SeqLen /\ a \in Nat
      BY <2>1, StillBounded
    <2>3. Pushes(s)' \in Nat /\ Pushes(s) \in Nat /\ Pushes(s)' <= Pushes(s)
      BY <1>1, PushesFewer
    <2>4. r = Slots(p, e[1], e[2])
      BY <1>1, <2>2, PromisedPushed
    <2>5. r \in Nat /\ r + queued' <= p + queued /\ queued \in Nat /\ SeqLen \in Nat
      BY <1>1, <2>2, <2>4, SlotConst DEF SlotTypeOK
    <2> HIDE DEF p, r
    <2>6. r + Pushes(s)' + queued' <= SeqLen
      <3>1. PICK x \in Nat, y \in Nat, z \in Nat : x = Pushes(s)' /\ y = queued' /\ z = Pushes(s)
        BY <2>3
      <3>2. x <= z /\ r + y <= p + queued /\ p + z + queued <= SeqLen
        BY <2>2, <2>3, <2>5, <3>1
      <3>3. r + x + y <= SeqLen
        BY <2>2, <2>5, <3>2
      <3>4. QED
        BY <3>1, <3>3
    <2>7. QED
      BY <1>3, <2>1, <2>6 DEF r
  <1>5. fault' = "none" => fault = "none"
    OBVIOUS
  <1>6. QED
    BY <1>2, <1>3, <1>4, <1>5, BoardKeeps

\* An undisturbed step pushes its event into a queue with room.
LEMMA NoOverwrite == ASSUME disturbed' = {}, disturbed' = disturbed \union Overwrites PROVE Len(event_queue) < EvLen \/ Len(event_queue) \notin Nat
  BY SlotConst DEF Overwrites

\* SequencerStop gives back the cues it discards, in the argument of its event.
LEMMA StopKeeps == ASSUME SlotFacts, SequencerStop, disturbed' = {} PROVE SlotFacts'
  <1>1. SlotTypeOK
    BY DEF SlotFacts
  <1>2. CASE sequencer_open = 0
    BY <1>2, RefuseKeeps DEF SequencerStop
  <1>3. CASE sequencer_open # 0
    <2>1. /\ Handle("stop") /\ Accept /\ queued' = 0 /\ sequencer_open' = sequencer_open
          /\ event_queue' = PushedEvent(event_queue, StoppedEvent) /\ disturbed' = disturbed \union Overwrites
      BY <1>3 DEF SequencerStop, StopEffect, SequenceClear
    <2>2. fault = "none" /\ event_queue \in Seq(SlotEvents) /\ queued \in Nat /\ Len(event_queue) \in Nat
      BY <1>1, <2>1 DEF SlotTypeOK, Handle
    <2>3. Len(event_queue) < EvLen
      BY <2>1, <2>2, NoOverwrite
    <2> DEFINE z == queued % SizeMod
    <2>4. z \in Nat /\ z <= queued
      BY <2>2, SlotConst
    <2>5. StoppedEvent = <<"stopped", z>>
      BY DEF StoppedEvent
    <2> HIDE DEF z
    <2>6. StoppedEvent \in SlotEvents /\ StoppedEvent[1] = "stopped" /\ StoppedEvent[2] = z
      BY <2>4, <2>5 DEF SlotEvents, EventKinds
    <2>7. \A p \in Nat : Slots(p, "stopped", z) = p + z
      BY DEF Slots
    <2>8. \A p \in Nat : Slots(p, StoppedEvent[1], StoppedEvent[2]) \in Nat /\ Slots(p, StoppedEvent[1], StoppedEvent[2]) + queued' <= p + queued
      <3>1. SUFFICES ASSUME NEW p \in Nat PROVE p + z \in Nat /\ p + z + queued' <= p + queued
        BY <2>6, <2>7
      <3>2. QED
        BY <2>1, <2>2, <2>4
    <2>9. UNCHANGED <<cur, availableSlots_, listeners_, currentOpen_, toHost, fault>>
      BY <2>1 DEF Handle, Accept, hostVars
    <2>10. toBoard # <<>> /\ toBoard' = Tail(toBoard) /\ Head(toBoard)[1] # "open"
      BY <2>1 DEF Handle
    <2>11. queued' \in Nat
      BY <2>1
    <2>12. QED
      BY <1>3, <2>1, <2>2, <2>3, <2>6, <2>8, <2>9, <2>10, <2>11, ReportKeeps
  <1>4. QED
    BY <1>2, <1>3

\* __T2Interrupt takes a cue and tells of it, or stalls.
LEMMA TimerKeeps == ASSUME SlotFacts, T2Interrupt, disturbed' = {} PROVE SlotFacts'
  <1>1. SlotTypeOK
    BY DEF SlotFacts
  <1> DEFINE cue == sequencer_should_run /\ queued # 0
             e == IF cue THEN <<"next_cue", 0>> ELSE <<IF sequencer_should_run THEN "stalled" ELSE "paused", 0>>
  <1>2. /\ event_queue' = PushedEvent(event_queue, e) /\ queued' = (IF cue THEN queued - 1 ELSE queued)
        /\ UNCHANGED <<hostVars, toBoard, toHost, mainLoop, fault, sequencer_open>> /\ disturbed' = disturbed \union Overwrites
    BY DEF T2Interrupt, SequencePull
  <1>3. queued \in Nat /\ event_queue \in Seq(SlotEvents) /\ Len(event_queue) \in Nat /\ (mainLoop # "error" => fault = "none")
        /\ (sequencer_open = 0 => queued = 0)
    BY <1>1 DEF SlotTypeOK
  <1>4. Len(event_queue) < EvLen
    BY <1>2, <1>3, NoOverwrite
  <1>5. e \in SlotEvents /\ e[1] # "opened" /\ e[2] = 0 /\ e[1] = (IF cue THEN "next_cue" ELSE IF sequencer_should_run THEN "stalled" ELSE "paused")
    BY DEF SlotEvents, EventKinds
  <1>6. queued' \in Nat /\ (sequencer_open = 0 => queued' = 0)
    BY <1>2, <1>3
  <1> HIDE DEF e
  <1>7. ASSUME NEW p \in Nat PROVE Slots(p, e[1], e[2]) \in Nat /\ Slots(p, e[1], e[2]) + queued' <= p + queued
    <2>1. CASE cue
      <3>1. Slots(p, e[1], e[2]) = p + 1 /\ queued' = queued - 1
        BY <1>2, <1>5, <2>1 DEF Slots
      <3>2. QED
        BY <1>3, <3>1
    <2>2. CASE ~cue
      <3>1. e[1] \in {"stalled", "paused"}
        BY <1>5, <2>2
      <3>2. Slots(p, e[1], e[2]) = p /\ queued' = queued
        BY <1>2, <2>2, <3>1 DEF Slots
      <3>3. QED
        BY <1>3, <3>2
    <2>3. QED
      BY <2>1, <2>2
  <1>8. QED
    BY <1>2, <1>3, <1>4, <1>5, <1>6, <1>7, ReportKeeps DEF hostVars

\* The last output interrupt of a close reports it, which gives no slot.
LEMMA OCKeeps == ASSUME SlotFacts, OCInterrupt, disturbed' = {} PROVE SlotFacts'
  <1>1. SlotTypeOK
    BY DEF SlotFacts
  <1>2. UNCHANGED <<hostVars, toBoard, toHost, mainLoop, fault, sequencer_open, queued>>
    BY DEF OCInterrupt
  <1>3. queued \in Nat /\ event_queue \in Seq(SlotEvents) /\ toHost \in Seq(SlotEvents) /\ Len(event_queue) \in Nat
        /\ (mainLoop # "error" => fault = "none") /\ (sequencer_open = 0 => queued = 0)
    BY <1>1 DEF SlotTypeOK
  <1>4. CASE oc_waiting_close' = 0
    <2> DEFINE e == <<"closed", 0>>
    <2>1. event_queue' = PushedEvent(event_queue, e) /\ disturbed' = disturbed \union Overwrites
      BY <1>4 DEF OCInterrupt
    <2>2. Len(event_queue) < EvLen
      BY <1>3, <2>1, NoOverwrite
    <2>3. e \in SlotEvents /\ e[1] = "closed" /\ e[2] = 0
      BY DEF SlotEvents, EventKinds
    <2> HIDE DEF e
    <2>4. \A p \in Nat : Slots(p, "closed", 0) = p
      BY DEF Slots
    <2>5. \A p \in Nat : Slots(p, e[1], e[2]) \in Nat /\ Slots(p, e[1], e[2]) + queued' <= p + queued
      BY <1>2, <1>3, <2>3, <2>4
    <2>6. e[1] # "opened"
      BY <2>3
    <2>7. QED
      BY <1>2, <1>3, <2>1, <2>2, <2>3, <2>5, <2>6, ReportKeeps DEF hostVars
  <1>5. CASE oc_waiting_close' # 0
    <2>1. event_queue' = event_queue
      BY <1>5 DEF OCInterrupt
    <2>2. InFlight' = InFlight
      BY <1>2, <2>1 DEF InFlight
    <2>3. QED
      BY <1>2, <1>3, <2>1, <2>2, QuietKeeps DEF hostVars
  <1>6. QED
    BY <1>4, <1>5

\* A cue of the open session is taken from the connection.
LEMMA SequencerPushKeeps == ASSUME SlotFacts, SequencerPush, disturbed' = {} PROVE SlotFacts'
  <1>1. SlotTypeOK
    BY DEF SlotFacts
  <1>2. Handle("push")
    BY DEF SequencerPush
  <1>3. CASE sequencer_open = 0 \/ SequenceFull
    <2>1. Refuse("push_closed") \/ Refuse("push_full")
      BY <1>3 DEF SequencerPush
    <2>2. "push_closed" # "none" /\ "push_full" # "none"
      OBVIOUS
    <2>3. CASE Refuse("push_closed")
      BY <1>2, <2>2, <2>3, RefuseKeeps
    <2>4. CASE Refuse("push_full")
      BY <1>2, <2>2, <2>4, RefuseKeeps
    <2>5. QED
      BY <2>1, <2>3, <2>4
  <1>4. CASE sequencer_open # 0 /\ ~SequenceFull
    <2>1. /\ mainLoop' = "pushed" /\ queued' = queued + 1 /\ Head(toBoard)[2] = sequencer_open
          /\ UNCHANGED <<fault, sequencer_open, event_queue>>
      BY <1>4 DEF SequencerPush, SequencePush
    <2>2. toBoard # <<>> /\ toBoard' = Tail(toBoard) /\ Head(toBoard)[1] = "push" /\ UNCHANGED <<hostVars, toHost>> /\ mainLoop = "incoming"
      BY <1>2 DEF Handle
    <2>3. fault = "none" /\ queued \in Nat /\ toHost \in Seq(SlotEvents) /\ event_queue \in Seq(SlotEvents) /\ toBoard \in Seq(Cmds)
      BY <1>1, <2>2 DEF SlotTypeOK
    <2>4. InFlight' = InFlight /\ Unheard' = Unheard
      BY <2>1, <2>2 DEF InFlight, Unheard
    <2>5. PICK s : s = sequencer_open /\ s = sequencer_open'
      BY <2>1
    <2> DEFINE p == Promised(availableSlots_[s], InFlight)
    <2>6. p \in Nat /\ p + Pushes(s) + queued <= SeqLen /\ SeqLen \in Nat
      BY <1>4, <2>5, StillBounded, SlotConst
    <2>7. Head(toBoard) = <<"push", s>>
      <3>1. Head(toBoard) \in Cmds
        BY <2>2, <2>3
      <3>2. QED
        BY <2>1, <2>2, <2>5, <3>1 DEF Cmds
    <2>8. Pushes(s)' \in Nat /\ Pushes(s) = Pushes(s)' + 1
      BY <1>1, <2>2, <2>7, PushesTaken
    <2> HIDE DEF p
    <2>9. p + Pushes(s)' + queued' <= SeqLen
      BY <2>1, <2>3, <2>6, <2>8
    <2>10. Promised(availableSlots_[sequencer_open], InFlight') + Pushes(sequencer_open)' + queued' <= SeqLen
      BY <2>4, <2>5, <2>9 DEF p
    <2>11. queued' \in Nat
      BY <2>1, <2>3
    <2>12. toHost' \in Seq(SlotEvents) /\ event_queue' \in Seq(SlotEvents)
      BY <2>1, <2>2, <2>3
    <2>13. Head(toBoard)[1] # "open"
      BY <2>2
    <2>14. QED
      BY <1>4, <2>1, <2>2, <2>3, <2>4, <2>10, <2>11, <2>12, <2>13, BoardKeeps DEF hostVars
  <1>5. QED
    BY <1>3, <1>4

\* SequencerClose reports one event or two.
LEMMA CloseKeeps == ASSUME SlotFacts, NEW n, SequencerClose(n), disturbed' = {} PROVE SlotFacts'
  <1>1. SlotTypeOK
    BY DEF SlotFacts
  <1>2. Handle("close")
    BY DEF SequencerClose
  <1>3. CASE sequencer_open = 0
    BY <1>3, RefuseKeeps DEF SequencerClose
  <1>4. CASE sequencer_open # 0
    <2> DEFINE stopped == PushedEvent(event_queue, StoppedEvent)  c == <<"closed", 0>>
    <2>1. /\ Accept /\ queued' = 0 /\ sequencer_open' = 0
          /\ event_queue' = (IF oc_waiting_close' # 0 THEN stopped ELSE PushedEvent(stopped, c))
          /\ disturbed' = (IF Len(event_queue') > EvLen THEN disturbed \union {"overwrite"} ELSE disturbed)
      BY <1>4 DEF SequencerClose, StopEffect, SequenceClear
    <2>2. ~(Len(event_queue') > EvLen)
      BY <2>1
    <2>3. fault = "none" /\ event_queue \in Seq(SlotEvents) /\ queued \in Nat /\ Len(event_queue) \in Nat /\ toHost \in Seq(SlotEvents)
      BY <1>1, <1>2 DEF SlotTypeOK, Handle
    <2>4. StoppedEvent \in SlotEvents /\ StoppedEvent[1] = "stopped" /\ c \in SlotEvents /\ c[1] = "closed"
      <3>1. queued % SizeMod \in Nat
        BY <2>3, SlotConst
      <3>2. QED
        BY <3>1 DEF StoppedEvent, SlotEvents, EventKinds
    <2>5. \A q, x : Len(PushedEvent(q, x)) = Len(q) + 1 \/ Len(q) \notin Nat
      BY DEF PushedEvent
    <2>6. Len(event_queue) < EvLen
      <3>1. Len(stopped) = Len(event_queue) + 1 /\ (Len(PushedEvent(stopped, c)) = Len(stopped) + 1 \/ Len(stopped) \notin Nat)
        BY <2>3, <2>5
      <3> HIDE DEF stopped, c
      <3>2. Len(event_queue') \in {Len(event_queue) + 1, Len(event_queue) + 2}
        BY <2>1, <2>3, <3>1
      <3>3. QED
        BY <2>2, <2>3, <3>2, SlotConst
    <2>7. stopped = Append(event_queue, StoppedEvent) /\ stopped \in Seq(SlotEvents)
      <3>1. stopped = Append(event_queue, StoppedEvent)
        BY <2>3, <2>4, <2>6, PushedWithRoom
      <3>2. Append(event_queue, StoppedEvent) \in Seq(SlotEvents)
        BY <2>3, <2>4
      <3>3. QED
        BY <3>1, <3>2
    <2> DEFINE K == {"opened"} \X Nat  f == Append(InFlight, StoppedEvent)
    <2>8. toHost \o stopped = f /\ f \in Seq(SlotEvents) /\ Count(f, K) = Unheard
      <3>1. toHost \o stopped = f
        BY <1>1, <2>4, <2>7, FlightAppend
      <3>2. InFlight \in Seq(SlotEvents) /\ Unheard \in Nat
        BY <1>1, FlightType
      <3>3. Count(f, K) = Unheard + IF StoppedEvent \in K THEN 1 ELSE 0
        BY <2>4, <3>2, CountAppend DEF Unheard
      <3>4. StoppedEvent \notin K
        BY <2>4
      <3>5. QED
        BY <2>4, <3>1, <3>2, <3>3, <3>4
    <2>9. event_queue' \in Seq(SlotEvents) /\ Unheard' = Unheard
      <3>1. CASE oc_waiting_close' # 0
        BY <1>2, <2>1, <2>7, <2>8, <3>1 DEF Handle, Unheard, InFlight
      <3>2. CASE oc_waiting_close' = 0
        <4> HIDE DEF stopped, c, f
        <4>1. event_queue' = PushedEvent(stopped, c)
          BY <2>1, <3>2
        <4>2. Len(stopped) \in Nat /\ Len(stopped) < EvLen
          <5>1. Len(stopped) \in Nat
            BY <2>7
          <5>2. Len(event_queue') = Len(stopped) + 1
            BY <2>5, <4>1, <5>1
          <5>3. QED
            BY <2>2, <5>1, <5>2, SlotConst
        <4>3. event_queue' = Append(stopped, c)
          BY <2>4, <2>7, <4>1, <4>2, PushedWithRoom
        <4>4. InFlight' = Append(f, c)
          <5>1. toHost' = toHost
            BY <1>2 DEF Handle
          <5>2. toHost \o Append(stopped, c) = Append(toHost \o stopped, c)
            BY <2>3, <2>4, <2>7
          <5>3. QED
            BY <2>8, <4>3, <5>1, <5>2 DEF InFlight
        <4>5. Count(Append(f, c), K) = Count(f, K) + IF c \in K THEN 1 ELSE 0
          BY <2>4, <2>8, CountAppend
        <4>6. c \notin K
          BY <2>4
        <4>7. Unheard \in Nat
          BY <1>1, FlightType
        <4>8. QED
          BY <2>4, <2>7, <2>8, <4>3, <4>4, <4>5, <4>6, <4>7 DEF Unheard
      <3>3. QED
        BY <3>1, <3>2
    <2>10. UNCHANGED <<cur, availableSlots_, listeners_, currentOpen_, toHost, fault>> /\ mainLoop' = "incoming"
           /\ toBoard # <<>> /\ toBoard' = Tail(toBoard) /\ Head(toBoard)[1] # "open"
      BY <1>2, <2>1 DEF Handle, Accept, hostVars
    <2>11. queued' \in Nat /\ toHost' \in Seq(SlotEvents)
      BY <2>1, <2>3, <2>10
    <2>12. QED
      BY <2>1, <2>3, <2>9, <2>10, <2>11, BoardKeeps
  <1>5. QED
    BY <1>3, <1>4

\* SequencerOpen takes the "open" of the next session.
LEMMA SequencerOpenKeeps == ASSUME SlotFacts, SequencerOpen, disturbed' = {} PROVE SlotFacts'
  <1>1. SlotTypeOK /\ Listening
    BY DEF SlotFacts
  <1>2. PICK b \in 0..cur : OpensInOrder(b) /\ SlotsFollow(b)
    BY DEF SlotFacts
  <1>3. Handle("open")
    BY DEF SequencerOpen
  <1>4. CASE sequencer_open # 0
    BY <1>4, RefuseKeeps DEF SequencerOpen
  <1>5. CASE sequencer_open = 0
    <2> DEFINE e == <<"opened", SeqLen>>
    <2>t. PICK t : t = Head(toBoard)[2]
      OBVIOUS
    <2>1. /\ Accept /\ sequencer_open' = t /\ event_queue' = PushedEvent(event_queue, e) /\ disturbed' = disturbed \union Overwrites
          /\ queued' = queued
      BY <1>5, <2>t DEF SequencerOpen
    <2>2. /\ toBoard # <<>> /\ toBoard' = Tail(toBoard) /\ Head(toBoard)[1] = "open" /\ mainLoop = "incoming"
          /\ UNCHANGED <<cur, availableSlots_, listeners_, currentOpen_, toHost, fault>> /\ mainLoop' = "incoming"
      BY <1>3, <2>1 DEF Handle, Accept, hostVars
    <2>3. /\ fault = "none" /\ queued = 0 /\ toBoard \in Seq(Cmds) /\ toHost \in Seq(SlotEvents) /\ event_queue \in Seq(SlotEvents)
          /\ Len(event_queue) \in Nat /\ cur \in 0..MaxSessions /\ cur \in Nat /\ b \in Nat /\ b <= cur /\ availableSlots_ \in [Sessions -> Nat]
      BY <1>1, <1>2, <1>5, <2>2, SlotConst DEF SlotTypeOK
    <2>4. e \in SlotEvents /\ e[1] = "opened" /\ e[2] = SeqLen /\ SeqLen \in Nat
      BY SlotConst DEF SlotEvents, EventKinds
    <2>5. Len(event_queue) < EvLen
      BY <2>1, <2>3, NoOverwrite
    <2> HIDE DEF e
    <2>6. event_queue' \in Seq(SlotEvents) /\ InFlight' = Append(InFlight, e) /\ Unheard' = Unheard + 1 /\ Unheard \in Nat
      <3>1. event_queue' \in Seq(SlotEvents) /\ InFlight' = Append(InFlight, e) /\ Unheard' = Unheard + IF e[1] = "opened" THEN 1 ELSE 0
        BY <1>1, <2>1, <2>2, <2>4, <2>5, EventPushed
      <3>2. Unheard \in Nat
        BY <1>1, FlightType
      <3>3. QED
        BY <2>4, <3>1, <3>2
    <2>7. /\ DOMAIN toBoard = 1..Len(toBoard) /\ DOMAIN toBoard' = 1..Len(toBoard) - 1 /\ Len(toBoard) \in Nat /\ Len(toBoard) > 0
          /\ Head(toBoard) = toBoard[1] /\ toBoard' \in Seq(Cmds) /\ \A i \in 1..Len(toBoard) - 1 : toBoard'[i] = toBoard[i + 1]
      BY <2>2, <2>3
    <2>8. t \in b + 1 .. cur /\ t = b + 1
      <3>1. t \in b + 1 .. cur
        BY <1>2, <2>t, <2>2, <2>7 DEF OpensInOrder
      <3>2. PICK i \in DOMAIN toBoard : toBoard[i] = <<"open", b + 1>>
        <4>1. b + 1 \in b + 1 .. cur
          BY <2>3, <3>1
        <4>2. QED
          BY <1>2, <2>3, <4>1 DEF OpensInOrder
      <3>3. CASE i = 1
        BY <2>t, <2>7, <3>1, <3>2, <3>3
      <3>4. CASE i # 1
        <4>1. 1 < i /\ 1 \in DOMAIN toBoard /\ toBoard[1][1] = "open" /\ toBoard[i][1] = "open" /\ toBoard[i][2] = b + 1
          BY <2>2, <2>7, <3>2, <3>4
        <4>2. t < b + 1
          BY <1>2, <2>t, <2>7, <4>1 DEF OpensInOrder
        <4>3. QED
          BY <2>3, <3>1, <4>2
      <3>5. QED
        BY <3>1, <3>3, <3>4
    <2>9. t \in Sessions /\ t \in 0..cur /\ t \in 0..MaxSessions /\ t # 0
      BY <2>3, <2>8, SlotConst
    <2>10. SlotTypeOK'
      BY <1>1, <2>1, <2>2, <2>3, <2>6, <2>7, <2>9 DEF SlotTypeOK
    <2>11. Listening'
      BY <1>1, <2>2 DEF Listening
    <2>12. OpensInOrder(t)'
      <3>1. ASSUME NEW i \in DOMAIN toBoard', toBoard'[i][1] = "open" PROVE toBoard'[i][2] \in t + 1 .. cur'
        <4>1. i + 1 \in DOMAIN toBoard /\ 1 \in DOMAIN toBoard /\ 1 < i + 1 /\ toBoard'[i] = toBoard[i + 1] /\ toBoard[1][1] = "open"
          BY <2>2, <2>7
        <4>2. toBoard[1][2] < toBoard[i + 1][2] /\ toBoard[i + 1][2] \in b + 1 .. cur
          BY <1>2, <3>1, <4>1 DEF OpensInOrder
        <4>3. toBoard[1][2] = t
          BY <2>t, <2>7
        <4>4. QED
          BY <2>2, <2>3, <2>8, <4>1, <4>2, <4>3
      <3>2. ASSUME NEW i \in DOMAIN toBoard', NEW j \in DOMAIN toBoard', i < j, toBoard'[i][1] = "open", toBoard'[j][1] = "open"
            PROVE  toBoard'[i][2] < toBoard'[j][2]
        <4>1. i + 1 \in DOMAIN toBoard /\ j + 1 \in DOMAIN toBoard /\ i + 1 < j + 1 /\ toBoard'[i] = toBoard[i + 1] /\ toBoard'[j] = toBoard[j + 1]
          BY <2>7, <3>2
        <4>2. QED
          BY <1>2, <3>2, <4>1 DEF OpensInOrder
      <3>3. ASSUME NEW u \in t + 1 .. cur' PROVE \E i \in DOMAIN toBoard' : toBoard'[i] = <<"open", u>>
        <4>1. u \in b + 1 .. cur /\ u # t
          BY <2>2, <2>3, <2>8
        <4>2. PICK i \in DOMAIN toBoard : toBoard[i] = <<"open", u>>
          BY <1>2, <2>3, <4>1 DEF OpensInOrder
        <4>3. i # 1
          <5>1. toBoard[1][2] = t
            BY <2>t, <2>7
          <5>2. QED
            BY <4>1, <4>2, <5>1
        <4>4. i - 1 \in DOMAIN toBoard' /\ (i - 1) + 1 = i
          BY <2>7, <4>3
        <4>5. QED
          BY <2>7, <4>2, <4>4
      <3>4. QED
        BY <3>1, <3>2, <3>3 DEF OpensInOrder
    <2>13. SlotsFollow(t)'
      <3>1. PICK m \in Nat, n \in Nat : m = Unheard /\ n = Unheard' /\ n = m + 1
        BY <2>6
      <3>2. m + (cur - b) + (IF currentOpen_ THEN 1 ELSE 0) <= Len(listeners_)
        BY <1>2, <3>1 DEF SlotsFollow
      <3>3. n + (cur - t) = m + (cur - b)
        BY <2>3, <2>8, <3>1
      <3>4. n + (cur' - t) + (IF currentOpen_' THEN 1 ELSE 0) <= Len(listeners_')
        BY <2>2, <3>2, <3>3
      <3>5. ASSUME NEW u \in Sessions, u > t - n PROVE availableSlots_'[u] = 0 /\ \A i \in DOMAIN toBoard' : toBoard'[i] # <<"push", u>>
        <4>1. t - n = b - m
          BY <2>3, <2>8, <3>1
        <4>2. u > b - Unheard
          BY <3>1, <3>5, <4>1
        <4>3. availableSlots_[u] = 0 /\ \A i \in DOMAIN toBoard : toBoard[i] # <<"push", u>>
          BY <1>2, <4>2 DEF SlotsFollow
        <4>4. \A i \in DOMAIN toBoard' : i + 1 \in DOMAIN toBoard /\ toBoard'[i] = toBoard[i + 1]
          BY <2>7
        <4>5. QED
          BY <2>2, <4>3, <4>4
      <3>6. QED
        BY <2>1, <3>1, <3>4, <3>5 DEF SlotsFollow
    <2>14. Bounded'
      <3>1. t > b - Unheard
        BY <2>3, <2>6, <2>8
      <3>2. availableSlots_[t] = 0 /\ \A i \in DOMAIN toBoard : toBoard[i] # <<"push", t>>
        BY <1>2, <2>9, <3>1 DEF SlotsFollow
      <3>3. Pushes(t)' = 0
        <4>1. {i \in DOMAIN toBoard' : toBoard'[i] = <<"push", t>>} = {}
          <5>1. \A i \in DOMAIN toBoard' : i + 1 \in DOMAIN toBoard /\ toBoard'[i] = toBoard[i + 1]
            BY <2>7
          <5>2. QED
            BY <3>2, <5>1
        <4>2. Pushes(t)' = Cardinality({i \in DOMAIN toBoard' : toBoard'[i] = <<"push", t>>})
          BY DEF Pushes
        <4>3. QED
          BY <4>1, <4>2, FS_EmptySet
      <3>4. Promised(0, Append(InFlight, e)) = SeqLen
        <4>1. Promised(0, InFlight) \in Nat /\ Promised(0, Append(InFlight, e)) = Slots(Promised(0, InFlight), e[1], e[2])
          BY <1>1, <2>4, PromisedPushed
        <4>2. QED
          BY <2>4, <4>1 DEF Slots
      <3>5. QED
        BY <2>1, <2>2, <2>3, <2>4, <2>6, <3>2, <3>3, <3>4, SlotConst DEF Bounded
    <2>15. QED
      BY <2>2, <2>9, <2>10, <2>11, <2>12, <2>13, <2>14 DEF SlotFacts
  <1>6. QED
    BY <1>4, <1>5

\* Nothing is counted in an empty sequence.
LEMMA NothingCounted == ASSUME NEW S PROVE Count(<<>>, S) = 0
  <1>1. {i \in DOMAIN <<>> : <<>>[i] \in S} = {}
    OBVIOUS
  <1>2. QED
    BY <1>1, FS_EmptySet DEF Count

\* A new connection starts from nothing in flight.
LEMMA LostKeeps == ASSUME SlotFacts, NEW k, ConnectionLost(k) PROVE SlotFacts'
  <1>1. SlotTypeOK
    BY DEF SlotFacts
  <1>2. /\ listeners_' = <<>> /\ currentOpen_' = FALSE /\ toBoard' = <<>> /\ toHost' = <<>> /\ event_queue' = <<>>
        /\ mainLoop' = "incoming" /\ fault' = "none" /\ sequencer_open' = 0 /\ queued' = 0 /\ cur' = cur /\ availableSlots_' = availableSlots_
    BY DEF ConnectionLost, SequenceClear
  <1>3. SlotTypeOK' /\ cur \in Nat /\ cur <= MaxSessions
    <2>1. \A T : <<>> \in Seq(T)
      OBVIOUS
    <2>2. 0 \in Nat /\ 0 \in 0..MaxSessions /\ cur \in 0..MaxSessions /\ availableSlots_ \in [Sessions -> Nat] /\ cur \in Nat /\ cur <= MaxSessions
      BY <1>1, SlotConst DEF SlotTypeOK
    <2>3. QED
      BY <1>2, <2>1, <2>2 DEF SlotTypeOK
  <1>4. Listening' /\ Bounded'
    BY <1>2, <1>3 DEF Listening, Bounded
  <1>5. Unheard' = 0
    <2>1. InFlight' = <<>>
      BY <1>2 DEF InFlight
    <2>2. QED
      BY <2>1, NothingCounted DEF Unheard
  <1>6. PICK b : b = cur
    OBVIOUS
  <1>7. OpensInOrder(b)'
    BY <1>2, <1>3, <1>6 DEF OpensInOrder
  <1>8. PICK b0 \in 0..cur : SlotsFollow(b0)
    BY DEF SlotFacts
  <1>9. ASSUME NEW t \in Sessions, t > b PROVE availableSlots_[t] = 0
    <2>1. Unheard \in Nat /\ t \in Nat
      BY <1>1, FlightType, SlotConst
    <2>2. t > b0 - Unheard
      BY <1>3, <1>6, <1>8, <1>9, <2>1
    <2>3. QED
      BY <1>8, <2>2 DEF SlotsFollow
  <1>10. SlotsFollow(b)'
    BY <1>2, <1>3, <1>5, <1>6, <1>9 DEF SlotsFollow
  <1>11. b \in 0..cur'
    BY <1>2, <1>3, <1>6
  <1>12. QED
    BY <1>3, <1>4, <1>7, <1>10, <1>11 DEF SlotFacts

\* As does the first one.
LEMMA SlotInit == ASSUME Init PROVE SlotFacts
  <1>1. /\ listeners_ = <<>> /\ currentOpen_ = FALSE /\ toBoard = <<>> /\ toHost = <<>> /\ event_queue = <<>>
        /\ mainLoop = "incoming" /\ fault = "none" /\ sequencer_open = 0 /\ queued = 0 /\ cur = 0 /\ availableSlots_ = [s \in Sessions |-> 0]
    BY DEF Init
  <1>2. SlotTypeOK /\ Listening /\ Bounded
    <2>1. \A T : <<>> \in Seq(T)
      OBVIOUS
    <2>2. 0 \in Nat /\ 0 \in 0..MaxSessions /\ [s \in Sessions |-> 0] \in [Sessions -> Nat]
      BY SlotConst
    <2>3. SlotTypeOK
      BY <1>1, <2>1, <2>2 DEF SlotTypeOK
    <2>4. Listening
      BY <1>1, <2>1 DEF Listening
    <2>5. QED
      BY <1>1, <2>3, <2>4 DEF Bounded
  <1>3. Unheard = 0
    <2>1. InFlight = <<>>
      BY <1>1 DEF InFlight
    <2>2. QED
      BY <2>1, NothingCounted DEF Unheard
  <1>4. OpensInOrder(0) /\ SlotsFollow(0)
    BY <1>1, <1>3, SlotConst DEF OpensInOrder, SlotsFollow
  <1>5. 0 \in 0..cur
    BY <1>1
  <1>6. QED
    BY <1>2, <1>4, <1>5 DEF SlotFacts

\* A step that changes nothing.
LEMMA SlotSame == ASSUME SlotFacts, UNCHANGED vars PROVE SlotFacts'
  <1>1. UNCHANGED <<cur, availableSlots_, listeners_, currentOpen_, toBoard, toHost, event_queue, sequencer_open, queued, mainLoop, fault>>
    BY DEF vars, hostVars, boardVars
  <1>2. InFlight' = InFlight /\ toHost' \in Seq(SlotEvents) /\ event_queue' \in Seq(SlotEvents) /\ (mainLoop' # "error" => fault' = "none")
    BY <1>1 DEF SlotFacts, SlotTypeOK, InFlight
  <1>3. QED
    BY <1>1, <1>2, QuietKeeps

\* The host: a command that is neither an open nor a push, or nothing at all.
LEMMA CommandKeeps ==
    ASSUME SlotFacts, NEW c \in {"manual_start", "manual_stop", "start", "pause", "stop", "close"}, cur # 0,
           toBoard' = toBoard \/ Send(c),
           UNCHANGED <<cur, availableSlots_, listeners_, currentOpen_, toHost, boardVars, mainLoop, fault>>
    PROVE  SlotFacts'
  <1> DEFINE d == <<c, cur>>
  <1>1. d \in Cmds /\ d[1] \notin {"open", "push"}
    BY SlotConst DEF SlotFacts, SlotTypeOK, Cmds
  <1>2. toBoard' = toBoard \/ toBoard' = Append(toBoard, d)
    BY DEF Send
  <1> HIDE DEF d
  <1>3. QED
    BY <1>1, <1>2, SendKeeps DEF boardVars

\* Every undisturbed step keeps the account of the slots.
LEMMA SlotsKept == ASSUME SlotFacts, Next, disturbed' = {} PROVE SlotFacts'
  <1> USE DEF Usable
  <1>1. CASE openSequencer
    BY <1>1, OpenKeeps
  <1>2. CASE push \/ \E s \in Sessions : pushWakes(s)
    <2>1. SlotTypeOK
      BY DEF SlotFacts
    <2>2. UNCHANGED <<cur, listeners_, currentOpen_, toHost, event_queue, sequencer_open, queued, mainLoop, fault>>
      BY <1>2 DEF push, pushWakes, boardVars
    <2>3. \/ UNCHANGED <<availableSlots_, toBoard>>
          \/ \E t \in Sessions : /\ availableSlots_[t] # 0 /\ toBoard' = Append(toBoard, <<"push", t>>)
                                 /\ availableSlots_' = [availableSlots_ EXCEPT ![t] = @ - 1]
      <3>1. CASE push
        <4>1. cur # 0 => cur \in Sessions
          BY <2>1, SlotConst DEF SlotTypeOK
        <4>2. QED
          BY <3>1, <4>1 DEF push, Send
      <3>2. CASE \E s \in Sessions : pushWakes(s)
        BY <3>2 DEF pushWakes
      <3>3. QED
        BY <1>2, <3>1, <3>2
    <2>4. CASE UNCHANGED <<availableSlots_, toBoard>>
      <3>1. InFlight' = InFlight /\ toHost' \in Seq(SlotEvents) /\ event_queue' \in Seq(SlotEvents) /\ (mainLoop' # "error" => fault' = "none")
        BY <2>1, <2>2 DEF SlotTypeOK, InFlight
      <3>2. QED
        BY <2>2, <2>4, <3>1, QuietKeeps
    <2>5. CASE \E t \in Sessions : /\ availableSlots_[t] # 0 /\ toBoard' = Append(toBoard, <<"push", t>>)
                                   /\ availableSlots_' = [availableSlots_ EXCEPT ![t] = @ - 1]
      BY <2>2, <2>5, PushKeeps
    <2>6. QED
      BY <2>3, <2>4, <2>5
  <1>3. CASE manualStart \/ manualStop \/ start \/ pause \/ stop \/ close
    <2>1. PICK c \in {"manual_start", "manual_stop", "start", "pause", "stop", "close"} : Send(c)
      BY <1>3 DEF manualStart, manualStop, start, pause, stop, close, Command
    <2>2. cur # 0 /\ UNCHANGED <<cur, availableSlots_, listeners_, currentOpen_, toHost, boardVars, mainLoop, fault>>
      BY <1>3 DEF manualStart, manualStop, start, pause, stop, close, Command
    <2>3. QED
      BY <2>1, <2>2, CommandKeeps
  <1>4. CASE \E s \in Sessions : closeReturns(s)
    <2>1. SlotTypeOK
      BY DEF SlotFacts
    <2>2. UNCHANGED <<cur, availableSlots_, listeners_, currentOpen_, toBoard, toHost, event_queue, sequencer_open, queued, mainLoop, fault>>
      BY <1>4 DEF closeReturns, boardVars
    <2>3. InFlight' = InFlight /\ toHost' \in Seq(SlotEvents) /\ event_queue' \in Seq(SlotEvents) /\ (mainLoop' # "error" => fault' = "none")
      BY <2>1, <2>2 DEF SlotTypeOK, InFlight
    <2>4. QED
      BY <2>2, <2>3, QuietKeeps
  <1>5. CASE handleSequencerEvent
    BY <1>5, EventKeeps
  <1>6. CASE MainLoop
    <2>1. CASE SequencerOpen
      BY <2>1, SequencerOpenKeeps
    <2>2. CASE SequencerPush
      BY <2>2, SequencerPushKeeps
    <2>3. CASE SequencerPushRestart
      BY <2>3, RestartKeeps
    <2>4. CASE SequencerStart
      BY <2>4, StartKeeps
    <2>5. CASE SequencerPause
      BY <2>5, PauseKeeps
    <2>6. CASE SequencerStop
      BY <2>6, StopKeeps
    <2>7. CASE \E n \in 0..MaxOcs : SequencerClose(n)
      BY <2>7, CloseKeeps
    <2>8. CASE SequencerManual("manual_start") \/ SequencerManual("manual_stop")
      BY <2>8, ManualKeeps
    <2>9. QED
      BY <1>6, <2>1, <2>2, <2>3, <2>4, <2>5, <2>6, <2>7, <2>8 DEF MainLoop
  <1>7. CASE SequencerTasks
    BY <1>7, TasksKeep
  <1>8. CASE T2Interrupt
    BY <1>8, TimerKeeps
  <1>9. CASE OCInterrupt
    BY <1>9, OCKeeps
  <1>10. CASE \E k \in 0 .. MaxOcs * MaxSessions : ConnectionLost(k)
    BY <1>10, LostKeeps
  <1>11. QED
    BY <1>1, <1>2, <1>3, <1>4, <1>5, <1>6, <1>7, <1>8, <1>9, <1>10 DEF Next, Application

\* The history of what broke the account only grows.
LEMMA DisturbedStays == ASSUME Next PROVE disturbed = {}
  BY DEF Next, Application, MainLoop, Undisturbed, openSequencer, push, manualStart, manualStop, start, pause, stop, close, Command,
         pushWakes, closeReturns, handleSequencerEvent, SequencerOpen, SequencerPush, SequencerPushRestart, SequencerStart,
         SequencerPause, SequencerStop, SequencerClose, SequencerManual, Handle, SequencerTasks, T2Interrupt, OCInterrupt, ConnectionLost

\* The account of the slots is an invariant of the sequencer.
LEMMA SlotInvariance == Spec => []SlotInv
  <1>1. Init => SlotInv
    BY SlotInit DEF SlotInv
  <1>2. SlotInv /\ [Next]_vars => SlotInv'
    <2>1. SUFFICES ASSUME SlotInv, [Next]_vars, disturbed' = {} PROVE SlotFacts'
      BY DEF SlotInv
    <2>2. CASE Next
      BY <2>1, <2>2, DisturbedStays, SlotsKept DEF SlotInv
    <2>3. CASE UNCHANGED vars
      <3>1. disturbed = {}
        BY <2>1, <2>3 DEF vars
      <3>2. QED
        BY <2>1, <2>3, <3>1, SlotSame DEF SlotInv
    <2>4. QED
      BY <2>1, <2>2, <2>3
  <1>3. QED
    BY <1>1, <1>2, PTL DEF Spec

\* For every application, careful or not, and whatever the lengths of the queues: while no
\* event was lost in event_queue and no earlier session's push came late, the slots that
\* the open session's SequencerImpl has or will hear of are free in the_sequence, the cues
\* on their way counted, so that SequencePush finds room for each of them.
THEOREM SlotsAreThere == Spec => []SlotBound
  <1>1. SlotInv => SlotBound
    <2>1. SUFFICES ASSUME SlotInv, NEW s \in Sessions, sequencer_open = s, disturbed = {}
                   PROVE  Promised(availableSlots_[s], toHost \o event_queue) + Pushes(s) + queued <= SeqLen
      BY DEF SlotBound
    <2>2. s # 0
      BY SlotConst
    <2>3. QED
      BY <2>1, <2>2 DEF SlotInv, SlotFacts, Bounded, InFlight
  <1>2. QED
    BY <1>1, SlotInvariance, PTL

-----------------------------------------------------------------------------
(* A careful application is never refused.                                 *)

\* The newest session may be used.
Live == cur # 0 /\ state_[cur] = "OPEN" /\ cur \notin closing

\* At most the newest session listens, and only while it is open; a push() that waits is
\* one of the newest session, or will never send.
HostCareful ==
    /\ state_ \in [Sessions -> {"NEW", "OPEN", "CLOSED", "DISCONNECTED"}]
    /\ remoteState_ \in [Sessions -> {"IDLE_OR_MANUAL", "STALLED", "CLOSED"}]
    /\ closing \subseteq 1..cur
    /\ listeners_ # <<>> => listeners_ = <<cur>> /\ cur # 0 /\ state_[cur] = "OPEN"
    /\ cur \in closing => remoteState_[cur] # "CLOSED" \/ listeners_ = <<>>
    /\ \A s \in blocked : s \in 1..cur /\ (state_[s] # "DISCONNECTED" => s = cur /\ Live)

\* The commands of a session stand between its "open" and its "close".
Bracketed ==
    /\ toBoard # <<>> => (toBoard[1][1] = "open" <=> sequencer_open = 0)
    /\ \A i \in DOMAIN toBoard : i + 1 \in DOMAIN toBoard => (toBoard[i][1] = "close" <=> toBoard[i + 1][1] = "open")
    /\ Live <=> IF toBoard = <<>> THEN sequencer_open # 0 ELSE toBoard[Len(toBoard)][1] # "close"

\* And carry its number: first those of the session that is open, last those of the newest.
NoOpen(i, j) == \A m \in DOMAIN toBoard : i <= m /\ m <= j => toBoard[m][1] # "open"
Numbered ==
    /\ \A i \in DOMAIN toBoard : NoOpen(1, i) => toBoard[i][2] = sequencer_open
    /\ \A i, j \in DOMAIN toBoard : toBoard[i][1] = "open" /\ i <= j /\ NoOpen(i + 1, j) => toBoard[j][2] = toBoard[i][2]
    /\ Live => /\ NoOpen(1, Len(toBoard)) => sequencer_open = cur
               /\ \A i \in DOMAIN toBoard : toBoard[i][1] = "open" /\ NoOpen(i + 1, Len(toBoard)) => toBoard[i][2] = cur

Harmless == {"open", "push", "manual_start", "manual_stop"}
NeedIdle == {"start", "manual_start", "manual_stop"}
BoardIdle == ~sequencer_running /\ ~sequencer_should_run

\* A command that needs an idle sequencer finds one.
IdleWhenNeeded ==
    /\ \A i \in DOMAIN toBoard : toBoard[i][1] \in NeedIdle =>
           /\ \A j \in DOMAIN toBoard : j < i /\ toBoard[j][2] = toBoard[i][2] => toBoard[j][1] \in Harmless
           /\ toBoard[i][2] = sequencer_open => BoardIdle
    /\ Live /\ awaiting = "none" /\ localState_ # "RUNNING" =>
           /\ \A j \in DOMAIN toBoard : toBoard[j][2] = cur => toBoard[j][1] \in Harmless
           /\ sequencer_open = cur => BoardIdle

\* What the application waits for, while its command is on its way.
AnswerAsked ==
    Live => \A i \in DOMAIN toBoard : toBoard[i][2] = cur =>
        /\ toBoard[i][1] = "stop" => awaiting = "stop" /\ \A j \in DOMAIN toBoard : j > i => toBoard[j][1] = "push"
        /\ toBoard[i][1] = "pause" => /\ awaiting # "none"
                                      /\ awaiting = "pause" => \A j \in DOMAIN toBoard : j > i => toBoard[j][1] = "push"

OnlyPushes == \A j \in DOMAIN toBoard : toBoard[j][1] = "push"

\* The k-th of the events f in flight belongs to the session that is open last.
Recent(f, k) == \A j \in DOMAIN f : j > k => f[j][1] # "opened"

\* And while the answer is on its way.
AnswerComing(f) ==
    Live /\ sequencer_open = cur =>
        /\ \A k \in DOMAIN f : f[k][1] = "stopped" /\ Recent(f, k) =>
               /\ awaiting = "stop" /\ OnlyPushes /\ BoardIdle
               /\ \A m \in DOMAIN f : m > k => f[m][1] \notin {"stopped", "paused"}
        /\ \A k \in DOMAIN f : f[k][1] = "paused" /\ Recent(f, k) =>
               /\ awaiting # "none" /\ BoardIdle
               /\ awaiting = "pause" => OnlyPushes /\ \A m \in DOMAIN f : m > k => f[m][1] # "paused"
        /\ sequencer_running /\ ~sequencer_should_run => awaiting # "none" /\ (awaiting = "pause" => OnlyPushes)
        /\ awaiting = "pause" /\ (\E i \in DOMAIN toBoard : toBoard[i][1] = "pause") =>
               /\ ~(sequencer_running /\ ~sequencer_should_run)
               /\ \A k \in DOMAIN f : Recent(f, k) => f[k][1] # "paused"
        /\ (\E i \in DOMAIN toBoard : toBoard[i][1] \in NeedIdle) =>
               \A k \in DOMAIN f : Recent(f, k) => f[k][1] \notin {"stopped", "paused"}

CarefulFacts == /\ fault = "none" /\ mainLoop # "error" /\ awaiting \in {"none", "pause", "stop"}
                /\ HostCareful /\ Bracketed /\ Numbered /\ IdleWhenNeeded /\ AnswerAsked /\ AnswerComing(InFlight)
CarefulInv == disturbed = {} => CarefulFacts

\* The indices of a sequence with one element more.
LEMMA Appended ==
    ASSUME NEW T, NEW q \in Seq(T), NEW c \in T, NEW r, r = Append(q, c)
    PROVE  /\ Len(q) \in Nat /\ DOMAIN q = 1..Len(q) /\ DOMAIN r = 1..Len(q) + 1 /\ Len(r) = Len(q) + 1 /\ r # <<>>
           /\ r[Len(q) + 1] = c /\ (\A i \in 1..Len(q) : r[i] = q[i]) /\ (q = <<>> <=> Len(q) = 0)
  OBVIOUS

\* The indices of a sequence without its first element.
LEMMA Taken ==
    ASSUME NEW T, NEW q \in Seq(T), q # <<>>, NEW r, r = Tail(q)
    PROVE  /\ Len(q) \in Nat /\ Len(q) > 0 /\ DOMAIN q = 1..Len(q) /\ DOMAIN r = 1..Len(q) - 1 /\ Len(r) = Len(q) - 1
           /\ Head(q) = q[1] /\ (\A i \in 1..Len(q) - 1 : r[i] = q[i + 1]) /\ (r = <<>> <=> Len(q) = 1)
  <1>1. /\ Len(q) \in Nat /\ Len(q) > 0 /\ DOMAIN q = 1..Len(q) /\ DOMAIN r = 1..Len(q) - 1 /\ Len(r) = Len(q) - 1
        /\ Head(q) = q[1] /\ \A i \in 1..Len(q) - 1 : r[i] = q[i + 1]
    OBVIOUS
  <1>2. r \in Seq(T)
    OBVIOUS
  <1>3. r = <<>> <=> Len(r) = 0
    BY <1>2, EmptySeq
  <1>4. QED
    BY <1>1, <1>3

\* The application sends a command other than "open".
LEMMA SendBracketed ==
    ASSUME SlotTypeOK, Bracketed, Numbered, Live, NEW c \in {"push", "manual_start", "manual_stop", "start", "pause", "stop", "close"},
           toBoard' = Append(toBoard, <<c, cur>>), UNCHANGED <<cur, sequencer_open>>, Live' <=> c # "close"
    PROVE  Bracketed' /\ Numbered'
  <1> DEFINE d == <<c, cur>>
  <1>n. PICK n : n = Len(toBoard)
    OBVIOUS
  <1>1. d \in Cmds /\ d[1] = c /\ d[2] = cur /\ c # "open" /\ toBoard \in Seq(Cmds)
    BY SlotConst DEF SlotTypeOK, Cmds, Live
  <1> HIDE DEF d
  <1>2. /\ n \in Nat /\ DOMAIN toBoard = 1..n /\ DOMAIN toBoard' = 1..n + 1 /\ Len(toBoard') = n + 1 /\ toBoard' # <<>>
        /\ toBoard'[n + 1] = d /\ (\A i \in 1..n : toBoard'[i] = toBoard[i]) /\ (toBoard = <<>> <=> n = 0)
    BY <1>1, <1>n, Appended DEF d
  <1>3. Bracketed'
    <2>1. toBoard'[1][1] = "open" <=> sequencer_open' = 0
      <3>1. CASE n = 0
        BY <1>1, <1>2, <3>1 DEF Bracketed
      <3>2. CASE n # 0
        BY <1>2, <3>2 DEF Bracketed
      <3>3. QED
        BY <3>1, <3>2
    <2>2. ASSUME NEW i \in DOMAIN toBoard', i + 1 \in DOMAIN toBoard' PROVE toBoard'[i][1] = "close" <=> toBoard'[i + 1][1] = "open"
      <3>1. CASE i = n
        <4>1. toBoard[n][1] # "close" /\ toBoard'[i] = toBoard[n] /\ toBoard'[i + 1] = d
          BY <1>2, <2>2, <3>1, <1>n DEF Bracketed
        <4>2. QED
          BY <1>1, <4>1
      <3>2. CASE i # n
        <4>1. i \in 1..n /\ i + 1 \in 1..n
          BY <1>2, <2>2, <3>2
        <4>2. QED
          BY <1>2, <4>1 DEF Bracketed
      <3>3. QED
        BY <3>1, <3>2
    <2>3. Live' <=> toBoard'[Len(toBoard')][1] # "close"
      BY <1>1, <1>2
    <2>4. QED
      BY <1>2, <2>1, <2>2, <2>3 DEF Bracketed
  <1>4. \A i, j \in Int : NoOpen(i, j)' => NoOpen(i, j)
    BY <1>2 DEF NoOpen
  <1>5. Numbered'
    <2>1. ASSUME NEW i \in DOMAIN toBoard', NoOpen(1, i)' PROVE toBoard'[i][2] = sequencer_open'
      <3>1. CASE i = n + 1
        <4>1. NoOpen(1, n)
          BY <1>2, <2>1, <3>1 DEF NoOpen
        <4>2. QED
          BY <1>1, <1>2, <3>1, <4>1, <1>n DEF Numbered
      <3>2. CASE i # n + 1
        BY <1>2, <1>4, <2>1, <3>2 DEF Numbered
      <3>3. QED
        BY <3>1, <3>2
    <2>2. ASSUME NEW i \in DOMAIN toBoard', NEW j \in DOMAIN toBoard', toBoard'[i][1] = "open", i <= j, NoOpen(i + 1, j)'
          PROVE  toBoard'[j][2] = toBoard'[i][2]
      <3>1. i \in 1..n /\ toBoard'[i] = toBoard[i]
        BY <1>1, <1>2, <2>2
      <3>2. CASE j = n + 1
        <4>1. NoOpen(i + 1, n)
          BY <1>2, <2>2, <3>2 DEF NoOpen
        <4>2. QED
          BY <1>1, <1>2, <2>2, <3>1, <3>2, <4>1, <1>n DEF Numbered
      <3>3. CASE j # n + 1
        <4>1. j \in 1..n /\ toBoard'[j] = toBoard[j] /\ NoOpen(i + 1, j)
          BY <1>2, <1>4, <2>2, <3>1, <3>3
        <4>2. QED
          BY <1>2, <2>2, <3>1, <4>1 DEF Numbered
      <3>4. QED
        BY <3>2, <3>3
    <2>3. NoOpen(1, Len(toBoard))' => sequencer_open' = cur'
      <3>1. NoOpen(1, n + 1)' => NoOpen(1, n)
        BY <1>2 DEF NoOpen
      <3>2. QED
        BY <1>2, <3>1, <1>n DEF Numbered
    <2>4. ASSUME NEW i \in DOMAIN toBoard', toBoard'[i][1] = "open", NoOpen(i + 1, Len(toBoard))' PROVE toBoard'[i][2] = cur'
      <3>1. i \in 1..n /\ toBoard'[i] = toBoard[i]
        BY <1>1, <1>2, <2>4
      <3>2. NoOpen(i + 1, n)
        BY <1>2, <2>4, <3>1 DEF NoOpen
      <3>3. QED
        BY <1>2, <2>4, <3>1, <3>2, <1>n DEF Numbered
    <2>5. QED
      BY <2>1, <2>2, <2>3, <2>4 DEF Numbered
  <1>6. QED
    BY <1>3, <1>5

\* The board takes a command that it accepts.
LEMMA TakeBracketed ==
    ASSUME SlotTypeOK, Bracketed, Numbered, toBoard # <<>>, toBoard' = Tail(toBoard), cur' = cur, Live' <=> Live,
           sequencer_open' = IF Head(toBoard)[1] = "open" THEN Head(toBoard)[2]
                             ELSE IF Head(toBoard)[1] = "close" THEN 0 ELSE sequencer_open
    PROVE  Bracketed' /\ Numbered'
  <1>n. PICK n : n = Len(toBoard)
    OBVIOUS
  <1>1. toBoard \in Seq(Cmds)
    BY DEF SlotTypeOK
  <1>2. /\ n \in Nat /\ n > 0 /\ DOMAIN toBoard = 1..n /\ DOMAIN toBoard' = 1..n - 1 /\ Len(toBoard') = n - 1
        /\ Head(toBoard) = toBoard[1] /\ (\A i \in 1..n - 1 : toBoard'[i] = toBoard[i + 1]) /\ (toBoard' = <<>> <=> n = 1)
    BY <1>1, <1>n, Taken
  <1>3. toBoard[1][2] # 0
    <2>1. toBoard[1] \in Cmds
      BY <1>1, <1>2
    <2>2. QED
      BY <2>1, SlotConst DEF Cmds
  <1>4. /\ toBoard[1][1] = "open" <=> sequencer_open = 0
        /\ \A i \in 1..n : i + 1 \in 1..n => (toBoard[i][1] = "close" <=> toBoard[i + 1][1] = "open")
        /\ Live <=> toBoard[n][1] # "close"
    BY <1>2, <1>n DEF Bracketed
  <1>5. Bracketed'
    <2>1. ASSUME n # 1 PROVE toBoard'[1][1] = "open" <=> sequencer_open' = 0
      <3>1. 1 \in 1..n /\ 2 \in 1..n /\ toBoard'[1] = toBoard[2] /\ 1 + 1 = 2
        BY <1>2, <2>1
      <3>2. toBoard[1][1] = "close" <=> toBoard[2][1] = "open"
        BY <1>4, <3>1
      <3>3. QED
        BY <1>2, <1>3, <1>4, <3>1, <3>2
    <2>2. ASSUME NEW i \in DOMAIN toBoard', i + 1 \in DOMAIN toBoard' PROVE toBoard'[i][1] = "close" <=> toBoard'[i + 1][1] = "open"
      <3>1. i + 1 \in 1..n /\ (i + 1) + 1 \in 1..n /\ toBoard'[i] = toBoard[i + 1] /\ toBoard'[i + 1] = toBoard[(i + 1) + 1]
        BY <1>2, <2>2
      <3>2. QED
        BY <1>4, <3>1
    <2>3. CASE n = 1
      <3>1. toBoard' = <<>> /\ (Live' <=> sequencer_open' # 0)
        BY <1>2, <1>3, <1>4, <2>3
      <3>2. QED
        BY <2>2, <3>1 DEF Bracketed
    <2>4. CASE n # 1
      <3>1. toBoard' # <<>> /\ toBoard'[n - 1] = toBoard[(n - 1) + 1] /\ (n - 1) + 1 = n
        BY <1>2, <2>4
      <3>2. Live' <=> toBoard'[Len(toBoard')][1] # "close"
        BY <1>2, <1>4, <3>1
      <3>3. QED
        BY <2>1, <2>2, <2>4, <3>1, <3>2 DEF Bracketed
    <2>5. QED
      BY <2>3, <2>4
  <1>6. \A i, j \in Int : i >= 1 /\ NoOpen(i, j)' => NoOpen(i + 1, j + 1)
    <2>1. SUFFICES ASSUME NEW i \in Int, NEW j \in Int, i >= 1, NoOpen(i, j)', NEW m \in DOMAIN toBoard, i + 1 <= m, m <= j + 1
                   PROVE  toBoard[m][1] # "open"
      BY DEF NoOpen
    <2>2. m - 1 \in DOMAIN toBoard' /\ i <= m - 1 /\ m - 1 <= j /\ toBoard'[m - 1] = toBoard[m]
      <3>1. m \in Int /\ m - 1 \in 1..n - 1 /\ (m - 1) + 1 = m
        BY <1>2, <2>1
      <3>2. QED
        BY <1>2, <2>1, <3>1
    <2>3. QED
      BY <2>1, <2>2 DEF NoOpen
  <1>7. Numbered'
    <2>1. ASSUME NEW i \in DOMAIN toBoard', NoOpen(1, i)' PROVE toBoard'[i][2] = sequencer_open'
      <3>1. i \in Int /\ i + 1 \in 1..n /\ toBoard'[i] = toBoard[i + 1] /\ 1 \in 1..n /\ 1 <= i + 1 /\ NoOpen(2, i + 1)
        BY <1>2, <1>6, <2>1
      <3>2. CASE toBoard[1][1] = "open"
        <4>1. toBoard[i + 1][2] = toBoard[1][2]
          BY <1>2, <3>1, <3>2 DEF Numbered
        <4>2. QED
          BY <1>2, <3>1, <3>2, <4>1
      <3>3. CASE toBoard[1][1] # "open"
        <4>1. NoOpen(1, i + 1)
          BY <1>2, <3>1, <3>3 DEF NoOpen
        <4>2. toBoard[i + 1][2] = sequencer_open
          BY <1>2, <3>1, <4>1 DEF Numbered
        <4>3. toBoard[1][1] # "close"
          <5>1. 2 \in 1..n /\ 1 + 1 = 2 /\ 2 <= i + 1
            BY <1>2, <2>1
          <5>2. toBoard[2][1] # "open"
            BY <1>2, <3>1, <5>1 DEF NoOpen
          <5>3. QED
            BY <1>4, <3>1, <5>1, <5>2
        <4>4. QED
          BY <1>2, <3>1, <3>3, <4>2, <4>3
      <3>4. QED
        BY <3>2, <3>3
    <2>2. ASSUME NEW i \in DOMAIN toBoard', NEW j \in DOMAIN toBoard', toBoard'[i][1] = "open", i <= j, NoOpen(i + 1, j)'
          PROVE  toBoard'[j][2] = toBoard'[i][2]
      <3>1. i + 1 \in 1..n /\ toBoard'[i] = toBoard[i + 1] /\ j + 1 \in 1..n /\ toBoard'[j] = toBoard[j + 1] /\ i + 1 <= j + 1 /\ NoOpen((i + 1) + 1, j + 1)
        BY <1>2, <1>6, <2>2
      <3>2. QED
        BY <1>2, <2>2, <3>1 DEF Numbered
    <2>3. ASSUME Live, NoOpen(1, Len(toBoard))' PROVE sequencer_open' = cur'
      <3>1. NoOpen(2, n)
        <4>1. NoOpen(1, n - 1)'
          BY <1>2, <2>3
        <4>2. QED
          BY <1>2, <1>6, <4>1
      <3>2. CASE toBoard[1][1] = "open"
        <4>1. NoOpen(1 + 1, Len(toBoard)) /\ 1 \in DOMAIN toBoard
          BY <1>2, <1>n, <3>1
        <4>2. toBoard[1][2] = cur
          BY <2>3, <3>2, <4>1 DEF Numbered
        <4>3. QED
          BY <1>2, <3>2, <4>2
      <3>3. CASE toBoard[1][1] # "open"
        <4>1. NoOpen(1, n)
          BY <1>2, <3>1, <3>3 DEF NoOpen
        <4>2. sequencer_open = cur
          BY <1>n, <2>3, <4>1 DEF Numbered
        <4>3. toBoard[1][1] # "close"
          <5>1. CASE n = 1
            BY <1>4, <2>3, <5>1
          <5>2. CASE n # 1
            <6>1. 1 \in 1..n /\ 2 \in 1..n /\ 1 + 1 = 2
              BY <1>2, <5>2
            <6>2. toBoard[2][1] # "open"
              BY <1>2, <3>1, <6>1 DEF NoOpen
            <6>3. QED
              BY <1>4, <6>1, <6>2
          <5>3. QED
            BY <5>1, <5>2
        <4>4. QED
          BY <1>2, <3>3, <4>2, <4>3
      <3>4. QED
        BY <3>2, <3>3
    <2>4. ASSUME Live, NEW i \in DOMAIN toBoard', toBoard'[i][1] = "open", NoOpen(i + 1, Len(toBoard))' PROVE toBoard'[i][2] = cur'
      <3>1. NoOpen(i + 1, n - 1)' /\ i \in Int /\ i >= 1
        BY <1>2, <2>4
      <3>2. i + 1 \in 1..n /\ toBoard'[i] = toBoard[i + 1] /\ NoOpen((i + 1) + 1, (n - 1) + 1) /\ (n - 1) + 1 = n
        BY <1>2, <1>6, <3>1
      <3>3. QED
        BY <1>2, <1>n, <2>4, <3>2 DEF Numbered
    <2>5. QED
      BY <2>1, <2>2, <2>3, <2>4 DEF Numbered
  <1>8. QED
    BY <1>5, <1>7

\* A new session: nothing is open, or its "close" comes first.
LEMMA OpenBracketed ==
    ASSUME SlotTypeOK, Bracketed, Numbered, ~Live, cur < MaxSessions, cur' = cur + 1,
           toBoard' = Append(toBoard, <<"open", cur + 1>>), sequencer_open' = sequencer_open, Live'
    PROVE  Bracketed' /\ Numbered'
  <1>n. PICK n : n = Len(toBoard)
    OBVIOUS
  <1> DEFINE d == <<"open", cur + 1>>
  <1>1. d \in Cmds /\ d[1] = "open" /\ d[2] = cur + 1 /\ toBoard \in Seq(Cmds)
    BY SlotConst DEF SlotTypeOK, Cmds
  <1> HIDE DEF d
  <1>2. /\ n \in Nat /\ DOMAIN toBoard = 1..n /\ DOMAIN toBoard' = 1..n + 1 /\ Len(toBoard') = n + 1 /\ toBoard' # <<>>
        /\ toBoard'[n + 1] = d /\ (\A i \in 1..n : toBoard'[i] = toBoard[i]) /\ (toBoard = <<>> <=> n = 0)
    BY <1>1, <1>n, Appended DEF d
  <1>3. Bracketed'
    <2>1. toBoard'[1][1] = "open" <=> sequencer_open' = 0
      <3>1. CASE n = 0
        BY <1>1, <1>2, <3>1 DEF Bracketed
      <3>2. CASE n # 0
        BY <1>2, <3>2 DEF Bracketed
      <3>3. QED
        BY <3>1, <3>2
    <2>2. ASSUME NEW i \in DOMAIN toBoard', i + 1 \in DOMAIN toBoard' PROVE toBoard'[i][1] = "close" <=> toBoard'[i + 1][1] = "open"
      <3>1. CASE i = n
        <4>1. toBoard[n][1] = "close" /\ toBoard'[i] = toBoard[n] /\ toBoard'[i + 1] = d
          BY <1>2, <1>n, <2>2, <3>1 DEF Bracketed
        <4>2. QED
          BY <1>1, <4>1
      <3>2. CASE i # n
        <4>1. i \in 1..n /\ i + 1 \in 1..n
          BY <1>2, <2>2, <3>2
        <4>2. QED
          BY <1>2, <4>1 DEF Bracketed
      <3>3. QED
        BY <3>1, <3>2
    <2>3. Live' <=> toBoard'[Len(toBoard')][1] # "close"
      BY <1>1, <1>2
    <2>4. QED
      BY <1>2, <2>1, <2>2, <2>3 DEF Bracketed
  <1>4. \A i, j \in Int : NoOpen(i, j)' => NoOpen(i, j)
    BY <1>2 DEF NoOpen
  <1>5. Numbered'
    <2>1. ASSUME NEW i \in DOMAIN toBoard', NoOpen(1, i)' PROVE toBoard'[i][2] = sequencer_open'
      <3>1. i # n + 1
        BY <1>1, <1>2, <2>1 DEF NoOpen
      <3>2. QED
        BY <1>2, <1>4, <2>1, <3>1 DEF Numbered
    <2>2. ASSUME NEW i \in DOMAIN toBoard', NEW j \in DOMAIN toBoard', toBoard'[i][1] = "open", i <= j, NoOpen(i + 1, j)'
          PROVE  toBoard'[j][2] = toBoard'[i][2]
      <3>1. CASE j = n + 1
        <4>1. i = n + 1
          BY <1>1, <1>2, <2>2, <3>1 DEF NoOpen
        <4>2. QED
          BY <3>1, <4>1
      <3>2. CASE j # n + 1
        <4>1. i \in 1..n /\ toBoard'[i] = toBoard[i] /\ j \in 1..n /\ toBoard'[j] = toBoard[j] /\ NoOpen(i + 1, j)
          BY <1>2, <1>4, <2>2, <3>2
        <4>2. QED
          BY <1>2, <2>2, <4>1 DEF Numbered
      <3>3. QED
        BY <3>1, <3>2
    <2>3. ~NoOpen(1, Len(toBoard))'
      <3>1. ~NoOpen(1, n + 1)'
        BY <1>1, <1>2 DEF NoOpen
      <3>2. QED
        BY <1>2, <3>1
    <2>4. ASSUME NEW i \in DOMAIN toBoard', toBoard'[i][1] = "open", NoOpen(i + 1, Len(toBoard))' PROVE toBoard'[i][2] = cur'
      <3>1. NoOpen(i + 1, n + 1)'
        BY <1>2, <2>4
      <3>2. i = n + 1
        BY <1>1, <1>2, <3>1 DEF NoOpen
      <3>3. QED
        BY <1>1, <1>2, <3>2
    <2>5. QED
      BY <2>1, <2>2, <2>3, <2>4 DEF Numbered
  <1>6. QED
    BY <1>3, <1>5

\* While the newest session is open on the board, all commands are its own.
LEMMA AllMine ==
    ASSUME SlotFacts, Numbered, sequencer_open = cur, cur # 0
    PROVE  \A i \in DOMAIN toBoard : toBoard[i][1] # "open" /\ toBoard[i][2] = cur
  <1>1. PICK b \in 0..cur : OpensInOrder(b) /\ SlotsFollow(b)
    BY DEF SlotFacts
  <1>2. b = cur /\ cur \in Nat
    BY <1>1, SlotConst DEF SlotsFollow, SlotFacts, SlotTypeOK
  <1>3. \A i \in DOMAIN toBoard : toBoard[i][1] # "open"
    BY <1>1, <1>2 DEF OpensInOrder
  <1>4. QED
    BY <1>3 DEF Numbered, NoOpen

\* An event that reaches a listener of a careful application is one of the newest session.
LEMMA HeardIsMine ==
    ASSUME SlotFacts, HostCareful, Bracketed, currentOpen_
    PROVE  Unheard = 0 /\ listeners_ = <<cur>> /\ cur # 0 /\ (Live => sequencer_open = cur)
  <1>1. PICK b \in 0..cur : OpensInOrder(b) /\ SlotsFollow(b)
    BY DEF SlotFacts
  <1>2. SlotTypeOK /\ cur \in Nat /\ b \in Nat /\ b <= cur /\ toBoard \in Seq(Cmds)
    BY <1>1, SlotConst DEF SlotFacts, SlotTypeOK
  <1>3. Unheard \in Nat
    BY <1>2, FlightType
  <1>4. Unheard + (cur - b) + 1 <= Len(listeners_)
    BY <1>1 DEF SlotsFollow
  <1>5. listeners_ = <<cur>> /\ cur # 0 /\ Len(listeners_) = 1
    <2>1. listeners_ # <<>>
      BY <1>2, <1>3, <1>4
    <2>2. QED
      BY <2>1 DEF HostCareful
  <1>6. Unheard = 0 /\ b = cur
    BY <1>2, <1>3, <1>4, <1>5
  <1>7. ASSUME Live PROVE sequencer_open # 0
    <2>1. CASE toBoard = <<>>
      BY <1>7, <2>1 DEF Bracketed
    <2>2. CASE toBoard # <<>>
      <3>1. 1 \in DOMAIN toBoard
        BY <1>2, <2>2
      <3>2. toBoard[1][1] # "open"
        BY <1>1, <1>2, <1>6, <3>1 DEF OpensInOrder
      <3>3. QED
        BY <2>2, <3>2 DEF Bracketed
    <2>3. QED
      BY <2>1, <2>2
  <1>8. QED
    BY <1>1, <1>5, <1>6, <1>7 DEF SlotsFollow

\* What a careful application sends, and what it then waits for.
SendRule(c) ==
    \/ c = "push" /\ awaiting' = awaiting
    \/ c = "stop" /\ awaiting' = "stop" /\ awaiting # "stop"
    \/ c = "pause" /\ awaiting' = "pause" /\ awaiting = "none"
    \/ c \in NeedIdle /\ awaiting' = "none" /\ awaiting = "none" /\ localState_ # "RUNNING"
    \/ c = "close" /\ ~Live'

\* A command of a careful application that needs an idle sequencer will find one.
LEMMA SendIdle ==
    ASSUME SlotTypeOK, IdleWhenNeeded, Live, NEW c, <<c, cur>> \in Cmds, toBoard' = Append(toBoard, <<c, cur>>), SendRule(c),
           UNCHANGED <<cur, sequencer_open, sequencer_running, sequencer_should_run>>,
           c \in {"push", "manual_start", "manual_stop"} => localState_ # "RUNNING" \/ localState_' = "RUNNING",
           c = "start" => localState_' = "RUNNING"
    PROVE  IdleWhenNeeded'
  <1>n. PICK n : n = Len(toBoard)
    OBVIOUS
  <1> DEFINE d == <<c, cur>>
  <1>1. d \in Cmds /\ d[1] = c /\ d[2] = cur /\ toBoard \in Seq(Cmds)
    BY DEF SlotTypeOK
  <1> HIDE DEF d
  <1>2. /\ n \in Nat /\ DOMAIN toBoard = 1..n /\ DOMAIN toBoard' = 1..n + 1
        /\ toBoard'[n + 1] = d /\ (\A i \in 1..n : toBoard'[i] = toBoard[i])
    BY <1>1, <1>n, Appended DEF d
  <1>3. BoardIdle' <=> BoardIdle
    BY DEF BoardIdle
  <1>4. c \in NeedIdle => awaiting = "none" /\ localState_ # "RUNNING"
    BY DEF SendRule, NeedIdle
  <1>5. ASSUME NEW i \in DOMAIN toBoard', toBoard'[i][1] \in NeedIdle
        PROVE  /\ \A j \in DOMAIN toBoard' : j < i /\ toBoard'[j][2] = toBoard'[i][2] => toBoard'[j][1] \in Harmless
               /\ toBoard'[i][2] = sequencer_open' => BoardIdle'
    <2>1. CASE i = n + 1
      <3>1. (\A j \in DOMAIN toBoard : toBoard[j][2] = cur => toBoard[j][1] \in Harmless) /\ (sequencer_open = cur => BoardIdle)
        BY <1>1, <1>2, <1>4, <1>5, <2>1 DEF IdleWhenNeeded
      <3>2. QED
        BY <1>1, <1>2, <1>3, <2>1, <3>1
    <2>2. CASE i # n + 1
      <3>1. i \in 1..n /\ toBoard'[i] = toBoard[i]
        BY <1>2, <2>2
      <3>2. /\ \A j \in DOMAIN toBoard : j < i /\ toBoard[j][2] = toBoard[i][2] => toBoard[j][1] \in Harmless
            /\ toBoard[i][2] = sequencer_open => BoardIdle
        BY <1>2, <1>5, <3>1 DEF IdleWhenNeeded
      <3>3. QED
        BY <1>2, <1>3, <3>1, <3>2
    <2>3. QED
      BY <2>1, <2>2
  <1>6. ASSUME Live', awaiting' = "none", localState_' # "RUNNING"
        PROVE  /\ \A j \in DOMAIN toBoard' : toBoard'[j][2] = cur' => toBoard'[j][1] \in Harmless
               /\ sequencer_open' = cur' => BoardIdle'
    <2>1. c \in Harmless /\ awaiting = "none" /\ localState_ # "RUNNING"
      BY <1>6 DEF SendRule, NeedIdle, Harmless
    <2>2. (\A j \in DOMAIN toBoard : toBoard[j][2] = cur => toBoard[j][1] \in Harmless) /\ (sequencer_open = cur => BoardIdle)
      BY <2>1 DEF IdleWhenNeeded
    <2>3. QED
      BY <1>1, <1>2, <1>3, <2>1, <2>2
  <1>7. QED
    BY <1>5, <1>6 DEF IdleWhenNeeded

\* A pause or a stop that is sent is waited for.
LEMMA SendAsked ==
    ASSUME SlotTypeOK, AnswerAsked, Live, NEW c, <<c, cur>> \in Cmds, toBoard' = Append(toBoard, <<c, cur>>), SendRule(c), cur' = cur
    PROVE  AnswerAsked'
  <1>n. PICK n : n = Len(toBoard)
    OBVIOUS
  <1> DEFINE d == <<c, cur>>
  <1>1. d \in Cmds /\ d[1] = c /\ d[2] = cur /\ toBoard \in Seq(Cmds)
    BY DEF SlotTypeOK
  <1> HIDE DEF d
  <1>2. /\ n \in Nat /\ DOMAIN toBoard = 1..n /\ DOMAIN toBoard' = 1..n + 1
        /\ toBoard'[n + 1] = d /\ (\A i \in 1..n : toBoard'[i] = toBoard[i])
    BY <1>1, <1>n, Appended DEF d
  <1>3. SUFFICES ASSUME Live', NEW i \in DOMAIN toBoard', toBoard'[i][2] = cur
                 PROVE  /\ toBoard'[i][1] = "stop" => awaiting' = "stop" /\ \A j \in DOMAIN toBoard' : j > i => toBoard'[j][1] = "push"
                        /\ toBoard'[i][1] = "pause" => /\ awaiting' # "none"
                                                       /\ awaiting' = "pause" => \A j \in DOMAIN toBoard' : j > i => toBoard'[j][1] = "push"
    BY DEF AnswerAsked
  <1>4. CASE i = n + 1
    BY <1>1, <1>2, <1>4 DEF SendRule, NeedIdle
  <1>5. CASE i # n + 1
    <2>1. i \in 1..n /\ toBoard'[i] = toBoard[i]
      BY <1>2, <1>5
    <2>2. /\ toBoard[i][1] = "stop" => awaiting = "stop" /\ \A j \in DOMAIN toBoard : j > i => toBoard[j][1] = "push"
          /\ toBoard[i][1] = "pause" => /\ awaiting # "none"
                                        /\ awaiting = "pause" => \A j \in DOMAIN toBoard : j > i => toBoard[j][1] = "push"
      BY <1>2, <1>3, <2>1 DEF AnswerAsked
    <2>3. CASE c = "push" /\ awaiting' = awaiting
      BY <1>1, <1>2, <2>1, <2>2, <2>3
    <2>4. CASE ~(c = "push" /\ awaiting' = awaiting)
      BY <1>2, <1>3, <2>1, <2>2, <2>4 DEF SendRule
    <2>5. QED
      BY <2>3, <2>4
  <1>6. QED
    BY <1>4, <1>5

\* A command of a careful application disturbs no answer on its way.
LEMMA SendComing ==
    ASSUME SlotTypeOK, NEW f, AnswerComing(f), Live, NEW c, <<c, cur>> \in Cmds, toBoard' = Append(toBoard, <<c, cur>>), SendRule(c),
           UNCHANGED <<cur, sequencer_open, sequencer_running, sequencer_should_run>>
    PROVE  AnswerComing(f)'
  <1>n. PICK n : n = Len(toBoard)
    OBVIOUS
  <1> DEFINE d == <<c, cur>>
  <1>1. d \in Cmds /\ d[1] = c /\ d[2] = cur /\ toBoard \in Seq(Cmds)
    BY DEF SlotTypeOK
  <1> HIDE DEF d
  <1>2. /\ n \in Nat /\ DOMAIN toBoard = 1..n /\ DOMAIN toBoard' = 1..n + 1
        /\ toBoard'[n + 1] = d /\ (\A i \in 1..n : toBoard'[i] = toBoard[i])
    BY <1>1, <1>n, Appended DEF d
  <1>3. (BoardIdle' <=> BoardIdle) /\ (OnlyPushes' <=> OnlyPushes /\ c = "push")
    BY <1>1, <1>2 DEF BoardIdle, OnlyPushes
  <1>4. SUFFICES ASSUME Live', sequencer_open = cur PROVE AnswerComing(f)'
    BY DEF AnswerComing
  <1>5. CASE c = "push" /\ awaiting' = awaiting
    <2>1. \A i \in DOMAIN toBoard' : toBoard'[i][1] # "push" => i \in DOMAIN toBoard /\ toBoard'[i] = toBoard[i]
      BY <1>1, <1>2, <1>5
    <2>2. QED
      BY <1>3, <1>4, <1>5, <2>1 DEF AnswerComing, Recent, NeedIdle
  <1>6. CASE c = "stop" /\ awaiting' = "stop" /\ awaiting # "stop"
    <2>1. \A i \in DOMAIN toBoard' : toBoard'[i][1] # "stop" => i \in DOMAIN toBoard /\ toBoard'[i] = toBoard[i]
      BY <1>1, <1>2, <1>6
    <2>2. QED
      BY <1>3, <1>4, <1>6, <2>1 DEF AnswerComing, Recent, NeedIdle
  <1>7. CASE c = "pause" /\ awaiting' = "pause" /\ awaiting = "none"
    BY <1>3, <1>4, <1>7 DEF AnswerComing, Recent, NeedIdle
  <1>8. CASE c \in NeedIdle /\ awaiting' = "none" /\ awaiting = "none"
    BY <1>3, <1>4, <1>8 DEF AnswerComing, Recent
  <1>9. QED
    BY <1>4, <1>5, <1>6, <1>7, <1>8 DEF SendRule

HostSame == UNCHANGED <<cur, awaiting, localState_>> /\ (Live' <=> Live)

\* A command leaves the connection.
LEMMA TakeFacts ==
    ASSUME SlotTypeOK, toBoard # <<>>, toBoard' = Tail(toBoard)
    PROVE  /\ 1 \in DOMAIN toBoard /\ Head(toBoard) = toBoard[1] /\ DOMAIN toBoard \subseteq Nat
           /\ \A i \in DOMAIN toBoard' : i \in Nat /\ i + 1 \in DOMAIN toBoard /\ 1 < i + 1 /\ toBoard'[i] = toBoard[i + 1]
  <1>1. toBoard \in Seq(Cmds)
    BY DEF SlotTypeOK
  <1>2. QED
    BY <1>1

\* The flags change only towards idle, or with the "start" that is taken.
LEMMA TakeIdle ==
    ASSUME SlotTypeOK, IdleWhenNeeded, toBoard # <<>>, toBoard' = Tail(toBoard), HostSame,
           \/ sequencer_open' = sequencer_open /\ (BoardIdle => BoardIdle')
           \/ BoardIdle'
           \/ Head(toBoard) = <<"start", sequencer_open>> /\ sequencer_open' = sequencer_open
    PROVE  IdleWhenNeeded'
  <1>1. /\ 1 \in DOMAIN toBoard /\ Head(toBoard) = toBoard[1]
        /\ \A i \in DOMAIN toBoard' : i \in Nat /\ i + 1 \in DOMAIN toBoard /\ 1 < i + 1 /\ toBoard'[i] = toBoard[i + 1]
    BY TakeFacts
  <1>2. ASSUME NEW i \in DOMAIN toBoard', toBoard'[i][1] \in NeedIdle
        PROVE  /\ \A j \in DOMAIN toBoard' : j < i /\ toBoard'[j][2] = toBoard'[i][2] => toBoard'[j][1] \in Harmless
               /\ toBoard'[i][2] = sequencer_open' => BoardIdle'
    <2>1. /\ \A j \in DOMAIN toBoard : j < i + 1 /\ toBoard[j][2] = toBoard[i + 1][2] => toBoard[j][1] \in Harmless
          /\ toBoard[i + 1][2] = sequencer_open => BoardIdle
      BY <1>1, <1>2 DEF IdleWhenNeeded
    <2>2. ASSUME NEW j \in DOMAIN toBoard', j < i, toBoard'[j][2] = toBoard'[i][2] PROVE toBoard'[j][1] \in Harmless
      <3>1. j + 1 \in DOMAIN toBoard /\ j + 1 < i + 1 /\ toBoard[j + 1][2] = toBoard[i + 1][2] /\ toBoard'[j] = toBoard[j + 1]
        BY <1>1, <2>2
      <3>2. QED
        BY <2>1, <3>1
    <2>3. ASSUME Head(toBoard) = <<"start", sequencer_open>> PROVE toBoard[i + 1][2] # sequencer_open
      BY <1>1, <2>1, <2>3 DEF Harmless
    <2>4. QED
      BY <1>1, <2>1, <2>2, <2>3
  <1>3. ASSUME Live', awaiting' = "none", localState_' # "RUNNING"
        PROVE  /\ \A j \in DOMAIN toBoard' : toBoard'[j][2] = cur' => toBoard'[j][1] \in Harmless
               /\ sequencer_open' = cur' => BoardIdle'
    <2>1. (\A j \in DOMAIN toBoard : toBoard[j][2] = cur => toBoard[j][1] \in Harmless) /\ (sequencer_open = cur => BoardIdle)
      BY <1>3 DEF IdleWhenNeeded, HostSame
    <2>2. ASSUME Head(toBoard) = <<"start", sequencer_open>> PROVE cur # sequencer_open
      BY <1>1, <2>1, <2>2 DEF Harmless
    <2>3. QED
      BY <1>1, <2>1, <2>2 DEF HostSame
  <1>4. QED
    BY <1>2, <1>3 DEF IdleWhenNeeded

\* A command taken from the wire leaves those after it as they were.
LEMMA TakeAsked ==
    ASSUME SlotTypeOK, AnswerAsked, toBoard # <<>>, toBoard' = Tail(toBoard), HostSame PROVE AnswerAsked'
  <1>1. \A i \in DOMAIN toBoard' : i \in Nat /\ i + 1 \in DOMAIN toBoard /\ toBoard'[i] = toBoard[i + 1]
    BY TakeFacts
  <1>2. \A i, j \in DOMAIN toBoard' : j > i => j + 1 > i + 1
    BY <1>1
  <1>3. SUFFICES ASSUME Live', NEW i \in DOMAIN toBoard', toBoard'[i][2] = cur
                 PROVE  /\ toBoard'[i][1] = "stop" => awaiting' = "stop" /\ \A j \in DOMAIN toBoard' : j > i => toBoard'[j][1] = "push"
                        /\ toBoard'[i][1] = "pause" => /\ awaiting' # "none"
                                                       /\ awaiting' = "pause" => \A j \in DOMAIN toBoard' : j > i => toBoard'[j][1] = "push"
    BY DEF AnswerAsked, HostSame
  <1>4. /\ toBoard[i + 1][1] = "stop" => awaiting = "stop" /\ \A j \in DOMAIN toBoard : j > i + 1 => toBoard[j][1] = "push"
        /\ toBoard[i + 1][1] = "pause" => /\ awaiting # "none"
                                          /\ awaiting = "pause" => \A j \in DOMAIN toBoard : j > i + 1 => toBoard[j][1] = "push"
    BY <1>1, <1>3 DEF AnswerAsked, HostSame
  <1>5. QED
    BY <1>1, <1>2, <1>3, <1>4 DEF HostSame

\* What stays true of the commands when the first one is taken.
LEMMA TakePushes ==
    ASSUME SlotTypeOK, toBoard # <<>>, toBoard' = Tail(toBoard)
    PROVE  /\ OnlyPushes => OnlyPushes' /\ Head(toBoard)[1] = "push"
           /\ (\A j \in DOMAIN toBoard : j > 1 => toBoard[j][1] = "push") => OnlyPushes'
           /\ \A S : (\E i \in DOMAIN toBoard' : toBoard'[i][1] \in S) => (\E i \in DOMAIN toBoard : toBoard[i][1] \in S)
  <1>1. /\ 1 \in DOMAIN toBoard /\ Head(toBoard) = toBoard[1]
        /\ \A i \in DOMAIN toBoard' : i \in Nat /\ i + 1 \in DOMAIN toBoard /\ 1 < i + 1 /\ toBoard'[i] = toBoard[i + 1]
    BY TakeFacts
  <1>2. QED
    BY <1>1 DEF OnlyPushes

\* The flags are left alone, or only ~running is new.
LEMMA TakeComing ==
    ASSUME SlotTypeOK, NEW f, AnswerComing(f), toBoard' = toBoard \/ (toBoard # <<>> /\ toBoard' = Tail(toBoard)), HostSame,
           UNCHANGED <<sequencer_open, sequencer_running, sequencer_should_run>>
    PROVE  AnswerComing(f)'
  <1>1. (BoardIdle' <=> BoardIdle) /\ (OnlyPushes => OnlyPushes')
    <2>1. CASE toBoard' = toBoard
      BY <2>1 DEF BoardIdle, OnlyPushes
    <2>2. CASE toBoard # <<>> /\ toBoard' = Tail(toBoard)
      BY <2>2, TakePushes DEF BoardIdle
    <2>3. QED
      BY <2>1, <2>2
  <1>2. ASSUME NEW S, \E i \in DOMAIN toBoard' : toBoard'[i][1] \in S PROVE \E i \in DOMAIN toBoard : toBoard[i][1] \in S
    <2>1. CASE toBoard' = toBoard
      BY <1>2, <2>1
    <2>2. CASE toBoard # <<>> /\ toBoard' = Tail(toBoard)
      BY <1>2, <2>2, TakePushes
    <2>3. QED
      BY <2>1, <2>2
  <1>3. (\E i \in DOMAIN toBoard' : toBoard'[i][1] = "pause") => \E i \in DOMAIN toBoard : toBoard[i][1] = "pause"
    <2>1. (\E i \in DOMAIN toBoard' : toBoard'[i][1] \in {"pause"}) => \E i \in DOMAIN toBoard : toBoard[i][1] \in {"pause"}
      BY <1>2
    <2>2. QED
      BY <2>1
  <1>4. (\E i \in DOMAIN toBoard' : toBoard'[i][1] \in NeedIdle) => \E i \in DOMAIN toBoard : toBoard[i][1] \in NeedIdle
    BY <1>2
  <1>5. QED
    BY <1>1, <1>3, <1>4 DEF AnswerComing, Recent, HostSame

\* SequencerStart finds no answer in flight.
LEMMA StartComing ==
    ASSUME SlotFacts, Numbered, NEW f, AnswerComing(f), toBoard # <<>>, toBoard' = Tail(toBoard), HostSame, Head(toBoard)[1] = "start",
           sequencer_open' = sequencer_open, sequencer_should_run' = TRUE
    PROVE  AnswerComing(f)'
  <1>1. 1 \in DOMAIN toBoard /\ toBoard[1][1] \in NeedIdle
    BY TakeFacts DEF SlotFacts, NeedIdle
  <1>2. QED
    BY <1>1 DEF AnswerComing, Recent, HostSame

\* SequencerPause: the answer will come from the timer interrupt, or the sequencer was idle.
LEMMA PauseComing ==
    ASSUME SlotFacts, Numbered, AnswerAsked, NEW f, AnswerComing(f), toBoard # <<>>, toBoard' = Tail(toBoard), HostSame,
           Head(toBoard)[1] = "pause", UNCHANGED <<sequencer_open, sequencer_running>>, sequencer_should_run' = FALSE
    PROVE  AnswerComing(f)'
  <1>1. SUFFICES ASSUME Live, sequencer_open = cur PROVE AnswerComing(f)'
    BY DEF AnswerComing, HostSame
  <1>2. SlotTypeOK /\ 1 \in DOMAIN toBoard /\ toBoard[1][1] = "pause" /\ toBoard[1][2] = cur
    BY <1>1, TakeFacts, AllMine DEF SlotFacts, Live
  <1>3. awaiting # "none" /\ (awaiting = "pause" => \A j \in DOMAIN toBoard : j > 1 => toBoard[j][1] = "push")
    BY <1>1, <1>2 DEF AnswerAsked
  <1>4. awaiting = "pause" => OnlyPushes'
    BY <1>2, <1>3, TakePushes
  <1>5. ~OnlyPushes /\ (BoardIdle => BoardIdle')
    BY <1>2 DEF OnlyPushes, BoardIdle
  <1>6. (\E i \in DOMAIN toBoard' : toBoard'[i][1] \in NeedIdle) => \E i \in DOMAIN toBoard : toBoard[i][1] \in NeedIdle
    BY <1>2, TakePushes
  <1>7. OnlyPushes' => ~\E i \in DOMAIN toBoard' : toBoard'[i][1] = "pause"
    BY DEF OnlyPushes
  <1>8. QED
    BY <1>1, <1>2, <1>3, <1>4, <1>5, <1>6, <1>7 DEF AnswerComing, Recent, HostSame

\* An event reported after those of f.
Reported(f, e, g) ==
    /\ Len(f) \in Nat /\ DOMAIN f = 1..Len(f) /\ DOMAIN g = 1..Len(f) + 1 /\ g[Len(f) + 1] = e
    /\ \A k \in 1..Len(f) : g[k] = f[k]
    /\ \A k \in DOMAIN g : k # Len(f) + 1 => k \in DOMAIN f /\ (Recent(g, k) => Recent(f, k) /\ e[1] # "opened")

\* An event more: which of the events in flight are of the session that is open.
LEMMA RecentAppend ==
    ASSUME NEW f \in Seq(SlotEvents), NEW e \in SlotEvents PROVE Reported(f, e, Append(f, e))
  <1> DEFINE g == Append(f, e)
  <1>1. Len(f) \in Nat /\ DOMAIN f = 1..Len(f) /\ DOMAIN g = 1..Len(f) + 1 /\ g[Len(f) + 1] = e /\ \A k \in 1..Len(f) : g[k] = f[k]
    BY Appended
  <1> HIDE DEF g
  <1>2. ASSUME NEW k \in DOMAIN g, k # Len(f) + 1 PROVE k \in DOMAIN f /\ (Recent(g, k) => Recent(f, k) /\ e[1] # "opened")
    <2>1. k \in 1..Len(f) /\ Len(f) + 1 > k /\ Len(f) + 1 \in DOMAIN g
      BY <1>1, <1>2
    <2>2. QED
      BY <1>1, <2>1 DEF Recent
  <1>3. Reported(f, e, g)
    BY <1>1, <1>2 DEF Reported
  <1>4. QED
    BY <1>3 DEF g

\* SequencerStop: its answer is in event_queue, the sequencer at rest.
LEMMA StopComing ==
    ASSUME SlotFacts, Numbered, AnswerAsked, NEW f \in Seq(SlotEvents), AnswerComing(f), toBoard # <<>>, toBoard' = Tail(toBoard), HostSame,
           Head(toBoard)[1] = "stop", sequencer_open' = sequencer_open, BoardIdle', NEW e \in SlotEvents, e[1] = "stopped"
    PROVE  AnswerComing(Append(f, e))'
  <1>1. PICK g : g = Append(f, e)
    OBVIOUS
  <1>a. Reported(f, e, g)
    BY <1>1, RecentAppend
  <1>2. /\ Len(f) \in Nat /\ DOMAIN f = 1..Len(f) /\ DOMAIN g = 1..Len(f) + 1 /\ g[Len(f) + 1] = e /\ (\A k \in 1..Len(f) : g[k] = f[k])
        /\ \A k \in DOMAIN g : k # Len(f) + 1 => k \in DOMAIN f /\ (Recent(g, k) => Recent(f, k) /\ e[1] # "opened")
    BY <1>a DEF Reported
  <1>3. SUFFICES ASSUME Live, sequencer_open = cur PROVE AnswerComing(g)'
    BY <1>1 DEF AnswerComing, HostSame
  <1>4. SlotTypeOK /\ 1 \in DOMAIN toBoard /\ toBoard[1][1] = "stop" /\ toBoard[1][2] = cur
    BY <1>3, TakeFacts, AllMine DEF SlotFacts, Live
  <1>5. awaiting = "stop" /\ \A j \in DOMAIN toBoard : j > 1 => toBoard[j][1] = "push"
    BY <1>3, <1>4 DEF AnswerAsked
  <1>6. OnlyPushes'
    BY <1>4, <1>5, TakePushes
  <1>7. ~OnlyPushes
    BY <1>4 DEF OnlyPushes
  <1>8. \A k \in DOMAIN f : Recent(f, k) => f[k][1] # "stopped"
    BY <1>3, <1>7 DEF AnswerComing
  <1>9. \A k \in DOMAIN g : g[k][1] = "stopped" /\ Recent(g, k) => k = Len(f) + 1 /\ \A m \in DOMAIN g : ~(m > k)
    BY <1>2, <1>8
  <1>10. ~\E i \in DOMAIN toBoard' : toBoard'[i][1] \in NeedIdle
    BY <1>6 DEF OnlyPushes, NeedIdle
  <1>11. awaiting' = "stop" /\ ~sequencer_running'
    BY <1>5 DEF HostSame, BoardIdle
  <1>12. QED
    BY <1>6, <1>9, <1>10, <1>11 DEF AnswerComing

\* Nothing in flight is recent when a session has just been opened.
LEMMA OpenComing ==
    ASSUME NEW f \in Seq(SlotEvents), NEW e \in SlotEvents, e[1] = "opened", BoardIdle' PROVE AnswerComing(Append(f, e))'
  <1>1. PICK g : g = Append(f, e)
    OBVIOUS
  <1>a. Reported(f, e, g)
    BY <1>1, RecentAppend
  <1>2. /\ Len(f) \in Nat /\ DOMAIN f = 1..Len(f) /\ DOMAIN g = 1..Len(f) + 1 /\ g[Len(f) + 1] = e /\ (\A k \in 1..Len(f) : g[k] = f[k])
        /\ \A k \in DOMAIN g : k # Len(f) + 1 => k \in DOMAIN f /\ (Recent(g, k) => Recent(f, k) /\ e[1] # "opened")
    BY <1>a DEF Reported
  <1>3. \A k \in DOMAIN g : Recent(g, k) => g[k][1] \notin {"stopped", "paused"}
    BY <1>2
  <1>4. AnswerComing(g)'
    BY <1>3 DEF AnswerComing, BoardIdle, Recent
  <1>5. QED
    BY <1>1, <1>4

\* Any other event, while the sequencer stays as it is or stalls.
LEMMA OtherComing ==
    ASSUME NEW f \in Seq(SlotEvents), AnswerComing(f), HostSame, toBoard' = toBoard, NEW e \in SlotEvents,
           e[1] \notin {"opened", "stopped", "paused"},
           UNCHANGED <<sequencer_open, sequencer_should_run>>, sequencer_running' = sequencer_running \/ sequencer_running' = FALSE
    PROVE  AnswerComing(Append(f, e))'
  <1>1. PICK g : g = Append(f, e)
    OBVIOUS
  <1>a. Reported(f, e, g)
    BY <1>1, RecentAppend
  <1>2. /\ Len(f) \in Nat /\ DOMAIN f = 1..Len(f) /\ DOMAIN g = 1..Len(f) + 1 /\ g[Len(f) + 1] = e /\ (\A k \in 1..Len(f) : g[k] = f[k])
        /\ \A k \in DOMAIN g : k # Len(f) + 1 => k \in DOMAIN f /\ (Recent(g, k) => Recent(f, k) /\ e[1] # "opened")
    BY <1>a DEF Reported
  <1>3. \A k \in DOMAIN g : g[k][1] \in {"stopped", "paused"} => k \in DOMAIN f /\ g[k] = f[k] /\ (Recent(g, k) => Recent(f, k))
    BY <1>2
  <1>4. (BoardIdle => BoardIdle') /\ (OnlyPushes' <=> OnlyPushes)
    BY DEF BoardIdle, OnlyPushes
  <1>5. SUFFICES ASSUME Live, sequencer_open = cur PROVE AnswerComing(g)'
    BY <1>1 DEF AnswerComing, HostSame
  <1>6. \A k \in DOMAIN g : g[k][1] = "stopped" /\ Recent(g, k) =>
               /\ awaiting = "stop" /\ OnlyPushes /\ BoardIdle
               /\ \A m \in DOMAIN g : m > k => g[m][1] \notin {"stopped", "paused"}
    BY <1>3, <1>5 DEF AnswerComing
  <1>7. \A k \in DOMAIN g : g[k][1] = "paused" /\ Recent(g, k) =>
               /\ awaiting # "none" /\ BoardIdle
               /\ awaiting = "pause" => OnlyPushes /\ \A m \in DOMAIN g : m > k => g[m][1] # "paused"
    BY <1>3, <1>5 DEF AnswerComing
  <1>8. sequencer_running' /\ ~sequencer_should_run' => awaiting # "none" /\ (awaiting = "pause" => OnlyPushes)
    BY <1>5 DEF AnswerComing
  <1>9. awaiting = "pause" /\ (\E i \in DOMAIN toBoard : toBoard[i][1] = "pause") =>
               /\ ~(sequencer_running' /\ ~sequencer_should_run')
               /\ \A k \in DOMAIN g : Recent(g, k) => g[k][1] # "paused"
    BY <1>3, <1>5 DEF AnswerComing
  <1>10. (\E i \in DOMAIN toBoard : toBoard[i][1] \in NeedIdle) =>
               \A k \in DOMAIN g : Recent(g, k) => g[k][1] \notin {"stopped", "paused"}
    BY <1>3, <1>5 DEF AnswerComing
  <1>11. awaiting' = awaiting /\ toBoard' = toBoard /\ (\A k : Recent(g, k)' <=> Recent(g, k))
    BY DEF HostSame, Recent
  <1>12. QED
    BY <1>4, <1>6, <1>7, <1>8, <1>9, <1>10, <1>11 DEF AnswerComing

\* The timer interrupt pauses the sequencer.
LEMMA PausedComing ==
    ASSUME SlotFacts, Numbered, IdleWhenNeeded, NEW f \in Seq(SlotEvents), AnswerComing(f), HostSame, toBoard' = toBoard,
           NEW e \in SlotEvents, e[1] = "paused", sequencer_running, ~sequencer_should_run, ~sequencer_running',
           UNCHANGED <<sequencer_open, sequencer_should_run>>
    PROVE  AnswerComing(Append(f, e))'
  <1>1. PICK g : g = Append(f, e)
    OBVIOUS
  <1>2. Reported(f, e, g)
    BY <1>1, RecentAppend
  <1>3. SUFFICES ASSUME Live, sequencer_open = cur PROVE AnswerComing(g)'
    BY <1>1 DEF AnswerComing, HostSame
  <1>4. ~BoardIdle /\ BoardIdle'
    BY DEF BoardIdle
  <1>5. \A k \in DOMAIN f : Recent(f, k) => f[k][1] \notin {"stopped", "paused"}
    BY <1>3, <1>4 DEF AnswerComing
  <1>6. awaiting # "none" /\ (awaiting = "pause" => OnlyPushes /\ ~\E i \in DOMAIN toBoard : toBoard[i][1] = "pause")
    BY <1>3 DEF AnswerComing, OnlyPushes
  <1>7. ~\E i \in DOMAIN toBoard : toBoard[i][1] \in NeedIdle
    <2>1. \A i \in DOMAIN toBoard : toBoard[i][2] = sequencer_open
      BY <1>3, AllMine DEF Live
    <2>2. QED
      BY <1>4, <2>1 DEF IdleWhenNeeded
  <1>8. \A k \in DOMAIN g : g[k][1] \in {"stopped", "paused"} /\ Recent(g, k) => g[k][1] = "paused" /\ \A m \in DOMAIN g : ~(m > k)
    BY <1>2, <1>5 DEF Reported
  <1>9. awaiting' = awaiting /\ toBoard' = toBoard /\ (OnlyPushes' <=> OnlyPushes)
    BY DEF HostSame, OnlyPushes
  <1>10. QED
    BY <1>4, <1>6, <1>7, <1>8, <1>9 DEF AnswerComing

\* SequencerPush starts a stalled sequencer again.
LEMMA RestartComing ==
    ASSUME NEW f, AnswerComing(f), HostSame, toBoard' = toBoard, sequencer_open' = sequencer_open, sequencer_should_run, sequencer_should_run'
    PROVE  AnswerComing(f)'
  BY DEF AnswerComing, HostSame, BoardIdle, Recent

\* The flags change only towards idle, or away from a sequencer that should run.
LEMMA StayIdle ==
    ASSUME IdleWhenNeeded, toBoard' = toBoard, HostSame, sequencer_open' = sequencer_open, BoardIdle => BoardIdle' PROVE IdleWhenNeeded'
  BY DEF IdleWhenNeeded, HostSame

\* A step that leaves the wire and the application alone.
LEMMA StayAsked == ASSUME AnswerAsked, toBoard' = toBoard, HostSame PROVE AnswerAsked'
  BY DEF AnswerAsked, HostSame

\* The same for the order and the numbers of the commands.
LEMMA StayBracketed ==
    ASSUME Bracketed, Numbered, UNCHANGED <<toBoard, sequencer_open, cur>>, Live' <=> Live PROVE Bracketed' /\ Numbered'
  <1>1. Bracketed'
    BY DEF Bracketed
  <1>2. \A i, j : NoOpen(i, j)' <=> NoOpen(i, j)
    BY DEF NoOpen
  <1>3. Numbered'
    BY <1>2 DEF Numbered
  <1>4. QED
    BY <1>1, <1>3

-----------------------------------------------------------------------------
(* The host hears of an event.                                             *)

\* What the event e leaves of those in flight.
LEMMA RecentTail ==
    ASSUME NEW f \in Seq(SlotEvents), f # <<>>, NEW g, g = Tail(f)
    PROVE  /\ 1 \in DOMAIN f /\ Head(f) = f[1]
           /\ \A k \in DOMAIN g : k \in Nat /\ k + 1 \in DOMAIN f /\ g[k] = f[k + 1] /\ k + 1 > 1 /\ (Recent(g, k) => Recent(f, k + 1))
  <1>1. /\ Len(f) \in Nat /\ Len(f) > 0 /\ DOMAIN f = 1..Len(f) /\ DOMAIN g = 1..Len(f) - 1
        /\ Head(f) = f[1] /\ \A i \in 1..Len(f) - 1 : g[i] = f[i + 1]
    BY Taken
  <1>2. ASSUME NEW k \in DOMAIN g, Recent(g, k) PROVE Recent(f, k + 1)
    <2>1. SUFFICES ASSUME NEW j \in DOMAIN f, j > k + 1 PROVE f[j][1] # "opened"
      BY DEF Recent
    <2>2. j - 1 \in DOMAIN g /\ j - 1 > k /\ (j - 1) + 1 = j
      BY <1>1, <2>1
    <2>3. QED
      BY <1>1, <1>2, <2>2 DEF Recent
  <1>3. QED
    BY <1>1, <1>2

\* The host handles an event that is no answer.
LEMMA TailComing ==
    ASSUME NEW f \in Seq(SlotEvents), f # <<>>, AnswerComing(f), HostSame, UNCHANGED <<toBoard, sequencer_open, sequencer_running, sequencer_should_run>>
    PROVE  AnswerComing(Tail(f))'
  <1>1. PICK g : g = Tail(f)
    OBVIOUS
  <1>2. \A k \in DOMAIN g : k \in Nat /\ k + 1 \in DOMAIN f /\ g[k] = f[k + 1] /\ (Recent(g, k) => Recent(f, k + 1))
    BY <1>1, RecentTail
  <1>3. \A k, m \in DOMAIN g : m > k => m + 1 > k + 1
    BY <1>2
  <1>4. (BoardIdle' <=> BoardIdle) /\ (OnlyPushes' <=> OnlyPushes) /\ awaiting' = awaiting /\ \A k : Recent(g, k)' <=> Recent(g, k)
    BY DEF BoardIdle, OnlyPushes, HostSame, Recent
  <1>5. SUFFICES ASSUME Live, sequencer_open = cur PROVE AnswerComing(g)'
    BY <1>1 DEF AnswerComing, HostSame
  <1>6. \A k \in DOMAIN g : g[k][1] = "stopped" /\ Recent(g, k) =>
               /\ awaiting = "stop" /\ OnlyPushes /\ BoardIdle
               /\ \A m \in DOMAIN g : m > k => g[m][1] \notin {"stopped", "paused"}
    BY <1>2, <1>3, <1>5 DEF AnswerComing
  <1>7. \A k \in DOMAIN g : g[k][1] = "paused" /\ Recent(g, k) =>
               /\ awaiting # "none" /\ BoardIdle
               /\ awaiting = "pause" => OnlyPushes /\ \A m \in DOMAIN g : m > k => g[m][1] # "paused"
    BY <1>2, <1>3, <1>5 DEF AnswerComing
  <1>8. sequencer_running /\ ~sequencer_should_run => awaiting # "none" /\ (awaiting = "pause" => OnlyPushes)
    BY <1>5 DEF AnswerComing
  <1>9. awaiting = "pause" /\ (\E i \in DOMAIN toBoard : toBoard[i][1] = "pause") =>
               /\ ~(sequencer_running /\ ~sequencer_should_run)
               /\ \A k \in DOMAIN g : Recent(g, k) => g[k][1] # "paused"
    BY <1>2, <1>5 DEF AnswerComing
  <1>10. (\E i \in DOMAIN toBoard : toBoard[i][1] \in NeedIdle) =>
               \A k \in DOMAIN g : Recent(g, k) => g[k][1] \notin {"stopped", "paused"}
    BY <1>2, <1>5 DEF AnswerComing
  <1>11. QED
    BY <1>4, <1>6, <1>7, <1>8, <1>9, <1>10 DEF AnswerComing

\* The answer arrives: the sequencer is idle, and no other answer follows.
LEMMA Answered1 ==
    ASSUME NEW f \in Seq(SlotEvents), f # <<>>, AnswerComing(f), Live, sequencer_open = cur, \A k \in DOMAIN f : f[k][1] # "opened",
           Head(f)[1] = "stopped" \/ (Head(f)[1] = "paused" /\ awaiting = "pause")
    PROVE  OnlyPushes /\ BoardIdle /\ \A k \in DOMAIN Tail(f) : Tail(f)[k][1] \notin {"stopped", "paused"}
  <1>1. PICK g : g = Tail(f)
    OBVIOUS
  <1>2. /\ 1 \in DOMAIN f /\ Head(f) = f[1]
        /\ \A k \in DOMAIN g : k \in Nat /\ k + 1 \in DOMAIN f /\ g[k] = f[k + 1] /\ k + 1 > 1
    BY <1>1, RecentTail
  <1>3. \A k \in DOMAIN f : Recent(f, k)
    BY DEF Recent
  <1>4. CASE f[1][1] = "stopped"
    <2>1. OnlyPushes /\ BoardIdle /\ \A m \in DOMAIN f : m > 1 => f[m][1] \notin {"stopped", "paused"}
      BY <1>2, <1>3, <1>4 DEF AnswerComing
    <2>2. QED
      BY <1>1, <1>2, <2>1
  <1>5. CASE f[1][1] = "paused" /\ awaiting = "pause"
    <2>1. OnlyPushes /\ BoardIdle /\ \A m \in DOMAIN f : m > 1 => f[m][1] # "paused"
      BY <1>2, <1>3, <1>5 DEF AnswerComing
    <2>2. \A m \in DOMAIN f : f[m][1] # "stopped"
      BY <1>3, <1>5 DEF AnswerComing
    <2>3. QED
      BY <1>1, <1>2, <2>1, <2>2
  <1>6. QED
    BY <1>2, <1>4, <1>5

\* A step of the board leaves the host as it is.
LEMMA BoardHost == ASSUME HostCareful, UNCHANGED hostVars PROVE HostCareful' /\ HostSame
  <1>1. Live' <=> Live
    BY DEF Live, hostVars
  <1>2. HostSame
    BY <1>1 DEF HostSame, hostVars
  <1>3. QED
    BY <1>1, <1>2 DEF HostCareful, hostVars

\* The board refuses nothing.
LEMMA NeverRefused ==
    ASSUME SlotFacts, CarefulFacts, NEW command, Handle(command)
    PROVE  /\ toBoard # <<>> /\ toBoard' = Tail(toBoard) /\ Head(toBoard) = toBoard[1] /\ toBoard[1][1] = command /\ toBoard[1] \in Cmds
           /\ command = "open" <=> sequencer_open = 0
           /\ command # "open" => toBoard[1] = <<command, sequencer_open>>
           /\ command \in NeedIdle => BoardIdle
           /\ command = "push" => ~SequenceFull
           /\ UNCHANGED hostVars /\ toHost' = toHost /\ fault = "none" /\ mainLoop = "incoming"
  <1>1. SlotTypeOK /\ Bracketed /\ Numbered /\ IdleWhenNeeded
    BY DEF SlotFacts, CarefulFacts
  <1>2. toBoard # <<>> /\ toBoard' = Tail(toBoard) /\ Head(toBoard)[1] = command /\ UNCHANGED hostVars /\ toHost' = toHost /\ mainLoop = "incoming"
    BY DEF Handle
  <1>3. 1 \in DOMAIN toBoard /\ Head(toBoard) = toBoard[1] /\ toBoard[1] \in Cmds /\ DOMAIN toBoard \subseteq Nat
    BY <1>1, <1>2, TakeFacts DEF SlotTypeOK
  <1>4. command = "open" <=> sequencer_open = 0
    BY <1>1, <1>2, <1>3 DEF Bracketed
  <1>5. ASSUME command # "open" PROVE toBoard[1] = <<command, sequencer_open>>
    <2>1. NoOpen(1, 1)
      <3>1. \A m \in DOMAIN toBoard : 1 <= m /\ m <= 1 => m = 1
        BY <1>3
      <3>2. QED
        BY <1>2, <1>3, <1>5, <3>1 DEF NoOpen
    <2>2. toBoard[1][2] = sequencer_open
      BY <1>1, <1>3, <2>1 DEF Numbered
    <2>3. QED
      BY <1>2, <1>3, <2>2 DEF Cmds
  <1>6. command \in NeedIdle => BoardIdle
    BY <1>1, <1>2, <1>3, <1>5 DEF IdleWhenNeeded, NeedIdle
  <1>7. ASSUME command = "push" PROVE ~SequenceFull
    <2>1. PICK s : s = sequencer_open
      OBVIOUS
    <2>2. s # 0 /\ Head(toBoard) = <<"push", s>>
      BY <1>3, <1>4, <1>5, <1>7, <2>1
    <2> DEFINE p == Promised(availableSlots_[s], InFlight)
    <2>3. p \in Nat /\ p + Pushes(s) + queued <= SeqLen /\ SeqLen \in Nat /\ queued \in Nat
      BY <1>1, <2>1, <2>2, StillBounded, SlotConst DEF SlotTypeOK
    <2>4. Pushes(s)' \in Nat /\ Pushes(s) = Pushes(s)' + 1
      BY <1>1, <1>2, <2>2, PushesTaken
    <2> HIDE DEF p
    <2>5. queued # SeqLen
      BY <2>3, <2>4
    <2>6. QED
      BY <2>5 DEF SequenceFull
  <1>8. fault = "none"
    BY DEF CarefulFacts
  <1>9. QED
    BY <1>2, <1>3, <1>4, <1>5, <1>6, <1>7, <1>8

\* Putting a step of the board together.
LEMMA BoardCareful ==
    ASSUME CarefulFacts, UNCHANGED hostVars, fault' = "none", mainLoop' # "error", Bracketed', Numbered', IdleWhenNeeded', AnswerAsked',
           AnswerComing(InFlight)'
    PROVE  CarefulFacts'
  <1>1. HostCareful' /\ awaiting' = awaiting
    BY BoardHost DEF CarefulFacts, hostVars
  <1>2. QED
    BY <1>1 DEF CarefulFacts

\* The commands that report nothing.
LEMMA QuietTaken ==
    ASSUME SlotFacts, CarefulFacts, NEW command \in {"push", "manual_start", "manual_stop", "start", "pause"}, Handle(command),
           fault' = fault, mainLoop' # "error", UNCHANGED <<sequencer_open, event_queue>>,
           \/ UNCHANGED <<sequencer_running, sequencer_should_run>>
           \/ command = "start" /\ sequencer_should_run' = TRUE
           \/ command = "pause" /\ sequencer_should_run' = FALSE /\ sequencer_running' = sequencer_running
    PROVE  CarefulFacts'
  <1>1. SlotTypeOK /\ Bracketed /\ Numbered /\ IdleWhenNeeded /\ AnswerAsked /\ HostCareful
    BY DEF SlotFacts, CarefulFacts
  <1>2. /\ toBoard # <<>> /\ toBoard' = Tail(toBoard) /\ Head(toBoard) = <<command, sequencer_open>>
        /\ UNCHANGED hostVars /\ toHost' = toHost /\ fault = "none" /\ command # "open" /\ command # "close"
    BY NeverRefused
  <1>3. HostSame /\ cur' = cur
    BY <1>1, <1>2, BoardHost DEF hostVars
  <1>4. Head(toBoard)[1] = command
    BY <1>2
  <1>5. Bracketed' /\ Numbered'
    BY <1>1, <1>2, <1>3, <1>4, TakeBracketed DEF HostSame
  <1>6. IdleWhenNeeded'
    <2>1. CASE command = "start"
      BY <1>1, <1>2, <1>3, <2>1, TakeIdle
    <2>2. CASE command # "start"
      <3>1. BoardIdle => BoardIdle'
        BY <2>2 DEF BoardIdle
      <3>2. QED
        BY <1>1, <1>2, <1>3, <3>1, TakeIdle
    <2>3. QED
      BY <2>1, <2>2
  <1>7. AnswerAsked'
    BY <1>1, <1>2, <1>3, TakeAsked
  <1>8. PICK f : f = InFlight /\ f = InFlight'
    BY <1>2 DEF InFlight
  <1>9. AnswerComing(f)
    BY <1>8 DEF CarefulFacts
  <1>10. AnswerComing(f)'
    <2>1. CASE UNCHANGED <<sequencer_running, sequencer_should_run>>
      BY <1>1, <1>2, <1>3, <1>9, <2>1, TakeComing
    <2>2. CASE command = "start" /\ sequencer_should_run' = TRUE
      BY <1>1, <1>2, <1>3, <1>4, <1>9, <2>2, StartComing
    <2>3. CASE command = "pause" /\ sequencer_should_run' = FALSE /\ sequencer_running' = sequencer_running
      BY <1>1, <1>2, <1>3, <1>4, <1>9, <2>3, PauseComing
    <2>4. QED
      BY <2>1, <2>2, <2>3
  <1>11. AnswerComing(InFlight)'
    BY <1>8, <1>10
  <1>12. QED
    BY <1>2, <1>5, <1>6, <1>7, <1>11, BoardCareful

\* The handlers that start, pause or feed the sequencer: none of them refuses.
LEMMA QuietCareful ==
    ASSUME SlotFacts, CarefulFacts,
           SequencerPush \/ SequencerStart \/ SequencerPause \/ SequencerManual("manual_start") \/ SequencerManual("manual_stop")
    PROVE  CarefulFacts'
  <1>1. CASE SequencerPush
    <2>1. Handle("push")
      BY <1>1 DEF SequencerPush
    <2>2. sequencer_open # 0 /\ ~SequenceFull
      BY <2>1, NeverRefused
    <2>3. mainLoop' # "error" /\ UNCHANGED <<fault, sequencer_open, runVars, event_queue>>
      BY <1>1, <2>2 DEF SequencerPush
    <2>4. QED
      BY <2>1, <2>3, QuietTaken DEF runVars
  <1>2. CASE SequencerStart
    <2>1. Handle("start")
      BY <1>2 DEF SequencerStart
    <2>2. sequencer_open # 0 /\ ~sequencer_running
      BY <2>1, NeverRefused DEF NeedIdle, BoardIdle
    <2>3. mainLoop' # "error" /\ UNCHANGED <<fault, sequencer_open, event_queue>> /\ sequencer_should_run' = TRUE
      BY <1>2, <2>2 DEF SequencerStart, Accept, StartEffect
    <2>4. QED
      BY <2>1, <2>3, QuietTaken
  <1>3. CASE SequencerPause
    <2>1. Handle("pause")
      BY <1>3 DEF SequencerPause
    <2>2. sequencer_open # 0
      BY <2>1, NeverRefused
    <2>3. mainLoop' # "error" /\ UNCHANGED <<fault, sequencer_open, event_queue, sequencer_running>> /\ sequencer_should_run' = FALSE
      BY <1>3, <2>2 DEF SequencerPause, Accept
    <2>4. QED
      BY <2>1, <2>3, QuietTaken
  <1>4. ASSUME NEW c \in {"manual_start", "manual_stop"}, SequencerManual(c) PROVE CarefulFacts'
    <2>1. Handle(c) /\ c \in NeedIdle /\ c # "open"
      BY <1>4 DEF SequencerManual, NeedIdle
    <2>2. sequencer_open # 0 /\ ~sequencer_running
      BY <2>1, NeverRefused DEF BoardIdle
    <2>3. mainLoop' # "error" /\ UNCHANGED <<fault, boardVars>>
      BY <1>4, <2>2 DEF SequencerManual, Accept
    <2>4. QED
      BY <2>1, <2>3, QuietTaken DEF boardVars, runVars
  <1>5. QED
    BY <1>1, <1>2, <1>3, <1>4

\* The commands that report an event.
LEMMA OpenCareful == ASSUME SlotFacts, CarefulFacts, SequencerOpen, disturbed' = {} PROVE CarefulFacts'
  <1>1. SlotTypeOK /\ Bracketed /\ Numbered /\ IdleWhenNeeded /\ AnswerAsked /\ HostCareful
    BY DEF SlotFacts, CarefulFacts
  <1>2. Handle("open")
    BY DEF SequencerOpen
  <1>3. /\ toBoard # <<>> /\ toBoard' = Tail(toBoard) /\ Head(toBoard)[1] = "open" /\ sequencer_open = 0
        /\ UNCHANGED hostVars /\ toHost' = toHost /\ fault = "none"
    BY <1>2, NeverRefused
  <1> DEFINE e == <<"opened", SeqLen>>
  <1>4. /\ Accept /\ sequencer_open' = Head(toBoard)[2] /\ BoardIdle' /\ event_queue' = PushedEvent(event_queue, e)
        /\ disturbed' = disturbed \union Overwrites
    BY <1>3 DEF SequencerOpen, BoardIdle
  <1>5. e \in SlotEvents /\ e[1] = "opened" /\ Len(event_queue) \in Nat
    BY <1>1, SlotConst DEF SlotEvents, EventKinds, SlotTypeOK
  <1> HIDE DEF e
  <1>6. Len(event_queue) < EvLen
    BY <1>4, <1>5, NoOverwrite
  <1>7. HostSame /\ cur' = cur
    BY <1>1, <1>3, BoardHost DEF hostVars
  <1>8. Bracketed' /\ Numbered'
    BY <1>1, <1>3, <1>4, <1>7, TakeBracketed DEF HostSame
  <1>9. IdleWhenNeeded' /\ AnswerAsked'
    BY <1>1, <1>3, <1>4, <1>7, TakeIdle, TakeAsked
  <1>10. AnswerComing(InFlight)'
    <2>1. PICK f : f = InFlight
      OBVIOUS
    <2>2. f \in Seq(SlotEvents) /\ InFlight' = Append(f, e)
      BY <1>1, <1>3, <1>4, <1>5, <1>6, <2>1, EventPushed, FlightType
    <2>3. PICK d : d = e /\ d = e'
      BY DEF e
    <2>4. AnswerComing(Append(f, d))'
      BY <1>4, <1>5, <2>2, <2>3, OpenComing
    <2>5. QED
      BY <2>2, <2>3, <2>4
  <1>11. QED
    BY <1>3, <1>4, <1>8, <1>9, <1>10, BoardCareful DEF Accept

\* SequencerStop.
LEMMA StopCareful == ASSUME SlotFacts, CarefulFacts, SequencerStop, disturbed' = {} PROVE CarefulFacts'
  <1>1. SlotTypeOK /\ Bracketed /\ Numbered /\ IdleWhenNeeded /\ AnswerAsked /\ HostCareful
    BY DEF SlotFacts, CarefulFacts
  <1>2. Handle("stop")
    BY DEF SequencerStop
  <1>3. /\ toBoard # <<>> /\ toBoard' = Tail(toBoard) /\ Head(toBoard)[1] = "stop" /\ sequencer_open # 0
        /\ UNCHANGED hostVars /\ toHost' = toHost /\ fault = "none"
    BY <1>2, NeverRefused
  <1>e. PICK e : e = StoppedEvent
    OBVIOUS
  <1>4. /\ Accept /\ sequencer_open' = sequencer_open /\ BoardIdle' /\ event_queue' = PushedEvent(event_queue, e)
        /\ disturbed' = disturbed \union Overwrites
    BY <1>3, <1>e DEF SequencerStop, BoardIdle, StopEffect
  <1>5. e \in SlotEvents /\ e[1] = "stopped" /\ Len(event_queue) \in Nat
    <2>1. queued % SizeMod \in Nat
      BY <1>1, SlotConst DEF SlotTypeOK
    <2>2. QED
      BY <1>1, <1>e, <2>1 DEF StoppedEvent, SlotEvents, EventKinds, SlotTypeOK
  <1>6. Len(event_queue) < EvLen
    BY <1>4, <1>5, NoOverwrite
  <1>7. HostSame /\ cur' = cur
    BY <1>1, <1>3, BoardHost DEF hostVars
  <1>8. Bracketed' /\ Numbered'
    BY <1>1, <1>3, <1>4, <1>7, TakeBracketed DEF HostSame
  <1>9. IdleWhenNeeded' /\ AnswerAsked'
    BY <1>1, <1>3, <1>4, <1>7, TakeIdle, TakeAsked
  <1>10. AnswerComing(InFlight)'
    <2>1. PICK f : f = InFlight
      OBVIOUS
    <2>2. f \in Seq(SlotEvents) /\ InFlight' = Append(f, e) /\ AnswerComing(f)
      BY <1>1, <1>3, <1>4, <1>5, <1>6, <2>1, EventPushed, FlightType DEF CarefulFacts
    <2>3. AnswerComing(Append(f, e))'
      BY <1>1, <1>3, <1>4, <1>5, <1>7, <2>2, StopComing
    <2>4. QED
      BY <2>2, <2>3
  <1>11. QED
    BY <1>3, <1>4, <1>8, <1>9, <1>10, BoardCareful DEF Accept

\* SequencerClose: what follows on the wire is the next session's open.
LEMMA CloseCareful == ASSUME SlotFacts, CarefulFacts, NEW n, SequencerClose(n) PROVE CarefulFacts'
  <1>1. SlotTypeOK /\ Bracketed /\ Numbered /\ IdleWhenNeeded /\ AnswerAsked /\ HostCareful
    BY DEF SlotFacts, CarefulFacts
  <1>2. Handle("close")
    BY DEF SequencerClose
  <1>3. /\ toBoard # <<>> /\ toBoard' = Tail(toBoard) /\ Head(toBoard)[1] = "close" /\ sequencer_open # 0
        /\ UNCHANGED hostVars /\ toHost' = toHost /\ fault = "none"
    BY <1>2, NeverRefused
  <1>4. Accept /\ sequencer_open' = 0 /\ BoardIdle'
    BY <1>3 DEF SequencerClose, BoardIdle, StopEffect
  <1>7. HostSame /\ cur' = cur
    BY <1>1, <1>3, BoardHost DEF hostVars
  <1>8. Bracketed' /\ Numbered'
    BY <1>1, <1>3, <1>4, <1>7, TakeBracketed DEF HostSame
  <1>9. IdleWhenNeeded' /\ AnswerAsked'
    BY <1>1, <1>3, <1>4, <1>7, TakeIdle, TakeAsked
  <1>10. AnswerComing(InFlight)'
    BY <1>4 DEF AnswerComing, Live
  <1>11. QED
    BY <1>3, <1>4, <1>8, <1>9, <1>10, BoardCareful DEF Accept

-----------------------------------------------------------------------------
(* The steps of the board that take no command.                            *)

\* A step that neither takes a command nor wakes the sequencer.
LEMMA StayCareful ==
    ASSUME CarefulFacts, UNCHANGED <<hostVars, toBoard, sequencer_open, fault>>, mainLoop' # "error", BoardIdle => BoardIdle', AnswerComing(InFlight)'
    PROVE  CarefulFacts'
  <1>1. HostSame /\ Bracketed /\ Numbered /\ IdleWhenNeeded /\ AnswerAsked /\ fault = "none" /\ cur' = cur
    BY BoardHost DEF CarefulFacts, hostVars
  <1>2. Bracketed' /\ Numbered' /\ IdleWhenNeeded' /\ AnswerAsked'
    BY <1>1, StayBracketed, StayIdle, StayAsked DEF HostSame
  <1>3. QED
    BY <1>1, <1>2, BoardCareful

\* SequencerTasks.
LEMMA TasksCareful == ASSUME SlotFacts, CarefulFacts, SequencerTasks PROVE CarefulFacts'
  <1>1. SlotTypeOK
    BY DEF SlotFacts
  <1>2. UNCHANGED <<hostVars, toBoard, fault, sequencer_open, runVars>> /\ mainLoop' # "error"
    BY DEF SequencerTasks
  <1>3. InFlight' = InFlight
    <2>1. CASE event_queue = <<>>
      BY <2>1 DEF SequencerTasks, InFlight
    <2>2. CASE event_queue # <<>>
      BY <1>1, <2>2, FlightMoves DEF SequencerTasks, InFlight
    <2>3. QED
      BY <2>1, <2>2
  <1>4. PICK f : f = InFlight /\ f = InFlight'
    BY <1>3
  <1>5. AnswerComing(f) /\ HostSame
    BY <1>2, <1>4, BoardHost DEF CarefulFacts
  <1>6. AnswerComing(f)'
    BY <1>1, <1>2, <1>5, TakeComing DEF runVars
  <1>7. AnswerComing(InFlight)' /\ (BoardIdle => BoardIdle')
    BY <1>2, <1>4, <1>6 DEF BoardIdle, runVars
  <1>8. QED
    BY <1>2, <1>7, StayCareful

\* The end of SequencerPush restarts only a sequencer that should run.
LEMMA RestartCareful == ASSUME SlotFacts, CarefulFacts, SequencerPushRestart PROVE CarefulFacts'
  <1>1. SlotTypeOK
    BY DEF SlotFacts
  <1>2. UNCHANGED <<hostVars, toBoard, toHost, event_queue, fault, sequencer_open>> /\ mainLoop' # "error"
        /\ (UNCHANGED runVars \/ (sequencer_should_run /\ sequencer_should_run'))
    BY DEF SequencerPushRestart, StartEffect
  <1>4. PICK f : f = InFlight /\ f = InFlight'
    BY <1>2 DEF InFlight
  <1>5. AnswerComing(f) /\ HostSame
    BY <1>2, <1>4, BoardHost DEF CarefulFacts
  <1>6. AnswerComing(f)'
    BY <1>1, <1>2, <1>5, TakeComing, RestartComing DEF runVars
  <1>7. AnswerComing(InFlight)' /\ (BoardIdle => BoardIdle')
    BY <1>2, <1>4, <1>6 DEF BoardIdle, runVars
  <1>8. QED
    BY <1>2, <1>7, StayCareful

\* __T2Interrupt: a pause that was asked for is answered, a stall is not.
LEMMA TimerCareful == ASSUME SlotFacts, RunInv, CarefulFacts, T2Interrupt, disturbed' = {} PROVE CarefulFacts'
  <1>1. SlotTypeOK /\ Numbered /\ IdleWhenNeeded
    BY DEF SlotFacts, CarefulFacts
  <1> DEFINE cue == sequencer_should_run /\ queued # 0
  <1>e. PICK e : e = IF cue THEN <<"next_cue", 0>> ELSE <<IF sequencer_should_run THEN "stalled" ELSE "paused", 0>>
    OBVIOUS
  <1>2. /\ event_queue' = PushedEvent(event_queue, e) /\ disturbed' = disturbed \union Overwrites
        /\ UNCHANGED <<hostVars, toBoard, toHost, mainLoop, fault, sequencer_open, sequencer_should_run>>
        /\ sequencer_running' = IF cue THEN sequencer_running ELSE FALSE
    BY <1>e DEF T2Interrupt
  <1>3. sequencer_running
    BY DEF RunInv, TimerFollowsRunning, T2Interrupt
  <1>4. Len(event_queue) \in Nat
    BY <1>1 DEF SlotTypeOK
  <1>5. Len(event_queue) < EvLen
    BY <1>2, <1>4, NoOverwrite
  <1>6. e \in SlotEvents /\ (~sequencer_should_run => e[1] = "paused") /\ (sequencer_should_run => e[1] \in {"next_cue", "stalled"})
    BY <1>e DEF SlotEvents, EventKinds
  <1>7. HostSame /\ mainLoop # "error"
    BY <1>2, BoardHost DEF CarefulFacts
  <1>8. PICK f : f = InFlight
    OBVIOUS
  <1>9. f \in Seq(SlotEvents) /\ InFlight' = Append(f, e) /\ AnswerComing(f)
    BY <1>1, <1>2, <1>5, <1>6, <1>8, EventPushed, FlightType DEF CarefulFacts
  <1>10. AnswerComing(Append(f, e))'
    <2>1. CASE sequencer_should_run
      <3>1. e[1] \notin {"opened", "stopped", "paused"}
        BY <1>6, <2>1
      <3>2. QED
        BY <1>2, <1>6, <1>7, <1>9, <3>1, OtherComing
    <2>2. CASE ~sequencer_should_run
      <3>1. e[1] = "paused" /\ ~sequencer_running'
        BY <1>2, <1>6, <2>2
      <3>2. QED
        BY <1>1, <1>2, <1>3, <1>6, <1>7, <1>9, <2>2, <3>1, PausedComing
    <2>3. QED
      BY <2>1, <2>2
  <1>11. AnswerComing(InFlight)' /\ (BoardIdle => BoardIdle')
    BY <1>3, <1>9, <1>10 DEF BoardIdle
  <1>12. QED
    BY <1>2, <1>7, <1>11, StayCareful

\* The output interrupts.
LEMMA OCCareful == ASSUME SlotFacts, CarefulFacts, OCInterrupt, disturbed' = {} PROVE CarefulFacts'
  <1>1. SlotTypeOK
    BY DEF SlotFacts
  <1>2. UNCHANGED <<hostVars, toBoard, toHost, mainLoop, fault, sequencer_open, runVars>>
    BY DEF OCInterrupt
  <1>3. PICK f : f = InFlight
    OBVIOUS
  <1>4. AnswerComing(f) /\ HostSame /\ f \in Seq(SlotEvents) /\ mainLoop # "error"
    BY <1>1, <1>2, <1>3, BoardHost, FlightType DEF CarefulFacts
  <1>5. AnswerComing(InFlight)'
    <2>1. CASE oc_waiting_close' = 0
      <3>1. PICK e : e = <<"closed", 0>>
        OBVIOUS
      <3>2. event_queue' = PushedEvent(event_queue, e) /\ disturbed' = disturbed \union Overwrites
        BY <2>1, <3>1 DEF OCInterrupt
      <3>3. e \in SlotEvents /\ e[1] \notin {"opened", "stopped", "paused"} /\ Len(event_queue) \in Nat
        BY <1>1, <3>1 DEF SlotEvents, EventKinds, SlotTypeOK
      <3>4. Len(event_queue) < EvLen
        BY <3>2, <3>3, NoOverwrite
      <3>5. InFlight' = Append(f, e)
        BY <1>1, <1>2, <1>3, <3>2, <3>3, <3>4, EventPushed
      <3>6. AnswerComing(Append(f, e))'
        BY <1>2, <1>4, <3>3, OtherComing DEF runVars
      <3>7. QED
        BY <3>5, <3>6
    <2>2. CASE oc_waiting_close' # 0
      <3>1. InFlight' = f
        BY <1>2, <1>3, <2>2 DEF OCInterrupt, InFlight
      <3>2. AnswerComing(f)'
        BY <1>1, <1>2, <1>4, TakeComing DEF runVars
      <3>3. QED
        BY <3>1, <3>2
    <2>3. QED
      BY <2>1, <2>2
  <1>6. BoardIdle => BoardIdle'
    BY <1>2 DEF BoardIdle, runVars
  <1>7. QED
    BY <1>2, <1>4, <1>5, <1>6, StayCareful

-----------------------------------------------------------------------------
(* The steps of the host.                                                  *)

\* The newest session is a session, once there is one.
LEMMA CurSession == ASSUME SlotFacts PROVE cur \in Nat /\ cur <= MaxSessions /\ (cur # 0 => cur \in Sessions) /\ MaxSessions \in Nat
  BY SlotConst DEF SlotFacts, SlotTypeOK

\* A command of the newest session.
LEMMA SendCareful ==
    ASSUME SlotFacts, CarefulFacts, Live, NEW c \in {"push", "manual_start", "manual_stop", "start", "pause", "stop", "close"},
           toBoard' = Append(toBoard, <<c, cur>>), SendRule(c), UNCHANGED <<cur, toHost, boardVars, mainLoop, fault>>,
           Live' <=> c # "close", HostCareful', awaiting' \in {"none", "pause", "stop"},
           c \in {"push", "manual_start", "manual_stop"} => localState_ # "RUNNING" \/ localState_' = "RUNNING",
           c = "start" => localState_' = "RUNNING"
    PROVE  CarefulFacts'
  <1>1. SlotTypeOK /\ Bracketed /\ Numbered /\ IdleWhenNeeded /\ AnswerAsked /\ fault = "none" /\ mainLoop # "error"
    BY DEF SlotFacts, CarefulFacts
  <1>2. <<c, cur>> \in Cmds
    BY CurSession DEF Cmds, Live
  <1>3. UNCHANGED <<sequencer_open, sequencer_running, sequencer_should_run, event_queue>>
    BY DEF boardVars, runVars
  <1>4. Bracketed' /\ Numbered'
    BY <1>1, <1>3, SendBracketed
  <1>5. IdleWhenNeeded'
    BY <1>1, <1>2, <1>3, SendIdle
  <1>6. AnswerAsked'
    BY <1>1, <1>2, SendAsked
  <1>7. PICK f : f = InFlight /\ f = InFlight'
    BY <1>3 DEF InFlight
  <1>8. AnswerComing(f)
    BY <1>7 DEF CarefulFacts
  <1>9. AnswerComing(f)'
    BY <1>1, <1>2, <1>3, <1>8, SendComing
  <1>10. QED
    BY <1>1, <1>4, <1>5, <1>6, <1>7, <1>9 DEF CarefulFacts

\* A step that leaves the connection and what the application waits for alone.
LEMMA SilentCareful ==
    ASSUME SlotFacts, CarefulFacts, UNCHANGED <<cur, awaiting, localState_, toBoard, toHost, boardVars, mainLoop, fault>>, Live' <=> Live, HostCareful'
    PROVE  CarefulFacts'
  <1>1. SlotTypeOK /\ Bracketed /\ Numbered /\ IdleWhenNeeded /\ AnswerAsked /\ fault = "none" /\ mainLoop # "error" /\ HostSame
        /\ awaiting \in {"none", "pause", "stop"}
    BY DEF SlotFacts, CarefulFacts, HostSame
  <1>2. UNCHANGED <<sequencer_open, sequencer_running, sequencer_should_run, event_queue>>
    BY DEF boardVars, runVars
  <1>3. BoardIdle => BoardIdle'
    BY <1>2 DEF BoardIdle
  <1>4. Bracketed' /\ Numbered'
    BY <1>1, <1>2, StayBracketed
  <1>5. IdleWhenNeeded' /\ AnswerAsked'
    BY <1>1, <1>2, <1>3, StayIdle, StayAsked
  <1>6. PICK f : f = InFlight /\ f = InFlight'
    BY <1>2 DEF InFlight
  <1>7. AnswerComing(f)
    BY <1>6 DEF CarefulFacts
  <1>8. AnswerComing(f)'
    BY <1>1, <1>2, <1>7, TakeComing
  <1>9. QED
    BY <1>1, <1>4, <1>5, <1>6, <1>8 DEF CarefulFacts

\* push(), whether it waits, wakes or sends.
LEMMA PushCareful ==
    ASSUME SlotFacts, CarefulFacts, push \/ \E s \in Sessions : pushWakes(s) PROVE CarefulFacts'
  <1>1. UNCHANGED <<cur, state_, remoteState_, localState_, closing, listeners_, awaiting, toHost, mainLoop, fault, boardVars>>
    BY DEF push, pushWakes
  <1>2. Live' <=> Live
    BY <1>1 DEF Live
  <1>3. HostCareful /\ awaiting \in {"none", "pause", "stop"}
    BY DEF CarefulFacts
  <1>4. (blocked' \subseteq blocked \/ (blocked' = blocked \union {cur} /\ Live)) /\ (toBoard' = toBoard \/ (toBoard' = Append(toBoard, <<"push", cur>>) /\ Live))
    <2>1. CASE push
      BY <2>1 DEF push, Usable, Live, Send
    <2>2. ASSUME NEW s \in Sessions, pushWakes(s)
          PROVE  blocked' \subseteq blocked /\ (toBoard' = toBoard \/ (toBoard' = Append(toBoard, <<"push", cur>>) /\ Live))
      <3>1. s \in blocked /\ blocked' = blocked \ {s}
        BY <2>2 DEF pushWakes
      <3>2. CASE state_[s] = "DISCONNECTED"
        BY <2>2, <3>1, <3>2 DEF pushWakes
      <3>3. CASE state_[s] # "DISCONNECTED"
        <4>1. s = cur /\ Live
          BY <1>3, <3>1, <3>3 DEF HostCareful
        <4>2. QED
          BY <2>2, <3>1, <3>3, <4>1 DEF pushWakes
      <3>4. QED
        BY <3>2, <3>3
    <2>3. QED
      BY <2>1, <2>2
  <1>5. HostCareful'
    <2>1. cur \in Nat
      BY CurSession
    <2>2. \A s \in blocked' : s \in 1..cur' /\ (state_'[s] # "DISCONNECTED" => s = cur' /\ Live')
      BY <1>1, <1>2, <1>3, <1>4, <2>1 DEF HostCareful, Live
    <2>3. QED
      BY <1>1, <1>3, <2>2 DEF HostCareful
  <1>6. CASE toBoard' = toBoard
    BY <1>1, <1>2, <1>5, <1>6, SilentCareful
  <1>7. CASE toBoard' = Append(toBoard, <<"push", cur>>) /\ Live
    <2>1. SendRule("push") /\ (Live' <=> "push" # "close")
      BY <1>1, <1>2, <1>7 DEF SendRule
    <2>2. "push" \in {"push", "manual_start", "manual_stop", "start", "pause", "stop", "close"} /\ "push" # "start"
      OBVIOUS
    <2>3. QED
      BY <1>1, <1>3, <1>5, <1>7, <2>1, <2>2, SendCareful
  <1>8. QED
    BY <1>4, <1>6, <1>7

\* start(), pause(), stop() and the manual commands, as a careful application calls them.
LEMMA CommandCareful ==
    ASSUME Careful, SlotFacts, CarefulFacts, manualStart \/ manualStop \/ start \/ pause \/ stop PROVE CarefulFacts'
  <1>1. UNCHANGED <<cur, state_, remoteState_, blocked, closing, listeners_, toHost, mainLoop, fault, boardVars>> /\ Live
    BY DEF manualStart, manualStop, start, pause, stop, Command, Usable, Live
  <1>2. HostCareful' /\ Live'
    BY <1>1 DEF CarefulFacts, HostCareful, Live
  <1>3. awaiting \in {"none", "pause", "stop"}
    BY DEF CarefulFacts
  <1>4. PICK c \in {"manual_start", "manual_stop", "start", "pause", "stop"} :
            /\ toBoard' = Append(toBoard, <<c, cur>>) /\ SendRule(c) /\ awaiting' \in {"none", "pause", "stop"}
            /\ c \in {"manual_start", "manual_stop"} => localState_ # "RUNNING"
            /\ c = "start" => localState_' = "RUNNING"
    <2> USE DEF Command, Send, SendRule, Answered, NeedIdle
    <2>1. CASE manualStart
      BY <1>3, <2>1 DEF manualStart
    <2>2. CASE manualStop
      BY <1>3, <2>2 DEF manualStop
    <2>3. CASE start
      BY <1>3, <2>3 DEF start
    <2>4. CASE pause
      BY <1>3, <2>4 DEF pause
    <2>5. CASE stop
      BY <1>3, <2>5 DEF stop
    <2>6. QED
      BY <2>1, <2>2, <2>3, <2>4, <2>5
  <1>5. QED
    BY <1>1, <1>2, <1>4, SendCareful

\* close() sends the session's last command.
LEMMA CloseSentCareful == ASSUME Careful, SlotFacts, CarefulFacts, close PROVE CarefulFacts'
  <1>1. /\ UNCHANGED <<cur, state_, remoteState_, localState_, blocked, listeners_, awaiting, toHost, mainLoop, fault, boardVars>>
        /\ Live /\ remoteState_[cur] # "CLOSED" /\ cur \notin blocked /\ closing' = closing \union {cur} /\ toBoard' = Append(toBoard, <<"close", cur>>)
    BY DEF close, Usable, Live, MayClose, Send
  <1>2. ~Live'
    BY <1>1 DEF Live
  <1>3. HostCareful'
    <2>1. cur \in 1..cur
      BY <1>1, CurSession DEF Live
    <2>2. QED
      BY <1>1, <2>1 DEF CarefulFacts, HostCareful
  <1>4. SendRule("close") /\ awaiting' \in {"none", "pause", "stop"} /\ (Live' <=> "close" # "close")
    BY <1>1, <1>2 DEF SendRule, CarefulFacts
  <1>5. "close" \in {"push", "manual_start", "manual_stop", "start", "pause", "stop", "close"} /\ "close" \notin {"push", "manual_start", "manual_stop"} /\ "close" # "start"
    OBVIOUS
  <1>6. QED
    BY <1>1, <1>3, <1>4, <1>5, SendCareful

\* close() returns once the board's event came, or the connection was lost.
LEMMA ReturnCareful == ASSUME SlotFacts, CarefulFacts, NEW s \in Sessions, closeReturns(s) PROVE CarefulFacts'
  <1>1. /\ UNCHANGED <<cur, remoteState_, localState_, blocked, listeners_, awaiting, toBoard, toHost, mainLoop, fault, boardVars>>
        /\ s \in closing /\ closing' = closing \ {s} /\ state_' = [state_ EXCEPT ![s] = IF @ = "OPEN" THEN "CLOSED" ELSE @]
        /\ (remoteState_[s] = "CLOSED" \/ state_[s] = "DISCONNECTED")
    BY DEF closeReturns
  <1>2. HostCareful /\ (cur # 0 => cur \in Sessions)
    BY CurSession DEF CarefulFacts
  <1>3. /\ state_' \in [Sessions -> {"NEW", "OPEN", "CLOSED", "DISCONNECTED"}] /\ \A t \in Sessions : t # s => state_'[t] = state_[t]
        /\ state_'[s] # "OPEN" /\ (state_[s] = "DISCONNECTED" <=> state_'[s] = "DISCONNECTED")
    BY <1>1, <1>2 DEF HostCareful
  <1>4. Live' <=> Live
    BY <1>1, <1>2, <1>3 DEF Live
  <1>5. listeners_ # <<>> => s # cur
    BY <1>1, <1>2, <1>3 DEF HostCareful
  <1>6. \A t \in blocked : t \in Sessions
    BY <1>2, CurSession DEF HostCareful, Sessions
  <1>7. HostCareful'
    BY <1>1, <1>2, <1>3, <1>4, <1>5, <1>6 DEF HostCareful
  <1>8. QED
    BY <1>1, <1>4, <1>7, SilentCareful

\* A new session: no command carries its number yet.
LEMMA OpenSentCareful == ASSUME SlotFacts, CarefulFacts, openSequencer PROVE CarefulFacts'
  <1>1. /\ cur < MaxSessions /\ (cur # 0 => state_[cur] \in {"CLOSED", "DISCONNECTED"}) /\ cur' = cur + 1
        /\ state_' = [state_ EXCEPT ![cur + 1] = "OPEN"] /\ listeners_' = Append(listeners_, cur + 1) /\ awaiting' = "none"
        /\ toBoard' = Append(toBoard, <<"open", cur + 1>>) /\ UNCHANGED <<remoteState_, blocked, closing, toHost, mainLoop, fault, boardVars>>
    BY DEF openSequencer
  <1>2. SlotTypeOK /\ HostCareful /\ Bracketed /\ Numbered /\ IdleWhenNeeded /\ AnswerAsked /\ fault = "none" /\ mainLoop # "error"
    BY DEF SlotFacts, CarefulFacts
  <1>3. cur \in Nat /\ MaxSessions \in Nat /\ cur + 1 \in Sessions /\ (cur # 0 => cur \in Sessions) /\ toBoard \in Seq(Cmds)
    BY <1>1, <1>2, CurSession, SlotConst DEF SlotTypeOK
  <1>4. ~Live /\ listeners_ = <<>>
    BY <1>1, <1>2 DEF Live, HostCareful
  <1>5. /\ state_' \in [Sessions -> {"NEW", "OPEN", "CLOSED", "DISCONNECTED"}] /\ state_'[cur + 1] = "OPEN"
        /\ \A t \in Sessions : t # cur + 1 => state_'[t] = state_[t]
    BY <1>1, <1>2, <1>3 DEF HostCareful
  <1>6. listeners_' = <<cur'>> /\ cur' # 0 /\ cur' \notin closing' /\ Live' /\ closing \subseteq 1..cur'
    <2>1. closing \subseteq 1..cur
      BY <1>2 DEF HostCareful
    <2>2. cur + 1 \notin 1..cur /\ cur + 1 # 0 /\ 1..cur \subseteq 1..cur + 1
      BY <1>3
    <2>3. listeners_' = <<cur + 1>>
      BY <1>1, <1>4
    <2>4. QED
      BY <1>1, <1>5, <2>1, <2>2, <2>3 DEF Live
  <1>7. \A s \in blocked : s \in 1..cur' /\ state_'[s] = "DISCONNECTED"
    <2>1. SUFFICES ASSUME NEW s \in blocked PROVE s \in 1..cur' /\ state_'[s] = "DISCONNECTED"
      OBVIOUS
    <2>2. s \in 1..cur /\ state_[s] = "DISCONNECTED"
      BY <1>2, <1>4, <2>1 DEF HostCareful
    <2>3. s \in Sessions /\ s # cur + 1 /\ s \in 1..cur + 1
      BY <1>3, <2>2, SlotConst
    <2>4. QED
      BY <1>1, <1>5, <2>2, <2>3
  <1>8. HostCareful'
    BY <1>1, <1>2, <1>5, <1>6, <1>7 DEF HostCareful
  <1>9. UNCHANGED <<sequencer_open, sequencer_running, sequencer_should_run>>
    BY <1>1 DEF boardVars, runVars
  <1>10. Bracketed' /\ Numbered'
    BY <1>1, <1>2, <1>4, <1>6, <1>9, OpenBracketed
  <1>11. /\ sequencer_open # cur'
         /\ \A i \in DOMAIN toBoard : toBoard[i][2] # cur'
    <2>1. PICK b \in 0..cur : OpensInOrder(b) /\ SlotsFollow(b)
      BY DEF SlotFacts
    <2>2. sequencer_open <= cur /\ sequencer_open \in Nat
      BY <1>3, <2>1 DEF SlotsFollow
    <2>3. ASSUME NEW i \in DOMAIN toBoard PROVE toBoard[i][2] # cur'
      <3>1. toBoard[i] \in Cmds /\ DOMAIN toBoard = 1..Len(toBoard)
        BY <1>3
      <3>2. CASE NoOpen(1, i)
        <4>1. toBoard[i][2] = sequencer_open
          BY <1>2, <3>2 DEF Numbered
        <4>2. QED
          BY <1>1, <1>3, <2>2, <4>1
      <3>3. CASE ~NoOpen(1, i)
        <4>1. \E m \in 1..i : m \in DOMAIN toBoard /\ toBoard[m][1] = "open" /\ NoOpen(m + 1, i)
          <5> DEFINE O == {i - m : m \in {m \in DOMAIN toBoard : m <= i /\ toBoard[m][1] = "open"}}
          <5>1. O # {} /\ O \subseteq Nat
            BY <3>1, <3>3 DEF NoOpen
          <5>2. PICK x \in O : \A y \in O : x <= y
            <6>1. PICK x \in O : \A y \in O : ~(<<y, x>> \in OpToRel(<, Nat))
              BY <5>1, WFMin, NatLessThanWellFounded
            <6>2. \A y \in O : ~(y < x)
              BY <5>1, <6>1 DEF OpToRel
            <6>3. QED
              BY <5>1, <6>2
          <5>3. PICK m \in DOMAIN toBoard : m <= i /\ toBoard[m][1] = "open" /\ x = i - m
            BY <5>2
          <5>4. ASSUME NEW k \in DOMAIN toBoard, m + 1 <= k, k <= i PROVE toBoard[k][1] # "open"
            <6>1. SUFFICES ASSUME toBoard[k][1] = "open" PROVE FALSE
              OBVIOUS
            <6>2. i - k \in O
              BY <5>4, <6>1
            <6>3. i - m <= i - k /\ i \in Nat /\ m \in Nat /\ k \in Nat
              BY <3>1, <5>2, <5>3, <6>2
            <6>4. QED
              BY <5>4, <6>3
          <5>5. NoOpen(m + 1, i)
            BY <5>4 DEF NoOpen
          <5>6. QED
            BY <3>1, <5>3, <5>5
        <4>2. PICK m \in 1..i : m \in DOMAIN toBoard /\ toBoard[m][1] = "open" /\ NoOpen(m + 1, i)
          BY <4>1
        <4>3. toBoard[i][2] = toBoard[m][2]
          BY <1>2, <4>2 DEF Numbered
        <4>4. toBoard[m][2] \in b + 1 .. cur
          BY <2>1, <4>2 DEF OpensInOrder
        <4>5. QED
          BY <1>1, <1>3, <4>3, <4>4
      <3>4. QED
        BY <3>2, <3>3
    <2>4. QED
      BY <1>1, <1>3, <2>2, <2>3
  <1>12. /\ DOMAIN toBoard = 1..Len(toBoard) /\ Len(toBoard) \in Nat /\ DOMAIN toBoard' = 1..Len(toBoard) + 1
         /\ toBoard'[Len(toBoard) + 1] = <<"open", cur'>> /\ \A i \in 1..Len(toBoard) : toBoard'[i] = toBoard[i]
    BY <1>1, <1>3
  <1>13. \A i \in DOMAIN toBoard' : toBoard'[i][2] = cur' => toBoard'[i][1] = "open"
    BY <1>11, <1>12
  <1>14. BoardIdle' <=> BoardIdle
    BY <1>9 DEF BoardIdle
  <1>15. IdleWhenNeeded'
    <2>1. ASSUME NEW i \in DOMAIN toBoard', toBoard'[i][1] \in NeedIdle
          PROVE  /\ \A j \in DOMAIN toBoard' : j < i /\ toBoard'[j][2] = toBoard'[i][2] => toBoard'[j][1] \in Harmless
                 /\ toBoard'[i][2] = sequencer_open' => BoardIdle'
      <3>1. i \in DOMAIN toBoard /\ toBoard'[i] = toBoard[i]
        BY <1>12, <2>1 DEF NeedIdle
      <3>2. /\ \A j \in DOMAIN toBoard : j < i /\ toBoard[j][2] = toBoard[i][2] => toBoard[j][1] \in Harmless
            /\ toBoard[i][2] = sequencer_open => BoardIdle
        BY <1>2, <2>1, <3>1 DEF IdleWhenNeeded
      <3>3. \A j \in DOMAIN toBoard' : j < i => j \in DOMAIN toBoard /\ toBoard'[j] = toBoard[j]
        BY <1>12, <3>1
      <3>4. QED
        BY <1>9, <1>14, <3>1, <3>2, <3>3
    <2>2. (\A j \in DOMAIN toBoard' : toBoard'[j][2] = cur' => toBoard'[j][1] \in Harmless) /\ sequencer_open' # cur'
      BY <1>9, <1>11, <1>13 DEF Harmless
    <2>3. QED
      BY <2>1, <2>2 DEF IdleWhenNeeded
  <1>16. AnswerAsked'
    BY <1>13 DEF AnswerAsked
  <1>17. AnswerComing(InFlight)'
    BY <1>9, <1>11 DEF AnswerComing
  <1>18. QED
    BY <1>1, <1>2, <1>8, <1>10, <1>15, <1>16, <1>17 DEF CarefulFacts

\* handleSequencerEvent: the answer the application waited for finds the board at rest.
LEMMA EventCareful == ASSUME SlotFacts, CarefulFacts, handleSequencerEvent PROVE CarefulFacts'
  <1> DEFINE e == Head(toHost)  open == currentOpen_ \/ (e[1] = "opened" /\ listeners_ # <<>>)  h == Head(listeners_)
             answers == open /\ h = cur /\ (e[1] = "stopped" \/ (e[1] = "paused" /\ awaiting = "pause"))
  <1>1. /\ toHost # <<>> /\ toHost' = Tail(toHost)
        /\ remoteState_' = IF open THEN [remoteState_ EXCEPT ![h] = RemoteState(h, e[1])] ELSE remoteState_
        /\ listeners_' = IF open /\ e[1] = "closed" THEN Tail(listeners_) ELSE listeners_
        /\ awaiting' = IF answers THEN "none" ELSE awaiting
        /\ UNCHANGED <<cur, state_, localState_, blocked, closing, toBoard, mainLoop, fault, boardVars>>
    BY DEF handleSequencerEvent
  <1>2. SlotTypeOK /\ HostCareful /\ Bracketed /\ Numbered /\ IdleWhenNeeded /\ AnswerAsked /\ fault = "none" /\ mainLoop # "error"
        /\ awaiting \in {"none", "pause", "stop"}
    BY DEF SlotFacts, CarefulFacts
  <1>3. Live' <=> Live
    BY <1>1 DEF Live
  <1>4. listeners_ # <<>> => listeners_ = <<cur>> /\ h = cur /\ cur \in Sessions /\ Tail(listeners_) = <<>>
    <2>1. listeners_ # <<>> => listeners_ = <<cur>> /\ cur \in Sessions
      BY <1>2, CurSession DEF HostCareful
    <2>2. Head(<<cur>>) = cur /\ Tail(<<cur>>) = <<>>
      OBVIOUS
    <2>3. QED
      BY <2>1, <2>2
  <1>5. open => listeners_ # <<>>
    BY <1>2, HeardIsMine DEF CarefulFacts
  <1>6. HostCareful'
    <2>1. remoteState_' \in [Sessions -> {"IDLE_OR_MANUAL", "STALLED", "CLOSED"}]
          /\ (cur # 0 => remoteState_'[cur] = IF open THEN RemoteState(cur, e[1]) ELSE remoteState_[cur])
      <3>1. \A s \in Sessions : RemoteState(s, e[1]) \in {"IDLE_OR_MANUAL", "STALLED", "CLOSED"}
        BY <1>2 DEF RemoteState, HostCareful
      <3> HIDE DEF open, e, h
      <3>2. QED
        BY <1>1, <1>2, <1>4, <1>5, <3>1, CurSession DEF HostCareful
    <2>2. cur \in closing' => remoteState_'[cur] # "CLOSED" \/ listeners_' = <<>>
      <3>1. SUFFICES ASSUME cur \in closing, remoteState_'[cur] = "CLOSED" PROVE listeners_' = <<>>
        BY <1>1
      <3>2. cur # 0
        BY <1>2, <3>1, CurSession DEF HostCareful
      <3>3. CASE ~open
        BY <1>1, <1>2, <2>1, <3>1, <3>2, <3>3 DEF HostCareful
      <3>4. CASE open /\ e[1] = "closed"
        BY <1>1, <1>4, <1>5, <3>4
      <3>5. CASE open /\ e[1] # "closed"
        <4>1. RemoteState(cur, e[1]) = "CLOSED"
          BY <2>1, <3>1, <3>2, <3>5
        <4>2. remoteState_[cur] = "CLOSED"
          BY <3>5, <4>1 DEF RemoteState
        <4>3. QED
          BY <1>1, <1>2, <3>1, <3>5, <4>2 DEF HostCareful
      <3>6. QED
        BY <3>3, <3>4, <3>5
    <2>3. listeners_' # <<>> => listeners_' = <<cur'>> /\ cur' # 0 /\ state_'[cur'] = "OPEN"
      BY <1>1, <1>2, <1>4, <1>5 DEF HostCareful
    <2>4. QED
      BY <1>1, <1>2, <1>3, <2>1, <2>2, <2>3 DEF HostCareful
  <1>7. UNCHANGED <<sequencer_open, sequencer_running, sequencer_should_run, event_queue>>
    BY <1>1 DEF boardVars, runVars
  <1>8. Bracketed' /\ Numbered'
    BY <1>1, <1>2, <1>3, <1>7, StayBracketed
  <1>9. PICK f : f = InFlight
    OBVIOUS
  <1>10. f \in Seq(SlotEvents) /\ f # <<>> /\ Head(f) = e /\ InFlight' = Tail(f) /\ AnswerComing(f)
    BY <1>1, <1>2, <1>7, <1>9, FlightLands, FlightType DEF InFlight, CarefulFacts
  <1>11. CASE ~answers
    <2>1. HostSame /\ (BoardIdle => BoardIdle')
      BY <1>1, <1>3, <1>7, <1>11 DEF HostSame, BoardIdle
    <2>2. IdleWhenNeeded' /\ AnswerAsked'
      BY <1>1, <1>2, <1>7, <2>1, StayIdle, StayAsked
    <2>3. AnswerComing(Tail(f))'
      BY <1>1, <1>7, <1>10, <2>1, TailComing
    <2>4. QED
      BY <1>1, <1>2, <1>6, <1>8, <1>10, <1>11, <2>2, <2>3 DEF CarefulFacts
  <1>12. CASE answers
    <2>1. currentOpen_ /\ awaiting' = "none" /\ (e[1] = "stopped" \/ (e[1] = "paused" /\ awaiting = "pause"))
      BY <1>1, <1>12
    <2>2. Unheard = 0 /\ (Live => sequencer_open = cur) /\ cur # 0
      BY <1>2, <2>1, HeardIsMine
    <2>3. \A k \in DOMAIN f : f[k][1] # "opened"
      BY <1>2, <1>9, <2>2, FlightType
    <2>4. Live => OnlyPushes /\ BoardIdle /\ \A k \in DOMAIN Tail(f) : Tail(f)[k][1] \notin {"stopped", "paused"}
      BY <1>10, <2>1, <2>2, <2>3, Answered1
    <2>5. (BoardIdle' <=> BoardIdle) /\ (OnlyPushes' <=> OnlyPushes)
      BY <1>1, <1>7 DEF BoardIdle, OnlyPushes
    <2>6. IdleWhenNeeded'
      <3>1. Live => \A j \in DOMAIN toBoard : toBoard[j][1] \in Harmless
        BY <2>4 DEF OnlyPushes, Harmless
      <3>2. QED
        BY <1>1, <1>2, <1>3, <1>7, <2>4, <2>5, <3>1 DEF IdleWhenNeeded
    <2>7. AnswerAsked'
      <3>1. Live => \A j \in DOMAIN toBoard : toBoard[j][1] = "push"
        BY <2>4 DEF OnlyPushes
      <3>2. QED
        BY <1>1, <1>3, <3>1 DEF AnswerAsked
    <2>8. AnswerComing(Tail(f))'
      BY <1>3, <2>1, <2>4, <2>5 DEF AnswerComing, BoardIdle
    <2>9. QED
      BY <1>1, <1>2, <1>6, <1>8, <1>10, <2>1, <2>6, <2>7, <2>8 DEF CarefulFacts
  <1>13. QED
    BY <1>11, <1>12

\* A new connection, and the first one.
LEMMA EmptyCareful ==
    ASSUME HostCareful, ~Live, toBoard = <<>>, sequencer_open = 0, fault = "none", mainLoop = "incoming", awaiting = "none" PROVE CarefulFacts
  BY DEF CarefulFacts, Bracketed, Numbered, NoOpen, IdleWhenNeeded, AnswerAsked, AnswerComing

\* The loss of the connection: nothing on its way, no session to use.
LEMMA LostCareful == ASSUME SlotFacts, CarefulFacts, NEW k, ConnectionLost(k) PROVE CarefulFacts'
  <1>1. /\ state_' = [s \in Sessions |-> IF state_[s] = "OPEN" THEN "DISCONNECTED" ELSE state_[s]]
        /\ listeners_' = <<>> /\ toBoard' = <<>> /\ mainLoop' = "incoming" /\ fault' = "none" /\ sequencer_open' = 0 /\ awaiting' = "none"
        /\ UNCHANGED <<cur, remoteState_, blocked, closing>>
    BY DEF ConnectionLost
  <1>2. HostCareful /\ (cur # 0 => cur \in Sessions) /\ cur \in Nat /\ cur <= MaxSessions
    BY CurSession DEF CarefulFacts
  <1>3. ~Live'
    BY <1>1, <1>2 DEF Live
  <1>4. ASSUME NEW s \in blocked PROVE s \in 1..cur' /\ state_'[s] = "DISCONNECTED"
    <2>1. s \in 1..cur /\ (state_[s] # "DISCONNECTED" => state_[s] = "OPEN")
      BY <1>2 DEF HostCareful, Live
    <2>2. s \in Sessions
      BY <1>2, <2>1, SlotConst
    <2>3. QED
      BY <1>1, <2>1, <2>2
  <1>5. HostCareful'
    <2>1. state_' \in [Sessions -> {"NEW", "OPEN", "CLOSED", "DISCONNECTED"}]
      BY <1>1, <1>2 DEF HostCareful
    <2>2. QED
      BY <1>1, <1>2, <1>4, <2>1 DEF HostCareful
  <1>6. /\ Bracketed' /\ Numbered' /\ IdleWhenNeeded' /\ AnswerAsked'
    BY <1>1, <1>3 DEF Bracketed, Numbered, NoOpen, IdleWhenNeeded, AnswerAsked
  <1>7. AnswerComing(InFlight)'
    BY <1>3 DEF AnswerComing
  <1>8. QED
    BY <1>1, <1>5, <1>6, <1>7 DEF CarefulFacts

\* The first connection starts the same way.
LEMMA CarefulInit == ASSUME Init PROVE CarefulFacts
  <1>1. HostCareful /\ ~Live
    BY DEF Init, HostCareful, Live
  <1>2. QED
    BY <1>1, EmptyCareful DEF Init

\* Every undisturbed step of a careful application and its board.
LEMMA CarefulKept ==
    ASSUME Careful, SlotFacts, RunInv, CarefulFacts, Next, disturbed' = {} PROVE CarefulFacts'
  <1>1. CASE Application
    BY <1>1, OpenSentCareful, PushCareful, CommandCareful, CloseSentCareful DEF Application
  <1>2. CASE \E s \in Sessions : pushWakes(s) \/ closeReturns(s)
    BY <1>2, PushCareful, ReturnCareful
  <1>3. CASE handleSequencerEvent
    BY <1>3, EventCareful
  <1>4. CASE MainLoop
    BY <1>4, OpenCareful, QuietCareful, RestartCareful, StopCareful, CloseCareful DEF MainLoop
  <1>5. CASE SequencerTasks
    BY <1>5, TasksCareful
  <1>6. CASE T2Interrupt
    BY <1>6, TimerCareful
  <1>7. CASE OCInterrupt
    BY <1>7, OCCareful
  <1>8. CASE \E k \in 0 .. MaxOcs * MaxSessions : ConnectionLost(k)
    BY <1>8, LostCareful
  <1>9. QED
    BY <1>1, <1>2, <1>3, <1>4, <1>5, <1>6, <1>7, <1>8 DEF Next

\* A step that changes nothing.
LEMMA CarefulSame == ASSUME SlotFacts, CarefulFacts, UNCHANGED vars PROVE CarefulFacts'
  <1>1. UNCHANGED <<hostVars, toBoard, toHost, mainLoop, fault, boardVars>>
    BY DEF vars
  <1>2. HostCareful' /\ HostSame
    BY <1>1, BoardHost DEF CarefulFacts
  <1>3. QED
    BY <1>1, <1>2, SilentCareful DEF HostSame, hostVars

\* The board refuses no command of a careful application (one that waits for the answer to
\* a pause or a stop before the commands that need an idle sequencer), so that it never takes
\* the error path of the main loop: for every length of the queues and number of sessions,
\* lost connections included, while no event was lost in a full event_queue and no push of
\* an earlier session came late.
THEOREM NothingIsRefused == Careful => (Spec => []CarefulIsAccepted)
  <1>1. SUFFICES ASSUME Careful PROVE Spec => []CarefulIsAccepted
    OBVIOUS
  <1>2. Init => CarefulInv
    BY CarefulInit DEF CarefulInv
  <1>3. SlotInv /\ RunInv /\ CarefulInv /\ [Next]_vars => CarefulInv'
    <2>1. SUFFICES ASSUME SlotInv, RunInv, CarefulInv, [Next]_vars, disturbed' = {} PROVE CarefulFacts'
      BY DEF CarefulInv
    <2>2. CASE Next
      <3>1. SlotFacts /\ CarefulFacts
        BY <2>1, <2>2, DisturbedStays DEF SlotInv, CarefulInv
      <3>2. QED
        BY <1>1, <2>1, <2>2, <3>1, CarefulKept
    <2>3. CASE UNCHANGED vars
      <3>1. SlotFacts /\ CarefulFacts
        BY <2>1, <2>3 DEF SlotInv, CarefulInv, vars
      <3>2. QED
        BY <2>3, <3>1, CarefulSame
    <2>4. QED
      BY <2>1, <2>2, <2>3
  <1>4. CarefulInv => CarefulIsAccepted
    BY DEF CarefulInv, CarefulFacts, CarefulIsAccepted
  <1>5. QED
    BY <1>2, <1>3, <1>4, SlotInvariance, SpecRun, PTL DEF Spec
=============================================================================
