------------------------------ MODULE AnalogIn ------------------------------
(***************************************************************************)
(* Analog inputs and capacitive sensing: requests of the host handled by   *)
(* the main loop, against the sampling timer (T3), the end of a conversion *)
(* (ADC1, high priority) and the deferred report of its result (the CRC    *)
(* interrupt).  T3 and CRC have priority 1 and do not interrupt one        *)
(* another; ADC1 interrupts anything.                                      *)
(***************************************************************************)
EXTENDS Integers, FiniteSets

CONSTANTS AnNum,         \* number of analog channels
          AnRates,       \* sample rates asked for
          AnMaxRequests  \* bound: requests and resets handled

ASSUME AnAssumption == AnNum \in Nat \ {0} /\ AnRates \subseteq 1..1000 /\ AnMaxRequests \in Nat

Channels == 0..(AnNum - 1)

VARIABLES analog_scan_bitmask, capsense_bitmask, capsense_dirty_bitmask,
          capsense_current, capsense_sample, t3_int_counter,
          anRate,    \* analog_sample_rate and analog_sample_rate_accumulator
          AD1CSSL,   \* the channels scanned, which are the format reported last
          anInt,     \* enable and request flags of the three interrupts
          anConv,    \* the converter: idle, busy with a scan or a capsense sample
          anBuf,     \* the channels whose samples are in ADC1BUF
          anMain,    \* the main loop: where it is, and the request
          anIsr,     \* the CRC handler has reported and not yet cleared its flag
          anHost,    \* IncomingState: format, capsense channels, and per pin its listeners and whether the first is open
          anFault,   \* reports the host takes for something else, samples with nothing to sample
          anCount

anVars == <<analog_scan_bitmask, capsense_bitmask, capsense_dirty_bitmask, capsense_current, capsense_sample,
            t3_int_counter, anRate, AD1CSSL, anInt, anConv, anBuf, anMain, anIsr, anHost, anFault, anCount>>

NoRequest == [kind |-> "none", channel |-> 0, enable |-> FALSE]
IntOff == [T3IE |-> FALSE, AD1IE |-> FALSE, CRCIE |-> FALSE, AD1IF |-> FALSE, CRCIF |-> FALSE]

NoListeners == [format |-> {}, capsense |-> {}, listeners |-> [k \in Channels |-> 0], open |-> [k \in Channels |-> FALSE]]

AnInit ==
  /\ analog_scan_bitmask = {} /\ capsense_bitmask = {} /\ capsense_dirty_bitmask = {}
  /\ capsense_current = AnNum - 1 /\ capsense_sample = FALSE /\ t3_int_counter = 0
  /\ anRate = [rate |-> 1000, accumulator |-> 0] /\ AD1CSSL = {}
  /\ anInt = IntOff /\ anConv = "idle" /\ anBuf = {}
  /\ anMain = [pc |-> "idle", request |-> NoRequest] /\ anIsr = FALSE
  /\ anHost = NoListeners /\ anFault = {} /\ anCount = 0

-----------------------------------------------------------------------------
\* Masking of T3 nests: the handler blocks it for the length of a sample, the main loop for an update.
T3IntBlock(int) == [int EXCEPT !.T3IE = FALSE]
T3IntUnblock(int) == IF t3_int_counter = 1 THEN [int EXCEPT !.T3IE = TRUE] ELSE int

\* Flags left over from before are cleared, then everything is enabled.
ADCStart == [IntOff EXCEPT !.CRCIE = TRUE, !.AD1IE = TRUE, !.T3IE = TRUE]

\* The host closes the current listener of the pins that left and opens the next one of those that came.
Listeners(host, closed, opened) ==
  [host EXCEPT !.listeners = [k \in Channels |-> IF k \in closed /\ host.open[k] THEN @[k] - 1 ELSE @[k]],
               !.open = [k \in Channels |-> IF k \in closed THEN FALSE
                                            ELSE @[k] \/ (k \in opened /\ host.listeners[k] > 0)]]

\* Mutant: pins that left stay in the format.
SendAnalogInFormatGrow(host) ==
  [Listeners(host, host.format \ analog_scan_bitmask, analog_scan_bitmask \ host.format)
   EXCEPT !.format = @ \cup analog_scan_bitmask]

SendAnalogInFormat(host) ==
  [Listeners(host, host.format \ analog_scan_bitmask, analog_scan_bitmask \ host.format)
   EXCEPT !.format = analog_scan_bitmask]
ReportModifiedCapSenseStatus(host) ==
  [Listeners(host, capsense_dirty_bitmask \ capsense_bitmask, capsense_dirty_bitmask \cap capsense_bitmask)
   EXCEPT !.capsense = (@ \ capsense_dirty_bitmask) \cup (capsense_dirty_bitmask \cap capsense_bitmask)]

\* ADCInit, within a reset that masks all interrupts.  The flags are not cleared.
ADCInit ==
  /\ anMain.pc = "idle" /\ ~anIsr /\ anCount < AnMaxRequests
  /\ anInt' = [anInt EXCEPT !.AD1IE = FALSE, !.CRCIE = FALSE, !.T3IE = FALSE]
  /\ anConv' = "idle" /\ AD1CSSL' = {}
  /\ analog_scan_bitmask' = {} /\ capsense_bitmask' = {} /\ capsense_dirty_bitmask' = {}
  /\ anRate' = [rate |-> 1000, accumulator |-> 0]
  /\ anHost' = NoListeners
  /\ anCount' = anCount + 1
  /\ UNCHANGED <<capsense_current, capsense_sample, t3_int_counter, anBuf, anMain, anIsr, anFault>>

\* ADCSetSampleRate; a rate out of range is ignored.
ADCSetSampleRate ==
  /\ anMain.pc = "idle" /\ ~anIsr /\ anCount < AnMaxRequests
  /\ \E r \in AnRates : anRate' = [rate |-> r, accumulator |-> 0]
  /\ anCount' = anCount + 1
  /\ UNCHANGED <<analog_scan_bitmask, capsense_bitmask, capsense_dirty_bitmask, capsense_current, capsense_sample,
                 t3_int_counter, AD1CSSL, anInt, anConv, anBuf, anMain, anIsr, anHost, anFault>>

\* ADCSetScan and ADCSetCapSense: the first channel starts the sampling, any other
\* change is made with T3 blocked.  The host opens a pin that is free, and queues its listener.
AnRequest(kind, channel, enable) ==
  /\ anMain.pc = "idle" /\ ~anIsr /\ anCount < AnMaxRequests
  /\ IF enable THEN channel \notin analog_scan_bitmask \cup capsense_bitmask
     ELSE channel \in (IF kind = "scan" THEN analog_scan_bitmask ELSE capsense_bitmask)
  /\ anHost' = IF enable THEN [anHost EXCEPT !.listeners[channel] = @ + 1] ELSE anHost
  /\ anCount' = anCount + 1
  /\ IF enable /\ analog_scan_bitmask \cup capsense_bitmask = {}
     THEN /\ analog_scan_bitmask' = IF kind = "scan" THEN {channel} ELSE {}
          /\ capsense_bitmask' = IF kind = "scan" THEN {} ELSE {channel}
          /\ capsense_dirty_bitmask' = IF kind = "scan" THEN capsense_dirty_bitmask ELSE {channel}
          /\ t3_int_counter' = 0 /\ anInt' = ADCStart
          /\ UNCHANGED anMain
     ELSE /\ t3_int_counter' = t3_int_counter + 1 /\ anInt' = T3IntBlock(anInt)
          /\ anMain' = [pc |-> "blocked", request |-> [kind |-> kind, channel |-> channel, enable |-> enable]]
          /\ UNCHANGED <<analog_scan_bitmask, capsense_bitmask, capsense_dirty_bitmask>>
  /\ UNCHANGED <<capsense_current, capsense_sample, anRate, AD1CSSL, anConv, anBuf, anIsr, anFault>>

Changed(set) == IF anMain.request.enable THEN set \cup {anMain.request.channel} ELSE set \ {anMain.request.channel}

AnUpdate ==
  /\ anMain.pc = "blocked" /\ ~anIsr
  /\ IF anMain.request.kind = "scan"
     THEN /\ analog_scan_bitmask' = Changed(analog_scan_bitmask)
          /\ UNCHANGED <<capsense_bitmask, capsense_dirty_bitmask>>
     ELSE /\ capsense_bitmask' = Changed(capsense_bitmask)
          /\ capsense_dirty_bitmask' = capsense_dirty_bitmask \cup {anMain.request.channel}
          /\ UNCHANGED analog_scan_bitmask
  /\ IF analog_scan_bitmask' \cup capsense_bitmask' # {}
     THEN /\ t3_int_counter' = t3_int_counter - 1 /\ anInt' = T3IntUnblock(anInt)
          /\ anMain' = [pc |-> "idle", request |-> NoRequest]
     ELSE /\ anInt' = [anInt EXCEPT !.AD1IE = FALSE]
          /\ anMain' = [anMain EXCEPT !.pc = "stopping"]
          /\ UNCHANGED t3_int_counter
  /\ UNCHANGED <<capsense_current, capsense_sample, anRate, AD1CSSL, anConv, anBuf, anIsr, anHost, anFault, anCount>>

\* The rest of ADCStop, and the report of the last change.
AnStop ==
  /\ anMain.pc = "stopping" /\ ~anIsr
  /\ anInt' = [anInt EXCEPT !.CRCIE = FALSE, !.T3IE = FALSE] /\ anConv' = "idle"
  /\ UNCHANGED analog_scan_bitmask
  /\ IF anMain.request.kind = "scan"
     THEN /\ anHost' = SendAnalogInFormat(anHost) /\ AD1CSSL' = {}
          /\ UNCHANGED capsense_dirty_bitmask
     ELSE /\ anHost' = ReportModifiedCapSenseStatus(anHost)
          /\ capsense_dirty_bitmask' = {}
          /\ UNCHANGED AD1CSSL
  /\ anMain' = [pc |-> "idle", request |-> NoRequest]
  /\ UNCHANGED <<capsense_bitmask, capsense_current, capsense_sample, t3_int_counter, anRate, anBuf, anIsr,
                 anFault, anCount>>

-----------------------------------------------------------------------------
(* Interrupts.                                                             *)

NextChannel == (capsense_current + 1) % AnNum

\* The next channel in turn is sampled if it senses; otherwise this round is over.  t3 is the
\* counter before, int the flags before.
ADCCapSenseTrigger(t3, int) ==
  /\ capsense_current' = NextChannel
  /\ IF NextChannel \in capsense_bitmask
     THEN /\ capsense_sample' = TRUE /\ anConv' = "capsense"
          /\ t3_int_counter' = t3 /\ anInt' = int
     ELSE /\ t3_int_counter' = t3 - 1 /\ anInt' = IF t3 = 1 THEN [int EXCEPT !.T3IE = TRUE] ELSE int
          /\ UNCHANGED <<capsense_sample, anConv>>

\* Changes are reported before anything is sampled with them; a slow rate skips ticks.
T3Interrupt ==
  /\ anInt.T3IE /\ ~anIsr
  /\ UNCHANGED <<analog_scan_bitmask, capsense_bitmask, anBuf, anMain, anIsr, anCount>>
  /\ anHost' = ReportModifiedCapSenseStatus(IF AD1CSSL # analog_scan_bitmask THEN SendAnalogInFormat(anHost) ELSE anHost)
  /\ AD1CSSL' = analog_scan_bitmask /\ capsense_dirty_bitmask' = {}
  /\ LET total == anRate.accumulator + anRate.rate IN
     IF total < 1000
     THEN /\ anRate' = [anRate EXCEPT !.accumulator = total]
          /\ UNCHANGED <<capsense_current, capsense_sample, t3_int_counter, anInt, anConv, anFault>>
     ELSE /\ anRate' = [anRate EXCEPT !.accumulator = total - 1000]
          /\ IF analog_scan_bitmask # {}
             THEN /\ t3_int_counter' = t3_int_counter + 1 /\ anInt' = T3IntBlock(anInt)
                  /\ capsense_sample' = FALSE /\ anConv' = "scan"
                  /\ UNCHANGED <<capsense_current, anFault>>
             ELSE /\ ADCCapSenseTrigger(t3_int_counter + 1, T3IntBlock(anInt))
                  /\ anFault' = anFault \cup (IF capsense_bitmask = {} THEN {"nothing to sample"} ELSE {})

\* The conversion is done: the converter is turned off before it overwrites its buffer.
ADC1Interrupt ==
  /\ anConv # "idle" /\ anInt.AD1IE
  /\ anConv' = "idle"
  /\ anBuf' = IF anConv = "scan" THEN AD1CSSL ELSE {capsense_current}
  /\ anInt' = [anInt EXCEPT !.CRCIF = TRUE, !.AD1IF = FALSE]
  /\ UNCHANGED <<analog_scan_bitmask, capsense_bitmask, capsense_dirty_bitmask, capsense_current, capsense_sample,
                 t3_int_counter, anRate, AD1CSSL, anMain, anIsr, anHost, anFault, anCount>>

\* A conversion that ends while the interrupt is disabled only leaves its flag.
AnConversionIgnored ==
  /\ anConv # "idle" /\ ~anInt.AD1IE
  /\ anConv' = "idle" /\ anInt' = [anInt EXCEPT !.AD1IF = TRUE]
  /\ UNCHANGED <<analog_scan_bitmask, capsense_bitmask, capsense_dirty_bitmask, capsense_current, capsense_sample,
                 t3_int_counter, anRate, AD1CSSL, anBuf, anMain, anIsr, anHost, anFault, anCount>>

\* The result goes to the host: a capsense value with its pin, a scan as values in the order of the
\* format.  After a scan comes the next capsense sample.
CRCInterrupt ==
  /\ anInt.CRCIF /\ anInt.CRCIE /\ ~anIsr
  /\ anIsr' = TRUE
  /\ IF capsense_sample
     THEN /\ anFault' = anFault \cup (IF capsense_current \in anHost.capsense \cup capsense_bitmask \cup capsense_dirty_bitmask THEN {} ELSE {"capsense of a closed pin"})
          /\ t3_int_counter' = t3_int_counter - 1 /\ anInt' = T3IntUnblock(anInt)
          /\ UNCHANGED <<capsense_current, capsense_sample, anConv>>
     ELSE /\ anFault' = anFault \cup (IF AD1CSSL = anBuf /\ anHost.format = anBuf THEN {} ELSE {"wrong format"})
          /\ IF capsense_bitmask # {} THEN ADCCapSenseTrigger(t3_int_counter, anInt)
             ELSE /\ t3_int_counter' = t3_int_counter - 1 /\ anInt' = T3IntUnblock(anInt)
                  /\ UNCHANGED <<capsense_current, capsense_sample, anConv>>
  /\ UNCHANGED <<analog_scan_bitmask, capsense_bitmask, capsense_dirty_bitmask, anRate, AD1CSSL, anBuf, anMain,
                 anHost, anCount>>

\* _CRCIF = 0, at the end of the handler.
CRCClear ==
  /\ anIsr
  /\ anIsr' = FALSE
  /\ anInt' = [anInt EXCEPT !.CRCIF = FALSE]
  /\ UNCHANGED <<analog_scan_bitmask, capsense_bitmask, capsense_dirty_bitmask, capsense_current, capsense_sample,
                 t3_int_counter, anRate, AD1CSSL, anConv, anBuf, anMain, anHost, anFault, anCount>>

AnNext ==
  \/ \E kind \in {"scan", "capsense"}, channel \in Channels, enable \in BOOLEAN : AnRequest(kind, channel, enable)
  \/ ADCInit \/ ADCSetSampleRate \/ AnUpdate \/ AnStop
  \/ T3Interrupt \/ ADC1Interrupt \/ AnConversionIgnored \/ CRCInterrupt \/ CRCClear

AnSpec == AnInit /\ [][AnNext]_anVars

-----------------------------------------------------------------------------
\* REPORT_ANALOG_IN_STATUS carries bare values: they are those of exactly the channels of the format
\* reported last, whatever was opened, closed or reset while they were sampled and reported.  A
\* capacitive value never follows the echo of the close of its pin, and the timer never finds
\* sampling running with nothing to sample (the assertion of _T3Interrupt).
SamplesAreSound == anFault = {}

\* "disable interrupts. will be re-enabled when sampling is done": while the timer is blocked, the main loop
\* is at work or a sample is under way whose end will unblock it.  It does not hold: the end of a capacitive
\* sample that comes before _CRCInterrupt clears _CRCIF is cleared with it (README, section 6).
BlockedMeansSampling ==
  /\ analog_scan_bitmask \cup capsense_bitmask # {} /\ ~anInt.T3IE
  => anMain.pc # "idle" \/ anConv # "idle" \/ anInt.CRCIF \/ anIsr

\* "The first read() call block for a few milliseconds until the initial value is updated": once a tick has
\* reported the changes, the values of an open pin go to its opener and not to one that has closed it.  It
\* does not hold: a close and an opening between two ticks are reported as one opening (README, section 6).
OpenersHear ==
  anMain.pc = "idle" /\ AD1CSSL = analog_scan_bitmask /\ capsense_dirty_bitmask = {} =>
  \A k \in analog_scan_bitmask \cup capsense_bitmask : anHost.open[k] /\ anHost.listeners[k] = 1
=============================================================================
