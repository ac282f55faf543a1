----------------------------- MODULE MCClients -----------------------------
(* Small instances of what a client of the host library waits for: the answers *)
(* of the three bus masters and the end of a connection.  They share nothing,  *)
(* so a behaviour follows one of them.                                        *)
EXTENDS SpiMaster, I2cMaster, IcspMaster, HostLink

VARIABLE part

mcVars == <<sVars, iVars, cVars, hlVars, part>>

\* Three requests in a session, so that one has to wait for room; or two sessions.
MCSpiKinds ==
  {[dest |-> 1, total |-> 3, data |-> 1, trim |-> 1], [dest |-> 2, total |-> 2, data |-> 2, trim |-> 2],
   [dest |-> 2, total |-> 1, data |-> 0, trim |-> 0]}
MCSpiPlans == {[opens |-> 1, requests |-> 3, kinds |-> MCSpiKinds], [opens |-> 2, requests |-> 2, kinds |-> MCSpiKinds]}
MCI2cKinds == {[ten |-> TRUE, write |-> 2, read |-> 1], [ten |-> FALSE, write |-> 1, read |-> 0]}
MCI2cReads == {[ten |-> FALSE, write |-> 0, read |-> 2], [ten |-> FALSE, write |-> 0, read |-> 0]}
MCI2cPlans == {[opens |-> 1, requests |-> 3, kinds |-> MCI2cKinds],
               [opens |-> 2, requests |-> 2, kinds |-> MCI2cKinds \cup MCI2cReads]}

\* Where the connection is not followed its thread has ended.
MCInit ==
  /\ part \in {"spi", "i2c", "icsp", "link"}
  /\ SpiInit /\ I2cInit /\ IcspInit
  /\ part # "spi" => sHost.plan = CHOOSE p \in SpiPlans : TRUE
  /\ part # "i2c" => iHost.plan = CHOOSE p \in I2cPlans : TRUE
  /\ IF part = "link" THEN HlInit ELSE HlInitAt("done")

MCNext ==
  \/ part = "spi" /\ SpiNext /\ UNCHANGED <<iVars, cVars, hlVars, part>>
  \/ part = "i2c" /\ I2cNext /\ UNCHANGED <<sVars, cVars, hlVars, part>>
  \/ part = "icsp" /\ IcspNext /\ UNCHANGED <<sVars, iVars, hlVars, part>>
  \/ part = "link" /\ HlNext /\ UNCHANGED <<sVars, iVars, cVars, part>>

\* The parts that are not followed have nothing to do, so their fairness asks for nothing.
MCSpec == MCInit /\ [][MCNext]_mcVars /\ SpiFairness /\ I2cFairness /\ IcspFairness /\ HlFairness

\* The results of SPI, I2C and ICSP requests reach the calls they belong to, and the credit of the
\* packet senders keeps a request from being dropped at a full tx_queue.
BusResultsMatch == SpiResultsMatch /\ I2cResultsMatch /\ VisiResultsInOrder /\ SpiTxFits /\ I2cTxFits

\* No interrupt, no report and no answer is lost in a way that leaves a bus, or a client of it, waiting.
\* As a behaviour follows one bus, this is SpiFinishes, I2cFinishes and VisiIsAnswered.
BusesFinish == (SpiWaits \/ I2cWaits \/ VisiWaits) ~> ~(SpiWaits \/ I2cWaits \/ VisiWaits)
=============================================================================
