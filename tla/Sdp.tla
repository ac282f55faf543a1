-------------------------------- MODULE Sdp --------------------------------
(***************************************************************************)
(* The service discovery server of the board: sdp.c and sdp_util.c.  A     *)
(* phone asks for handles or attributes and is answered in parts that fit  *)
(* its limits; each part but the last ends with a continuation state the   *)
(* phone sends back.  A byte of an answer is a token that says where it    *)
(* comes from, so that parts can be put together and compared.             *)
(***************************************************************************)
EXTENDS Integers, Sequences, FiniteSets

LOCAL INSTANCE SequencesExt
LOCAL INSTANCE FiniteSetsExt

CONSTANTS SdpRecords,   \* registered records: [handle, uuids, attrs], attrs a sequence of [id, len]
          SdpMtus,      \* limits of a response: the phone's MTU, at most SDP_RESPONSE_BUFFER_SIZE
          SdpCounts,    \* MaximumAttributeByteCount
          SdpWanted     \* sets of attribute ids a phone may ask for

VARIABLES sdp,     \* the board: channel, response, whether L2CAP lets it send
          sdpAsk,  \* the request of the phone, and what it has had of the answer
          sdpNet   \* the response on its way, if any

sdpVars == <<sdp, sdpAsk, sdpNet>>

Nothing == [what |-> "nothing"]

SdpInit ==
  /\ sdp = [cid |-> 0, resp |-> Nothing, can |-> TRUE]
  /\ sdpAsk = [what |-> "idle", wait |-> FALSE, got |-> <<>>, ended |-> FALSE] /\ sdpNet = Nothing

-----------------------------------------------------------------------------
(* sdp_util.c                                                              *)

\* sdp_record_matches_service_search_pattern
Matches(r, pattern) == pattern \subseteq r.uuids

\* de_store_descriptor_with_len: three bytes that give the length of what follows
Des(n) == [i \in 1 .. 3 |-> <<"des", n, i>>]
IdBytes(r, a) == [i \in 1 .. 3 |-> <<r.handle, a.id, i>>]
ValueBytes(r, a) == [i \in 1 .. a.len |-> <<r.handle, a.id, 3 + i>>]

\* Mutant: the offset is not cleared once it has been skipped.
AppendRangeOffset(c, data) ==
  LET rest == Len(data) - c.off
      n == IF c.max < rest THEN c.max ELSE rest
  IN [c EXCEPT !.out = @ \o SubSeq(data, c.off + 1, c.off + n), !.max = @ - n, !.complete = ~(c.max < rest)]

\* spd_append_range: what fits of data from the offset on
AppendRange(c, data) ==
  LET rest == Len(data) - c.off
      n == IF c.max < rest THEN c.max ELSE rest
  IN [c EXCEPT !.out = @ \o SubSeq(data, c.off + 1, c.off + n), !.max = @ - n, !.off = 0, !.complete = ~(c.max < rest)]

\* sdp_traversal_filter_attributes: an attribute is skipped, copied from the offset on, or ends the part.
FilterAttribute(c, r, a, want) ==
  IF ~c.complete \/ a.id \notin want THEN c
  ELSE LET d == IF c.off >= 3 THEN [c EXCEPT !.off = @ - 3] ELSE AppendRange(c, IdBytes(r, a))
       IN IF ~d.complete THEN d
          ELSE IF d.off >= a.len THEN [d EXCEPT !.off = @ - a.len] ELSE AppendRange(d, ValueBytes(r, a))

\* sdp_filter_attributes_in_attributeIDList
FilterAttributes(r, want, off, max) ==
  FoldLeft(LAMBDA c, a : FilterAttribute(c, r, a, want), [off |-> off, max |-> max, out |-> <<>>, complete |-> TRUE], r.attrs)

\* spd_get_filtered_size
FilteredSize(r, want) == FoldLeft(LAMBDA n, a : IF a.id \in want THEN n + 3 + a.len ELSE n, 0, r.attrs)

-----------------------------------------------------------------------------
(* The three requests.  An answer is its bytes and the continuation state. *)

Answer(out, cont) == [what |-> "answer", out |-> out, cont |-> cont]
Error == [what |-> "error"]
Start == [rec |-> 0, off |-> 0]
End == [rec |-> -1, off |-> 0]

\* sdp_handle_service_search_request
ServiceSearch(q) ==
  LET perPart == (q.mtu - 12) \div 4
      matching == SelectSeq(SdpRecords, LAMBDA r : Matches(r, q.pattern))
      total == IF Len(matching) > q.count THEN q.count ELSE Len(matching)
      step(c, i) ==
        IF c.stop \/ ~Matches(SdpRecords[i], q.pattern) THEN c
        ELSE IF i - 1 < q.cont.rec THEN [c EXCEPT !.matching = @ + 1]
        ELSE LET d == [c EXCEPT !.matching = @ + 1, !.out = Append(@, SdpRecords[i].handle)]
             IN IF d.matching >= total THEN [d EXCEPT !.stop = TRUE]
                ELSE IF Len(d.out) >= perPart THEN [d EXCEPT !.stop = TRUE, !.cont = [rec |-> i, off |-> 0]] ELSE d
      all == FoldLeft(step, [matching |-> 0, out |-> <<>>, stop |-> FALSE, cont |-> End], [i \in DOMAIN SdpRecords |-> i])
  IN Answer(all.out, all.cont)

\* sdp_handle_service_attribute_request
ServiceAttribute(q) ==
  LET i == SelectInSeq(SdpRecords, LAMBDA r : r.handle = q.handle)
      most == IF q.mtu - 10 < q.count THEN q.mtu - 10 ELSE q.count
      des == IF q.cont.off = 0 THEN Des(FilteredSize(SdpRecords[i], q.want)) ELSE <<>>
      part == FilterAttributes(SdpRecords[i], q.want, q.cont.off, most - Len(des))
  IN IF i = 0 THEN Error
     ELSE Answer(des \o part.out, IF part.complete THEN End ELSE [rec |-> 0, off |-> q.cont.off + Len(part.out)])

\* sdp_get_size_for_service_search_attribute_response
ResponseSize(q) ==
  FoldLeft(LAMBDA n, r : IF Matches(r, q.pattern) THEN n + 3 + FilteredSize(r, q.want) ELSE n, 0, SdpRecords)

\* One record of sdp_handle_service_search_attribute_request: a record that does not fit
\* waits for the next part, unless it is the first of this one.
AddRecord(c, i, q) ==
  LET r == SdpRecords[i]
      size == FilteredSize(r, q.want)
      des == IF c.off = 0 THEN Des(size) ELSE <<>>
      part == FilterAttributes(r, q.want, c.off, c.max - Len(des))
  IN IF c.stop \/ i - 1 < q.cont.rec \/ ~Matches(r, q.pattern) THEN c
     ELSE IF c.off = 0 /\ size + 3 > c.max /\ ~c.first THEN [c EXCEPT !.stop = TRUE, !.rec = i - 1]
     ELSE [out |-> c.out \o des \o part.out, max |-> c.max - Len(des) - Len(part.out), first |-> FALSE, rec |-> i - 1,
           off |-> IF part.complete THEN 0 ELSE c.off + Len(part.out), stop |-> ~part.complete]

ServiceSearchAttribute(q) ==
  LET most == IF q.mtu - 12 < q.count THEN q.mtu - 12 ELSE q.count
      des == IF q.cont = Start THEN Des(ResponseSize(q)) ELSE <<>>
      all == FoldLeft(LAMBDA c, i : AddRecord(c, i, q),
                      [out |-> des, max |-> most - Len(des), first |-> TRUE, rec |-> 0, off |-> q.cont.off, stop |-> FALSE],
                      [i \in DOMAIN SdpRecords |-> i])
  IN Answer(all.out, IF all.stop THEN [rec |-> all.rec, off |-> all.off] ELSE End)

HandlePdu(q) ==
  CASE q.what = "search" -> ServiceSearch(q)
    [] q.what = "attribute" -> ServiceAttribute(q)
    [] q.what = "searchAttribute" -> ServiceSearchAttribute(q)
    [] OTHER -> Error

-----------------------------------------------------------------------------
(* Actions: sdp_packet_handler and sdp_try_respond.                        *)

\* sdp_try_respond: the response waits until L2CAP has a credit.
TryRespond(s) ==
  IF s.resp = Nothing \/ s.cid = 0 \/ ~s.can THEN sdp' = s /\ UNCHANGED sdpNet
  ELSE sdp' = [s EXCEPT !.resp = Nothing, !.can = FALSE] /\ sdpNet' = s.resp

SdpRequested ==
  /\ sdpAsk.what \notin {"idle", "open"} /\ ~sdpAsk.wait /\ ~sdpAsk.ended
  /\ sdpAsk' = [sdpAsk EXCEPT !.wait = TRUE]
  /\ TryRespond([sdp EXCEPT !.resp = HandlePdu(sdpAsk)])

\* L2CAP_EVENT_CREDITS or DAEMON_EVENT_HCI_PACKET_SENT
SdpCredit ==
  /\ ~sdp.can
  /\ TryRespond([sdp EXCEPT !.can = TRUE])
  /\ UNCHANGED sdpAsk

\* L2CAP_EVENT_INCOMING_CONNECTION, and L2CAP_EVENT_CHANNEL_CLOSED
SdpOpened ==
  /\ sdp.cid = 0 /\ sdpAsk.what = "idle"
  /\ sdp' = [cid |-> 1, resp |-> Nothing, can |-> TRUE] /\ sdpNet' = Nothing
  /\ sdpAsk' = [sdpAsk EXCEPT !.what = "open"]

SdpClosed ==
  /\ sdp.cid # 0
  /\ sdp' = [sdp EXCEPT !.cid = 0] /\ sdpNet' = Nothing
  /\ sdpAsk' = [what |-> "idle", wait |-> FALSE, got |-> <<>>, ended |-> FALSE]

-----------------------------------------------------------------------------
(* The phone.                                                              *)

SdpAsks ==
  /\ sdpAsk.what = "open"
  /\ \E what \in {"search", "attribute", "searchAttribute", "unknown"}, mtu \in SdpMtus, want \in SdpWanted :
     \E n \in IF what = "search" THEN 1 .. Len(SdpRecords) ELSE SdpCounts :
     \E r \in Range(SdpRecords) : \E handle \in {r.handle, 0}, pattern \in {r.uuids, {}} :
       sdpAsk' = [what |-> what, mtu |-> mtu, count |-> n, want |-> want, handle |-> handle, pattern |-> pattern,
                  cont |-> Start, wait |-> FALSE, got |-> <<>>, ended |-> FALSE]
  /\ UNCHANGED <<sdp, sdpNet>>

SdpAnswered ==
  /\ sdpNet # Nothing /\ sdpNet' = Nothing
  /\ sdpAsk' = IF sdpNet = Error THEN [sdpAsk EXCEPT !.wait = FALSE, !.ended = TRUE, !.got = <<"error">>]
               ELSE [sdpAsk EXCEPT !.wait = FALSE, !.got = @ \o sdpNet.out, !.cont = sdpNet.cont, !.ended = sdpNet.cont = End]
  /\ UNCHANGED sdp

SdpNext == SdpRequested \/ SdpCredit \/ SdpOpened \/ SdpClosed \/ SdpAsks \/ SdpAnswered

-----------------------------------------------------------------------------
(* Properties.                                                             *)

\* What an answer should be: all of it at once.
Filtered(r, want) ==
  LET wanted == SelectSeq(r.attrs, LAMBDA a : a.id \in want)
  IN FlattenSeq([i \in DOMAIN wanted |-> IdBytes(r, wanted[i]) \o ValueBytes(r, wanted[i])])
Whole(c) == Des(Len(c)) \o c
Expected(q) ==
  LET matching == SelectSeq(SdpRecords, LAMBDA r : Matches(r, q.pattern))
      named == SelectSeq(SdpRecords, LAMBDA r : r.handle = q.handle)
  IN CASE q.what = "search" -> [i \in 1 .. (IF Len(matching) < q.count THEN Len(matching) ELSE q.count) |-> matching[i].handle]
       [] q.what = "attribute" /\ named # <<>> -> Whole(Filtered(named[1], q.want))
       [] q.what = "searchAttribute" -> Whole(FlattenSeq([i \in DOMAIN matching |-> Whole(Filtered(matching[i], q.want))]))
       [] OTHER -> <<"error">>

\* The parts of an answer put together are the whole answer, with the lengths its headers
\* announce, wherever the limits of the phone cut it; each part but the last brings something,
\* and none exceeds the MTU (sdp_handle_service_*_request).
SdpAnswersWhole ==
  /\ sdpAsk.ended => sdpAsk.got = Expected(sdpAsk)
  /\ sdpNet.what = "answer" =>
       /\ sdpNet.cont # End => sdpNet.out # <<>>
       /\ sdpAsk.what # "search" => Len(sdpNet.out) <= sdpAsk.count /\ Len(sdpNet.out) + 12 <= sdpAsk.mtu + 2

\* A phone that waits for an answer has it on its way, or the response waits for a credit of L2CAP.
SdpResponds == sdpAsk.wait => sdpNet # Nothing \/ (sdp.resp # Nothing /\ ~sdp.can)
=============================================================================
