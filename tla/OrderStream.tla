----------------------------- MODULE OrderStream -----------------------------
(***************************************************************************)
(* Server-sent event streams: GET /v1/orders/:id/stream (api/orders.js),   *)
(* which polls its order every 500 ms, and GET /dashboard/stream           *)
(* (api/dashboard.js), which listens to the event bus (lib/event-bus.js);  *)
(* and the slots the two share.                                            *)
(*                                                                         *)
(* A handler, a timer and a `close` event each run to their end.  A write  *)
(* may throw at any time.  A stream that the server ends still gets its    *)
(* `close` event later.                                                    *)
(***************************************************************************)
EXTENDS Naturals, FiniteSets

CONSTANTS
  Orders,         \* each watched with a key of its own: the slot key of its streams
  Dashboards,     \* slot keys of the dashboards' streams
  Streams,        \* connections
  Nobody,         \* no slot key
  MAX_STREAMS_PER_KEY,
  MAX_STREAMS_TOTAL,
  MaxTime         \* bound on the clock of updated_at

SlotKeys == Orders \cup Dashboards

ASSUME SlotKeysDiffer == Orders \cap Dashboards = {} /\ Nobody \notin SlotKeys
ASSUME StreamLimitsAreNaturals ==
  MAX_STREAMS_PER_KEY \in Nat /\ MAX_STREAMS_TOTAL \in Nat /\ MaxTime \in Nat

VARIABLES
  order,              \* status and updated_at of an order
  now,                \* the clock, in milliseconds
  stream,             \* the closure of a stream's handler
  openStreamsByKey,
  openStreamsTotal,
  listening           \* streams whose listener is on the bus

streamVars == <<order, now, stream, openStreamsByKey, openStreamsTotal, listening>>
slots == <<openStreamsByKey, openStreamsTotal>>

-----------------------------------------------------------------------------
(* The orders.  updated_at is a time in milliseconds: two updates of one   *)
(* order are taken to be at least a millisecond apart.                     *)

LivePhases == {"ordering", "refund_pending"}
TERMINAL_STATUSES == {"delivered", "failed", "refunded"}
Statuses == LivePhases \cup TERMINAL_STATUSES

Follows(status) ==
  CASE status = "ordering" -> {"ordering", "delivered", "failed"}
    [] status = "failed" -> {"refund_pending"}
    [] status = "refund_pending" -> {"refunded"}
    [] OTHER -> {}

UpdateOrder(o, status) ==
  /\ status \in Follows(order[o].status)
  /\ order[o].updated_at < now
  /\ order' = [order EXCEPT ![o] = [status |-> status, updated_at |-> now]]
  /\ UNCHANGED <<now, stream, slots, listening>>

TimePasses ==
  /\ now < MaxTime
  /\ now' = now + 1
  /\ UNCHANGED <<order, stream, slots, listening>>

-----------------------------------------------------------------------------
(* The slots.                                                              *)

HasSlot(k) ==
  /\ openStreamsTotal < MAX_STREAMS_TOTAL
  /\ openStreamsByKey[k] < MAX_STREAMS_PER_KEY

tryAcquireStreamSlot(k) ==
  /\ openStreamsByKey' = [openStreamsByKey EXCEPT ![k] = @ + 1]
  /\ openStreamsTotal' = openStreamsTotal + 1

releaseStreamSlot(k) ==
  /\ openStreamsByKey' = [openStreamsByKey EXCEPT ![k] = IF @ <= 1 THEN 0 ELSE @ - 1]
  /\ openStreamsTotal' = IF openStreamsTotal > 0 THEN openStreamsTotal - 1 ELSE 0

-----------------------------------------------------------------------------
(* The streams.                                                            *)
(* at: "none", "open", "ended" by the server with the close event to come, *)
(* "gone"; "leaked" when the handler threw with a slot and no closeStream. *)
(* closed: the flag of closeStream.  last: lastUpdated.  sent: the status  *)
(* in the last event.                                                      *)

Stream ==
  [at: {"none", "open", "leaked", "ended", "gone"}, key: SlotKeys \cup {Nobody}, closed: BOOLEAN,
   last: 0 .. MaxTime, sent: Statuses \cup {"nothing"}]
NoStream == [at |-> "none", key |-> Nobody, closed |-> FALSE, last |-> 0, sent |-> "nothing"]

\* A fault: without the flag both ends of a stream release its slot.
ReleasesEachTime(s) == TRUE

StillToRelease(s) == ~stream[s].closed

\* closeStream(): ends what the stream holds, once.
Closed(s, at) ==
  [at |-> at, key |-> stream[s].key, closed |-> TRUE, last |-> stream[s].last,
   sent |-> stream[s].sent]
closeStream(s) ==
  IF StillToRelease(s)
  THEN releaseStreamSlot(stream[s].key) /\ listening' = listening \ {s}
  ELSE UNCHANGED <<slots, listening>>

\* Slot taken, headers and first state written, no terminal state: the timers run.
OpenOrderStream(s, o) ==
  /\ stream[s].at = "none" /\ HasSlot(o)
  /\ order[o].status \notin TERMINAL_STATUSES
  /\ tryAcquireStreamSlot(o)
  /\ stream' = [stream EXCEPT ![s] =
       [at |-> "open", key |-> o, closed |-> FALSE, last |-> order[o].updated_at,
        sent |-> order[o].status]]
  /\ UNCHANGED <<order, now, listening>>

\* The slot is taken and given back in the handler: a write threw, or the first
\* state is terminal already.
OpenOrderStreamEnds(s, o, sent) ==
  /\ stream[s].at = "none" /\ HasSlot(o)
  /\ sent \in {"nothing"} \cup ({order[o].status} \cap TERMINAL_STATUSES)
  /\ stream' = [stream EXCEPT ![s] =
       [at |-> "ended", key |-> o, closed |-> TRUE, last |-> order[o].updated_at, sent |-> sent]]
  /\ UNCHANGED <<order, now, slots, listening>>

\* A fault: updated_at is written as datetime('now') does, to the second.
FreshBySecond(s, o) == order[o].updated_at \div 2 # stream[s].last \div 2

\* The 500 ms tick finds another updated_at.
NeedsEvent(s, o) == order[o].updated_at # stream[s].last

Emitted(s, o) ==
  [at |-> IF order[o].status \in TERMINAL_STATUSES THEN "ended" ELSE "open",
   key |-> o, closed |-> order[o].status \in TERMINAL_STATUSES,
   last |-> order[o].updated_at, sent |-> order[o].status]

Tick(s, o) ==
  /\ stream[s].at = "open" /\ stream[s].key = o
  /\ NeedsEvent(s, o)
  /\ stream' = [stream EXCEPT ![s] = Emitted(s, o)]
  /\ IF order[o].status \in TERMINAL_STATUSES
     THEN closeStream(s) ELSE UNCHANGED <<slots, listening>>
  /\ UNCHANGED <<order, now>>

\* The row cannot be read or written out, or a keep-alive or an event cannot be
\* sent: the stream closes itself.
WriteThrows(s) ==
  /\ stream[s].at = "open"
  /\ stream' = [stream EXCEPT ![s] = Closed(s, "ended")]
  /\ closeStream(s)
  /\ UNCHANGED <<order, now>>

\* The close event: the client went away, or the server had ended the stream.
ConnectionCloses(s) ==
  /\ stream[s].at \in {"open", "ended"}
  /\ stream' = [stream EXCEPT ![s] = Closed(s, "gone")]
  /\ closeStream(s)
  /\ UNCHANGED <<order, now>>

\* GET /dashboard/stream; `ready` cannot be sent when it throws.
OpenDashboardStream(s, d) ==
  /\ stream[s].at = "none" /\ HasSlot(d)
  /\ tryAcquireStreamSlot(d)
  /\ stream' = [stream EXCEPT ![s] =
       [at |-> "open", key |-> d, closed |-> FALSE, last |-> 0, sent |-> "nothing"]]
  /\ listening' = listening \cup {s}
  /\ UNCHANGED <<order, now>>

\* The keys of the dashboard cannot be read: the slot is taken, closeStream and the
\* listener for `close` are not there yet, and nobody gives the slot back.
OpenDashboardStreamThrows(s, d) ==
  /\ stream[s].at = "none" /\ HasSlot(d)
  /\ tryAcquireStreamSlot(d)
  /\ stream' = [stream EXCEPT ![s] =
       [at |-> "leaked", key |-> d, closed |-> FALSE, last |-> 0, sent |-> "nothing"]]
  /\ UNCHANGED <<order, now, listening>>

\* The headers throw: closed before it subscribes.  `ready` throws: closeStream
\* runs while unsubscribe is still null, and the handler subscribes afterwards.
OpenDashboardStreamEnds(s, d, readyThrew) ==
  /\ stream[s].at = "none" /\ HasSlot(d)
  /\ stream' = [stream EXCEPT ![s] =
       [at |-> "ended", key |-> d, closed |-> TRUE, last |-> 0,
        sent |-> "nothing"]]
  /\ listening' = IF readyThrew THEN listening \cup {s} ELSE listening
  /\ UNCHANGED <<order, now, slots>>

StreamInit ==
  /\ order = [o \in Orders |-> [status |-> "ordering", updated_at |-> 0]]
  /\ now = 0
  /\ stream = [s \in Streams |-> NoStream]
  /\ openStreamsByKey = [k \in SlotKeys |-> 0]
  /\ openStreamsTotal = 0
  /\ listening = {}

StreamNext ==
  \/ TimePasses
  \/ \E o \in Orders, status \in Statuses : UpdateOrder(o, status)
  \/ \E s \in Streams : WriteThrows(s) \/ ConnectionCloses(s)
  \/ \E s \in Streams, o \in Orders : OpenOrderStream(s, o) \/ Tick(s, o)
  \/ \E s \in Streams, o \in Orders, sent \in TERMINAL_STATUSES \cup {"nothing"} :
       OpenOrderStreamEnds(s, o, sent)
  \/ \E s \in Streams, d \in Dashboards :
       OpenDashboardStream(s, d) \/ OpenDashboardStreamThrows(s, d)
  \/ \E s \in Streams, d \in Dashboards, readyThrew \in BOOLEAN :
       OpenDashboardStreamEnds(s, d, readyThrew)

\* The 500 ms timer of an open stream keeps firing.
StreamFairness == \A s \in Streams : WF_streamVars(\E o \in Orders : Tick(s, o))

StreamSpec == StreamInit /\ [][StreamNext]_streamVars
StreamFairSpec == StreamSpec /\ StreamFairness

-----------------------------------------------------------------------------
\* The type of every variable.
StreamTypeOK ==
  /\ order \in [Orders -> [status: Statuses, updated_at: 0 .. MaxTime]]
  /\ now \in 0 .. MaxTime
  /\ stream \in [Streams -> Stream]
  /\ openStreamsByKey \in [SlotKeys -> Nat]
  /\ openStreamsTotal \in Nat
  /\ listening \subseteq Streams

\* The streams whose slot is still to be given back, or never will be.
Holds(r) == r.at \in {"open", "leaked"}
Holding == {s \in Streams : Holds(stream[s])}
HoldingOf(k) == {s \in Holding : stream[s].key = k}

\* closeStream has run for the streams that have ended, and for no other.
FlagsMatch ==
  \A s \in Streams :
    /\ stream[s].at = "none" <=> stream[s].key = Nobody
    /\ stream[s].closed <=> stream[s].at \in {"ended", "gone"}

\* The counters are the streams that are open and those of the one path that leaks
\* its slot (api/dashboard.js 91-93), per key and in total, whichever way and however
\* often a stream ends; no key and no server exceeds its limit.
SlotsMatch ==
  /\ \A k \in SlotKeys :
       /\ openStreamsByKey[k] = Cardinality(HoldingOf(k))
       /\ openStreamsByKey[k] <= MAX_STREAMS_PER_KEY
  /\ IsFiniteSet(Holding) /\ openStreamsTotal = Cardinality(Holding)
  /\ openStreamsTotal <= MAX_STREAMS_TOTAL

\* The bus has the listener of every open dashboard stream, and apart from the
\* streams whose `ready` threw no other.
ListenersAreStreams ==
  \A s \in Streams :
    /\ stream[s].at = "open" => (s \in listening <=> stream[s].key \in Dashboards)
    /\ s \in listening => stream[s].key \in Dashboards

\* The row an open stream saw last is the one it told its client about.
SentMatchesLast ==
  \A s \in Streams, o \in Orders :
    stream[s].at = "open" /\ stream[s].key = o
      => /\ stream[s].last <= order[o].updated_at
         /\ stream[s].sent \notin TERMINAL_STATUSES
         /\ stream[s].last = order[o].updated_at => stream[s].sent = order[o].status

\* The bookkeeping of the streams (api/orders.js tryAcquireStreamSlot,
\* releaseStreamSlot, closeStream; api/dashboard.js /stream).
StreamInv ==
  StreamTypeOK /\ FlagsMatch /\ SlotsMatch /\ ListenersAreStreams /\ SentMatchesLast

\* A stream that is open when its order reaches a terminal status ends: it sends
\* that status, or it breaks, or the order has moved on (a failed order may be
\* waiting for its refund when the tick looks).
OutcomeIsStreamed ==
  \A s \in Streams, o \in Orders :
    stream[s].at = "open" /\ stream[s].key = o /\ order[o].status \in TERMINAL_STATUSES
      ~> stream[s].at # "open" \/ order[o].status = "refund_pending"
================================================================================
