------------------------------- MODULE Relay --------------------------------
(***************************************************************************)
(* Broker::run: the threads that relay IQ samples between radios.          *)
(*                                                                         *)
(* Every device has a ring fed by its puller thread (REQ socket to the     *)
(* radio's TX) and a server thread (REP socket to the radio's RX).  A link *)
(* joins a source ring to a destination's server, which keeps a cursor     *)
(* into that ring.  One action is one critical section of a ring mutex, or *)
(* the code of one thread between two of them.  A sample is named by its   *)
(* sequence number; what the channel processor does to it is not modelled  *)
(* here.  The radios are external and lock-step: a radio transmits at most *)
(* Lead samples more than it has received.                                 *)
(***************************************************************************)
EXTENDS IqWindow, FiniteSets

CONSTANTS
  Dev,         \* devices of the topology
  Link,        \* links, numbered in the order of the configuration
  Src, Dst,    \* source and destination device of a link
  Batch,       \* resolve_batch_samples of a device
  Queue,       \* runtime.queue_samples, the capacity of every ring
  Rate,        \* sample_rate_hz: served samples after which the throttle rebases
  MsgSizes,    \* sizes of the messages a radio may answer a pull with
  Lead,        \* samples a radio may transmit ahead of what it received
  MaxSamples,  \* bound: samples one radio transmits
  MaxLate,     \* bound: starvations counted before deadlines stop passing
  CanStop      \* whether a signal or the duration may end the run

In(d)  == {l \in Link : Dst[l] = d}
Out(d) == {l \in Link : Src[l] = d}

ASSUME TopologyAssumption ==
  /\ Link \subseteq Nat
  /\ Src \in [Link -> Dev]
  /\ Dst \in [Link -> Dev]
  /\ \A d \in Dev : In(d) # {} /\ Out(d) # {}

ASSUME RuntimeAssumption ==
  /\ Batch \in [Dev -> Nat \ {0}]
  /\ Queue \in Nat
  /\ \A d \in Dev : Queue >= 2 * Batch[d]
  /\ Rate \in [Dev -> Nat \ {0}]

ASSUME RadioAssumption ==
  /\ MsgSizes \subseteq Nat
  /\ Lead \in [Dev -> Nat]
  /\ MaxSamples \in Nat
  /\ MaxLate \in Nat
  /\ CanStop \in BOOLEAN

VARIABLES
  ring,                 \* tx_ring of each device
  cursor, cursor_init,  \* of each link
  puller,               \* where each puller thread is
  request_outstanding, pending, pending_counted,
  server,               \* where each server thread is
  epoch_set, todo, serve, served, starvation_counted,
  late,                 \* the wait for data has passed starvation_deadline
  pull, pulled,         \* request/reply exchange with the radio's TX
  rx, reply,            \* request/reply exchange with the radio's RX
  tx_sent, rx_consumed, \* the lock-step counters of each radio
  stop_requested, joined, stats

pullerVars == <<puller, request_outstanding, pending, pending_counted>>
linkVars   == <<cursor, cursor_init>>
serverVars == <<server, epoch_set, todo, serve, served, starvation_counted, late>>
pullWire   == <<pull, pulled>>
rxWire     == <<rx, reply>>
radioVars  == <<tx_sent, rx_consumed>>
brokerVars == <<stop_requested, joined, stats>>
vars == <<ring, pullerVars, linkVars, serverVars, pullWire, rxWire, radioVars,
          brokerVars>>

Min2(a, b) == IF a <= b THEN a ELSE b
Bit(b) == IF b THEN 1 ELSE 0
Least(S) == CHOOSE x \in S : \A y \in S : x <= y

Counter == {"tx_pulls", "rx_requests", "rx_starvations", "tx_queue_overflows",
            "tx_sequence_gaps", "zmq_errors"}

Init ==
  /\ ring = [d \in Dev |-> EmptyWindow]
  /\ cursor = [l \in Link |-> 0]
  /\ cursor_init = [l \in Link |-> FALSE]
  /\ puller = [d \in Dev |-> "scan"]
  /\ request_outstanding = [d \in Dev |-> FALSE]
  /\ pending = [d \in Dev |-> 0]
  /\ pending_counted = [d \in Dev |-> FALSE]
  /\ server = [d \in Dev |-> "wait_req"]
  /\ epoch_set = [d \in Dev |-> FALSE]
  /\ todo = [d \in Dev |-> {}]
  /\ serve = [d \in Dev |-> 0]
  /\ served = [d \in Dev |-> 0]
  /\ starvation_counted = [d \in Dev |-> FALSE]
  /\ late = [d \in Dev |-> FALSE]
  /\ pull = [d \in Dev |-> "idle"]
  /\ pulled = [d \in Dev |-> 0]
  /\ rx = [d \in Dev |-> "idle"]
  /\ reply = [d \in Dev |-> 0]
  /\ tx_sent = [d \in Dev |-> 0]
  /\ rx_consumed = [d \in Dev |-> 0]
  /\ stop_requested = FALSE
  /\ joined = FALSE
  /\ stats = [c \in Counter |-> 0]

(***************************************************************************)
(* The puller thread of device d.                                          *)
(***************************************************************************)

\* Mutated forms of MinCursor: a link that has not joined holds nothing back;
\* the fastest reader decides.
MinCursorOfJoined(d) ==
  Least({ring[d].next} \cup {cursor[l] : l \in {m \in Out(d) : cursor_init[m]}})
MinCursorOfFastest(d) ==
  LET cursors == {cursor[l] : l \in Out(d)}
  IN  CHOOSE c \in cursors : \A e \in cursors : e <= c

\* The sequence before which d's ring may forget: an uninitialised link pins
\* the earliest sample, an initialised one the sample its cursor is at.
MinCursor(d) ==
  IF \E l \in Out(d) : ~cursor_init[l]
  THEN EarliestSequence(ring[d])
  ELSE LET slowest == Least({cursor[l] : l \in Out(d)})
       IN  Min2(ring[d].next, slowest)

AfterDiscard(d) == DiscardedBefore(ring[d], MinCursor(d))

\* Mutated form of AfterScan: the room is looked at before the held message.
AfterScanByRoom(d) ==
  IF FreeCapacity(AfterDiscard(d), Queue) < Batch[d] THEN "scan"
  ELSE IF request_outstanding[d] THEN "recv_reply"
  ELSE IF pending[d] > Batch[d] THEN "land"
  ELSE "send_req"

\* A held message is landed first, then room for a batch is waited for, and a
\* request that is out is not sent again.
AfterScan(d) ==
  IF pending[d] > 0 THEN "land"
  ELSE IF FreeCapacity(AfterDiscard(d), Queue) < Batch[d] THEN "scan"
  ELSE IF request_outstanding[d] THEN "recv_reply"
  ELSE "send_req"

\* The top of the loop: release, measure the room, choose what to do next.
Scan(d) ==
  /\ puller[d] = "scan"
  /\ ~stop_requested
  /\ ring' = [ring EXCEPT ![d] = AfterDiscard(d)]
  /\ puller' = [puller EXCEPT ![d] = AfterScan(d)]
  /\ UNCHANGED <<request_outstanding, pending, pending_counted, linkVars,
                 serverVars, pullWire, rxWire, radioVars, brokerVars>>

\* The held message has no room, and that has not been counted yet.
IsNewOverflow(d) ==
  ~CanPush(ring[d], pending[d], Queue) /\ ~pending_counted[d]

\* The held message goes into the ring, or waits for room and is counted once.
Land(d) ==
  /\ puller[d] = "land"
  /\ puller' = [puller EXCEPT ![d] = "scan"]
  /\ \/ /\ CanPush(ring[d], pending[d], Queue)
        /\ ring' = [ring EXCEPT ![d] = Pushed(@, pending[d])]
        /\ pending' = [pending EXCEPT ![d] = 0]
        /\ pending_counted' = [pending_counted EXCEPT ![d] = FALSE]
        /\ stats' = [stats EXCEPT !["tx_pulls"] = @ + 1]
     \/ /\ ~CanPush(ring[d], pending[d], Queue)
        /\ pending_counted' = [pending_counted EXCEPT ![d] = TRUE]
        /\ stats' = [stats EXCEPT !["tx_queue_overflows"] =
                       @ + Bit(IsNewOverflow(d))]
        /\ UNCHANGED <<ring, pending>>
  /\ UNCHANGED <<request_outstanding, linkVars, serverVars, pullWire, rxWire,
                 radioVars, stop_requested, joined>>

\* zmq_send of the pull request.
SendRequest(d) ==
  /\ puller[d] = "send_req"
  /\ request_outstanding' = [request_outstanding EXCEPT ![d] = TRUE]
  /\ pull' = [pull EXCEPT ![d] = "asked"]
  /\ puller' = [puller EXCEPT ![d] = "recv_reply"]
  /\ UNCHANGED <<ring, pending, pending_counted, linkVars, serverVars, pulled,
                 rxWire, radioVars, brokerVars>>

\* ZMQ_SNDTIMEO expires: nothing was sent, retry from the top.
SendTimeout(d) ==
  /\ puller[d] = "send_req"
  /\ puller' = [puller EXCEPT ![d] = "scan"]
  /\ UNCHANGED <<ring, request_outstanding, pending, pending_counted, linkVars,
                 serverVars, pullWire, rxWire, radioVars, brokerVars>>

\* A reply is held as pending; one larger than recv_buf ends the whole run.
RecvReply(d) ==
  /\ puller[d] = "recv_reply"
  /\ pull[d] = "answered"
  /\ pull' = [pull EXCEPT ![d] = "idle"]
  /\ pulled' = [pulled EXCEPT ![d] = 0]
  /\ \/ /\ pulled[d] <= Queue
        /\ request_outstanding' = [request_outstanding EXCEPT ![d] = FALSE]
        /\ pending' = [pending EXCEPT ![d] = pulled[d]]
        /\ puller' = [puller EXCEPT ![d] = "scan"]
        /\ UNCHANGED <<stop_requested, stats>>
     \/ /\ pulled[d] > Queue
        /\ puller' = [puller EXCEPT ![d] = "stopped"]
        /\ stop_requested' = TRUE
        /\ stats' = [stats EXCEPT !["zmq_errors"] = @ + 1]
        /\ UNCHANGED <<request_outstanding, pending>>
  /\ UNCHANGED <<ring, pending_counted, linkVars, serverVars, rxWire,
                 radioVars, joined>>

\* Mutated form of RecvTimeout: the request is given up.
RecvTimeoutGivesUp(d) ==
  /\ puller[d] = "recv_reply"
  /\ pull[d] # "answered"
  /\ puller' = [puller EXCEPT ![d] = "scan"]
  /\ request_outstanding' = [request_outstanding EXCEPT ![d] = FALSE]
  /\ UNCHANGED <<ring, pending, pending_counted, linkVars, serverVars, pullWire,
                 rxWire, radioVars, brokerVars>>

\* ZMQ_RCVTIMEO expires: the request stays outstanding.
RecvTimeout(d) ==
  /\ puller[d] = "recv_reply"
  /\ pull[d] # "answered"
  /\ puller' = [puller EXCEPT ![d] = "scan"]
  /\ UNCHANGED <<ring, request_outstanding, pending, pending_counted, linkVars,
                 serverVars, pullWire, rxWire, radioVars, brokerVars>>

PullerExit(d) ==
  /\ puller[d] = "scan"
  /\ stop_requested
  /\ puller' = [puller EXCEPT ![d] = "stopped"]
  /\ UNCHANGED <<ring, request_outstanding, pending, pending_counted, linkVars,
                 serverVars, pullWire, rxWire, radioVars, brokerVars>>

Puller(d) ==
  Scan(d) \/ Land(d) \/ SendRequest(d) \/ SendTimeout(d) \/ RecvReply(d)
    \/ RecvTimeout(d) \/ PullerExit(d)

(***************************************************************************)
(* The server thread of device d.  It visits its incoming links in order;  *)
(* todo[d] holds those the current pass has still to visit.                *)
(***************************************************************************)

IsNextLink(d, l) == l \in todo[d] /\ \A m \in todo[d] : l <= m

\* zmq_recv of a request from the radio's RX.
AcceptRequest(d) ==
  /\ server[d] = "wait_req"
  /\ ~stop_requested
  /\ rx[d] = "asked"
  /\ rx' = [rx EXCEPT ![d] = "accepted"]
  /\ server' = [server EXCEPT ![d] = IF epoch_set[d] THEN "fit" ELSE "align"]
  /\ todo' = [todo EXCEPT ![d] = In(d)]
  /\ serve' = [serve EXCEPT ![d] = Batch[d]]
  /\ UNCHANGED <<ring, pullerVars, linkVars, epoch_set, served,
                 starvation_counted, late, pullWire, reply, radioVars,
                 brokerVars>>

\* Mutated form of Epoch: a link joins at the live frontier of its source.
EpochAtFrontier(l) == ring[Src[l]].next

\* Where a link joins: the earliest sample its source's ring holds.
Epoch(l) == EarliestSequence(ring[Src[l]])

\* First serve: every incoming link joins, one ring mutex after the other.
AlignLink(d, l) ==
  /\ server[d] = "align"
  /\ IsNextLink(d, l)
  /\ cursor' = [cursor EXCEPT ![l] = Epoch(l)]
  /\ cursor_init' = [cursor_init EXCEPT ![l] = TRUE]
  /\ \/ /\ todo[d] # {l}
        /\ todo' = [todo EXCEPT ![d] = @ \ {l}]
        /\ UNCHANGED <<server, epoch_set>>
     \/ /\ todo[d] = {l}
        /\ todo' = [todo EXCEPT ![d] = In(d)]
        /\ server' = [server EXCEPT ![d] = "fit"]
        /\ epoch_set' = [epoch_set EXCEPT ![d] = TRUE]
  /\ UNCHANGED <<ring, pullerVars, serve, served, starvation_counted, late,
                 pullWire, rxWire, radioVars, brokerVars>>

\* The cursor a fit uses: one the ring has overtaken is snapped forward.
Snapped(l) ==
  IF cursor[l] < EarliestSequence(ring[Src[l]])
  THEN EarliestSequence(ring[Src[l]])
  ELSE cursor[l]

\* Mutated form of Common: the window of the last link alone.
CommonOfLast(d, l) == Min2(Batch[d], ring[Src[l]].next - Snapped(l))

\* What is common to the links fitted so far and link l.
Common(d, l) == Min2(serve[d], ring[Src[l]].next - Snapped(l))

\* Mutated form of Fits: a serve is a full batch.
FitsFullBatch(d, l) == Common(d, l) >= Batch[d]

\* Variable-size relay: any common window is served.
Fits(d, l) == Common(d, l) > 0

\* A poll that finds nothing is counted once per request, after the deadline.
IsNewStarvation(d) == served[d] > 0 /\ late[d] /\ ~starvation_counted[d]

\* One link of a pass that measures the common window.  The pass ends with a
\* window to serve, or with nothing: then it starts over, counting a wait that
\* is past the deadline once.
FitLink(d, l) ==
  LET last    == todo[d] = {l}
      starves == last /\ ~Fits(d, l) /\ IsNewStarvation(d)
  IN
  /\ server[d] = "fit"
  /\ IsNextLink(d, l)
  /\ todo[d] = In(d) => ~stop_requested
  /\ cursor' = [cursor EXCEPT ![l] = Snapped(l)]
  /\ stats' = [stats EXCEPT !["tx_sequence_gaps"] = @ + Bit(Snapped(l) # cursor[l]),
                            !["rx_starvations"] = @ + Bit(starves)]
  /\ \/ /\ ~last
        /\ todo' = [todo EXCEPT ![d] = @ \ {l}]
        /\ serve' = [serve EXCEPT ![d] = Common(d, l)]
        /\ UNCHANGED <<server, starvation_counted, late>>
     \/ /\ last /\ Fits(d, l)
        /\ todo' = [todo EXCEPT ![d] = In(d)]
        /\ serve' = [serve EXCEPT ![d] = Common(d, l)]
        /\ server' = [server EXCEPT ![d] = "read"]
        /\ starvation_counted' = [starvation_counted EXCEPT ![d] = FALSE]
        /\ late' = [late EXCEPT ![d] = FALSE]
     \/ /\ last /\ ~Fits(d, l)
        /\ todo' = [todo EXCEPT ![d] = In(d)]
        /\ serve' = [serve EXCEPT ![d] = Batch[d]]
        /\ starvation_counted' = [starvation_counted EXCEPT ![d] = @ \/ starves]
        /\ UNCHANGED <<server, late>>
  /\ UNCHANGED <<ring, pullerVars, cursor_init, epoch_set, served, pullWire,
                 rxWire, radioVars, stop_requested, joined>>

\* Mutated form of FitBreak: the wait for data does not look at stop.
FitBreakNever(d) == server[d] = "stopped" /\ FALSE /\ UNCHANGED vars

\* Stop requested while waiting for edge data.
FitBreak(d) ==
  /\ server[d] = "fit"
  /\ todo[d] = In(d)
  /\ stop_requested
  /\ server' = [server EXCEPT ![d] = "stopped"]
  /\ UNCHANGED <<ring, pullerVars, linkVars, epoch_set, todo, serve, served,
                 starvation_counted, late, pullWire, rxWire, radioVars,
                 brokerVars>>

\* Read the window from one link; a window the ring no longer holds throws.
ReadLink(d, l) ==
  /\ server[d] = "read"
  /\ IsNextLink(d, l)
  /\ \/ /\ CanRead(ring[Src[l]], cursor[l], serve[d])
        /\ server' = [server EXCEPT ![d] = "advance"]
        /\ UNCHANGED brokerVars
     \/ /\ ~CanRead(ring[Src[l]], cursor[l], serve[d])
        /\ server' = [server EXCEPT ![d] = "stopped"]
        /\ stop_requested' = TRUE
        /\ stats' = [stats EXCEPT !["zmq_errors"] = @ + 1]
        /\ UNCHANGED joined
  /\ UNCHANGED <<ring, pullerVars, linkVars, epoch_set, todo, serve, served,
                 starvation_counted, late, pullWire, rxWire, radioVars>>

\* Mutated form of Advanced: the cursor moves by the fixed batch.
AdvancedByBatch(d, l) == cursor[l] + Batch[d]

Advanced(d, l) == cursor[l] + serve[d]

\* The cursor moves after the ring mutex is released.
AdvanceCursor(d, l) ==
  /\ server[d] = "advance"
  /\ IsNextLink(d, l)
  /\ cursor' = [cursor EXCEPT ![l] = Advanced(d, l)]
  /\ todo' = [todo EXCEPT ![d] = @ \ {l}]
  /\ server' = [server EXCEPT ![d] = IF todo[d] = {l} THEN "send" ELSE "read"]
  /\ UNCHANGED <<ring, pullerVars, cursor_init, epoch_set, serve, served,
                 starvation_counted, late, pullWire, rxWire, radioVars,
                 brokerVars>>

\* Process, throttle and answer.  Once stop is requested the reply is not
\* sent, but the serve is counted all the same.
SendReply(d) ==
  /\ server[d] = "send"
  /\ \/ /\ ~stop_requested
        /\ rx' = [rx EXCEPT ![d] = "answered"]
        /\ reply' = [reply EXCEPT ![d] = serve[d]]
     \/ /\ stop_requested
        /\ UNCHANGED rxWire
  /\ served' = [served EXCEPT ![d] =
       IF @ + serve[d] >= Rate[d] THEN 0 ELSE @ + serve[d]]
  /\ serve' = [serve EXCEPT ![d] = 0]
  /\ stats' = [stats EXCEPT !["rx_requests"] = @ + 1]
  /\ server' = [server EXCEPT ![d] = "wait_req"]
  /\ UNCHANGED <<ring, pullerVars, linkVars, epoch_set, todo, starvation_counted,
                 late, pullWire, radioVars, stop_requested, joined>>

ServerExit(d) ==
  /\ server[d] = "wait_req"
  /\ stop_requested
  /\ server' = [server EXCEPT ![d] = "stopped"]
  /\ UNCHANGED <<ring, pullerVars, linkVars, epoch_set, todo, serve, served,
                 starvation_counted, late, pullWire, rxWire, radioVars,
                 brokerVars>>

ServerOnLink(d, l) ==
  AlignLink(d, l) \/ FitLink(d, l) \/ ReadLink(d, l) \/ AdvanceCursor(d, l)

Server(d) ==
  \/ AcceptRequest(d) \/ FitBreak(d) \/ SendReply(d) \/ ServerExit(d)
  \/ \E l \in In(d) : ServerOnLink(d, l)

(***************************************************************************)
(* The main thread.                                                        *)
(***************************************************************************)

\* SIGINT, SIGTERM or the end of the configured duration.
RequestStop ==
  /\ CanStop
  /\ ~stop_requested
  /\ stop_requested' = TRUE
  /\ UNCHANGED <<ring, pullerVars, linkVars, serverVars, pullWire, rxWire,
                 radioVars, joined, stats>>

JoinWorkers ==
  /\ stop_requested
  /\ ~joined
  /\ \A d \in Dev : puller[d] = "stopped" /\ server[d] = "stopped"
  /\ joined' = TRUE
  /\ UNCHANGED <<ring, pullerVars, linkVars, serverVars, pullWire, rxWire,
                 radioVars, stop_requested, stats>>

Main == RequestStop \/ JoinWorkers

(***************************************************************************)
(* The environment: the clock and the lock-step radios.                    *)
(***************************************************************************)

DeadlinePasses(d) ==
  /\ server[d] = "fit"
  /\ ~late[d]
  /\ stats["rx_starvations"] < MaxLate
  /\ late' = [late EXCEPT ![d] = TRUE]
  /\ UNCHANGED <<ring, pullerVars, linkVars, server, epoch_set, todo, serve,
                 served, starvation_counted, pullWire, rxWire, radioVars,
                 brokerVars>>

\* The radio answers a pull as soon as its lock-step budget allows.
RadioTransmit(d) ==
  /\ pull[d] = "asked"
  /\ \E n \in MsgSizes :
       /\ tx_sent[d] + n <= rx_consumed[d] + Lead[d]
       /\ tx_sent[d] + n <= MaxSamples
       /\ pulled' = [pulled EXCEPT ![d] = n]
       /\ tx_sent' = [tx_sent EXCEPT ![d] = @ + n]
  /\ pull' = [pull EXCEPT ![d] = "answered"]
  /\ UNCHANGED <<ring, pullerVars, linkVars, serverVars, rxWire, rx_consumed,
                 brokerVars>>

RadioRequest(d) ==
  /\ rx[d] = "idle"
  /\ rx' = [rx EXCEPT ![d] = "asked"]
  /\ UNCHANGED <<ring, pullerVars, linkVars, serverVars, pullWire, reply,
                 radioVars, brokerVars>>

RadioReceive(d) ==
  /\ rx[d] = "answered"
  /\ rx' = [rx EXCEPT ![d] = "idle"]
  /\ reply' = [reply EXCEPT ![d] = 0]
  /\ rx_consumed' = [rx_consumed EXCEPT ![d] = @ + reply[d]]
  /\ UNCHANGED <<ring, pullerVars, linkVars, serverVars, pullWire, tx_sent,
                 brokerVars>>

Radio(d) == RadioTransmit(d) \/ RadioRequest(d) \/ RadioReceive(d)

Next ==
  \/ Main
  \/ \E d \in Dev : Puller(d) \/ Server(d) \/ Radio(d) \/ DeadlinePasses(d)

Spec == Init /\ [][Next]_vars

(***************************************************************************)
(* Fairness: every worker is an operating-system thread that keeps being   *)
(* scheduled, and every wait of the code is bounded (the 50 us sleeps and  *)
(* the 100 ms socket timeouts), so a thread that can move does.  Nothing   *)
(* is assumed of signals and of deadlines.                                 *)
(***************************************************************************)
BrokerFairness ==
  /\ WF_vars(JoinWorkers)
  /\ \A d \in Dev : WF_vars(Puller(d)) /\ WF_vars(Server(d))

\* The lock-step radios keep pulling and transmitting, and stay connected: a
\* request that is tried again and again does not time out every time.
RadioFairness ==
  \A d \in Dev :
    /\ WF_vars(RadioTransmit(d)) /\ WF_vars(RadioRequest(d))
    /\ WF_vars(RadioReceive(d)) /\ SF_vars(SendRequest(d))

\* The broker alone, whatever the radios do.
BrokerSpec == Spec /\ BrokerFairness

FairSpec == BrokerSpec /\ RadioFairness

-----------------------------------------------------------------------------
(***************************************************************************)
(* Properties                                                              *)
(***************************************************************************)

RingTypeOK ==
  /\ ring \in [Dev -> [next : Nat, size : 0..Queue]]
  /\ \A d \in Dev : ring[d].size <= ring[d].next

LinkTypeOK ==
  /\ cursor \in [Link -> Nat]
  /\ cursor_init \in [Link -> BOOLEAN]

PullerTypeOK ==
  /\ puller \in [Dev -> {"scan", "land", "send_req", "recv_reply", "stopped"}]
  /\ request_outstanding \in [Dev -> BOOLEAN]
  /\ pending \in [Dev -> 0..Queue]
  /\ pending_counted \in [Dev -> BOOLEAN]

ServerTypeOK ==
  /\ server \in [Dev -> {"wait_req", "align", "fit", "read", "advance", "send",
                         "stopped"}]
  /\ epoch_set \in [Dev -> BOOLEAN]
  /\ todo \in [Dev -> SUBSET Link]
  /\ \A d \in Dev : todo[d] \subseteq In(d)
  /\ serve \in [Dev -> Nat]
  /\ \A d \in Dev : serve[d] <= Batch[d]
  /\ served \in [Dev -> Nat]
  /\ starvation_counted \in [Dev -> BOOLEAN]
  /\ late \in [Dev -> BOOLEAN]

WireTypeOK ==
  /\ pull \in [Dev -> {"idle", "asked", "answered"}]
  /\ pulled \in [Dev -> Nat]
  /\ rx \in [Dev -> {"idle", "asked", "accepted", "answered"}]
  /\ reply \in [Dev -> Nat]

RadioTypeOK ==
  /\ tx_sent \in [Dev -> Nat]
  /\ rx_consumed \in [Dev -> Nat]

BrokerTypeOK ==
  /\ stop_requested \in BOOLEAN
  /\ joined \in BOOLEAN
  /\ stats \in [Counter -> Nat]

\* Every variable keeps the type the code declares for it; a ring never holds
\* more than its capacity, a held message or a serve never more than its buffer.
TypeOK ==
  /\ RingTypeOK /\ LinkTypeOK /\ PullerTypeOK /\ ServerTypeOK /\ WireTypeOK
  /\ RadioTypeOK /\ BrokerTypeOK

\* No ring forgets a sample a link has still to read, and none before every
\* link out of it has joined: the gap branch of the server is unreachable.
CursorInWindow ==
  \A l \in Link :
    /\ EarliestSequence(ring[Src[l]]) <= cursor[l]
    /\ cursor[l] <= ring[Src[l]].next
    /\ ~cursor_init[l] => EarliestSequence(ring[Src[l]]) = 0

\* A measured window stays in the ring until the server has read it, although
\* the puller discards and pushes in between: a read never throws.
WindowHolds ==
  \A d \in Dev, l \in Link :
    /\ server[d] \in {"read", "advance"} /\ l \in todo[d]
       => cursor[l] + serve[d] <= ring[Src[l]].next
    /\ server[d] = "fit" /\ l \in In(d) \ todo[d]
       => cursor[l] + serve[d] <= ring[Src[l]].next

\* How far link l has been relayed, the pass under way not counted.
Position(l) ==
  LET d == Dst[l]
  IN  IF server[d] \in {"read", "advance", "send"} /\ l \notin todo[d]
      THEN cursor[l] - serve[d]
      ELSE cursor[l]

\* Superposition sums every edge of a node from a common epoch: the links into
\* a device never drift apart, whichever ring was filled first.
CommonEpoch ==
  \A l, m \in Link : Dst[l] = Dst[m] => Position(l) = Position(m)

\* Where a device's server is says which of its links have joined, and that a
\* link that has not joined is at the epoch every link starts from.
JoinState ==
  \A d \in Dev :
    /\ server[d] = "align" =>
         ~epoch_set[d] /\ \A l \in In(d) : cursor_init[l] <=> l \notin todo[d]
    /\ server[d] \in {"fit", "read", "advance", "send"} => epoch_set[d]
    /\ epoch_set[d] => \A l \in In(d) : cursor_init[l]
    /\ ~epoch_set[d] => \A l \in In(d) : cursor[l] = 0
    /\ ~epoch_set[d] /\ server[d] # "align" => \A l \in In(d) : ~cursor_init[l]
    /\ server[d] = "send" => todo[d] = {}

\* The inductive invariant of the relay.
RelayInv == JoinState /\ CursorInWindow /\ WindowHolds /\ CommonEpoch

\* Until stop, what a link has relayed is exactly what its device has received
\* or is being sent: no sample is skipped, repeated or lost on the way.
ExactlyOnce ==
  ~stop_requested =>
    \A l \in Link : Position(l) = rx_consumed[Dst[l]] + reply[Dst[l]]

\* What a radio sent that is neither on the wire, nor held by the puller, nor in
\* the ring.
Lost(d) == tx_sent[d] - (ring[d].next + pending[d] + pulled[d])

\* A message the radio sent is on the wire, held by the puller or in the ring, in
\* that order and in full, also while the run is being stopped.  Only one that no
\* ring could hold is refused: it takes its puller out, and nothing after it or
\* beside it is lost.
NothingDropped ==
  \A d \in Dev :
    \/ Lost(d) = 0
    \/ /\ Lost(d) \in MsgSizes /\ Lost(d) > Queue
       /\ puller[d] = "stopped" /\ stop_requested /\ stats["zmq_errors"] > 0

\* The fault counters that --strict-realtime checks: no gap ever, and an error
\* only if a radio may send more than a ring can hold.
NoFaults ==
  /\ stats["tx_sequence_gaps"] = 0
  /\ (\A n \in MsgSizes : n <= Queue) => stats["zmq_errors"] = 0

\* REQ and REP sockets are used in strict alternation, also across timeouts:
\* no second request while one is out, no reply without a request.
SocketDiscipline ==
  \A d \in Dev :
    /\ puller[d] = "send_req" => pull[d] = "idle"
    /\ puller[d] # "stopped" => (request_outstanding[d] <=> pull[d] # "idle")
    /\ server[d] = "wait_req" => rx[d] # "accepted" \/ stop_requested
    /\ server[d] \notin {"wait_req", "stopped"} => rx[d] = "accepted"

\* A lock-step topology never dead-locks: every radio ends up with every
\* sample there is, whatever the sizes of the messages and the order of joins.
AllDelivered ==
  <>(stop_requested \/ \A d \in Dev : rx_consumed[d] = MaxSamples)

\* Once stop is requested the run ends, whatever the radios do.
ShutdownCompletes == stop_requested ~> joined
====
