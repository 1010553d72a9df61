----------------------------- MODULE RelayProofs -----------------------------
(***************************************************************************)
(* What is proved of the relay for every topology, batch, queue and radio: *)
(* types, that no sample is lost between a ring and its readers, that the  *)
(* sockets alternate, and that every link delivers every sample once.      *)
(***************************************************************************)
EXTENDS Relay, TLAPS, WellFoundedInduction

Window == [next : Nat, size : 0..Queue]

-----------------------------------------------------------------------------
\* A nonempty set of naturals has its least element (ring floors are one).
LEMMA LeastExists ==
  ASSUME NEW S, S \subseteq Nat, S # {}
  PROVE  /\ Least(S) \in S
         /\ \A y \in S : Least(S) <= y
<1>1. IsWellFoundedOn(OpToRel(<, Nat), Nat)
  BY NatLessThanWellFounded
<1>2. PICK x \in S : \A y \in S : ~(<<y, x>> \in OpToRel(<, Nat))
  BY <1>1, WFMin, Zenon
<1>3. \A y \in S : x <= y
  <2> TAKE y \in S
  <2>1. ~(y < x)
    BY <1>2 DEF OpToRel
  <2> QED BY <2>1
<1> QED BY <1>3 DEF Least

\* Discarding keeps the frontier, and forgets nothing at or after `sequence'.
LEMMA DiscardedWindow ==
  ASSUME NEW r \in Window, r.size <= r.next, Queue \in Nat, NEW s \in Nat
  PROVE  /\ DiscardedBefore(r, s) \in Window
         /\ DiscardedBefore(r, s).next = r.next
         /\ DiscardedBefore(r, s).size <= r.size
         /\ EarliestSequence(r) <= EarliestSequence(DiscardedBefore(r, s))
         /\ EarliestSequence(DiscardedBefore(r, s)) > EarliestSequence(r)
              => EarliestSequence(DiscardedBefore(r, s)) <= s
  BY DEF Window, DiscardedBefore, EarliestSequence

\* Pushing what fits keeps the earliest sample and moves the frontier.
LEMMA PushedWindow ==
  ASSUME NEW r \in Window, r.size <= r.next, Queue \in Nat,
         NEW n \in Nat, CanPush(r, n, Queue)
  PROVE  /\ Pushed(r, n) \in Window
         /\ Pushed(r, n).size <= Pushed(r, n).next
         /\ Pushed(r, n).next = r.next + n
         /\ EarliestSequence(Pushed(r, n)) = EarliestSequence(r)
  BY DEF Window, CanPush, FreeCapacity, Pushed, EarliestSequence

\* The floor of a ring is a natural number and not above any cursor.
LEMMA MinCursorBound ==
  ASSUME TypeOK, NEW d \in Dev
  PROVE  /\ MinCursor(d) \in Nat
         /\ (\E l \in Out(d) : ~cursor_init[l])
              => MinCursor(d) = EarliestSequence(ring[d])
         /\ (\A l \in Out(d) : cursor_init[l])
              => \A l \in Out(d) : MinCursor(d) <= cursor[l]
<1> DEFINE cursors == {cursor[l] : l \in Out(d)}
<1>1. cursors \subseteq Nat /\ cursors # {}
  <2>1. cursor \in [Link -> Nat]
    BY DEF TypeOK, LinkTypeOK
  <2>2. Out(d) \subseteq Link /\ Out(d) # {}
    BY TopologyAssumption DEF Out
  <2> QED
    BY <2>1, <2>2
<1>2. Least(cursors) \in Nat /\ \A l \in Out(d) : Least(cursors) <= cursor[l]
  BY <1>1, LeastExists, Zenon
<1>3. ring[d].next \in Nat /\ EarliestSequence(ring[d]) \in Nat
  BY DEF TypeOK, RingTypeOK, EarliestSequence
<1>4. \A l \in Out(d) : cursor[l] \in Nat
  BY DEF TypeOK, LinkTypeOK, Out
<1>5. CASE \E l \in Out(d) : ~cursor_init[l]
  BY <1>3, <1>5 DEF MinCursor
<1>6. CASE \A l \in Out(d) : cursor_init[l]
  <2>1. MinCursor(d) = Min2(ring[d].next, Least(cursors))
    BY <1>6 DEF MinCursor
  <2> HIDE DEF cursors
  <2> QED
    BY <1>2, <1>3, <1>4, <1>6, <2>1 DEF Min2
<1> QED
  BY <1>5, <1>6

\* What a fit finds common is at most what it had, and at most what is there.
LEMMA CommonBound ==
  ASSUME TypeOK, CursorInWindow, NEW d \in Dev, NEW l \in Link
  PROVE  /\ Snapped(l) = cursor[l]
         /\ Common(d, l) \in Nat
         /\ Common(d, l) <= serve[d]
         /\ cursor[l] + Common(d, l) <= ring[Src[l]].next
  BY TopologyAssumption
  DEF TypeOK, RingTypeOK, LinkTypeOK, ServerTypeOK, CursorInWindow, Snapped,
      Common, Min2, EarliestSequence

-----------------------------------------------------------------------------
(***************************************************************************)
(* Types                                                                   *)
(***************************************************************************)

LEMMA InitTypeOK ==
  ASSUME Init
  PROVE  TypeOK
<1>1. RingTypeOK
  BY RuntimeAssumption DEF Init, RingTypeOK, EmptyWindow
<1>2. LinkTypeOK
  BY DEF Init, LinkTypeOK
<1>3. PullerTypeOK
  BY RuntimeAssumption DEF Init, PullerTypeOK
<1>4. ServerTypeOK
  BY RuntimeAssumption DEF Init, ServerTypeOK
<1>5. WireTypeOK /\ RadioTypeOK
  BY DEF Init, WireTypeOK, RadioTypeOK
<1>6. BrokerTypeOK
  BY DEF Init, BrokerTypeOK
<1> QED
  BY <1>1, <1>2, <1>3, <1>4, <1>5, <1>6 DEF TypeOK

LEMMA PullerTypes ==
  ASSUME TypeOK, NEW d \in Dev, Puller(d)
  PROVE  TypeOK'
<1> USE TopologyAssumption, RuntimeAssumption
<1>1. CASE Scan(d)
  <2>1. LinkTypeOK' /\ ServerTypeOK' /\ WireTypeOK' /\ RadioTypeOK' /\ BrokerTypeOK'
    BY <1>1
    DEF Scan, TypeOK, LinkTypeOK, ServerTypeOK, WireTypeOK, RadioTypeOK,
        BrokerTypeOK, linkVars, serverVars, pullWire, rxWire, radioVars,
        brokerVars
  <2>2. RingTypeOK'
    <3>1. /\ ring[d] \in Window /\ ring[d].size <= ring[d].next /\ Queue \in Nat
          /\ MinCursor(d) \in Nat
      BY MinCursorBound DEF TypeOK, RingTypeOK, Window
    <3>2. AfterDiscard(d) \in Window /\ AfterDiscard(d).size <= AfterDiscard(d).next
      <4> DEFINE after == DiscardedBefore(ring[d], MinCursor(d))
      <4>1. after \in Window /\ after.next = ring[d].next /\ after.size <= ring[d].size
        BY <3>1, DiscardedWindow
      <4> HIDE DEF after
      <4>2. after.size <= after.next
        BY <3>1, <4>1 DEF Window
      <4> QED BY <4>1, <4>2 DEF after, AfterDiscard
    <3>3. ring' = [ring EXCEPT ![d] = AfterDiscard(d)]
      BY <1>1 DEF Scan
    <3> HIDE DEF AfterDiscard
    <3> QED BY <3>2, <3>3 DEF TypeOK, RingTypeOK, Window
  <2>3. PullerTypeOK'
    BY <1>1 DEF Scan, TypeOK, PullerTypeOK, pullerVars, AfterScan
  <2> QED
    BY <2>1, <2>2, <2>3 DEF TypeOK
<1>2. CASE Land(d)
  <2>1. LinkTypeOK' /\ ServerTypeOK' /\ WireTypeOK' /\ RadioTypeOK'
    BY <1>2
    DEF Land, TypeOK, LinkTypeOK, ServerTypeOK, WireTypeOK, RadioTypeOK,
        linkVars, serverVars, pullWire, rxWire, radioVars
  <2>2. RingTypeOK'
    <3>1. /\ ring[d] \in Window /\ ring[d].size <= ring[d].next /\ Queue \in Nat
          /\ pending[d] \in Nat
      BY DEF TypeOK, RingTypeOK, PullerTypeOK, Window
    <3>2. CASE CanPush(ring[d], pending[d], Queue)
      <4>1. /\ Pushed(ring[d], pending[d]) \in Window
            /\ Pushed(ring[d], pending[d]).size <= Pushed(ring[d], pending[d]).next
        BY <3>1, <3>2, PushedWindow
      <4>2. ring' = [ring EXCEPT ![d] = Pushed(ring[d], pending[d])]
        BY <1>2, <3>2 DEF Land
      <4> QED BY <4>1, <4>2 DEF TypeOK, RingTypeOK, Window
    <3>3. CASE ~CanPush(ring[d], pending[d], Queue)
      BY <1>2, <3>3 DEF Land, TypeOK, RingTypeOK
    <3> QED BY <3>2, <3>3
  <2>3. PullerTypeOK'
    <3>1. puller' \in [Dev -> {"scan", "land", "send_req", "recv_reply", "stopped"}]
      BY <1>2 DEF Land, TypeOK, PullerTypeOK
    <3>2. pending' \in [Dev -> 0..Queue]
      BY <1>2 DEF Land, TypeOK, PullerTypeOK
    <3>3. pending_counted' \in [Dev -> BOOLEAN]
      BY <1>2 DEF Land, TypeOK, PullerTypeOK
    <3>4. request_outstanding' \in [Dev -> BOOLEAN]
      BY <1>2 DEF Land, TypeOK, PullerTypeOK
    <3> QED BY <3>1, <3>2, <3>3, <3>4 DEF PullerTypeOK
  <2>4. BrokerTypeOK'
    BY <1>2 DEF Land, TypeOK, BrokerTypeOK, brokerVars, Bit, Counter
  <2> QED
    BY <2>1, <2>2, <2>3, <2>4 DEF TypeOK
<1>3. CASE SendRequest(d)
  <2>1. RingTypeOK' /\ LinkTypeOK' /\ ServerTypeOK' /\ RadioTypeOK' /\ BrokerTypeOK'
    BY <1>3
    DEF SendRequest, TypeOK, RingTypeOK, LinkTypeOK, ServerTypeOK, RadioTypeOK,
        BrokerTypeOK, linkVars, serverVars, radioVars, brokerVars
  <2>2. PullerTypeOK'
    BY <1>3 DEF SendRequest, TypeOK, PullerTypeOK, pullerVars
  <2>3. WireTypeOK'
    BY <1>3 DEF SendRequest, TypeOK, WireTypeOK, pullWire, rxWire
  <2> QED
    BY <2>1, <2>2, <2>3 DEF TypeOK
<1>4. CASE SendTimeout(d)
  <2>1. RingTypeOK' /\ LinkTypeOK' /\ ServerTypeOK' /\ WireTypeOK'
        /\ RadioTypeOK' /\ BrokerTypeOK'
    BY <1>4
    DEF SendTimeout, TypeOK, RingTypeOK, LinkTypeOK, ServerTypeOK, WireTypeOK,
        RadioTypeOK, BrokerTypeOK, linkVars, serverVars, pullWire, rxWire,
        radioVars, brokerVars
  <2>2. PullerTypeOK'
    BY <1>4 DEF SendTimeout, TypeOK, PullerTypeOK, pullerVars
  <2> QED
    BY <2>1, <2>2 DEF TypeOK
<1>5. CASE RecvReply(d)
  <2>1. RingTypeOK' /\ LinkTypeOK' /\ ServerTypeOK' /\ RadioTypeOK'
    BY <1>5
    DEF RecvReply, TypeOK, RingTypeOK, LinkTypeOK, ServerTypeOK, RadioTypeOK,
        linkVars, serverVars, radioVars
  <2>2. PullerTypeOK'
    <3>1. puller' \in [Dev -> {"scan", "land", "send_req", "recv_reply", "stopped"}]
      BY <1>5 DEF RecvReply, TypeOK, PullerTypeOK
    <3>2. pending' \in [Dev -> 0..Queue]
      BY <1>5 DEF RecvReply, TypeOK, PullerTypeOK, WireTypeOK
    <3>3. request_outstanding' \in [Dev -> BOOLEAN]
      BY <1>5 DEF RecvReply, TypeOK, PullerTypeOK
    <3>4. pending_counted' \in [Dev -> BOOLEAN]
      BY <1>5 DEF RecvReply, TypeOK, PullerTypeOK
    <3> QED BY <3>1, <3>2, <3>3, <3>4 DEF PullerTypeOK
  <2>3. WireTypeOK'
    BY <1>5 DEF RecvReply, TypeOK, WireTypeOK, pullWire, rxWire
  <2>4. BrokerTypeOK'
    <3>1. stop_requested' \in BOOLEAN /\ joined' \in BOOLEAN
      BY <1>5 DEF RecvReply, TypeOK, BrokerTypeOK
    <3>2. stats' \in [Counter -> Nat]
      BY <1>5 DEF RecvReply, TypeOK, BrokerTypeOK, Counter
    <3> QED BY <3>1, <3>2 DEF BrokerTypeOK
  <2> QED
    BY <2>1, <2>2, <2>3, <2>4 DEF TypeOK
<1>6. CASE RecvTimeout(d)
  <2>1. RingTypeOK' /\ LinkTypeOK' /\ ServerTypeOK' /\ WireTypeOK'
        /\ RadioTypeOK' /\ BrokerTypeOK'
    BY <1>6
    DEF RecvTimeout, TypeOK, RingTypeOK, LinkTypeOK, ServerTypeOK, WireTypeOK,
        RadioTypeOK, BrokerTypeOK, linkVars, serverVars, pullWire, rxWire,
        radioVars, brokerVars
  <2>2. PullerTypeOK'
    BY <1>6 DEF RecvTimeout, TypeOK, PullerTypeOK, pullerVars
  <2> QED
    BY <2>1, <2>2 DEF TypeOK
<1>7. CASE PullerExit(d)
  <2>1. RingTypeOK' /\ LinkTypeOK' /\ ServerTypeOK' /\ WireTypeOK'
        /\ RadioTypeOK' /\ BrokerTypeOK'
    BY <1>7
    DEF PullerExit, TypeOK, RingTypeOK, LinkTypeOK, ServerTypeOK, WireTypeOK,
        RadioTypeOK, BrokerTypeOK, linkVars, serverVars, pullWire, rxWire,
        radioVars, brokerVars
  <2>2. PullerTypeOK'
    BY <1>7 DEF PullerExit, TypeOK, PullerTypeOK, pullerVars
  <2> QED
    BY <2>1, <2>2 DEF TypeOK
<1> QED
  BY <1>1, <1>2, <1>3, <1>4, <1>5, <1>6, <1>7 DEF Puller

LEMMA ServerTypes ==
  ASSUME TypeOK, CursorInWindow, NEW d \in Dev, Server(d)
  PROVE  TypeOK'
<1> USE TopologyAssumption, RuntimeAssumption
<1>1. CASE AcceptRequest(d)
  <2>1. RingTypeOK' /\ LinkTypeOK' /\ PullerTypeOK' /\ RadioTypeOK' /\ BrokerTypeOK'
    BY <1>1
    DEF AcceptRequest, TypeOK, RingTypeOK, LinkTypeOK, PullerTypeOK,
        RadioTypeOK, BrokerTypeOK, linkVars, pullerVars, radioVars, brokerVars
  <2>2. ServerTypeOK'
    BY <1>1 DEF AcceptRequest, TypeOK, ServerTypeOK, serverVars, In
  <2>3. WireTypeOK'
    BY <1>1 DEF AcceptRequest, TypeOK, WireTypeOK, pullWire, rxWire
  <2> QED
    BY <2>1, <2>2, <2>3 DEF TypeOK
<1>2. CASE FitBreak(d)
  <2>1. RingTypeOK' /\ LinkTypeOK' /\ PullerTypeOK' /\ WireTypeOK'
        /\ RadioTypeOK' /\ BrokerTypeOK'
    BY <1>2
    DEF FitBreak, TypeOK, RingTypeOK, LinkTypeOK, PullerTypeOK, WireTypeOK,
        RadioTypeOK, BrokerTypeOK, linkVars, pullerVars, pullWire, rxWire,
        radioVars, brokerVars
  <2>2. ServerTypeOK'
    BY <1>2 DEF FitBreak, TypeOK, ServerTypeOK, serverVars
  <2> QED
    BY <2>1, <2>2 DEF TypeOK
<1>3. CASE SendReply(d)
  <2>1. RingTypeOK' /\ LinkTypeOK' /\ PullerTypeOK' /\ RadioTypeOK'
    BY <1>3
    DEF SendReply, TypeOK, RingTypeOK, LinkTypeOK, PullerTypeOK, RadioTypeOK,
        linkVars, pullerVars, radioVars
  <2>2. ServerTypeOK'
    BY <1>3 DEF SendReply, TypeOK, ServerTypeOK, serverVars
  <2>3. WireTypeOK'
    <3>1. pull' \in [Dev -> {"idle", "asked", "answered"}] /\ pulled' \in [Dev -> Nat]
      BY <1>3 DEF SendReply, TypeOK, WireTypeOK, pullWire
    <3>2. rx' \in [Dev -> {"idle", "asked", "accepted", "answered"}]
      BY <1>3 DEF SendReply, TypeOK, WireTypeOK, rxWire
    <3>3. reply' \in [Dev -> Nat]
      BY <1>3 DEF SendReply, TypeOK, WireTypeOK, ServerTypeOK, rxWire
    <3> QED BY <3>1, <3>2, <3>3 DEF WireTypeOK
  <2>4. BrokerTypeOK'
    BY <1>3 DEF SendReply, TypeOK, BrokerTypeOK, brokerVars, Counter
  <2> QED
    BY <2>1, <2>2, <2>3, <2>4 DEF TypeOK
<1>4. CASE ServerExit(d)
  <2>1. RingTypeOK' /\ LinkTypeOK' /\ PullerTypeOK' /\ WireTypeOK'
        /\ RadioTypeOK' /\ BrokerTypeOK'
    BY <1>4
    DEF ServerExit, TypeOK, RingTypeOK, LinkTypeOK, PullerTypeOK, WireTypeOK,
        RadioTypeOK, BrokerTypeOK, linkVars, pullerVars, pullWire, rxWire,
        radioVars, brokerVars
  <2>2. ServerTypeOK'
    BY <1>4 DEF ServerExit, TypeOK, ServerTypeOK, serverVars
  <2> QED
    BY <2>1, <2>2 DEF TypeOK
<1>5. ASSUME NEW l \in In(d), AlignLink(d, l)
      PROVE  TypeOK'
  <2>1. RingTypeOK' /\ PullerTypeOK' /\ WireTypeOK' /\ RadioTypeOK' /\ BrokerTypeOK'
    BY <1>5
    DEF AlignLink, TypeOK, RingTypeOK, PullerTypeOK, WireTypeOK, RadioTypeOK,
        BrokerTypeOK, pullerVars, pullWire, rxWire, radioVars, brokerVars
  <2>2. LinkTypeOK'
    <3>1. Epoch(l) \in Nat
      BY DEF TypeOK, RingTypeOK, Epoch, EarliestSequence, In
    <3> QED BY <1>5, <3>1 DEF AlignLink, TypeOK, LinkTypeOK
  <2>3. ServerTypeOK'
    <3>1. server' \in [Dev -> {"wait_req", "align", "fit", "read", "advance",
                               "send", "stopped"}]
      BY <1>5 DEF AlignLink, TypeOK, ServerTypeOK
    <3>2. epoch_set' \in [Dev -> BOOLEAN]
      BY <1>5 DEF AlignLink, TypeOK, ServerTypeOK
    <3>3. /\ todo' \in [Dev -> SUBSET Link]
          /\ \A e \in Dev : todo'[e] \subseteq In(e)
      BY <1>5 DEF AlignLink, TypeOK, ServerTypeOK, In
    <3>4. /\ serve' \in [Dev -> Nat]
          /\ \A e \in Dev : serve'[e] <= Batch[e]
      BY <1>5 DEF AlignLink, TypeOK, ServerTypeOK
    <3>5. served' \in [Dev -> Nat]
      BY <1>5 DEF AlignLink, TypeOK, ServerTypeOK
    <3>6. /\ starvation_counted' \in [Dev -> BOOLEAN]
          /\ late' \in [Dev -> BOOLEAN]
      BY <1>5 DEF AlignLink, TypeOK, ServerTypeOK
    <3> QED BY <3>1, <3>2, <3>3, <3>4, <3>5, <3>6 DEF ServerTypeOK
  <2> QED
    BY <2>1, <2>2, <2>3 DEF TypeOK
<1>6. ASSUME NEW l \in In(d), FitLink(d, l)
      PROVE  TypeOK'
  <2>1. RingTypeOK' /\ PullerTypeOK' /\ WireTypeOK' /\ RadioTypeOK'
    BY <1>6
    DEF FitLink, TypeOK, RingTypeOK, PullerTypeOK, WireTypeOK, RadioTypeOK,
        pullerVars, pullWire, rxWire, radioVars
  <2>2. LinkTypeOK'
    <3>1. Snapped(l) \in Nat
      BY CommonBound DEF TypeOK, LinkTypeOK, In
    <3> QED BY <1>6, <3>1 DEF FitLink, TypeOK, LinkTypeOK
  <2>3. ServerTypeOK'
    <3>0. Common(d, l) \in Nat /\ Common(d, l) <= serve[d]
      BY CommonBound DEF In
    <3>1. server' \in [Dev -> {"wait_req", "align", "fit", "read", "advance",
                               "send", "stopped"}]
      BY <1>6 DEF FitLink, TypeOK, ServerTypeOK
    <3>2. epoch_set' \in [Dev -> BOOLEAN]
      BY <1>6 DEF FitLink, TypeOK, ServerTypeOK
    <3>3. /\ todo' \in [Dev -> SUBSET Link]
          /\ \A e \in Dev : todo'[e] \subseteq In(e)
      BY <1>6 DEF FitLink, TypeOK, ServerTypeOK, In
    <3>4. /\ serve' \in [Dev -> Nat]
          /\ \A e \in Dev : serve'[e] <= Batch[e]
      BY <1>6, <3>0 DEF FitLink, TypeOK, ServerTypeOK
    <3>5. served' \in [Dev -> Nat]
      BY <1>6 DEF FitLink, TypeOK, ServerTypeOK
    <3>6. /\ starvation_counted' \in [Dev -> BOOLEAN]
          /\ late' \in [Dev -> BOOLEAN]
      BY <1>6 DEF FitLink, TypeOK, ServerTypeOK
    <3> QED BY <3>1, <3>2, <3>3, <3>4, <3>5, <3>6 DEF ServerTypeOK
  <2>4. BrokerTypeOK'
    BY <1>6 DEF FitLink, TypeOK, BrokerTypeOK, brokerVars, Bit, Counter
  <2> QED
    BY <2>1, <2>2, <2>3, <2>4 DEF TypeOK
<1>7. ASSUME NEW l \in In(d), ReadLink(d, l)
      PROVE  TypeOK'
  <2>1. RingTypeOK' /\ LinkTypeOK' /\ PullerTypeOK' /\ WireTypeOK' /\ RadioTypeOK'
    BY <1>7
    DEF ReadLink, TypeOK, RingTypeOK, LinkTypeOK, PullerTypeOK, WireTypeOK,
        RadioTypeOK, linkVars, pullerVars, pullWire, rxWire, radioVars
  <2>2. ServerTypeOK'
    BY <1>7 DEF ReadLink, TypeOK, ServerTypeOK, serverVars
  <2>3. BrokerTypeOK'
    <3>1. stop_requested' \in BOOLEAN /\ joined' \in BOOLEAN
      BY <1>7 DEF ReadLink, TypeOK, BrokerTypeOK, brokerVars
    <3>2. stats' \in [Counter -> Nat]
      BY <1>7 DEF ReadLink, TypeOK, BrokerTypeOK, Counter, brokerVars
    <3> QED BY <3>1, <3>2 DEF BrokerTypeOK
  <2> QED
    BY <2>1, <2>2, <2>3 DEF TypeOK
<1>8. ASSUME NEW l \in In(d), AdvanceCursor(d, l)
      PROVE  TypeOK'
  <2>1. RingTypeOK' /\ PullerTypeOK' /\ WireTypeOK' /\ RadioTypeOK' /\ BrokerTypeOK'
    BY <1>8
    DEF AdvanceCursor, TypeOK, RingTypeOK, PullerTypeOK, WireTypeOK,
        RadioTypeOK, BrokerTypeOK, pullerVars, pullWire, rxWire, radioVars,
        brokerVars
  <2>2. LinkTypeOK'
    <3>1. Advanced(d, l) \in Nat
      BY DEF TypeOK, LinkTypeOK, ServerTypeOK, Advanced, In
    <3> QED BY <1>8, <3>1 DEF AdvanceCursor, TypeOK, LinkTypeOK
  <2>3. ServerTypeOK'
    BY <1>8 DEF AdvanceCursor, TypeOK, ServerTypeOK, serverVars
  <2> QED
    BY <2>1, <2>2, <2>3 DEF TypeOK
<1> QED
  BY <1>1, <1>2, <1>3, <1>4, <1>5, <1>6, <1>7, <1>8 DEF Server, ServerOnLink

LEMMA OtherTypes ==
  ASSUME TypeOK, Main \/ \E d \in Dev : Radio(d) \/ DeadlinePasses(d)
  PROVE  TypeOK'
<1> USE RadioAssumption
<1>1. CASE RequestStop
  <2>1. RingTypeOK' /\ LinkTypeOK' /\ PullerTypeOK' /\ ServerTypeOK'
        /\ WireTypeOK' /\ RadioTypeOK'
    BY <1>1
    DEF RequestStop, TypeOK, RingTypeOK, LinkTypeOK, PullerTypeOK, ServerTypeOK,
        WireTypeOK, RadioTypeOK, linkVars, pullerVars, serverVars, pullWire,
        rxWire, radioVars
  <2>2. BrokerTypeOK'
    BY <1>1 DEF RequestStop, TypeOK, BrokerTypeOK, brokerVars
  <2> QED
    BY <2>1, <2>2 DEF TypeOK
<1>2. CASE JoinWorkers
  <2>1. RingTypeOK' /\ LinkTypeOK' /\ PullerTypeOK' /\ ServerTypeOK'
        /\ WireTypeOK' /\ RadioTypeOK'
    BY <1>2
    DEF JoinWorkers, TypeOK, RingTypeOK, LinkTypeOK, PullerTypeOK, ServerTypeOK,
        WireTypeOK, RadioTypeOK, linkVars, pullerVars, serverVars, pullWire,
        rxWire, radioVars
  <2>2. BrokerTypeOK'
    BY <1>2 DEF JoinWorkers, TypeOK, BrokerTypeOK, brokerVars
  <2> QED
    BY <2>1, <2>2 DEF TypeOK
<1>3. ASSUME NEW d \in Dev, RadioTransmit(d)
      PROVE  TypeOK'
  <2>1. RingTypeOK' /\ LinkTypeOK' /\ PullerTypeOK' /\ ServerTypeOK' /\ BrokerTypeOK'
    BY <1>3
    DEF RadioTransmit, TypeOK, RingTypeOK, LinkTypeOK, PullerTypeOK,
        ServerTypeOK, BrokerTypeOK, linkVars, pullerVars, serverVars, brokerVars
  <2>2. WireTypeOK'
    BY <1>3 DEF RadioTransmit, TypeOK, WireTypeOK, pullWire, rxWire
  <2>3. RadioTypeOK'
    <3>1. PICK n \in MsgSizes : tx_sent' = [tx_sent EXCEPT ![d] = @ + n]
      BY <1>3 DEF RadioTransmit
    <3>2. n \in Nat
      OBVIOUS
    <3>3. tx_sent' \in [Dev -> Nat]
      BY <3>1, <3>2 DEF TypeOK, RadioTypeOK
    <3>4. rx_consumed' \in [Dev -> Nat]
      BY <1>3 DEF RadioTransmit, TypeOK, RadioTypeOK
    <3> QED BY <3>3, <3>4 DEF RadioTypeOK
  <2> QED
    BY <2>1, <2>2, <2>3 DEF TypeOK
<1>4. ASSUME NEW d \in Dev, RadioRequest(d)
      PROVE  TypeOK'
  <2>1. RingTypeOK' /\ LinkTypeOK' /\ PullerTypeOK' /\ ServerTypeOK'
        /\ RadioTypeOK' /\ BrokerTypeOK'
    BY <1>4
    DEF RadioRequest, TypeOK, RingTypeOK, LinkTypeOK, PullerTypeOK,
        ServerTypeOK, RadioTypeOK, BrokerTypeOK, linkVars, pullerVars,
        serverVars, radioVars, brokerVars
  <2>2. WireTypeOK'
    BY <1>4 DEF RadioRequest, TypeOK, WireTypeOK, pullWire, rxWire
  <2> QED
    BY <2>1, <2>2 DEF TypeOK
<1>5. ASSUME NEW d \in Dev, RadioReceive(d)
      PROVE  TypeOK'
  <2>1. RingTypeOK' /\ LinkTypeOK' /\ PullerTypeOK' /\ ServerTypeOK' /\ BrokerTypeOK'
    BY <1>5
    DEF RadioReceive, TypeOK, RingTypeOK, LinkTypeOK, PullerTypeOK,
        ServerTypeOK, BrokerTypeOK, linkVars, pullerVars, serverVars, brokerVars
  <2>2. WireTypeOK'
    BY <1>5 DEF RadioReceive, TypeOK, WireTypeOK, pullWire, rxWire
  <2>3. RadioTypeOK'
    BY <1>5 DEF RadioReceive, TypeOK, RadioTypeOK, WireTypeOK
  <2> QED
    BY <2>1, <2>2, <2>3 DEF TypeOK
<1>6. ASSUME NEW d \in Dev, DeadlinePasses(d)
      PROVE  TypeOK'
  <2>1. RingTypeOK' /\ LinkTypeOK' /\ PullerTypeOK' /\ WireTypeOK'
        /\ RadioTypeOK' /\ BrokerTypeOK'
    BY <1>6
    DEF DeadlinePasses, TypeOK, RingTypeOK, LinkTypeOK, PullerTypeOK,
        WireTypeOK, RadioTypeOK, BrokerTypeOK, linkVars, pullerVars, pullWire,
        rxWire, radioVars, brokerVars
  <2>2. ServerTypeOK'
    BY <1>6 DEF DeadlinePasses, TypeOK, ServerTypeOK, serverVars
  <2> QED
    BY <2>1, <2>2 DEF TypeOK
<1> QED
  BY <1>1, <1>2, <1>3, <1>4, <1>5, <1>6 DEF Main, Radio

-----------------------------------------------------------------------------
(***************************************************************************)
(* The relay invariant                                                     *)
(***************************************************************************)

\* What RelayInv speaks of apart from the rings.
passVars == <<linkVars, server, epoch_set, todo, serve>>

LEMMA InitRelayInv ==
  ASSUME Init
  PROVE  RelayInv
  BY TopologyAssumption
  DEF Init, RelayInv, JoinState, CursorInWindow, WindowHolds, CommonEpoch,
      Position, EmptyWindow, EarliestSequence, In

\* A step that only grows rings at the end and discards what is read keeps it.
LEMMA RingStep ==
  ASSUME TypeOK, RelayInv, UNCHANGED passVars,
         \A d \in Dev : ring'[d].next \in Nat /\ ring'[d].next >= ring[d].next,
         \A l \in Link :
           /\ EarliestSequence(ring'[Src[l]]) <= cursor[l]
           /\ ~cursor_init[l] => EarliestSequence(ring'[Src[l]]) = 0
  PROVE  RelayInv'
<1> USE TopologyAssumption DEF passVars, linkVars
<1>1. JoinState'
  BY DEF RelayInv, JoinState
<1>2. \A l \in Link : ring[Src[l]].next \in Nat /\ cursor[l] \in Nat
  BY DEF TypeOK, RingTypeOK, LinkTypeOK
<1>3. CursorInWindow'
  BY <1>2 DEF RelayInv, CursorInWindow
<1>4. \A d \in Dev : serve[d] \in Nat
  BY DEF TypeOK, ServerTypeOK
<1>5. WindowHolds'
  BY <1>2, <1>4 DEF RelayInv, WindowHolds
<1>6. CommonEpoch'
  BY DEF RelayInv, CommonEpoch, Position
<1> QED
  BY <1>1, <1>3, <1>5, <1>6 DEF RelayInv

\* A step of the puller keeps every sample a link has still to read.
LEMMA PullerRelayInv ==
  ASSUME TypeOK, RelayInv, NEW d \in Dev, Puller(d)
  PROVE  RelayInv'
<1> USE TopologyAssumption, RuntimeAssumption
<1>1. UNCHANGED passVars
  BY DEF Puller, Scan, Land, SendRequest, SendTimeout, RecvReply, RecvTimeout,
         PullerExit, passVars, serverVars
<1>2. /\ ring[d] \in Window /\ ring[d].size <= ring[d].next /\ Queue \in Nat
      /\ \A e \in Dev : ring[e].next \in Nat
      /\ \A l \in Link : cursor[l] \in Nat
      /\ DOMAIN ring = Dev
  BY DEF TypeOK, RingTypeOK, LinkTypeOK, Window
<1>3. \A l \in Link :
        /\ EarliestSequence(ring[Src[l]]) <= cursor[l]
        /\ ~cursor_init[l] => EarliestSequence(ring[Src[l]]) = 0
  BY DEF RelayInv, CursorInWindow
<1>4. CASE Scan(d)
  <2> DEFINE after == DiscardedBefore(ring[d], MinCursor(d))
  <2>1. ring' = [ring EXCEPT ![d] = after]
    BY <1>4 DEF Scan, AfterDiscard
  <2>2. /\ after.next = ring[d].next
        /\ EarliestSequence(after) > EarliestSequence(ring[d])
             => EarliestSequence(after) <= MinCursor(d)
        /\ EarliestSequence(ring[d]) <= EarliestSequence(after)
        /\ after \in Window
    BY <1>2, MinCursorBound, DiscardedWindow
  <2>3. EarliestSequence(ring[d]) \in Nat /\ EarliestSequence(after) \in Int
        /\ MinCursor(d) \in Nat
    BY <1>2, <2>2, MinCursorBound DEF EarliestSequence, Window
  <2> HIDE DEF after
  <2>4. ASSUME NEW l \in Link, Src[l] = d
        PROVE  /\ EarliestSequence(after) <= cursor[l]
               /\ ~cursor_init[l] => EarliestSequence(after) = 0
    <3>1. l \in Out(d)
      BY <2>4 DEF Out
    <3>2. CASE \E m \in Out(d) : ~cursor_init[m]
      <4>1. EarliestSequence(after) = EarliestSequence(ring[d])
        BY <2>2, <2>3, <3>2, MinCursorBound
      <4> QED BY <1>3, <2>4, <4>1
    <3>3. CASE \A m \in Out(d) : cursor_init[m]
      <4>1. MinCursor(d) <= cursor[l] /\ cursor_init[l]
        BY <3>1, <3>3, MinCursorBound
      <4>2. EarliestSequence(ring[d]) <= cursor[l] /\ cursor[l] \in Nat
        BY <1>2, <1>3, <2>4
      <4> QED BY <2>2, <2>3, <4>1, <4>2
    <3> QED BY <3>2, <3>3
  <2>5. \A l \in Link :
          /\ EarliestSequence(ring'[Src[l]]) <= cursor[l]
          /\ ~cursor_init[l] => EarliestSequence(ring'[Src[l]]) = 0
    BY <1>2, <1>3, <2>1, <2>4
  <2>6. \A e \in Dev : ring'[e].next \in Nat /\ ring'[e].next >= ring[e].next
    BY <1>2, <2>1, <2>2
  <2> QED BY <1>1, <2>5, <2>6, RingStep
<1>5. CASE Land(d)
  <2>1. CASE UNCHANGED ring
    BY <1>1, <1>2, <1>3, <2>1, RingStep
  <2>2. CASE /\ CanPush(ring[d], pending[d], Queue)
             /\ ring' = [ring EXCEPT ![d] = Pushed(ring[d], pending[d])]
    <3>1. pending[d] \in Nat
      BY DEF TypeOK, PullerTypeOK
    <3>2. /\ Pushed(ring[d], pending[d]).next = ring[d].next + pending[d]
          /\ EarliestSequence(Pushed(ring[d], pending[d])) = EarliestSequence(ring[d])
      BY <1>2, <2>2, <3>1, PushedWindow
    <3>3. \A e \in Dev : ring'[e].next \in Nat /\ ring'[e].next >= ring[e].next
      BY <1>2, <2>2, <3>1, <3>2
    <3>4. \A l \in Link :
            /\ EarliestSequence(ring'[Src[l]]) <= cursor[l]
            /\ ~cursor_init[l] => EarliestSequence(ring'[Src[l]]) = 0
      BY <1>2, <1>3, <2>2, <3>2
    <3> QED BY <1>1, <3>3, <3>4, RingStep
  <2> QED BY <1>5, <2>1, <2>2 DEF Land
<1>6. CASE UNCHANGED ring
  BY <1>1, <1>2, <1>3, <1>6, RingStep
<1> QED
  BY <1>4, <1>5, <1>6
  DEF Puller, SendRequest, SendTimeout, RecvReply, RecvTimeout, PullerExit

\* A step of the server keeps the links of a device together and in window.
LEMMA ServerRelayInv ==
  ASSUME TypeOK, RelayInv, NEW d \in Dev, Server(d)
  PROVE  RelayInv'
<1> USE TopologyAssumption
<1>1. /\ cursor \in [Link -> Nat] /\ cursor_init \in [Link -> BOOLEAN]
      /\ serve \in [Dev -> Nat] /\ todo \in [Dev -> SUBSET Link]
      /\ DOMAIN server = Dev /\ DOMAIN epoch_set = Dev
      /\ \A e \in Dev : todo[e] \subseteq In(e)
  BY DEF TypeOK, LinkTypeOK, ServerTypeOK
<1>2. \A e \in Dev : ring[e].next \in Nat /\ EarliestSequence(ring[e]) \in Nat
                     /\ EarliestSequence(ring[e]) <= ring[e].next
  BY DEF TypeOK, RingTypeOK, EarliestSequence
<1>3. JoinState /\ CursorInWindow /\ WindowHolds /\ CommonEpoch
  BY DEF RelayInv
<1>4. CASE AcceptRequest(d)
  <2> USE <1>1, <1>4 DEF AcceptRequest, linkVars, In
  <2>1. JoinState'
    BY <1>3 DEF JoinState
  <2>2. CursorInWindow'
    BY <1>3 DEF CursorInWindow
  <2>3. WindowHolds'
    BY <1>3 DEF WindowHolds
  <2>4. CommonEpoch'
    BY <1>3 DEF CommonEpoch, Position
  <2> QED BY <2>1, <2>2, <2>3, <2>4 DEF RelayInv
<1>5. CASE FitBreak(d) \/ ServerExit(d)
  <2> USE <1>1, <1>5 DEF FitBreak, ServerExit, linkVars, In
  <2>1. JoinState'
    BY <1>3 DEF JoinState
  <2>2. CursorInWindow'
    BY <1>3 DEF CursorInWindow
  <2>3. WindowHolds'
    BY <1>3 DEF WindowHolds
  <2>4. CommonEpoch'
    BY <1>3 DEF CommonEpoch, Position
  <2> QED BY <2>1, <2>2, <2>3, <2>4 DEF RelayInv
<1>6. CASE SendReply(d)
  <2> USE <1>1, <1>6 DEF SendReply, linkVars, In
  <2>1. JoinState'
    BY <1>3 DEF JoinState
  <2>2. CursorInWindow'
    BY <1>3 DEF CursorInWindow
  <2>3. WindowHolds'
    BY <1>3 DEF WindowHolds
  <2>4. CommonEpoch'
    BY <1>3 DEF CommonEpoch, Position, JoinState
  <2> QED BY <2>1, <2>2, <2>3, <2>4 DEF RelayInv
<1>7. ASSUME NEW l \in In(d), AlignLink(d, l)
      PROVE  RelayInv'
  <2> USE <1>1, <1>7 DEF AlignLink, IsNextLink, In
  <2>1. cursor[l] = 0 /\ Epoch(l) = 0
    BY <1>2, <1>3 DEF JoinState, CursorInWindow, Epoch
  <2>2. cursor' = cursor
    BY <2>1
  <2>3. JoinState'
    BY <1>3, <2>2 DEF JoinState
  <2>4. CursorInWindow'
    BY <1>3, <2>2 DEF CursorInWindow
  <2>5. WindowHolds'
    BY <1>3, <2>2 DEF WindowHolds
  <2>6. CommonEpoch'
    BY <1>3, <2>2 DEF CommonEpoch, Position
  <2> QED BY <2>3, <2>4, <2>5, <2>6 DEF RelayInv
<1>8. ASSUME NEW l \in In(d), FitLink(d, l)
      PROVE  RelayInv'
  <2> USE <1>1, <1>8 DEF FitLink, IsNextLink, In
  <2>1. /\ Snapped(l) = cursor[l] /\ Common(d, l) \in Nat /\ Common(d, l) <= serve[d]
        /\ cursor[l] + Common(d, l) <= ring[Src[l]].next
    BY <1>3, CommonBound
  <2>2. cursor' = cursor
    BY <2>1
  <2>3. JoinState'
    BY <1>3, <2>2 DEF JoinState
  <2>4. CursorInWindow'
    BY <1>3, <2>2 DEF CursorInWindow
  <2>5. WindowHolds'
    BY <1>2, <1>3, <2>1, <2>2 DEF WindowHolds
  <2>6. ASSUME NEW k \in Link
        PROVE  Position(k)' = Position(k)
    <3>1. CASE Dst[k] = d
      <4>1. server[d] = "fit" /\ (server'[d] = "fit" \/ todo'[d] = In(d))
        OBVIOUS
      <4>2. k \in In(d)
        BY <3>1
      <4> QED BY <2>2, <3>1, <4>1, <4>2 DEF Position
    <3>2. CASE Dst[k] # d
      BY <2>2, <3>2 DEF Position
    <3> QED BY <3>1, <3>2
  <2>7. CommonEpoch'
    BY <1>3, <2>6 DEF CommonEpoch
  <2> QED BY <2>3, <2>4, <2>5, <2>7 DEF RelayInv
<1>9. ASSUME NEW l \in In(d), ReadLink(d, l)
      PROVE  RelayInv'
  <2> USE <1>1, <1>9 DEF ReadLink, IsNextLink, In, linkVars
  <2>1. CanRead(ring[Src[l]], cursor[l], serve[d])
    BY <1>3 DEF WindowHolds, CursorInWindow, CanRead
  <2>2. JoinState'
    BY <1>3, <2>1 DEF JoinState
  <2>3. CursorInWindow'
    BY <1>3 DEF CursorInWindow
  <2>4. WindowHolds'
    BY <1>3, <2>1 DEF WindowHolds
  <2>5. CommonEpoch'
    BY <1>3, <2>1 DEF CommonEpoch, Position
  <2> QED BY <2>2, <2>3, <2>4, <2>5 DEF RelayInv
<1>10. ASSUME NEW l \in In(d), AdvanceCursor(d, l)
       PROVE  RelayInv'
  <2> USE <1>1, <1>10 DEF AdvanceCursor, IsNextLink, In, Advanced
  <2>1. cursor[l] + serve[d] <= ring[Src[l]].next
    BY <1>3 DEF WindowHolds
  <2>2. JoinState'
    BY <1>3 DEF JoinState
  <2>3. CursorInWindow'
    BY <1>2, <1>3, <2>1 DEF CursorInWindow, JoinState
  <2>4. WindowHolds'
    BY <1>3 DEF WindowHolds
  <2>5. ASSUME NEW k \in Link
        PROVE  Position(k)' = Position(k)
    <3>1. CASE k = l
      BY <3>1 DEF Position
    <3>2. CASE k # l /\ Dst[k] = d
      BY <3>2 DEF Position
    <3>3. CASE Dst[k] # d
      BY <3>3 DEF Position
    <3> QED BY <3>1, <3>2, <3>3
  <2>6. CommonEpoch'
    BY <1>3, <2>5 DEF CommonEpoch
  <2> QED BY <2>2, <2>3, <2>4, <2>6 DEF RelayInv
<1> QED
  BY <1>4, <1>5, <1>6, <1>7, <1>8, <1>9, <1>10 DEF Server, ServerOnLink

\* The radios, the clock and the main thread do not touch what RelayInv speaks of.
LEMMA OtherRelayInv ==
  ASSUME RelayInv, TypeOK,
         Main \/ (\E d \in Dev : Radio(d) \/ DeadlinePasses(d)) \/ UNCHANGED vars
  PROVE  RelayInv'
<1>1. UNCHANGED <<ring, passVars>>
  BY DEF Main, RequestStop, JoinWorkers, Radio, RadioTransmit, RadioRequest,
         RadioReceive, DeadlinePasses, passVars, serverVars, vars
<1>2. /\ \A d \in Dev : ring'[d].next \in Nat /\ ring'[d].next >= ring[d].next
      /\ \A l \in Link :
           /\ EarliestSequence(ring'[Src[l]]) <= cursor[l]
           /\ ~cursor_init[l] => EarliestSequence(ring'[Src[l]]) = 0
  BY <1>1 DEF TypeOK, RingTypeOK, RelayInv, CursorInWindow
<1> QED
  BY <1>1, <1>2, RingStep DEF passVars

-----------------------------------------------------------------------------
\* Types and RelayInv are inductive together: the size of a serve is a natural
\* number only because a cursor is never past the frontier of its ring.
THEOREM RelayInvariant == Spec => [](TypeOK /\ RelayInv)
<1>1. Init => TypeOK /\ RelayInv
  BY InitTypeOK, InitRelayInv
<1>2. TypeOK /\ RelayInv /\ [Next]_vars => (TypeOK /\ RelayInv)'
  <2> SUFFICES ASSUME TypeOK, RelayInv, [Next]_vars
               PROVE  TypeOK' /\ RelayInv'
    OBVIOUS
  <2>1. CursorInWindow
    BY DEF RelayInv
  <2>2. ASSUME NEW d \in Dev, Puller(d)
        PROVE  TypeOK' /\ RelayInv'
    BY <2>2, PullerTypes, PullerRelayInv
  <2>3. ASSUME NEW d \in Dev, Server(d)
        PROVE  TypeOK' /\ RelayInv'
    BY <2>1, <2>3, ServerTypes, ServerRelayInv
  <2>4. CASE Main \/ \E d \in Dev : Radio(d) \/ DeadlinePasses(d)
    BY <2>4, OtherTypes, OtherRelayInv
  <2>5. CASE UNCHANGED vars
    <3>1. TypeOK'
      BY <2>5
      DEF vars, TypeOK, RingTypeOK, LinkTypeOK, PullerTypeOK, ServerTypeOK,
          WireTypeOK, RadioTypeOK, BrokerTypeOK, linkVars, pullerVars,
          serverVars, pullWire, rxWire, radioVars, brokerVars
    <3> QED BY <2>5, <3>1, OtherRelayInv
  <2> QED
    BY <2>2, <2>3, <2>4, <2>5 DEF Next
<1> QED
  BY <1>1, <1>2, PTL DEF Spec

\* Every variable keeps its type, and no buffer ever exceeds its capacity.
THEOREM TypeCorrect == Spec => []TypeOK
  BY RelayInvariant, PTL

\* The puller never discards a sample that some link has still to read, and
\* nothing at all before every link out of the device has joined.
THEOREM NoUnreadSampleLost == Spec => []CursorInWindow
<1>1. RelayInv => CursorInWindow
  BY DEF RelayInv
<1> QED
  BY <1>1, RelayInvariant, PTL

\* A window that was measured can be read: "broker serve window vanished from
\* ring" is never thrown.
THEOREM NoWindowVanishes == Spec => []WindowHolds
<1>1. RelayInv => WindowHolds
  BY DEF RelayInv
<1> QED
  BY <1>1, RelayInvariant, PTL

\* The links into a device stay aligned to a common epoch for ever.
THEOREM EdgesStayAligned == Spec => []CommonEpoch
<1>1. RelayInv => CommonEpoch
  BY DEF RelayInv
<1> QED
  BY <1>1, RelayInvariant, PTL

-----------------------------------------------------------------------------
(***************************************************************************)
(* Delivery: what is on the wires and in the rings is exactly what the     *)
(* radios sent and are yet to receive.                                     *)
(***************************************************************************)

\* A wire is empty but for the message it carries, and a puller that is about
\* to ask, or has asked, holds no message.
WireInv ==
  \A d \in Dev :
    /\ pull[d] # "answered" => pulled[d] = 0
    /\ pulled[d] \in MsgSizes \cup {0}
    /\ rx[d] # "answered" => reply[d] = 0
    /\ puller[d] \in {"send_req", "recv_reply"} => pending[d] = 0

\* The puller of a message that was refused is out, and asks for no other.
Refused(d) ==
  /\ Lost(d) \in MsgSizes /\ Lost(d) > Queue
  /\ puller[d] = "stopped" /\ stop_requested /\ stats["zmq_errors"] > 0
  /\ pull[d] = "idle"

DropInv == \A d \in Dev : Lost(d) = 0 \/ Refused(d)

DeliveryInv ==
  /\ TypeOK /\ RelayInv
  /\ WireInv /\ SocketDiscipline /\ DropInv /\ NoFaults /\ ExactlyOnce

LEMMA InitDeliveryInv == Init => DeliveryInv
<1> SUFFICES ASSUME Init PROVE DeliveryInv
  OBVIOUS
<1>1. TypeOK /\ RelayInv
  BY InitTypeOK, InitRelayInv
<1>2. WireInv
  BY DEF Init, WireInv
<1>3. SocketDiscipline
  BY DEF Init, SocketDiscipline
<1>4. DropInv
  BY DEF Init, DropInv, Lost, EmptyWindow
<1>5. NoFaults
  BY DEF Init, NoFaults, Counter
<1>6. ExactlyOnce
  <2>1. \A l \in Link : Dst[l] \in Dev
    BY TopologyAssumption
  <2> QED BY <2>1 DEF Init, ExactlyOnce, Position
<1> QED BY <1>1, <1>2, <1>3, <1>4, <1>5, <1>6 DEF DeliveryInv

\* Strict alternation on both sockets.
LEMMA SocketStep ==
  ASSUME TypeOK, SocketDiscipline, [Next]_vars
  PROVE  SocketDiscipline'
<1> USE DEF SocketDiscipline
<1>0. /\ puller \in [Dev -> {"scan", "land", "send_req", "recv_reply", "stopped"}]
      /\ request_outstanding \in [Dev -> BOOLEAN]
      /\ pull \in [Dev -> {"idle", "asked", "answered"}]
      /\ rx \in [Dev -> {"idle", "asked", "accepted", "answered"}]
      /\ DOMAIN server = Dev
  BY DEF TypeOK, PullerTypeOK, WireTypeOK, ServerTypeOK
<1>1. ASSUME NEW d \in Dev, Puller(d)
      PROVE  SocketDiscipline'
  <2>1. CASE Scan(d)
    BY <1>0, <2>1 DEF Scan, AfterScan, serverVars, pullWire, rxWire, brokerVars
  <2>2. CASE Land(d) \/ SendTimeout(d) \/ RecvTimeout(d) \/ PullerExit(d)
    BY <1>0, <2>2 DEF Land, SendTimeout, RecvTimeout, PullerExit, serverVars, pullWire,
                      rxWire, brokerVars
  <2>3. CASE SendRequest(d)
    BY <1>0, <2>3 DEF SendRequest, serverVars, rxWire, brokerVars
  <2>4. CASE RecvReply(d)
    BY <1>0, <2>4 DEF RecvReply, serverVars, rxWire, brokerVars
  <2> QED BY <1>1, <2>1, <2>2, <2>3, <2>4 DEF Puller
<1>2. ASSUME NEW d \in Dev, Server(d)
      PROVE  SocketDiscipline'
  <2>1. UNCHANGED <<puller, request_outstanding, pull>>
    BY <1>2 DEF Server, ServerOnLink, AcceptRequest, FitBreak, SendReply, ServerExit,
                AlignLink, FitLink, ReadLink, AdvanceCursor, pullerVars, pullWire
  <2>2. CASE AcceptRequest(d)
    BY <1>0, <2>1, <2>2 DEF AcceptRequest, brokerVars
  <2>3. CASE FitBreak(d) \/ ServerExit(d)
    BY <1>0, <2>1, <2>3 DEF FitBreak, ServerExit, rxWire, brokerVars
  <2>4. CASE SendReply(d)
    BY <1>0, <2>1, <2>4 DEF SendReply, rxWire
  <2>5. ASSUME NEW l \in In(d), ServerOnLink(d, l)
        PROVE  SocketDiscipline'
    BY <1>0, <2>1, <2>5 DEF ServerOnLink, AlignLink, FitLink, ReadLink, AdvanceCursor,
                            rxWire, brokerVars
  <2> QED BY <1>2, <2>2, <2>3, <2>4, <2>5 DEF Server
<1>3. CASE Main
  BY <1>3 DEF Main, RequestStop, JoinWorkers, pullerVars, serverVars, pullWire, rxWire
<1>4. ASSUME NEW d \in Dev, Radio(d)
      PROVE  SocketDiscipline'
  BY <1>0, <1>4 DEF Radio, RadioTransmit, RadioRequest, RadioReceive, pullerVars,
                    serverVars, pullWire, rxWire, brokerVars
<1>5. CASE (\E d \in Dev : DeadlinePasses(d)) \/ UNCHANGED vars
  BY <1>5 DEF DeadlinePasses, vars, pullerVars, serverVars, pullWire, rxWire, brokerVars
<1> QED BY <1>1, <1>2, <1>3, <1>4, <1>5 DEF Next

\* A wire is emptied by the step that takes its message.
LEMMA WireStep ==
  ASSUME TypeOK, SocketDiscipline, WireInv, [Next]_vars
  PROVE  WireInv'
<1> USE DEF WireInv
<1>0. /\ DOMAIN puller = Dev /\ DOMAIN pending = Dev /\ DOMAIN pull = Dev
      /\ DOMAIN pulled = Dev /\ DOMAIN rx = Dev /\ DOMAIN reply = Dev
      /\ pending \in [Dev -> 0..Queue]
  BY DEF TypeOK, PullerTypeOK, WireTypeOK
<1>1. ASSUME NEW d \in Dev, Puller(d)
      PROVE  WireInv'
  <2>1. CASE Scan(d)
    <3>1. AfterScan(d) \in {"send_req", "recv_reply"} => pending[d] = 0
      BY <1>0 DEF AfterScan
    <3> QED BY <1>0, <2>1, <3>1 DEF Scan, pullWire, rxWire
  <2>2. CASE Land(d)
    BY <1>0, <2>2 DEF Land, pullWire, rxWire
  <2>3. CASE SendTimeout(d) \/ RecvTimeout(d) \/ PullerExit(d)
    BY <1>0, <2>3 DEF SendTimeout, RecvTimeout, PullerExit, pullWire, rxWire
  <2>4. CASE SendRequest(d)
    BY <1>0, <2>4 DEF SendRequest, SocketDiscipline, rxWire
  <2>5. CASE RecvReply(d)
    BY <1>0, <2>5 DEF RecvReply, rxWire
  <2> QED BY <1>1, <2>1, <2>2, <2>3, <2>4, <2>5 DEF Puller
<1>2. ASSUME NEW d \in Dev, Server(d)
      PROVE  WireInv'
  <2>1. UNCHANGED <<puller, pending, pull, pulled>>
    BY <1>2 DEF Server, ServerOnLink, AcceptRequest, FitBreak, SendReply, ServerExit,
                AlignLink, FitLink, ReadLink, AdvanceCursor, pullerVars, pullWire
  <2>2. CASE AcceptRequest(d) \/ SendReply(d)
    BY <1>0, <2>1, <2>2 DEF AcceptRequest, SendReply, rxWire
  <2>3. CASE UNCHANGED rxWire
    BY <2>1, <2>3 DEF rxWire
  <2> QED BY <1>2, <2>2, <2>3 DEF Server, ServerOnLink, FitBreak, ServerExit, AlignLink,
                                  FitLink, ReadLink, AdvanceCursor
<1>3. CASE Main
  BY <1>3 DEF Main, RequestStop, JoinWorkers, pullerVars, pullWire, rxWire
<1>4. ASSUME NEW d \in Dev, Radio(d)
      PROVE  WireInv'
  <2>1. CASE RadioTransmit(d)
    BY <1>0, <2>1 DEF RadioTransmit, pullerVars, rxWire
  <2>2. CASE RadioRequest(d) \/ RadioReceive(d)
    BY <1>0, <2>2 DEF RadioRequest, RadioReceive, pullerVars, pullWire
  <2> QED BY <1>4, <2>1, <2>2 DEF Radio
<1>5. CASE (\E d \in Dev : DeadlinePasses(d)) \/ UNCHANGED vars
  BY <1>5 DEF DeadlinePasses, vars, pullerVars, pullWire, rxWire
<1> QED BY <1>1, <1>2, <1>3, <1>4, <1>5 DEF Next

\* The fault counters: only a fit that snaps counts a gap, only a reply larger
\* than the queue or a window that is gone counts an error.
LEMMA FaultStep ==
  ASSUME TypeOK, RelayInv, WireInv, NoFaults, [Next]_vars
  PROVE  NoFaults'
<1> USE DEF NoFaults
<1>0. stats \in [Counter -> Nat] /\ Counter = {"tx_pulls", "rx_requests",
        "rx_starvations", "tx_queue_overflows", "tx_sequence_gaps", "zmq_errors"}
  BY DEF TypeOK, BrokerTypeOK, Counter
<1>1. CASE UNCHANGED stats
  BY <1>1
<1>2. ASSUME NEW d \in Dev, Land(d)
      PROVE  NoFaults'
  BY <1>0, <1>2 DEF Land
<1>3. ASSUME NEW d \in Dev, RecvReply(d)
      PROVE  NoFaults'
  <2>1. pulled[d] \in Nat /\ Queue \in Nat
    BY RuntimeAssumption DEF TypeOK, WireTypeOK
  <2>2. CASE pulled[d] <= Queue
    <3>1. UNCHANGED stats
      BY <1>3, <2>1, <2>2 DEF RecvReply
    <3> QED BY <3>1
  <2>3. CASE pulled[d] > Queue
    <3>1. ~(\A n \in MsgSizes : n <= Queue)
      BY <2>1, <2>3 DEF WireInv
    <3>2. stats' = [stats EXCEPT !["zmq_errors"] = @ + 1]
      BY <1>3, <2>1, <2>3 DEF RecvReply
    <3> QED BY <1>0, <3>1, <3>2
  <2> QED BY <2>1, <2>2, <2>3
<1>4. ASSUME NEW d \in Dev, SendReply(d)
      PROVE  NoFaults'
  BY <1>0, <1>4 DEF SendReply
<1>5. ASSUME NEW d \in Dev, NEW l \in In(d), FitLink(d, l)
      PROVE  NoFaults'
  <2>1. Snapped(l) = cursor[l]
    BY CommonBound DEF RelayInv, In
  <2> QED BY <1>0, <1>5, <2>1 DEF FitLink, Bit
<1>6. ASSUME NEW d \in Dev, NEW l \in In(d), ReadLink(d, l)
      PROVE  NoFaults'
  <2>1. CanRead(ring[Src[l]], cursor[l], serve[d])
    BY <1>6 DEF RelayInv, WindowHolds, CursorInWindow, CanRead, ReadLink, IsNextLink, In
  <2> QED BY <1>6, <2>1 DEF ReadLink, brokerVars
<1> QED
  BY <1>1, <1>2, <1>3, <1>4, <1>5, <1>6
  DEF Next, vars, brokerVars, Main, RequestStop, JoinWorkers, Puller, Scan, SendRequest,
      SendTimeout, RecvTimeout, PullerExit, Server, AcceptRequest, FitBreak, ServerExit,
      ServerOnLink, AlignLink, AdvanceCursor, Radio, RadioTransmit, RadioRequest,
      RadioReceive, DeadlinePasses

\* Errors and a stop are never forgotten.
LEMMA ErrorsGrow ==
  ASSUME TypeOK, [Next]_vars
  PROVE  /\ stats["zmq_errors"] > 0 => stats'["zmq_errors"] > 0
         /\ stop_requested => stop_requested'
<1> DEFINE Grows == /\ stats["zmq_errors"] > 0 => stats'["zmq_errors"] > 0
                    /\ stop_requested => stop_requested'
<1>0. stats \in [Counter -> Nat] /\ "zmq_errors" \in Counter
  BY DEF TypeOK, BrokerTypeOK, Counter
<1>1. CASE UNCHANGED <<stats, stop_requested>>
  BY <1>1
<1>2. ASSUME NEW d \in Dev, Land(d) \/ RecvReply(d) \/ SendReply(d)
      PROVE  Grows
  BY <1>0, <1>2 DEF Land, RecvReply, SendReply
<1>3. ASSUME NEW d \in Dev, NEW l \in In(d), FitLink(d, l) \/ ReadLink(d, l)
      PROVE  Grows
  BY <1>0, <1>3 DEF FitLink, ReadLink, brokerVars
<1>4. CASE RequestStop
  BY <1>4 DEF RequestStop
<1> QED
  BY <1>1, <1>2, <1>3, <1>4
  DEF Next, vars, brokerVars, Main, JoinWorkers, Puller, Scan, SendRequest,
      SendTimeout, RecvTimeout, PullerExit, Server, AcceptRequest, FitBreak, ServerExit,
      ServerOnLink, AlignLink, AdvanceCursor, Radio, RadioTransmit, RadioRequest,
      RadioReceive, DeadlinePasses

\* A message moves from the wire to the puller to the ring, and nowhere else but
\* where the puller refuses it.
LEMMA LostKept ==
  ASSUME TypeOK, WireInv, [Next]_vars, NEW e \in Dev,
         ~(RecvReply(e) /\ pulled[e] > Queue)
  PROVE  Lost(e)' = Lost(e)
<1> DEFINE kept == ring[e].next + pending[e] + pulled[e]
<1>0. /\ DOMAIN ring = Dev /\ \A d \in Dev : ring[d].next \in Nat
      /\ pending \in [Dev -> Nat] /\ pulled \in [Dev -> Nat] /\ tx_sent \in [Dev -> Nat]
      /\ MsgSizes \subseteq Nat /\ Queue \in Nat
  BY RuntimeAssumption, RadioAssumption
  DEF TypeOK, RingTypeOK, PullerTypeOK, WireTypeOK, RadioTypeOK
<1>1. CASE UNCHANGED <<ring, pending, pulled, tx_sent>>
  BY <1>1 DEF Lost
<1>2. ASSUME NEW d \in Dev, Scan(d)
      PROVE  Lost(e)' = Lost(e)
  <2>1. AfterDiscard(d).next = ring[d].next
    <3>1. /\ ring[d] \in Window /\ ring[d].size <= ring[d].next /\ Queue \in Nat
          /\ MinCursor(d) \in Nat
      BY MinCursorBound, RuntimeAssumption DEF TypeOK, RingTypeOK, Window
    <3> QED BY <3>1, DiscardedWindow DEF AfterDiscard
  <2>2. /\ ring' = [ring EXCEPT ![d] = AfterDiscard(d)]
        /\ UNCHANGED <<pending, pulled, tx_sent>>
    BY <1>2 DEF Scan, pullWire, radioVars
  <2> HIDE DEF AfterDiscard
  <2>3. ring'[e].next = ring[e].next
    BY <1>0, <2>1, <2>2
  <2> QED BY <2>2, <2>3 DEF Lost
<1>3. ASSUME NEW d \in Dev, Land(d)
      PROVE  Lost(e)' = Lost(e)
  <2>1. UNCHANGED <<pulled, tx_sent>>
    BY <1>3 DEF Land, pullWire, radioVars
  <2>2. CASE UNCHANGED <<ring, pending>>
    BY <2>1, <2>2 DEF Lost
  <2>3. CASE /\ ring' = [ring EXCEPT ![d] = Pushed(@, pending[d])]
             /\ pending' = [pending EXCEPT ![d] = 0]
    <3>1. Pushed(ring[d], pending[d]).next = ring[d].next + pending[d]
      BY DEF Pushed
    <3>2. CASE e = d
      <4>1. ring'[e].next = ring[e].next + pending[e] /\ pending'[e] = 0
        BY <1>0, <2>3, <3>1, <3>2
      <4> QED BY <1>0, <2>1, <4>1 DEF Lost
    <3>3. CASE e # d
      <4>1. ring'[e] = ring[e] /\ pending'[e] = pending[e]
        BY <1>0, <2>3, <3>3
      <4> QED BY <2>1, <4>1 DEF Lost
    <3> QED BY <3>2, <3>3
  <2> QED BY <1>3, <2>2, <2>3 DEF Land
<1>4. ASSUME NEW d \in Dev, RecvReply(d)
      PROVE  Lost(e)' = Lost(e)
  <2>1. UNCHANGED <<ring, tx_sent>> /\ pulled' = [pulled EXCEPT ![d] = 0]
    BY <1>4 DEF RecvReply, radioVars
  <2>2. pending[d] = 0
    BY <1>4 DEF RecvReply, WireInv
  <2>3. CASE e = d
    <3>1. pending' = [pending EXCEPT ![d] = pulled[d]]
      BY <1>0, <1>4, <2>3 DEF RecvReply
    <3>2. pending'[e] = pulled[e] /\ pulled'[e] = 0 /\ pending[e] = 0
      BY <1>0, <2>1, <2>2, <2>3, <3>1
    <3> QED BY <1>0, <2>1, <3>2 DEF Lost
  <2>4. CASE e # d
    <3>1. pending'[e] = pending[e]
      BY <1>0, <1>4, <2>4 DEF RecvReply
    <3>2. pulled'[e] = pulled[e]
      BY <1>0, <2>1, <2>4
    <3> QED BY <2>1, <3>1, <3>2 DEF Lost
  <2> QED BY <2>3, <2>4
<1>5. ASSUME NEW d \in Dev, RadioTransmit(d)
      PROVE  Lost(e)' = Lost(e)
  <2>1. UNCHANGED <<ring, pending>>
    BY <1>5 DEF RadioTransmit, pullerVars
  <2>2. pulled[d] = 0
    BY <1>5 DEF RadioTransmit, WireInv
  <2>3. PICK n \in MsgSizes : /\ pulled' = [pulled EXCEPT ![d] = n]
                              /\ tx_sent' = [tx_sent EXCEPT ![d] = @ + n]
    BY <1>5 DEF RadioTransmit
  <2>4. CASE e = d
    <3>1. pulled'[e] = n /\ tx_sent'[e] = tx_sent[e] + n /\ pulled[e] = 0 /\ n \in Nat
      BY <1>0, <2>2, <2>3, <2>4
    <3> QED BY <1>0, <2>1, <3>1 DEF Lost
  <2>5. CASE e # d
    <3>1. pulled'[e] = pulled[e] /\ tx_sent'[e] = tx_sent[e]
      BY <1>0, <2>3, <2>5
    <3> QED BY <2>1, <3>1 DEF Lost
  <2> QED BY <2>4, <2>5
<1> QED
  BY <1>1, <1>2, <1>3, <1>4, <1>5
  DEF Next, vars, pullerVars, pullWire, radioVars, Main, RequestStop, JoinWorkers, Puller,
      SendRequest, SendTimeout, RecvTimeout, PullerExit, Server, AcceptRequest, FitBreak,
      SendReply, ServerExit, ServerOnLink, AlignLink, FitLink, ReadLink, AdvanceCursor,
      Radio, RadioRequest, RadioReceive, DeadlinePasses

\* A puller that has stopped stays so, and the wire it left idle stays idle.
LEMMA StoppedStays ==
  ASSUME TypeOK, [Next]_vars, NEW e \in Dev, puller[e] = "stopped", pull[e] = "idle"
  PROVE  puller'[e] = "stopped" /\ pull'[e] = "idle"
<1>0. DOMAIN puller = Dev /\ DOMAIN pull = Dev
  BY DEF TypeOK, PullerTypeOK, WireTypeOK
<1>1. CASE UNCHANGED <<puller, pull>>
  BY <1>1
<1>2. ASSUME NEW d \in Dev, Puller(d)
      PROVE  puller'[e] = "stopped" /\ pull'[e] = "idle"
  BY <1>0, <1>2
  DEF Puller, Scan, Land, SendRequest, SendTimeout, RecvReply, RecvTimeout, PullerExit,
      pullWire
<1>3. ASSUME NEW d \in Dev, RadioTransmit(d)
      PROVE  puller'[e] = "stopped" /\ pull'[e] = "idle"
  BY <1>0, <1>3 DEF RadioTransmit, pullerVars
<1> QED
  BY <1>1, <1>2, <1>3
  DEF Next, vars, pullerVars, pullWire, Main, RequestStop, JoinWorkers, Server,
      AcceptRequest, FitBreak, SendReply, ServerExit, ServerOnLink, AlignLink, FitLink,
      ReadLink, AdvanceCursor, Radio, RadioRequest, RadioReceive, DeadlinePasses

\* Only a message larger than a ring leaves the run, with the puller that held it.
LEMMA DropStep ==
  ASSUME TypeOK, WireInv, DropInv, [Next]_vars
  PROVE  DropInv'
<1> SUFFICES ASSUME NEW e \in Dev
             PROVE  Lost(e)' = 0 \/ Refused(e)'
  BY DEF DropInv
<1>1. CASE RecvReply(e) /\ pulled[e] > Queue
  <2>0. /\ ring[e].next \in Nat /\ tx_sent[e] \in Nat /\ pulled[e] \in Nat
        /\ puller \in [Dev -> {"scan", "land", "send_req", "recv_reply", "stopped"}]
        /\ DOMAIN pull = Dev /\ pulled \in [Dev -> Nat] /\ Queue \in Nat
        /\ stats \in [Counter -> Nat] /\ "zmq_errors" \in Counter
    BY RuntimeAssumption
    DEF TypeOK, RingTypeOK, PullerTypeOK, WireTypeOK, RadioTypeOK, BrokerTypeOK, Counter
  <2>1. puller[e] = "recv_reply" /\ pending[e] = 0 /\ pulled[e] \in MsgSizes
    BY <1>1, <2>0 DEF RecvReply, WireInv
  <2>2. Lost(e) = 0
    BY <2>1 DEF DropInv, Refused
  <2>3. /\ UNCHANGED <<ring, tx_sent, pending>> /\ pulled'[e] = 0
        /\ puller'[e] = "stopped" /\ pull'[e] = "idle"
        /\ stop_requested' /\ stats'["zmq_errors"] > 0
    BY <1>1, <2>0 DEF RecvReply, radioVars
  <2>4. Lost(e)' = pulled[e]
    BY <2>0, <2>1, <2>2, <2>3 DEF Lost
  <2> QED BY <1>1, <2>1, <2>3, <2>4 DEF Refused
<1>2. CASE ~(RecvReply(e) /\ pulled[e] > Queue)
  <2>1. Lost(e)' = Lost(e)
    BY <1>2, LostKept
  <2>2. CASE Lost(e) = 0
    BY <2>1, <2>2
  <2>3. CASE Refused(e)
    BY <2>1, <2>3, StoppedStays, ErrorsGrow DEF Refused
  <2> QED BY <2>2, <2>3 DEF DropInv
<1> QED BY <1>1, <1>2

\* A pass of the server does not move how far a link has been relayed.
LEMMA PositionKept ==
  ASSUME TypeOK, RelayInv, NEW d \in Dev, NEW l \in In(d), ServerOnLink(d, l),
         ~stop_requested', NEW k \in Link
  PROVE  Position(k)' = Position(k)
<1> USE TopologyAssumption
<1>1. /\ cursor \in [Link -> Nat] /\ serve \in [Dev -> Nat] /\ todo \in [Dev -> SUBSET Link]
      /\ DOMAIN server = Dev
      /\ \A e \in Dev : todo[e] \subseteq In(e)
  BY DEF TypeOK, LinkTypeOK, ServerTypeOK
<1>2. JoinState /\ CursorInWindow
  BY DEF RelayInv
<1>3. CASE AlignLink(d, l)
  <2> USE <1>1, <1>3 DEF AlignLink, IsNextLink, In
  <2>1. cursor[l] = 0 /\ Epoch(l) = 0
    <3>1. ring[Src[l]].next \in Nat /\ EarliestSequence(ring[Src[l]]) \in Nat
      BY DEF TypeOK, RingTypeOK, EarliestSequence
    <3> QED BY <1>2, <3>1 DEF JoinState, CursorInWindow, Epoch
  <2>2. cursor' = cursor
    BY <2>1
  <2> QED BY <2>2 DEF Position
<1>4. CASE FitLink(d, l)
  <2> USE <1>1, <1>4 DEF FitLink, IsNextLink, In
  <2>1. cursor' = cursor
    BY <1>2, CommonBound
  <2>2. CASE Dst[k] = d
    <3>1. server[d] = "fit" /\ (server'[d] = "fit" \/ todo'[d] = In(d))
      OBVIOUS
    <3>2. k \in In(d)
      BY <2>2
    <3> QED BY <2>1, <2>2, <3>1, <3>2 DEF Position
  <2>3. CASE Dst[k] # d
    BY <2>1, <2>3 DEF Position
  <2> QED BY <2>2, <2>3
<1>5. CASE ReadLink(d, l)
  BY <1>1, <1>5 DEF ReadLink, IsNextLink, Position, linkVars
<1>6. CASE AdvanceCursor(d, l)
  <2> USE <1>1, <1>6 DEF AdvanceCursor, IsNextLink, In, Advanced
  <2>1. CASE k = l
    BY <2>1 DEF Position
  <2>2. CASE k # l /\ Dst[k] = d
    BY <2>2 DEF Position
  <2>3. CASE Dst[k] # d
    BY <2>3 DEF Position
  <2> QED BY <2>1, <2>2, <2>3
<1> QED BY <1>3, <1>4, <1>5, <1>6 DEF ServerOnLink

\* A stop is never taken back.
LEMMA StopStays ==
  ASSUME [Next]_vars, stop_requested
  PROVE  stop_requested'
<1>1. CASE UNCHANGED brokerVars
  BY <1>1 DEF brokerVars
<1>2. ASSUME NEW d \in Dev, Land(d) \/ RecvReply(d) \/ SendReply(d)
      PROVE  stop_requested'
  BY <1>2 DEF Land, RecvReply, SendReply
<1>3. ASSUME NEW d \in Dev, NEW l \in In(d), FitLink(d, l) \/ ReadLink(d, l)
      PROVE  stop_requested'
  BY <1>3 DEF FitLink, ReadLink, brokerVars
<1>4. CASE Main
  BY <1>4 DEF Main, RequestStop, JoinWorkers
<1> QED
  BY <1>1, <1>2, <1>3, <1>4
  DEF Next, vars, Puller, Scan, SendRequest, SendTimeout, RecvTimeout, PullerExit, Server,
      AcceptRequest, FitBreak, ServerExit, ServerOnLink, AlignLink, AdvanceCursor, Radio,
      RadioTransmit, RadioRequest, RadioReceive, DeadlinePasses

\* Only the reply and its receipt move what the other side has got.
LEMMA OnceStep ==
  ASSUME TypeOK, RelayInv, WireInv, SocketDiscipline, ExactlyOnce, [Next]_vars
  PROVE  ExactlyOnce'
<1> DEFINE passed == <<cursor, server, todo, serve, rx_consumed, reply>>
<1> SUFFICES ASSUME ~stop_requested', NEW k \in Link
             PROVE  Position(k)' = rx_consumed'[Dst[k]] + reply'[Dst[k]]
  BY DEF ExactlyOnce
<1>0. /\ cursor \in [Link -> Nat] /\ serve \in [Dev -> Nat] /\ DOMAIN server = Dev
      /\ reply \in [Dev -> Nat] /\ rx_consumed \in [Dev -> Nat] /\ DOMAIN rx = Dev
      /\ Dst[k] \in Dev
  BY TopologyAssumption
  DEF TypeOK, LinkTypeOK, ServerTypeOK, WireTypeOK, RadioTypeOK
<1>1. ~stop_requested
  BY StopStays
<1>2. Position(k) = rx_consumed[Dst[k]] + reply[Dst[k]]
  BY <1>1 DEF ExactlyOnce
<1>3. CASE UNCHANGED passed
  BY <1>2, <1>3 DEF Position
<1>4. ASSUME NEW d \in Dev, AcceptRequest(d)
      PROVE  Position(k)' = rx_consumed'[Dst[k]] + reply'[Dst[k]]
  <2>1. UNCHANGED <<cursor, rx_consumed, reply>>
    BY <1>4 DEF AcceptRequest, linkVars, radioVars
  <2>2. Position(k)' = Position(k)
    BY <1>0, <1>4 DEF AcceptRequest, linkVars, Position
  <2> QED BY <1>2, <2>1, <2>2
<1>5. ASSUME NEW d \in Dev, NEW l \in In(d), ServerOnLink(d, l)
      PROVE  Position(k)' = rx_consumed'[Dst[k]] + reply'[Dst[k]]
  <2>1. UNCHANGED <<rx_consumed, reply>>
    BY <1>5 DEF ServerOnLink, AlignLink, FitLink, ReadLink, AdvanceCursor, radioVars, rxWire
  <2> QED BY <1>2, <1>5, <2>1, PositionKept
<1>6. ASSUME NEW d \in Dev, SendReply(d)
      PROVE  Position(k)' = rx_consumed'[Dst[k]] + reply'[Dst[k]]
  <2>1. server[d] = "send" /\ todo[d] = {} /\ reply[d] = 0
    BY <1>6 DEF SendReply, RelayInv, JoinState, SocketDiscipline, WireInv
  <2>2. /\ reply' = [reply EXCEPT ![d] = serve[d]]
        /\ serve' = [serve EXCEPT ![d] = 0]
        /\ server' = [server EXCEPT ![d] = "wait_req"]
        /\ UNCHANGED <<cursor, todo, rx_consumed>>
    BY <1>1, <1>6 DEF SendReply, linkVars, radioVars
  <2>3. CASE Dst[k] = d
    <3>1. Position(k) = cursor[k] - serve[d]
      BY <2>1, <2>3 DEF Position
    <3>2. Position(k)' = cursor[k]
      BY <1>0, <2>2, <2>3 DEF Position
    <3> QED BY <1>0, <1>2, <2>1, <2>2, <2>3, <3>1, <3>2
  <2>4. CASE Dst[k] # d
    BY <1>0, <1>2, <2>2, <2>4 DEF Position
  <2> QED BY <2>3, <2>4
<1>7. ASSUME NEW d \in Dev, RadioReceive(d)
      PROVE  Position(k)' = rx_consumed'[Dst[k]] + reply'[Dst[k]]
  <2>1. /\ reply' = [reply EXCEPT ![d] = 0]
        /\ rx_consumed' = [rx_consumed EXCEPT ![d] = @ + reply[d]]
    BY <1>7 DEF RadioReceive
  <2>2. Position(k)' = Position(k)
    BY <1>7 DEF RadioReceive, Position, serverVars, linkVars
  <2> QED BY <1>0, <1>2, <2>1, <2>2
<1>8. ASSUME NEW d \in Dev, FitBreak(d) \/ ServerExit(d)
      PROVE  FALSE
  BY <1>1, <1>8 DEF FitBreak, ServerExit
<1> QED
  BY <1>3, <1>4, <1>5, <1>6, <1>7, <1>8
  DEF Next, vars, Main, RequestStop, JoinWorkers, Puller, Scan, Land, SendRequest,
      SendTimeout, RecvReply, RecvTimeout, PullerExit, Server, Radio, RadioTransmit,
      RadioRequest, DeadlinePasses, linkVars, serverVars, rxWire, radioVars

\* What is on the wires is inductive together with the relay invariant.
THEOREM DeliveryInvariant == Spec => []DeliveryInv
<1>1. Init => DeliveryInv
  BY InitDeliveryInv
<1>2. TypeOK /\ RelayInv /\ TypeOK' /\ RelayInv' /\ DeliveryInv /\ [Next]_vars
        => DeliveryInv'
  BY SocketStep, WireStep, DropStep, FaultStep, OnceStep DEF DeliveryInv
<1> QED
  BY <1>1, <1>2, RelayInvariant, PTL DEF Spec

\* REQ and REP sockets alternate whatever timeouts, stops and errors happen.
THEOREM SocketsAlternate == Spec => []SocketDiscipline
<1>1. DeliveryInv => SocketDiscipline
  BY DEF DeliveryInv
<1> QED
  BY <1>1, DeliveryInvariant, PTL

\* A message received from a radio is landed in the ring in full and in order,
\* however often its puller finds no room for it or its request times out, and
\* whatever ends the run; only one larger than any ring is refused.
THEOREM NoMessageDropped == Spec => []NothingDropped
<1>1. DeliveryInv => NothingDropped
  BY DEF DeliveryInv, DropInv, Refused, NothingDropped
<1> QED
  BY <1>1, DeliveryInvariant, PTL

\* The gap counter stays zero; so does the error counter, unless a radio sends
\* more than a ring can hold.
THEOREM FaultFree == Spec => []NoFaults
<1>1. DeliveryInv => NoFaults
  BY DEF DeliveryInv
<1> QED
  BY <1>1, DeliveryInvariant, PTL

\* Until stop every link delivers its source's stream exactly once, whatever
\* the batches, the partial windows and the order of the joins.
THEOREM EachSampleOnce == Spec => []ExactlyOnce
<1>1. DeliveryInv => ExactlyOnce
  BY DEF DeliveryInv
<1> QED
  BY <1>1, DeliveryInvariant, PTL
=============================================================================
