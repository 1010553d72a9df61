-------------------------- MODULE TelemetryProofs ---------------------------
(***************************************************************************)
(* Theorems of Telemetry, for any links, words, retries and high-water     *)
(* mark.                                                                   *)
(*                                                                         *)
(* The inductive invariant of the seqlock: the words of a link are those   *)
(* of its last publish but for the ones that a publish in progress has     *)
(* already written, and while the sequence number stands where an attempt  *)
(* found it the words copied are those of that publish.  That of the life  *)
(* cycle: a thread of the server exists only while a flag says so or the   *)
(* owner is joining it.                                                    *)
(***************************************************************************)
EXTENDS Telemetry, TLAPS

BoardOK ==
  /\ telemetry_write_seq \in [Links -> Nat]
  /\ telemetry \in [Links -> [Words -> Nat]]
  /\ unwritten \in [Links -> SUBSET Words]

ReadOK ==
  /\ link \in Links
  /\ attempt \in 0..Retries /\ pre \in Nat
  /\ copy \in [Words -> Nat] /\ uncopied \in SUBSET Words
  /\ accepted \in Accepted

ThreadsOK ==
  /\ tel \in TelStates /\ todo \in SUBSET Links
  /\ rep \in {"none", "starting", "polling", "closing", "ended"}
  /\ owner \in {"idle", "joining rep", "joining telemetry", "gone"}
  /\ pending \in 0..HighWater /\ connected \in BOOLEAN
  /\ endpoint \in BOOLEAN /\ running_ \in BOOLEAN
  /\ telemetry_running_ \in BOOLEAN /\ stop_requested_ \in BOOLEAN

BoardInv ==
  /\ \A l \in Links : \A w \in Words :
      telemetry[l][w] = IF IsOdd(telemetry_write_seq[l]) /\ w \notin unwritten[l]
                        THEN telemetry_write_seq[l] \div 2 + 1
                        ELSE telemetry_write_seq[l] \div 2
  /\ \A l \in Links : ~IsOdd(telemetry_write_seq[l]) => unwritten[l] = {}

CopyInv ==
  tel = "copying" =>
    /\ attempt < Retries
    /\ ~IsOdd(pre) /\ pre <= telemetry_write_seq[link]
    /\ pre = telemetry_write_seq[link] => \A w \in Words \ uncopied : copy[w] = pre \div 2

LifeInv ==
  /\ ~telemetry_running_ /\ owner # "joining telemetry" => tel = "none"
  /\ ~running_ /\ owner # "joining rep" => rep = "none" /\ ~telemetry_running_
  /\ running_ => owner = "idle"

TelemetryInv == BoardOK /\ ReadOK /\ ThreadsOK /\ BoardInv /\ CopyInv /\ LifeInv

LEMMA Types == BoardOK /\ ReadOK /\ ThreadsOK <=> TypeOK
  BY DEF BoardOK, ReadOK, ThreadsOK, TypeOK

\* The publish that a sequence number counts, and whether one is in progress.
LEMMA Halves ==
  ASSUME NEW n \in Nat
  PROVE  /\ n \div 2 \in Nat
         /\ IsOdd(n) => ~IsOdd(n + 1) /\ (n + 1) \div 2 = n \div 2 + 1
         /\ ~IsOdd(n) => IsOdd(n + 1) /\ (n + 1) \div 2 = n \div 2
<1>1. n \div 2 \in Nat
  OBVIOUS
<1>2. ASSUME IsOdd(n) PROVE ~IsOdd(n + 1) /\ (n + 1) \div 2 = n \div 2 + 1
  BY <1>2 DEF IsOdd
<1>3. ASSUME ~IsOdd(n) PROVE IsOdd(n + 1) /\ (n + 1) \div 2 = n \div 2
  BY <1>3 DEF IsOdd
<1> QED BY <1>1, <1>2, <1>3

LEMMA InitInv == Init => TelemetryInv
<1> SUFFICES ASSUME Init PROVE TelemetryInv
  OBVIOUS
<1>1. Snapshot(0) \in [Words -> Nat]
  BY DEF Snapshot
<1>2. BoardOK
  BY <1>1 DEF Init, BoardOK
<1>3. ReadOK
  BY <1>1, TelemetryAssumption DEF Init, ReadOK, Accepted
<1>4. ThreadsOK
  <2>1. 0 \in 0..HighWater
    BY TelemetryAssumption
  <2> QED BY <2>1, Zenon DEF Init, ThreadsOK, TelStates
<1>5. 0 \div 2 = 0 /\ ~IsOdd(0)
  BY DEF IsOdd
<1>6. BoardInv /\ CopyInv
  BY <1>5 DEF Init, BoardInv, CopyInv, Snapshot
<1>7. LifeInv
  BY DEF Init, LifeInv
<1> QED BY <1>2, <1>3, <1>4, <1>6, <1>7 DEF TelemetryInv

\* A publish moves the sequence number of its link on and leaves the reader alone.
LEMMA PublishInv ==
  ASSUME TelemetryInv, NEW l \in Links, Publish(l)
  PROVE  TelemetryInv'
<1> DEFINE seq == telemetry_write_seq
<1> DEFINE s == seq[l]
<1>1. /\ seq \in [Links -> Nat] /\ s \in Nat
      /\ telemetry \in [Links -> [Words -> Nat]]
      /\ unwritten \in [Links -> SUBSET Words] /\ unwritten[l] \in SUBSET Words
      /\ BoardInv
  BY DEF TelemetryInv, BoardOK
<1>2. UNCHANGED <<tel, todo, read, feed, rep, owner, flags>>
  BY DEF Publish
<1>3. ReadOK' /\ ThreadsOK' /\ LifeInv'
  BY <1>2 DEF TelemetryInv, ReadOK, ThreadsOK, LifeInv, read, feed, flags
<1>4. ASSUME seq' = [seq EXCEPT ![l] = @ + 1] PROVE CopyInv'
  <2>1. /\ link \in Links /\ pre \in Nat /\ CopyInv
        /\ link' = link /\ pre' = pre /\ attempt' = attempt /\ copy' = copy
        /\ uncopied' = uncopied /\ tel' = tel
    BY <1>2 DEF read, TelemetryInv, ReadOK
  <2>2. seq[link] \in Nat /\ seq'[link] \in {seq[link], seq[link] + 1}
    BY <1>1, <1>4, <2>1
  <2>3. CASE tel = "copying" /\ pre = seq'[link]
    BY <2>1, <2>2, <2>3 DEF CopyInv
  <2>4. CASE ~(tel = "copying" /\ pre = seq'[link])
    BY <2>1, <2>2, <2>4 DEF CopyInv
  <2> QED BY <2>3, <2>4
<1>5. CASE ~IsOdd(s) /\ BeginPublish(l)
  <2>1. /\ seq' = [seq EXCEPT ![l] = s + 1]
        /\ unwritten' = [unwritten EXCEPT ![l] = Words]
        /\ telemetry' = telemetry
    BY <1>5 DEF BeginPublish
  <2>2. BoardOK'
    BY <1>1, <2>1 DEF BoardOK
  <2>3. BoardInv'
    BY <1>1, <1>5, <2>1, Halves DEF BoardInv
  <2> QED BY <1>3, <1>4, <2>1, <2>2, <2>3 DEF TelemetryInv
<1>6. ASSUME NEW w \in unwritten[l], WriteWord(l, w) PROVE TelemetryInv'
  <2>1. IsOdd(s) /\ w \in Words
    BY <1>1, <1>6 DEF BoardInv
  <2>2. /\ seq' = seq
        /\ telemetry' = [telemetry EXCEPT ![l] = [@ EXCEPT ![w] = s \div 2 + 1]]
        /\ unwritten' = [unwritten EXCEPT ![l] = @ \ {w}]
    BY <1>6 DEF WriteWord
  <2>3. BoardOK'
    BY <1>1, <2>1, <2>2, Halves DEF BoardOK
  <2>4. BoardInv'
    BY <1>1, <2>1, <2>2, Halves DEF BoardInv
  <2>5. CopyInv'
    BY <1>2, <2>2 DEF TelemetryInv, CopyInv, read
  <2> QED BY <1>3, <2>3, <2>4, <2>5 DEF TelemetryInv
<1>7. CASE IsOdd(s) /\ unwritten[l] = {} /\ EndPublish(l)
  <2>1. /\ seq' = [seq EXCEPT ![l] = s + 1]
        /\ telemetry' = telemetry /\ unwritten' = unwritten
    BY <1>7 DEF EndPublish
  <2>2. BoardOK'
    BY <1>1, <2>1 DEF BoardOK
  <2>3. BoardInv'
    BY <1>1, <1>7, <2>1, Halves DEF BoardInv
  <2> QED BY <1>3, <1>4, <2>1, <2>2, <2>3 DEF TelemetryInv
<1> QED BY <1>5, <1>6, <1>7 DEF Publish

LEMMA TelemetryThreadInv ==
  ASSUME TelemetryInv, TelemetryThread
  PROVE  TelemetryInv'
<1>1. UNCHANGED <<board, rep, owner, flags>>
  BY DEF TelemetryThread
<1>2. BoardOK' /\ BoardInv'
  BY <1>1 DEF TelemetryInv, BoardOK, BoardInv, board
<1>3. /\ BoardOK /\ ReadOK /\ ThreadsOK /\ BoardInv /\ CopyInv /\ LifeInv
      /\ rep' = rep /\ owner' = owner /\ endpoint' = endpoint /\ running_' = running_
      /\ telemetry_running_' = telemetry_running_ /\ stop_requested_' = stop_requested_
      /\ telemetry_write_seq' = telemetry_write_seq /\ telemetry' = telemetry
  BY <1>1 DEF TelemetryInv, flags, board
\* The flags stay, and the thread is there before and after the step.
<1>4. ASSUME tel # "none" PROVE LifeInv'
  BY <1>3, <1>4 DEF LifeInv
<1>5. CASE TelBinds \/ Tick \/ Close \/ Terminate
  <2>1. UNCHANGED read /\ tel' # "copying" /\ tel # "none"
    BY <1>5 DEF TelBinds, Tick, Close, Terminate
  <2>2. ReadOK' /\ CopyInv'
    BY <1>3, <2>1 DEF ReadOK, CopyInv, read
  <2>3. ThreadsOK'
    BY <1>3, <1>5 DEF ThreadsOK, TelStates, TelBinds, Tick, Close, Terminate, feed
  <2> QED BY <1>2, <1>4, <2>1, <2>2, <2>3 DEF TelemetryInv
<1>6. ASSUME NEW l \in todo, BeginRead(l) PROVE TelemetryInv'
  <2>1. Snapshot(0) \in [Words -> Nat] /\ l \in Links
    BY <1>3 DEF Snapshot, ThreadsOK
  <2>2. ReadOK' /\ CopyInv'
    BY <1>3, <1>6, <2>1, TelemetryAssumption DEF ReadOK, CopyInv, BeginRead
  <2>3. ThreadsOK'
    BY <1>3, <1>6 DEF ThreadsOK, TelStates, BeginRead, feed
  <2>4. tel # "none"
    BY <1>6 DEF BeginRead
  <2> QED BY <1>2, <1>4, <2>2, <2>3, <2>4 DEF TelemetryInv
<1>7. CASE LoadPre
  <2>1. ThreadsOK' /\ tel # "none"
    BY <1>3, <1>7 DEF ThreadsOK, TelStates, LoadPre, feed
  <2>2. telemetry_write_seq[link] \in Nat
    BY <1>3 DEF BoardOK, ReadOK
  <2>3. CASE IsOdd(telemetry_write_seq[link])
    <3>1. /\ attempt < Retries /\ attempt' = attempt + 1 /\ tel' # "copying"
          /\ UNCHANGED <<pre, uncopied, link, copy, accepted>>
      BY <1>7, <2>3 DEF LoadPre
    <3>2. ReadOK' /\ CopyInv'
      BY <1>3, <3>1, TelemetryAssumption DEF ReadOK, CopyInv
    <3> QED BY <1>2, <1>4, <2>1, <3>2 DEF TelemetryInv
  <2>4. CASE ~IsOdd(telemetry_write_seq[link])
    <3>1. /\ attempt < Retries /\ pre' = telemetry_write_seq[link] /\ uncopied' = Words
          /\ UNCHANGED <<attempt, link, copy, accepted>>
      BY <1>7, <2>4 DEF LoadPre
    <3>2. ReadOK'
      BY <1>3, <2>2, <3>1 DEF ReadOK
    <3>3. CopyInv'
      BY <1>3, <2>2, <2>4, <3>1 DEF CopyInv
    <3> QED BY <1>2, <1>4, <2>1, <3>2, <3>3 DEF TelemetryInv
  <2> QED BY <2>3, <2>4
<1>8. ASSUME NEW w \in uncopied, CopyWord(w) PROVE TelemetryInv'
  <2>1. /\ w \in Words /\ telemetry[link][w] \in Nat /\ link \in Links
        /\ pre \in Nat /\ telemetry_write_seq[link] \in Nat /\ copy \in [Words -> Nat]
    BY <1>3 DEF BoardOK, ReadOK
  <2>2. /\ tel = "copying" /\ copy' = [copy EXCEPT ![w] = telemetry[link][w]]
        /\ uncopied' = uncopied \ {w}
        /\ UNCHANGED <<tel, todo, link, attempt, pre, accepted, pending, connected>>
    BY <1>8 DEF CopyWord, feed
  <2>3. ReadOK' /\ ThreadsOK'
    BY <1>3, <2>1, <2>2 DEF ReadOK, ThreadsOK
  <2>4. pre = telemetry_write_seq[link] => telemetry[link][w] = pre \div 2
    BY <1>3, <2>1, <2>2 DEF BoardInv, CopyInv
  <2>5. CopyInv'
    BY <1>3, <2>1, <2>2, <2>4 DEF CopyInv
  <2> QED BY <1>2, <1>4, <2>2, <2>3, <2>5 DEF TelemetryInv
<1>9. CASE LoadPost \/ GiveUp
  <2>1. pending' \in 0..HighWater /\ connected' \in BOOLEAN
    <3>1. UNCHANGED feed \/ SendFrame
      BY <1>9 DEF LoadPost, GiveUp
    <3>2. (pending' = pending \/ pending' = Queued(pending)) /\ connected' = connected
      BY <3>1, Zenon DEF SendFrame, feed
    <3>3. pending \in 0..HighWater /\ connected \in BOOLEAN
      BY <1>3 DEF ThreadsOK
    <3>4. Queued(pending) \in 0..HighWater
      BY <3>3, TelemetryAssumption DEF Queued
    <3>5. pending' \in 0..HighWater
      BY <3>2, <3>3, <3>4
    <3>6. connected' \in BOOLEAN
      BY <3>2, <3>3
    <3> QED BY <3>5, <3>6
  <2>2. tel' \in {"waiting", "loading"} /\ todo' = todo /\ tel # "none"
    BY <1>9 DEF LoadPost, GiveUp
  <2>3. ThreadsOK' /\ CopyInv'
    BY <1>3, <2>1, <2>2 DEF ThreadsOK, TelStates, CopyInv
  <2>4. CASE LoadPost
    <3>1. /\ UNCHANGED <<link, pre, copy, uncopied>>
          /\ attempt' \in {attempt, attempt + 1} /\ attempt < Retries
          /\ accepted' \in {accepted, [link |-> link, words |-> copy]}
      BY <1>3, <2>4 DEF LoadPost, CopyInv
    <3>2. [link |-> link, words |-> copy] \in Accepted
      BY <1>3 DEF ReadOK, Accepted
    <3>3. ReadOK'
      BY <1>3, <3>1, <3>2, TelemetryAssumption DEF ReadOK
    <3> QED BY <1>2, <1>4, <2>2, <2>3, <3>3 DEF TelemetryInv
  <2>5. CASE GiveUp
    <3>1. ReadOK'
      BY <1>3, <2>5 DEF ReadOK, GiveUp, read
    <3> QED BY <1>2, <1>4, <2>2, <2>3, <3>1 DEF TelemetryInv
  <2> QED BY <1>9, <2>4, <2>5
<1> QED BY <1>5, <1>6, <1>7, <1>8, <1>9 DEF TelemetryThread

\* The owner, the REP thread and the subscriber leave the seqlock alone, and the reader
\* too, but that start makes a thread of it.
LEMMA OwnerInv ==
  ASSUME TelemetryInv,
         RepBinds \/ RepNotices \/ RepBreaks \/ ReplyTaken \/ Start \/ Stop \/ JoinRep
           \/ JoinTelemetry \/ Free \/ Subscriber
  PROVE  TelemetryInv'
<1>1. ThreadsOK /\ LifeInv
  BY DEF TelemetryInv
<1>2. UNCHANGED <<board, read>> /\ (tel' = "copying" => tel = "copying")
  BY DEF RepBinds, RepNotices, RepBreaks, ReplyTaken, RepKeeps, Start, Stop, JoinRep,
     JoinTelemetry, Free, Subscriber
<1>3. BoardOK' /\ ReadOK' /\ BoardInv' /\ CopyInv'
  BY <1>2 DEF TelemetryInv, BoardOK, ReadOK, BoardInv, CopyInv, board, read
<1>4. CASE RepBinds \/ RepNotices \/ RepBreaks \/ ReplyTaken
  <2>1. /\ rep # "none" /\ rep' \in {"polling", "closing", "ended"}
        /\ UNCHANGED <<tel, todo, feed, owner, flags>>
    BY <1>4 DEF RepBinds, RepNotices, RepBreaks, ReplyTaken, RepEnds, RepKeeps
  <2>2. ThreadsOK'
    BY <1>1, <2>1 DEF ThreadsOK, feed, flags
  <2>3. LifeInv'
    BY <1>1, <2>1 DEF LifeInv, flags
  <2> QED BY <1>3, <2>2, <2>3 DEF TelemetryInv
<1>5. CASE Start
  <2>1. ThreadsOK' /\ LifeInv'
    BY <1>1, <1>5 DEF Start, ThreadsOK, TelStates, LifeInv, feed
  <2> QED BY <1>3, <2>1 DEF TelemetryInv
<1>6. CASE Stop
  <2>1. ThreadsOK' /\ LifeInv'
    BY <1>1, <1>6 DEF Stop, ThreadsOK, LifeInv, feed
  <2> QED BY <1>3, <2>1 DEF TelemetryInv
<1>7. CASE JoinRep
  <2>1. ThreadsOK' /\ LifeInv'
    BY <1>1, <1>7 DEF JoinRep, AfterRep, ThreadsOK, LifeInv, feed
  <2> QED BY <1>3, <2>1 DEF TelemetryInv
<1>8. CASE JoinTelemetry
  <2>1. ThreadsOK' /\ LifeInv'
    BY <1>1, <1>8 DEF JoinTelemetry, ThreadsOK, TelStates, LifeInv, feed, flags
  <2> QED BY <1>3, <2>1 DEF TelemetryInv
<1>9. CASE Free
  <2>1. ThreadsOK' /\ LifeInv'
    BY <1>1, <1>9 DEF Free, ThreadsOK, LifeInv, feed, flags
  <2> QED BY <1>3, <2>1 DEF TelemetryInv
<1>10. CASE Subscriber
  <2>1. pending' \in 0..HighWater /\ connected' \in BOOLEAN
    <3>1. pending \in 0..HighWater /\ connected \in BOOLEAN
      BY <1>1 DEF ThreadsOK
    <3>2. CASE Connect
      BY <3>1, <3>2, Zenon DEF Connect
    <3>3. CASE Receive
      <4>1. connected' \in BOOLEAN
        BY <3>1, <3>3, Zenon DEF Receive
      <4>2. pending > 0 /\ pending' = pending - 1
        BY <3>3 DEF Receive
      <4>3. pending' \in 0..HighWater
        BY <3>1, <4>2, TelemetryAssumption
      <4> QED BY <4>1, <4>3
    <3>4. CASE Leave
      <4>1. pending' = 0 /\ connected' = FALSE
        BY <3>4 DEF Leave
      <4>2. 0 \in 0..HighWater
        BY TelemetryAssumption
      <4> QED BY <4>1, <4>2, Zenon
    <3> QED BY <1>10, <3>2, <3>3, <3>4 DEF Subscriber
  <2>2. UNCHANGED <<board, tel, todo, read, rep, owner, flags>>
    BY <1>10 DEF Subscriber
  <2>3. ThreadsOK'
    BY <1>1, <2>1, <2>2 DEF ThreadsOK, flags
  <2>4. LifeInv'
    BY <1>1, <2>2 DEF LifeInv, flags
  <2> QED BY <1>3, <2>3, <2>4 DEF TelemetryInv
<1> QED BY <1>4, <1>5, <1>6, <1>7, <1>8, <1>9, <1>10

LEMMA StepInv == TelemetryInv /\ [Next]_vars => TelemetryInv'
<1>1. ASSUME TelemetryInv, UNCHANGED vars PROVE TelemetryInv'
  <2>1. UNCHANGED <<board, tel, todo, read, feed, rep, owner, flags>>
    BY <1>1 DEF vars
  <2>2. BoardOK' /\ ReadOK' /\ BoardInv' /\ CopyInv'
    BY <1>1, <2>1 DEF TelemetryInv, BoardOK, ReadOK, BoardInv, CopyInv, board, read
  <2>3. ThreadsOK' /\ LifeInv'
    BY <1>1, <2>1 DEF TelemetryInv, ThreadsOK, LifeInv, feed, flags
  <2> QED BY <2>2, <2>3 DEF TelemetryInv
<1> QED BY <1>1, PublishInv, TelemetryThreadInv, OwnerInv DEF Next

LEMMA Invariant == Spec => []TelemetryInv
  BY InitInv, StepInv, PTL DEF Spec

\* An attempt is never one too many and the socket keeps no frame past the high-water
\* mark, for any links, words and bounds.
THEOREM TypeCorrect == Spec => []TypeOK
<1>1. TelemetryInv => TypeOK
  BY Types DEF TelemetryInv
<1> QED BY <1>1, Invariant, PTL

\* However starts and stops follow each other, and wherever the threads are: when stop
\* has returned both have ended.
THEOREM NoThreadIsLeft == Spec => []StopLeavesNoThread
<1>1. TelemetryInv => StopLeavesNoThread
  BY DEF TelemetryInv, LifeInv, StopLeavesNoThread
<1> QED BY <1>1, Invariant, PTL

(***************************************************************************)
(* The refinement.  A publish counts when it ends, and a frame shows what  *)
(* it shows when the second load of the sequence number accepts it.        *)
(***************************************************************************)

published == [l \in Links |-> telemetry_write_seq[l] \div 2]
frame     == [link |-> accepted.link, shows |-> Shows(accepted.words)]

LEMMA WholeCopyShows ==
  ASSUME NEW n, NEW words, words = Snapshot(n)
  PROVE  Shows(words) = n
<1> DEFINE c == CHOOSE w \in Words : TRUE
<1>1. c \in Words
  BY TelemetryAssumption
<1>2. words[c] = n
  BY <1>1 DEF Snapshot
<1>3. \E w \in Words : words = Snapshot(words[w])
  BY <1>1, <1>2
<1> QED BY <1>2, <1>3 DEF Shows

LEMMA FeedStutters ==
  ASSUME telemetry_write_seq' = telemetry_write_seq, accepted' = accepted
  PROVE  published' = published /\ frame' = frame
  BY DEF published, frame, Shows, Snapshot

\* A publish that begins leaves the count where it is; one that ends adds to it.
LEMMA PublishRefines ==
  ASSUME TelemetryInv, NEW l \in Links, Publish(l)
  PROVE  \/ published' = published /\ frame' = frame
         \/ published' = [published EXCEPT ![l] = @ + 1] /\ frame' = frame
<1> DEFINE seq == telemetry_write_seq
<1>1. seq \in [Links -> Nat] /\ seq[l] \in Nat /\ accepted' = accepted
  BY DEF TelemetryInv, BoardOK, Publish, read
<1>2. frame' = frame
  BY <1>1 DEF frame, Shows, Snapshot
<1>3. ASSUME NEW w \in unwritten[l], WriteWord(l, w) PROVE published' = published
  BY <1>3 DEF WriteWord, published
<1>4. ASSUME seq' = [seq EXCEPT ![l] = @ + 1]
      PROVE  \A m \in Links : published'[m] = IF m = l THEN (seq[l] + 1) \div 2 ELSE published[m]
  BY <1>1, <1>4 DEF published
<1>5. CASE ~IsOdd(seq[l]) /\ BeginPublish(l)
  <2>1. (seq[l] + 1) \div 2 = published[l]
    BY <1>1, <1>5, Halves DEF published
  <2>2. \A m \in Links : published'[m] = published[m]
    BY <1>4, <1>5, <2>1 DEF BeginPublish
  <2>3. published' = published
    BY <2>2 DEF published
  <2> QED BY <1>2, <2>3
<1>6. CASE IsOdd(seq[l]) /\ EndPublish(l)
  <2>1. (seq[l] + 1) \div 2 = published[l] + 1
    BY <1>1, <1>6, Halves DEF published
  <2>2. \A m \in Links : published'[m] = [published EXCEPT ![l] = @ + 1][m]
    BY <1>4, <1>6, <2>1 DEF EndPublish, published
  <2>3. published' = [published EXCEPT ![l] = @ + 1]
    BY <2>2 DEF published
  <2> QED BY <1>2, <2>3
<1> QED BY <1>2, <1>3, <1>5, <1>6 DEF Publish

\* The words of an attempt that the second load accepts are those of the last publish.
LEMMA LoadPostRefines ==
  ASSUME TelemetryInv, LoadPost, UNCHANGED board
  PROVE  \/ published' = published /\ frame' = frame
         \/ published' = published /\ frame' = [link |-> link, shows |-> published[link]]
<1>1. telemetry_write_seq' = telemetry_write_seq
  BY DEF board
<1>2. published' = published
  BY <1>1 DEF published
<1>3. CASE telemetry_write_seq[link] # pre
  <2>1. accepted' = accepted
    BY <1>3 DEF LoadPost
  <2> QED BY <1>1, <2>1, FeedStutters
<1>4. CASE telemetry_write_seq[link] = pre
  <2>1. tel = "copying" /\ uncopied = {} /\ accepted' = [link |-> link, words |-> copy]
    BY <1>4 DEF LoadPost
  <2>2. copy \in [Words -> Nat] /\ link \in Links /\ \A w \in Words : copy[w] = pre \div 2
    BY <1>4, <2>1 DEF TelemetryInv, ReadOK, CopyInv
  <2>3. copy = Snapshot(pre \div 2)
    BY <2>2 DEF Snapshot
  <2>4. Shows(copy) = pre \div 2
    BY <2>3, WholeCopyShows
  <2>5. frame' = [link |-> link, shows |-> Shows(copy)]
    BY <2>1 DEF frame, Shows, Snapshot
  <2>6. published[link] = pre \div 2
    BY <1>4, <2>2 DEF published
  <2> QED BY <1>2, <2>4, <2>5, <2>6
<1> QED BY <1>3, <1>4

LEMMA StepRefines ==
  TelemetryInv /\ [Next]_vars => [Feed!Next]_<<published, frame>>
<1> SUFFICES ASSUME TelemetryInv, [Next]_vars PROVE [Feed!Next]_<<published, frame>>
  OBVIOUS
<1>1. ASSUME NEW l \in Links, Publish(l) PROVE [Feed!Next]_<<published, frame>>
  BY <1>1, PublishRefines DEF Feed!Next, Feed!Publish, published, frame
<1>2. CASE TelemetryThread /\ LoadPost
  <2>1. link \in Links /\ UNCHANGED board
    BY <1>2 DEF TelemetryInv, ReadOK, TelemetryThread
  <2> QED BY <1>2, <2>1, LoadPostRefines DEF Feed!Next, Feed!Sample, published, frame
<1>3. CASE TelemetryThread /\ ~LoadPost
  <2>1. telemetry_write_seq' = telemetry_write_seq
    BY <1>3 DEF TelemetryThread, board
  <2>2. accepted' = accepted
    BY <1>3 DEF TelemetryThread, TelBinds, Tick, Close, Terminate, BeginRead, LoadPre, GiveUp,
       CopyWord, read
  <2> QED BY <2>1, <2>2, FeedStutters
<1>4. CASE RepBinds \/ RepNotices \/ RepBreaks \/ ReplyTaken \/ Start \/ Stop \/ JoinRep
             \/ JoinTelemetry \/ Free \/ Subscriber \/ UNCHANGED vars
  <2>1. UNCHANGED <<board, read>>
    BY <1>4 DEF RepBinds, RepNotices, RepBreaks, ReplyTaken, RepKeeps, Start, Stop, JoinRep,
       JoinTelemetry, Free, Subscriber, vars
  <2> QED BY <2>1, FeedStutters DEF board, read
<1> QED BY <1>1, <1>2, <1>3, <1>4 DEF Next

\* Whatever the number of links, of words and of attempts: a snapshot that the reader
\* accepts is whole and the last published of its link.
THEOREM AcceptedAreLatest == Spec => AcceptedIsLatest
<1>1. Init => Feed!Init
  <2> SUFFICES ASSUME Init PROVE Feed!Init
    OBVIOUS
  <2>1. Shows(Snapshot(0)) = 0
    BY WholeCopyShows
  <2>2. accepted = [link |-> link, words |-> Snapshot(0)] /\ link \in Links
    BY DEF Init
  <2>3. frame = [link |-> link, shows |-> 0]
    BY <2>1, <2>2 DEF frame
  <2>4. 0 \div 2 = 0
    OBVIOUS
  <2>5. published = [l \in Links |-> 0]
    BY <2>4 DEF Init, published
  <2> QED BY <2>2, <2>3, <2>5 DEF Feed!Init, published, frame
<1> QED BY <1>1, Invariant, StepRefines, PTL DEF Spec, AcceptedIsLatest, Feed!Spec, published, frame
=============================================================================
