----------------------------- MODULE Telemetry ------------------------------
(***************************************************************************)
(* The telemetry feed: serving threads publish a snapshot of each link     *)
(* under a seqlock, a thread of the control server reads the snapshots and *)
(* sends them to a subscriber, and the owner of the server starts it,      *)
(* stops it and at last frees the control blocks of the links.             *)
(*                                                                         *)
(* A word of a snapshot is named by the number of the publish that wrote   *)
(* it.  Stores become visible, and loads happen, in program order, as the  *)
(* x86-64 builds of the project have it.  The owner is the only thread     *)
(* that calls start and stop, as in the application.                       *)
(***************************************************************************)
EXTENDS Integers, FiniteSets

CONSTANTS
  Links,
  Words,      \* words of a snapshot
  Retries,    \* max_retries
  HighWater,  \* frames the socket keeps for a subscriber (ZMQ_SNDHWM)
  Publishes   \* bound: publishes of each link

ASSUME TelemetryAssumption ==
  /\ Links # {} /\ Words # {} /\ IsFiniteSet(Links)
  /\ Retries \in Nat \ {0} /\ HighWater \in Nat \ {0}
  /\ Publishes \in [Links -> Nat]

VARIABLES
  telemetry_write_seq,
  telemetry,   \* the words of the snapshot of each link
  unwritten,   \* words that a publish in progress has still to write
  tel,         \* where the telemetry thread is
  todo,        \* links left in its tick
  link,        \* link it reads
  attempt,     \* attempts to read it so far
  pre,         \* telemetry_write_seq when the attempt began
  copy,        \* the words copied
  uncopied,    \* words the attempt has still to copy
  accepted,    \* history: the link and words last accepted
  pending,     \* frames the socket keeps for the subscriber
  connected,   \* whether there is a subscriber
  rep,         \* where the REP thread is
  owner,       \* where the owner is
  endpoint,    \* whether a telemetry endpoint is configured
  running_, telemetry_running_, stop_requested_

board  == <<telemetry_write_seq, telemetry, unwritten>>
read   == <<link, attempt, pre, copy, uncopied, accepted>>
feed   == <<pending, connected>>
flags  == <<endpoint, running_, telemetry_running_, stop_requested_>>
vars   == <<board, tel, todo, read, feed, rep, owner, flags>>

Snapshot(n) == [w \in Words |-> n]

IsOdd(n) == n % 2 = 1

Init ==
  /\ telemetry_write_seq = [l \in Links |-> 0]
  /\ telemetry = [l \in Links |-> Snapshot(0)]
  /\ unwritten = [l \in Links |-> {}]
  /\ tel = "none" /\ rep = "none" /\ owner = "idle"
  /\ todo = {}
  /\ link \in Links
  /\ attempt = 0 /\ pre = 0
  /\ copy = Snapshot(0) /\ uncopied = {}
  /\ accepted = [link |-> link, words |-> Snapshot(0)]
  /\ pending = 0 /\ connected = FALSE
  /\ endpoint \in BOOLEAN
  /\ running_ = FALSE /\ telemetry_running_ = FALSE /\ stop_requested_ = FALSE

(***************************************************************************)
(* publish_telemetry_snapshot, by the thread that serves the link.         *)
(***************************************************************************)

\* A mutated form of BeginPublish: the writer is not marked.
BeginUnmarked(l) ==
  /\ unwritten' = [unwritten EXCEPT ![l] = Words]
  /\ UNCHANGED <<telemetry_write_seq, telemetry>>

BeginPublish(l) ==
  /\ telemetry_write_seq' = [telemetry_write_seq EXCEPT ![l] = @ + 1]
  /\ unwritten' = [unwritten EXCEPT ![l] = Words]
  /\ UNCHANGED telemetry

\* The plain copy of the snapshot writes its words in any order.
WriteWord(l, w) ==
  /\ telemetry' = [telemetry EXCEPT ![l][w] = telemetry_write_seq[l] \div 2 + 1]
  /\ unwritten' = [unwritten EXCEPT ![l] = @ \ {w}]
  /\ UNCHANGED telemetry_write_seq

EndPublish(l) ==
  /\ telemetry_write_seq' = [telemetry_write_seq EXCEPT ![l] = @ + 1]
  /\ UNCHANGED <<telemetry, unwritten>>

Publish(l) ==
  /\ owner # "gone"
  /\ \/ /\ ~IsOdd(telemetry_write_seq[l])
        /\ telemetry_write_seq[l] \div 2 < Publishes[l]
        /\ BeginPublish(l)
     \/ \E w \in unwritten[l] : WriteWord(l, w)
     \/ /\ IsOdd(telemetry_write_seq[l])
        /\ unwritten[l] = {}
        /\ EndPublish(l)
  /\ UNCHANGED <<tel, todo, read, feed, rep, owner, flags>>

(***************************************************************************)
(* read_telemetry_snapshot, and the frame that is sent of it.              *)
(***************************************************************************)

BeginRead(l) ==
  /\ tel = "waiting"
  /\ link' = l
  /\ tel' = "loading"
  /\ todo' = todo \ {l}
  /\ attempt' = 0
  /\ copy' = Snapshot(0)
  /\ UNCHANGED <<pre, uncopied, accepted, feed>>

\* A publish in progress costs an attempt.
LoadPre ==
  /\ tel = "loading"
  /\ attempt < Retries
  /\ IF IsOdd(telemetry_write_seq[link])
     THEN attempt' = attempt + 1 /\ UNCHANGED <<tel, pre, uncopied>>
     ELSE /\ pre' = telemetry_write_seq[link]
          /\ uncopied' = Words
          /\ tel' = "copying"
          /\ UNCHANGED attempt
  /\ UNCHANGED <<todo, link, copy, accepted, feed>>

CopyWord(w) ==
  /\ tel = "copying"
  /\ copy' = [copy EXCEPT ![w] = telemetry[link][w]]
  /\ uncopied' = uncopied \ {w}
  /\ UNCHANGED <<tel, todo, link, attempt, pre, accepted, feed>>

\* A mutated form of Queued: a frame is kept past the high-water mark.
QueuedPast(n) == n + 1

\* zmq_send on a PUB socket: a frame past the high-water mark is dropped, and the
\* caller is not told.
Queued(n) == IF n < HighWater THEN n + 1 ELSE n

SendFrame ==
  /\ pending' = IF connected THEN Queued(pending) ELSE pending
  /\ UNCHANGED connected

LoadPost ==
  /\ tel = "copying"
  /\ uncopied = {}
  /\ IF telemetry_write_seq[link] = pre
     THEN /\ accepted' = [link |-> link, words |-> copy]
          /\ tel' = "waiting"
          /\ SendFrame
          /\ UNCHANGED attempt
     ELSE /\ tel' = "loading"
          /\ attempt' = attempt + 1
          /\ UNCHANGED <<accepted, feed>>
  /\ UNCHANGED <<todo, link, pre, copy, uncopied>>

\* The last copy is sent, torn or not, or the default if there is none.
GiveUp ==
  /\ tel = "loading"
  /\ attempt = Retries
  /\ tel' = "waiting"
  /\ SendFrame
  /\ UNCHANGED <<todo, read>>

(***************************************************************************)
(* run_telemetry_loop.                                                     *)
(***************************************************************************)

\* Context, socket and bind; a failure ends the thread.
TelBinds ==
  /\ tel = "starting"
  /\ tel' \in {"waiting", "ended"}
  /\ UNCHANGED <<todo, read, feed>>

\* A mutated form of EndsLoop: the stop ends the sleep only.
EndsSleep == FALSE

EndsLoop == stop_requested_

\* The sleep between two ticks ends early for a stop.
Tick ==
  /\ tel = "waiting"
  /\ todo = {}
  /\ ~EndsLoop
  /\ todo' = Links
  /\ UNCHANGED <<tel, read, feed>>

\* zmq_close; with the default linger zmq_ctx_term waits for the frames that the
\* socket keeps for a subscriber.
Close ==
  /\ tel = "waiting"
  /\ todo = {}
  /\ EndsLoop
  /\ tel' = "closing"
  /\ UNCHANGED <<todo, read, feed>>

Terminate ==
  /\ tel = "closing"
  /\ pending = 0
  /\ tel' = "ended"
  /\ connected' = FALSE
  /\ UNCHANGED <<todo, read, pending>>

TelemetryThread ==
  /\ \/ TelBinds \/ Tick \/ Close \/ Terminate
     \/ \E l \in todo : BeginRead(l)
     \/ LoadPre \/ LoadPost \/ GiveUp
     \/ \E w \in uncopied : CopyWord(w)
  /\ UNCHANGED <<board, rep, owner, flags>>

(***************************************************************************)
(* run_loop, its requests left out but for the last reply.                 *)
(***************************************************************************)

RepKeeps == UNCHANGED <<board, tel, todo, read, feed, owner, flags>>

RepBinds ==
  /\ rep = "starting"
  /\ rep' \in {"polling", "ended"}
  /\ RepKeeps

\* zmq_close and zmq_ctx_term, which waits, with the default linger, if the socket
\* still keeps a reply for a client.
RepEnds == rep' \in {"closing", "ended"}

RepNotices ==
  /\ rep = "polling"
  /\ stop_requested_
  /\ RepEnds
  /\ RepKeeps

\* An error of the socket other than the timeout ends the loop.
RepBreaks ==
  /\ rep = "polling"
  /\ RepEnds
  /\ RepKeeps

\* The client takes the reply, or goes.
ReplyTaken ==
  /\ rep = "closing"
  /\ rep' = "ended"
  /\ RepKeeps

(***************************************************************************)
(* start, stop, and the end.                                               *)
(***************************************************************************)

\* Only on a server that does not run.
Start ==
  /\ owner = "idle"
  /\ ~running_
  /\ running_' = TRUE
  /\ stop_requested_' = FALSE
  /\ rep' = "starting"
  /\ telemetry_running_' = (telemetry_running_ \/ endpoint)
  /\ tel' = IF endpoint /\ ~telemetry_running_ THEN "starting" ELSE tel
  /\ UNCHANGED <<board, todo, read, feed, owner, endpoint>>

Stop ==
  /\ owner = "idle"
  /\ running_
  /\ running_' = FALSE
  /\ stop_requested_' = TRUE
  /\ owner' = "joining rep"
  /\ UNCHANGED <<board, tel, todo, read, feed, rep, endpoint, telemetry_running_>>

\* A mutated form of AfterRep: the telemetry thread is left to end by itself.
AfterRepDone == "idle"

AfterRep == IF telemetry_running_ THEN "joining telemetry" ELSE "idle"

JoinRep ==
  /\ owner = "joining rep"
  /\ rep = "ended"
  /\ rep' = "none"
  /\ telemetry_running_' = FALSE
  /\ owner' = AfterRep
  /\ UNCHANGED <<board, tel, todo, read, feed, endpoint, running_, stop_requested_>>

JoinTelemetry ==
  /\ owner = "joining telemetry"
  /\ tel = "ended"
  /\ tel' = "none"
  /\ owner' = "idle"
  /\ UNCHANGED <<board, todo, read, feed, rep, flags>>

\* The server is destroyed, which stops it, and then the broker with the links.
Free ==
  /\ owner = "idle"
  /\ ~running_
  /\ \A l \in Links : ~IsOdd(telemetry_write_seq[l])
  /\ owner' = "gone"
  /\ UNCHANGED <<board, tel, todo, read, feed, rep, flags>>

(***************************************************************************)
(* A subscriber.                                                           *)
(***************************************************************************)

Connect ==
  /\ ~connected /\ tel \notin {"none", "starting", "ended"}
  /\ connected' = TRUE
  /\ UNCHANGED pending

Receive ==
  /\ pending > 0
  /\ pending' = pending - 1
  /\ UNCHANGED connected

Leave ==
  /\ connected
  /\ connected' = FALSE
  /\ pending' = 0

Subscriber ==
  /\ Connect \/ Receive \/ Leave
  /\ UNCHANGED <<board, tel, todo, read, rep, owner, flags>>

Next ==
  \/ \E l \in Links : Publish(l)
  \/ TelemetryThread \/ RepBinds \/ RepNotices \/ RepBreaks \/ ReplyTaken
  \/ Start \/ Stop \/ JoinRep \/ JoinTelemetry \/ Free
  \/ Subscriber

\* The threads of the server run, and so does the owner while it joins them.
Fairness ==
  /\ WF_vars(TelemetryThread) /\ WF_vars(RepBinds) /\ WF_vars(RepNotices)
  /\ WF_vars(JoinRep) /\ WF_vars(JoinTelemetry)

Spec == Init /\ [][Next]_vars /\ Fairness

\* A subscriber that goes on receiving what it is sent, and a client that takes the
\* last reply, or goes.
SubscriberReceives ==
  Receive /\ UNCHANGED <<board, tel, todo, read, rep, owner, flags>>

FairSpec == Spec /\ WF_vars(SubscriberReceives) /\ WF_vars(ReplyTaken)

(***************************************************************************)
(* Properties.                                                             *)
(***************************************************************************)

TelStates == {"none", "starting", "waiting", "loading", "copying", "closing", "ended"}

Accepted == [link : Links, words : [Words -> Nat]]

TypeOK ==
  /\ telemetry_write_seq \in [Links -> Nat]
  /\ telemetry \in [Links -> [Words -> Nat]]
  /\ unwritten \in [Links -> SUBSET Words]
  /\ tel \in TelStates
  /\ rep \in {"none", "starting", "polling", "closing", "ended"}
  /\ owner \in {"idle", "joining rep", "joining telemetry", "gone"}
  /\ todo \in SUBSET Links /\ link \in Links
  /\ attempt \in 0..Retries /\ pre \in Nat
  /\ copy \in [Words -> Nat] /\ uncopied \in SUBSET Words
  /\ accepted \in Accepted
  /\ pending \in 0..HighWater /\ connected \in BOOLEAN
  /\ endpoint \in BOOLEAN /\ running_ \in BOOLEAN
  /\ telemetry_running_ \in BOOLEAN /\ stop_requested_ \in BOOLEAN

\* The publish that a copy shows, -1 if it mixes two.
Shows(words) ==
  IF \E w \in Words : words = Snapshot(words[w])
  THEN words[CHOOSE w \in Words : TRUE] ELSE -1

Feed == INSTANCE TelemetryFeed WITH
  published <- [l \in Links |-> telemetry_write_seq[l] \div 2],
  frame <- [link |-> accepted.link, shows |-> Shows(accepted.words)]

\* A snapshot that read_telemetry_snapshot accepts is whole, and the last one that its
\* link had published, although nobody takes a lock.
AcceptedIsLatest == Feed!Spec

\* When stop has returned no thread of the server is left: start may assign the
\* threads anew, and the control blocks may be freed.
StopLeavesNoThread ==
  owner = "gone" \/ (owner = "idle" /\ ~running_) => tel = "none" /\ rep = "none"

\* A stop returns: both threads notice it, whatever they are at, and end.
StopReturns == owner \in {"joining rep", "joining telemetry"} ~> owner = "idle"
=============================================================================
