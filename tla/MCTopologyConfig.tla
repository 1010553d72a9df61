-------------------------- MODULE MCTopologyConfig --------------------------
(* Files of two radios and three links.  Damaged: a topology with every kind *)
(* of line, and that file with one line damaged.  Topologies: the values     *)
(* that decide the fold, the validation and the choice of the backend, and   *)
(* pairs of delays that agree in six digits.                                 *)
EXTENDS TopologyConfig

L(n, k, v) == [indent |-> n, dash |-> FALSE, key |-> k, value |-> v]
D(n, k, v) == [indent |-> n, dash |-> TRUE, key |-> k, value |-> v]
H(n, k)    == L(n, k, Empty)

RuntimeBlock(backend, queue) ==
  <<H(0, "runtime"), L(2, "backend", Word(backend)), L(2, "queue_samples", Num(queue))>>

DeviceItem(id, rate, rx) ==
  <<D(2, "id", Word(id)), L(4, "sample_rate_hz", Num(rate)),
    L(4, "tx_endpoint", Word("tcp")), L(4, "rx_endpoint", Word("tcp"))>>
  \o (IF rx = "" THEN <<>> ELSE <<L(4, "rx_model", Word(rx))>>)

LinkItem(from, to, model, prop) ==
  <<D(2, "from", Word(from)), L(4, "to", Word(to)), L(4, "model", Word(model))>>
  \o (IF prop = 0 THEN <<>> ELSE <<L(4, "propagation_delay_samples", Num(prop))>>)

\* A profile of two taps, a loss, and a tdl step that does not lead.
ModelBlock ==
  <<H(0, "models"),
    H(2, "tdl"), H(4, "chain"),
      D(6, "type", Word("tdl")), H(8, "taps"),
        D(10, "delay_samples", Num(0)), L(12, "gain_db", Num(-3)),
        D(10, "delay_samples", Num(150)),
    H(2, "loss"), H(4, "chain"),
      D(6, "type", Word("path_loss")), L(8, "path_loss_db", Num(6)),
    H(2, "late"), H(4, "chain"),
      D(6, "path_loss_db", Num(6)), L(8, "type", Word("path_loss")),
      D(6, "type", Word("tdl")), H(8, "taps"), D(10, "delay_samples", Num(200))>>

Topology(backend, queue, rate, rx, offset, toModel, toProp, backModel, backProp) ==
  RuntimeBlock(backend, queue) \o <<H(0, "devices")>>
  \o DeviceItem("gnb", rate, rx) \o <<L(4, "tx_timing_offset_samples", Num(offset))>>
  \o DeviceItem("ue", 3000, "") \o <<H(0, "links")>>
  \o LinkItem("gnb", "ue", toModel, toProp)
  \o LinkItem("gnb", "ue", "tdl", 400)
  \o LinkItem("ue", "gnb", backModel, backProp) \o ModelBlock

Topologies ==
  {Topology(b, 6, 3000, rx, off, m1, p1, m2, p2) :
     b \in {"cpu", "cuda"}, rx \in {"", "tdl"}, off \in {0, 200},
     m1 \in {"tdl", "late"}, p1 \in {0, 400, 200, KMaxTapDelaySamples - 250},
     m2 \in {"tdl", "loss", "none"}, p2 \in {0, 600}}
  \cup {Topology("cpu", q, r, "", -100, "tdl", p, "loss", 0) :
          q \in {0, 5, 6}, r \in {0, 3000, 4000}, p \in {0, 100}}
  \cup {Topology("cpu", q, r, "", 0, "tdl", p, "loss", 0) :
          q \in {0, 5, 6}, r \in {0, 3000, 4000}, p \in {-100, 100}}
  \cup {Topology("cpu", 6, 3000, "", 0, "tdl", p1, "tdl", p2) :
          p1, p2 \in {KMaxTapDelaySamples \div 100 + n : n \in {0, 1, 4, 6}}}

Fading ==
  <<H(2, "los"), H(4, "chain"),
      D(6, "type", Word("tdl")),
      H(8, "fading"), L(10, "f_d_max_hz", Num(5)), L(10, "spectrum", Word("jakes")),
      H(8, "taps"),
        D(10, "is_los", Word("true")), L(12, "los_k_db", Num(13)),
        L(12, "phase_rad", Num(0)), D(10, "delay_samples", Num(100)),
      D(6, "type", Word("awgn")), L(8, "snr_db", Num(20))>>

Whole ==
  Topology("cuda", 6, 3000, "loss", 200, "los", 400, "loss", 0)
  \o Fading \o <<H(0, "runtime"), L(2, "batch_samples", Word("auto"))>>

With(i, line) == [Whole EXCEPT ![i] = line]

Damaged ==
  LET N == 1..Len(Whole) IN
  {Whole, <<L(2, "role", Word("stray"))>> \o Whole}
  \cup {RemoveAt(Whole, i) : i \in N}
  \cup {InsertAt(Whole, i, Whole[i]) : i \in N}
  \cup {[Whole EXCEPT ![i] = Whole[i + 1], ![i + 1] = Whole[i]] : i \in 1..(Len(Whole) - 1)}
  \cup {With(i, [Whole[i] EXCEPT !.indent = n]) : i \in N, n \in {0, 2, 4, 6, 8, 10, 12}}
  \cup {With(i, [Whole[i] EXCEPT !.dash = ~@]) : i \in N}
  \cup {With(i, [Whole[i] EXCEPT !.value = v]) : i \in N, v \in {Empty, Flow, Word("x"), Num(1)}}

\* Every block that a file may repeat: lists of taps, fadings, chains, a model id, keys.
Repeated ==
  <<H(0, "models"),
    H(2, "a"), H(4, "chain"),
      D(6, "type", Word("tdl")),
      H(8, "taps"), D(10, "gain_db", Num(1)),
      H(8, "fading"), L(10, "grid_us", Num(3)),
      H(8, "taps"), D(10, "gain_db", Num(2)), L(12, "gain_db", Num(4)),
    H(4, "chain"), D(6, "x", Num(1)), L(8, "x", Num(2)), L(8, "type", Word("awgn")),
    H(2, "b"), H(4, "chain"), D(6, "y", Num(1)),
    H(2, "a"), H(4, "chain"),
      D(6, "z", Num(1)), H(8, "fading"), L(10, "grid_us", Num(3)), L(10, "grid_us", Num(4)),
    H(0, "links"), D(4, "from", Word("q")), D(2, "from", Word("r")), L(6, "to", Word("k"))>>

Repeats ==
  {Repeated} \cup {RemoveAt(Repeated, i) : i \in DOMAIN Repeated}
  \cup {InsertAt(Repeated, i, Repeated[j]) : i \in DOMAIN Repeated, j \in {5, 7, 10, 12, 16}}

SomeFiles == Topologies \cup Damaged \cup Repeats
=============================================================================
